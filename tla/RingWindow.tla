------------------------------ MODULE RingWindow ------------------------------
(***************************************************************************)
(* The arithmetic of the receive and transmit rings.  A ring is addressed  *)
(* by sequence numbers: number n lives in slot n & last, where last is     *)
(* TCP_RX_BUF_LEN or TCP_TX_BUF_LEN, one less than the slots of the ring.  *)
(* The code repeats these computations in tcp.c and sock.c.                *)
(*                                                                         *)
(* The numbers are 32 bits wide in the code.  A mask of low bits does not  *)
(* see that they wrap (RingProofs!WrapKeepsSlot), and they are otherwise   *)
(* only compared for equality or subtracted, so naturals stand for them.   *)
(***************************************************************************)
EXTENDS Integers, Sequences

Slot(n, last) == n % (last + 1)

Clip(len, room) == IF len > room THEN room ELSE len

\* The bytes from beg up to end, as sock_read and tcp_set_state count them.
Used(beg, end, last) ==
  LET b == Slot(beg, last)
      e == Slot(end, last)
  IN  IF e >= b THEN e - b ELSE last - b + e + 1

\* Variant: the slot that tells a full ring from an empty one is given away.
RoomOfAllSlots(beg, end, last) ==
  LET b == Slot(beg, last)
      e == Slot(end, last)
  IN  IF b > e THEN b - e ELSE last - e + b

\* The free bytes behind end, as tcp_recv and sock_write compute them.
Room(beg, end, last) ==
  LET b == Slot(beg, last)
      e == Slot(end, last)
  IN  IF b > e THEN b - e - 1 ELSE last - e + b

\* The ring after the bytes were stored one by one from number at on.
Fill(ring, at, bytes, last) ==
  [k \in 0 .. last |->
     LET i == Slot(k - at, last)
     IN  IF i < Len(bytes) THEN bytes[i + 1] ELSE ring[k]]

\* n bytes fetched one by one from number at on.
Fetch(ring, at, n, last) == [i \in 1 .. n |-> ring[Slot(at + i - 1, last)]]

=============================================================================
