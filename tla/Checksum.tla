------------------------------- MODULE Checksum -------------------------------
(***************************************************************************)
(* Byte order and the Internet checksum (sys.c, tcp.c), with 16-bit words  *)
(* on a little-endian processor.  A number in a packet is two bytes, the   *)
(* high one first; the processor reads the first byte as the low one.      *)
(*                                                                         *)
(* A 32-bit sum of the words of a frame cannot overflow, so it is a        *)
(* natural number.                                                         *)
(***************************************************************************)
EXTENDS Naturals, Sequences

Byte == {n \in Nat : n < 256}
Word == {n \in Nat : n < 65536}

memswap(w) == (w % 256) * 256 + w \div 256

\* Words as the bytes of a packet.
NetBytes(words) ==
  [k \in 1 .. 2 * Len(words) |->
     LET w == words[(k + 1) \div 2] IN IF k % 2 = 1 THEN w \div 256 ELSE w % 256]

\* Variant: an odd last byte is left out.
SumOfPairs(bytes) ==
  LET sum[n \in 0 .. Len(bytes)] ==
        IF n < 2 THEN 0
        ELSE IF n % 2 = 1 THEN sum[n - 1]
        ELSE sum[n - 2] + bytes[n - 1] + 256 * bytes[n]
  IN  sum[Len(bytes)]

\* The words as the processor reads them; an odd last byte is a low one.
Sum(bytes) ==
  LET sum[n \in 0 .. Len(bytes)] ==
        IF n = 0 THEN 0
        ELSE sum[n - 1] + (IF n % 2 = 1 THEN bytes[n] ELSE 256 * bytes[n])
  IN  sum[Len(bytes)]

\* Variant: carries are dropped.
Truncated(sum) == sum % 65536

\* Carries are added until none is left.
Folded(sum) ==
  LET fold[s \in 0 .. sum] ==
        IF s < 65536 THEN s ELSE fold[(s % 65536) + (s \div 65536)]
  IN  fold[sum]

checksum(bytes) == 65535 - Folded(Sum(bytes))

\* The checksum tcp_checksum leaves in the header of a segment between two
\* addresses: the pseudo header is put into packet order.  int has 16 bits on the
\* 80C196, so ~checksum(...) is the folded sum again.
tcp_checksum(bytes, src, dst) ==
  65535 - Folded(memswap(Len(bytes)) + memswap(6)
                   + Sum(NetBytes(src \o dst)) + (65535 - checksum(bytes)))

-----------------------------------------------------------------------------
(* The checksum of RFC 1071, for the words of the packet as the network    *)
(* counts them: what hosts compute that have nothing in common with this   *)
(* code.                                                                   *)

NetSum(bytes) ==
  LET sum[n \in 0 .. Len(bytes)] ==
        IF n = 0 THEN 0
        ELSE sum[n - 1] + (IF n % 2 = 1 THEN 256 * bytes[n] ELSE bytes[n])
  IN  sum[Len(bytes)]

\* Of the bytes there is one that is not zero.
NetChecksum(bytes) == 65535 - (((NetSum(bytes) - 1) % 65535) + 1)

Verifies(bytes) == NetSum(bytes) > 0 /\ NetSum(bytes) % 65535 = 0

=============================================================================
