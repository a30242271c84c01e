------------------------------ MODULE RingProofs ------------------------------
(***************************************************************************)
(* What the ring arithmetic computes, for rings of every length: tcp.c and *)
(* sock.c count right as long as no more bytes wait than the ring holds.   *)
(***************************************************************************)
EXTENDS RingWindow, TLAPS

\* A number is a multiple of the modulus and a remainder.
LEMMA Remainder ==
  ASSUME NEW n \in Int, NEW M \in Nat \ {0}
  PROVE  /\ n % M \in 0 .. M - 1
         /\ \E q \in Int : n = M * q + (n % M)
<1>1. n % M \in 0 .. M - 1 /\ n \div M \in Int /\ n = M * (n \div M) + (n % M)
  OBVIOUS
<1> QED BY <1>1

LEMMA Division ==
  ASSUME NEW n \in Int, NEW last \in Nat
  PROVE  /\ Slot(n, last) \in 0 .. last
         /\ \E q \in Int : n = (last + 1) * q + Slot(n, last)
<1> DEFINE M == last + 1
<1>1. M \in Nat \ {0} /\ M - 1 = last
  OBVIOUS
<1> HIDE DEF M
<1>2. n % M \in 0 .. M - 1 /\ \E q \in Int : n = M * q + (n % M)
  BY <1>1, Remainder
<1>3. n % M = Slot(n, last) /\ M = last + 1
  BY DEF M, Slot
<1> QED BY <1>1, <1>2, <1>3

\* Numbers that are less than a ring apart differ by the distance of their slots.
LEMMA Distance ==
  ASSUME NEW last \in Nat, NEW a \in Int, NEW b \in Int, a <= b, b - a <= last
  PROVE  b - a = IF Slot(b, last) >= Slot(a, last)
                 THEN Slot(b, last) - Slot(a, last)
                 ELSE last + 1 - Slot(a, last) + Slot(b, last)
<1> DEFINE M == last + 1
           ra == Slot(a, last)
           rb == Slot(b, last)
<1>1. PICK qa \in Int : a = M * qa + ra
  BY Division
<1>2. PICK qb \in Int : b = M * qb + rb
  BY Division
<1>3. ra \in 0 .. last /\ rb \in 0 .. last
  BY Division
<1>m. M \in Nat \ {0} /\ M = last + 1
  OBVIOUS
<1> HIDE DEF M, ra, rb
<1> DEFINE x == qb - qa
<1>4. x \in Int /\ M * qb - M * qa = M * x
  BY <1>m
<1>5. b - a = M * x + rb - ra
  BY <1>1, <1>2, <1>3, <1>4, <1>m
<1>6. x \in {0, 1}
  <2> HIDE DEF x
  <2>1. x >= 2 => M * x >= 2 * M
    BY <1>4, <1>m
  <2>2. x < 0 => M * x <= -M
    BY <1>4, <1>m
  <2> QED BY <2>1, <2>2, <1>3, <1>4, <1>5, <1>m
<1>7. M * x = 0 \/ M * x = M
  BY <1>6, <1>m
<1>8. rb >= ra => b - a = rb - ra
  BY <1>3, <1>5, <1>7, <1>m
<1>9. ~ (rb >= ra) => b - a = last + 1 - ra + rb
  BY <1>3, <1>5, <1>7, <1>m
<1> QED BY <1>8, <1>9 DEF ra, rb

\* The code finds what waits in the ring and the room that is left, wherever the
\* ring is cut (sock.c 179-190, 239-253; tcp.c 97-110, 374-386).
THEOREM UsedAndRoom ==
  ASSUME NEW last \in Nat, NEW beg \in Int, NEW end \in Int,
         beg <= end, end - beg <= last
  PROVE  /\ Used(beg, end, last) = end - beg
         /\ Room(beg, end, last) = last - (end - beg)
<1>1. Slot(beg, last) \in 0 .. last /\ Slot(end, last) \in 0 .. last
  BY Division
<1>2. end - beg = IF Slot(end, last) >= Slot(beg, last)
                  THEN Slot(end, last) - Slot(beg, last)
                  ELSE last + 1 - Slot(beg, last) + Slot(end, last)
  BY Distance
<1> QED BY <1>1, <1>2 DEF Used, Room

\* Whatever the numbers are, the counts stay within the ring.
LEMMA CountsBounded ==
  ASSUME NEW last \in Nat, NEW beg \in Int, NEW end \in Int
  PROVE  Used(beg, end, last) \in 0 .. last /\ Room(beg, end, last) \in 0 .. last
<1>1. Slot(beg, last) \in 0 .. last /\ Slot(end, last) \in 0 .. last
  BY Division
<1> QED BY <1>1 DEF Used, Room

\* Clip never exceeds the room.
LEMMA ClipBounded ==
  ASSUME NEW len \in Nat, NEW room \in Nat
  PROVE  Clip(len, room) \in Nat /\ Clip(len, room) <= len /\ Clip(len, room) <= room
BY DEF Clip

\* The slot of n, seen from the slot at which at lies.
LEMMA SlotFrom ==
  ASSUME NEW last \in Nat, NEW n \in Int, NEW at \in Int, NEW i \in 0 .. last,
         n - at = i \/ n - at = i - (last + 1)
  PROVE  Slot(Slot(n, last) - at, last) = i
<1> DEFINE M == last + 1
           r == Slot(n, last)
           s == Slot(r - at, last)
<1>1. r \in 0 .. last
  BY Division
<1>2. PICK q \in Int : n = M * q + r
  BY Division
<1> HIDE DEF r
<1>n. r - at \in Int
  BY <1>1
<1>3. s \in 0 .. last
  BY <1>n, Division
<1>4. PICK p \in Int : r - at = M * p + s
  BY <1>n, Division
<1>m. M \in Nat \ {0} /\ M = last + 1
  OBVIOUS
<1> HIDE DEF M, r, s
<1> DEFINE x == p + q
<1>5. x \in Int /\ M * p + M * q = M * x
  BY <1>m
<1>6. n - at = M * x + s
  BY <1>1, <1>2, <1>3, <1>4, <1>5, <1>m
<1> HIDE DEF x
<1>e. M * (x + 1) = M * x + M
  BY <1>5, <1>m
<1>7. PICK y \in Int : i = M * y + s
  <2>1. CASE n - at = i
    BY <1>5, <1>6, <2>1
  <2>2. CASE n - at = i - (last + 1)
    <3>1. i = M * (x + 1) + s
      BY <1>3, <1>5, <1>6, <1>e, <1>m, <2>2
    <3> QED BY <3>1, <1>5
  <2> QED BY <2>1, <2>2
<1>8. y \in Int
  BY <1>7
<1>9. y >= 1 => M * y >= M
  BY <1>8, <1>m
<1>10. y <= -1 => M * y <= -M
  BY <1>8, <1>m
<1>11. y = 0
  BY <1>3, <1>7, <1>8, <1>9, <1>10, <1>m
<1>12. M * y = 0
  BY <1>11, <1>m
<1> QED BY <1>3, <1>7, <1>12 DEF r, s

\* Storing puts each byte where its number is looked for and leaves the bytes
\* before it alone, as long as all of them fit (tcp.c 388-407; sock.c 255-267).
THEOREM FillStores ==
  ASSUME NEW last \in Nat, NEW ring, NEW at \in Int, NEW bytes \in Seq(Nat),
         NEW n \in Int
  PROVE  /\ at <= n /\ n - at < Len(bytes) /\ Len(bytes) <= last + 1
              => Fill(ring, at, bytes, last)[Slot(n, last)] = bytes[n - at + 1]
         /\ n < at /\ at - n + Len(bytes) <= last + 1
              => Fill(ring, at, bytes, last)[Slot(n, last)] = ring[Slot(n, last)]
<1>0. Len(bytes) \in Nat
  OBVIOUS
<1>1. Slot(n, last) \in 0 .. last
  BY Division
<1>2. ASSUME at <= n, n - at < Len(bytes), Len(bytes) <= last + 1
      PROVE  Fill(ring, at, bytes, last)[Slot(n, last)] = bytes[n - at + 1]
  <2>1. Slot(Slot(n, last) - at, last) = n - at
    BY <1>0, <1>2, SlotFrom
  <2> QED BY <1>0, <1>1, <1>2, <2>1 DEF Fill
<1>3. ASSUME n < at, at - n + Len(bytes) <= last + 1
      PROVE  Fill(ring, at, bytes, last)[Slot(n, last)] = ring[Slot(n, last)]
  <2>1. Slot(Slot(n, last) - at, last) = n - at + last + 1
    BY <1>0, <1>3, SlotFrom
  <2> QED BY <1>0, <1>1, <1>3, <2>1 DEF Fill
<1> QED BY <1>2, <1>3

\* A ring of bytes stays one.
LEMMA FillType ==
  ASSUME NEW last \in Nat, NEW ring \in [0 .. last -> Nat], NEW at \in Int,
         NEW bytes \in Seq(Nat)
  PROVE  Fill(ring, at, bytes, last) \in [0 .. last -> Nat]
<1>1. ASSUME NEW k \in 0 .. last
      PROVE  Slot(k - at, last) \in 0 .. last
  <2>1. k - at \in Int
    OBVIOUS
  <2> QED BY <2>1, Division
<1>2. Fill(ring, at, bytes, last) \in [0 .. last -> Nat]
  <2>1. ASSUME NEW i \in 0 .. last, NEW k \in 0 .. last
        PROVE  (IF i < Len(bytes) THEN bytes[i + 1] ELSE ring[k]) \in Nat
    <3>1. Len(bytes) \in Nat
      OBVIOUS
    <3>2. i < Len(bytes) => bytes[i + 1] \in Nat
      BY <3>1
    <3> QED BY <3>2
  <2> QED BY <1>1, <2>1 DEF Fill
<1> QED BY <1>2

\* What is fetched are bytes, from the slots of their numbers.
LEMMA FetchType ==
  ASSUME NEW last \in Nat, NEW ring \in [0 .. last -> Nat], NEW at \in Int,
         NEW n \in Nat
  PROVE  /\ Fetch(ring, at, n, last) \in Seq(Nat)
         /\ Len(Fetch(ring, at, n, last)) = n
         /\ \A i \in 1 .. n : Fetch(ring, at, n, last)[i] = ring[Slot(at + i - 1, last)]
<1>3. ASSUME NEW i \in 1 .. n
      PROVE  Slot(at + i - 1, last) \in 0 .. last
  <2>1. at + i - 1 \in Int
    OBVIOUS
  <2> QED BY <2>1, Division
<1>4. \A i \in 1 .. n : ring[Slot(at + i - 1, last)] \in Nat
  BY <1>3
<1> DEFINE f == [i \in 1 .. n |-> ring[Slot(at + i - 1, last)]]
<1>5. f \in Seq(Nat) /\ Len(f) = n /\ \A i \in 1 .. n : f[i] = ring[Slot(at + i - 1, last)]
  <2>1. f \in [1 .. n -> Nat] /\ DOMAIN f = 1 .. n
    BY <1>4
  <2> HIDE DEF f
  <2>2. f \in Seq(Nat)
    BY <2>1
  <2>3. Len(f) = n
    BY <2>1, <2>2
  <2> QED BY <2>2, <2>3 DEF f
<1> QED BY <1>5 DEF Fetch

\* Masking does not see that 32-bit numbers wrap, because the number of slots
\* divides 2^32.
THEOREM WrapKeepsSlot ==
  ASSUME NEW last \in Nat, NEW n \in Nat, NEW width \in Nat, NEW c \in Nat,
         width = c * (last + 1), width > 0
  PROVE  Slot(n % width, last) = Slot(n, last)
<1> DEFINE M == last + 1
           w == n % width
<1>1. M \in Nat \ {0} /\ width \in Nat \ {0} /\ width = c * M /\ n \in Int /\ c \in Int
  OBVIOUS
<1>m. Slot(w, last) = w % M /\ Slot(n, last) = n % M
  BY DEF Slot
<1> HIDE DEF M
<1>2. PICK q \in Int : n = width * q + w
  <2>1. \E q \in Int : n = width * q + (n % width)
    <3> HIDE DEF w
    <3> QED BY <1>1, Remainder
  <2> QED BY <2>1
<1>w. w \in Int
  BY <1>1
<1>r. w % M = (n % width) % M
  OBVIOUS
<1> HIDE DEF w
<1>3. PICK p \in Int : w = M * p + (w % M)
  BY <1>1, <1>w, Remainder
<1>4. PICK k \in Int : n = M * k + (n % M)
  BY <1>1, Remainder
<1>5. w % M \in 0 .. M - 1 /\ n % M \in 0 .. M - 1
  BY <1>1, <1>w, Remainder
<1> DEFINE x == c * q + p - k
           d == (n % M) - (w % M)
<1>6. x \in Int /\ d \in Int /\ d < M /\ -M < d
  BY <1>1, <1>5
<1>7. width * q = M * (c * q)
  BY <1>1
<1>8. M * x = M * (c * q) + M * p - M * k
  BY <1>1
<1>9. d = M * x
  <2> DEFINE rw == w % M
             rn == n % M
             cq == c * q
  <2>1. rw \in Int /\ rn \in Int /\ d = rn - rw
    BY <1>1, <1>5
  <2>2. w = M * p + rw /\ n = M * k + rn
    BY <1>3, <1>4
  <2>3. cq \in Int /\ n = M * cq + w /\ M * x = M * cq + M * p - M * k
    BY <1>1, <1>2, <1>7, <1>8
  <2> HIDE DEF rw, rn, cq, x, d
  <2> QED BY <1>1, <1>w, <2>1, <2>2, <2>3
<1> HIDE DEF x
<1>10. x >= 1 => M * x >= M
  BY <1>1, <1>6
<1>11. x <= -1 => M * x <= -M
  BY <1>1, <1>6
<1>12. x = 0
  BY <1>1, <1>6, <1>9, <1>10, <1>11
<1>13. M * x = 0
  BY <1>1, <1>12
<1>14. d = 0
  BY <1>9, <1>13
<1>15. w % M = n % M
  BY <1>5, <1>14
<1> QED BY <1>15, <1>m DEF w
=============================================================================
