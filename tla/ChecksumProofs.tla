---------------------------- MODULE ChecksumProofs ----------------------------
(***************************************************************************)
(* Proofs about Checksum, for packets of every length.                     *)
(*                                                                         *)
(* Sum and Folded are recursive.  Induction is stated for a set of         *)
(* numbers instead of a predicate: the library's induction theorems take   *)
(* an operator, which none of the provers can instantiate, but the         *)
(* minimal element of a set is a first-order fact (WFMin).                 *)
(***************************************************************************)
EXTENDS Checksum, WellFoundedInduction, SequenceTheorems, TLAPS

-----------------------------------------------------------------------------
(* Induction.                                                              *)

\* Induction: a set with 0 that is closed under the successor holds every
\* number.
LEMMA Induction ==
  ASSUME NEW P, 0 \in P, \A n \in Nat : n \in P => n + 1 \in P
  PROVE  \A n \in Nat : n \in P
<1> SUFFICES ASSUME NEW k \in Nat, k \notin P PROVE FALSE
  OBVIOUS
<1> DEFINE Less == {ss \in Nat \X Nat : ss[1] < ss[2]}
           Bad == {n \in Nat : n \notin P}
<1>1. IsWellFoundedOn(OpToRel(<, Nat), Nat)
  BY NatLessThanWellFounded, Zenon
<1>2. IsWellFoundedOn(Less, Nat)
  BY <1>1, Zenon DEF OpToRel
<1>3. Bad \subseteq Nat /\ Bad # {}
  OBVIOUS
<1>4. PICK x \in Bad : \A y \in Bad : ~ (<<y, x>> \in Less)
  <2> HIDE DEF Less, Bad
  <2> QED
    BY <1>2, <1>3, WFMin
<1>5. \A y \in Bad : ~ (y < x)
  BY <1>4
<1>6. x \in Nat /\ x # 0
  OBVIOUS
<1>7. x - 1 \in Nat /\ x - 1 < x /\ (x - 1) + 1 = x
  BY <1>6
<1>8. x - 1 \notin Bad
  BY <1>5, <1>7
<1> QED
  BY <1>7, <1>8

\* The same up to a bound.
LEMMA BoundedInduction ==
  ASSUME NEW P, NEW L \in Nat, 0 \in P,
         \A n \in Nat : n < L /\ n \in P => n + 1 \in P
  PROVE  \A n \in 0 .. L : n \in P
<1> DEFINE Q == {n \in Nat : n <= L => n \in P}
<1>1. 0 \in Q
  OBVIOUS
<1>2. \A n \in Nat : n \in Q => n + 1 \in Q
  OBVIOUS
<1>3. \A n \in Nat : n \in Q
  <2> HIDE DEF Q
  <2> QED
    BY <1>1, <1>2, Induction
<1> QED
  BY <1>3

-----------------------------------------------------------------------------
(* Running totals of a function t.                                         *)

\* s is the running total of the terms t, as Sum and NetSum define theirs.
IsTotal(s, t, L) == s = [n \in 0 .. L |-> IF n = 0 THEN 0 ELSE s[n - 1] + t[n]]

\* What a running total is step by step.
Steps(s, t, L) == s[0] = 0 /\ \A n \in Nat : n < L => s[n + 1] = s[n] + t[n + 1]

\* A running total starts at 0 and adds a term at each step.
LEMMA TotalSteps ==
  ASSUME NEW L \in Nat, NEW t, NEW s, IsTotal(s, t, L)
  PROVE  Steps(s, t, L)
<1>1. \A n \in 0 .. L : s[n] = IF n = 0 THEN 0 ELSE s[n - 1] + t[n]
  BY DEF IsTotal
<1>2. s[0] = 0
  BY <1>1
<1>3. ASSUME NEW n \in Nat, n < L
      PROVE  s[n + 1] = s[n] + t[n + 1]
  <2>1. n + 1 \in 0 .. L /\ n + 1 # 0 /\ (n + 1) - 1 = n
    BY <1>3
  <2> QED
    BY <1>1, <2>1
<1> QED
  BY <1>2, <1>3 DEF Steps

\* Running totals of numbers are numbers.
LEMMA TotalType ==
  ASSUME NEW L \in Nat, NEW t \in [1 .. L -> Nat], NEW s, IsTotal(s, t, L)
  PROVE  s \in [0 .. L -> Nat]
<1> DEFINE P == {n \in Nat : s[n] \in Nat}
<1>0. Steps(s, t, L)
  BY TotalSteps
<1>1. 0 \in P
  BY <1>0 DEF Steps
<1>2. ASSUME NEW n \in Nat, n < L, n \in P
      PROVE  n + 1 \in P
  <2>1. s[n + 1] = s[n] + t[n + 1]
    BY <1>0, <1>2 DEF Steps
  <2>2. t[n + 1] \in Nat
    BY <1>2
  <2> QED
    BY <1>2, <2>1, <2>2
<1>3. \A n \in 0 .. L : n \in P
  <2> HIDE DEF P
  <2> QED
    BY <1>1, <1>2, BoundedInduction
<1>4. \A n \in 0 .. L : s[n] \in Nat
  BY <1>3
<1> QED
  BY <1>4 DEF IsTotal

\* Every sequence of terms has a running total.
LEMMA TotalExists ==
  ASSUME NEW L \in Nat, NEW t \in [1 .. L -> Nat]
  PROVE  \E s : IsTotal(s, t, L)
<1> DEFINE Has(n) == \E s \in [0 .. n -> Nat] : IsTotal(s, t, n)
           P == {n \in Nat : Has(n)}
<1>1. 0 \in P
  <2>1. [i \in 0 .. 0 |-> 0] \in [0 .. 0 -> Nat]
    OBVIOUS
  <2>2. IsTotal([i \in 0 .. 0 |-> 0], t, 0)
    BY DEF IsTotal
  <2> QED
    BY <2>1, <2>2
<1>2. ASSUME NEW n \in Nat, n < L, n \in P
      PROVE  n + 1 \in P
  <2>1. PICK s \in [0 .. n -> Nat] : IsTotal(s, t, n)
    BY <1>2
  <2>2. t[n + 1] \in Nat /\ s[n] \in Nat
    BY <1>2
  <2> DEFINE u == [i \in 0 .. n + 1 |-> IF i <= n THEN s[i] ELSE s[n] + t[n + 1]]
  <2>3. u \in [0 .. n + 1 -> Nat]
    BY <2>2
  <2>4. \A i \in 0 .. n : s[i] = IF i = 0 THEN 0 ELSE s[i - 1] + t[i]
    BY <2>1 DEF IsTotal
  <2>5. ASSUME NEW i \in 0 .. n + 1
        PROVE  u[i] = IF i = 0 THEN 0 ELSE u[i - 1] + t[i]
    <3>1. CASE i = 0
      BY <2>4, <3>1
    <3>2. CASE i \in 1 .. n
      <4>1. u[i] = s[i] /\ u[i - 1] = s[i - 1]
        BY <3>2
      <4> QED
        BY <2>4, <3>2, <4>1
    <3>3. CASE i = n + 1
      <4>1. u[i] = s[n] + t[n + 1] /\ u[i - 1] = s[n]
        BY <3>3
      <4> QED
        BY <3>3, <4>1
    <3> QED
      BY <3>1, <3>2, <3>3
  <2>6. IsTotal(u, t, n + 1)
    BY <2>5 DEF IsTotal
  <2> HIDE DEF u
  <2>7. Has(n + 1)
    BY <2>3, <2>6, Zenon
  <2> HIDE DEF Has
  <2> QED
    BY <2>7
<1>3. \A n \in 0 .. L : n \in P
  <2> HIDE DEF P
  <2> QED
    BY <1>1, <1>2, BoundedInduction
<1> QED
  BY <1>3

-----------------------------------------------------------------------------
(* Sum adds up words.                                                      *)

\* The low byte of a word counts once, the high one 256 times.
Terms(b) == [n \in 1 .. Len(b) |-> IF n % 2 = 1 THEN b[n] ELSE 256 * b[n]]

\* What a sequence of bytes holds.
LEMMA ByteAt ==
  ASSUME NEW b \in Seq(Byte), NEW n \in 1 .. Len(b)
  PROVE  b[n] \in Nat /\ b[n] < 256
<1>1. b[n] \in Byte
  BY ElementOfSeq
<1>2. \A w \in Byte : w \in Nat /\ w < 256
  BY SMT DEF Byte
<1> QED
  BY <1>1, <1>2, SMT

\* The terms of the processor's sum are numbers.
LEMMA TermsType ==
  ASSUME NEW b \in Seq(Byte)
  PROVE  Len(b) \in Nat /\ Terms(b) \in [1 .. Len(b) -> Nat]
<1>1. \A n \in 1 .. Len(b) : b[n] \in Nat
  BY ByteAt
<1> QED
  BY <1>1 DEF Terms

\* Sum is the last of the running totals of its terms.
LEMMA SumIsTotal ==
  ASSUME NEW b \in Seq(Byte)
  PROVE  \E s \in [0 .. Len(b) -> Nat] :
           IsTotal(s, Terms(b), Len(b)) /\ Sum(b) = s[Len(b)]
<1> DEFINE Good(s) == s = [n \in 0 .. Len(b) |->
             IF n = 0 THEN 0
             ELSE s[n - 1] + (IF n % 2 = 1 THEN b[n] ELSE 256 * b[n])]
           c == CHOOSE s : Good(s)
<1>1. \A s : Good(s) <=> IsTotal(s, Terms(b), Len(b))
  BY DEF IsTotal, Terms
<1>2. \E s : Good(s)
  BY <1>1, TermsType, TotalExists
<1>3. Good(c)
  BY <1>2
<1>4. Sum(b) = c[Len(b)]
  BY DEF Sum
<1>5. IsTotal(c, Terms(b), Len(b))
  BY <1>1, <1>3
<1>6. c \in [0 .. Len(b) -> Nat]
  BY <1>5, TermsType, TotalType
<1> QED
  BY <1>4, <1>5, <1>6

-----------------------------------------------------------------------------
(* Division with remainder, and the multiples of 65535.                    *)

\* Division with remainder.
LEMMA DivMod ==
  ASSUME NEW n \in Nat, NEW M \in Nat \ {0}
  PROVE  /\ n % M \in 0 .. M - 1 /\ n \div M \in Nat
         /\ n = M * (n \div M) + (n % M)
<1>1. n % M \in 0 .. M - 1 /\ n \div M \in Int /\ n = M * (n \div M) + (n % M)
  BY SMT
<1>2. n \div M >= 0
  BY SMT
<1> QED
  BY <1>1, <1>2

\* A sum is its carries and its low word.
LEMMA DivideByBase ==
  ASSUME NEW n \in Nat
  PROVE  /\ n % 65536 \in Nat /\ n % 65536 < 65536
         /\ n \div 65536 \in Nat
         /\ n = 65536 * (n \div 65536) + (n % 65536)
<1> DEFINE M == 65536
<1>1. M \in Nat \ {0} /\ M = 65536
  BY SMT
<1> HIDE DEF M
<1> DEFINE q == n \div M
           r == n % M
<1>2. r \in Nat /\ r < 65536 /\ q \in Nat /\ n = M * q + r
  BY <1>1, DivMod
<1>3. q = n \div 65536 /\ r = n % 65536
  BY SMT DEF q, r, M
<1> HIDE DEF q, r
<1> QED
  BY <1>1, <1>2, <1>3, SMT

\* Both checksums are remainders modulo 65535.
Multiple(n) == \E q \in Int : n = 65535 * q

\* A witness makes a multiple.
LEMMA IsMultiple ==
  ASSUME NEW n, NEW q \in Int, n = 65535 * q
  PROVE  Multiple(n)
BY SMT DEF Multiple

\* Multiples are closed under sum, difference and scaling.
LEMMA MultipleArith ==
  /\ \A a, b \in Int : Multiple(a) /\ Multiple(b) => Multiple(a + b) /\ Multiple(a - b)
  /\ \A a \in Int, k \in Int : Multiple(a) => Multiple(k * a)
  /\ \A k \in Int : Multiple(65535 * k)
  /\ Multiple(0) /\ Multiple(65535)
<1>1. ASSUME NEW a \in Int, NEW b \in Int, Multiple(a), Multiple(b)
      PROVE  Multiple(a + b) /\ Multiple(a - b)
  <2>1. PICK p \in Int : a = 65535 * p
    BY <1>1 DEF Multiple
  <2>2. PICK q \in Int : b = 65535 * q
    BY <1>1 DEF Multiple
  <2> DEFINE plus == p + q
             minus == p - q
  <2>3. plus \in Int /\ minus \in Int
        /\ a + b = 65535 * plus /\ a - b = 65535 * minus
    BY <2>1, <2>2, SMT
  <2> HIDE DEF plus, minus
  <2>4. Multiple(a + b)
    BY <2>3, IsMultiple
  <2>5. Multiple(a - b)
    BY <2>3, IsMultiple
  <2> QED
    BY <2>4, <2>5
<1>2. ASSUME NEW a \in Int, NEW k \in Int, Multiple(a)
      PROVE  Multiple(k * a)
  <2>1. PICK p \in Int : a = 65535 * p
    BY <1>2 DEF Multiple
  <2> DEFINE times == k * p
  <2>2. times \in Int /\ k * a = 65535 * times
    BY <2>1, SMT
  <2> HIDE DEF times
  <2> QED
    BY <2>2, IsMultiple
<1>3. \A k \in Int : Multiple(65535 * k)
  BY IsMultiple, SMT
<1>4. Multiple(0)
  <2>1. 0 = 65535 * 0
    BY SMT
  <2> QED
    BY <2>1, IsMultiple, SMT
<1>5. Multiple(65535)
  <2> DEFINE n == 65535
             one == 1
  <2>1. n \in Int /\ one \in Int /\ n = 65535 * one
    BY SMT
  <2> HIDE DEF n, one
  <2>2. Multiple(n)
    BY <2>1, IsMultiple, SMT
  <2> QED
    BY <2>2, SMT DEF n
<1> QED
  BY <1>1, <1>2, <1>3, <1>4, <1>5

\* The only multiple near 0 is 0.
LEMMA SmallMultiple ==
  ASSUME NEW d \in Int, d < 65535, - 65535 < d, Multiple(d)
  PROVE  d = 0
<1>1. PICK q \in Int : d = 65535 * q
  BY DEF Multiple
<1> QED
  BY <1>1, SMT

\* A number and its remainder differ by a multiple.
LEMMA Remainder ==
  ASSUME NEW n \in Nat
  PROVE  n % 65535 \in Nat /\ n % 65535 < 65535 /\ Multiple(n - (n % 65535))
<1> DEFINE M == 65535
<1>1. M \in Nat \ {0} /\ M = 65535
  BY SMT
<1> HIDE DEF M
<1> DEFINE q == n \div M
           r == n % M
<1>2. r \in Nat /\ r < 65535 /\ q \in Nat /\ n = M * q + r
  BY <1>1, DivMod
<1> HIDE DEF q, r
<1>3. n - r = 65535 * q
  BY <1>2, SMT DEF M
<1>4. Multiple(n - r)
  BY <1>2, <1>3 DEF Multiple
<1>5. r = n % 65535
  BY SMT DEF r, M
<1> QED
  BY <1>2, <1>4, <1>5

\* A remainder of 0 is a multiple.
LEMMA ModZero ==
  ASSUME NEW n \in Nat
  PROVE  n % 65535 = 0 <=> Multiple(n)
<1> DEFINE r == n % 65535
<1>1. r \in Nat /\ r < 65535 /\ Multiple(n - r)
  BY Remainder
<1> HIDE DEF r
<1>2. ASSUME r = 0 PROVE Multiple(n)
  BY <1>1, <1>2
<1>3. ASSUME Multiple(n) PROVE r = 0
  <2>1. n - r \in Int /\ n - (n - r) = r
    BY <1>1, SMT
  <2>2. Multiple(r)
    BY <1>1, <1>3, <2>1, MultipleArith
  <2> QED
    BY <1>1, <2>2, SmallMultiple, SMT
<1> QED
  BY <1>2, <1>3 DEF r

-----------------------------------------------------------------------------
(* Folded leaves the sum modulo 65535, as a number from 1 to 65535 unless  *)
(* the sum is 0.                                                           *)

\* What adding the carries comes to: 65535 instead of 0 unless nothing was
\* added.
Fold(s) == IF s = 0 THEN 0 ELSE ((s - 1) % 65535) + 1

\* It is a word that differs from the sum by a multiple.
LEMMA FoldType ==
  ASSUME NEW s \in Nat
  PROVE  /\ Fold(s) \in Word
         /\ Fold(s) = 0 <=> s = 0
         /\ Multiple(s - Fold(s))
<1>1. CASE s = 0
  <2>1. s - Fold(s) = 65535 * 0 /\ Fold(s) = 0
    BY <1>1, SMT DEF Fold
  <2>2. Multiple(s - Fold(s))
    BY <2>1, MultipleArith
  <2> QED
    BY <1>1, <2>1, <2>2, SMT DEF Word
<1>2. CASE s # 0
  <2> DEFINE r == (s - 1) % 65535
  <2>1. s - 1 \in Nat
    BY <1>2
  <2>2. r \in Nat /\ r < 65535 /\ Multiple((s - 1) - r)
    BY <2>1, Remainder
  <2>3. Fold(s) = r + 1
    BY <1>2 DEF Fold
  <2> HIDE DEF r
  <2>4. s - Fold(s) = (s - 1) - r /\ Fold(s) \in Nat /\ Fold(s) > 0 /\ Fold(s) < 65536
    BY <2>2, <2>3, SMT
  <2> QED
    BY <1>2, <2>2, <2>4, SMT DEF Word
<1> QED
  BY <1>1, <1>2

\* No other word but 0 does.
LEMMA FoldIs ==
  ASSUME NEW s \in Nat \ {0}, NEW v \in Word \ {0}, Multiple(s - v)
  PROVE  Fold(s) = v
<1>1. Fold(s) \in Word /\ Fold(s) # 0 /\ Multiple(s - Fold(s))
  BY FoldType
<1> DEFINE w == Fold(s)
<1> HIDE DEF w
<1>2. w \in Nat /\ w > 0 /\ w < 65536 /\ v \in Nat /\ v > 0 /\ v < 65536
  BY <1>1, SMT DEF Word, w
<1>3. Multiple(s - w)
  BY <1>1 DEF w
<1>4. s - v \in Int /\ s - w \in Int /\ (s - v) - (s - w) = w - v
  BY <1>2, SMT
<1>5. Multiple(w - v)
  BY <1>3, <1>4, MultipleArith
<1>6. w - v \in Int /\ w - v < 65535 /\ - 65535 < w - v
  BY <1>2, SMT
<1>7. w - v = 0
  BY <1>5, <1>6, SmallMultiple
<1> QED
  BY <1>2, <1>7 DEF w

\* A word has no carries to add.
LEMMA FoldSmall ==
  ASSUME NEW s \in Nat, s < 65536
  PROVE  Fold(s) = s
<1>1. CASE s = 0
  BY <1>1 DEF Fold
<1>2. CASE s # 0
  <2>1. s \in Word \ {0} /\ s - s = 65535 * 0
    BY <1>2, SMT DEF Word
  <2> QED
    BY <2>1, FoldIs, MultipleArith
<1> QED
  BY <1>1, <1>2

\* The sum after one pass over its carries.
Pass(s) == (s % 65536) + (s \div 65536)

\* A pass makes the sum smaller and does not change what it comes to.
LEMMA FoldPass ==
  ASSUME NEW s \in Nat, s >= 65536
  PROVE  Pass(s) \in Nat /\ Pass(s) < s /\ Fold(Pass(s)) = Fold(s)
<1> DEFINE q == s \div 65536
           r == s % 65536
           k == r + q
<1>2. r \in Nat /\ r < 65536 /\ q \in Nat /\ s = 65536 * q + r
  BY DivideByBase
<1>3. Pass(s) = k
  BY SMT DEF Pass
<1> HIDE DEF q, r
<1>4. q > 0
  BY <1>2, SMT
<1>5. k \in Nat /\ k # 0 /\ k < s /\ s - k = 65535 * q
  BY <1>2, <1>4, SMT
<1> HIDE DEF k
<1>6. Fold(s) \in Word \ {0} /\ Multiple(s - Fold(s)) /\ Fold(s) \in Int
  BY FoldType, SMT DEF Word
<1>7. Multiple(k - Fold(s))
  <2>1. k - Fold(s) = (s - Fold(s)) - (s - k) /\ s - Fold(s) \in Int /\ s - k \in Int
    BY <1>5, <1>6, SMT
  <2>2. Multiple(s - k)
    <3> DEFINE d == s - k
    <3>1. d \in Int /\ d = 65535 * q
      BY <1>5, SMT
    <3> HIDE DEF d
    <3>2. Multiple(d)
      BY <1>2, <3>1, IsMultiple
    <3> QED
      BY <3>2 DEF d
  <2> QED
    BY <1>6, <2>1, <2>2, MultipleArith
<1>8. Fold(k) = Fold(s)
  BY <1>5, <1>6, <1>7, FoldIs
<1> QED
  BY <1>3, <1>5, <1>8

\* The recursion of Folded.
IsFold(f, n) == f = [s \in 0 .. n |-> IF s < 65536 THEN s ELSE f[Pass(s)]]

\* The loop of checksum() comes to Fold, however many passes it takes (sys.c
\* 102-105).
LEMMA FoldedIsFold ==
  ASSUME NEW n \in Nat
  PROVE  Folded(n) = Fold(n)
<1> DEFINE c == CHOOSE f : IsFold(f, n)
           g == [s \in 0 .. n |-> Fold(s)]
<1>1. IsFold(g, n)
  <2>1. ASSUME NEW s \in 0 .. n, ~ (s < 65536)
        PROVE  Pass(s) \in 0 .. n /\ Fold(Pass(s)) = Fold(s)
    BY <2>1, FoldPass, SMT
  <2>2. ASSUME NEW s \in 0 .. n
        PROVE  Fold(s) = IF s < 65536 THEN s ELSE g[Pass(s)]
    BY <2>1, FoldSmall
  <2> QED
    BY <2>2, SMT DEF IsFold
<1>2. IsFold(c, n)
  BY <1>1
<1>3. Folded(n) = c[n]
  BY SMT DEF Folded, IsFold, Pass
<1> HIDE DEF c
<1>4. \A s \in 0 .. n : c[s] = IF s < 65536 THEN s ELSE c[Pass(s)]
  BY <1>2, SMT DEF IsFold
<1> DEFINE P == {m \in Nat : \A s \in 0 .. m : s <= n => c[s] = Fold(s)}
<1>5. 0 \in P
  BY <1>4, FoldSmall, SMT
<1>6. ASSUME NEW m \in Nat, m \in P
      PROVE  m + 1 \in P
  <2>1. ASSUME m + 1 <= n
        PROVE  c[m + 1] = Fold(m + 1)
    <3>1. CASE m + 1 < 65536
      BY <1>4, <2>1, <3>1, FoldSmall, SMT
    <3>2. CASE m + 1 >= 65536
      <4>1. Pass(m + 1) \in 0 .. m /\ Fold(Pass(m + 1)) = Fold(m + 1)
        BY <2>1, <3>2, FoldPass, SMT
      <4>2. c[m + 1] = c[Pass(m + 1)]
        BY <1>4, <2>1, <3>2, SMT
      <4>3. c[Pass(m + 1)] = Fold(Pass(m + 1))
        BY <1>6, <2>1, <4>1, SMT
      <4> QED
        BY <4>1, <4>2, <4>3
    <3> QED
      BY <3>1, <3>2, SMT
  <2>2. \A s \in 0 .. m + 1 : s \in 0 .. m \/ s = m + 1
    BY SMT
  <2> QED
    BY <1>6, <2>1, <2>2, SMT
<1>7. \A m \in Nat : m \in P
  <2> HIDE DEF P
  <2> QED
    BY <1>5, <1>6, Induction
<1>8. c[n] = Fold(n)
  BY <1>7, SMT
<1> QED
  BY <1>3, <1>8

\* What checksum() returns, and when it accepts.
LEMMA ChecksumZero ==
  ASSUME NEW b \in Seq(Byte)
  PROVE  /\ Sum(b) \in Nat
         /\ checksum(b) = 65535 - Fold(Sum(b)) /\ checksum(b) \in Word
         /\ checksum(b) = 0 <=> Sum(b) > 0 /\ Multiple(Sum(b))
<1>1. Sum(b) \in Nat
  BY SumIsTotal, LenProperties
<1> DEFINE s == Sum(b)
           w == Fold(s)
<1> HIDE DEF s
<1>2. w \in Word /\ (w = 0 <=> s = 0) /\ Multiple(s - w)
  BY <1>1, FoldType DEF s
<1>3. checksum(b) = 65535 - w
  BY <1>1, FoldedIsFold DEF checksum, s
<1>4. ASSUME s > 0, Multiple(s) PROVE w = 65535
  <2>1. s \in Int /\ 65535 \in Int /\ 65535 \in Word \ {0} /\ s \in Nat \ {0}
    BY <1>1, <1>4, SMT DEF Word, s
  <2>2. Multiple(s - 65535)
    BY <1>4, <2>1, MultipleArith
  <2> QED
    BY <2>1, <2>2, FoldIs
<1>5. ASSUME w = 65535 PROVE s > 0 /\ Multiple(s)
  <2>1. s > 0 /\ s = (s - 65535) + 65535 /\ s - 65535 \in Int /\ 65535 \in Int
    BY <1>1, <1>2, <1>5, SMT DEF s
  <2>2. Multiple(s - 65535)
    BY <1>2, <1>5
  <2> HIDE DEF w
  <2>3. Multiple((s - 65535) + 65535)
    BY <2>1, <2>2, MultipleArith
  <2> QED
    BY <2>1, <2>3
<1> HIDE DEF w
<1>6. 65535 - w \in Word /\ (65535 - w = 0 <=> w = 65535)
  BY <1>2, SMT DEF Word
<1>7. s \in Nat
  BY <1>1 DEF s
<1> QED
  BY <1>2, <1>3, <1>4, <1>5, <1>6, <1>7, SMT DEF s, w

-----------------------------------------------------------------------------
(* Bytes and words.                                                        *)

\* A word is its two bytes.
LEMMA HighAndLow ==
  ASSUME NEW w \in Word
  PROVE  /\ w \div 256 \in Byte /\ w % 256 \in Byte
         /\ w = 256 * (w \div 256) + (w % 256)
<1> DEFINE M == 256
<1>1. M \in Nat \ {0} /\ M = 256 /\ w \in Nat /\ w < 65536
  BY SMT DEF Word
<1> HIDE DEF M
<1> DEFINE q == w \div M
           r == w % M
<1>2. r \in Nat /\ r < 256 /\ q \in Nat /\ w = M * q + r
  BY <1>1, DivMod
<1>3. q = w \div 256 /\ r = w % 256
  BY SMT DEF q, r, M
<1> HIDE DEF q, r
<1>4. w = 256 * q + r /\ q < 256
  BY <1>1, <1>2, SMT
<1> QED
  BY <1>2, <1>3, <1>4, SMT DEF Byte

\* Two bytes are a word.
LEMMA FromBytes ==
  ASSUME NEW h \in Byte, NEW l \in Byte
  PROVE  /\ 256 * h + l \in Word
         /\ (256 * h + l) \div 256 = h /\ (256 * h + l) % 256 = l
<1> DEFINE w == 256 * h + l
<1>1. w \in Word /\ h \in Nat /\ l \in Nat /\ h < 256 /\ l < 256
  BY SMT DEF Byte, Word
<1>2. w = 256 * h + l
  OBVIOUS
<1> HIDE DEF w
<1>3. w \div 256 \in Byte /\ w % 256 \in Byte
      /\ w = 256 * (w \div 256) + (w % 256)
  BY <1>1, HighAndLow
<1> DEFINE q == w \div 256
           r == w % 256
<1>4. q \in Nat /\ q < 256 /\ r \in Nat /\ r < 256 /\ w = 256 * q + r
  BY <1>3, SMT DEF Byte
<1> HIDE DEF q, r
<1>5. q = h /\ r = l
  BY <1>1, <1>2, <1>4, SMT
<1> QED
  BY <1>1, <1>5 DEF q, r, w

\* memswap multiplies by 256 modulo 65535.
LEMMA SwapTimes256 ==
  ASSUME NEW w \in Word
  PROVE  /\ memswap(w) \in Word
         /\ memswap(w) = (w \div 256) + 256 * (w % 256)
         /\ Multiple(256 * w - memswap(w))
         /\ memswap(w) = 0 <=> w = 0
<1> DEFINE q == w \div 256
           r == w % 256
           d == 256 * w - memswap(w)
<1>1. q \in Byte /\ r \in Byte /\ w = 256 * q + r
  BY HighAndLow
<1>2. memswap(w) = r * 256 + q
  BY SMT DEF memswap
<1> HIDE DEF q, r
<1>3. d \in Int /\ d = 65535 * q /\ q \in Int
  BY <1>1, <1>2, SMT DEF Byte
<1> HIDE DEF d
<1>4. Multiple(d)
  BY <1>3, IsMultiple
<1>5. memswap(w) \in Word /\ memswap(w) = q + 256 * r
  BY <1>1, <1>2, SMT DEF Byte, Word
<1>6. memswap(w) = 0 <=> w = 0
  BY <1>1, <1>2, SMT DEF Byte
<1> QED
  BY <1>4, <1>5, <1>6 DEF d, q, r

\* Exchanging the bytes twice changes nothing.
LEMMA SwapTwice ==
  ASSUME NEW w \in Word
  PROVE  memswap(memswap(w)) = w
<1> DEFINE q == w \div 256
           r == w % 256
<1>1. q \in Byte /\ r \in Byte /\ w = 256 * q + r
  BY HighAndLow
<1>2. memswap(w) = r * 256 + q
  BY SMT DEF memswap
<1> HIDE DEF q, r
<1>a. r * 256 + q = 256 * r + q
  BY <1>1, SMT DEF Byte
<1>3. (256 * r + q) \div 256 = r /\ (256 * r + q) % 256 = q
  BY <1>1, FromBytes
<1>4. memswap(256 * r + q) = q * 256 + r
  BY <1>3, SMT DEF memswap
<1> QED
  BY <1>1, <1>2, <1>a, <1>4, SMT DEF Byte

\* Two words that are not the same are not the same modulo 65535, but for 0 and
\* 65535.
LEMMA WordsDiffer ==
  ASSUME NEW a \in Word, NEW b \in Word, a # b, {a, b} # {0, 65535}
  PROVE  /\ ~ Multiple(b - a)
         /\ ~ Multiple(memswap(b) - memswap(a))
<1>1. a \in Int /\ b \in Int /\ b - a \in Int /\ b - a # 0
  BY SMT DEF Word
<1>2. ASSUME Multiple(b - a) PROVE FALSE
  <2>1. CASE b - a < 65535 /\ - 65535 < b - a
    BY <1>1, <1>2, <2>1, SmallMultiple
  <2>2. CASE ~ (b - a < 65535 /\ - 65535 < b - a)
    <3>1. (a = 0 /\ b = 65535) \/ (a = 65535 /\ b = 0)
      BY <2>2, SMT DEF Word
    <3> QED
      BY <3>1, SMT
  <2> QED
    BY <2>1, <2>2
<1>3. ASSUME Multiple(memswap(b) - memswap(a)) PROVE FALSE
  <2> DEFINE x == memswap(a)
             y == memswap(b)
             m == y - x
  <2>a. /\ x \in Word /\ Multiple(256 * a - x)
        /\ y \in Word /\ Multiple(256 * b - y)
    BY SwapTimes256
  <2>2. Multiple(m)
    BY <1>3
  <2> HIDE DEF x, y
  <2>1. x \in Int /\ y \in Int /\ m \in Int
    BY <2>a, SMT DEF Word
  <2> DEFINE d == (256 * b - y) - (256 * a - x)
             e == d + m
  <2>3. /\ 256 * b - y \in Int /\ 256 * a - x \in Int /\ d \in Int
        /\ e = 256 * (b - a)
    BY <1>1, <2>1, SMT
  <2>4. Multiple(d)
    BY <2>a, <2>3, MultipleArith
  <2> HIDE DEF d, m
  <2>5. Multiple(e)
    BY <2>1, <2>2, <2>3, <2>4, MultipleArith
  <2>6. Multiple(256 * (b - a))
    BY <2>3, <2>5
  <2> DEFINE c == b - a
             k == 256 * (256 * c)
             l == 65535 * c
  <2>7. c \in Int /\ 256 * c \in Int /\ 256 \in Int /\ k \in Int /\ l \in Int /\ k - l = c
    BY <1>1, SMT
  <2> HIDE DEF c
  <2>8. Multiple(k) /\ Multiple(l)
    BY <2>6, <2>7, MultipleArith DEF c
  <2> HIDE DEF k, l
  <2>9. Multiple(k - l)
    BY <2>7, <2>8, MultipleArith
  <2> QED
    BY <1>2, <2>7, <2>9 DEF c
<1> QED
  BY <1>2, <1>3

-----------------------------------------------------------------------------
(* Sums over the bytes of a packet.                                        *)

\* The high byte, which comes first, counts 256 times for the network.
NetTerms(b) == [n \in 1 .. Len(b) |-> IF n % 2 = 1 THEN 256 * b[n] ELSE b[n]]

\* NetSum is the last of the running totals of its terms.
LEMMA NetSumIsTotal ==
  ASSUME NEW b \in Seq(Byte)
  PROVE  \E s \in [0 .. Len(b) -> Nat] :
           IsTotal(s, NetTerms(b), Len(b)) /\ NetSum(b) = s[Len(b)]
<1> DEFINE Good(s) == s = [n \in 0 .. Len(b) |->
             IF n = 0 THEN 0
             ELSE s[n - 1] + (IF n % 2 = 1 THEN 256 * b[n] ELSE b[n])]
           c == CHOOSE s : Good(s)
<1>0. Len(b) \in Nat /\ NetTerms(b) \in [1 .. Len(b) -> Nat]
  <2>1. \A n \in 1 .. Len(b) : b[n] \in Nat
    BY ByteAt
  <2> QED
    BY <2>1 DEF NetTerms
<1>1. ASSUME NEW s
      PROVE  Good(s) <=> IsTotal(s, NetTerms(b), Len(b))
  <2>1. \A n \in 0 .. Len(b) :
          (IF n = 0 THEN 0 ELSE s[n - 1] + (IF n % 2 = 1 THEN 256 * b[n] ELSE b[n]))
            = (IF n = 0 THEN 0 ELSE s[n - 1] + NetTerms(b)[n])
    BY DEF NetTerms
  <2> QED
    BY <2>1 DEF IsTotal
<1>2. \E s : Good(s)
  BY <1>0, <1>1, TotalExists
<1>3. Good(c)
  BY <1>2
<1>4. NetSum(b) = c[Len(b)]
  BY DEF NetSum
<1>5. IsTotal(c, NetTerms(b), Len(b))
  BY <1>1, <1>3
<1>6. c \in [0 .. Len(b) -> Nat]
  BY <1>0, <1>5, TotalType
<1> QED
  BY <1>4, <1>5, <1>6

\* u counted by the network, s by the processor.
Agree(u, s) ==
  /\ s \in Nat /\ u \in Nat
  /\ u = 0 <=> s = 0
  /\ Multiple(256 * u - s)

\* Sums of what agrees agree.
LEMMA AgreePlus ==
  ASSUME NEW s, NEW u, NEW t, NEW v, Agree(u, s), Agree(v, t)
  PROVE  Agree(u + v, s + t)
<1> DEFINE x == 256 * u - s
           y == 256 * v - t
           z == 256 * (u + v) - (s + t)
<1>1. s \in Nat /\ u \in Nat /\ t \in Nat /\ v \in Nat
  BY DEF Agree
<1>2. x \in Int /\ y \in Int /\ z = x + y
  BY <1>1, SMT
<1>3. Multiple(x) /\ Multiple(y)
  BY DEF Agree
<1> HIDE DEF x, y
<1>4. Multiple(z)
  BY <1>2, <1>3, MultipleArith
<1>5. s + t \in Nat /\ u + v \in Nat /\ (u + v = 0 <=> s + t = 0)
  BY <1>1, SMT DEF Agree
<1> QED
  BY <1>4, <1>5 DEF Agree

\* Each byte agrees, wherever it stands.
LEMMA AgreeByte ==
  ASSUME NEW z \in Nat
  PROVE  Agree(256 * z, z) /\ Agree(z, 256 * z) /\ Agree(0, 0)
<1> DEFINE d == 256 * (256 * z) - z
           e == 256 * z - 256 * z
<1>1. d \in Int /\ d = 65535 * z /\ z \in Int /\ e = 0
  BY SMT
<1> HIDE DEF d
<1>2. Multiple(d) /\ Multiple(e)
  BY <1>1, IsMultiple, MultipleArith
<1>3. Agree(256 * z, z)
  BY <1>2, SMT DEF Agree, d
<1>4. Agree(z, 256 * z)
  BY <1>2, SMT DEF Agree, e
<1>5. 256 * 0 - 0 = 0
  BY SMT
<1>6. Agree(0, 0)
  BY <1>5, MultipleArith, SMT DEF Agree
<1> QED
  BY <1>3, <1>4, <1>6

\* The sum of the processor and that of the network differ by the factor of the
\* high byte.
LEMMA SumsAgree ==
  ASSUME NEW b \in Seq(Byte)
  PROVE  Agree(NetSum(b), Sum(b))
<1> DEFINE L == Len(b)
           t == Terms(b)
           v == NetTerms(b)
<1>1. PICK s \in [0 .. L -> Nat] : IsTotal(s, t, L) /\ Sum(b) = s[L]
  BY SumIsTotal
<1>2. PICK u \in [0 .. L -> Nat] : IsTotal(u, v, L) /\ NetSum(b) = u[L]
  BY NetSumIsTotal
<1>3. L \in Nat
  BY LenProperties
<1>4. ASSUME NEW n \in 1 .. L
      PROVE  Agree(v[n], t[n])
  <2>1. b[n] \in Nat
    BY ByteAt
  <2>2. CASE n % 2 = 1
    <3>1. t[n] = b[n] /\ v[n] = 256 * b[n]
      BY <2>2 DEF Terms, NetTerms
    <3> QED
      BY <2>1, <3>1, AgreeByte
  <2>3. CASE n % 2 # 1
    <3>1. t[n] = 256 * b[n] /\ v[n] = b[n]
      BY <2>3 DEF Terms, NetTerms
    <3> QED
      BY <2>1, <3>1, AgreeByte
  <2> QED
    BY <2>2, <2>3
<1> HIDE DEF t, v, L
<1>5. /\ s[0] = 0 /\ \A n \in Nat : n < L => s[n + 1] = s[n] + t[n + 1]
      /\ u[0] = 0 /\ \A n \in Nat : n < L => u[n + 1] = u[n] + v[n + 1]
  <2>1. Steps(s, t, L) /\ Steps(u, v, L)
    BY <1>1, <1>2, <1>3, TotalSteps
  <2> QED
    BY <2>1 DEF Steps
<1> DEFINE P == {n \in Nat : Agree(u[n], s[n])}
<1>6. 0 \in P
  BY <1>5, AgreeByte
<1>7. ASSUME NEW n \in Nat, n < L, n \in P
      PROVE  n + 1 \in P
  <2>1. n + 1 \in 1 .. L
    BY <1>3, <1>7
  <2>2. Agree(v[n + 1], t[n + 1]) /\ Agree(u[n], s[n])
    BY <1>4, <1>7, <2>1
  <2>3. s[n + 1] = s[n] + t[n + 1] /\ u[n + 1] = u[n] + v[n + 1]
    BY <1>5, <1>7
  <2> QED
    BY <2>2, <2>3, AgreePlus
<1>8. \A n \in 0 .. L : n \in P
  <2> HIDE DEF P
  <2> QED
    BY <1>3, <1>6, <1>7, BoundedInduction
<1>9. L \in P
  BY <1>3, <1>8
<1> QED
  BY <1>1, <1>2, <1>9

\* 256 is its own inverse modulo 65535.
LEMMA SwapMultiple ==
  ASSUME NEW u \in Int, NEW s \in Int, Multiple(256 * u - s)
  PROVE  Multiple(u) <=> Multiple(s)
<1> DEFINE x == 256 * u - s
           y == 256 * u
           z == 256 * s
           v == 256 * x
           c == 65535 * u
<1>1. /\ x \in Int /\ y \in Int /\ z \in Int /\ v \in Int /\ c \in Int /\ 256 \in Int
      /\ s = y - x /\ v + z \in Int /\ u = (v + z) - c
  BY SMT
<1>2. Multiple(x) /\ Multiple(c)
  BY MultipleArith
<1>3. Multiple(v)
  <2> HIDE DEF x
  <2> QED
    BY <1>1, <1>2, MultipleArith
<1>4. ASSUME Multiple(u) PROVE Multiple(s)
  <2>1. Multiple(y)
    BY <1>1, <1>4, MultipleArith
  <2> HIDE DEF x, y
  <2>2. Multiple(y - x)
    BY <1>1, <1>2, <2>1, MultipleArith
  <2> QED
    BY <1>1, <2>2
<1>5. ASSUME Multiple(s) PROVE Multiple(u)
  <2>1. Multiple(z)
    BY <1>1, <1>5, MultipleArith
  <2> HIDE DEF v, z, c
  <2>2. Multiple(v + z)
    BY <1>1, <1>3, <2>1, MultipleArith
  <2>3. Multiple((v + z) - c)
    BY <1>1, <1>2, <2>2, MultipleArith
  <2> QED
    BY <1>1, <2>3
<1> QED
  BY <1>4, <1>5

\* The complement of an exchanged word is the exchanged complement.
LEMMA SwapComplement ==
  ASSUME NEW w \in Word
  PROVE  65535 - w \in Word /\ memswap(65535 - w) = 65535 - memswap(w)
<1> DEFINE q == w \div 256
           r == w % 256
           h == 255 - q
           l == 255 - r
<1>1. q \in Byte /\ r \in Byte /\ w = 256 * q + r
  BY HighAndLow
<1>2. memswap(w) = q + 256 * r
  BY SwapTimes256
<1> HIDE DEF q, r
<1>3. h \in Byte /\ l \in Byte /\ 65535 - w = 256 * h + l
  BY <1>1, SMT DEF Byte
<1>4. 65535 - memswap(w) = h + 256 * l
  BY <1>1, <1>2, SMT DEF Byte
<1> HIDE DEF h, l
<1>5. 256 * h + l \in Word /\ (256 * h + l) \div 256 = h /\ (256 * h + l) % 256 = l
  BY <1>3, FromBytes
<1>6. memswap(256 * h + l) = h + 256 * l
  <2>1. memswap(256 * h + l) = ((256 * h + l) \div 256) + 256 * ((256 * h + l) % 256)
    BY <1>5, SwapTimes256
  <2> QED
    BY <1>5, <2>1
<1> QED
  BY <1>3, <1>4, <1>5, <1>6

\* A packet is accepted exactly if its checksum is right for the network, whatever
\* byte comes first in a word of the processor (sys.c 88-108).
THEOREM AcceptsWhatVerifies ==
  ASSUME NEW b \in Seq(Byte)
  PROVE  checksum(b) = 0 <=> Verifies(b)
<1> DEFINE s == Sum(b)
           u == NetSum(b)
<1>1. Agree(u, s)
  BY SumsAgree
<1>2. checksum(b) = 0 <=> s > 0 /\ Multiple(s)
  BY ChecksumZero
<1> HIDE DEF s, u
<1>3. s \in Nat /\ u \in Nat /\ (u = 0 <=> s = 0) /\ Multiple(256 * u - s)
  BY <1>1 DEF Agree
<1>4. u % 65535 = 0 <=> Multiple(u)
  BY <1>3, ModZero
<1>5. Multiple(u) <=> Multiple(s)
  BY <1>3, SwapMultiple
<1>6. u > 0 <=> s > 0
  BY <1>3, SMT
<1> QED
  BY <1>2, <1>4, <1>5, <1>6 DEF Verifies, u

\* What checksum() computes is the checksum of RFC 1071 with its bytes swapped, as
\* the processor stores a word low byte first (sys.c 88-108).
THEOREM ChecksumIsInternetChecksum ==
  ASSUME NEW b \in Seq(Byte), NetSum(b) > 0
  PROVE  checksum(b) = memswap(NetChecksum(b))
<1> DEFINE s == Sum(b)
           u == NetSum(b)
           w == Fold(u)
<1>1. Agree(u, s) /\ u > 0
  BY SumsAgree
<1>2. checksum(b) = 65535 - Fold(s)
  BY ChecksumZero
<1>3. u \in Nat /\ NetChecksum(b) = 65535 - w
  <2>1. u \in Nat /\ u # 0
    BY <1>1, SMT DEF Agree
  <2> QED
    BY <2>1, SMT DEF NetChecksum, Fold
<1> HIDE DEF s, u
<1>4. s \in Nat \ {0} /\ u \in Nat \ {0} /\ Multiple(256 * u - s)
  BY <1>1, SMT DEF Agree
<1>5. w \in Word /\ w # 0 /\ Multiple(u - w)
  BY <1>4, FoldType
<1> HIDE DEF w
<1>6. memswap(w) \in Word \ {0} /\ Multiple(256 * w - memswap(w))
  BY <1>5, SwapTimes256
<1>7. Multiple(s - memswap(w))
  <2> DEFINE x == 256 * u - s
             y == u - w
             z == 256 * w - memswap(w)
             r == 256 * y
  <2>1. x \in Int /\ y \in Int /\ z \in Int /\ r \in Int /\ 256 \in Int
        /\ (r + z) - x = s - memswap(w) /\ r + z \in Int
    BY <1>4, <1>5, <1>6, SMT DEF Word
  <2>2. Multiple(x) /\ Multiple(y) /\ Multiple(z)
    BY <1>4, <1>5, <1>6
  <2> HIDE DEF x, y, z
  <2>3. Multiple(r)
    BY <2>1, <2>2, MultipleArith
  <2> HIDE DEF r
  <2>4. Multiple(r + z)
    BY <2>1, <2>2, <2>3, MultipleArith
  <2>5. Multiple((r + z) - x)
    BY <2>1, <2>2, <2>4, MultipleArith
  <2> QED
    BY <2>1, <2>5
<1>8. Fold(s) = memswap(w)
  BY <1>4, <1>6, <1>7, FoldIs
<1>9. memswap(65535 - w) = 65535 - memswap(w)
  BY <1>5, SwapComplement
<1> QED
  BY <1>2, <1>3, <1>8, <1>9

\* No byte counts for more than one with eight zeros behind it.
LEMMA SumBound ==
  ASSUME NEW b \in Seq(Byte)
  PROVE  Sum(b) \in Nat /\ Sum(b) <= 65280 * Len(b)
<1> DEFINE L == Len(b)
           t == Terms(b)
<1>1. PICK s \in [0 .. L -> Nat] : IsTotal(s, t, L) /\ Sum(b) = s[L]
  BY SumIsTotal
<1>2. L \in Nat
  BY LenProperties
<1>3. ASSUME NEW n \in 1 .. L
      PROVE  t[n] \in Nat /\ t[n] <= 65280
  <2>1. b[n] \in Nat /\ b[n] < 256
    BY ByteAt
  <2>2. t[n] = b[n] \/ t[n] = 256 * b[n]
    BY DEF Terms
  <2> QED
    BY <2>1, <2>2, SMT
<1> HIDE DEF t, L
<1>4. s[0] = 0 /\ \A n \in Nat : n < L => s[n + 1] = s[n] + t[n + 1]
  <2>1. Steps(s, t, L)
    BY <1>1, <1>2, TotalSteps
  <2> QED
    BY <2>1 DEF Steps
<1> DEFINE Q == {n \in Nat : s[n] \in Nat /\ s[n] <= 65280 * n}
<1>5. 0 \in Q
  BY <1>4, SMT
<1>6. ASSUME NEW n \in Nat, n < L, n \in Q
      PROVE  n + 1 \in Q
  <2> DEFINE x == s[n]
             y == t[n + 1]
  <2>1. n + 1 \in 1 .. L
    BY <1>2, <1>6
  <2>2. y \in Nat /\ y <= 65280
    BY <1>3, <2>1
  <2>3. s[n + 1] = x + y /\ x \in Nat /\ x <= 65280 * n
    BY <1>4, <1>6
  <2> HIDE DEF x, y
  <2>4. x + y \in Nat /\ x + y <= 65280 * (n + 1)
    BY <2>2, <2>3, SMT
  <2> QED
    BY <2>3, <2>4
<1>7. \A n \in 0 .. L : n \in Q
  <2> HIDE DEF Q
  <2> QED
    BY <1>2, <1>5, <1>6, BoundedInduction
<1>8. L \in Q
  BY <1>2, <1>7
<1> DEFINE x == s[L]
<1>9. x \in Nat /\ x <= 65280 * L
  BY <1>8
<1> QED
  BY <1>1, <1>9 DEF x, L

\* The 32-bit sum of checksum() cannot overflow, whatever its 16-bit length is
\* (sys.c 88-104).
THEOREM SumFits ==
  ASSUME NEW b \in Seq(Byte), Len(b) < 65536
  PROVE  Sum(b) \in Nat /\ Sum(b) < 4294967296
<1> DEFINE x == Sum(b)
           y == Len(b)
<1>1. x \in Nat /\ x <= 65280 * y
  BY SumBound
<1>2. y \in Nat /\ y < 65536
  BY LenProperties
<1> HIDE DEF x, y
<1>3. x < 4294967296
  BY <1>1, <1>2, SMT
<1> QED
  BY <1>1, <1>3 DEF x

-----------------------------------------------------------------------------
(* Totals whose terms differ.                                              *)

\* s is the running total of L terms t, all of them numbers.
Adds(s, t, L) ==
  /\ L \in Nat /\ t \in [1 .. L -> Nat] /\ s \in [0 .. L -> Nat]
  /\ IsTotal(s, t, L)

\* TotalSteps for it.
LEMMA AddsSteps ==
  ASSUME NEW L, NEW t, NEW s, Adds(s, t, L)
  PROVE  s[0] = 0 /\ \A n \in Nat : n < L => s[n + 1] = s[n] + t[n + 1]
<1>1. Steps(s, t, L)
  BY TotalSteps DEF Adds
<1> QED
  BY <1>1 DEF Steps

\* SumIsTotal for it.
LEMMA SumAdds ==
  ASSUME NEW b \in Seq(Byte)
  PROVE  \E s : Adds(s, Terms(b), Len(b)) /\ Sum(b) = s[Len(b)]
BY SumIsTotal, TermsType DEF Adds

\* Terms that are the same but for those at a and b.
SameBut(t, u, L, a, b) == \A n \in 1 .. L : n # a /\ n # b => u[n] = t[n]

\* A total after one of its terms was exchanged.
LEMMA TotalChange ==
  ASSUME NEW L, NEW a \in 1 .. L, NEW t, NEW s, NEW u, NEW r,
         Adds(s, t, L), Adds(r, u, L), SameBut(t, u, L, a, a)
  PROVE  r[L] + t[a] = s[L] + u[a]
<1>0. /\ L \in Nat /\ t \in [1 .. L -> Nat] /\ u \in [1 .. L -> Nat]
      /\ s \in [0 .. L -> Nat] /\ r \in [0 .. L -> Nat]
  BY DEF Adds
<1> DEFINE P == {n \in Nat : /\ n < a => r[n] = s[n]
                             /\ n >= a => r[n] + t[a] = s[n] + u[a]}
<1>1. s[0] = 0 /\ \A n \in Nat : n < L => s[n + 1] = s[n] + t[n + 1]
  BY AddsSteps
<1>2. r[0] = 0 /\ \A n \in Nat : n < L => r[n + 1] = r[n] + u[n + 1]
  BY AddsSteps
<1>3. 0 \in P
  BY <1>1, <1>2
<1>4. ASSUME NEW n \in Nat, n < L, n \in P
      PROVE  n + 1 \in P
  <2>1. s[n + 1] = s[n] + t[n + 1] /\ r[n + 1] = r[n] + u[n + 1]
    BY <1>1, <1>2, <1>4
  <2>2. /\ s[n] \in Nat /\ r[n] \in Nat /\ t[n + 1] \in Nat /\ u[n + 1] \in Nat
        /\ t[a] \in Nat /\ u[a] \in Nat
    <3>1. n \in 0 .. L /\ n + 1 \in 1 .. L
      BY <1>0, <1>4
    <3> HIDE DEF P
    <3> QED
      BY <1>0, <3>1
  <2>3. n + 1 # a => u[n + 1] = t[n + 1]
    BY <1>0, <1>4 DEF SameBut
  <2>4. CASE n + 1 < a
    BY <1>4, <2>1, <2>2, <2>3, <2>4
  <2>5. CASE n + 1 = a
    <3>1. r[n] = s[n] /\ t[n + 1] = t[a] /\ u[n + 1] = u[a]
      BY <1>4, <2>5
    <3>2. r[n + 1] + t[a] = s[n + 1] + u[a]
      BY <2>1, <2>2, <3>1
    <3> QED
      BY <2>5, <3>2
  <2>6. CASE n + 1 > a
    <3>1. r[n] + t[a] = s[n] + u[a] /\ u[n + 1] = t[n + 1]
      BY <1>4, <2>3, <2>6
    <3> DEFINE x == r[n]
               y == s[n]
               z == t[n + 1]
               p == t[a]
               q == u[a]
    <3>2. x \in Nat /\ y \in Nat /\ z \in Nat /\ p \in Nat /\ q \in Nat
      BY <2>2
    <3>3. x + p = y + q /\ r[n + 1] = x + z /\ s[n + 1] = y + z
      BY <2>1, <3>1
    <3> HIDE DEF x, y, z, p, q
    <3>4. (x + z) + p = (y + z) + q
      BY <3>2, <3>3
    <3> QED
      BY <2>6, <3>3, <3>4 DEF p, q
  <2> QED
    BY <2>4, <2>5, <2>6
<1>5. \A n \in 0 .. L : n \in P
  <2> HIDE DEF P
  <2> QED
    BY <1>0, <1>3, <1>4, BoundedInduction
<1> QED
  BY <1>0, <1>5

\* A total after two of its terms were exchanged.
LEMMA TotalChangePair ==
  ASSUME NEW L, NEW a \in 1 .. L, NEW b \in 1 .. L, a # b,
         NEW t, NEW s, NEW u, NEW r,
         Adds(s, t, L), Adds(r, u, L), SameBut(t, u, L, a, b)
  PROVE  r[L] + (t[a] + t[b]) = s[L] + (u[a] + u[b])
<1>0. /\ L \in Nat /\ t \in [1 .. L -> Nat] /\ u \in [1 .. L -> Nat]
      /\ s \in [0 .. L -> Nat] /\ r \in [0 .. L -> Nat]
  BY DEF Adds
<1> DEFINE v == [t EXCEPT ![a] = u[a]]
<1>1. v \in [1 .. L -> Nat] /\ v[a] = u[a] /\ v[b] = t[b]
  BY <1>0
<1>2. SameBut(t, v, L, a, a) /\ SameBut(v, u, L, b, b)
  BY <1>0 DEF SameBut
<1> HIDE DEF v
<1>3. PICK w : Adds(w, v, L)
  BY <1>0, <1>1, TotalExists, TotalType DEF Adds
<1>4. w \in [0 .. L -> Nat]
  BY <1>3 DEF Adds
<1>5. w[L] + t[a] = s[L] + v[a]
  BY <1>2, <1>3, TotalChange
<1>6. r[L] + v[b] = w[L] + u[b]
  BY <1>2, <1>3, TotalChange
<1>7. /\ w[L] \in Nat /\ s[L] \in Nat /\ r[L] \in Nat
      /\ t[a] \in Nat /\ t[b] \in Nat /\ u[a] \in Nat /\ u[b] \in Nat
  BY <1>0, <1>4
<1> DEFINE x == r[L]
           y == s[L]
           z == w[L]
           p == t[a]
           q == t[b]
           m == u[a]
           n == u[b]
<1>8. z + p = y + m /\ x + q = z + n
  BY <1>1, <1>5, <1>6
<1>9. /\ x \in Nat /\ y \in Nat /\ z \in Nat /\ p \in Nat /\ q \in Nat
      /\ m \in Nat /\ n \in Nat
  BY <1>7
<1> HIDE DEF x, y, z, p, q, m, n
<1>10. x + (p + q) = y + (m + n)
  BY <1>8, <1>9
<1> QED
  BY <1>10 DEF x, y, p, q, m, n

\* Totals only grow.
LEMMA TotalGrows ==
  ASSUME NEW L, NEW t, NEW s, Adds(s, t, L), NEW m \in 0 .. L, NEW k \in m .. L
  PROVE  s[m] <= s[k]
<1> DEFINE P == {n \in Nat : n >= m => s[m] <= s[n]}
<1>1. \A n \in Nat : n < L => s[n + 1] = s[n] + t[n + 1]
  BY AddsSteps
<1>2. L \in Nat /\ t \in [1 .. L -> Nat] /\ s \in [0 .. L -> Nat]
  BY DEF Adds
<1>3. 0 \in P
  BY <1>2
<1>4. ASSUME NEW n \in Nat, n < L, n \in P
      PROVE  n + 1 \in P
  <2>1. s[n + 1] = s[n] + t[n + 1]
    BY <1>1, <1>4
  <2>2. s[n] \in Nat /\ s[m] \in Nat /\ t[n + 1] \in Nat
    BY <1>2, <1>4
  <2> QED
    BY <1>4, <2>1, <2>2
<1>5. \A n \in 0 .. L : n \in P
  <2> HIDE DEF P
  <2> QED
    BY <1>2, <1>3, <1>4, BoundedInduction
<1> QED
  BY <1>2, <1>5

-----------------------------------------------------------------------------
(* Sums of packets that differ in a word.                                  *)

\* The sum after the odd last byte was exchanged.
LEMMA SumChangeByte ==
  ASSUME NEW b \in Seq(Byte), NEW c \in Seq(Byte), Len(c) = Len(b),
         NEW k \in 1 .. Len(b), k % 2 = 1,
         SameBut(b, c, Len(b), k, k)
  PROVE  Sum(c) + b[k] = Sum(b) + c[k]
<1> DEFINE L == Len(b)
           t == Terms(b)
           u == Terms(c)
<1>1. L \in Nat /\ t \in [1 .. L -> Nat] /\ u \in [1 .. L -> Nat]
  BY TermsType
<1>2. t[k] = b[k] /\ u[k] = c[k] /\ SameBut(t, u, L, k, k)
  BY DEF Terms, SameBut
<1>3. PICK s : Adds(s, t, L) /\ Sum(b) = s[L]
  BY SumAdds
<1>4. PICK r : Adds(r, u, L) /\ Sum(c) = r[L]
  BY SumAdds
<1>5. k \in 1 .. L
  OBVIOUS
<1> HIDE DEF L, t, u
<1>6. r[L] + t[k] = s[L] + u[k]
  BY <1>2, <1>3, <1>4, <1>5, TotalChange
<1> QED
  BY <1>2, <1>3, <1>4, <1>6

\* The sum after a pair of bytes was exchanged.
LEMMA SumChangePair ==
  ASSUME NEW b \in Seq(Byte), NEW c \in Seq(Byte), Len(c) = Len(b),
         NEW k \in 1 .. Len(b), k % 2 = 1, k < Len(b),
         SameBut(b, c, Len(b), k, k + 1)
  PROVE  Sum(c) + (b[k] + 256 * b[k + 1]) = Sum(b) + (c[k] + 256 * c[k + 1])
<1> DEFINE L == Len(b)
           t == Terms(b)
           u == Terms(c)
           j == k + 1
<1>1. L \in Nat /\ t \in [1 .. L -> Nat] /\ u \in [1 .. L -> Nat]
  BY TermsType
<1>2. k \in 1 .. L /\ j \in 1 .. L /\ k # j /\ k % 2 = 1 /\ j % 2 = 0
  BY LenProperties
<1>3. PICK s : Adds(s, t, L) /\ Sum(b) = s[L]
  BY SumAdds
<1>4. PICK r : Adds(r, u, L) /\ Sum(c) = r[L]
  BY SumAdds
<1>5. SameBut(t, u, L, k, j)
  BY DEF Terms, SameBut
<1>6. t[k] = b[k] /\ u[k] = c[k] /\ t[j] = 256 * b[j] /\ u[j] = 256 * c[j]
  BY <1>2 DEF Terms
<1>7. j = k + 1
  OBVIOUS
<1> HIDE DEF L, t, u, j
<1>8. r[L] + (t[k] + t[j]) = s[L] + (u[k] + u[j])
  BY <1>2, <1>3, <1>4, <1>5, TotalChangePair
<1> QED
  BY <1>3, <1>4, <1>6, <1>7, <1>8

\* The bytes of a word.
High(w) == w \div 256
Low(w) == w % 256

\* b is the bytes of each word in turn.
Spelled(b, W) ==
  /\ Len(b) = 2 * Len(W)
  /\ \A j \in 1 .. Len(W) : b[2 * j - 1] = High(W[j]) /\ b[2 * j] = Low(W[j])

\* NetBytes spells its words.
LEMMA NetBytesAt ==
  ASSUME NEW W \in Seq(Word)
  PROVE  NetBytes(W) \in Seq(Byte) /\ Spelled(NetBytes(W), W)
<1> DEFINE L == Len(W)
           hi(w) == High(w)
           lo(w) == Low(w)
           b == [k \in 1 .. 2 * L |->
                   IF k % 2 = 1 THEN hi(W[(k + 1) \div 2]) ELSE lo(W[(k + 1) \div 2])]
<1>1. NetBytes(W) = b
  BY DEF NetBytes, High, Low
<1>2. \A j \in 1 .. L : W[j] \in Word
  BY ElementOfSeq
<1>3. \A w \in Word : hi(w) \in Byte /\ lo(w) \in Byte
  BY HighAndLow DEF High, Low
<1>4. L \in Nat
  BY LenProperties
<1> HIDE DEF hi, lo, L
<1>5. \A k \in 1 .. 2 * L : (k + 1) \div 2 \in 1 .. L
  BY <1>4
<1>6. \A k \in 1 .. 2 * L : b[k] \in Byte
  BY <1>2, <1>3, <1>5
<1>7. 2 * L \in Nat
  BY <1>4
<1>8. b \in Seq(Byte) /\ Len(b) = 2 * L
  <2> DEFINE M == 2 * L
             f(k) == IF k % 2 = 1 THEN hi(W[(k + 1) \div 2]) ELSE lo(W[(k + 1) \div 2])
  <2>1. M \in Nat /\ \A k \in 1 .. M : f(k) \in Byte
    BY <1>6, <1>7
  <2>2. b = [k \in 1 .. M |-> f(k)]
    OBVIOUS
  <2> HIDE DEF M, f
  <2>3. [k \in 1 .. M |-> f(k)] \in Seq(Byte) /\ Len([k \in 1 .. M |-> f(k)]) = M
    BY <2>1, LenProperties
  <2> QED
    BY <2>2, <2>3 DEF M
<1>9. ASSUME NEW j \in 1 .. L
      PROVE  b[2 * j - 1] = hi(W[j]) /\ b[2 * j] = lo(W[j])
  <2>1. 2 * j - 1 \in 1 .. 2 * L /\ 2 * j \in 1 .. 2 * L
    BY <1>4
  <2>2. (2 * j - 1) % 2 = 1 /\ (2 * j) % 2 = 0
    BY <1>4
  <2>3. ((2 * j - 1) + 1) \div 2 = j /\ (2 * j + 1) \div 2 = j
    BY <1>4
  <2> QED
    BY <2>1, <2>2, <2>3
<1> QED
  BY <1>1, <1>8, <1>9 DEF hi, lo, L, Spelled

\* The sum after a word was exchanged.
LEMMA SumChangeWord ==
  ASSUME NEW W \in Seq(Word), NEW V \in Seq(Word), Len(V) = Len(W),
         NEW j \in 1 .. Len(W),
         SameBut(W, V, Len(W), j, j)
  PROVE  Sum(NetBytes(V)) + memswap(W[j]) = Sum(NetBytes(W)) + memswap(V[j])
<1> DEFINE b == NetBytes(W)
           c == NetBytes(V)
           k == 2 * j - 1
           L == Len(W)
           hi(w) == High(w)
           lo(w) == Low(w)
<1>0. b \in Seq(Byte) /\ Spelled(b, W) /\ c \in Seq(Byte) /\ Spelled(c, V)
  BY NetBytesAt
<1> HIDE DEF b, c
<1>1. /\ b \in Seq(Byte) /\ Len(b) = 2 * L
      /\ \A i \in 1 .. L : b[2 * i - 1] = hi(W[i]) /\ b[2 * i] = lo(W[i])
  BY <1>0 DEF Spelled
<1>2. /\ c \in Seq(Byte) /\ Len(c) = 2 * L
      /\ \A i \in 1 .. L : c[2 * i - 1] = hi(V[i]) /\ c[2 * i] = lo(V[i])
  BY <1>0 DEF Spelled
<1>3. L \in Nat /\ j \in 1 .. L /\ \A n \in 1 .. L : n # j => V[n] = W[n]
  BY LenProperties DEF SameBut
<1>4. W[j] \in Word /\ V[j] \in Word
  BY ElementOfSeq
<1>5. /\ memswap(W[j]) = hi(W[j]) + 256 * lo(W[j])
      /\ memswap(V[j]) = hi(V[j]) + 256 * lo(V[j])
  BY <1>4, SwapTimes256 DEF High, Low
<1> HIDE DEF L, hi, lo
<1>6. /\ k \in 1 .. Len(b) /\ k < Len(b) /\ k % 2 = 1 /\ k + 1 = 2 * j
  BY <1>1, <1>3
<1>7. ASSUME NEW n \in 1 .. Len(b), n # k, n # k + 1
      PROVE  c[n] = b[n]
  <2>1. PICK i \in 1 .. L : n = 2 * i - 1 \/ n = 2 * i
    <3>1. (n + 1) \div 2 \in 1 .. L
      BY <1>1, <1>3
    <3>2. n = 2 * ((n + 1) \div 2) - 1 \/ n = 2 * ((n + 1) \div 2)
      BY <1>1, <1>3
    <3> QED
      BY <3>1, <3>2
  <2>2. i # j
    BY <1>6, <1>7, <2>1
  <2> QED
    BY <1>1, <1>2, <1>3, <2>1, <2>2
<1>8. /\ b[k] = hi(W[j]) /\ b[k + 1] = lo(W[j])
      /\ c[k] = hi(V[j]) /\ c[k + 1] = lo(V[j])
  BY <1>1, <1>2, <1>3, <1>6
<1>a. SameBut(b, c, Len(b), k, k + 1)
  BY <1>7 DEF SameBut
<1>b. b \in Seq(Byte) /\ c \in Seq(Byte) /\ Len(c) = Len(b)
  BY <1>1, <1>2
<1>c. k \in 1 .. Len(b) /\ k < Len(b) /\ k % 2 = 1
  BY <1>6
<1> HIDE DEF k
<1>9. Sum(c) + (b[k] + 256 * b[k + 1]) = Sum(b) + (c[k] + 256 * c[k + 1])
  BY <1>a, <1>b, <1>c, SumChangePair
<1> QED
  BY <1>5, <1>8, <1>9 DEF b, c

-----------------------------------------------------------------------------
(* Sums of packets put together.                                           *)

\* v is t with u behind it.
Joined(v, t, L, u, M) ==
  /\ \A n \in 1 .. L : v[n] = t[n]
  /\ \A n \in 1 .. M : v[L + n] = u[n]

\* The total of joined terms is the sum of both totals.
LEMMA TotalJoined ==
  ASSUME NEW L, NEW M, NEW t, NEW s, NEW u, NEW r, NEW v, NEW q,
         Adds(s, t, L), Adds(r, u, M), Adds(q, v, L + M), Joined(v, t, L, u, M)
  PROVE  q[L + M] = s[L] + r[M]
<1> DEFINE P == {n \in Nat : q[n] = s[n]}
           Q == {n \in Nat : q[L + n] = s[L] + r[n]}
<1>0. /\ L \in Nat /\ t \in [1 .. L -> Nat] /\ s \in [0 .. L -> Nat]
      /\ M \in Nat /\ u \in [1 .. M -> Nat] /\ r \in [0 .. M -> Nat]
      /\ L + M \in Nat
  BY DEF Adds
<1>1. s[0] = 0 /\ \A n \in Nat : n < L => s[n + 1] = s[n] + t[n + 1]
  BY AddsSteps
<1>2. r[0] = 0 /\ \A n \in Nat : n < M => r[n + 1] = r[n] + u[n + 1]
  BY AddsSteps
<1>3. q[0] = 0 /\ \A n \in Nat : n < L + M => q[n + 1] = q[n] + v[n + 1]
  BY AddsSteps
<1>4. 0 \in P
  BY <1>1, <1>3
<1>5. ASSUME NEW n \in Nat, n < L, n \in P
      PROVE  n + 1 \in P
  <2>1. n < L + M /\ n + 1 \in 1 .. L
    BY <1>0, <1>5
  <2>2. q[n + 1] = q[n] + v[n + 1] /\ s[n + 1] = s[n] + t[n + 1]
    BY <1>1, <1>3, <1>5, <2>1
  <2>3. v[n + 1] = t[n + 1]
    BY <2>1 DEF Joined
  <2> QED
    BY <1>5, <2>2, <2>3
<1>6. \A n \in 0 .. L : n \in P
  <2> HIDE DEF P
  <2> QED
    BY <1>0, <1>4, <1>5, BoundedInduction
<1>7. q[L] = s[L]
  BY <1>0, <1>6
<1>8. 0 \in Q
  <2>1. s[L] \in Nat
    BY <1>0
  <2> QED
    BY <1>0, <1>2, <1>7, <2>1
<1>9. ASSUME NEW n \in Nat, n < M, n \in Q
      PROVE  n + 1 \in Q
  <2>1. /\ L + n \in Nat /\ L + n < L + M /\ n + 1 \in 1 .. M /\ n \in 0 .. M
        /\ (L + n) + 1 = L + (n + 1) /\ L \in 0 .. L
    BY <1>0, <1>9
  <2>2. q[L + (n + 1)] = q[L + n] + v[L + (n + 1)] /\ r[n + 1] = r[n] + u[n + 1]
    BY <1>2, <1>3, <1>9, <2>1
  <2>3. v[L + (n + 1)] = u[n + 1]
    BY <2>1 DEF Joined
  <2> DEFINE x == s[L]
             y == r[n]
             z == u[n + 1]
  <2>4. x \in Nat /\ y \in Nat /\ z \in Nat
    BY <1>0, <2>1
  <2>5. q[L + (n + 1)] = (x + y) + z /\ r[n + 1] = y + z
    BY <1>9, <2>2, <2>3
  <2> HIDE DEF x, y, z
  <2>6. (x + y) + z = x + (y + z)
    BY <2>4
  <2> QED
    BY <2>5, <2>6 DEF x
<1>10. \A n \in 0 .. M : n \in Q
  <2> HIDE DEF Q
  <2> QED
    BY <1>0, <1>8, <1>9, BoundedInduction
<1> QED
  BY <1>0, <1>10

\* Concatenation joins.
LEMMA ConcatAt ==
  ASSUME NEW S, NEW a \in Seq(S), NEW b \in Seq(S)
  PROVE  /\ a \o b \in Seq(S) /\ Len(a \o b) = Len(a) + Len(b)
         /\ Joined(a \o b, a, Len(a), b, Len(b))
<1> DEFINE c == a \o b
           L == Len(a)
           M == Len(b)
<1>1. c \in Seq(S) /\ Len(c) = L + M /\ L \in Nat /\ M \in Nat
  BY ConcatProperties, LenProperties
<1>2. \A i \in 1 .. L + M : c[i] = IF i <= L THEN a[i] ELSE b[i - L]
  BY ConcatProperties
<1> HIDE DEF c, L, M
<1>3. ASSUME NEW n \in 1 .. L PROVE c[n] = a[n]
  BY <1>1, <1>2
<1>4. ASSUME NEW n \in 1 .. M PROVE c[L + n] = b[n]
  <2>1. L + n \in 1 .. L + M /\ ~ (L + n <= L) /\ (L + n) - L = n
    BY <1>1
  <2> QED
    BY <1>2, <2>1
<1> QED
  BY <1>1, <1>3, <1>4 DEF c, L, M, Joined

\* The words of what follows an even number of bytes are summed up as they are alone.
LEMMA SumConcat ==
  ASSUME NEW a \in Seq(Byte), NEW b \in Seq(Byte), Len(a) % 2 = 0
  PROVE  Sum(a \o b) = Sum(a) + Sum(b)
<1> DEFINE c == a \o b
           L == Len(a)
           M == Len(b)
<1>1. c \in Seq(Byte) /\ Len(c) = L + M /\ L \in Nat /\ M \in Nat
  BY ConcatProperties, LenProperties
<1>2. /\ \A n \in 1 .. L : c[n] = a[n]
      /\ \A n \in 1 .. M : c[L + n] = b[n]
  <2>1. Joined(c, a, L, b, M)
    BY ConcatAt
  <2> QED
    BY <2>1 DEF Joined
<1>3. \A n \in 1 .. M : (L + n) % 2 = n % 2
  BY <1>1
<1>4. PICK s : Adds(s, Terms(a), L) /\ Sum(a) = s[L]
  BY SumAdds
<1>5. PICK r : Adds(r, Terms(b), M) /\ Sum(b) = r[M]
  BY SumAdds
<1> HIDE DEF c
<1>6. PICK q : Adds(q, Terms(c), L + M) /\ Sum(c) = q[L + M]
  BY <1>1, SumAdds
<1> HIDE DEF L, M
<1>7. Joined(Terms(c), Terms(a), L, Terms(b), M)
  <2>1. ASSUME NEW n \in 1 .. L
        PROVE  Terms(c)[n] = Terms(a)[n]
    <3>1. n \in 1 .. Len(c) /\ n \in 1 .. Len(a) /\ c[n] = a[n]
      BY <1>1, <1>2 DEF L
    <3> QED
      BY <3>1 DEF Terms
  <2>2. ASSUME NEW n \in 1 .. M
        PROVE  Terms(c)[L + n] = Terms(b)[n]
    <3>1. L + n \in 1 .. Len(c) /\ n \in 1 .. Len(b)
      BY <1>1 DEF M
    <3>2. c[L + n] = b[n] /\ (L + n) % 2 = n % 2
      BY <1>2, <1>3
    <3> QED
      BY <3>1, <3>2 DEF Terms
  <2> QED
    BY <2>1, <2>2 DEF Joined
<1>8. q[L + M] = s[L] + r[M]
  BY <1>4, <1>5, <1>6, <1>7, TotalJoined
<1> QED
  BY <1>4, <1>5, <1>6, <1>8 DEF c

\* Sums of joined words add up.
LEMMA NetBytesConcat ==
  ASSUME NEW V \in Seq(Word), NEW W \in Seq(Word)
  PROVE  Sum(NetBytes(V \o W)) = Sum(NetBytes(V)) + Sum(NetBytes(W))
<1> DEFINE a == NetBytes(V)
           b == NetBytes(W)
           U == V \o W
           c == NetBytes(U)
           L == Len(V)
           M == Len(W)
           hi(w) == High(w)
           lo(w) == Low(w)
<1>1. U \in Seq(Word) /\ Len(U) = L + M /\ Joined(U, V, L, W, M)
  BY ConcatAt
<1>2. L \in Nat /\ M \in Nat
  BY LenProperties
<1> HIDE DEF U
<1>a. U \in Seq(Word)
  BY <1>1
<1>b. /\ a \in Seq(Byte) /\ Spelled(a, V) /\ b \in Seq(Byte) /\ Spelled(b, W)
      /\ c \in Seq(Byte) /\ Spelled(c, U)
  BY <1>a, NetBytesAt
<1> HIDE DEF a, b, c
<1>3. /\ a \in Seq(Byte) /\ Len(a) = 2 * L
      /\ \A j \in 1 .. L : a[2 * j - 1] = hi(V[j]) /\ a[2 * j] = lo(V[j])
  BY <1>b DEF Spelled
<1>4. /\ b \in Seq(Byte) /\ Len(b) = 2 * M
      /\ \A j \in 1 .. M : b[2 * j - 1] = hi(W[j]) /\ b[2 * j] = lo(W[j])
  BY <1>b DEF Spelled
<1> HIDE DEF L, M
<1>5. /\ c \in Seq(Byte) /\ Len(c) = 2 * (L + M)
      /\ \A j \in 1 .. L + M : c[2 * j - 1] = hi(U[j]) /\ c[2 * j] = lo(U[j])
  BY <1>1, <1>b DEF Spelled
<1> HIDE DEF hi, lo
<1>6. a \o b \in Seq(Byte) /\ Len(a \o b) = 2 * L + 2 * M /\ Joined(a \o b, a, 2 * L, b, 2 * M)
  BY <1>3, <1>4, ConcatAt
<1>7. ASSUME NEW n \in 1 .. 2 * (L + M)
      PROVE  c[n] = (a \o b)[n]
  <2> DEFINE j == (n + 1) \div 2
  <2>1. j \in 1 .. L + M /\ (n = 2 * j - 1 \/ n = 2 * j)
    BY <1>2
  <2> HIDE DEF j
  <2>2. CASE j <= L
    <3>1. j \in 1 .. L /\ n \in 1 .. 2 * L
      BY <1>2, <2>1, <2>2
    <3>2. U[j] = V[j] /\ (a \o b)[n] = a[n]
      BY <1>1, <1>6, <3>1 DEF Joined
    <3> QED
      BY <1>3, <1>5, <2>1, <3>1, <3>2
  <2>3. CASE ~ (j <= L)
    <3> DEFINE i == j - L
               m == n - 2 * L
    <3>1. /\ i \in 1 .. M /\ m \in 1 .. 2 * M /\ j = L + i /\ n = 2 * L + m
          /\ (m = 2 * i - 1 <=> n = 2 * j - 1) /\ (m = 2 * i <=> n = 2 * j)
      BY <1>2, <2>1, <2>3
    <3> HIDE DEF i, m
    <3>2. U[j] = W[i] /\ (a \o b)[n] = b[m]
      BY <1>1, <1>6, <3>1 DEF Joined
    <3>3. CASE n = 2 * j - 1
      BY <1>4, <1>5, <2>1, <3>1, <3>2, <3>3
    <3>4. CASE n = 2 * j
      BY <1>4, <1>5, <2>1, <3>1, <3>2, <3>4
    <3> QED
      BY <2>1, <3>3, <3>4
  <2> QED
    BY <2>2, <2>3
<1>8. c = a \o b
  <2>1. Len(c) = Len(a \o b) /\ \A n \in 1 .. Len(c) : c[n] = (a \o b)[n]
    BY <1>2, <1>5, <1>6, <1>7
  <2> QED
    BY <1>5, <1>6, <2>1, SeqEqual
<1>9. Len(a) % 2 = 0
  BY <1>2, <1>3
<1>10. Sum(a \o b) = Sum(a) + Sum(b)
  BY <1>3, <1>4, <1>9, SumConcat
<1> QED
  BY <1>8, <1>10 DEF a, b, c, U

\* The sum of two words.
LEMMA SumOfTwo ==
  ASSUME NEW x \in Word, NEW y \in Word
  PROVE  Sum(NetBytes(<<x, y>>)) = memswap(x) + memswap(y)
<1> DEFINE W == <<x, y>>
           b == NetBytes(W)
           hi(w) == High(w)
           lo(w) == Low(w)
<1>1. W \in Seq(Word) /\ Len(W) = 2 /\ W[1] = x /\ W[2] = y
  OBVIOUS
<1> HIDE DEF W
<1>2. /\ b \in Seq(Byte) /\ Len(b) = 4
      /\ b[1] = hi(x) /\ b[2] = lo(x) /\ b[3] = hi(y) /\ b[4] = lo(y)
  <2>a. b \in Seq(Byte) /\ Spelled(b, W)
    BY <1>1, NetBytesAt
  <2> HIDE DEF b
  <2>1. /\ b \in Seq(Byte) /\ Len(b) = 2 * Len(W)
        /\ \A j \in 1 .. Len(W) : b[2 * j - 1] = hi(W[j]) /\ b[2 * j] = lo(W[j])
    BY <2>a DEF Spelled
  <2> HIDE DEF hi, lo
  <2>2. 1 \in 1 .. Len(W) /\ 2 \in 1 .. Len(W) /\ 2 * 1 = 2 /\ 2 * 2 = 4
        /\ 2 * 1 - 1 = 1 /\ 2 * 2 - 1 = 3 /\ 2 * Len(W) = 4
    BY <1>1
  <2> QED
    BY <1>1, <2>1, <2>2
<1>3. /\ hi(x) \in Byte /\ lo(x) \in Byte /\ hi(y) \in Byte /\ lo(y) \in Byte
      /\ memswap(x) = hi(x) + 256 * lo(x) /\ memswap(y) = hi(y) + 256 * lo(y)
  BY HighAndLow, SwapTimes256 DEF High, Low
<1> HIDE DEF b, hi, lo
<1>4. PICK s : Adds(s, Terms(b), 4) /\ Sum(b) = s[4]
  BY <1>2, SumAdds
<1>5. s[0] = 0 /\ \A n \in Nat : n < 4 => s[n + 1] = s[n] + Terms(b)[n + 1]
  BY <1>4, AddsSteps
<1>6. /\ Terms(b)[1] = hi(x) /\ Terms(b)[2] = 256 * lo(x)
      /\ Terms(b)[3] = hi(y) /\ Terms(b)[4] = 256 * lo(y)
  BY <1>2 DEF Terms
<1>7. /\ s[1] = s[0] + Terms(b)[1] /\ s[2] = s[1] + Terms(b)[2]
      /\ s[3] = s[2] + Terms(b)[3] /\ s[4] = s[3] + Terms(b)[4]
  <2>1. 0 + 1 = 1 /\ 1 + 1 = 2 /\ 2 + 1 = 3 /\ 3 + 1 = 4
    OBVIOUS
  <2>2. s[0 + 1] = s[0] + Terms(b)[0 + 1] /\ s[1 + 1] = s[1] + Terms(b)[1 + 1]
    BY <1>5
  <2>3. s[2 + 1] = s[2] + Terms(b)[2 + 1] /\ s[3 + 1] = s[3] + Terms(b)[3 + 1]
    BY <1>5
  <2> QED
    BY <2>1, <2>2, <2>3
<1> DEFINE h == hi(x)
           l == lo(x)
           k == hi(y)
           m == lo(y)
<1>8. h \in Nat /\ l \in Nat /\ k \in Nat /\ m \in Nat
  <2>1. \A w \in Byte : w \in Nat
    BY DEF Byte
  <2> QED
    BY <1>3, <2>1
<1>9. /\ s[1] = 0 + h /\ s[2] = s[1] + 256 * l /\ s[3] = s[2] + k
      /\ s[4] = s[3] + 256 * m
      /\ memswap(x) = h + 256 * l /\ memswap(y) = k + 256 * m
  BY <1>3, <1>5, <1>6, <1>7
<1> HIDE DEF h, l, k, m
<1>10. s[4] = (h + 256 * l) + (k + 256 * m)
  BY <1>8, <1>9
<1> QED
  BY <1>4, <1>9, <1>10 DEF b, W

-----------------------------------------------------------------------------
(* Packets that carry their checksum.                                      *)

\* A sum and what checksum() makes of it.
LEMMA Complement ==
  ASSUME NEW s \in Nat
  PROVE  /\ s + (65535 - Fold(s)) \in Nat /\ s + (65535 - Fold(s)) > 0
         /\ Multiple(s + (65535 - Fold(s)))
<1> DEFINE w == Fold(s)
           d == s - w
           e == d + 65535
<1>1. w \in Word /\ (w = 0 <=> s = 0) /\ Multiple(d)
  BY FoldType
<1> HIDE DEF w
<1>2. d \in Int /\ 65535 \in Int /\ s + (65535 - w) = e
  BY <1>1, SMT DEF Word
<1>3. Multiple(e)
  <2> HIDE DEF d
  <2> QED
    BY <1>1, <1>2, MultipleArith
<1>4. s + (65535 - w) \in Nat /\ s + (65535 - w) > 0
  BY <1>1, SMT DEF Word
<1> QED
  BY <1>2, <1>3, <1>4 DEF w

\* The checksum left in two bytes of a packet, as the processor stores it.
LEMMA SealedBytes ==
  ASSUME NEW b \in Seq(Byte), NEW c \in Seq(Byte), Len(c) = Len(b),
         NEW k \in 1 .. Len(b), k % 2 = 1, k < Len(b),
         SameBut(b, c, Len(b), k, k + 1), b[k] = 0, b[k + 1] = 0,
         c[k] = checksum(b) % 256, c[k + 1] = checksum(b) \div 256
  PROVE  Verifies(c)
<1> DEFINE w == checksum(b)
           q == w \div 256
           r == w % 256
           s == Sum(b)
           u == Sum(c)
           p == s + (65535 - Fold(s))
<1>1. u + (b[k] + 256 * b[k + 1]) = s + (c[k] + 256 * c[k + 1])
  BY SumChangePair
<1>2. s \in Nat /\ w = 65535 - Fold(s) /\ w \in Word /\ u \in Nat
  BY ChecksumZero
<1> HIDE DEF w
<1>3. q \in Byte /\ r \in Byte /\ w = 256 * q + r
  BY <1>2, HighAndLow
<1>4. c[k] = r /\ c[k + 1] = q
  BY DEF w
<1> HIDE DEF q, r, s, u
<1>5. u + (0 + 256 * 0) = s + (r + 256 * q)
  BY <1>1, <1>4
<1>6. q \in Nat /\ r \in Nat
  BY <1>3, SMT DEF Byte
<1>7. u = s + w
  BY <1>2, <1>3, <1>5, <1>6
<1>8. u = p
  BY <1>2, <1>7
<1>9. p > 0 /\ Multiple(p)
  BY <1>2, Complement
<1> HIDE DEF p
<1>10. checksum(c) = 0
  <2>1. u > 0 /\ Multiple(u)
    BY <1>8, <1>9
  <2> QED
    BY <2>1, ChecksumZero DEF u
<1> QED
  BY <1>10, AcceptsWhatVerifies

\* The checksum left in a word of a header, in packet order.
LEMMA SealedWords ==
  ASSUME NEW W \in Seq(Word), NEW V \in Seq(Word), Len(V) = Len(W),
         NEW j \in 1 .. Len(W), SameBut(W, V, Len(W), j, j),
         W[j] = 0, V[j] = memswap(checksum(NetBytes(W)))
  PROVE  Verifies(NetBytes(V))
<1> DEFINE b == NetBytes(W)
           c == NetBytes(V)
           w == checksum(b)
           s == Sum(b)
           u == Sum(c)
           p == s + (65535 - Fold(s))
<1>1. u + memswap(W[j]) = s + memswap(V[j])
  BY SumChangeWord
<1>2. b \in Seq(Byte) /\ c \in Seq(Byte)
  BY NetBytesAt
<1> HIDE DEF b, c
<1>3. s \in Nat /\ w = 65535 - Fold(s) /\ w \in Word /\ u \in Nat
  BY <1>2, ChecksumZero
<1> HIDE DEF w
<1>4. memswap(memswap(w)) = w
  BY <1>3, SwapTwice
<1>5. W[j] \in Word
  BY ElementOfSeq
<1>6. memswap(W[j]) = 0
  BY <1>5, SwapTimes256
<1>7. memswap(V[j]) = w
  BY <1>4 DEF w, b
<1> HIDE DEF s, u
<1>8. u = s + w
  <2>1. w \in Nat
    BY <1>3, SMT DEF Word
  <2>2. u + 0 = s + w
    BY <1>1, <1>6, <1>7
  <2> QED
    BY <1>3, <2>1, <2>2
<1>9. u = p
  BY <1>3, <1>8
<1>10. p > 0 /\ Multiple(p)
  BY <1>3, Complement
<1> HIDE DEF p
<1>11. checksum(c) = 0
  <2>1. u > 0 /\ Multiple(u)
    BY <1>9, <1>10
  <2> QED
    BY <1>2, <2>1, ChecksumZero DEF u
<1>12. Verifies(c)
  BY <1>2, <1>11, AcceptsWhatVerifies
<1> QED
  BY <1>12 DEF c

\* What tcp_checksum leaves in the header.
LEMMA TcpChecksumZero ==
  ASSUME NEW b \in Seq(Byte), Len(b) < 65536, NEW src \in Seq(Word), NEW dst \in Seq(Word)
  PROVE  tcp_checksum(b, src, dst) = 0 <=>
           Multiple(((memswap(Len(b)) + memswap(6)) + Sum(NetBytes(src \o dst))) + Sum(b))
<1> DEFINE l == memswap(Len(b))
           m == memswap(6)
           a == Sum(NetBytes(src \o dst))
           s == Sum(b)
           w == Fold(s)
           c == checksum(b)
           x == ((l + m) + a) + (65535 - c)
           y == ((l + m) + a) + s
           f == Folded(x)
           v == Fold(x)
<1>1. tcp_checksum(b, src, dst) = 65535 - f
  BY DEF tcp_checksum
<1>2. l \in Nat /\ m \in Nat /\ m > 0
  <2>1. \A n \in Word : n \in Nat
    BY SMT DEF Word
  <2>2. Len(b) \in Word /\ 6 \in Word /\ 6 # 0
    BY LenProperties, SMT DEF Word
  <2>3. l \in Word
    BY <2>2, SwapTimes256
  <2>4. m \in Word /\ m # 0
    BY <2>2, SwapTimes256
  <2> HIDE DEF l, m
  <2> QED
    BY <2>1, <2>3, <2>4
<1>3. a \in Nat
  <2> DEFINE U == src \o dst
  <2>1. U \in Seq(Word)
    BY ConcatAt
  <2> HIDE DEF U
  <2>2. NetBytes(U) \in Seq(Byte)
    BY <2>1, NetBytesAt
  <2>3. Sum(NetBytes(U)) \in Nat
    BY <2>2, ChecksumZero
  <2> QED
    BY <2>3 DEF U
<1>4. s \in Nat /\ c = 65535 - w
  BY ChecksumZero
<1> HIDE DEF l, m, a, s, c
<1>5. w \in Word /\ Multiple(s - w)
  BY <1>4, FoldType
<1> HIDE DEF w
<1>6. 65535 - c = w /\ w \in Nat
  BY <1>4, <1>5, SMT DEF Word
<1>7. x \in Nat /\ x > 0 /\ y \in Nat /\ y - x = s - w /\ y - (y - x) = x /\ x + (y - x) = y
  BY <1>2, <1>3, <1>4, <1>6
<1> HIDE DEF x, y
<1>8. f = v
  BY <1>7, FoldedIsFold
<1>9. v \in Word /\ Multiple(x - v)
  BY <1>7, FoldType
<1> HIDE DEF f
<1>10. 65535 - f = 0 <=> v = 65535
  <2> HIDE DEF v
  <2> QED
    BY <1>8, <1>9, SMT DEF Word
<1>11. ASSUME v = 65535 PROVE Multiple(x)
  <2>1. x - 65535 \in Int /\ 65535 \in Int /\ (x - 65535) + 65535 = x
    BY <1>7, SMT
  <2>2. Multiple(x - 65535)
    BY <1>9, <1>11
  <2>3. Multiple((x - 65535) + 65535)
    BY <2>1, <2>2, MultipleArith
  <2> QED
    BY <2>1, <2>3
<1>12. ASSUME Multiple(x) PROVE v = 65535
  <2>1. x \in Int /\ 65535 \in Int /\ 65535 \in Word \ {0} /\ x \in Nat \ {0}
    BY <1>7, SMT DEF Word
  <2>2. Multiple(x - 65535)
    BY <1>12, <2>1, MultipleArith
  <2> QED
    BY <2>1, <2>2, FoldIs
<1>13. Multiple(x) <=> Multiple(y)
  <2> DEFINE d == y - x
  <2>1. x \in Int /\ y \in Int /\ d \in Int /\ Multiple(d) /\ y - d = x /\ x + d = y
    BY <1>5, <1>7
  <2> HIDE DEF d
  <2>2. ASSUME Multiple(x) PROVE Multiple(y)
    <3>1. Multiple(x + d)
      BY <2>1, <2>2, MultipleArith
    <3> QED
      BY <2>1, <3>1
  <2>3. ASSUME Multiple(y) PROVE Multiple(x)
    <3>1. Multiple(y - d)
      BY <2>1, <2>3, MultipleArith
    <3> QED
      BY <2>1, <3>1
  <2> QED
    BY <2>2, <2>3
<1> HIDE DEF v
<1>14. tcp_checksum(b, src, dst) = 0 <=> Multiple(y)
  BY <1>1, <1>10, <1>11, <1>12, <1>13
<1> QED
  BY <1>14 DEF y, l, m, a, s

\* tcp_recv accepts exactly the segments whose checksum is right for the network,
\* over the pseudo header and a segment of any length (tcp.c 207, 485-508).
THEOREM TcpAcceptsWhatVerifies ==
  ASSUME NEW b \in Seq(Byte), Len(b) < 65536, NEW src \in Seq(Word), NEW dst \in Seq(Word)
  PROVE  tcp_checksum(b, src, dst) = 0
           <=> Verifies(NetBytes(src \o dst \o <<6, Len(b)>>) \o b)
<1> DEFINE U == src \o dst
           n == Len(b)
           T == <<6, n>>
           W == U \o T
           P == NetBytes(W)
           C == P \o b
           l == memswap(n)
           m == memswap(6)
           a == Sum(NetBytes(U))
           s == Sum(b)
<1>1. 6 \in Word /\ n \in Word
  BY LenProperties, SMT DEF Word
<1>2. U \in Seq(Word)
  BY ConcatAt
<1>3. tcp_checksum(b, src, dst) = 0 <=> Multiple(((l + m) + a) + s)
  BY TcpChecksumZero
<1>4. T \in Seq(Word) /\ Sum(NetBytes(T)) = m + l
  BY <1>1, SumOfTwo
<1> HIDE DEF U, n, T
<1>5. W \in Seq(Word) /\ Sum(NetBytes(W)) = a + Sum(NetBytes(T))
  BY <1>2, <1>4, ConcatAt, NetBytesConcat
<1> HIDE DEF W
<1>6. P \in Seq(Byte) /\ Len(P) = 2 * Len(W)
  BY <1>5, NetBytesAt DEF Spelled
<1>7. Len(W) \in Nat
  BY <1>5, LenProperties
<1>8. a \in Nat /\ s \in Nat
  <2>1. NetBytes(U) \in Seq(Byte)
    BY <1>2, NetBytesAt
  <2> QED
    BY <2>1, ChecksumZero
<1>9. l \in Nat /\ m \in Nat /\ m > 0
  <2>1. \A w \in Word : w \in Nat
    BY SMT DEF Word
  <2>2. l \in Word
    BY <1>1, SwapTimes256
  <2>3. 6 # 0
    OBVIOUS
  <2>4. m \in Word /\ m # 0
    BY <1>1, <2>3, SwapTimes256
  <2> HIDE DEF l, m
  <2> QED
    BY <2>1, <2>2, <2>4
<1> HIDE DEF P, a, l, m, s
<1>10. Len(P) % 2 = 0
  BY <1>6, <1>7
<1>11. C \in Seq(Byte) /\ Sum(C) = Sum(P) + s
  <2>1. P \in Seq(Byte)
    BY <1>6
  <2>2. C \in Seq(Byte)
    BY <2>1, ConcatAt
  <2>3. Sum(C) = Sum(P) + Sum(b)
    BY <2>1, <1>10, SumConcat
  <2> QED
    BY <2>2, <2>3 DEF s
<1>12. Sum(P) = a + (m + l)
  BY <1>4, <1>5 DEF P
<1> HIDE DEF C
<1>13. Sum(C) = ((l + m) + a) + s
  <2>1. Sum(C) = (a + (m + l)) + s
    BY <1>11, <1>12
  <2> QED
    BY <1>8, <1>9, <2>1
<1>14. Sum(C) > 0
  BY <1>8, <1>9, <1>13
<1>15. checksum(C) = 0 <=> Multiple(Sum(C))
  BY <1>11, <1>14, ChecksumZero
<1>16. checksum(C) = 0 <=> Verifies(C)
  BY <1>11, AcceptsWhatVerifies
<1> QED
  BY <1>3, <1>13, <1>15, <1>16 DEF C, P, W, T, U, n

\* A sum that was a multiple of 65535 is none after an exchange of what differs.
LEMMA ExchangeShows ==
  ASSUME NEW s \in Int, NEW u \in Int, NEW x \in Int, NEW y \in Int,
         u + x = s + y, Multiple(s), ~ Multiple(y - x)
  PROVE  ~ Multiple(u)
<1> SUFFICES ASSUME Multiple(u) PROVE FALSE
  OBVIOUS
<1>1. Multiple(u - s)
  BY MultipleArith
<1>2. u - s = y - x
  OBVIOUS
<1> QED
  BY <1>1, <1>2

\* EXCEPT changes one element.
LEMMA ExceptAt ==
  ASSUME NEW S, NEW s \in Seq(S), NEW i \in 1 .. Len(s), NEW w \in S
  PROVE  /\ [s EXCEPT ![i] = w] \in Seq(S) /\ Len([s EXCEPT ![i] = w]) = Len(s)
         /\ [s EXCEPT ![i] = w][i] = w
         /\ SameBut(s, [s EXCEPT ![i] = w], Len(s), i, i)
<1> DEFINE t == [s EXCEPT ![i] = w]
           n == Len(s)
<1>1. t = [j \in 1 .. n |-> IF j = i THEN w ELSE s[j]]
  BY LenProperties
<1>2. n \in Nat /\ \A j \in 1 .. n : s[j] \in S
  BY LenProperties, ElementOfSeq
<1> HIDE DEF t, n
<1>3. t \in Seq(S) /\ Len(t) = n
  BY <1>1, <1>2
<1>4. i \in 1 .. n
  BY DEF n
<1>5. t[i] = w /\ SameBut(s, t, n, i, i)
  BY <1>1, <1>4 DEF SameBut
<1> QED
  BY <1>3, <1>5 DEF t, n

\* A packet that was accepted is refused after an exchange of what differs.
LEMMA ChangeShows ==
  ASSUME NEW b \in Seq(Byte), NEW c \in Seq(Byte), NEW x \in Int, NEW y \in Int,
         Sum(c) + x = Sum(b) + y, checksum(b) = 0, ~ Multiple(y - x)
  PROVE  checksum(c) # 0
<1> DEFINE s == Sum(b)
           u == Sum(c)
<1>1. s \in Int /\ u \in Int
  BY ChecksumZero
<1>2. Multiple(s) /\ u + x = s + y
  BY ChecksumZero
<1>3. checksum(c) = 0 => Multiple(u)
  BY ChecksumZero
<1> HIDE DEF s, u
<1>4. ~ Multiple(u)
  BY <1>1, <1>2, ExchangeShows
<1> QED
  BY <1>3, <1>4

\* Two words no sum tells apart.
Alike(a, b) == {a, b} = {0, 65535}

\* Words that are not alike differ modulo 65535, in either byte order.
LEMMA NotAlike ==
  ASSUME NEW a \in Word, NEW b \in Word, a # b, ~ Alike(a, b)
  PROVE  ~ Multiple(b - a) /\ ~ Multiple(memswap(b) - memswap(a))
BY WordsDiffer, SMT DEF Alike

\* A packet that verifies is refused after an exchange of one of its words.
LEMMA WordShows ==
  ASSUME NEW W \in Seq(Word), NEW V \in Seq(Word), Len(V) = Len(W),
         NEW j \in 1 .. Len(W), SameBut(W, V, Len(W), j, j),
         W[j] # V[j], ~ Alike(W[j], V[j]), Verifies(NetBytes(W))
  PROVE  checksum(NetBytes(V)) # 0
<1> DEFINE b == NetBytes(W)
           c == NetBytes(V)
           x == memswap(W[j])
           y == memswap(V[j])
<1>1. Sum(c) + x = Sum(b) + y
  BY SumChangeWord
<1>2. W[j] \in Word /\ V[j] \in Word
  BY ElementOfSeq
<1>3. ~ Multiple(y - x)
  BY <1>2, NotAlike
<1>4. x \in Int /\ y \in Int
  <2>1. \A w \in Word : w \in Int
    BY SMT DEF Word
  <2> QED
    BY <1>2, <2>1, SwapTimes256
<1>5. b \in Seq(Byte) /\ c \in Seq(Byte)
  BY NetBytesAt
<1> HIDE DEF b, c, x, y
<1>6. checksum(b) = 0
  BY <1>5, AcceptsWhatVerifies DEF b
<1>7. checksum(c) # 0
  BY <1>1, <1>3, <1>4, <1>5, <1>6, ChangeShows
<1> QED
  BY <1>7 DEF c

=============================================================================
