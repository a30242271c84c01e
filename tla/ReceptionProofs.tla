--------------------------- MODULE ReceptionProofs ---------------------------
(***************************************************************************)
(* Proofs about Reception, for all frames and all damage to them that      *)
(* FrameAssumption admits and every length that LengthAssumption admits.   *)
(*                                                                         *)
(* None of the three invariants is inductive alone.  Each is proved        *)
(* together with what ties the state to the frame that arrived: Arrived,   *)
(* Phases (what is about to be sent) and Place (where the parser is).      *)
(***************************************************************************)
EXTENDS Reception, ChecksumProofs, FiniteSetTheorems

-----------------------------------------------------------------------------
(* Words of a header.                                                      *)

\* The fields of a header, one by one.
LEMMA HeaderType ==
  ASSUME NEW h \in Headers
  PROVE  /\ h.ver \in Nat /\ h.ver < 16 /\ h.hl \in Nat /\ h.hl < 16 /\ h.hl >= 5
         /\ h.len \in Word /\ h.ident \in Word /\ h.frag \in Word /\ h.csum \in Word
         /\ h.ttl \in Byte /\ h.prot \in Byte
         /\ h.src \in Seq(Word) /\ Len(h.src) = 2 /\ h.dst \in Seq(Word) /\ Len(h.dst) = 2
         /\ h.opts \in Seq(Word) /\ Len(h.opts) = 2 * (h.hl - 5)
<1>1. \A n \in 0 .. 15 : n \in Nat /\ n < 16
  OBVIOUS
<1>2. \A n \in 5 .. 15 : n \in Nat /\ n < 16 /\ n >= 5
  OBVIOUS
<1>3. /\ h.ver \in 0 .. 15 /\ h.hl \in 5 .. 15
      /\ h.len \in Word /\ h.ident \in Word /\ h.frag \in Word /\ h.csum \in Word
      /\ h.ttl \in Byte /\ h.prot \in Byte
      /\ h.src \in Address /\ h.dst \in Address
      /\ h.opts \in Seq(Word) /\ Len(h.opts) = 2 * (h.hl - 5)
  BY DEF Headers
<1>4. \A a \in Address : a \in Seq(Word) /\ Len(a) = 2
  BY DEF Address
<1> QED
  BY <1>1, <1>2, <1>3, <1>4

\* The fields of a header are its words in turn.
Spells(W, h) ==
  /\ W \in Seq(Word) /\ Len(W) = 10 + Len(h.opts)
  /\ W[1] = h.ver * 4096 + h.hl * 256
  /\ W[2] = h.len /\ W[3] = h.ident /\ W[4] = h.frag
  /\ W[5] = h.ttl * 256 + h.prot /\ W[6] = h.csum
  /\ W[7] = h.src[1] /\ W[8] = h.src[2] /\ W[9] = h.dst[1] /\ W[10] = h.dst[2]
  /\ \A i \in 1 .. Len(h.opts) : W[10 + i] = h.opts[i]

\* HeaderWords puts each field in its place.
LEMMA HeaderWordsAt ==
  ASSUME NEW h \in Headers
  PROVE  Spells(HeaderWords(h), h)
<1> DEFINE x == h.ver * 4096 + h.hl * 256
           y == h.ttl * 256 + h.prot
           A == <<x, h.len, h.ident, h.frag, y, h.csum>>
           B == A \o h.src
           C == B \o h.dst
           D == C \o h.opts
<1>1. x \in Word /\ y \in Word
  <2>1. h.ver \in Nat /\ h.ver < 16 /\ h.hl \in Nat /\ h.hl < 16
    BY HeaderType
  <2>2. h.ttl \in Byte /\ h.prot \in Byte
    BY HeaderType
  <2>3. x \in Word
    BY <2>1, SMT DEF Word
  <2>4. y \in Word
    BY <2>2, SMT DEF Word, Byte
  <2> QED
    BY <2>3, <2>4
<1> HIDE DEF x, y
<1>2. /\ A \in Seq(Word) /\ Len(A) = 6
      /\ A[1] = x /\ A[2] = h.len /\ A[3] = h.ident /\ A[4] = h.frag
      /\ A[5] = y /\ A[6] = h.csum
  <2>1. h.len \in Word /\ h.ident \in Word /\ h.frag \in Word /\ h.csum \in Word
    BY HeaderType
  <2> QED
    BY <1>1, <2>1
<1>3. /\ h.src \in Seq(Word) /\ Len(h.src) = 2 /\ h.dst \in Seq(Word) /\ Len(h.dst) = 2
      /\ h.opts \in Seq(Word) /\ Len(h.opts) \in Nat
  BY HeaderType, LenProperties
<1> HIDE DEF A
<1>4. B \in Seq(Word) /\ Len(B) = 8 /\ Joined(B, A, 6, h.src, 2)
  <2>1. A \in Seq(Word) /\ h.src \in Seq(Word)
    BY <1>2, <1>3
  <2>2. B \in Seq(Word) /\ Len(B) = Len(A) + Len(h.src)
        /\ Joined(B, A, Len(A), h.src, Len(h.src))
    BY <2>1, ConcatAt
  <2> HIDE DEF B
  <2> QED
    BY <1>2, <1>3, <2>2
<1> HIDE DEF B
<1>5. C \in Seq(Word) /\ Len(C) = 10 /\ Joined(C, B, 8, h.dst, 2)
  <2>1. B \in Seq(Word) /\ h.dst \in Seq(Word)
    BY <1>4, <1>3
  <2>2. C \in Seq(Word) /\ Len(C) = Len(B) + Len(h.dst)
        /\ Joined(C, B, Len(B), h.dst, Len(h.dst))
    BY <2>1, ConcatAt
  <2> HIDE DEF C
  <2> QED
    BY <1>4, <1>3, <2>2
<1> HIDE DEF C
<1>6. D \in Seq(Word) /\ Len(D) = 10 + Len(h.opts) /\ Joined(D, C, 10, h.opts, Len(h.opts))
  <2>1. C \in Seq(Word) /\ h.opts \in Seq(Word)
    BY <1>5, <1>3
  <2>2. D \in Seq(Word) /\ Len(D) = Len(C) + Len(h.opts)
        /\ Joined(D, C, Len(C), h.opts, Len(h.opts))
    BY <2>1, ConcatAt
  <2> HIDE DEF D
  <2> QED
    BY <1>5, <1>3, <2>2
<1> HIDE DEF D
<1>7. \A n \in 1 .. 6 : D[n] = A[n]
  <2>1. \A n \in 1 .. 6 : B[n] = A[n]
    BY <1>4 DEF Joined
  <2>2. \A n \in 1 .. 6 : C[n] = B[n]
    BY <1>5 DEF Joined
  <2>3. \A n \in 1 .. 10 : D[n] = C[n]
    BY <1>6, Zenon DEF Joined
  <2> QED
    BY <2>1, <2>2, <2>3
<1>8. D[7] = h.src[1] /\ D[8] = h.src[2]
  <2>1. B[6 + 1] = h.src[1] /\ B[6 + 2] = h.src[2]
    BY <1>4 DEF Joined
  <2>2. D[7] = B[7] /\ D[8] = B[8]
    BY <1>5, <1>6 DEF Joined
  <2> QED
    BY <2>1, <2>2
<1>9. D[9] = h.dst[1] /\ D[10] = h.dst[2]
  <2>1. C[8 + 1] = h.dst[1] /\ C[8 + 2] = h.dst[2]
    BY <1>5 DEF Joined
  <2>2. D[9] = C[9] /\ D[10] = C[10]
    BY <1>6 DEF Joined
  <2> QED
    BY <2>1, <2>2
<1>10. \A i \in 1 .. Len(h.opts) : D[10 + i] = h.opts[i]
  BY <1>6 DEF Joined
<1>11. HeaderWords(h) = D
  BY DEF HeaderWords, D, C, B, A, x, y
<1>12. /\ D[1] = x /\ D[2] = h.len /\ D[3] = h.ident /\ D[4] = h.frag
       /\ D[5] = y /\ D[6] = h.csum
  BY <1>2, <1>7
<1>13. D[1] = h.ver * 4096 + h.hl * 256 /\ D[5] = h.ttl * 256 + h.prot
  BY <1>12 DEF x, y
<1>14. D \in Seq(Word) /\ Len(D) = 10 + Len(h.opts)
  BY <1>6
<1>15. Spells(D, h)
  BY <1>8, <1>9, <1>10, <1>12, <1>13, <1>14 DEF Spells
<1> QED
  BY <1>11, <1>15
\* g is h but for one word, which was old and is new.
OneWord(h, g, old, new) ==
  \E j \in 1 .. 10 + Len(h.opts) :
    /\ Len(g.opts) = Len(h.opts)
    /\ SameBut(HeaderWords(h), HeaderWords(g), 10 + Len(h.opts), j, j)
    /\ HeaderWords(h)[j] = old /\ HeaderWords(g)[j] = new

\* Headers whose words agree but for one.
LEMMA OneWordAt ==
  ASSUME NEW h \in Headers, NEW g \in Headers, NEW j \in 1 .. 10 + Len(h.opts),
         Len(g.opts) = Len(h.opts),
         \A n \in 1 .. 10 : n # j => HeaderWords(g)[n] = HeaderWords(h)[n],
         \A i \in 1 .. Len(h.opts) : 10 + i # j => g.opts[i] = h.opts[i]
  PROVE  OneWord(h, g, HeaderWords(h)[j], HeaderWords(g)[j])
<1> DEFINE W == HeaderWords(h)
           V == HeaderWords(g)
           L == Len(h.opts)
<1>1. Spells(W, h) /\ Spells(V, g)
  BY HeaderWordsAt
<1>2. L \in Nat
  BY HeaderType, LenProperties
<1>3. \A n \in 1 .. 10 : n # j => V[n] = W[n]
  OBVIOUS
<1> HIDE DEF W, V
<1>4. \A i \in 1 .. L : W[10 + i] = h.opts[i] /\ V[10 + i] = g.opts[i]
  BY <1>1 DEF Spells
<1>5. \A i \in 1 .. L : 10 + i # j => V[10 + i] = W[10 + i]
  BY <1>4
<1>6. SameBut(W, V, 10 + L, j, j)
  <2> SUFFICES ASSUME NEW n \in 1 .. 10 + L, n # j
               PROVE  V[n] = W[n]
    BY DEF SameBut
  <2>1. CASE n <= 10
    BY <1>2, <1>3, <2>1
  <2>2. CASE n > 10
    <3>1. n - 10 \in 1 .. L /\ 10 + (n - 10) = n
      BY <1>2, <2>2
    <3> QED
      BY <1>5, <3>1
  <2> QED
    BY <1>2, <2>1, <2>2
<1> QED
  BY <1>6 DEF OneWord, W, V, L

\* ip_recv refuses a header that verified before one of its words was exchanged.
LEMMA OneWordShows ==
  ASSUME NEW h \in Headers, NEW g \in Headers, NEW old, NEW new,
         OneWord(h, g, old, new), Verifies(HeaderBytes(h)),
         old # new, ~ Alike(old, new)
  PROVE  checksum(HeaderBytes(g)) # 0
<1> DEFINE W == HeaderWords(h)
           V == HeaderWords(g)
           L == 10 + Len(h.opts)
<1>1. PICK j \in 1 .. L :
        /\ Len(g.opts) = Len(h.opts) /\ SameBut(W, V, L, j, j)
        /\ W[j] = old /\ V[j] = new
  BY DEF OneWord
<1>2. Spells(W, h) /\ Spells(V, g)
  BY HeaderWordsAt
<1>3. Verifies(NetBytes(W)) /\ HeaderBytes(g) = NetBytes(V)
  BY DEF HeaderBytes
<1> HIDE DEF W, V
<1>4. W \in Seq(Word) /\ V \in Seq(Word) /\ Len(W) = L /\ Len(V) = L
  BY <1>1, <1>2 DEF Spells
<1> HIDE DEF L
<1>5. W[j] # V[j] /\ ~ Alike(W[j], V[j])
  BY <1>1
<1>6. checksum(NetBytes(V)) # 0
  BY <1>1, <1>3, <1>4, <1>5, WordShows
<1> QED
  BY <1>3, <1>6

\* Damage to a field of 16 bits is damage to one word,
LEMMA FieldHit ==
  ASSUME NEW h \in Headers, NEW w \in Word, NEW k \in {"len", "ident", "frag", "csum"}
  PROVE  [h EXCEPT ![k] = w] \in Headers /\ OneWord(h, [h EXCEPT ![k] = w], h[k], w)
<1> DEFINE g == [h EXCEPT ![k] = w]
           V == HeaderWords(g)
           W == HeaderWords(h)
<1>1. /\ g \in Headers /\ g.opts = h.opts /\ g[k] = w
      /\ g.ver = h.ver /\ g.hl = h.hl /\ g.ttl = h.ttl /\ g.prot = h.prot
      /\ g.src = h.src /\ g.dst = h.dst
      /\ k # "len" => g.len = h.len
      /\ k # "ident" => g.ident = h.ident
      /\ k # "frag" => g.frag = h.frag
      /\ k # "csum" => g.csum = h.csum
  BY DEF Headers
<1> HIDE DEF g
<1>2. Spells(W, h) /\ Spells(V, g)
  BY <1>1, HeaderWordsAt
<1>3. Len(h.opts) \in Nat
  BY HeaderType, LenProperties
<1> HIDE DEF V, W
<1>4. /\ V[1] = W[1] /\ V[5] = W[5] /\ V[7] = W[7] /\ V[8] = W[8]
      /\ V[9] = W[9] /\ V[10] = W[10]
  BY <1>1, <1>2 DEF Spells
<1>5. /\ k # "len" => V[2] = W[2]
      /\ k # "ident" => V[3] = W[3]
      /\ k # "frag" => V[4] = W[4]
      /\ k # "csum" => V[6] = W[6]
  BY <1>1, <1>2 DEF Spells
<1>6. ASSUME NEW j \in 1 .. 10, W[j] = h[k], V[j] = w,
             \A n \in {2, 3, 4, 6} : n # j => V[n] = W[n]
      PROVE  OneWord(h, g, W[j], V[j])
  <2>1. \A n \in 1 .. 10 : n # j => V[n] = W[n]
    BY <1>4, <1>6
  <2>2. j \in 1 .. 10 + Len(h.opts)
    BY <1>3
  <2>3. \A i \in 1 .. Len(h.opts) : 10 + i # j => g.opts[i] = h.opts[i]
    BY <1>1
  <2> QED
    BY <1>1, <2>1, <2>2, <2>3, OneWordAt DEF V, W
<1>7. /\ W[2] = h.len /\ W[3] = h.ident /\ W[4] = h.frag /\ W[6] = h.csum
      /\ V[2] = g.len /\ V[3] = g.ident /\ V[4] = g.frag /\ V[6] = g.csum
  BY <1>2 DEF Spells
<1>8. CASE k = "len"
  <2>1. W[2] = h[k] /\ V[2] = w /\ \A n \in {2, 3, 4, 6} : n # 2 => V[n] = W[n]
    BY <1>1, <1>5, <1>7, <1>8
  <2>2. OneWord(h, g, W[2], V[2])
    BY <1>6, <2>1
  <2> QED
    BY <1>1, <2>1, <2>2 DEF g
<1>9. CASE k = "ident"
  <2>1. W[3] = h[k] /\ V[3] = w /\ \A n \in {2, 3, 4, 6} : n # 3 => V[n] = W[n]
    BY <1>1, <1>5, <1>7, <1>9
  <2>2. OneWord(h, g, W[3], V[3])
    BY <1>6, <2>1
  <2> QED
    BY <1>1, <2>1, <2>2 DEF g
<1>10. CASE k = "frag"
  <2>1. W[4] = h[k] /\ V[4] = w /\ \A n \in {2, 3, 4, 6} : n # 4 => V[n] = W[n]
    BY <1>1, <1>5, <1>7, <1>10
  <2>2. OneWord(h, g, W[4], V[4])
    BY <1>6, <2>1
  <2> QED
    BY <1>1, <2>1, <2>2 DEF g
<1>11. CASE k = "csum"
  <2>1. W[6] = h[k] /\ V[6] = w /\ \A n \in {2, 3, 4, 6} : n # 6 => V[n] = W[n]
    BY <1>1, <1>5, <1>7, <1>11
  <2>2. OneWord(h, g, W[6], V[6])
    BY <1>6, <2>1
  <2> QED
    BY <1>1, <2>1, <2>2 DEF g
<1> QED
  BY <1>8, <1>9, <1>10, <1>11

\* so is damage to half of an address,
LEMMA AddressHit ==
  ASSUME NEW h \in Headers, NEW w \in Word, NEW k \in {"src", "dst"}, NEW i \in {1, 2}
  PROVE  [h EXCEPT ![k][i] = w] \in Headers /\ OneWord(h, [h EXCEPT ![k][i] = w], h[k][i], w)
<1> DEFINE g == [h EXCEPT ![k][i] = w]
           V == HeaderWords(g)
           W == HeaderWords(h)
<1>0. h.src \in Address /\ h.dst \in Address
  BY DEF Headers
<1>1. ASSUME NEW a \in Address
      PROVE  /\ [a EXCEPT ![i] = w] \in Address
             /\ [a EXCEPT ![i] = w][i] = w
             /\ \A n \in {1, 2} : n # i => [a EXCEPT ![i] = w][n] = a[n]
  <2>1. a \in Seq(Word) /\ Len(a) = 2
    BY DEF Address
  <2>2. i \in 1 .. Len(a)
    BY <2>1
  <2> DEFINE e == [a EXCEPT ![i] = w]
  <2>a. \A s \in Seq(Word) : \A n \in 1 .. Len(s) :
          /\ [s EXCEPT ![n] = w] \in Seq(Word)
          /\ Len([s EXCEPT ![n] = w]) = Len(s)
          /\ [s EXCEPT ![n] = w][n] = w
          /\ SameBut(s, [s EXCEPT ![n] = w], Len(s), n, n)
    BY ExceptAt
  <2>3. /\ e \in Seq(Word) /\ Len(e) = Len(a) /\ e[i] = w
        /\ SameBut(a, e, Len(a), i, i)
    BY <2>1, <2>2, <2>a
  <2> HIDE DEF e
  <2>4. \A n \in {1, 2} : n # i => e[n] = a[n]
    BY <2>1, <2>3 DEF SameBut
  <2> QED
    BY <2>1, <2>3, <2>4 DEF Address, e
<1>2. /\ g[k] = [h[k] EXCEPT ![i] = w]
      /\ g.opts = h.opts /\ g.ver = h.ver /\ g.hl = h.hl /\ g.ttl = h.ttl /\ g.prot = h.prot
      /\ g.len = h.len /\ g.ident = h.ident /\ g.frag = h.frag /\ g.csum = h.csum
      /\ k # "src" => g.src = h.src
      /\ k # "dst" => g.dst = h.dst
  BY DEF Headers
<1>3. g \in Headers
  <2>1. h[k] \in Address
    BY <1>0
  <2>2. [h[k] EXCEPT ![i] = w] \in Address
    BY <1>1, <2>1
  <2> QED
    BY <2>2 DEF Headers
<1>4. /\ k = "src" => /\ h[k][i] = h.src[i] /\ g.src[i] = w
                      /\ \A n \in {1, 2} : n # i => g.src[n] = h.src[n]
      /\ k = "dst" => /\ h[k][i] = h.dst[i] /\ g.dst[i] = w
                      /\ \A n \in {1, 2} : n # i => g.dst[n] = h.dst[n]
  <2>1. CASE k = "src"
    <3>1. g.src = [h.src EXCEPT ![i] = w] /\ h[k] = h.src
      BY <1>2, <2>1
    <3> QED
      BY <1>0, <1>1, <2>1, <3>1
  <2>2. CASE k = "dst"
    <3>1. g.dst = [h.dst EXCEPT ![i] = w] /\ h[k] = h.dst
      BY <1>2, <2>2
    <3> QED
      BY <1>0, <1>1, <2>2, <3>1
  <2> QED
    BY <2>1, <2>2
<1> HIDE DEF g
<1>5. Spells(W, h) /\ Spells(V, g)
  BY <1>3, HeaderWordsAt
<1>6. Len(h.opts) \in Nat
  BY HeaderType, LenProperties
<1> HIDE DEF V, W
<1>7. V[1] = W[1] /\ V[2] = W[2] /\ V[3] = W[3] /\ V[4] = W[4] /\ V[5] = W[5] /\ V[6] = W[6]
  BY <1>2, <1>5 DEF Spells
<1>8. /\ V[7] = g.src[1] /\ V[8] = g.src[2] /\ V[9] = g.dst[1] /\ V[10] = g.dst[2]
      /\ W[7] = h.src[1] /\ W[8] = h.src[2] /\ W[9] = h.dst[1] /\ W[10] = h.dst[2]
  BY <1>5 DEF Spells
<1>9. ASSUME NEW j \in 1 .. 10, W[j] = h[k][i], V[j] = w,
             \A n \in {7, 8, 9, 10} : n # j => V[n] = W[n]
      PROVE  OneWord(h, g, h[k][i], w)
  <2>1. \A n \in 1 .. 10 : n # j => V[n] = W[n]
    BY <1>7, <1>9
  <2>2. j \in 1 .. 10 + Len(h.opts)
    BY <1>6
  <2>3. \A n \in 1 .. Len(h.opts) : 10 + n # j => g.opts[n] = h.opts[n]
    BY <1>2
  <2>4. OneWord(h, g, W[j], V[j])
    BY <1>2, <1>3, <2>1, <2>2, <2>3, OneWordAt DEF V, W
  <2> QED
    BY <1>9, <2>4
<1>10. CASE k = "src" /\ i = 1
  <2>1. W[7] = h[k][i] /\ V[7] = w /\ V[8] = W[8] /\ V[9] = W[9] /\ V[10] = W[10]
    BY <1>2, <1>4, <1>8, <1>10
  <2> QED
    BY <1>3, <1>9, <2>1 DEF g
<1>11. CASE k = "src" /\ i = 2
  <2>1. W[8] = h[k][i] /\ V[8] = w /\ V[7] = W[7] /\ V[9] = W[9] /\ V[10] = W[10]
    BY <1>2, <1>4, <1>8, <1>11
  <2> QED
    BY <1>3, <1>9, <2>1 DEF g
<1>12. CASE k = "dst" /\ i = 1
  <2>1. W[9] = h[k][i] /\ V[9] = w /\ V[7] = W[7] /\ V[8] = W[8] /\ V[10] = W[10]
    BY <1>2, <1>4, <1>8, <1>12
  <2> QED
    BY <1>3, <1>9, <2>1 DEF g
<1>13. CASE k = "dst" /\ i = 2
  <2>1. W[10] = h[k][i] /\ V[10] = w /\ V[7] = W[7] /\ V[8] = W[8] /\ V[9] = W[9]
    BY <1>2, <1>4, <1>8, <1>13
  <2> QED
    BY <1>3, <1>9, <2>1 DEF g
<1> QED
  BY <1>10, <1>11, <1>12, <1>13

\* to the word of ttl and protocol,
LEMMA ProtHit ==
  ASSUME NEW h \in Headers, NEW w \in Word
  PROVE  LET g == [h EXCEPT !.ttl = w \div 256, !.prot = w % 256]
         IN  g \in Headers /\ OneWord(h, g, h.ttl * 256 + h.prot, w)
<1> DEFINE x == w \div 256
           y == w % 256
           g == [h EXCEPT !.ttl = x, !.prot = y]
           V == HeaderWords(g)
           W == HeaderWords(h)
<1>1. x \in Byte /\ y \in Byte /\ x * 256 + y = w
  <2>1. x \in Byte /\ y \in Byte /\ w = 256 * x + y
    BY HighAndLow
  <2>2. x \in Nat
    BY <2>1 DEF Byte
  <2> HIDE DEF x, y
  <2> QED
    BY <2>1, <2>2
<1> HIDE DEF x, y
<1>0. x \in Byte /\ y \in Byte
  BY <1>1
<1>2. /\ g \in Headers /\ g.opts = h.opts /\ g.ttl = x /\ g.prot = y
      /\ g.ver = h.ver /\ g.hl = h.hl /\ g.len = h.len /\ g.ident = h.ident
      /\ g.frag = h.frag /\ g.csum = h.csum /\ g.src = h.src /\ g.dst = h.dst
  BY <1>0 DEF Headers
<1> HIDE DEF g
<1>3. Spells(W, h) /\ Spells(V, g)
  BY <1>2, HeaderWordsAt
<1>4. Len(h.opts) \in Nat
  BY HeaderType, LenProperties
<1> HIDE DEF V, W
<1>5. /\ V[1] = W[1] /\ V[2] = W[2] /\ V[3] = W[3] /\ V[4] = W[4] /\ V[6] = W[6]
      /\ V[7] = W[7] /\ V[8] = W[8] /\ V[9] = W[9] /\ V[10] = W[10]
  BY <1>2, <1>3 DEF Spells
<1>6. W[5] = h.ttl * 256 + h.prot /\ V[5] = w
  BY <1>1, <1>2, <1>3 DEF Spells
<1>7. \A n \in 1 .. 10 : n # 5 => V[n] = W[n]
  BY <1>5
<1>8. 5 \in 1 .. 10 + Len(h.opts)
  BY <1>4
<1>9. \A i \in 1 .. Len(h.opts) : 10 + i # 5 => g.opts[i] = h.opts[i]
  BY <1>2
<1>10. OneWord(h, g, W[5], V[5])
  BY <1>2, <1>7, <1>8, <1>9, OneWordAt DEF V, W
<1>11. g \in Headers /\ OneWord(h, g, h.ttl * 256 + h.prot, w)
  BY <1>2, <1>6, <1>10
<1> QED
  BY <1>11 DEF g, x, y

\* and to a word of the options.
LEMMA OptionHit ==
  ASSUME NEW h \in Headers, NEW w \in Word, NEW i \in 1 .. Len(h.opts)
  PROVE  /\ [h EXCEPT !.opts[i] = w] \in Headers
         /\ OneWord(h, [h EXCEPT !.opts[i] = w], h.opts[i], w)
<1> DEFINE o == [h.opts EXCEPT ![i] = w]
           g == [h EXCEPT !.opts[i] = w]
           V == HeaderWords(g)
           W == HeaderWords(h)
           j == 10 + i
<1>1. h.opts \in Seq(Word) /\ Len(h.opts) \in Nat
  BY HeaderType, LenProperties
<1>2. o \in Seq(Word) /\ Len(o) = Len(h.opts) /\ o[i] = w
      /\ SameBut(h.opts, o, Len(h.opts), i, i)
  BY <1>1, ExceptAt
<1>3. /\ g.opts = o
      /\ g.ver = h.ver /\ g.hl = h.hl /\ g.len = h.len /\ g.ident = h.ident
      /\ g.ttl = h.ttl /\ g.prot = h.prot
      /\ g.frag = h.frag /\ g.csum = h.csum /\ g.src = h.src /\ g.dst = h.dst
  BY DEF Headers
<1> HIDE DEF o
<1>4. g \in Headers
  <2>1. g = [h EXCEPT !.opts = o]
    BY DEF Headers, o
  <2> HIDE DEF g
  <2> QED
    BY <1>2, <2>1 DEF Headers
<1> HIDE DEF g
<1>5. Spells(W, h) /\ Spells(V, g)
  BY <1>4, HeaderWordsAt
<1> HIDE DEF V, W
<1>6. W[10 + i] = h.opts[i] /\ V[10 + i] = w
  <2>1. \A n \in 1 .. Len(h.opts) : W[10 + n] = h.opts[n]
    BY <1>5 DEF Spells
  <2>2. \A n \in 1 .. Len(g.opts) : V[10 + n] = g.opts[n]
    BY <1>5 DEF Spells
  <2>3. Len(g.opts) = Len(h.opts) /\ g.opts[i] = w
    BY <1>2, <1>3
  <2> QED
    BY <2>1, <2>2, <2>3
<1>7. /\ V[1] = W[1] /\ V[2] = W[2] /\ V[3] = W[3] /\ V[4] = W[4] /\ V[5] = W[5]
      /\ V[6] = W[6] /\ V[7] = W[7] /\ V[8] = W[8] /\ V[9] = W[9] /\ V[10] = W[10]
  BY <1>3, <1>5 DEF Spells
<1>8. \A n \in 1 .. 10 : n # j => V[n] = W[n]
  BY <1>7
<1>9. \A n \in 1 .. Len(h.opts) : 10 + n # j => g.opts[n] = h.opts[n]
  BY <1>2, <1>3 DEF SameBut
<1>10. j \in 1 .. 10 + Len(h.opts) /\ Len(g.opts) = Len(h.opts)
  BY <1>1, <1>2, <1>3
<1> HIDE DEF j
<1>11. OneWord(h, g, W[j], V[j])
  BY <1>4, <1>8, <1>9, <1>10, OneWordAt DEF V, W
<1> QED
  BY <1>4, <1>6, <1>11 DEF g, j

\* What a hit records.
LEMMA HitIs ==
  ASSUME NEW f, NEW old, NEW new
  PROVE  /\ Hit(f, old, new).frame = f
         /\ Hit(f, old, new).damage[1] = old /\ Hit(f, old, new).damage[2] = new
         /\ Hit(f, old, new).damage # <<>>
BY DEF Hit

\* Whatever is hit in a header is one word.
LEMMA HeaderHit ==
  ASSUME NEW f \in Datagrams, NEW w \in Word, NEW hit \in DamagedHeader(f, w)
  PROVE  /\ hit.frame.type = "IP" /\ hit.frame.h \in Headers /\ hit.damage # <<>>
         /\ OneWord(f.h, hit.frame.h, hit.damage[1], hit.damage[2])
<1>0. f.h \in Headers
  BY DEF Datagrams
<1>1. CASE \E k \in {"len", "ident", "frag", "csum"} :
             hit = Hit([f EXCEPT !.h[k] = w], f.h[k], w)
  <2>1. PICK k \in {"len", "ident", "frag", "csum"} :
          hit = Hit([f EXCEPT !.h[k] = w], f.h[k], w)
    BY <1>1
  <2> DEFINE g == [f.h EXCEPT ![k] = w]
  <2>2. g \in Headers /\ OneWord(f.h, g, f.h[k], w)
    BY <1>0, FieldHit
  <2>3. hit.frame.type = "IP" /\ hit.frame.h = g
    <3>1. [f EXCEPT !.h[k] = w].type = "IP" /\ [f EXCEPT !.h[k] = w].h = g
      BY DEF Datagrams
    <3>2. hit.frame = [f EXCEPT !.h[k] = w]
      BY <2>1, HitIs
    <3> QED
      BY <3>1, <3>2
  <2>4. hit.damage[1] = f.h[k] /\ hit.damage[2] = w /\ hit.damage # <<>>
    BY <2>1, HitIs
  <2> HIDE DEF g
  <2> QED
    BY <2>2, <2>3, <2>4
<1>2. CASE \E k \in {"src", "dst"}, i \in {1, 2} :
             hit = Hit([f EXCEPT !.h[k][i] = w], f.h[k][i], w)
  <2>1. PICK k \in {"src", "dst"}, i \in {1, 2} :
          hit = Hit([f EXCEPT !.h[k][i] = w], f.h[k][i], w)
    BY <1>2
  <2> DEFINE g == [f.h EXCEPT ![k][i] = w]
  <2>2. g \in Headers /\ OneWord(f.h, g, f.h[k][i], w)
    BY <1>0, AddressHit
  <2>3. hit.frame.type = "IP" /\ hit.frame.h = g
    <3>1. [f EXCEPT !.h[k][i] = w].type = "IP" /\ [f EXCEPT !.h[k][i] = w].h = g
      BY DEF Datagrams
    <3>2. hit.frame = [f EXCEPT !.h[k][i] = w]
      BY <2>1, HitIs
    <3> QED
      BY <3>1, <3>2
  <2>4. hit.damage[1] = f.h[k][i] /\ hit.damage[2] = w /\ hit.damage # <<>>
    BY <2>1, HitIs
  <2> HIDE DEF g
  <2> QED
    BY <2>2, <2>3, <2>4
<1>3. CASE hit = Hit([f EXCEPT !.h.ttl = w \div 256, !.h.prot = w % 256],
                     f.h.ttl * 256 + f.h.prot, w)
  <2> DEFINE x == w \div 256
             y == w % 256
             g == [f.h EXCEPT !.ttl = x, !.prot = y]
             d == f.h.ttl * 256 + f.h.prot
  <2>1. g \in Headers /\ OneWord(f.h, g, d, w)
    BY <1>0, ProtHit
  <2>2. hit = Hit([f EXCEPT !.h.ttl = x, !.h.prot = y], d, w)
    BY <1>3
  <2> HIDE DEF x, y, d
  <2>3. hit.frame.type = "IP" /\ hit.frame.h = g
    <3>1. /\ [f EXCEPT !.h.ttl = x, !.h.prot = y].type = "IP"
          /\ [f EXCEPT !.h.ttl = x, !.h.prot = y].h = g
      BY DEF Datagrams
    <3>2. hit.frame = [f EXCEPT !.h.ttl = x, !.h.prot = y]
      BY <2>2, HitIs
    <3> QED
      BY <3>1, <3>2
  <2>4. hit.damage[1] = d /\ hit.damage[2] = w /\ hit.damage # <<>>
    BY <2>2, HitIs
  <2> HIDE DEF g
  <2> QED
    BY <2>1, <2>3, <2>4
<1>4. CASE \E i \in 1 .. Len(f.h.opts) :
             hit = Hit([f EXCEPT !.h.opts[i] = w], f.h.opts[i], w)
  <2>1. PICK i \in 1 .. Len(f.h.opts) :
          hit = Hit([f EXCEPT !.h.opts[i] = w], f.h.opts[i], w)
    BY <1>4
  <2> DEFINE g == [f.h EXCEPT !.opts[i] = w]
  <2>2. g \in Headers /\ OneWord(f.h, g, f.h.opts[i], w)
    BY <1>0, OptionHit
  <2>3. hit.frame.type = "IP" /\ hit.frame.h = g
    <3>1. [f EXCEPT !.h.opts[i] = w].type = "IP" /\ [f EXCEPT !.h.opts[i] = w].h = g
      BY DEF Datagrams
    <3>2. hit.frame = [f EXCEPT !.h.opts[i] = w]
      BY <2>1, HitIs
    <3> QED
      BY <3>1, <3>2
  <2>4. hit.damage[1] = f.h.opts[i] /\ hit.damage[2] = w /\ hit.damage # <<>>
    BY <2>1, HitIs
  <2> HIDE DEF g
  <2> QED
    BY <2>2, <2>3, <2>4
<1> DEFINE p(k) == Hit([f EXCEPT !.h[k] = w], f.h[k], w)
           q(k, i) == Hit([f EXCEPT !.h[k][i] = w], f.h[k][i], w)
           c == Hit([f EXCEPT !.h.ttl = w \div 256, !.h.prot = w % 256],
                    f.h.ttl * 256 + f.h.prot, w)
           r(i) == Hit([f EXCEPT !.h.opts[i] = w], f.h.opts[i], w)
<1>5. DamagedHeader(f, w) =
             {p(k) : k \in {"len", "ident", "frag", "csum"}}
               \union {q(k, i) : k \in {"src", "dst"}, i \in {1, 2}}
               \union {c} \union {r(i) : i \in 1 .. Len(f.h.opts)}
  BY SMT DEF DamagedHeader
<1>6. \/ \E k \in {"len", "ident", "frag", "csum"} : hit = p(k)
      \/ \E k \in {"src", "dst"}, i \in {1, 2} : hit = q(k, i)
      \/ hit = c
      \/ \E i \in 1 .. Len(f.h.opts) : hit = r(i)
  <2> HIDE DEF p, q, c, r
  <2> QED
    BY <1>5
<1> QED
  BY <1>1, <1>2, <1>3, <1>4, <1>6

-----------------------------------------------------------------------------
(* Words of the data.                                                      *)

\* A sequence cut short.
LEMMA SubSeqAt ==
  ASSUME NEW S, NEW s \in Seq(S), NEW m \in Nat, m <= Len(s)
  PROVE  /\ SubSeq(s, 1, m) \in Seq(S) /\ Len(SubSeq(s, 1, m)) = m
         /\ \A i \in 1 .. m : SubSeq(s, 1, m)[i] = s[i]
OBVIOUS

\* The data of a datagram are the first bytes of what the frame carries.
LEMMA DataType ==
  ASSUME NEW f \in Datagrams
  PROVE  /\ Data(f) \in Seq(Byte) /\ Len(Data(f)) = f.h.len - 4 * f.h.hl
         /\ Len(Data(f)) \in Nat /\ Len(Data(f)) < 65536
         /\ Len(Data(f)) <= Len(f.data)
         /\ \A i \in 1 .. Len(Data(f)) : Data(f)[i] = f.data[i]
<1> DEFINE m == f.h.len - 4 * f.h.hl
           n == f.h.len
<1>1. /\ f.data \in Seq(Byte) /\ Len(f.data) \in Nat /\ f.h \in Headers
      /\ 4 * f.h.hl <= n /\ n <= 4 * f.h.hl + Len(f.data)
  BY LenProperties DEF Datagrams
<1>2. n \in Word /\ f.h.hl \in Nat
  BY <1>1, HeaderType
<1>3. n \in Nat /\ n < 65536
  BY <1>2, SMT DEF Word
<1>4. m \in Nat /\ m <= Len(f.data) /\ m < 65536
  <2> DEFINE k == f.h.hl
             q == Len(f.data)
  <2>1. q \in Nat /\ k \in Nat /\ 4 * k <= n /\ n <= 4 * k + q /\ m = n - 4 * k
    BY <1>1, <1>2
  <2> HIDE DEF k, q, m, n
  <2>2. m \in Nat /\ m <= q /\ m < 65536
    BY <1>3, <2>1
  <2> QED
    BY <2>2 DEF q
<1> HIDE DEF m
<1>5. Data(f) = SubSeq(f.data, 1, m)
  BY DEF Data, m
<1>6. Data(f) \in Seq(Byte) /\ Len(Data(f)) = m /\ \A i \in 1 .. m : Data(f)[i] = f.data[i]
  BY <1>1, <1>4, <1>5, SubSeqAt
<1> QED
  BY <1>4, <1>6 DEF m

\* Bytes b and c differ in words that were old and are new, and their sums by as much.
OneChange(b, c, old, new) ==
  /\ c \in Seq(Byte) /\ Len(c) = Len(b)
  /\ \E x, y \in Int :
       /\ Sum(c) + x = Sum(b) + y
       /\ old # new /\ ~ Alike(old, new) => ~ Multiple(y - x)

\* Exchanging a word of the data, or its odd last byte, is one change.
LEMMA PutAt ==
  ASSUME NEW s \in Seq(Byte), NEW k \in 1 .. Len(s), k % 2 = 1, NEW w \in Word
  PROVE  OneChange(s, PutWord(s, k, w), WordAt(s, k), WordAt(PutWord(s, k, w), k))
<1> DEFINE h == w \div 256
           l == w % 256
           n == Len(s)
<1>1. h \in Byte /\ l \in Byte
  BY HighAndLow
<1>2. n \in Nat /\ \A i \in 1 .. n : s[i] \in Byte
  BY LenProperties, ElementOfSeq
<1>3. CASE k < n
  <2> DEFINE c == [s EXCEPT ![k] = h, ![k + 1] = l]
             a == s[k]
             b == s[k + 1]
  <2>1. PutWord(s, k, w) = c
    BY <1>3 DEF PutWord
  <2>2. c = [i \in 1 .. n |-> IF i = k + 1 THEN l ELSE IF i = k THEN h ELSE s[i]]
    BY <1>2, <1>3, LenProperties
  <2>3. a \in Byte /\ b \in Byte
    BY <1>2, <1>3
  <2> HIDE DEF h, l, c
  <2>4. c[k] = h /\ c[k + 1] = l /\ SameBut(s, c, n, k, k + 1)
    BY <1>2, <1>3, <2>2 DEF SameBut
  <2>5. c \in Seq(Byte) /\ Len(c) = n
    BY <1>1, <1>2, <2>2
  <2>6. Sum(c) + (s[k] + 256 * s[k + 1]) = Sum(s) + (c[k] + 256 * c[k + 1])
    BY <1>3, <2>4, <2>5, SumChangePair
  <2> DEFINE u == WordAt(s, k)
             v == WordAt(c, k)
  <2>7. u = a * 256 + b /\ v = h * 256 + l
    BY <1>3, <2>4, <2>5 DEF WordAt
  <2> HIDE DEF a, b, u, v
  <2>8. u = 256 * a + b /\ v = 256 * h + l
    <3>1. \A z \in Byte : z \in Nat
      BY DEF Byte
    <3> QED
      BY <1>1, <2>3, <2>7, <3>1
  <2>9. ASSUME NEW x \in Byte, NEW y \in Byte
        PROVE  256 * x + y \in Word /\ memswap(256 * x + y) = x + 256 * y
    BY FromBytes, SwapTimes256
  <2>10. /\ u \in Word /\ v \in Word
         /\ memswap(u) = a + 256 * b /\ memswap(v) = h + 256 * l
    BY <1>1, <2>3, <2>8, <2>9
  <2>11. u # v /\ ~ Alike(u, v) => ~ Multiple(memswap(v) - memswap(u))
    BY <2>10, NotAlike
  <2>12. memswap(u) \in Int /\ memswap(v) \in Int
    <3>1. \A z \in Word : z \in Int
      BY SMT DEF Word
    <3> QED
      BY <2>10, <3>1, SwapTimes256
  <2>13. Sum(c) + memswap(u) = Sum(s) + memswap(v)
    BY <2>4, <2>6, <2>10 DEF a, b
  <2> QED
    BY <2>1, <2>5, <2>11, <2>12, <2>13 DEF OneChange, u, v, n
<1>4. CASE k >= n
  <2> DEFINE c == [s EXCEPT ![k] = l]
  <2>1. PutWord(s, k, w) = c
    BY <1>4 DEF PutWord
  <2> HIDE DEF h, l
  <2>2. c \in Seq(Byte) /\ Len(c) = n /\ c[k] = l /\ SameBut(s, c, n, k, k)
    BY <1>1, ExceptAt
  <2> HIDE DEF c
  <2>3. Sum(c) + s[k] = Sum(s) + c[k]
    BY <2>2, SumChangeByte
  <2> DEFINE u == WordAt(s, k)
             v == WordAt(c, k)
  <2>4. u = s[k] /\ v = c[k]
    BY <1>4, <2>2 DEF WordAt
  <2> HIDE DEF u, v
  <2>5. u \in Word /\ v \in Word
    <3>1. s[k] \in Byte /\ c[k] \in Byte
      BY <1>1, <1>2, <2>2
    <3>2. \A z \in Byte : z \in Word
      BY SMT DEF Byte, Word
    <3> QED
      BY <2>4, <3>1, <3>2
  <2>6. u # v /\ ~ Alike(u, v) => ~ Multiple(v - u)
    BY <2>5, NotAlike
  <2>7. u \in Int /\ v \in Int
    <3>1. \A z \in Word : z \in Int
      BY SMT DEF Word
    <3> QED
      BY <2>5, <3>1
  <2>8. Sum(c) + u = Sum(s) + v
    BY <2>3, <2>4
  <2> QED
    BY <2>1, <2>2, <2>6, <2>7, <2>8 DEF OneChange, u, v, n
<1> QED
  BY <1>2, <1>3, <1>4

\* Whatever is hit in the data is one change, and the header stays.
LEMMA DataHit ==
  ASSUME NEW f \in Datagrams, NEW w \in Word, NEW hit \in DamagedData(f, w)
  PROVE  /\ hit.frame.type = "IP" /\ hit.frame.h = f.h /\ hit.damage # <<>>
         /\ OneChange(Data(f), Data(hit.frame), hit.damage[1], hit.damage[2])
<1> DEFINE data == Data(f)
           rest == SubSeq(f.data, Len(data) + 1, Len(f.data))
<1>1. PICK k \in 1 .. Len(data) :
        /\ k % 2 = 1
        /\ hit = Hit([f EXCEPT !.data = PutWord(data, k, w)
                                 \o SubSeq(@, Len(data) + 1, Len(@))],
                     WordAt(data, k), WordAt(PutWord(data, k, w), k))
  BY DEF DamagedData
<1> DEFINE c == PutWord(data, k, w)
           g == [f EXCEPT !.data = c \o rest]
<1>2. data \in Seq(Byte) /\ Len(data) \in Nat /\ Len(data) = f.h.len - 4 * f.h.hl
  BY DataType
<1>3. OneChange(data, c, WordAt(data, k), WordAt(c, k))
  BY <1>1, <1>2, PutAt
<1>4. hit = Hit(g, WordAt(data, k), WordAt(c, k))
  BY <1>1 DEF Datagrams
<1>5. rest \in Seq(Byte)
  BY <1>2 DEF Datagrams
<1>6. c \in Seq(Byte) /\ Len(c) = Len(data)
  BY <1>3 DEF OneChange
<1>7. g.type = "IP" /\ g.h = f.h /\ g.data = c \o rest
  BY DEF Datagrams
<1> HIDE DEF c, g, rest, data
<1>8. Data(g) = c
  <2> DEFINE d == c \o rest
             m == Len(data)
  <2>1. d \in Seq(Byte) /\ Len(d) = Len(c) + Len(rest) /\ Joined(d, c, Len(c), rest, Len(rest))
    BY <1>5, <1>6, ConcatAt
  <2>2. Data(g) = SubSeq(d, 1, m)
    BY <1>2, <1>7 DEF Data
  <2>3. m \in Nat /\ Len(c) = m /\ Len(rest) \in Nat
    BY <1>2, <1>5, <1>6, LenProperties
  <2> HIDE DEF d, m
  <2>4. m <= Len(d) /\ \A i \in 1 .. m : d[i] = c[i]
    BY <2>1, <2>3 DEF Joined
  <2>5. /\ SubSeq(d, 1, m) \in Seq(Byte) /\ Len(SubSeq(d, 1, m)) = m
        /\ \A i \in 1 .. m : SubSeq(d, 1, m)[i] = d[i]
    BY <2>1, <2>3, <2>4, SubSeqAt
  <2>6. \A i \in 1 .. m : SubSeq(d, 1, m)[i] = c[i]
    BY <2>4, <2>5
  <2> DEFINE z == SubSeq(d, 1, m)
  <2>7. z \in Seq(Byte) /\ Len(z) = m /\ \A i \in 1 .. m : z[i] = c[i]
    BY <2>5, <2>6
  <2> HIDE DEF z
  <2>8. z = c
    BY <1>6, <2>3, <2>7, SeqEqual
  <2> QED
    BY <2>2, <2>8 DEF z
<1>9. /\ hit.frame = g /\ hit.damage # <<>>
      /\ hit.damage[1] = WordAt(data, k) /\ hit.damage[2] = WordAt(c, k)
  BY <1>4, HitIs
<1> QED
  BY <1>3, <1>7, <1>8, <1>9 DEF data

-----------------------------------------------------------------------------
(* Damage is noticed.                                                      *)

\* What ip_recv, icmp_recv and tcp_recv make of a datagram they refuse.
Refused(f) ==
  /\ f.type = "IP"
  /\ Valid(f.h) =>
       /\ f.h.prot = 1 => checksum(Data(f)) # 0
       /\ f.h.prot = 6 => tcp_checksum(Data(f), f.h.src, f.h.dst) # 0
       /\ f.h.prot # 17

\* tcp_recv refuses a segment that verified before one of its words was
\* exchanged.
LEMMA SegmentShows ==
  ASSUME NEW f \in Datagrams, NEW c, NEW old, NEW new,
         OneChange(Data(f), c, old, new), old # new, ~ Alike(old, new),
         Verifies(Pseudo(f) \o Data(f))
  PROVE  tcp_checksum(c, f.h.src, f.h.dst) # 0
<1> DEFINE b == Data(f)
           src == f.h.src
           dst == f.h.dst
           a == Sum(NetBytes(src \o dst))
           t(n) == (memswap(n) + memswap(6)) + a
<1>1. b \in Seq(Byte) /\ Len(b) < 65536 /\ Len(b) \in Nat
  BY DataType
<1>2. src \in Seq(Word) /\ dst \in Seq(Word)
  <2>1. f.h \in Headers
    BY DEF Datagrams
  <2> QED
    BY <2>1, HeaderType
<1>3. tcp_checksum(b, src, dst) = 0
  <2>1. Verifies(NetBytes(src \o dst \o <<6, Len(b)>>) \o b)
    BY DEF Pseudo
  <2> HIDE DEF b, src, dst
  <2> QED
    BY <1>1, <1>2, <2>1, TcpAcceptsWhatVerifies
<1>4. c \in Seq(Byte) /\ Len(c) = Len(b)
  BY DEF OneChange
<1>5. PICK x \in Int, y \in Int : Sum(c) + x = Sum(b) + y /\ ~ Multiple(y - x)
  BY DEF OneChange
<1>6. t(Len(b)) \in Int
  <2>1. \A z \in Word : z \in Int
    BY SMT DEF Word
  <2>2. Len(b) \in Word /\ 6 \in Word
    BY <1>1, SMT DEF Word
  <2>3. memswap(Len(b)) \in Int /\ memswap(6) \in Int
    BY <2>1, <2>2, SwapTimes256
  <2>4. a \in Int
    <3>1. src \o dst \in Seq(Word)
      BY <1>2, ConcatAt
    <3> HIDE DEF src, dst
    <3>2. NetBytes(src \o dst) \in Seq(Byte)
      BY <3>1, NetBytesAt
    <3> QED
      BY <3>2, ChecksumZero
  <2> HIDE DEF a, b
  <2> QED
    BY <2>3, <2>4
<1> HIDE DEF b, src, dst
<1>7. tcp_checksum(b, src, dst) = 0 <=> Multiple(t(Len(b)) + Sum(b))
  BY <1>1, <1>2, TcpChecksumZero
<1>8. tcp_checksum(c, src, dst) = 0 <=> Multiple(t(Len(c)) + Sum(c))
  <2>1. Len(c) < 65536
    BY <1>1, <1>4
  <2> QED
    BY <1>2, <1>4, <2>1, TcpChecksumZero
<1> DEFINE v == t(Len(b))
           s == v + Sum(b)
           u == v + Sum(c)
<1>9. Sum(b) \in Int /\ Sum(c) \in Int
  BY <1>1, <1>4, ChecksumZero
<1>10. v \in Int
  BY <1>6
<1>11. Multiple(s)
  BY <1>3, <1>7
<1>12. tcp_checksum(c, src, dst) = 0 => Multiple(u)
  BY <1>4, <1>8
<1> HIDE DEF v
<1>13. s \in Int /\ u \in Int /\ u + x = s + y
  BY <1>5, <1>9, <1>10
<1> HIDE DEF s, u
<1>14. ~ Multiple(u)
  BY <1>5, <1>11, <1>13, ExchangeShows
<1> QED
  BY <1>12, <1>14 DEF src, dst

\* Damage that leaves a sum other than before is refused.
LEMMA DamageShows ==
  ASSUME NEW a \in Arrivals, a.damage # <<>>, ~ Alike(a.damage[1], a.damage[2])
  PROVE  Refused(a.frame)
<1> DEFINE g == a.frame
           old == a.damage[1]
           new == a.damage[2]
<1>1. PICK f \in Exposed, w \in Changes :
        a \in DamagedHeader(f, w) \union DamagedData(f, w) /\ old # new
  BY DEF Arrivals, Damaged
<1>2. f \in Datagrams /\ WellFormed(f) /\ f.h.prot # 17 /\ w \in Word
  BY FrameAssumption
<1>3. f.h \in Headers /\ Verifies(HeaderBytes(f.h))
  BY <1>2 DEF Datagrams, WellFormed
<1>4. old # new /\ ~ Alike(old, new)
  BY <1>1
<1>5. CASE a \in DamagedHeader(f, w)
  <2>1. g.type = "IP" /\ g.h \in Headers /\ OneWord(f.h, g.h, old, new)
    BY <1>2, <1>5, HeaderHit
  <2> HIDE DEF old, new
  <2>2. checksum(HeaderBytes(g.h)) # 0
    BY <1>3, <1>4, <2>1, OneWordShows
  <2> QED
    BY <2>1, <2>2 DEF Refused, Valid
<1>6. CASE a \in DamagedData(f, w)
  <2>1. g.type = "IP" /\ g.h = f.h /\ OneChange(Data(f), Data(g), old, new)
    BY <1>2, <1>6, DataHit
  <2> HIDE DEF old, new
  <2>2. ASSUME g.h.prot = 1
        PROVE  checksum(Data(g)) # 0
    <3>1. Verifies(Data(f))
      BY <1>2, <2>1, <2>2 DEF WellFormed
    <3>2. Data(f) \in Seq(Byte) /\ Data(g) \in Seq(Byte)
      BY <1>2, <2>1, DataType DEF OneChange
    <3>3. checksum(Data(f)) = 0
      BY <3>1, <3>2, AcceptsWhatVerifies
    <3>4. PICK x \in Int, y \in Int : Sum(Data(g)) + x = Sum(Data(f)) + y /\ ~ Multiple(y - x)
      BY <1>4, <2>1 DEF OneChange
    <3> QED
      BY <3>2, <3>3, <3>4, ChangeShows
  <2>3. ASSUME g.h.prot = 6
        PROVE  tcp_checksum(Data(g), g.h.src, g.h.dst) # 0
    <3>1. Verifies(Pseudo(f) \o Data(f))
      BY <1>2, <2>1, <2>3 DEF WellFormed
    <3>2. tcp_checksum(Data(g), f.h.src, f.h.dst) # 0
      BY <1>2, <1>4, <2>1, <3>1, SegmentShows
    <3> QED
      BY <2>1, <3>2
  <2> QED
    BY <1>2, <2>1, <2>2, <2>3 DEF Refused
<1> QED
  BY <1>1, <1>5, <1>6

\* The frame and its damage are as they arrived.
Arrived == \E a \in Arrivals : frame = a.frame /\ damage = a.damage

\* The interrupt starts with a frame that arrived,
LEMMA ArrivedInit == Init => Arrived
BY DEF Init, Arrived

\* none of its steps writes rx_buf,
LEMMA FrameStays ==
  ASSUME [Next]_vars
  PROVE  frame' = frame /\ damage' = damage
<1>1. CASE arp_recv
  BY <1>1 DEF arp_recv, arp_send, ether_send, Drop
<1>2. CASE ip_recv
  <2>1. CASE icmp_recv
    BY <2>1 DEF icmp_recv, icmp_send, ip_send, ether_send, Drop
  <2>2. CASE tcp_recv
    BY <2>2 DEF tcp_recv
  <2>3. CASE dhcp_recv
    BY <2>3 DEF dhcp_recv, Drop
  <2>4. CASE Drop
    BY <2>4 DEF Drop
  <2> QED
    BY <1>2, <2>1, <2>2, <2>3, <2>4 DEF ip_recv
<1>3. CASE Ignore
  BY <1>3 DEF Ignore, Drop
<1>4. CASE ParseOption
  BY <1>4 DEF ParseOption
<1>5. CASE ParserEnds
  BY <1>5 DEF ParserEnds, Drop
<1>6. CASE Bid
  BY <1>6 DEF Bid
<1>7. CASE Controller
  BY <1>7 DEF Controller
<1>8. CASE UNCHANGED vars
  BY <1>8 DEF vars
<1> QED
  BY <1>1, <1>2, <1>3, <1>4, <1>5, <1>6, <1>7, <1>8 DEF Next, Interrupt

\* so it stays as it arrived.
LEMMA ArrivedStep == Arrived /\ [Next]_vars => Arrived'
<1> SUFFICES ASSUME Arrived, [Next]_vars PROVE Arrived'
  OBVIOUS
<1>1. frame' = frame /\ damage' = damage
  BY FrameStays
<1> QED
  BY <1>1 DEF Arrived

\* Nothing comes of a datagram that lost one of its words, but for 0 in the place of
\* 65535 or the other way round, which no such sum tells apart (sys.c 88-108, tcp.c
\* 485-508, ip.c 88-98, icmp.c 45-76).
THEOREM DamageNoticed == Spec => []DamageIsNoticed
<1> DEFINE Inv == Arrived /\ DamageIsNoticed
<1>1. Init => Inv
  BY ArrivedInit DEF Init, DamageIsNoticed
<1>2. Inv /\ [Next]_vars => Inv'
  <2> SUFFICES ASSUME Inv, [Next]_vars PROVE DamageIsNoticed'
    BY ArrivedStep
  <2> SUFFICES ASSUME damage' # <<>>, ~ Alike(damage'[1], damage'[2])
               PROVE  out' = None /\ ~ passed' /\ pc' # "options"
    BY SMT DEF DamageIsNoticed, Alike
  <2>1. frame' = frame /\ damage' = damage
    BY FrameStays
  <2>2. Refused(frame)
    BY <2>1, DamageShows DEF Arrived
  <2>3. out = None /\ ~ passed /\ pc # "options"
    BY <2>1, SMT DEF DamageIsNoticed, Alike
  <2>4. CASE arp_recv
    BY <2>2, <2>4 DEF arp_recv, Dispatch, Refused
  <2>5. CASE ip_recv
    <3>1. CASE ~ Valid(frame.h)
      BY <2>3, <2>5, <3>1 DEF ip_recv, Drop
    <3>2. CASE Valid(frame.h) /\ frame.h.prot = 1
      BY <2>2, <2>3, <2>5, <3>2 DEF ip_recv, icmp_recv, Drop, Refused
    <3>3. CASE Valid(frame.h) /\ frame.h.prot = 6
      BY <2>2, <2>3, <2>5, <3>3 DEF ip_recv, tcp_recv, Refused
    <3>4. CASE Valid(frame.h) /\ frame.h.prot # 1 /\ frame.h.prot # 6
      BY <2>2, <2>3, <2>5, <3>4 DEF ip_recv, Drop, Refused
    <3> QED
      BY <3>1, <3>2, <3>3, <3>4
  <2>6. CASE Ignore
    BY <2>3, <2>6 DEF Ignore, Drop
  <2>7. CASE ParseOption
    BY <2>3, <2>7 DEF ParseOption
  <2>8. CASE ParserEnds
    BY <2>3, <2>8 DEF ParserEnds
  <2>9. CASE Bid
    BY <2>3, <2>9 DEF Bid
  <2>10. CASE Controller
    BY <2>3, <2>10 DEF Controller
  <2>11. CASE UNCHANGED vars
    BY <2>3, <2>11 DEF vars
  <2> QED
    BY <2>4, <2>5, <2>6, <2>7, <2>8, <2>9, <2>10, <2>11 DEF Next, Interrupt
<1>3. Inv => DamageIsNoticed
  OBVIOUS
<1> QED
  BY <1>1, <1>2, <1>3, PTL DEF Spec

-----------------------------------------------------------------------------
(* What is asked is answered.                                              *)

\* A frame without damage is one that was sent.
LEMMA WholeArrival ==
  ASSUME Arrived, damage = <<>>
  PROVE  frame \in Frames
<1>1. PICK a \in Arrivals : frame = a.frame /\ damage = a.damage
  BY DEF Arrived
<1>2. CASE a \in {[frame |-> f, damage |-> <<>>] : f \in Frames}
  BY <1>1, <1>2
<1>3. CASE a \in UNION {Damaged(f) : f \in Exposed}
  <2>1. PICK f \in Exposed, w \in Changes : a \in DamagedHeader(f, w) \union DamagedData(f, w)
    BY <1>3 DEF Damaged
  <2>2. f \in Datagrams /\ w \in Word
    BY FrameAssumption
  <2>3. a.damage # <<>>
    BY <2>1, <2>2, HeaderHit, DataHit
  <2> QED
    BY <1>1, <2>3
<1> QED
  BY <1>1, <1>2, <1>3 DEF Arrivals

\* The answer to an echo request as icmp_send and ip_send compose it; ident is n.
ReplyData(f) ==
  LET data == SubSeq(Data(f), 5, Len(Data(f)))
      csum == checksum(<<0, 0, 0, 0>> \o data)
  IN  <<0, 0, csum % 256, csum \div 256>> \o data

\* Its header while csum is 0,
Unsealed(f, n) ==
  [ver |-> 4, hl |-> 5, len |-> Len(ReplyData(f)) + 20, ident |-> n,
   frag |-> 0, ttl |-> 64, prot |-> 1, csum |-> 0,
   src |-> lo_addr, dst |-> f.h.src, opts |-> <<>>]

\* and with its checksum.
Sealed(f, n) ==
  [Unsealed(f, n) EXCEPT !.csum = memswap(checksum(HeaderBytes(Unsealed(f, n))))]

\* The ICMP checksum of the answer is right for any host, and its data is that
\* of the request.
LEMMA ReplyDataVerifies ==
  ASSUME NEW f \in Datagrams, Len(Data(f)) >= 4
  PROVE  /\ ReplyData(f) \in Seq(Byte) /\ Len(ReplyData(f)) = Len(Data(f))
         /\ Verifies(ReplyData(f))
         /\ SubSeq(ReplyData(f), 1, 2) = <<0, 0>>
         /\ SubSeq(ReplyData(f), 5, Len(ReplyData(f))) = SubSeq(Data(f), 5, Len(Data(f)))
<1> DEFINE n == Len(Data(f))
           m == n - 4
           d == SubSeq(Data(f), 5, n)
           z == <<0, 0, 0, 0>>
           b == z \o d
           w == checksum(b)
           h == w \div 256
           l == w % 256
           y == <<0, 0, l, h>>
           c == y \o d
<1>1. Data(f) \in Seq(Byte) /\ n \in Nat /\ n >= 4
  BY DataType
<1>2. m \in Nat /\ n = 4 + m
  BY <1>1
<1>3. d \in Seq(Byte) /\ Len(d) = m
  <2> DEFINE s == Data(f)
  <2>1. s \in Seq(Byte) /\ Len(s) = n
    BY <1>1
  <2> HIDE DEF s, n, m
  <2>2. SubSeq(s, 5, n) \in Seq(Byte) /\ Len(SubSeq(s, 5, n)) = m
    BY <1>2, <2>1
  <2> QED
    BY <2>2 DEF s
<1>4. z \in Seq(Byte) /\ Len(z) = 4 /\ z[3] = 0 /\ z[4] = 0
  <2>1. 0 \in Byte
    BY SMT DEF Byte
  <2> QED
    BY <2>1
<1> HIDE DEF n, m, d, z
<1>5. b \in Seq(Byte) /\ Len(b) = 4 + m /\ Joined(b, z, 4, d, m)
  <2>1. /\ b \in Seq(Byte) /\ Len(b) = Len(z) + Len(d)
        /\ Joined(b, z, Len(z), d, Len(d))
    BY <1>3, <1>4, ConcatAt
  <2> HIDE DEF b
  <2> QED
    BY <1>3, <1>4, <2>1
<1> HIDE DEF b
<1>6. w \in Word
  BY <1>5, ChecksumZero
<1> HIDE DEF w
<1>7. h \in Byte /\ l \in Byte
  BY <1>6, HighAndLow
<1>8. y \in Seq(Byte) /\ Len(y) = 4 /\ y[1] = 0 /\ y[2] = 0 /\ y[3] = l /\ y[4] = h
  <2>1. 0 \in Byte
    BY SMT DEF Byte
  <2> HIDE DEF h, l
  <2> QED
    BY <1>7, <2>1
<1>9. z[1] = 0 /\ z[2] = 0
  <2>1. \A s : s = <<0, 0, 0, 0>> => s[1] = 0 /\ s[2] = 0
    OBVIOUS
  <2>2. z = <<0, 0, 0, 0>>
    BY DEF z
  <2> QED
    BY <2>1, <2>2
<1> HIDE DEF y
<1>10. c \in Seq(Byte) /\ Len(c) = 4 + m /\ Joined(c, y, 4, d, m)
  <2>1. /\ c \in Seq(Byte) /\ Len(c) = Len(y) + Len(d)
        /\ Joined(c, y, Len(y), d, Len(d))
    BY <1>3, <1>8, ConcatAt
  <2> HIDE DEF c
  <2> QED
    BY <1>3, <1>8, <2>1
<1> HIDE DEF c
<1>11. b[1] = 0 /\ b[2] = 0 /\ b[3] = 0 /\ b[4] = 0
  BY <1>4, <1>5, <1>9 DEF Joined
<1>12. c[1] = 0 /\ c[2] = 0 /\ c[3] = l /\ c[4] = h
  BY <1>8, <1>10 DEF Joined
<1> HIDE DEF h, l
<1>13. SameBut(b, c, 4 + m, 3, 4)
  <2> SUFFICES ASSUME NEW i \in 1 .. 4 + m, i # 3, i # 4
               PROVE  c[i] = b[i]
    BY DEF SameBut
  <2>1. CASE i <= 4
    BY <1>11, <1>12, <2>1
  <2>2. CASE i > 4
    <3>1. i - 4 \in 1 .. m /\ 4 + (i - 4) = i
      BY <1>2, <2>2
    <3>2. c[4 + (i - 4)] = d[i - 4] /\ b[4 + (i - 4)] = d[i - 4]
      BY <1>5, <1>10, <3>1 DEF Joined
    <3> QED
      BY <3>1, <3>2
  <2> QED
    BY <1>2, <2>1, <2>2
<1>14. Verifies(c)
  <2>1. 3 \in 1 .. Len(b) /\ 3 % 2 = 1 /\ 3 < Len(b) /\ Len(c) = Len(b) /\ 3 + 1 = 4
    BY <1>2, <1>5, <1>10
  <2>2. c[3] = checksum(b) % 256 /\ c[3 + 1] = checksum(b) \div 256
    BY <1>12, <2>1 DEF w, h, l
  <2>3. SameBut(b, c, Len(b), 3, 3 + 1) /\ b[3] = 0 /\ b[3 + 1] = 0
    BY <1>5, <1>11, <1>13, <2>1
  <2> QED
    BY <1>5, <1>10, <2>1, <2>2, <2>3, SealedBytes
<1>15. SubSeq(c, 1, 2) = <<0, 0>>
  <2>1. 2 <= Len(c)
    BY <1>2, <1>10
  <2>2. /\ SubSeq(c, 1, 2) \in Seq(Byte) /\ Len(SubSeq(c, 1, 2)) = 2
        /\ \A i \in 1 .. 2 : SubSeq(c, 1, 2)[i] = c[i]
    BY <1>10, <2>1, SubSeqAt
  <2> DEFINE s == SubSeq(c, 1, 2)
  <2>3. s \in Seq(Byte) /\ Len(s) = 2 /\ s[1] = 0 /\ s[2] = 0
    BY <1>12, <2>2
  <2> HIDE DEF s
  <2>4. s = <<0, 0>>
    BY <2>3
  <2> QED
    BY <2>4 DEF s
<1>16. SubSeq(c, 5, Len(c)) = d
  <2> DEFINE s == SubSeq(c, 5, Len(c))
  <2>1. s \in Seq(Byte) /\ Len(s) = m /\ \A i \in 1 .. m : s[i] = c[4 + i]
    BY <1>2, <1>10
  <2>2. \A i \in 1 .. m : c[4 + i] = d[i]
    BY <1>10 DEF Joined
  <2> HIDE DEF s
  <2>3. \A i \in 1 .. m : s[i] = d[i]
    BY <2>1, <2>2
  <2>4. s = d
    BY <1>3, <2>1, <2>3, SeqEqual
  <2> QED
    BY <2>4 DEF s
<1>17. ReplyData(f) = c
  BY DEF ReplyData, c, y, h, l, w, b, z, d, n
<1> QED
  BY <1>2, <1>10, <1>14, <1>15, <1>16, <1>17 DEF d, n

\* The header checksum of the answer is right for any host.
LEMMA SealedVerifies ==
  ASSUME NEW f \in Datagrams, Len(Data(f)) >= 4, NEW n \in Word
  PROVE  Verifies(HeaderBytes(Sealed(f, n)))
<1> DEFINE h == Unsealed(f, n)
           w == memswap(checksum(HeaderBytes(h)))
           g == [h EXCEPT !.csum = w]
           l == Len(ReplyData(f)) + 20
           W == HeaderWords(h)
           V == HeaderWords(g)
<1>1. l \in Word
  <2>1. Len(ReplyData(f)) = Len(Data(f))
    BY ReplyDataVerifies
  <2>2. /\ Len(Data(f)) = f.h.len - 4 * f.h.hl /\ Len(Data(f)) \in Nat
    BY DataType
  <2>3. f.h.len \in Word /\ f.h.hl \in Nat /\ f.h.hl >= 5
    BY HeaderType DEF Datagrams
  <2>4. f.h.len \in Nat /\ f.h.len < 65536
    BY <2>3, SMT DEF Word
  <2> DEFINE k == f.h.hl
             m == f.h.len
             q == Len(Data(f))
  <2>a. /\ m \in Nat /\ m < 65536 /\ k \in Nat /\ k >= 5
        /\ q \in Nat /\ q = m - 4 * k /\ l = q + 20
    BY <2>1, <2>2, <2>3, <2>4
  <2> HIDE DEF k, m, q, l
  <2>5. l \in Nat /\ l < 65536
    BY <2>a
  <2> QED
    BY <2>5, SMT DEF Word
<1>2. h \in Headers
  <2>1. lo_addr \in Address /\ f.h.src \in Address
    BY FrameAssumption DEF Datagrams, Headers
  <2>2. 0 \in Word
    BY SMT DEF Word
  <2>3. 64 \in Byte /\ 1 \in Byte
    BY SMT DEF Byte
  <2>4. <<>> \in Seq(Word) /\ Len(<<>>) = 2 * (5 - 5)
    OBVIOUS
  <2>5. h = [ver |-> 4, hl |-> 5, len |-> l, ident |-> n, frag |-> 0, ttl |-> 64,
             prot |-> 1, csum |-> 0, src |-> lo_addr, dst |-> f.h.src, opts |-> <<>>]
    BY DEF Unsealed
  <2>6. 4 \in 0 .. 15 /\ 5 \in 5 .. 15
    OBVIOUS
  <2> HIDE DEF h, l
  <2> QED
    BY <1>1, <2>1, <2>2, <2>3, <2>4, <2>5, <2>6 DEF Headers
<1>3. h.csum = 0 /\ h.opts = <<>>
  BY DEF Unsealed
<1> HIDE DEF h, l
<1>4. W \in Seq(Word) /\ Len(W) = 10 /\ W[6] = 0
  <2>1. Spells(W, h)
    BY <1>2, HeaderWordsAt
  <2>2. Len(h.opts) = 0
    BY <1>3
  <2> HIDE DEF W
  <2> QED
    BY <1>3, <2>1, <2>2 DEF Spells
<1>5. w \in Word
  <2>1. NetBytes(W) \in Seq(Byte)
    BY <1>4, NetBytesAt
  <2>2. checksum(HeaderBytes(h)) \in Word
    BY <2>1, ChecksumZero DEF HeaderBytes
  <2> QED
    BY <2>2, SwapTimes256
<1>6. checksum(NetBytes(W)) = checksum(HeaderBytes(h))
  BY DEF HeaderBytes
<1>7. w = memswap(checksum(NetBytes(W)))
  BY <1>6
<1> HIDE DEF w
<1>8. /\ g \in Headers /\ g.csum = w /\ g.opts = h.opts
      /\ g.ver = h.ver /\ g.hl = h.hl /\ g.len = h.len /\ g.ident = h.ident
      /\ g.frag = h.frag /\ g.ttl = h.ttl /\ g.prot = h.prot /\ g.src = h.src
      /\ g.dst = h.dst
  BY <1>2, <1>5 DEF Headers
<1> HIDE DEF g
<1>9. V \in Seq(Word) /\ Len(V) = 10 /\ V[6] = w /\ SameBut(W, V, 10, 6, 6)
  <2>1. Spells(W, h) /\ Spells(V, g)
    BY <1>2, <1>8, HeaderWordsAt
  <2>2. Len(g.opts) = 0
    BY <1>3, <1>8
  <2> HIDE DEF V, W
  <2>3. /\ V[1] = W[1] /\ V[2] = W[2] /\ V[3] = W[3] /\ V[4] = W[4] /\ V[5] = W[5]
        /\ V[7] = W[7] /\ V[8] = W[8] /\ V[9] = W[9] /\ V[10] = W[10]
    BY <1>8, <2>1 DEF Spells
  <2>4. SameBut(W, V, 10, 6, 6)
    BY <2>3 DEF SameBut
  <2> QED
    BY <1>8, <2>1, <2>2, <2>4 DEF Spells
<1> HIDE DEF V, W
<1>10. Verifies(NetBytes(V))
  <2>1. 6 \in 1 .. Len(W) /\ Len(V) = Len(W) /\ SameBut(W, V, Len(W), 6, 6)
    BY <1>4, <1>9
  <2> QED
    BY <1>4, <1>7, <1>9, <2>1, SealedWords
<1>11. Sealed(f, n) = g
  BY DEF Sealed, g, h, w
<1>12. HeaderBytes(g) = NetBytes(V)
  BY DEF HeaderBytes, V
<1> QED
  BY <1>10, <1>11, <1>12

\* The answer a frame is worth.
Wanted(r, f) ==
  /\ ForUs(f)
  /\ \/ IsEcho(f) /\ EchoReply(r, f)
     \/ IsArpRequest(f) /\ ArpReply(r, f)

\* How far the interrupt has come, and what it is about to send.
Phases ==
  /\ ident \in Word
  /\ pc \in {"dispatch", "bid", "options"} => sent = None /\ passed = FALSE
  /\ pc \in {"dispatch", "options"} => bus = "ready"
  /\ pc = "bid" /\ damage = <<>> => Wanted(out, frame)
  /\ pc = "options" => frame.type = "IP" /\ frame.h.prot = 17

\* Another 16 bits.
LEMMA NextIdent ==
  ASSUME NEW n \in Word
  PROVE  (n + 1) % 65536 \in Word
BY SMT DEF Word

\* arp_send has the right answer on its way.
LEMMA ArpAnswer ==
  ASSUME arp_send(frame.hw, frame.prot_src, "REPLY"), bound, frame.type = "ARP",
         frame.std, frame.prot_dst = lo_ip_addr, frame.op = "REQUEST"
  PROVE  /\ pc' = "bid" /\ Wanted(out, frame)'
         /\ UNCHANGED <<bound, ident, frame, damage, sent, passed>>
<1>1. 28 + 14 <= ETHER_FRAME_LEN_MAX
  BY LengthAssumption
<1> DEFINE r == [type |-> "ARP", hw |-> frame.hw, op |-> "REPLY", std |-> TRUE,
                 prot_src |-> lo_ip_addr, prot_dst |-> frame.prot_src]
<1>2. /\ pc' = "bid" /\ out' = r /\ bus' = "busy"
      /\ UNCHANGED <<bound, ident, frame, damage, sent, passed>>
  BY <1>1, LengthAssumption DEF arp_send, ether_send
<1>3. lo_ip_addr = lo_addr
  BY DEF lo_ip_addr
<1>4. ArpReply(r, frame)
  BY <1>3 DEF ArpReply
<1>5. ForUs(frame) /\ IsArpRequest(frame)
  BY <1>3 DEF ForUs, IsArpRequest
<1> HIDE DEF r
<1>6. Wanted(out, frame)'
  BY <1>2, <1>4, <1>5 DEF Wanted, ForUs, IsArpRequest, ArpReply
<1> QED
  BY <1>2, <1>6

\* What the processor loads and swaps is the number the packet holds, so ip_recv tests
\* the field that was sent.
LEMMA ValidIs ==
  ASSUME NEW h \in Headers
  PROVE  Valid(h) <=> /\ checksum(HeaderBytes(h)) = 0 /\ h.ver = 4
                      /\ h.frag \in {0, 16384}
<1> DEFINE w == h.frag
           W == <<w>>
           b == NetBytes(W)
<1>1. w \in Word
  BY HeaderType
<1> HIDE DEF w
<1>2. W \in Seq(Word) /\ Len(W) = 1 /\ W[1] = w
  BY <1>1
<1> HIDE DEF W
<1>3. Spelled(b, W)
  BY <1>2, NetBytesAt
<1> HIDE DEF b
<1>4. b[1] = w \div 256 /\ b[2] = w % 256
  <2>1. 1 \in 1 .. Len(W) /\ 2 * 1 - 1 = 1 /\ 2 * 1 = 2
    BY <1>2
  <2>2. b[2 * 1 - 1] = High(W[1]) /\ b[2 * 1] = Low(W[1])
    BY <1>3, <2>1 DEF Spelled
  <2> QED
    BY <1>2, <2>1, <2>2 DEF High, Low
<1>5. Loaded(w) = memswap(w)
  BY <1>1, <1>4, HighAndLow DEF Loaded, memswap, b, W, Byte
<1>6. memswap(Loaded(w)) = w
  BY <1>1, <1>5, SwapTwice
<1> QED
  BY <1>6 DEF Valid, w

\* icmp_send has the right answer on its way.
LEMMA EchoAnswer ==
  ASSUME NEW f \in Frames, f = frame, f \in Datagrams, bound, f.h.prot = 1, Valid(f.h),
         f.h.dst = lo_ip_addr, Data(f)[1] = 8, ident \in Word,
         icmp_send(f.hw, f.h.src, 0, 0, SubSeq(Data(f), 5, Len(Data(f))))
  PROVE  /\ pc' = "bid" /\ Wanted(out, frame)' /\ ident' \in Word
         /\ UNCHANGED <<bound, frame, damage, sent, passed>>
<1> DEFINE data == ReplyData(f)
           hw == IF f.h.src[1] # lo_addr[1] THEN "gateway" ELSE f.hw
           r == [type |-> "IP", hw |-> hw, h |-> Sealed(f, ident'), data |-> data,
                 std |-> TRUE, list |-> <<>>]
<1>1. lo_ip_addr = lo_addr
  BY DEF lo_ip_addr
<1>2. ident' = (ident + 1) % 65536 /\ ether_send(r, Len(data) + 20)
  BY <1>1 DEF icmp_send, ip_send, NextHop, ReplyData, Sealed, Unsealed
<1>3. ident' \in Word
  BY <1>2, NextIdent
<1>4. WellFormed(f)
  BY FrameAssumption
<1>5. Len(Data(f)) >= 4 /\ Len(Data(f)) + 34 <= ETHER_FRAME_LEN_MAX
  BY <1>4, LengthAssumption DEF WellFormed
<1>6. /\ Len(data) = Len(Data(f)) /\ Verifies(data) /\ SubSeq(data, 1, 2) = <<0, 0>>
      /\ SubSeq(data, 5, Len(data)) = SubSeq(Data(f), 5, Len(Data(f)))
  BY <1>5, ReplyDataVerifies
<1>7. Verifies(HeaderBytes(Sealed(f, ident')))
  BY <1>3, <1>5, SealedVerifies
<1>8. /\ Sealed(f, ident').len = Len(data) + 20 /\ Sealed(f, ident').src = lo_addr
      /\ Sealed(f, ident').dst = f.h.src /\ Sealed(f, ident').prot = 1
  BY DEF Sealed, Unsealed
<1>9. Len(data) \in Nat /\ ETHER_FRAME_LEN_MAX \in Nat
      /\ Len(data) + 34 <= ETHER_FRAME_LEN_MAX
  BY <1>5, <1>6, DataType, LengthAssumption
<1> HIDE DEF data
<1>10. ~ ((Len(data) + 20) + 14 > ETHER_FRAME_LEN_MAX) /\ (Len(data) + 20) - 20 = Len(data)
  BY <1>9
<1>11. EchoReply(r, f)
  BY <1>6, <1>7, <1>8, <1>10 DEF EchoReply
<1>12. ForUs(f) /\ IsEcho(f)
  <2>1. f.type = "IP"
    BY DEF Datagrams
  <2>2. f.data[1] = 8
    <3>1. 1 \in 1 .. Len(Data(f))
      BY <1>5, DataType
    <3> QED
      BY <3>1, DataType
  <2>3. f.h.ver = 4 /\ f.h.frag \in {0, 16384}
    BY ValidIs DEF Datagrams
  <2> QED
    BY <1>1, <2>1, <2>2, <2>3 DEF ForUs, IsEcho
<1> HIDE DEF r
<1>13. /\ pc' = "bid" /\ out' = r
       /\ UNCHANGED <<bound, frame, damage, sent, passed>>
  BY <1>2, <1>10 DEF ether_send
<1>14. Wanted(out, frame)'
  <2>1. frame' = f /\ bound' = bound /\ out' = r
    BY <1>13
  <2>2. ForUs(frame)'
    BY <1>12, <2>1 DEF ForUs
  <2>3. IsEcho(frame)'
    BY <1>12, <2>1 DEF IsEcho
  <2>4. EchoReply(out, frame)'
    BY <1>11, <2>1 DEF EchoReply
  <2> QED
    BY <2>2, <2>3, <2>4 DEF Wanted
<1> QED
  BY <1>3, <1>13, <1>14

\* What asks for nothing may be dropped.
LEMMA DropUnasked ==
  ASSUME Drop, sent = None, passed = FALSE,
         damage = <<>> /\ ForUs(frame) =>
           ~ IsEcho(frame) /\ ~ IsArpRequest(frame) /\ ~ (frame.type = "IP" /\ frame.h.prot = 6)
  PROVE  AskedIsAnswered'
<1>1. /\ sent' = None /\ passed' = FALSE /\ frame' = frame /\ bound' = bound /\ bus' = bus
      /\ damage' = damage
  BY DEF Drop
<1>2. ForUs(frame)' = ForUs(frame)
  BY <1>1 DEF ForUs
<1>3. IsEcho(frame)' = IsEcho(frame) /\ IsArpRequest(frame)' = IsArpRequest(frame)
  BY <1>1 DEF IsEcho, IsArpRequest
<1>4. ASSUME damage' = <<>>
      PROVE  /\ ~ (ForUs(frame)' /\ IsEcho(frame)')
             /\ ~ (ForUs(frame)' /\ IsArpRequest(frame)')
             /\ ~ (ForUs(frame)' /\ frame'.type = "IP" /\ frame'.h.prot = 6)
  BY <1>1, <1>2, <1>3, <1>4
<1>5. ASSUME damage' = <<>>
      PROVE  passed' = (ForUs(frame)' /\ frame'.type = "IP" /\ frame'.h.prot = 6)
  BY <1>1, <1>4, <1>5
<1> QED
  BY <1>1, <1>4, <1>5 DEF AskedIsAnswered

\* A whole datagram is as its sender made it, and ip_recv's checksum agrees.
LEMMA WholeDatagram ==
  ASSUME Arrived, damage = <<>>, frame.type = "IP"
  PROVE  /\ frame \in Frames /\ frame \in Datagrams /\ WellFormed(frame)
         /\ checksum(HeaderBytes(frame.h)) = 0
<1>1. frame \in Frames
  BY WholeArrival
<1>2. frame \in Datagrams
  BY <1>1, FrameAssumption DEF ArpPackets
<1>3. WellFormed(frame)
  BY <1>1, <1>2, FrameAssumption
<1>4. NetBytes(HeaderWords(frame.h)) \in Seq(Byte)
  <2>1. HeaderWords(frame.h) \in Seq(Word)
    BY <1>2, HeaderWordsAt DEF Datagrams, Spells
  <2> QED
    BY <2>1, NetBytesAt
<1>5. checksum(HeaderBytes(frame.h)) = 0
  BY <1>3, <1>4, AcceptsWhatVerifies DEF WellFormed, HeaderBytes
<1> QED
  BY <1>1, <1>2, <1>3, <1>5

\* arp_recv begins the answer or owes none.
LEMMA AnsweredByArp ==
  ASSUME arp_recv, Phases, Arrived
  PROVE  Phases' /\ AskedIsAnswered'
<1>1. pc = "dispatch" /\ frame.type = "ARP" /\ sent = None /\ passed = FALSE /\ bus = "ready"
  BY DEF arp_recv, Dispatch, Phases
<1>2. CASE bound /\ frame.std /\ frame.prot_dst = lo_ip_addr /\ frame.op = "REQUEST"
  <2>1. arp_send(frame.hw, frame.prot_src, "REPLY")
    BY <1>2 DEF arp_recv
  <2>2. /\ pc' = "bid" /\ Wanted(out, frame)'
        /\ UNCHANGED <<bound, ident, frame, damage, sent, passed>>
    BY <1>1, <1>2, <2>1, ArpAnswer
  <2> QED
    BY <1>1, <2>2 DEF Phases, AskedIsAnswered
<1>3. CASE ~ (bound /\ frame.std /\ frame.prot_dst = lo_ip_addr /\ frame.op = "REQUEST")
  <2>1. Drop
    BY <1>3 DEF arp_recv
  <2>2. ForUs(frame) => ~ IsArpRequest(frame)
    BY <1>1, <1>3 DEF ForUs, IsArpRequest, lo_ip_addr
  <2>3. ~ IsEcho(frame)
    BY <1>1 DEF IsEcho
  <2>4. AskedIsAnswered'
    BY <1>1, <2>1, <2>2, <2>3, DropUnasked
  <2> QED
    BY <2>1, <2>4 DEF Drop, Phases
<1> QED
  BY <1>2, <1>3

\* ip_recv begins the answer, passes the segment on, or owes nothing.
LEMMA AnsweredByIp ==
  ASSUME ip_recv, Phases, Arrived
  PROVE  Phases' /\ AskedIsAnswered'
<1>1. pc = "dispatch" /\ frame.type = "IP" /\ sent = None /\ passed = FALSE /\ bus = "ready"
      /\ ident \in Word
  BY DEF ip_recv, Dispatch, Phases
<1>2. ~ IsArpRequest(frame)
  BY <1>1 DEF IsArpRequest
<1>3. ASSUME damage = <<>>, ForUs(frame)
      PROVE  Valid(frame.h)
  <2>1. frame.h \in Headers /\ checksum(HeaderBytes(frame.h)) = 0
    BY <1>1, <1>3, WholeDatagram DEF Datagrams
  <2> QED
    BY <1>1, <1>3, <2>1, ValidIs DEF ForUs
<1>4. ASSUME Drop, damage = <<>> /\ ForUs(frame) => ~ IsEcho(frame) /\ frame.h.prot # 6
      PROVE  Phases' /\ AskedIsAnswered'
  <2>1. AskedIsAnswered'
    BY <1>1, <1>2, <1>4, DropUnasked
  <2> QED
    BY <1>1, <1>4, <2>1 DEF Drop, Phases
<1>5. CASE ~ Valid(frame.h)
  BY <1>3, <1>4, <1>5 DEF ip_recv
<1>6. CASE Valid(frame.h) /\ frame.h.prot = 1
  <2>1. icmp_recv
    BY <1>6 DEF ip_recv
  <2>2. CASE bound /\ checksum(Data(frame)) = 0 /\ frame.h.dst = lo_ip_addr
             /\ Data(frame)[1] = 8 /\ damage = <<>>
    <3>1. icmp_send(frame.hw, frame.h.src, 0, 0, SubSeq(Data(frame), 5, Len(Data(frame))))
      BY <2>1, <2>2 DEF icmp_recv
    <3>2. frame \in Frames /\ frame \in Datagrams
      BY <1>1, <2>2, WholeDatagram
    <3>3. /\ pc' = "bid" /\ Wanted(out, frame)' /\ ident' \in Word
          /\ UNCHANGED <<bound, frame, damage, sent, passed>>
      BY <1>1, <1>6, <2>2, <3>1, <3>2, EchoAnswer
    <3> QED
      BY <1>1, <3>3 DEF Phases, AskedIsAnswered
  <2>3. CASE bound /\ checksum(Data(frame)) = 0 /\ frame.h.dst = lo_ip_addr
             /\ Data(frame)[1] = 8 /\ damage # <<>>
    <3>1. /\ ident' = (ident + 1) % 65536 /\ pc' \in {"bid", "done"}
          /\ UNCHANGED <<bound, frame, damage, sent, passed>>
      BY <2>1, <2>3 DEF icmp_recv, icmp_send, ip_send, ether_send
    <3>2. ident' \in Word
      BY <1>1, <3>1, NextIdent
    <3> QED
      BY <1>1, <2>3, <3>1, <3>2 DEF Phases, AskedIsAnswered
  <2>4. CASE ~ (bound /\ checksum(Data(frame)) = 0 /\ frame.h.dst = lo_ip_addr
                /\ Data(frame)[1] = 8)
    <3>1. Drop
      BY <2>1, <2>4 DEF icmp_recv
    <3>2. ASSUME damage = <<>>, ForUs(frame)
          PROVE  ~ IsEcho(frame)
      <4>1. frame \in Datagrams /\ WellFormed(frame)
        BY <1>1, <3>2, WholeDatagram
      <4>2. Len(Data(frame)) >= 4 /\ Verifies(Data(frame))
        BY <1>6, <4>1 DEF WellFormed
      <4>3. checksum(Data(frame)) = 0
        BY <4>1, <4>2, DataType, AcceptsWhatVerifies
      <4>4. Data(frame)[1] = frame.data[1]
        <5>1. 1 \in 1 .. Len(Data(frame))
          BY <4>1, <4>2, DataType
        <5> QED
          BY <4>1, <5>1, DataType
      <4>5. bound /\ frame.h.dst = lo_ip_addr
        BY <1>1, <3>2 DEF ForUs, lo_ip_addr
      <4> QED
        BY <2>4, <4>3, <4>4, <4>5 DEF IsEcho
    <3> QED
      BY <1>4, <1>6, <3>1, <3>2
  <2> QED
    BY <2>2, <2>3, <2>4
<1>7. CASE Valid(frame.h) /\ frame.h.prot = 6
  <2>1. tcp_recv
    BY <1>7 DEF ip_recv
  <2>2. /\ pc' = "done" /\ bus' = bus /\ sent' = sent
        /\ UNCHANGED <<bound, ident, frame, damage>>
        /\ passed' = /\ bound
                     /\ tcp_checksum(Data(frame), frame.h.src, frame.h.dst) = 0
                     /\ frame.h.dst = lo_ip_addr
    BY <2>1 DEF tcp_recv
  <2>3. ASSUME damage = <<>>
        PROVE  passed' = (ForUs(frame) /\ frame.type = "IP" /\ frame.h.prot = 6)
    <3>1. frame \in Datagrams /\ WellFormed(frame)
      BY <1>1, <2>3, WholeDatagram
    <3>2. tcp_checksum(Data(frame), frame.h.src, frame.h.dst) = 0
      <4>1. Verifies(Pseudo(frame) \o Data(frame))
        BY <1>7, <3>1 DEF WellFormed
      <4> DEFINE b == Data(frame)
                 src == frame.h.src
                 dst == frame.h.dst
      <4>2. Verifies(NetBytes(src \o dst \o <<6, Len(b)>>) \o b)
        BY <4>1 DEF Pseudo
      <4>3. b \in Seq(Byte) /\ Len(b) < 65536
        BY <3>1, DataType
      <4>4. src \in Seq(Word) /\ dst \in Seq(Word)
        BY <3>1, HeaderType DEF Datagrams
      <4> HIDE DEF b, src, dst
      <4>5. tcp_checksum(b, src, dst) = 0
        BY <4>2, <4>3, <4>4, TcpAcceptsWhatVerifies
      <4> QED
        BY <4>5 DEF b, src, dst
    <3>3. ForUs(frame) <=> bound /\ frame.h.dst = lo_addr
      <4>1. frame.h.ver = 4 /\ frame.h.frag \in {0, 16384}
        BY <1>7, <3>1, ValidIs DEF Datagrams
      <4> QED
        BY <1>1, <4>1 DEF ForUs
    <3>4. bound => lo_ip_addr = lo_addr
      BY DEF lo_ip_addr
    <3> QED
      BY <1>1, <1>7, <2>2, <3>2, <3>3, <3>4
  <2>4. ~ IsEcho(frame)
    BY <1>7 DEF IsEcho
  <2>5. /\ ForUs(frame)' = ForUs(frame) /\ IsEcho(frame)' = IsEcho(frame)
        /\ IsArpRequest(frame)' = IsArpRequest(frame)
    BY <2>2 DEF ForUs, IsEcho, IsArpRequest
  <2>6. AskedIsAnswered'
    BY <1>1, <1>2, <1>7, <2>2, <2>3, <2>4, <2>5 DEF AskedIsAnswered
  <2> QED
    BY <1>1, <2>2, <2>6 DEF Phases
<1>8. CASE Valid(frame.h) /\ frame.h.prot = 17
  <2>1. dhcp_recv /\ ~ IsEcho(frame)
    BY <1>8 DEF ip_recv, IsEcho
  <2>2. CASE frame.std
    <3>1. pc' = "options" /\ UNCHANGED <<bound, ident, frame, damage, out, bus, sent, passed>>
      BY <2>1, <2>2 DEF dhcp_recv
    <3>2. AskedIsAnswered'
      BY <3>1 DEF AskedIsAnswered
    <3> QED
      BY <1>1, <1>8, <3>1, <3>2 DEF Phases
  <2>3. CASE ~ frame.std
    BY <1>4, <1>8, <2>1, <2>3 DEF dhcp_recv
  <2> QED
    BY <2>2, <2>3
<1>9. CASE Valid(frame.h) /\ frame.h.prot \notin {1, 6, 17}
  <2>1. Drop /\ ~ IsEcho(frame)
    BY <1>9 DEF ip_recv, IsEcho
  <2> QED
    BY <1>4, <1>9, <2>1
<1> QED
  BY <1>5, <1>6, <1>7, <1>8, <1>9

\* Every step keeps the answer right.
LEMMA AnsweredStep ==
  ASSUME Arrived, Phases, AskedIsAnswered, [Next]_vars
  PROVE  Phases' /\ AskedIsAnswered'
<1>1. CASE arp_recv
  BY <1>1, AnsweredByArp
<1>2. CASE ip_recv
  BY <1>2, AnsweredByIp
<1>3. CASE Ignore
  <2>1. /\ pc = "dispatch" /\ frame.type = "OTHER" /\ Drop
    BY <1>3 DEF Ignore, Dispatch
  <2>2. ~ IsEcho(frame) /\ ~ IsArpRequest(frame)
    BY <2>1 DEF IsEcho, IsArpRequest
  <2>3. AskedIsAnswered'
    BY <2>1, <2>2, DropUnasked DEF Phases
  <2> QED
    BY <2>1, <2>3 DEF Drop, Phases
<1>4. CASE ParseOption
  BY <1>4 DEF ParseOption, Phases, AskedIsAnswered
<1>5. CASE ParserEnds
  <2>1. /\ pc = "options" /\ Drop /\ frame.type = "IP" /\ frame.h.prot = 17
        /\ sent = None /\ passed = FALSE
    BY <1>5 DEF ParserEnds, Phases
  <2>2. ~ IsEcho(frame) /\ ~ IsArpRequest(frame)
    BY <2>1 DEF IsEcho, IsArpRequest
  <2>3. AskedIsAnswered'
    <3>1. ~ (frame.type = "IP" /\ frame.h.prot = 6)
      BY <2>1
    <3> QED
      BY <2>1, <2>2, <3>1, DropUnasked
  <2> QED
    BY <2>1, <2>3 DEF Drop, Phases
<1>6. CASE Bid
  <2>1. /\ pc = "bid" /\ pc' = "done" /\ bus \in {"ready", "error"}
        /\ sent = None /\ passed = FALSE /\ ident \in Word
        /\ sent' = IF bus = "ready" THEN out ELSE None
        /\ UNCHANGED <<bound, ident, frame, damage, out, bus, passed>>
    BY <1>6 DEF Bid, Phases
  <2>2. AskedIsAnswered'
    <3> SUFFICES ASSUME damage' = <<>> PROVE AskedIsAnswered'
      BY DEF AskedIsAnswered
    <3>1. Wanted(out, frame) /\ damage = <<>>
      BY <2>1 DEF Phases
    <3>2. /\ ForUs(frame)' = ForUs(frame) /\ IsEcho(frame)' = IsEcho(frame)
          /\ IsArpRequest(frame)' = IsArpRequest(frame)
      BY <2>1 DEF ForUs, IsEcho, IsArpRequest
    <3>3. IsEcho(frame) => frame.type = "IP" /\ frame.h.prot = 1
      BY DEF IsEcho
    <3>4. IsArpRequest(frame) => frame.type = "ARP"
      BY DEF IsArpRequest
    <3>5. passed' = (ForUs(frame)' /\ frame'.type = "IP" /\ frame'.h.prot = 6)
      <4>1. ~ (frame.type = "IP" /\ frame.h.prot = 6)
        BY <3>1, <3>3, <3>4 DEF Wanted
      <4>2. frame' = frame /\ passed' = FALSE
        BY <2>1
      <4> QED
        BY <4>1, <4>2
    <3>6. CASE bus = "error"
      BY <2>1, <3>5, <3>6 DEF AskedIsAnswered
    <3>7. CASE bus = "ready"
      <4>1. sent' = out
        BY <2>1, <3>7
      <4>2. CASE IsEcho(frame)
        <5>1. EchoReply(out, frame)
          BY <3>1, <3>3, <3>4, <4>2 DEF Wanted
        <5>2. EchoReply(sent, frame)'
          BY <2>1, <4>1, <5>1 DEF EchoReply
        <5>3. sent' # None
          BY <4>1, <5>1 DEF EchoReply, None
        <5>4. ForUs(frame)' /\ IsEcho(frame)' /\ ~ IsArpRequest(frame)' /\ bus' # "error"
          BY <2>1, <3>1, <3>2, <3>3, <3>4, <3>7, <4>2 DEF Wanted
        <5> QED
          BY <3>5, <5>2, <5>3, <5>4 DEF AskedIsAnswered
      <4>3. CASE IsArpRequest(frame)
        <5>1. ArpReply(out, frame)
          BY <3>1, <3>3, <3>4, <4>3 DEF Wanted
        <5>2. ArpReply(sent, frame)'
          BY <2>1, <4>1, <5>1 DEF ArpReply
        <5>3. sent' # None
          BY <4>1, <5>1 DEF ArpReply, None
        <5>4. ForUs(frame)' /\ ~ IsEcho(frame)' /\ IsArpRequest(frame)' /\ bus' # "error"
          BY <2>1, <3>1, <3>2, <3>3, <3>4, <3>7, <4>3 DEF Wanted
        <5> QED
          BY <3>5, <5>2, <5>3, <5>4 DEF AskedIsAnswered
      <4> QED
        BY <3>1, <4>2, <4>3 DEF Wanted
    <3> QED
      BY <2>1, <3>6, <3>7
  <2> QED
    BY <2>1, <2>2 DEF Phases
<1>7. CASE Controller
  <2>1. /\ pc = "bid" /\ pc' = "bid"
        /\ UNCHANGED <<bound, ident, frame, damage, out, sent, passed>>
    BY <1>7 DEF Controller
  <2>2. Phases'
    BY <2>1 DEF Phases, Wanted, ForUs, IsEcho, IsArpRequest, EchoReply, ArpReply
  <2> QED
    BY <2>1, <2>2 DEF AskedIsAnswered
<1>8. CASE UNCHANGED vars
  <2>1. Phases'
    BY <1>8 DEF vars, Phases, Wanted, ForUs, IsEcho, IsArpRequest, EchoReply, ArpReply
  <2>2. AskedIsAnswered'
    BY <1>8 DEF vars, AskedIsAnswered, ForUs, IsEcho, IsArpRequest, EchoReply, ArpReply
  <2> QED
    BY <2>1, <2>2
<1> QED
  BY <1>1, <1>2, <1>3, <1>4, <1>5, <1>6, <1>7, <1>8 DEF Next, Interrupt

\* What is asked for is answered, nothing else is, and whatever is sent is a datagram
\* that any host accepts (icmp.c 23-76, arp.c 23-94, ip.c 28-119, tcp.c 201-214).
THEOREM RequestsAnswered == Spec => []AskedIsAnswered
<1> DEFINE Inv == Arrived /\ Phases /\ AskedIsAnswered
<1>1. Init => Inv
  <2> SUFFICES ASSUME Init PROVE Inv
    OBVIOUS
  <2>1. ident \in Word
    BY FrameAssumption DEF Init
  <2>2. Phases
    BY <2>1 DEF Init, Phases
  <2>3. AskedIsAnswered
    BY DEF Init, AskedIsAnswered
  <2> QED
    BY <2>2, <2>3, ArrivedInit
<1>2. Inv /\ [Next]_vars => Inv'
  BY ArrivedStep, AnsweredStep
<1>3. Inv => AskedIsAnswered
  OBVIOUS
<1> QED
  BY <1>1, <1>2, <1>3, PTL DEF Spec

-----------------------------------------------------------------------------
(* Options are read as they were written.                                  *)

\* The bytes each option takes.
Sizes(list) == [i \in 1 .. Len(list) |-> Len(Encode(list[i]))]

\* The bytes of an option.
LEMMA EncodeAt ==
  ASSUME NEW o \in Option
  PROVE  /\ o.code \in Nat /\ Len(o.val) \in Nat
         /\ Len(Encode(o)) \in Nat /\ Len(Encode(o)) >= 1 /\ Encode(o)[1] = o.code
         /\ o.code \in {PAD, END} => Len(Encode(o)) = 1
         /\ o.code \notin {PAD, END} =>
              /\ Len(Encode(o)) = 2 + Len(o.val) /\ Encode(o)[2] = Len(o.val)
              /\ \A k \in 1 .. Len(o.val) : Encode(o)[2 + k] = o.val[k]
<1> DEFINE e == Encode(o)
           v == o.val
           n == Len(v)
           c == o.code
<1>1. c \in Nat /\ v \in Seq(Nat) /\ n \in Nat
  <2>1. c \in Byte /\ v \in Seq(Byte)
    BY DEF Option
  <2>2. \A b \in Byte : b \in Nat
    BY SMT DEF Byte
  <2>3. Byte \subseteq Nat
    BY <2>2
  <2>4. v \in Seq(Nat)
    BY <2>1, <2>3, SeqMonotonic
  <2> QED
    BY <2>1, <2>2, <2>4, LenProperties
<1>2. CASE c \in {PAD, END}
  <2>1. e = <<c>>
    BY <1>2 DEF Encode
  <2> HIDE DEF e, c, v, n
  <2>2. Len(e) = 1 /\ e[1] = c
    BY <2>1
  <2> QED
    BY <1>1, <1>2, <2>2 DEF e, c, v, n
<1>3. CASE c \notin {PAD, END}
  <2> DEFINE p == <<c, n>>
  <2>1. e = p \o v
    BY <1>3 DEF Encode
  <2> HIDE DEF e, c, v, n
  <2>2. p \in Seq(Nat) /\ Len(p) = 2 /\ p[1] = c /\ p[2] = n
    BY <1>1
  <2> HIDE DEF p
  <2>3. Len(p \o v) = 2 + Len(v) /\ Joined(p \o v, p, 2, v, Len(v))
    BY <1>1, <2>2, ConcatAt
  <2>4. /\ Len(e) = 2 + n /\ e[1] = c /\ e[2] = n
        /\ \A k \in 1 .. n : e[2 + k] = v[k]
    BY <2>1, <2>2, <2>3 DEF Joined, n
  <2> QED
    BY <1>1, <1>3, <2>4 DEF e, c, v, n
<1> QED
  BY <1>2, <1>3

\* Options end at the running total of their sizes.
LEMMA EndsAdds ==
  ASSUME NEW list \in Seq(Option)
  PROVE  /\ Len(list) \in Nat
         /\ Adds(Ends(list), Sizes(list), Len(list))
         /\ \A i \in 1 .. Len(list) : /\ list[i] \in Option
                                      /\ Sizes(list)[i] = Len(Encode(list[i]))
<1> DEFINE L == Len(list)
           t == Sizes(list)
           Good(s) == s = [i \in 0 .. L |->
             IF i = 0 THEN 0 ELSE s[i - 1] + Len(Encode(list[i]))]
           c == CHOOSE s : Good(s)
<1>1. L \in Nat /\ \A i \in 1 .. L : list[i] \in Option
  BY LenProperties, ElementOfSeq
<1>2. \A i \in 1 .. L : t[i] = Len(Encode(list[i])) /\ t[i] \in Nat
  BY <1>1, EncodeAt DEF Sizes
<1>3. t \in [1 .. L -> Nat]
  BY <1>2 DEF Sizes
<1>4. \A s : Good(s) <=> IsTotal(s, t, L)
  BY <1>2 DEF IsTotal
<1> HIDE DEF t
<1>5. \E s : Good(s)
  <2>1. \E s : IsTotal(s, t, L)
    BY <1>1, <1>3, TotalExists
  <2> QED
    BY <1>4, <2>1
<1>6. Good(c)
  BY <1>5
<1>7. Ends(list) = c
  BY DEF Ends
<1>8. IsTotal(c, t, L)
  BY <1>4, <1>6
<1> HIDE DEF c, Good
<1>9. c \in [0 .. L -> Nat]
  BY <1>1, <1>3, <1>8, TotalType
<1>10. Adds(c, t, L)
  BY <1>1, <1>3, <1>8, <1>9 DEF Adds
<1> QED
  BY <1>1, <1>2, <1>7, <1>10 DEF t

\* Where the options of a list end.
LEMMA EndsAt ==
  ASSUME NEW list \in Seq(Option), NEW i \in 1 .. Len(list)
  PROVE  /\ Ends(list)[i - 1] \in Nat /\ Ends(list)[Len(list)] \in Nat
         /\ Ends(list)[i] = Ends(list)[i - 1] + Len(Encode(list[i]))
         /\ Ends(list)[i] <= Ends(list)[Len(list)]
<1> DEFINE L == Len(list)
           s == Ends(list)
           t == Sizes(list)
<1>1. L \in Nat /\ Adds(s, t, L) /\ t[i] = Len(Encode(list[i])) /\ i \in 1 .. L
  BY EndsAdds
<1> HIDE DEF L, s, t
<1>2. s \in [0 .. L -> Nat]
  BY <1>1 DEF Adds
<1>3. s[i] = s[i - 1] + t[i]
  <2>1. \A n \in Nat : n < L => s[n + 1] = s[n] + t[n + 1]
    BY <1>1, AddsSteps
  <2>2. i - 1 \in Nat /\ i - 1 < L /\ (i - 1) + 1 = i
    BY <1>1
  <2>3. s[(i - 1) + 1] = s[i - 1] + t[(i - 1) + 1]
    BY <2>1, <2>2
  <2> QED
    BY <2>2, <2>3
<1>4. s[i] <= s[L]
  <2>1. i \in 0 .. L /\ L \in i .. L
    BY <1>1
  <2> QED
    BY <1>1, <2>1, TotalGrows
<1>5. s[i - 1] \in Nat /\ s[L] \in Nat
  BY <1>1, <1>2
<1> QED
  BY <1>1, <1>3, <1>4, <1>5 DEF L, s, t

\* The first option begins at the beginning.
LEMMA EndsFirst ==
  ASSUME NEW list \in Seq(Option)
  PROVE  Ends(list)[0] = 0
BY EndsAdds, AddsSteps

\* v is the last value of a field before option i, or there was none.
ReadOne(v, list, i, f) ==
  \/ v = <<>> /\ \A j \in 1 .. i - 1 : list[j].code # Fields[f]
  \/ \E j \in 1 .. i - 1 :
       /\ list[j].code = Fields[f] /\ v = SubSeq(list[j].val, 1, Width(f))
       /\ \A k \in j + 1 .. i - 1 : list[k].code # Fields[f]

\* No END stands before option i.
NoEnd(list, i) == \A j \in 1 .. i - 1 : list[j].code # END

\* No field has the code of PAD or END.
LEMMA FieldCodes ==
  ASSUME NEW f \in DOMAIN Fields
  PROVE  Fields[f] \notin {PAD, END} /\ Width(f) \in Nat
BY DEF Fields, PAD, END, Width

\* Before the first option nothing was read.
LEMMA ReadNone ==
  ASSUME NEW list, NEW f
  PROVE  ReadOne(<<>>, list, 1, f)
BY DEF ReadOne

\* An option of another code leaves a field as it is,
LEMMA ReadKeeps ==
  ASSUME NEW v, NEW list, NEW i \in Nat, NEW f, i >= 1, ReadOne(v, list, i, f),
         list[i].code # Fields[f]
  PROVE  ReadOne(v, list, i + 1, f)
<1>1. CASE v = <<>> /\ \A j \in 1 .. i - 1 : list[j].code # Fields[f]
  <2>1. \A j \in 1 .. (i + 1) - 1 : j = i \/ j \in 1 .. i - 1
    OBVIOUS
  <2> QED
    BY <1>1, <2>1 DEF ReadOne
<1>2. CASE \E j \in 1 .. i - 1 :
       /\ list[j].code = Fields[f] /\ v = SubSeq(list[j].val, 1, Width(f))
       /\ \A k \in j + 1 .. i - 1 : list[k].code # Fields[f]
  <2>1. PICK j \in 1 .. i - 1 :
       /\ list[j].code = Fields[f] /\ v = SubSeq(list[j].val, 1, Width(f))
       /\ \A k \in j + 1 .. i - 1 : list[k].code # Fields[f]
    BY <1>2
  <2>2. \A k \in j + 1 .. (i + 1) - 1 : k = i \/ k \in j + 1 .. i - 1
    OBVIOUS
  <2>3. j \in 1 .. (i + 1) - 1
    OBVIOUS
  <2>4. \A k \in j + 1 .. (i + 1) - 1 : list[k].code # Fields[f]
    BY <2>1, <2>2
  <2> QED
    BY <2>1, <2>3, <2>4 DEF ReadOne
<1> QED
  BY <1>1, <1>2 DEF ReadOne

\* and one of its own takes its place.
LEMMA ReadTakes ==
  ASSUME NEW v, NEW list, NEW i \in Nat, NEW f, i >= 1, list[i].code = Fields[f],
         v = SubSeq(list[i].val, 1, Width(f))
  PROVE  ReadOne(v, list, i + 1, f)
<1>1. i \in 1 .. (i + 1) - 1
  OBVIOUS
<1>2. \A k \in i + 1 .. (i + 1) - 1 : list[k].code # Fields[f]
  OBVIOUS
<1> QED
  BY <1>1, <1>2 DEF ReadOne

\* Where the list ends, what was read is what was written.
LEMMA ReadIsWritten ==
  ASSUME NEW list \in Seq(Option), NEW i \in 1 .. Len(list) + 1, NEW v,
         NEW f \in DOMAIN Fields, NoEnd(list, i), ReadOne(v, list, i, f),
         i = Len(list) + 1 \/ list[i].code = END
  PROVE  v = Written(list, f)
<1> DEFINE L == Len(list)
           c == Fields[f]
           at == {j \in Heeded(list) : list[j].code = c}
           w(m) == SubSeq(list[m].val, 1, Width(f))
           m == CHOOSE n \in at : \A j \in at : j <= n
<1>1. L \in Nat
  BY LenProperties
<1>2. Written(list, f) = IF at = {} THEN <<>> ELSE w(m)
  BY DEF Written
<1>3. c # END
  BY FieldCodes
<1> HIDE DEF c, w
<1>4. \A j \in 1 .. i - 1 : list[j].code = c => j \in at
  <2> SUFFICES ASSUME NEW j \in 1 .. i - 1, list[j].code = c
               PROVE  j \in Heeded(list)
    OBVIOUS
  <2>1. j \in 1 .. Len(list) /\ \A k \in 1 .. j - 1 : k \in 1 .. i - 1
    BY <1>1
  <2> QED
    BY <2>1 DEF Heeded, NoEnd
<1>5. \A j \in at : j \in 1 .. i - 1 /\ list[j].code = c
  <2> SUFFICES ASSUME NEW j \in at PROVE j \in 1 .. i - 1
    OBVIOUS
  <2>1. /\ j \in 1 .. L /\ list[j].code = c
        /\ \A k \in 1 .. j - 1 : list[k].code # END
    BY DEF Heeded
  <2>2. CASE i = L + 1
    BY <1>1, <2>1, <2>2
  <2>3. CASE list[i].code = END
    <3>1. ~ (i < j)
      <4> SUFFICES ASSUME i < j PROVE FALSE
        OBVIOUS
      <4>1. i \in 1 .. j - 1
        BY <2>1
      <4> QED
        BY <2>1, <2>3, <4>1
    <3>2. i # j
      BY <1>3, <2>1, <2>3
    <3> QED
      BY <2>1, <3>1, <3>2
  <2> QED
    BY <2>2, <2>3
<1> HIDE DEF at
<1>6. CASE v = <<>> /\ \A j \in 1 .. i - 1 : list[j].code # Fields[f]
  <2>1. at = {}
    BY <1>5, <1>6 DEF c
  <2> QED
    BY <1>2, <1>6, <2>1
<1>7. CASE \E j \in 1 .. i - 1 :
       /\ list[j].code = Fields[f] /\ v = SubSeq(list[j].val, 1, Width(f))
       /\ \A k \in j + 1 .. i - 1 : list[k].code # Fields[f]
  <2>1. PICK j \in 1 .. i - 1 :
       /\ list[j].code = c /\ v = w(j)
       /\ \A k \in j + 1 .. i - 1 : list[k].code # c
    BY <1>7 DEF c, w
  <2>2. j \in at
    BY <1>4, <2>1
  <2>3. \A k \in at : k <= j
    <3> SUFFICES ASSUME NEW k \in at, j < k PROVE FALSE
      BY <1>5
    <3>1. k \in 1 .. i - 1 /\ list[k].code = c
      BY <1>5
    <3>2. k \in j + 1 .. i - 1
      BY <3>1
    <3> QED
      BY <2>1, <3>1, <3>2
  <2>4. m \in at /\ \A k \in at : k <= m
    BY <2>2, <2>3
  <2> HIDE DEF m
  <2>5. m = j
    <3>1. m <= j /\ j <= m
      BY <2>2, <2>3, <2>4
    <3>2. m \in Nat /\ j \in Nat
      BY <1>5, <2>4
    <3> QED
      BY <3>1, <3>2
  <2>6. Written(list, f) = w(m)
    BY <1>2, <2>2
  <2> QED
    BY <2>1, <2>5, <2>6
<1> QED
  BY <1>6, <1>7 DEF ReadOne

-----------------------------------------------------------------------------
(* Padding.                                                                *)

\* PADs may be skipped two at a time.
Even(S) == IsFiniteSet(S) /\ Cardinality(S) % 2 = 0

\* Behind an option that is not PAD there is no padding,
LEMMA NoPadding ==
  ASSUME NEW list, NEW i \in Nat, i >= 1, list[i].code # PAD
  PROVE  Even(Padding(list, i + 1))
<1>1. Padding(list, i + 1) = {}
  <2> SUFFICES ASSUME NEW j \in Padding(list, i + 1) PROVE FALSE
    OBVIOUS
  <2>1. j \in 1 .. i /\ \A k \in j .. i : list[k].code = PAD
    BY DEF Padding
  <2>2. i \in j .. i
    BY <2>1
  <2> QED
    BY <2>1, <2>2
<1>2. Even({})
  <2>1. IsFiniteSet({}) /\ Cardinality({}) = 0
    BY FS_EmptySet
  <2> QED
    BY <2>1 DEF Even
<1> QED
  BY <1>1, <1>2

\* behind PAD one more than before,
LEMMA MorePadding ==
  ASSUME NEW list, NEW i \in Nat, i >= 1, list[i].code = PAD
  PROVE  Padding(list, i + 1) = Padding(list, i) \union {i} /\ i \notin Padding(list, i)
<1>1. ASSUME NEW j \in Padding(list, i + 1)
      PROVE  j \in Padding(list, i) \union {i}
  <2>1. j \in 1 .. i /\ \A k \in j .. i : list[k].code = PAD
    BY DEF Padding
  <2>2. CASE j = i
    BY <2>2
  <2>3. CASE j # i
    <3>1. j \in 1 .. i - 1 /\ \A k \in j .. i - 1 : k \in j .. i
      BY <2>1, <2>3
    <3> QED
      BY <2>1, <3>1 DEF Padding
  <2> QED
    BY <2>2, <2>3
<1>2. ASSUME NEW j \in Padding(list, i) \union {i}
      PROVE  j \in Padding(list, i + 1)
  <2>1. CASE j = i
    <3>1. i \in 1 .. (i + 1) - 1 /\ \A k \in i .. (i + 1) - 1 : k = i
      OBVIOUS
    <3> QED
      BY <2>1, <3>1 DEF Padding
  <2>2. CASE j # i
    <3>1. j \in 1 .. i - 1 /\ \A k \in j .. i - 1 : list[k].code = PAD
      BY <2>2 DEF Padding
    <3>2. /\ j \in 1 .. (i + 1) - 1
          /\ \A k \in j .. (i + 1) - 1 : k = i \/ k \in j .. i - 1
      BY <3>1
    <3> QED
      BY <3>1, <3>2 DEF Padding
  <2> QED
    BY <2>1, <2>2
<1>3. i \notin Padding(list, i)
  BY DEF Padding
<1> QED
  BY <1>1, <1>2, <1>3

\* an odd number behind a pair,
LEMMA OddPadding ==
  ASSUME NEW list, NEW i \in Nat, i >= 1, list[i].code = PAD, Even(Padding(list, i))
  PROVE  IsFiniteSet(Padding(list, i + 1)) /\ Cardinality(Padding(list, i + 1)) % 2 = 1
<1> DEFINE S == Padding(list, i)
           n == Cardinality(S)
<1>1. Padding(list, i + 1) = S \union {i} /\ i \notin S
  BY MorePadding
<1>2. IsFiniteSet(S) /\ n \in Nat /\ n % 2 = 0
  BY FS_CardinalityType DEF Even
<1>3. IsFiniteSet(S \union {i}) /\ Cardinality(S \union {i}) = n + 1
  BY <1>1, <1>2, FS_AddElement
<1> HIDE DEF S, n
<1>4. (n + 1) % 2 = 1
  BY <1>2
<1> QED
  BY <1>1, <1>3, <1>4

\* and an even one behind the next.
LEMMA EvenPadding ==
  ASSUME NEW list, NEW i \in Nat, i >= 1, list[i].code = PAD, list[i + 1].code = PAD,
         Even(Padding(list, i))
  PROVE  Even(Padding(list, i + 2))
<1> DEFINE j == i + 1
           S == Padding(list, j)
           n == Cardinality(S)
<1>1. IsFiniteSet(S) /\ n % 2 = 1
  BY OddPadding
<1>2. n \in Nat
  BY <1>1, FS_CardinalityType
<1>3. j \in Nat /\ j >= 1 /\ list[j].code = PAD /\ j + 1 = i + 2
  OBVIOUS
<1> HIDE DEF j
<1>4. Padding(list, j + 1) = S \union {j} /\ j \notin S
  BY <1>3, MorePadding
<1>5. IsFiniteSet(S \union {j}) /\ Cardinality(S \union {j}) = n + 1
  BY <1>1, <1>4, FS_AddElement
<1> HIDE DEF S, n
<1>6. (n + 1) % 2 = 0
  BY <1>1, <1>2
<1> QED
  BY <1>3, <1>4, <1>5, <1>6 DEF Even

-----------------------------------------------------------------------------
(* The parser goes from option to option.                                  *)

\* A DHCP packet for us as its server wrote it.
Lease(f) ==
  f \in Datagrams /\ f.std /\ Holds(Options(f), f.list) /\ WellFormed(f) /\ f.h.prot = 17

\* The parser is about to read option i.
Parsing(f, i) ==
  /\ i \in 1 .. Len(f.list) + 1
  /\ opt_ptr = Ends(f.list)[i - 1] + 1 /\ opt_end = Ends(f.list)[Len(f.list)] + 1
  /\ NoEnd(f.list, i) /\ Even(Padding(f.list, i))
  /\ \A x \in DOMAIN Fields : ReadOne(opts[x], f.list, i, x)

\* It is behind the options, or behind an END.
Parsed(f) ==
  /\ ~ (opt_ptr < opt_end)
  /\ \A x \in DOMAIN Fields : opts[x] = Written(f.list, x)

\* Its options fill it.
LEMMA LeaseOptions ==
  ASSUME NEW f, Lease(f)
  PROVE  /\ f.list \in Seq(Option) /\ Options(f) \in Seq(Byte) /\ Len(f.list) \in Nat
         /\ Len(Options(f)) = Ends(f.list)[Len(f.list)]
         /\ Ends(f.list)[Len(f.list)] \in Nat
<1>1. f.list \in Seq(Option) /\ f.data \in Seq(Byte)
  BY DEF Lease, Datagrams
<1>2. Len(Options(f)) \in Nat /\ Options(f) \in Seq(Byte)
  BY <1>1, LenProperties DEF Options
<1>3. Len(Options(f)) = Ends(f.list)[Len(f.list)]
  BY DEF Lease, Holds
<1> QED
  BY <1>1, <1>2, <1>3, LenProperties

\* Option i in the packet.
LEMMA OptionBytes ==
  ASSUME NEW f, Lease(f), NEW i \in 1 .. Len(f.list)
  PROVE  LET o == f.list[i]
             p == Ends(f.list)[i - 1]
         IN  /\ o \in Option /\ p \in Nat /\ Ends(f.list)[i] = p + Len(Encode(o))
             /\ p + Len(Encode(o)) <= Len(Options(f)) /\ Len(Encode(o)) >= 1
             /\ Len(Encode(o)) \in Nat
             /\ Options(f)[p + 1] = o.code
             /\ o.code \in {PAD, END} => Len(Encode(o)) = 1
             /\ o.code \notin {PAD, END} =>
                  /\ Len(Encode(o)) = 2 + Len(o.val) /\ Len(o.val) \in Nat
                  /\ Options(f)[p + 2] = Len(o.val)
                  /\ \A k \in 1 .. Len(o.val) : Options(f)[p + (2 + k)] = o.val[k]
             /\ \A x \in DOMAIN Fields : o.code = Fields[x] => Len(o.val) >= Width(x)
<1> DEFINE o == f.list[i]
           p == Ends(f.list)[i - 1]
           e == Encode(o)
           bytes == Options(f)
<1>1. f.list \in Seq(Option)
  BY LeaseOptions
<1>2. o \in Option
  BY <1>1, ElementOfSeq
<1>3. p \in Nat /\ Ends(f.list)[i] = p + Len(e) /\ p + Len(e) <= Len(bytes)
  BY <1>1, EndsAt, LeaseOptions
<1>4. \A k \in 1 .. Len(e) : bytes[p + k] = e[k]
  BY DEF Lease, Holds
<1>5. \A x \in DOMAIN Fields : o.code = Fields[x] => Len(o.val) >= Width(x)
  BY DEF Lease, WellFormed
<1>6. /\ Len(o.val) \in Nat /\ Len(e) \in Nat /\ Len(e) >= 1 /\ e[1] = o.code
      /\ o.code \in {PAD, END} => Len(e) = 1
      /\ o.code \notin {PAD, END} =>
           /\ Len(e) = 2 + Len(o.val) /\ e[2] = Len(o.val)
           /\ \A k \in 1 .. Len(o.val) : e[2 + k] = o.val[k]
  BY <1>2, EncodeAt
<1> HIDE DEF o, p, e, bytes
<1>7. bytes[p + 1] = o.code
  BY <1>4, <1>6
<1>8. ASSUME o.code \notin {PAD, END}
      PROVE  /\ bytes[p + 2] = Len(o.val)
             /\ \A k \in 1 .. Len(o.val) : bytes[p + (2 + k)] = o.val[k]
  <2>1. 2 \in 1 .. Len(e) /\ \A k \in 1 .. Len(o.val) : 2 + k \in 1 .. Len(e)
    BY <1>6, <1>8
  <2> QED
    BY <1>4, <1>6, <1>8, <2>1
<1> QED
  BY <1>2, <1>3, <1>5, <1>6, <1>7, <1>8 DEF o, p, e, bytes

\* What Peek finds in the packet does not depend on what lies behind.
LEMMA PeekWithin ==
  ASSUME NEW k \in Nat, NEW n \in Nat, NEW behind, Lease(frame),
         k + n <= Len(Options(frame)) + 1
  PROVE  /\ \A j \in 1 .. n : Peek(k, n, behind)[j] = Options(frame)[k + j - 1]
         /\ DOMAIN Peek(k, n, behind) = 1 .. n
<1>1. Len(Options(frame)) \in Nat
  BY LeaseOptions, LenProperties
<1>2. \A j \in 1 .. n : k + j - 1 <= Len(Options(frame))
  BY <1>1
<1> QED
  BY <1>2 DEF Peek

\* What is read of an option is the beginning of its value.
LEMMA PeekValue ==
  ASSUME NEW i \in 1 .. Len(frame.list), Lease(frame), NEW behind, NEW x \in DOMAIN Fields,
         frame.list[i].code = Fields[x]
  PROVE  Peek(Ends(frame.list)[i - 1] + 3, Width(x), behind)
           = SubSeq(frame.list[i].val, 1, Width(x))
<1> DEFINE o == frame.list[i]
           p == Ends(frame.list)[i - 1]
           n == Width(x)
           bytes == Options(frame)
           s == Peek(p + 3, n, behind)
           v == o.val
           t == SubSeq(v, 1, n)
<1>1. /\ p \in Nat /\ o \in Option /\ Len(v) \in Nat /\ n <= Len(v)
      /\ p + (2 + Len(v)) <= Len(bytes)
      /\ \A k \in 1 .. Len(v) : bytes[p + (2 + k)] = v[k]
  BY OptionBytes, FieldCodes
<1>2. n \in Nat
  BY FieldCodes
<1>3. v \in Seq(Byte)
  BY <1>1 DEF Option
<1>4. Len(bytes) \in Nat
  BY LeaseOptions, LenProperties
<1> HIDE DEF o, p, n, bytes, v
<1>5. p + 3 \in Nat /\ (p + 3) + n <= Len(bytes) + 1
  BY <1>1, <1>2, <1>4
<1>6. /\ \A j \in 1 .. n : s[j] = bytes[(p + 3) + j - 1]
      /\ DOMAIN s = 1 .. n
  BY <1>2, <1>5, PeekWithin DEF bytes
<1>7. t \in Seq(Byte) /\ Len(t) = n /\ \A j \in 1 .. n : t[j] = v[j]
  BY <1>1, <1>2, <1>3, SubSeqAt
<1>8. \A j \in 1 .. n : s[j] = v[j]
  <2> SUFFICES ASSUME NEW j \in 1 .. n PROVE s[j] = v[j]
    OBVIOUS
  <2>1. (p + 3) + j - 1 = p + (2 + j) /\ j \in 1 .. Len(v)
    BY <1>1, <1>2
  <2> QED
    BY <1>1, <1>6, <2>1
<1>9. s = [j \in 1 .. n |-> v[j]]
  <2>1. s = [j \in 1 .. n |-> s[j]]
    BY <1>6 DEF Peek
  <2> HIDE DEF s
  <2> QED
    BY <1>8, <2>1
<1>10. t = [j \in 1 .. n |-> v[j]]
  <2>1. t = [j \in 1 .. n |-> t[j]]
    <3> HIDE DEF t
    <3> QED
      BY <1>2, <1>7, LenProperties
  <2> HIDE DEF t
  <2> QED
    BY <1>7, <2>1
<1>11. s = t
  BY <1>9, <1>10
<1> QED
  BY <1>11 DEF s, t, o, p, n, v

\* One more option without END.
LEMMA NoEndMore ==
  ASSUME NEW list, NEW i \in Nat, i >= 1, NoEnd(list, i), list[i].code # END
  PROVE  NoEnd(list, i + 1)
<1>1. \A j \in 1 .. (i + 1) - 1 : j = i \/ j \in 1 .. i - 1
  OBVIOUS
<1> QED
  BY <1>1 DEF NoEnd

\* Between options that are not PAD, PADs come in pairs.
LEMMA PadFollowsPad ==
  ASSUME NEW list \in Seq(Option), PaddedInPairs(list), NEW i \in 1 .. Len(list),
         i + 1 <= Len(list), NoEnd(list, i), list[i].code = PAD, Even(Padding(list, i))
  PROVE  list[i + 1].code = PAD
<1>0. Len(list) \in Nat
  BY LenProperties
<1>1. i \in Nat /\ i >= 1 /\ i + 1 \in 1 .. Len(list)
  BY <1>0
<1>2. list[i].code # END
  BY DEF PAD, END
<1>3. NoEnd(list, i + 1)
  BY <1>1, <1>2, NoEndMore
<1>4. i + 1 \in Heeded(list)
  BY <1>1, <1>3 DEF Heeded, NoEnd
<1>5. Cardinality(Padding(list, i + 1)) % 2 = 1
  BY <1>1, OddPadding
<1> QED
  BY <1>4, <1>5 DEF PaddedInPairs

\* Where the loop of dhcp_recv ends, the options are parsed (dhcp.c 152).
LEMMA ParsedAtEnd ==
  ASSUME NEW i, Lease(frame), Parsing(frame, i), opt_ptr >= opt_end
  PROVE  Parsed(frame)
<1> DEFINE list == frame.list
           L == Len(list)
<1>1. list \in Seq(Option) /\ L \in Nat /\ Ends(list)[L] \in Nat
  BY LeaseOptions
<1>2. i \in 1 .. L + 1 /\ Ends(list)[i - 1] + 1 >= Ends(list)[L] + 1
  BY DEF Parsing
<1>3. i = L + 1
  <2> SUFFICES ASSUME i # L + 1 PROVE FALSE
    OBVIOUS
  <2>1. i \in 1 .. L
    BY <1>1, <1>2
  <2>2. /\ Ends(list)[i - 1] \in Nat
        /\ Ends(list)[i - 1] + Len(Encode(list[i])) <= Ends(list)[L]
        /\ Len(Encode(list[i])) \in Nat /\ Len(Encode(list[i])) >= 1
    BY <2>1, OptionBytes, LeaseOptions
  <2> QED
    BY <1>1, <1>2, <2>2
<1>4. \A x \in DOMAIN Fields : opts[x] = Written(list, x)
  <2> SUFFICES ASSUME NEW x \in DOMAIN Fields PROVE opts[x] = Written(list, x)
    OBVIOUS
  <2>1. NoEnd(list, i) /\ ReadOne(opts[x], list, i, x)
    BY DEF Parsing
  <2> QED
    BY <1>1, <1>2, <1>3, <2>1, ReadIsWritten
<1>5. ~ (opt_ptr < opt_end)
  <2>1. i - 1 = L
    BY <1>1, <1>3
  <2>2. opt_ptr = opt_end
    BY <2>1 DEF Parsing
  <2>3. opt_end \in Nat
    BY <1>1 DEF Parsing
  <2> QED
    BY <2>2, <2>3
<1> QED
  BY <1>4, <1>5 DEF Parsed

\* A pass of the loop goes to the start of a later option, or behind the last
\* (dhcp.c 152-196).
LEMMA ParseStep ==
  ASSUME NEW i, Lease(frame), Parsing(frame, i), PaddedInPairs(frame.list), ParseOption
  PROVE  (\E n \in 1 .. Len(frame.list) + 1 : Parsing(frame, n)') \/ Parsed(frame)'
<1> DEFINE list == frame.list
           L == Len(list)
           o == list[i]
           p == Ends(list)[i - 1]
           l == Ends(list)[L]
           bytes == Options(frame)
<1>1. list \in Seq(Option) /\ L \in Nat /\ l \in Nat /\ Len(bytes) = l
  BY LeaseOptions
<1>2. /\ i \in 1 .. L + 1 /\ opt_ptr = p + 1 /\ opt_end = l + 1
      /\ NoEnd(list, i) /\ Even(Padding(list, i))
      /\ \A x \in DOMAIN Fields : ReadOne(opts[x], list, i, x)
  BY DEF Parsing
<1>3. /\ opt_ptr < opt_end /\ frame' = frame
      /\ LET code == bytes[opt_ptr]
         IN  CASE code = PAD -> Skip(opt_ptr + 2, opt_end)
               [] code = END -> Skip(opt_ptr + 2, opt_ptr + 2)
               [] OTHER -> \E behind \in Stale : ReadOption(code, opt_ptr + 1, behind)
  BY DEF ParseOption
<1>4. i \in 1 .. L
  <2> SUFFICES i # L + 1
    BY <1>1, <1>2
  <2>1. i = L + 1 => p = l
    BY <1>1
  <2> HIDE DEF p, l
  <2> QED
    BY <1>1, <1>2, <1>3, <2>1
<1>5. /\ p \in Nat /\ p + Len(Encode(o)) <= l
      /\ Ends(list)[i] = p + Len(Encode(o))
      /\ bytes[p + 1] = o.code
      /\ o.code \in {PAD, END} => Len(Encode(o)) = 1
      /\ o.code \notin {PAD, END} =>
           /\ Len(Encode(o)) = 2 + Len(o.val) /\ Len(o.val) \in Nat
           /\ bytes[p + 2] = Len(o.val)
  BY <1>1, <1>4, OptionBytes
<1>6. i \in Nat /\ i >= 1
  BY <1>4
<1> HIDE DEF p, l, bytes
<1>7. CASE o.code = PAD
  <2>1. opt_ptr' = p + 3 /\ opt_end' = l + 1 /\ opts' = opts
    <3>1. bytes[opt_ptr] = PAD
      BY <1>2, <1>5, <1>7
    <3>2. Skip(opt_ptr + 2, opt_end)
      BY <1>3, <3>1 DEF PAD, END
    <3>3. (p + 1) + 2 = p + 3
      BY <1>5
    <3> QED
      BY <1>2, <3>2, <3>3 DEF Skip
  <2>2. o.code # END /\ Ends(list)[i] = p + 1
    <3>1. Len(Encode(o)) = 1
      BY <1>5, <1>7
    <3>2. o.code # END
      BY <1>7 DEF PAD, END
    <3> QED
      BY <1>5, <3>1, <3>2
  <2>3. NoEnd(list, i + 1)
    BY <1>2, <1>6, <2>2, NoEndMore
  <2>4. \A x \in DOMAIN Fields : ReadOne(opts[x], list, i + 1, x)
    <3> SUFFICES ASSUME NEW x \in DOMAIN Fields PROVE ReadOne(opts[x], list, i + 1, x)
      OBVIOUS
    <3>1. list[i].code # Fields[x]
      BY <1>7, FieldCodes
    <3> QED
      BY <1>2, <1>6, <3>1, ReadKeeps
  <2>5. CASE i = L
    <3>1. l = p + 1
      BY <2>2, <2>5 DEF l
    <3>2. \A x \in DOMAIN Fields : opts[x] = Written(list, x)
      <4>1. i + 1 \in 1 .. Len(list) + 1 /\ i + 1 = Len(list) + 1
        BY <1>1, <2>5
      <4> QED
        BY <1>1, <2>3, <2>4, <4>1, ReadIsWritten
    <3>3. ~ (opt_ptr' < opt_end')
      BY <1>5, <2>1, <3>1
    <3> QED
      BY <1>3, <2>1, <3>2, <3>3 DEF Parsed
  <2>6. CASE i # L
    <3>1. i + 1 \in 1 .. L /\ i + 1 <= L /\ i + 2 \in 1 .. L + 1 /\ i + 1 \in Nat /\ i + 1 >= 1
      BY <1>1, <1>4, <2>6
    <3>2. list[i + 1].code = PAD
      BY <1>1, <1>2, <1>4, <1>7, <3>1, PadFollowsPad
    <3>3. Even(Padding(list, i + 2))
      BY <1>2, <1>6, <1>7, <3>2, EvenPadding
    <3>4. NoEnd(list, i + 2)
      <4>1. list[i + 1].code # END /\ (i + 1) + 1 = i + 2
        BY <1>6, <3>2 DEF PAD, END
      <4>2. NoEnd(list, (i + 1) + 1)
        BY <2>3, <3>1, <4>1, NoEndMore
      <4> QED
        BY <4>1, <4>2
    <3>5. \A x \in DOMAIN Fields : ReadOne(opts[x], list, i + 2, x)
      <4> SUFFICES ASSUME NEW x \in DOMAIN Fields PROVE ReadOne(opts[x], list, i + 2, x)
        OBVIOUS
      <4>1. list[i + 1].code # Fields[x] /\ (i + 1) + 1 = i + 2
        BY <1>6, <3>2, FieldCodes
      <4>2. ReadOne(opts[x], list, (i + 1) + 1, x)
        BY <2>4, <3>1, <4>1, ReadKeeps
      <4> QED
        BY <4>1, <4>2
    <3>6. Ends(list)[i + 1] = p + 2
      <4> DEFINE j == i + 1
      <4>1. /\ Ends(list)[j] = Ends(list)[j - 1] + Len(Encode(list[j]))
            /\ list[j].code \in {PAD, END} => Len(Encode(list[j])) = 1
        BY <1>1, <3>1, OptionBytes
      <4>2. j - 1 = i
        BY <1>6
      <4> QED
        BY <1>5, <2>2, <3>2, <4>1, <4>2
    <3>7. (i + 2) - 1 = i + 1 /\ opt_ptr' = Ends(list)[i + 1] + 1
      BY <1>5, <1>6, <2>1, <3>6
    <3>8. Parsing(frame, i + 2)'
      <4> DEFINE n == i + 2
      <4>1. /\ n \in 1 .. L + 1 /\ n - 1 = i + 1
            /\ opt_ptr' = Ends(list)[n - 1] + 1 /\ opt_end' = Ends(list)[L] + 1
            /\ NoEnd(list, n) /\ Even(Padding(list, n))
            /\ \A x \in DOMAIN Fields : ReadOne(opts'[x], list, n, x)
        BY <2>1, <3>1, <3>3, <3>4, <3>5, <3>7 DEF l
      <4> HIDE DEF n
      <4>2. Parsing(frame, n)'
        BY <1>3, <4>1 DEF Parsing
      <4> QED
        BY <4>2 DEF n
    <3> QED
      BY <3>1, <3>8
  <2> QED
    BY <2>5, <2>6
<1>8. CASE o.code = END
  <2>1. opt_ptr' = p + 3 /\ opt_end' = p + 3 /\ opts' = opts
    BY <1>2, <1>3, <1>5, <1>8 DEF Skip, PAD, END
  <2>2. \A x \in DOMAIN Fields : opts[x] = Written(list, x)
    BY <1>1, <1>2, <1>8, ReadIsWritten
  <2> QED
    BY <1>3, <1>5, <2>1, <2>2 DEF Parsed
<1>9. CASE o.code \notin {PAD, END}
  <2>1. PICK behind \in Stale : ReadOption(o.code, p + 2, behind)
    <3>1. (p + 1) + 1 = p + 2
      BY <1>5
    <3> QED
      BY <1>2, <1>3, <1>5, <1>9, <3>1
  <2>2. Peek(p + 2, 1, behind)[1] = Len(o.val)
    <3> DEFINE q == Len(Options(frame))
               r == Len(o.val)
               e == Len(Encode(o))
    <3>0. /\ p \in Nat /\ l \in Nat /\ r \in Nat /\ e = 2 + r /\ p + e <= l
          /\ q = l
      BY <1>1, <1>5, <1>9 DEF bytes
    <3> HIDE DEF q, r, e
    <3>a. p + 2 \in Nat /\ (p + 2) + 1 <= q + 1 /\ (p + 2) + 1 - 1 = p + 2
      BY <3>0
    <3>1. p + 2 \in Nat /\ (p + 2) + 1 <= Len(Options(frame)) + 1 /\ (p + 2) + 1 - 1 = p + 2
      BY <3>a DEF q
    <3>2. Peek(p + 2, 1, behind)[1] = Options(frame)[(p + 2) + 1 - 1]
      <4>1. 1 \in 1 .. 1 /\ 1 \in Nat
        OBVIOUS
      <4> QED
        BY <3>1, <4>1, PeekWithin
    <3> QED
      BY <1>5, <1>9, <3>1, <3>2 DEF bytes
  <2>3. /\ opt_ptr' = (p + 2) + Len(o.val) + 1 /\ opt_end' = l + 1
        /\ opts' = [x \in DOMAIN Fields |->
                      IF o.code # Fields[x] THEN opts[x]
                      ELSE Peek((p + 2) + 1, Width(x), behind)]
    BY <1>2, <2>1, <2>2 DEF ReadOption
  <2>4. opt_ptr' = Ends(list)[i] + 1 /\ (p + 2) + 1 = p + 3
    <3> DEFINE m == Len(o.val)
    <3>1. m \in Nat /\ Ends(list)[i] = p + (2 + m) /\ opt_ptr' = (p + 2) + m + 1
      BY <1>5, <1>9, <2>3
    <3> HIDE DEF m
    <3> QED
      BY <1>5, <3>1
  <2>5. \A x \in DOMAIN Fields : ReadOne(opts'[x], list, i + 1, x)
    <3> SUFFICES ASSUME NEW x \in DOMAIN Fields PROVE ReadOne(opts'[x], list, i + 1, x)
      OBVIOUS
    <3>1. CASE o.code # Fields[x]
      <4>1. opts'[x] = opts[x]
        BY <2>3, <3>1
      <4>2. ReadOne(opts[x], list, i + 1, x)
        BY <1>2, <1>6, <3>1, ReadKeeps
      <4> QED
        BY <4>1, <4>2
    <3>2. CASE o.code = Fields[x]
      <4> DEFINE v == Peek(p + 3, Width(x), behind)
      <4>1. opts'[x] = v
        BY <2>3, <2>4, <3>2
      <4>2. v = SubSeq(list[i].val, 1, Width(x))
        BY <1>4, <3>2, PeekValue DEF p
      <4> HIDE DEF v
      <4>3. ReadOne(v, list, i + 1, x)
        BY <1>6, <3>2, <4>2, ReadTakes
      <4> QED
        BY <4>1, <4>3
    <3> QED
      BY <3>1, <3>2
  <2>6. NoEnd(list, i + 1)
    BY <1>2, <1>6, <1>9, NoEndMore
  <2>7. Even(Padding(list, i + 1))
    BY <1>6, <1>9, NoPadding
  <2>8. Parsing(frame, i + 1)'
    <3> DEFINE n == i + 1
    <3>1. /\ n \in 1 .. L + 1 /\ n - 1 = i
          /\ opt_ptr' = Ends(list)[n - 1] + 1 /\ opt_end' = Ends(list)[L] + 1
          /\ NoEnd(list, n) /\ Even(Padding(list, n))
          /\ \A x \in DOMAIN Fields : ReadOne(opts'[x], list, n, x)
      <4>1. n \in 1 .. L + 1 /\ n - 1 = i
        BY <1>1, <1>4
      <4> QED
        BY <2>3, <2>4, <2>5, <2>6, <2>7, <4>1 DEF l
    <3> HIDE DEF n
    <3>2. Parsing(frame, n)'
      BY <1>3, <3>1 DEF Parsing
    <3> QED
      BY <3>2 DEF n
  <2>9. i + 1 \in 1 .. L + 1
    BY <1>1, <1>4
  <2> QED
    BY <2>8, <2>9
<1> QED
  BY <1>7, <1>8, <1>9

\* A word of which 0 and 65535 cannot be told apart holds no protocol number 17.
LEMMA ProtOfWord ==
  ASSUME NEW x \in Byte, NEW y \in Byte, NEW w, w = x * 256 + y, w = 0 \/ w = 65535
  PROVE  y # 17
<1>1. x \in Nat /\ y \in Nat /\ x < 256 /\ y < 256
  BY SMT DEF Byte
<1> QED
  BY <1>1, SMT

\* The low bytes of equal words are equal.
LEMMA SameProt ==
  ASSUME NEW x \in Byte, NEW y \in Byte, NEW z \in Byte, NEW u \in Byte,
         x * 256 + y = z * 256 + u
  PROVE  y = u
<1>1. \A b \in Byte : b \in Nat
  BY DEF Byte
<1>2. (256 * x + y) % 256 = y /\ (256 * z + u) % 256 = u
  BY FromBytes
<1>3. 256 * x + y = 256 * z + u
  BY <1>1
<1> QED
  BY <1>2, <1>3

\* No damage turns a datagram into one for DHCP.
LEMMA NoLeaseFromDamage ==
  ASSUME Arrived, frame.type = "IP", Valid(frame.h), frame.h.prot = 17
  PROVE  damage = <<>>
<1> SUFFICES ASSUME damage # <<>> PROVE FALSE
  OBVIOUS
<1>1. PICK a \in Arrivals : frame = a.frame /\ damage = a.damage
  BY DEF Arrived
<1> DEFINE old == a.damage[1]
           new == a.damage[2]
<1>2. Alike(old, new)
  <2> SUFFICES ASSUME ~ Alike(old, new) PROVE FALSE
    OBVIOUS
  <2>1. Refused(a.frame)
    BY <1>1, DamageShows
  <2> QED
    BY <1>1, <2>1 DEF Refused
<1>3. PICK f \in Exposed, w \in Changes :
        a \in DamagedHeader(f, w) \union DamagedData(f, w)
  BY <1>1 DEF Arrivals, Damaged
<1>4. f \in Datagrams /\ f.h.prot # 17 /\ w \in Word
  BY FrameAssumption
<1>5. CASE a \in DamagedHeader(f, w)
  <2> DEFINE g == a.frame.h
             h == f.h
             W == HeaderWords(h)
             V == HeaderWords(g)
             L == 10 + Len(h.opts)
  <2>1. g \in Headers /\ OneWord(h, g, old, new)
    BY <1>4, <1>5, HeaderHit
  <2>2. h \in Headers
    BY <1>4 DEF Datagrams
  <2>3. PICK j \in 1 .. L : SameBut(W, V, L, j, j) /\ V[j] = new
    BY <2>1 DEF OneWord
  <2>4. /\ W[5] = h.ttl * 256 + h.prot /\ V[5] = g.ttl * 256 + g.prot
        /\ h.ttl \in Byte /\ h.prot \in Byte /\ g.ttl \in Byte /\ g.prot \in Byte
    <3>1. Spells(W, h) /\ Spells(V, g)
      BY <2>1, <2>2, HeaderWordsAt
    <3>2. /\ h.ttl \in Byte /\ h.prot \in Byte /\ g.ttl \in Byte /\ g.prot \in Byte
      BY <2>1, <2>2, HeaderType
    <3> HIDE DEF g, h, W, V
    <3> QED
      BY <3>1, <3>2 DEF Spells
  <2>5. Len(h.opts) \in Nat
    BY <2>2, HeaderType, LenProperties
  <2>6. g.prot = 17 /\ h.prot # 17
    BY <1>1, <1>4
  <2> HIDE DEF g, h, W, V, old, new
  <2>7. CASE j = 5
    <3>1. new = 0 \/ new = 65535
      BY <1>2, SMT DEF Alike
    <3>2. V[5] = new
      BY <2>3, <2>7
    <3> QED
      BY <2>4, <2>6, <3>1, <3>2, ProtOfWord
  <2>8. CASE j # 5
    <3>1. 5 \in 1 .. L
      BY <2>5
    <3>2. V[5] = W[5]
      BY <2>3, <2>8, <3>1 DEF SameBut
    <3> QED
      BY <2>4, <2>6, <3>2, SameProt
  <2> QED
    BY <2>7, <2>8
<1>6. CASE a \in DamagedData(f, w)
  <2>1. a.frame.h = f.h
    BY <1>4, <1>6, DataHit
  <2> QED
    BY <1>1, <1>4, <2>1
<1> QED
  BY <1>3, <1>5, <1>6

\* The parser's place, as long as PADs come in pairs.
Place ==
  /\ pc \in {"dispatch", "bid"} => opt_ptr = 1
  /\ pc = "options" => Lease(frame)
  /\ pc = "options" /\ PaddedInPairs(frame.list) =>
       (\E i \in 1 .. Len(frame.list) + 1 : Parsing(frame, i)) \/ Parsed(frame)

\* The parser starts at the first option.
LEMMA PlaceStart ==
  ASSUME Lease(frame), dhcp_recv
  PROVE  Parsing(frame, 1)'
<1> DEFINE list == frame.list
<1>1. /\ opt_ptr' = 1 /\ opt_end' = Len(Options(frame)) + 1 /\ opts' = NothingRead
      /\ frame' = frame
  BY DEF dhcp_recv, Lease
<1>2. list \in Seq(Option) /\ Len(list) \in Nat /\ Len(Options(frame)) = Ends(list)[Len(list)]
  BY LeaseOptions
<1>3. Ends(list)[1 - 1] = 0
  BY <1>2, EndsFirst
<1>4. \A x \in DOMAIN Fields : opts'[x] = <<>>
  BY <1>1 DEF NothingRead
<1>5. \A x \in DOMAIN Fields : ReadOne(opts'[x], list, 1, x)
  BY <1>4, ReadNone
<1>6. NoEnd(list, 1)
  BY DEF NoEnd
<1>7. Even(Padding(list, 1))
  <2>1. Padding(list, 1) = {}
    BY DEF Padding
  <2>2. IsFiniteSet({}) /\ Cardinality({}) = 0
    BY FS_EmptySet
  <2> QED
    BY <2>1, <2>2 DEF Even
<1>8. 1 \in 1 .. Len(list) + 1
  BY <1>2
<1> DEFINE n == 1
<1>9. /\ n \in 1 .. Len(list) + 1 /\ opt_ptr' = Ends(list)[n - 1] + 1
      /\ opt_end' = Ends(list)[Len(list)] + 1 /\ NoEnd(list, n) /\ Even(Padding(list, n))
      /\ \A x \in DOMAIN Fields : ReadOne(opts'[x], list, n, x)
  BY <1>1, <1>2, <1>3, <1>5, <1>6, <1>7, <1>8
<1> HIDE DEF n
<1>10. Parsing(frame, n)'
  BY <1>1, <1>9 DEF Parsing
<1> QED
  BY <1>10 DEF n

\* The parser is given nothing but what a server wrote.
LEMMA LeaseStarts ==
  ASSUME Arrived, ip_recv, Valid(frame.h), frame.h.prot = 17, frame.std
  PROVE  Lease(frame) /\ dhcp_recv
<1>1. frame.type = "IP"
  BY DEF ip_recv, Dispatch
<1>2. damage = <<>>
  BY <1>1, NoLeaseFromDamage
<1>3. frame \in Datagrams /\ WellFormed(frame)
  BY <1>1, <1>2, WholeDatagram
<1>4. Lease(frame)
  BY <1>3 DEF Lease, WellFormed
<1>5. dhcp_recv
  BY DEF ip_recv
<1> QED
  BY <1>4, <1>5

\* Every step keeps the parser's place.
LEMMA PlaceStep ==
  ASSUME Arrived, Place, OptionsAsWritten, [Next]_vars
  PROVE  Place' /\ OptionsAsWritten'
<1>1. ASSUME pc \in {"dispatch", "bid"}, pc' \in {"bid", "done"}, parser' = parser
      PROVE  Place' /\ OptionsAsWritten'
  BY <1>1 DEF Place, OptionsAsWritten, parser
<1>2. CASE arp_recv
  <2>1. pc = "dispatch" /\ pc' \in {"bid", "done"} /\ parser' = parser
    BY <1>2 DEF arp_recv, Dispatch, arp_send, ether_send, Drop, parser
  <2> QED
    BY <1>1, <2>1
<1>3. CASE ip_recv
  <2>1. pc = "dispatch"
    BY <1>3 DEF ip_recv, Dispatch
  <2>2. CASE Valid(frame.h) /\ frame.h.prot = 17 /\ frame.std
    <3>1. Lease(frame) /\ dhcp_recv
      BY <1>3, <2>2, LeaseStarts
    <3>2. Parsing(frame, 1)'
      BY <3>1, PlaceStart
    <3>3. pc' = "options" /\ frame' = frame
      BY <2>2, <3>1 DEF dhcp_recv
    <3>4. 1 \in 1 .. Len(frame'.list) + 1
      BY <3>2 DEF Parsing
    <3>5. Lease(frame')
      BY <3>1, <3>3
    <3> QED
      BY <3>2, <3>3, <3>4, <3>5 DEF Place, OptionsAsWritten
  <2>3. CASE ~ (Valid(frame.h) /\ frame.h.prot = 17 /\ frame.std)
    <3>1. icmp_recv \/ tcp_recv \/ Drop
      BY <1>3, <2>3 DEF ip_recv, dhcp_recv
    <3>2. pc' \in {"bid", "done"} /\ parser' = parser
      <4>1. CASE icmp_recv
        BY <4>1 DEF icmp_recv, icmp_send, ip_send, ether_send, Drop
      <4>2. CASE tcp_recv
        BY <4>2 DEF tcp_recv
      <4>3. CASE Drop
        BY <4>3 DEF Drop
      <4> QED
        BY <3>1, <4>1, <4>2, <4>3
    <3> QED
      BY <1>1, <2>1, <3>2
  <2> QED
    BY <2>2, <2>3
<1>4. CASE Ignore
  <2>1. pc = "dispatch" /\ pc' = "done" /\ parser' = parser
    BY <1>4 DEF Ignore, Dispatch, Drop, parser
  <2> QED
    BY <1>1, <2>1
<1>5. CASE ParseOption
  <2>1. pc = "options" /\ pc' = "options" /\ frame' = frame /\ opt_ptr < opt_end
    BY <1>5 DEF ParseOption
  <2>2. Lease(frame)
    BY <2>1 DEF Place
  <2>3. ASSUME PaddedInPairs(frame.list)
        PROVE  (\E i \in 1 .. Len(frame.list) + 1 : Parsing(frame, i)') \/ Parsed(frame)'
    <3>1. CASE Parsed(frame)
      BY <2>1, <3>1 DEF Parsed
    <3>2. CASE \E i \in 1 .. Len(frame.list) + 1 : Parsing(frame, i)
      BY <1>5, <2>2, <2>3, <3>2, ParseStep
    <3> QED
      BY <2>1, <2>3, <3>1, <3>2 DEF Place
  <2>4. Place'
    BY <2>1, <2>2, <2>3 DEF Place
  <2> QED
    BY <2>1, <2>4 DEF OptionsAsWritten
<1>6. CASE ParserEnds
  <2>1. /\ pc = "options" /\ opt_ptr >= opt_end
        /\ pc' = "done" /\ frame' = frame /\ opts' = opts /\ opt_ptr' = opt_ptr
    BY <1>6 DEF ParserEnds, Drop, parser
  <2>2. Lease(frame)
    BY <2>1 DEF Place
  <2>3. PaddedInPairs(frame.list) => Parsed(frame)
    BY <2>1, <2>2, ParsedAtEnd DEF Place
  <2>4. OptionsAsWritten'
    <3>1. frame'.std
      BY <2>1, <2>2 DEF Lease
    <3> QED
      BY <2>1, <2>3, <3>1 DEF OptionsAsWritten, ReadAsWritten, Parsed
  <2> QED
    BY <2>1, <2>4 DEF Place
<1>7. CASE Bid
  <2>1. pc = "bid" /\ pc' = "done" /\ parser' = parser
    BY <1>7 DEF Bid, parser
  <2> QED
    BY <1>1, <2>1
<1>8. CASE Controller
  <2>1. pc = "bid" /\ pc' = "bid" /\ parser' = parser
    BY <1>8 DEF Controller, parser
  <2> QED
    BY <1>1, <2>1
<1>9. CASE UNCHANGED vars
  <2>1. /\ pc' = pc /\ frame' = frame /\ opts' = opts /\ opt_ptr' = opt_ptr
        /\ opt_end' = opt_end
    BY <1>9 DEF vars
  <2>2. Parsed(frame)' = Parsed(frame) /\ \A i : Parsing(frame, i)' = Parsing(frame, i)
    BY <2>1 DEF Parsed, Parsing
  <2>3. OptionsAsWritten'
    BY <2>1 DEF OptionsAsWritten, ReadAsWritten
  <2>4. Place'
    BY <2>1, <2>2 DEF Place
  <2> QED
    BY <2>3, <2>4
<1> QED
  BY <1>2, <1>3, <1>4, <1>5, <1>6, <1>7, <1>8, <1>9 DEF Next, Interrupt

\* The parser ends with what the sender of the options wrote, however many there are,
\* in whatever order, and whatever lies behind the packet (dhcp.c 152-196).
THEOREM OptionsRead == Spec => []OptionsAsWritten
<1> DEFINE Inv == Arrived /\ Place /\ OptionsAsWritten
<1>1. Init => Inv
  BY ArrivedInit DEF Init, Place, OptionsAsWritten
<1>2. Inv /\ [Next]_vars => Inv'
  BY ArrivedStep, PlaceStep
<1>3. Inv => OptionsAsWritten
  OBVIOUS
<1> QED
  BY <1>1, <1>2, <1>3, PTL DEF Spec

=============================================================================
