----------------------------- MODULE StreamProofs -----------------------------
(***************************************************************************)
(* Proofs about TcpStream, for rings of every length, every request and    *)
(* reply, any number of retries, and a hostile as well as a calm network.  *)
(***************************************************************************)
EXTENDS TcpStream, RingProofs, SequenceTheorems

\* The number of the first byte of the reply.
Base == ISS + 1

Done == state \in {"LAST_ACK", "CLOSED"}

-----------------------------------------------------------------------------
(* Type correctness, with what the handshake fixes.                        *)

SynSegment(m) ==
  IF m.from = "client" THEN m.flags = {"SYN"} /\ m.seq = IRS /\ m.data = <<>>
                       ELSE m.seq = ISS /\ m.ack = First

Handshake ==
  /\ state = "LISTEN" =>
       /\ client.state \in {"CLOSED", "SYN_SENT"}
       /\ taken = <<>> /\ queued = <<>>
       /\ \A m \in net : m.from = "client" /\ m.flags = {"SYN"}
  /\ state = "SYN_REC" =>
       /\ rx_buf_beg = First /\ rx_buf_end = First
       /\ tx_buf_beg = ISS /\ tx_buf_end = Base
       /\ taken = <<>> /\ queued = <<>>
  /\ client.state \in {"OPEN", "ENDED"} => First <= client.una /\ client.una <= client.nxt
  /\ client.state \in {"CLOSED", "SYN_SENT"} => seen = <<>>
  /\ \A m \in net : "SYN" \in m.flags => SynSegment(m)

TypeInv == TypeOK /\ Handshake

-----------------------------------------------------------------------------
(* The request.                                                            *)

\* A segment of the client carries its place of the request.
Carried(m) ==
  /\ First <= m.seq
  /\ m.seq + Len(m.data) <= FinSeq
  /\ \A i \in 1 .. Len(m.data) : m.data[i] = Request[m.seq - First + i]

RequestInv ==
  /\ state # "LISTEN" =>
       /\ First <= rx_buf_beg /\ rx_buf_beg <= rx_buf_end /\ rx_buf_end <= FinSeq
       /\ rx_buf_end - rx_buf_beg <= TCP_RX_BUF_LEN
  /\ \A m \in net : m.from = "client" /\ m.data # <<>> => Carried(m)
  /\ RequestIntact

-----------------------------------------------------------------------------
(* Acknowledgements.                                                       *)

\* A number acknowledged by a server that has stored the bytes before end.
Stored(a, end) == a <= end \/ (a = FinSeq + 1 /\ end = FinSeq)

\* What a segment says of a ring from beg to end.  Once the connection is done the
\* window does not matter.
Honest(m, done, beg, end) ==
  /\ m.from = "server" =>
       Stored(m.ack, end) /\ (done \/ m.ack + m.win <= beg + TCP_RX_BUF_LEN)
  /\ m.from = "client" /\ "FIN" \in m.flags =>
       m.seq + Len(m.data) = FinSeq /\ (done \/ FinSeq <= beg + TCP_RX_BUF_LEN)

\* What the client believes of it.
Knows(c, done, beg, end) ==
  /\ c.state = "OPEN" => done \/ c.edge <= beg + TCP_RX_BUF_LEN
  /\ c.state \in {"OPEN", "ENDED"} => Stored(c.una, end)

AckInv ==
  /\ state = "LAST_ACK" => rx_buf_end = FinSeq
  /\ Knows(client, Done, rx_buf_beg, rx_buf_end)
  /\ \A m \in net : Honest(m, Done, rx_buf_beg, rx_buf_end)

-----------------------------------------------------------------------------
(* The reply.                                                              *)

Begins(s, t) == Len(s) <= Len(t) /\ \A i \in 1 .. Len(s) : t[i] = s[i]

\* A segment of the server carries its place of the bytes q.
Replied(m, q) ==
  /\ Base <= m.seq
  /\ m.seq + Len(m.data) <= Base + Len(q)
  /\ \A i \in 1 .. Len(m.data) : m.data[i] = q[m.seq - Base + i]

\* The transmit ring between beg and end holds the last bytes of q.
TxHolds(beg, end, ring, q) ==
  /\ Base <= beg
  /\ \A n \in beg .. end - 1 : ring[Slot(n, TCP_TX_BUF_LEN)] = q[n - Base + 1]

\* A segment fits to the bytes q, and to a ring that ends at end unless the
\* connection is done.
Consistent(m, done, end, q) ==
  /\ m.from = "server" /\ m.data # <<>> => Replied(m, q)
  /\ m.from = "client" /\ "SYN" \notin m.flags => done \/ m.ack <= end

ReplyCounts ==
  /\ state # "LISTEN" => tx_buf_end = Base + Len(queued)
  /\ client.state = "OPEN" => client.rcv = Base + Len(seen)
  /\ client.state = "ENDED" => Done
  /\ \A m \in net : m.from = "server" /\ "FIN" \in m.flags => Done

ReplyBytes ==
  /\ state # "LISTEN" => /\ tx_buf_beg <= tx_buf_end
                         /\ tx_buf_end - tx_buf_beg <= TCP_TX_BUF_LEN
  /\ state = "ESTABLISHED" => TxHolds(tx_buf_beg, tx_buf_end, tx_buf, queued)
  /\ \A m \in net : Consistent(m, Done, tx_buf_end, queued)
  /\ Begins(seen, queued)

ReplyInv == ReplyCounts /\ (~ receded => ReplyBytes)

-----------------------------------------------------------------------------
(* What the parts of a step do.                                            *)

LEMMA SentSegment ==
  ASSUME NEW flags \in SUBSET Flags, NEW data \in Seq(Nat),
         tx_buf_beg' \in Nat, rx_buf_beg' \in Nat, rx_buf_end' \in Nat
  PROVE  /\ tcp_send(flags, data) \in Segments
         /\ tcp_send(flags, data).from = "server"
         /\ tcp_send(flags, data).flags = flags
         /\ tcp_send(flags, data).seq = tx_buf_beg'
         /\ state' # "LAST_ACK" => tcp_send(flags, data).ack = rx_buf_end'
         /\ state' = "LAST_ACK" => tcp_send(flags, data).ack = rx_buf_end' + 1
         /\ tcp_send(flags, data).win = TCP_RX_BUF_LEN - (rx_buf_end' - rx_buf_beg')
         /\ tcp_send(flags, data).data = data
<1> DEFINE ack == rx_buf_end' + (IF state' = "LAST_ACK" THEN 1 ELSE 0)
<1>1. /\ ack \in Nat
      /\ state' # "LAST_ACK" => ack = rx_buf_end'
      /\ state' = "LAST_ACK" => ack = rx_buf_end' + 1
  <2> DEFINE fin == IF state' = "LAST_ACK" THEN 1 ELSE 0
             end == rx_buf_end'
  <2>1. fin \in {0, 1}
    OBVIOUS
  <2>2. end \in Nat
    OBVIOUS
  <2> HIDE DEF fin, end
  <2>3. end + fin \in Nat /\ (fin = 0 => end + fin = end) /\ (fin = 1 => end + fin = end + 1)
    BY <2>1, <2>2
  <2>4. (state' # "LAST_ACK" => fin = 0) /\ (state' = "LAST_ACK" => fin = 1)
    BY DEF fin
  <2>5. ack = end + fin
    BY DEF fin, end
  <2> HIDE DEF ack
  <2> QED BY <2>3, <2>4, <2>5 DEF end
<1>2. Window \in Int
  BY StreamAssumption DEF Window
<1>3. /\ tcp_send(flags, data) = Segment("server", flags, tx_buf_beg', ack, Window, data)
      /\ Window = TCP_RX_BUF_LEN - (rx_buf_end' - rx_buf_beg')
  BY DEF tcp_send, Window
<1> HIDE DEF ack
<1> QED BY <1>1, <1>2, <1>3 DEF Segment, Segments

LEMMA ClientSegment ==
  ASSUME NEW flags \in SUBSET Flags, NEW seq \in Nat, NEW data \in Seq(Nat),
         client'.rcv \in Nat
  PROVE  /\ FromClient(flags, seq, data) \in Segments
         /\ FromClient(flags, seq, data).from = "client"
         /\ FromClient(flags, seq, data).flags = flags
         /\ FromClient(flags, seq, data).seq = seq
         /\ FromClient(flags, seq, data).ack = client'.rcv
         /\ FromClient(flags, seq, data).data = data
BY DEF FromClient, Segment, Segments

\* The network holds nothing but what was sent.
LEMMA NetGrows ==
  ASSUME NEW m, NEW segments, Send(segments) \/ Answer(m, segments)
  PROVE  net' \subseteq net \union segments /\ losses' = losses
BY DEF Send, Answer

\* n bytes of a segment are stored.
Stores(m, n) ==
  /\ n = Clip(Len(m.data), Room(rx_buf_beg, rx_buf_end, TCP_RX_BUF_LEN))
  /\ n <= Len(m.data) /\ n <= Room(rx_buf_beg, rx_buf_end, TCP_RX_BUF_LEN)
  /\ rx_buf_beg' = rx_buf_beg
  /\ rx_buf_end' = rx_buf_end + n
  /\ SubSeq(m.data, 1, n) \in Seq(Nat)
  /\ rx_buf' = Fill(rx_buf, rx_buf_end, SubSeq(m.data, 1, n), TCP_RX_BUF_LEN)
  /\ rx_buf' \in [0 .. TCP_RX_BUF_LEN -> Nat]
  /\ net' \subseteq net \union {tcp_send({"ACK"}, <<>>)}
  /\ losses' = losses

LEMMA StoreMoves ==
  ASSUME TypeOK, NEW m \in Segments, Store(m)
  PROVE  \E n \in Nat : Stores(m, n)
<1> DEFINE room == Room(rx_buf_beg, rx_buf_end, TCP_RX_BUF_LEN)
           n == Clip(Len(m.data), room)
<1>1. rx_buf_beg \in Int /\ rx_buf_end \in Int /\ TCP_RX_BUF_LEN \in Nat
  BY StreamAssumption DEF TypeOK
<1>2. room \in Nat
  BY <1>1, CountsBounded
<1>3. m.data \in Seq(Nat) /\ Len(m.data) \in Nat
  BY DEF Segments
<1>4. n \in Nat /\ n <= Len(m.data) /\ n <= room
  <2> HIDE DEF room
  <2> QED BY <1>2, <1>3, ClipBounded
<1>5. /\ rx_buf' = Fill(rx_buf, rx_buf_end, SubSeq(m.data, 1, n), TCP_RX_BUF_LEN)
      /\ rx_buf_end' = rx_buf_end + n
      /\ rx_buf_beg' = rx_buf_beg
      /\ Answer(m, IF m.data = <<>> THEN {} ELSE {tcp_send({"ACK"}, <<>>)})
  BY DEF Store
<1> HIDE DEF n
<1>6. SubSeq(m.data, 1, n) \in Seq(Nat)
  BY <1>3, <1>4
<1>7. rx_buf' \in [0 .. TCP_RX_BUF_LEN -> Nat]
  BY <1>1, <1>5, <1>6, FillType DEF TypeOK
<1>8. net' \subseteq net \union {tcp_send({"ACK"}, <<>>)} /\ losses' = losses
  BY <1>5, NetGrows
<1>9. Stores(m, n)
  BY <1>4, <1>5, <1>6, <1>7, <1>8 DEF Stores, n
<1> QED BY <1>4, <1>9

\* Fetching what is sent again.
LEMMA AgainSends ==
  ASSUME TypeOK, UNCHANGED <<rxVars, txVars>>, NEW m \in Again,
         state \in {"SYN_REC", "ESTABLISHED", "LAST_ACK"}
  PROVE  /\ m \in Segments /\ m.from = "server" /\ m.seq = tx_buf_beg
         /\ state' # "LAST_ACK" => m.ack = rx_buf_end
         /\ state' = "LAST_ACK" => m.ack = rx_buf_end + 1
         /\ m.win = TCP_RX_BUF_LEN - (rx_buf_end - rx_buf_beg)
         /\ "SYN" \in m.flags <=> state = "SYN_REC"
         /\ "FIN" \in m.flags <=> state = "LAST_ACK"
         /\ m.data # <<>> =>
              /\ state = "ESTABLISHED"
              /\ Len(m.data) <= Used(tx_buf_beg, tx_buf_end, TCP_TX_BUF_LEN)
              /\ \A i \in 1 .. Len(m.data) :
                   m.data[i] = tx_buf[Slot(tx_buf_beg + i - 1, TCP_TX_BUF_LEN)]
<1> DEFINE n == Clip(MAX_DATA, Used(tx_buf_beg, tx_buf_end, TCP_TX_BUF_LEN))
           bytes == Fetch(tx_buf, tx_buf_beg, n, TCP_TX_BUF_LEN)
<1>1. /\ tx_buf_beg \in Nat /\ rx_buf_beg \in Nat /\ rx_buf_end \in Nat
      /\ tx_buf_beg' = tx_buf_beg /\ rx_buf_beg' = rx_buf_beg /\ rx_buf_end' = rx_buf_end
  BY DEF TypeOK, rxVars, txVars
<1>2. /\ n \in Nat /\ n <= Used(tx_buf_beg, tx_buf_end, TCP_TX_BUF_LEN)
  <2> DEFINE used == Used(tx_buf_beg, tx_buf_end, TCP_TX_BUF_LEN)
  <2>1. used \in Nat
    <3>1. tx_buf_beg \in Int /\ tx_buf_end \in Int /\ TCP_TX_BUF_LEN \in Nat
      BY StreamAssumption DEF TypeOK
    <3> QED BY <3>1, CountsBounded
  <2>2. MAX_DATA \in Nat
    BY StreamAssumption
  <2> QED BY <2>1, <2>2, ClipBounded
<1> HIDE DEF n
<1>3. /\ bytes \in Seq(Nat) /\ Len(bytes) = n
      /\ \A i \in 1 .. n : bytes[i] = tx_buf[Slot(tx_buf_beg + i - 1, TCP_TX_BUF_LEN)]
  <2>1. tx_buf_beg \in Int /\ TCP_TX_BUF_LEN \in Nat /\ tx_buf \in [0 .. TCP_TX_BUF_LEN -> Nat]
    BY StreamAssumption DEF TypeOK
  <2> QED BY <1>2, <2>1, FetchType
<1>4. <<>> \in Seq(Nat)
  OBVIOUS
<1>5. CASE state = "SYN_REC"
  <2>1. m = tcp_send({"SYN", "ACK"}, <<>>)
    BY <1>5 DEF Again
  <2>2. {"SYN", "ACK"} \in SUBSET Flags
    BY DEF Flags
  <2>3. /\ m \in Segments /\ m.from = "server" /\ m.flags = {"SYN", "ACK"}
        /\ m.seq = tx_buf_beg' /\ m.data = <<>>
        /\ state' # "LAST_ACK" => m.ack = rx_buf_end'
        /\ state' = "LAST_ACK" => m.ack = rx_buf_end' + 1
        /\ m.win = TCP_RX_BUF_LEN - (rx_buf_end' - rx_buf_beg')
    BY <1>1, <1>4, <2>1, <2>2, SentSegment, ZenonT(60)
  <2> QED BY <1>1, <1>5, <2>3
<1>6. CASE state = "ESTABLISHED"
  <2>1. m = tcp_send({"ACK"}, bytes)
    BY <1>6 DEF Again, AgainData, n
  <2>2. {"ACK"} \in SUBSET Flags
    BY DEF Flags
  <2> HIDE DEF bytes
  <2>3. /\ m \in Segments /\ m.from = "server" /\ m.flags = {"ACK"}
        /\ m.seq = tx_buf_beg' /\ m.data = bytes
        /\ state' # "LAST_ACK" => m.ack = rx_buf_end'
        /\ state' = "LAST_ACK" => m.ack = rx_buf_end' + 1
        /\ m.win = TCP_RX_BUF_LEN - (rx_buf_end' - rx_buf_beg')
    BY <1>1, <1>3, <2>1, <2>2, SentSegment
  <2> QED BY <1>1, <1>2, <1>3, <1>6, <2>3
<1>7. CASE state = "LAST_ACK"
  <2>1. m = tcp_send({"FIN", "ACK"}, <<>>)
    BY <1>7 DEF Again
  <2>2. {"FIN", "ACK"} \in SUBSET Flags
    BY DEF Flags
  <2>3. /\ m \in Segments /\ m.from = "server" /\ m.flags = {"FIN", "ACK"}
        /\ m.seq = tx_buf_beg' /\ m.data = <<>>
        /\ state' # "LAST_ACK" => m.ack = rx_buf_end'
        /\ state' = "LAST_ACK" => m.ack = rx_buf_end' + 1
        /\ m.win = TCP_RX_BUF_LEN - (rx_buf_end' - rx_buf_beg')
    BY <1>1, <1>4, <2>1, <2>2, SentSegment, ZenonT(60)
  <2> QED BY <1>1, <1>7, <2>3
<1> QED BY <1>5, <1>6, <1>7

\* The acknowledgement that answers data, and the reset of a dead connection.
LEMMA PlainSent ==
  ASSUME tx_buf_beg' \in Nat, rx_buf_beg' \in Nat, rx_buf_end' \in Nat,
         NEW m \in {tcp_send({"ACK"}, <<>>), tcp_send({"RST", "ACK"}, <<>>)}
  PROVE  /\ m \in Segments /\ m.from = "server" /\ m.data = <<>>
         /\ "SYN" \notin m.flags /\ "FIN" \notin m.flags
         /\ state' # "LAST_ACK" => m.ack = rx_buf_end'
         /\ state' = "LAST_ACK" => m.ack = rx_buf_end' + 1
         /\ m.win = TCP_RX_BUF_LEN - (rx_buf_end' - rx_buf_beg')
<1>1. {"ACK"} \in SUBSET Flags /\ {"RST", "ACK"} \in SUBSET Flags /\ <<>> \in Seq(Nat)
  BY DEF Flags
<1>2. CASE m = tcp_send({"ACK"}, <<>>)
  <2> DEFINE k == tcp_send({"ACK"}, <<>>)
  <2>1. /\ k \in Segments /\ k.from = "server" /\ k.flags = {"ACK"} /\ k.data = <<>>
        /\ state' # "LAST_ACK" => k.ack = rx_buf_end'
        /\ state' = "LAST_ACK" => k.ack = rx_buf_end' + 1
        /\ k.win = TCP_RX_BUF_LEN - (rx_buf_end' - rx_buf_beg')
    <3>1. {"ACK"} \in SUBSET Flags /\ <<>> \in Seq(Nat)
      BY <1>1
    <3> QED BY <3>1, SentSegment, ZenonT(60)
  <2>2. m = k
    BY <1>2
  <2> HIDE DEF k
  <2> QED BY <2>1, <2>2
<1>3. CASE m = tcp_send({"RST", "ACK"}, <<>>)
  <2> DEFINE k == tcp_send({"RST", "ACK"}, <<>>)
  <2>1. /\ k \in Segments /\ k.from = "server" /\ k.flags = {"RST", "ACK"} /\ k.data = <<>>
        /\ state' # "LAST_ACK" => k.ack = rx_buf_end'
        /\ state' = "LAST_ACK" => k.ack = rx_buf_end' + 1
        /\ k.win = TCP_RX_BUF_LEN - (rx_buf_end' - rx_buf_beg')
    <3>1. {"RST", "ACK"} \in SUBSET Flags /\ <<>> \in Seq(Nat)
      BY <1>1
    <3> QED BY <3>1, SentSegment, ZenonT(60)
  <2>2. m = k
    BY <1>3
  <2> HIDE DEF k
  <2> QED BY <2>1, <2>2
<1> QED BY <1>2, <1>3

-----------------------------------------------------------------------------
(* Type correctness.                                                       *)

LEMMA NetTyped ==
  ASSUME TypeInv, NEW sent \in SUBSET Segments, net' \subseteq net \union sent,
         \A m \in sent : "SYN" \in m.flags => SynSegment(m)
  PROVE  net' \subseteq Segments /\ \A m \in net' : "SYN" \in m.flags => SynSegment(m)
BY DEF TypeInv, TypeOK, Handshake

\* A step of the server's that leaves main's part and the client alone.
LEMMA ServerStepTyped ==
  ASSUME TypeInv, state' \in States, due' \in BOOLEAN, retries' \in 0 .. RETRIES,
         rx_buf_beg' \in Nat, rx_buf_end' \in Nat, rx_buf' \in [0 .. TCP_RX_BUF_LEN -> Nat],
         tx_buf_beg' \in Nat, tx_buf_end' \in Nat, tx_buf' \in [0 .. TCP_TX_BUF_LEN -> Nat],
         receded' \in BOOLEAN, UNCHANGED <<taken, asked, queued, client, seen>>,
         losses' \in 0 .. LOSSES,
         state' # "LISTEN",
         state' = "SYN_REC" => /\ rx_buf_beg' = First /\ rx_buf_end' = First
                               /\ tx_buf_beg' = ISS /\ tx_buf_end' = Base
                               /\ taken = <<>> /\ queued = <<>>,
         net' \subseteq Segments, \A m \in net' : "SYN" \in m.flags => SynSegment(m)
  PROVE  TypeInv'
<1>1. TypeOK'
  BY DEF TypeInv, TypeOK
<1>2. Handshake'
  BY DEF TypeInv, Handshake
<1> QED BY <1>1, <1>2 DEF TypeInv

LEMMA RecvSynTyped ==
  ASSUME TypeInv, NEW m \in net, m.from = "client", RecvSyn(m),
         UNCHANGED <<mainVars, clientVars>>
  PROVE  TypeInv'
<1>1. m.seq = IRS /\ m \in Segments
  BY DEF TypeInv, TypeOK, Handshake, RecvSyn, SynSegment
<1>2. net' \subseteq Segments /\ \A k \in net' : "SYN" \in k.flags => SynSegment(k)
  <2>1. net' \subseteq net \union {}
    BY NetGrows DEF RecvSyn
  <2> QED BY <2>1 DEF TypeInv, TypeOK, Handshake
<1>3. losses' \in 0 .. LOSSES
  BY NetGrows DEF RecvSyn, TypeInv, TypeOK
<1>4. /\ state' = "SYN_REC" /\ state' \in States /\ due' \in BOOLEAN /\ retries' \in 0 .. RETRIES
      /\ rx_buf_beg' = First /\ rx_buf_end' = First /\ First \in Nat
      /\ tx_buf_beg' = ISS /\ tx_buf_end' = Base /\ ISS \in Nat /\ Base \in Nat
      /\ rx_buf' \in [0 .. TCP_RX_BUF_LEN -> Nat] /\ tx_buf' \in [0 .. TCP_TX_BUF_LEN -> Nat]
      /\ receded' \in BOOLEAN
  <2>1. /\ state' = "SYN_REC" /\ state' \in States /\ due' = TRUE /\ retries' = 0
        /\ UNCHANGED <<rx_buf, tx_buf, receded>>
    BY DEF RecvSyn, States
  <2>2. rx_buf_beg' = First /\ rx_buf_end' = First /\ tx_buf_beg' = ISS /\ tx_buf_end' = Base
    BY <1>1 DEF RecvSyn, First, Base
  <2>3. First \in Nat /\ ISS \in Nat /\ Base \in Nat /\ 0 \in 0 .. RETRIES
    BY StreamAssumption DEF First, Base
  <2>4. /\ rx_buf' \in [0 .. TCP_RX_BUF_LEN -> Nat] /\ tx_buf' \in [0 .. TCP_TX_BUF_LEN -> Nat]
        /\ receded' \in BOOLEAN
    BY <2>1 DEF TypeInv, TypeOK
  <2> QED BY <2>1, <2>2, <2>3, <2>4
<1>5. UNCHANGED <<taken, asked, queued, client, seen>> /\ taken = <<>> /\ queued = <<>>
  BY DEF mainVars, clientVars, RecvSyn, TypeInv, Handshake
<1> QED BY <1>2, <1>3, <1>4, <1>5, ServerStepTyped

\* A segment of an established connection.  Without an acknowledgement it leaves the
\* transmit ring alone.
LEMMA EstablishedMoves ==
  ASSUME TypeOK, NEW m \in net, RecvEstablished(m)
  PROVE  /\ Store(m) /\ state = "ESTABLISHED" /\ m.seq = rx_buf_end /\ "SYN" \notin m.flags
         /\ state' \in {"ESTABLISHED", "LAST_ACK", "CLOSED"}
         /\ state' = "LAST_ACK" => "FIN" \in m.flags
         /\ due' \in BOOLEAN /\ retries' \in 0 .. RETRIES
         /\ UNCHANGED <<tx_buf_end, tx_buf>>
         /\ tx_buf_beg' \in Nat
         /\ tx_buf_beg' = tx_buf_beg \/ tx_buf_beg' = m.ack
         /\ receded' \in BOOLEAN
         /\ ~ receded' => tx_buf_beg <= tx_buf_beg'
<1>1. m.ack \in Nat /\ tx_buf_beg \in Nat /\ RETRIES \in Nat
  BY StreamAssumption DEF TypeOK, Segments
<1>2. /\ Store(m) /\ state = "ESTABLISHED" /\ m.seq = rx_buf_end /\ "SYN" \notin m.flags
      /\ UNCHANGED <<tx_buf_end, tx_buf>>
  BY DEF RecvEstablished, Expected
<1>3. /\ state' \in {"ESTABLISHED", "LAST_ACK", "CLOSED"}
      /\ state' = "LAST_ACK" => "FIN" \in m.flags
  BY DEF RecvEstablished
<1>4. CASE "ACK" \in m.flags
  <2>1. /\ due' = TRUE /\ retries' = 0 /\ tx_buf_beg' = m.ack
        /\ receded' = (receded \/ m.ack < tx_buf_beg)
    BY <1>4 DEF RecvEstablished
  <2>2. receded' \in BOOLEAN
    BY <2>1 DEF TypeOK
  <2>3. ~ receded' => ~ (m.ack < tx_buf_beg)
    BY <2>1
  <2>4. ~ receded' => tx_buf_beg <= tx_buf_beg'
    BY <1>1, <2>1, <2>3
  <2>5. due' \in BOOLEAN /\ retries' \in 0 .. RETRIES
    BY <1>1, <2>1
  <2> QED BY <1>1, <1>2, <1>3, <2>1, <2>2, <2>4, <2>5
<1>5. CASE "ACK" \notin m.flags
  <2>1. UNCHANGED <<due, retries, tx_buf_beg, receded>>
    BY <1>5 DEF RecvEstablished, timer
  <2>2. tx_buf_beg <= tx_buf_beg'
    BY <1>1, <2>1
  <2>3. due' \in BOOLEAN /\ retries' \in 0 .. RETRIES /\ receded' \in BOOLEAN
    BY <2>1 DEF TypeOK
  <2> QED BY <1>1, <1>2, <1>3, <2>1, <2>2, <2>3
<1> QED BY <1>4, <1>5

\* A segment whose payload is stored.
LEMMA StoreTyped ==
  ASSUME TypeInv, NEW m \in net, Store(m), UNCHANGED <<mainVars, clientVars>>,
         state' \in {"ESTABLISHED", "LAST_ACK", "CLOSED"}, due' \in BOOLEAN,
         retries' \in 0 .. RETRIES, tx_buf_beg' \in Nat, UNCHANGED <<tx_buf_end, tx_buf>>,
         receded' \in BOOLEAN
  PROVE  TypeInv'
<1>1. m \in Segments /\ TypeOK /\ rx_buf_beg \in Nat /\ rx_buf_end \in Nat
  BY DEF TypeInv, TypeOK
<1>2. /\ rx_buf_beg' \in Nat /\ rx_buf_end' \in Nat
      /\ rx_buf' \in [0 .. TCP_RX_BUF_LEN -> Nat]
      /\ net' \subseteq net \union {tcp_send({"ACK"}, <<>>)} /\ losses' = losses
  <2>1. PICK n \in Nat : Stores(m, n)
    BY <1>1, StoreMoves
  <2> QED BY <1>1, <2>1 DEF Stores
<1>3. /\ tcp_send({"ACK"}, <<>>) \in Segments
      /\ "SYN" \notin tcp_send({"ACK"}, <<>>).flags
  BY <1>1, <1>2, PlainSent
<1>4. net' \subseteq Segments /\ \A k \in net' : "SYN" \in k.flags => SynSegment(k)
  <2> DEFINE sent == {tcp_send({"ACK"}, <<>>)}
  <2>1. sent \in SUBSET Segments /\ \A k \in sent : "SYN" \in k.flags => SynSegment(k)
    BY <1>3
  <2> QED BY <1>2, <2>1, NetTyped
<1>5. /\ state' \in States /\ retries' \in 0 .. RETRIES /\ losses' \in 0 .. LOSSES
      /\ tx_buf_end' \in Nat /\ tx_buf' \in [0 .. TCP_TX_BUF_LEN -> Nat]
  <2>1. state' \in States
    BY DEF States
  <2>2. retries' \in 0 .. RETRIES
    BY StreamAssumption
  <2>3. losses' \in 0 .. LOSSES
    BY <1>2 DEF TypeInv, TypeOK
  <2>4. tx_buf_end' \in Nat /\ tx_buf' \in [0 .. TCP_TX_BUF_LEN -> Nat]
    BY DEF TypeInv, TypeOK
  <2> QED BY <2>1, <2>2, <2>3, <2>4
<1>6. UNCHANGED <<taken, asked, queued, client, seen>>
  BY DEF mainVars, clientVars
<1> QED BY <1>1, <1>2, <1>4, <1>5, <1>6, ServerStepTyped

LEMMA RecvLastAckTyped ==
  ASSUME TypeInv, NEW m \in net, RecvLastAck(m), UNCHANGED <<mainVars, clientVars>>
  PROVE  TypeInv'
<1>1. net' \subseteq net \union {} /\ losses' = losses
  BY NetGrows DEF RecvLastAck
<1>2. net' \subseteq Segments /\ \A k \in net' : "SYN" \in k.flags => SynSegment(k)
  BY <1>1 DEF TypeInv, TypeOK, Handshake
<1>3. /\ state' = "CLOSED" /\ UNCHANGED <<taken, asked, queued, client, seen>>
      /\ UNCHANGED <<due, retries, rx_buf_beg, rx_buf_end, rx_buf, tx_buf_beg, tx_buf_end,
                     tx_buf, receded>>
  BY DEF RecvLastAck, mainVars, clientVars, timer, rxVars, txVars
<1> QED BY <1>1, <1>2, <1>3, ServerStepTyped DEF TypeInv, TypeOK, States

LEMMA SetStateTyped ==
  ASSUME TypeInv, tcp_set_state
  PROVE  TypeInv'
<1>1. /\ state \in {"SYN_REC", "ESTABLISHED", "LAST_ACK"}
      /\ UNCHANGED <<rxVars, txVars>> /\ UNCHANGED <<taken, asked, queued, client, seen>>
      /\ UNCHANGED receded
  BY DEF tcp_set_state, mainVars, clientVars
<1>2. /\ tx_buf_beg' \in Nat /\ rx_buf_beg' \in Nat /\ rx_buf_end' \in Nat
      /\ tx_buf_beg' = tx_buf_beg /\ tx_buf_end' = tx_buf_end /\ tx_buf' = tx_buf
      /\ rx_buf_beg' = rx_buf_beg /\ rx_buf_end' = rx_buf_end /\ rx_buf' = rx_buf
  BY <1>1 DEF TypeInv, TypeOK, rxVars, txVars
<1>3. CASE TriesLeft
  <2>1. /\ due' = FALSE /\ retries' = retries + 1 /\ state' = state /\ Send(Again)
    BY <1>3 DEF tcp_set_state
  <2>2. retries' \in 0 .. RETRIES
    BY <1>3, <2>1, StreamAssumption DEF TriesLeft, TypeInv, TypeOK
  <2>3. Again \in SUBSET Segments
    BY <1>1, AgainSends DEF TypeInv
  <2>4. \A m \in Again : "SYN" \in m.flags => SynSegment(m)
    <3>1. TAKE m \in Again
    <3>2. HAVE "SYN" \in m.flags
    <3>3. /\ state = "SYN_REC" /\ m.from = "server" /\ m.seq = tx_buf_beg
          /\ state' # "LAST_ACK" => m.ack = rx_buf_end
      BY <1>1, <3>2, AgainSends DEF TypeInv
    <3>4. m.seq = ISS /\ m.ack = First
      BY <1>2, <2>1, <3>3 DEF TypeInv, Handshake
    <3> QED BY <3>3, <3>4 DEF SynSegment
  <2>5. net' \subseteq net \union Again /\ losses' = losses
    BY <2>1, NetGrows
  <2>6. net' \subseteq Segments /\ \A k \in net' : "SYN" \in k.flags => SynSegment(k)
    BY <2>3, <2>4, <2>5, NetTyped
  <2> QED BY <1>1, <1>2, <2>1, <2>2, <2>5, <2>6, ServerStepTyped DEF TypeInv, TypeOK, Handshake, States
<1>4. CASE ~ TriesLeft
  <2> DEFINE sent == {tcp_send({"RST", "ACK"}, <<>>)}
  <2>1. state' = "CLOSED" /\ UNCHANGED <<due, retries>> /\ Send(sent)
    BY <1>4 DEF tcp_set_state, timer
  <2>2. sent \in SUBSET Segments /\ \A m \in sent : "SYN" \in m.flags => SynSegment(m)
    BY <1>2, PlainSent
  <2>3. net' \subseteq net \union sent /\ losses' = losses
    BY <2>1, NetGrows
  <2> HIDE DEF sent
  <2>4. net' \subseteq Segments /\ \A k \in net' : "SYN" \in k.flags => SynSegment(k)
    BY <2>2, <2>3, NetTyped
  <2> QED BY <1>1, <1>2, <2>1, <2>3, <2>4, ServerStepTyped DEF TypeInv, TypeOK, States
<1> QED BY <1>3, <1>4

\* A step of the client's.
LEMMA ClientStepTyped ==
  ASSUME TypeInv, ClientStep, client' \in ClientState, seen' \in Seq(Nat),
         losses' = losses, NEW sent \in SUBSET Segments, net' \subseteq net \union sent,
         \A m \in sent : /\ m.from = "client"
                         /\ "SYN" \in m.flags => SynSegment(m),
         state = "LISTEN" => /\ client'.state \in {"CLOSED", "SYN_SENT"}
                             /\ \A m \in sent : m.flags = {"SYN"},
         client'.state \in {"OPEN", "ENDED"} =>
           First <= client'.una /\ client'.una <= client'.nxt,
         client'.state \in {"CLOSED", "SYN_SENT"} => seen' = <<>>
  PROVE  TypeInv'
<1>1. /\ UNCHANGED <<state, due, retries, rx_buf_beg, rx_buf_end, rx_buf>>
      /\ UNCHANGED <<tx_buf_beg, tx_buf_end, tx_buf, taken, asked, queued, receded>>
  BY DEF ClientStep, timer, rxVars, txVars, mainVars
<1>2. net' \subseteq Segments /\ \A k \in net' : "SYN" \in k.flags => SynSegment(k)
  BY NetTyped
<1>3. TypeOK'
  BY <1>1, <1>2 DEF TypeInv, TypeOK
<1>4. state = "LISTEN" => \A k \in net' : k.from = "client" /\ k.flags = {"SYN"}
  BY DEF TypeInv, Handshake
<1>5. Handshake'
  BY <1>1, <1>2, <1>4 DEF TypeInv, Handshake
<1> QED BY <1>3, <1>5 DEF TypeInv

LEMMA ConnectTyped ==
  ASSUME TypeInv, Connect
  PROVE  TypeInv'
<1> DEFINE syn == Segment("client", {"SYN"}, IRS, 0, 0, <<>>)
<1>1. client' = [client EXCEPT !.state = "SYN_SENT"] /\ seen' = seen /\ ClientStep
      /\ client.state \in {"CLOSED", "SYN_SENT"} /\ Send({syn})
  BY DEF Connect
<1>2. client' \in ClientState /\ client'.state = "SYN_SENT"
  BY <1>1 DEF TypeInv, TypeOK, ClientState
<1>3. /\ syn \in Segments /\ syn.from = "client" /\ syn.flags = {"SYN"}
      /\ SynSegment(syn)
  BY StreamAssumption DEF Segment, Segments, Flags, SynSegment
<1>4. net' \subseteq net \union {syn} /\ losses' = losses
  BY <1>1, NetGrows
<1>5. seen' = <<>> /\ seen' \in Seq(Nat)
  BY <1>1 DEF TypeInv, TypeOK, Handshake
<1> DEFINE sent == {syn}
<1>6. /\ sent \in SUBSET Segments /\ net' \subseteq net \union sent
      /\ \A m \in sent : /\ m.from = "client" /\ m.flags = {"SYN"}
                         /\ "SYN" \in m.flags => SynSegment(m)
  BY <1>3, <1>4
<1> HIDE DEF syn, sent
<1>7. client'.state # "OPEN" /\ client'.state # "ENDED"
  BY <1>2
<1> QED BY <1>1, <1>2, <1>4, <1>5, <1>6, <1>7, ClientStepTyped

\* A part of a sequence of bytes.
LEMMA Piece ==
  ASSUME NEW s \in Seq(Nat), NEW m \in Int, NEW n \in Int, 1 <= m, n <= Len(s)
  PROVE  /\ SubSeq(s, m, n) \in Seq(Nat)
         /\ Len(SubSeq(s, m, n)) = IF m <= n THEN n - m + 1 ELSE 0
         /\ \A i \in 1 .. n - m + 1 : SubSeq(s, m, n)[i] = s[m + i - 1]
<1>1. \A i \in m .. n : s[i] \in Nat
  OBVIOUS
<1> QED BY <1>1, SubSeqProperties

\* A segment the client sends with an acknowledgement.
LEMMA ClientSegmentTyped ==
  ASSUME TypeInv, client' \in ClientState, NEW seq \in Nat, NEW data \in Seq(Nat),
         NEW flags, flags = {"ACK"} \/ flags = {"ACK", "FIN"}
  PROVE  /\ FromClient(flags, seq, data) \in Segments
         /\ FromClient(flags, seq, data).from = "client"
         /\ FromClient(flags, seq, data).flags = flags /\ "SYN" \notin flags
         /\ FromClient(flags, seq, data).seq = seq
         /\ FromClient(flags, seq, data).ack = client'.rcv
         /\ FromClient(flags, seq, data).data = data
<1>1. client'.rcv \in Nat
  BY DEF ClientState
<1>2. flags \in SUBSET Flags /\ "SYN" \notin flags
  BY DEF Flags
<1>3. FromClient(flags, seq, data) \in Segments
  BY <1>1, <1>2, ClientSegment
<1> QED BY <1>2, <1>3 DEF FromClient, Segment

\* A step of the client's that sends at most one segment, with an acknowledgement.
LEMMA ClientAnswerTyped ==
  ASSUME TypeInv, ClientStep, client' \in ClientState, seen' \in Seq(Nat),
         losses' = losses, state # "LISTEN",
         NEW seq \in Nat, NEW data \in Seq(Nat),
         NEW flags, flags = {"ACK"} \/ flags = {"ACK", "FIN"},
         net' \subseteq net \union {FromClient(flags, seq, data)},
         client'.state \in {"OPEN", "ENDED"} =>
           First <= client'.una /\ client'.una <= client'.nxt,
         client'.state \in {"CLOSED", "SYN_SENT"} => seen' = <<>>
  PROVE  TypeInv'
<1> DEFINE sent == {FromClient(flags, seq, data)}
<1>0. /\ FromClient(flags, seq, data) \in Segments
      /\ FromClient(flags, seq, data).from = "client"
      /\ FromClient(flags, seq, data).flags = flags /\ "SYN" \notin flags
  BY ClientSegmentTyped
<1>1. /\ sent \in SUBSET Segments
      /\ \A m \in sent : /\ m.from = "client"
                         /\ "SYN" \in m.flags => SynSegment(m)
  BY <1>0
<1>2. net' \subseteq net \union sent
  OBVIOUS
<1> HIDE DEF sent
<1> QED BY <1>1, <1>2, ClientStepTyped

\* Where the server's segments are, the handshake has begun.
LEMMA ServerSent ==
  ASSUME TypeInv, NEW m \in net, m.from = "server"
  PROVE  state # "LISTEN" /\ m \in Segments
BY DEF TypeInv, TypeOK, Handshake

LEMMA ClientRecvSynAckTyped ==
  ASSUME TypeInv, NEW m \in net, m.from = "server", ClientRecvSynAck(m)
  PROVE  TypeInv'
<1>1. state # "LISTEN" /\ m \in Segments
  BY ServerSent
<1>2. m.seq \in Nat /\ m.ack \in Nat /\ m.win \in Int
  BY <1>1 DEF Segments
<1>3. m.flags = {"SYN", "ACK"}
  BY DEF ClientRecvSynAck
<1>4. m.ack = First
  BY <1>3 DEF TypeInv, Handshake, SynSegment
<1>5. /\ client' \in ClientState /\ client'.state = "OPEN"
      /\ First <= client'.una /\ client'.una <= client'.nxt
  <2>1. CASE client.state = "SYN_SENT"
    <3>1. client' = [client EXCEPT !.state = "OPEN", !.una = m.ack, !.nxt = m.ack,
                                   !.edge = m.ack + m.win, !.rcv = m.seq + 1]
      BY <2>1 DEF ClientRecvSynAck
    <3>2. client \in ClientState /\ First \in Nat
      BY StreamAssumption DEF TypeInv, TypeOK, First
    <3>3. client' \in ClientState
      <4>1. m.ack + m.win \in Int /\ m.seq + 1 \in Nat
        BY <1>2
      <4> QED BY <1>2, <3>1, <3>2, <4>1 DEF ClientState
    <3>4. client'.state = "OPEN" /\ client'.una = m.ack /\ client'.nxt = m.ack
      BY <3>1, <3>2 DEF ClientState
    <3> QED BY <1>4, <3>2, <3>3, <3>4
  <2>2. CASE client.state # "SYN_SENT"
    <3>1. client' = client /\ client.state = "OPEN"
      BY <2>2 DEF ClientRecvSynAck
    <3> QED BY <3>1 DEF TypeInv, TypeOK, Handshake
  <2> QED BY <2>1, <2>2
<1>6. client'.nxt \in Nat /\ seen' = seen /\ seen \in Seq(Nat) /\ ClientStep
  BY <1>5 DEF ClientState, ClientRecvSynAck, TypeInv, TypeOK
<1>7. <<>> \in Seq(Nat) 
  OBVIOUS
<1>8. net' \subseteq net \union {FromClient({"ACK"}, client'.nxt, <<>>)} /\ losses' = losses
  BY NetGrows DEF ClientRecvSynAck
<1> QED BY <1>1, <1>5, <1>6, <1>7, <1>8, ClientAnswerTyped

\* What ClientSend does, in the words of the proofs.
ClientSent(start, end, fin, flags, data) ==
  /\ flags = (IF fin THEN {"ACK", "FIN"} ELSE {"ACK"})
  /\ data \in Seq(Nat) /\ Len(data) = end - start
  /\ \A i \in 1 .. Len(data) : data[i] = Request[start - First + i]
  /\ start \in Nat /\ First <= start /\ end \in Nat
  /\ client.state = "OPEN" /\ client' \in ClientState
  /\ client'.state = "OPEN" /\ client'.una = client.una
  /\ client'.edge = client.edge /\ client'.rcv = client.rcv
  /\ client.nxt <= client'.nxt
  /\ net' \subseteq net \union {FromClient(flags, start, data)}
  /\ losses' = losses /\ seen' = seen /\ ClientStep
  /\ fin => end = FinSeq /\ end <= client.edge

LEMMA ClientSendMoves ==
  ASSUME TypeInv, NEW start \in {client.una, client.nxt}, NEW end \in First .. FinSeq,
         NEW fin \in BOOLEAN, start <= end, ClientSend(start, end, fin)
  PROVE  \E flags, data : ClientSent(start, end, fin, flags, data)
<1> DEFINE flags == IF fin THEN {"ACK", "FIN"} ELSE {"ACK"}
           data == SubSeq(Request, start - First + 1, end - First)
           next == IF fin THEN end + 1 ELSE end
<1>1. /\ client.state = "OPEN" /\ client \in ClientState
      /\ First \in Nat /\ Request \in Seq(Nat) /\ Len(Request) \in Nat
      /\ FinSeq = First + Len(Request)
  <2>1. client.state = "OPEN" /\ client \in ClientState
    BY DEF ClientSend, TypeInv, TypeOK
  <2>2. /\ First \in Nat /\ Request \in Seq(Nat) /\ Len(Request) \in Nat
        /\ FinSeq = First + Len(Request)
    BY StreamAssumption DEF First, FinSeq
  <2> QED BY <2>1, <2>2
<1>2. client.una \in Nat /\ client.nxt \in Nat /\ First <= client.una /\ First <= client.nxt
  BY <1>1 DEF TypeInv, Handshake, ClientState
<1>3. start \in Nat /\ First <= start /\ end \in Nat /\ end - First <= Len(Request)
  BY <1>1, <1>2
<1>4. /\ data \in Seq(Nat) /\ Len(data) = end - start
      /\ \A i \in 1 .. Len(data) : data[i] = Request[start - First + i]
  <2>1. start - First + 1 \in Int /\ end - First \in Int /\ 1 <= start - First + 1
    BY <1>1, <1>3
  <2>2. /\ data \in Seq(Nat)
        /\ Len(data) = IF start - First + 1 <= end - First
                       THEN (end - First) - (start - First + 1) + 1 ELSE 0
        /\ \A i \in 1 .. (end - First) - (start - First + 1) + 1 :
             data[i] = Request[(start - First + 1) + i - 1]
    BY <1>1, <1>3, <2>1, Piece
  <2> HIDE DEF data
  <2>3. Len(data) = end - start
    BY <1>1, <1>3, <2>2
  <2>4. ASSUME NEW i \in 1 .. Len(data)
        PROVE  data[i] = Request[start - First + i]
    <3>1. /\ i \in 1 .. (end - First) - (start - First + 1) + 1
          /\ (start - First + 1) + i - 1 = start - First + i
      BY <1>1, <1>3, <2>3
    <3> QED BY <2>2, <3>1
  <2> QED BY <2>2, <2>3, <2>4
<1>5. client' = [client EXCEPT !.nxt = IF next > @ THEN next ELSE @, !.fin = @ \/ fin]
  BY DEF ClientSend
<1>6. next \in Nat
  BY <1>3
<1> HIDE DEF next
<1>7. /\ client' \in ClientState /\ client'.state = "OPEN" /\ client'.una = client.una
      /\ client'.edge = client.edge /\ client'.rcv = client.rcv
      /\ client.nxt <= client'.nxt
  <2> DEFINE n == IF next > client.nxt THEN next ELSE client.nxt
             f == client.fin \/ fin
  <2>1. n \in Nat /\ client.nxt <= n /\ f \in BOOLEAN
    BY <1>1, <1>2, <1>6 DEF ClientState
  <2>2. client' = [client EXCEPT !.nxt = n, !.fin = f]
    BY <1>5
  <2> HIDE DEF n, f
  <2> QED BY <1>1, <2>1, <2>2 DEF ClientState
<1>8. /\ net' \subseteq net \union {FromClient(flags, start, data)}
      /\ losses' = losses
  <2>1. flags = {"ACK"} \union (IF fin THEN {"FIN"} ELSE {})
    OBVIOUS
  <2>2. Send({FromClient({"ACK"} \union (IF fin THEN {"FIN"} ELSE {}), start, data)})
    BY DEF ClientSend
  <2> HIDE DEF flags, data
  <2>3. Send({FromClient(flags, start, data)})
    BY <2>1, <2>2
  <2> QED BY <2>3, NetGrows
<1>9. seen' = seen /\ ClientStep /\ (fin => end = FinSeq /\ end <= client.edge)
  BY DEF ClientSend
<1>10. flags = (IF fin THEN {"ACK", "FIN"} ELSE {"ACK"})
  OBVIOUS
<1> HIDE DEF flags, data
<1>11. ClientSent(start, end, fin, flags, data)
  BY <1>1, <1>3, <1>4, <1>7, <1>8, <1>9, <1>10 DEF ClientSent
<1> QED BY <1>11

LEMMA ClientSendTyped ==
  ASSUME TypeInv, NEW start \in {client.una, client.nxt}, NEW end \in First .. FinSeq,
         NEW fin \in BOOLEAN, start <= end, ClientSend(start, end, fin)
  PROVE  TypeInv'
<1>0. PICK flags, data : ClientSent(start, end, fin, flags, data)
  BY ClientSendMoves
<1>1. /\ flags = (IF fin THEN {"ACK", "FIN"} ELSE {"ACK"})
      /\ data \in Seq(Nat) /\ start \in Nat
      /\ client.state = "OPEN" /\ client' \in ClientState
      /\ client'.state = "OPEN" /\ client'.una = client.una
      /\ client.nxt <= client'.nxt
      /\ net' \subseteq net \union {FromClient(flags, start, data)}
      /\ losses' = losses /\ seen' = seen /\ ClientStep
  BY <1>0 DEF ClientSent
<1>2. flags = {"ACK"} \/ flags = {"ACK", "FIN"}
  BY <1>1
<1>3. state # "LISTEN" /\ seen' \in Seq(Nat)
  BY <1>1 DEF TypeInv, TypeOK, Handshake
<1>4. First <= client'.una /\ client'.una <= client'.nxt
  <2>1. First <= client.una /\ client.una <= client.nxt
    BY <1>1 DEF TypeInv, Handshake
  <2>2. client.una \in Nat /\ client.nxt \in Nat /\ client'.nxt \in Nat
    BY <1>1 DEF TypeInv, TypeOK, ClientState
  <2> QED BY <1>1, <2>1, <2>2
<1> QED BY <1>1, <1>2, <1>3, <1>4, ClientAnswerTyped

\* What the client takes from a segment is the part that it has not received.
LEMMA NewDataProperties ==
  ASSUME TypeOK, NEW m \in Segments
  PROVE  /\ NewData(m) \in Seq(Nat)
         /\ NewData(m) # <<>> =>
              /\ m.seq <= client.rcv
              /\ m.data # <<>>
              /\ client.rcv + Len(NewData(m)) = m.seq + Len(m.data)
              /\ \A i \in 1 .. Len(NewData(m)) :
                   NewData(m)[i] = m.data[client.rcv - m.seq + i]
<1>1. m.seq \in Nat /\ m.data \in Seq(Nat) /\ client.rcv \in Nat /\ Len(m.data) \in Nat
  BY DEF Segments, TypeOK, ClientState
<1>2. CASE m.seq <= client.rcv
  <2> DEFINE k == client.rcv - m.seq + 1
             new == SubSeq(m.data, k, Len(m.data))
  <2>1. NewData(m) = new
    BY <1>2 DEF NewData
  <2>2. k \in Int /\ 1 <= k /\ Len(m.data) \in Int /\ Len(m.data) <= Len(m.data)
    BY <1>1, <1>2
  <2>3. /\ new \in Seq(Nat)
        /\ Len(new) = IF k <= Len(m.data) THEN Len(m.data) - k + 1 ELSE 0
        /\ \A i \in 1 .. Len(m.data) - k + 1 : new[i] = m.data[k + i - 1]
    <3> HIDE DEF k
    <3> QED BY <1>1, <2>2, Piece
  <2>4. new # <<>> => k <= Len(m.data) /\ Len(new) = Len(m.data) - k + 1
    <3> HIDE DEF k, new
    <3> QED BY <1>1, <2>2, <2>3
  <2>5. \A i \in 1 .. Len(m.data) - k + 1 : k + i - 1 = client.rcv - m.seq + i
    BY <1>1, <2>2, SMTT(30)
  <2> HIDE DEF new
  <2>6. new # <<>> => /\ m.data # <<>>
                      /\ client.rcv + Len(new) = m.seq + Len(m.data)
                      /\ \A i \in 1 .. Len(new) : new[i] = m.data[client.rcv - m.seq + i]
    <3>1. new # <<>> => m.data # <<>>
      BY <1>1, <2>2, <2>4
    <3>2. new # <<>> => client.rcv + Len(new) = m.seq + Len(m.data)
      BY <1>1, <2>4
    <3>3. new # <<>> => \A i \in 1 .. Len(new) : new[i] = m.data[client.rcv - m.seq + i]
      BY <1>1, <2>3, <2>4, <2>5
    <3> QED BY <3>1, <3>2, <3>3
  <2> QED BY <1>2, <2>1, <2>3, <2>6
<1>3. CASE ~ (m.seq <= client.rcv)
  BY <1>3 DEF NewData
<1> QED BY <1>2, <1>3

\* What ClientRecv does, in the words of the proofs.
ClientTook(m) ==
  LET fin == "FIN" \in m.flags /\ m.seq + Len(m.data) = client.rcv + Len(NewData(m))
  IN  /\ client.state = "OPEN" /\ ClientStep
      /\ m.flags = {"ACK"} \/ m.flags = {"FIN", "ACK"}
      /\ client' \in ClientState /\ client'.nxt = client.nxt
      /\ client'.una = client.una \/ (client.una < m.ack /\ m.ack <= client.nxt /\ client'.una = m.ack)
      /\ client'.edge = client.edge \/ client'.edge = m.ack + m.win
      /\ client'.rcv = client.rcv + Len(NewData(m)) + (IF fin THEN 1 ELSE 0)
      /\ client'.state = (IF fin THEN "ENDED" ELSE "OPEN")
      /\ seen' = seen \o NewData(m) /\ seen' \in Seq(Nat)
      /\ Len(seen') = Len(seen) + Len(NewData(m))
      /\ client'.nxt \in Nat
      /\ net' \subseteq net \union {FromClient({"ACK"}, client.nxt, <<>>)}
      /\ losses' = losses

LEMMA ClientRecvMoves ==
  ASSUME TypeInv, NEW m \in Segments, ClientRecv(m)
  PROVE  ClientTook(m)
<1> DEFINE new == NewData(m)
           next == client.rcv + Len(new)
           fin == "FIN" \in m.flags /\ m.seq + Len(m.data) = next
           kept == m.ack <= client.nxt
           una == IF kept /\ m.ack > client.una THEN m.ack ELSE client.una
           edge == IF kept /\ m.ack + m.win > client.edge THEN m.ack + m.win ELSE client.edge
           rcv == IF fin THEN next + 1 ELSE next
           st == IF fin THEN "ENDED" ELSE client.state
<1>1. client \in ClientState /\ seen \in Seq(Nat) /\ TypeOK
  BY DEF TypeInv, TypeOK
<1>2. /\ client.una \in Nat /\ client.nxt \in Nat /\ client.edge \in Int /\ client.rcv \in Nat
      /\ m.ack \in Nat /\ m.win \in Int
  BY <1>1 DEF ClientState, Segments
<1>3. new \in Seq(Nat) /\ Len(new) \in Nat
  BY <1>1, NewDataProperties
<1>4. /\ client.state = "OPEN" /\ ClientStep
      /\ m.flags = {"ACK"} \/ m.flags = {"FIN", "ACK"}
      /\ seen' = seen \o new
  BY DEF ClientRecv
<1>5. client' = [client EXCEPT !.una = una, !.edge = edge, !.rcv = rcv, !.state = st]
  BY DEF ClientRecv
<1> HIDE DEF new
<1>6. next \in Nat
  BY <1>2, <1>3
<1> HIDE DEF next
<1>7. /\ una \in Nat /\ edge \in Int /\ rcv \in Nat
      /\ una = client.una \/ (client.una < m.ack /\ m.ack <= client.nxt /\ una = m.ack)
      /\ edge = client.edge \/ edge = m.ack + m.win
      /\ rcv = next + (IF fin THEN 1 ELSE 0)
  <2>1. m.ack + m.win \in Int
    BY <1>2
  <2>2. una \in Nat /\ edge \in Int
    BY <1>2, <2>1
  <2>3. una = client.una \/ (client.una < m.ack /\ m.ack <= client.nxt /\ una = m.ack)
    BY <1>2
  <2>4. edge = client.edge \/ edge = m.ack + m.win
    OBVIOUS
  <2>5. rcv \in Nat /\ rcv = next + (IF fin THEN 1 ELSE 0)
    <3> HIDE DEF fin
    <3> QED BY <1>6
  <2> QED BY <2>2, <2>3, <2>4, <2>5
<1>8. st = (IF fin THEN "ENDED" ELSE "OPEN")
  BY <1>4
<1> HIDE DEF una, edge, rcv, st, fin
<1>9. st \in {"ENDED", "OPEN"}
  BY <1>8
<1>10. client' \in ClientState
  BY <1>1, <1>5, <1>7, <1>9 DEF ClientState
<1>11. /\ client'.una = una /\ client'.edge = edge /\ client'.rcv = rcv /\ client'.state = st
       /\ client'.nxt = client.nxt
  BY <1>1, <1>5 DEF ClientState
<1>12. seen' \in Seq(Nat) /\ Len(seen') = Len(seen) + Len(new)
  BY <1>1, <1>3, <1>4, ConcatProperties
<1>13. net' \subseteq net \union {FromClient({"ACK"}, client.nxt, <<>>)} /\ losses' = losses
  BY NetGrows DEF ClientRecv
<1> QED
  BY <1>2, <1>4, <1>7, <1>8, <1>10, <1>11, <1>12, <1>13 DEF ClientTook, fin, new, next

LEMMA ClientRecvTyped ==
  ASSUME TypeInv, NEW m \in net, m.from = "server", ClientRecv(m)
  PROVE  TypeInv'
<1>1. state # "LISTEN" /\ m \in Segments
  BY ServerSent
<1>2. ClientTook(m)
  BY <1>1, ClientRecvMoves
<1>3. First <= client.una /\ client.una <= client.nxt /\ First \in Nat
      /\ client.una \in Nat /\ client.nxt \in Nat /\ m.ack \in Nat
  BY <1>1, <1>2, StreamAssumption
  DEF TypeInv, TypeOK, Handshake, ClientTook, ClientState, Segments, First
<1>4. First <= client'.una /\ client'.una <= client'.nxt
  BY <1>2, <1>3 DEF ClientTook
<1>5. client'.state # "CLOSED" /\ client'.state # "SYN_SENT"
  BY <1>2 DEF ClientTook
<1>6. /\ ClientStep /\ client' \in ClientState /\ seen' \in Seq(Nat) /\ losses' = losses
      /\ net' \subseteq net \union {FromClient({"ACK"}, client.nxt, <<>>)}
  BY <1>2 DEF ClientTook
<1>7. <<>> \in Seq(Nat)
  OBVIOUS
<1> QED BY <1>1, <1>3, <1>4, <1>5, <1>6, <1>7, ClientAnswerTyped

LEMMA ClientRecvAgainTyped ==
  ASSUME TypeInv, NEW m \in net, m.from = "server", ClientRecvAgain(m)
  PROVE  TypeInv'
<1>1. state # "LISTEN"
  BY ServerSent
<1>2. /\ client.state = "ENDED" /\ client' = client /\ seen' = seen /\ ClientStep
      /\ net' \subseteq net \union {FromClient({"ACK"}, client.nxt, <<>>)}
      /\ losses' = losses
  BY NetGrows DEF ClientRecvAgain, clientVars
<1>3. client' \in ClientState /\ seen' \in Seq(Nat) /\ client.nxt \in Nat
      /\ First <= client'.una /\ client'.una <= client'.nxt
  BY <1>2 DEF TypeInv, TypeOK, Handshake, ClientState
<1>4. <<>> \in Seq(Nat)
  OBVIOUS
<1>5. client'.state # "CLOSED" /\ client'.state # "SYN_SENT"
  BY <1>2
<1> QED BY <1>1, <1>2, <1>3, <1>4, <1>5, ClientAnswerTyped

LEMMA ClientRecvResetTyped ==
  ASSUME TypeInv, NEW m \in net, m.from = "server", ClientRecvReset(m)
  PROVE  TypeInv'
<1>1. state # "LISTEN"
  BY ServerSent
<1>2. /\ seen' = seen /\ ClientStep /\ net' \subseteq net \union {} /\ losses' = losses
      /\ client' = client \/ client' = [client EXCEPT !.state = "RESET"]
  BY NetGrows DEF ClientRecvReset
<1>3. client \in ClientState /\ seen' \in Seq(Nat)
  BY <1>2 DEF TypeInv, TypeOK
<1>4. /\ client' \in ClientState
      /\ client'.state # "RESET" => client' = client
  BY <1>2, <1>3 DEF ClientState
<1>5. /\ client'.state \in {"OPEN", "ENDED"} => First <= client'.una /\ client'.una <= client'.nxt
      /\ client'.state \in {"CLOSED", "SYN_SENT"} => seen' = <<>>
  BY <1>2, <1>4 DEF TypeInv, Handshake
<1> DEFINE sent == {}
<1>6. /\ sent \in SUBSET Segments /\ net' \subseteq net \union sent
      /\ \A k \in sent : k.from = "client" /\ ("SYN" \in k.flags => SynSegment(k))
  BY <1>2
<1> HIDE DEF sent
<1> QED BY <1>1, <1>2, <1>3, <1>4, <1>5, <1>6, ClientStepTyped

\* What a client that gives up leaves behind.
LEMMA AbortMoves ==
  ASSUME TypeOK, ClientAbort
  PROVE  /\ client.state = "OPEN" /\ client'.state = "RESET" /\ client' \in ClientState
         /\ ClientStep /\ seen' = seen /\ losses' = losses
         /\ \E m \in Segments :
              /\ net' \subseteq net \union {m}
              /\ m.from = "client" /\ m.flags = {"RST"} /\ m.data = <<>>
              /\ m.ack = client.rcv
<1> DEFINE flags == {"RST"}
           data == <<>>
           m == FromClient(flags, client.nxt, data)
<1>1. /\ client.state = "OPEN" /\ client' = [client EXCEPT !.state = "RESET"]
      /\ ClientStep /\ seen' = seen /\ losses' = losses /\ net' \subseteq net \union {m}
  BY NetGrows DEF ClientAbort
<1>2. client \in ClientState
  BY DEF TypeOK
<1>3. /\ client' \in ClientState /\ client'.state = "RESET" /\ client'.rcv = client.rcv
      /\ client.rcv \in Nat /\ client.nxt \in Nat
  BY <1>1, <1>2 DEF ClientState
<1>4. flags \in SUBSET Flags /\ data \in Seq(Nat) /\ client'.rcv \in Nat
  BY <1>3 DEF Flags
<1>5. flags = {"RST"} /\ data = <<>>
  OBVIOUS
<1> HIDE DEF flags, data
<1>6. m \in Segments
  BY <1>3, <1>4, ClientSegment
<1>7. m.from = "client" /\ m.flags = flags /\ m.data = data /\ m.ack = client.rcv
  BY <1>3 DEF FromClient, Segment
<1> HIDE DEF m
<1> QED BY <1>1, <1>3, <1>5, <1>6, <1>7

LEMMA AbortTyped ==
  ASSUME TypeInv, ClientAbort
  PROVE  TypeInv'
<1>1. TypeOK
  BY DEF TypeInv
<1>2. /\ client.state = "OPEN" /\ client'.state = "RESET" /\ client' \in ClientState
      /\ ClientStep /\ seen' = seen /\ losses' = losses
  BY <1>1, AbortMoves
<1>3. PICK m \in Segments : /\ net' \subseteq net \union {m}
                            /\ m.from = "client" /\ m.flags = {"RST"}
  BY <1>1, AbortMoves
<1> DEFINE sent == {m}
<1>4. /\ sent \in SUBSET Segments /\ net' \subseteq net \union sent
      /\ \A k \in sent : k.from = "client" /\ ("SYN" \in k.flags => SynSegment(k))
  BY <1>3
<1> HIDE DEF sent
<1>5. state # "LISTEN" /\ seen' \in Seq(Nat)
  BY <1>1, <1>2 DEF TypeInv, TypeOK, Handshake
<1> QED BY <1>2, <1>4, <1>5, ClientStepTyped

\* A step of main's.
LEMMA MainStepTyped ==
  ASSUME TypeInv, UNCHANGED <<state, rx_buf_end, rx_buf, tx_buf_beg, receded>>,
         UNCHANGED clientVars, UNCHANGED netVars,
         due' \in BOOLEAN, retries' \in 0 .. RETRIES, rx_buf_beg' \in Nat,
         tx_buf_end' \in Nat, tx_buf' \in [0 .. TCP_TX_BUF_LEN -> Nat],
         taken' \in Seq(Nat), queued' \in Seq(Nat), asked' \in 0 .. Len(Reply),
         state \in {"ESTABLISHED", "LAST_ACK"}
  PROVE  TypeInv'
<1>1. UNCHANGED <<client, seen, net, losses>>
  BY DEF clientVars, netVars
<1>2. TypeOK'
  BY <1>1 DEF TypeInv, TypeOK
<1>3. Handshake'
  BY <1>1 DEF TypeInv, Handshake
<1> QED BY <1>2, <1>3 DEF TypeInv

LEMMA ReadTyped ==
  ASSUME TypeInv, sock_read
  PROVE  TypeInv'
<1> DEFINE n == Clip(1, Used(rx_buf_beg, rx_buf_end, TCP_RX_BUF_LEN))
           bytes == Fetch(rx_buf, rx_buf_beg, n, TCP_RX_BUF_LEN)
<1>1. /\ rx_buf_beg \in Int /\ rx_buf_end \in Int /\ TCP_RX_BUF_LEN \in Nat
      /\ rx_buf_beg \in Nat
  BY StreamAssumption DEF TypeInv, TypeOK
<1>2. n \in Nat
  <2> DEFINE used == Used(rx_buf_beg, rx_buf_end, TCP_RX_BUF_LEN)
  <2>1. used \in Nat
    BY <1>1, CountsBounded
  <2> HIDE DEF used
  <2>2. Clip(1, used) \in Nat
    BY <2>1, ClipBounded
  <2> QED BY <2>2 DEF used
<1>3. taken' = taken \o bytes /\ rx_buf_beg' = rx_buf_beg + n
  BY DEF sock_read
<1> HIDE DEF n
<1>4. bytes \in Seq(Nat)
  <2>1. rx_buf \in [0 .. TCP_RX_BUF_LEN -> Nat]
    BY DEF TypeInv, TypeOK
  <2> QED BY <1>1, <1>2, <2>1, FetchType
<1> HIDE DEF bytes
<1>5. taken' \in Seq(Nat) /\ rx_buf_beg' \in Nat
  <2>1. taken \in Seq(Nat)
    BY DEF TypeInv, TypeOK
  <2> QED BY <1>1, <1>2, <1>3, <1>4, <2>1, ConcatProperties
<1>6. /\ state \in {"ESTABLISHED", "LAST_ACK"}
      /\ UNCHANGED <<state, due, retries, rx_buf_end, rx_buf, tx_buf_beg, tx_buf_end, tx_buf>>
      /\ UNCHANGED <<asked, queued, receded, clientVars, netVars>>
  BY DEF sock_read, timer, txVars
<1> QED BY <1>5, <1>6, MainStepTyped DEF TypeInv, TypeOK

\* What sock_write does: it stores as many bytes as there is room for.
LEMMA WriteMoves ==
  ASSUME TypeOK, NEW len \in 1 .. Len(Reply) - asked, sock_write(len)
  PROVE  \E data \in Seq(Nat) :
           /\ Len(data) <= Room(tx_buf_beg, tx_buf_end, TCP_TX_BUF_LEN)
           /\ tx_buf_end' = tx_buf_end + Len(data)
           /\ tx_buf' = Fill(tx_buf, tx_buf_end, data, TCP_TX_BUF_LEN)
           /\ queued' = queued \o data
<1> DEFINE room == Room(tx_buf_beg, tx_buf_end, TCP_TX_BUF_LEN)
           n == Clip(len, room)
           data == SubSeq(Reply, asked + 1, asked + n)
<1>1. /\ tx_buf_beg \in Int /\ tx_buf_end \in Int /\ TCP_TX_BUF_LEN \in Nat
      /\ Reply \in Seq(Nat) /\ Len(Reply) \in Nat /\ asked \in Nat /\ len \in Nat
      /\ asked + len <= Len(Reply)
  <2>1. tx_buf_beg \in Int /\ tx_buf_end \in Int /\ TCP_TX_BUF_LEN \in Nat
    BY StreamAssumption DEF TypeOK
  <2>2. Reply \in Seq(Nat) /\ Len(Reply) \in Nat
    BY StreamAssumption
  <2> QED BY <2>1, <2>2 DEF TypeOK
<1>2. n \in Nat /\ n <= len /\ n <= room
  <2>1. room \in Nat
    <3>1. tx_buf_beg \in Int /\ tx_buf_end \in Int /\ TCP_TX_BUF_LEN \in Nat
      BY <1>1
    <3>2. room \in 0 .. TCP_TX_BUF_LEN
      BY <3>1, CountsBounded
    <3> HIDE DEF room
    <3> QED BY <3>1, <3>2
  <2> HIDE DEF room
  <2> QED BY <1>1, <2>1, ClipBounded
<1>3. /\ tx_buf' = Fill(tx_buf, tx_buf_end, data, TCP_TX_BUF_LEN)
      /\ tx_buf_end' = tx_buf_end + n
      /\ queued' = queued \o data
  BY DEF sock_write
<1> HIDE DEF n, room
<1>4. data \in Seq(Nat) /\ Len(data) = n
  <2>1. /\ data \in Seq(Nat)
        /\ Len(data) = IF asked + 1 <= asked + n THEN (asked + n) - (asked + 1) + 1 ELSE 0
    BY <1>1, <1>2, Piece
  <2> HIDE DEF data
  <2> QED BY <1>1, <1>2, <2>1
<1> HIDE DEF data
<1> QED BY <1>2, <1>3, <1>4 DEF room

LEMMA WriteTyped ==
  ASSUME TypeInv, NEW len \in 1 .. Len(Reply) - asked, sock_write(len)
  PROVE  TypeInv'
<1>1. PICK data \in Seq(Nat) :
        /\ tx_buf_end' = tx_buf_end + Len(data)
        /\ tx_buf' = Fill(tx_buf, tx_buf_end, data, TCP_TX_BUF_LEN)
        /\ queued' = queued \o data
  BY WriteMoves DEF TypeInv
<1>2. tx_buf_end' \in Nat /\ tx_buf' \in [0 .. TCP_TX_BUF_LEN -> Nat] /\ queued' \in Seq(Nat)
  <2>1. /\ tx_buf_end \in Nat /\ tx_buf_end \in Int /\ TCP_TX_BUF_LEN \in Nat
        /\ tx_buf \in [0 .. TCP_TX_BUF_LEN -> Nat]
        /\ queued \in Seq(Nat) /\ Len(data) \in Nat
    BY StreamAssumption, SMTT(30) DEF TypeInv, TypeOK
  <2>2. tx_buf_end' \in Nat
    BY <1>1, <2>1
  <2>3. Fill(tx_buf, tx_buf_end, data, TCP_TX_BUF_LEN) \in [0 .. TCP_TX_BUF_LEN -> Nat]
    BY <2>1, FillType
  <2>4. queued' \in Seq(Nat)
    BY <1>1, <2>1, ConcatProperties
  <2> QED BY <1>1, <2>2, <2>3, <2>4
<1>3. /\ state = "ESTABLISHED"
      /\ UNCHANGED <<state, rx_buf_beg, rx_buf_end, rx_buf, tx_buf_beg, taken, receded>>
      /\ UNCHANGED <<clientVars, netVars>>
      /\ asked' = asked + len
  BY DEF sock_write, rxVars
<1>4. due' \in BOOLEAN /\ retries' \in 0 .. RETRIES
  <2>1. (due' = TRUE /\ retries' = 0) \/ (due' = due /\ retries' = retries)
    <3> DEFINE n == Clip(len, Room(tx_buf_beg, tx_buf_end, TCP_TX_BUF_LEN))
    <3>1. IF n > 0 THEN due' = TRUE /\ retries' = 0 ELSE UNCHANGED timer
      BY DEF sock_write
    <3> HIDE DEF n
    <3> QED BY <3>1 DEF timer
  <2>2. due \in BOOLEAN /\ retries \in 0 .. RETRIES /\ 0 \in 0 .. RETRIES
    BY StreamAssumption DEF TypeInv, TypeOK
  <2> QED BY <2>1, <2>2
<1>5. asked' \in 0 .. Len(Reply)
  <2>1. Len(Reply) \in Nat
    BY StreamAssumption
  <2> QED BY <1>3, <2>1 DEF TypeInv, TypeOK
<1> QED BY <1>2, <1>3, <1>4, <1>5, MainStepTyped DEF TypeInv, TypeOK

\* A step that changes nothing but the clock, or what is on its way.
LEMMA OtherTyped ==
  ASSUME TypeInv, UNCHANGED <<state, retries, rxVars, txVars, mainVars, receded, clientVars>>,
         due' \in BOOLEAN, net' \subseteq net, losses' \in 0 .. LOSSES
  PROVE  TypeInv'
<1>1. /\ UNCHANGED <<state, retries, rx_buf_beg, rx_buf_end, rx_buf>>
      /\ UNCHANGED <<tx_buf_beg, tx_buf_end, tx_buf, taken, asked, queued, receded>>
      /\ UNCHANGED <<client, seen>>
  BY DEF rxVars, txVars, mainVars, clientVars
<1>2. TypeOK'
  BY <1>1 DEF TypeInv, TypeOK
<1>3. Handshake'
  BY <1>1 DEF TypeInv, Handshake
<1> QED BY <1>2, <1>3 DEF TypeInv

\* A segment that is not taken.
LEMMA RecvNothingTyped ==
  ASSUME TypeInv, NEW m \in net, RecvNothing(m), UNCHANGED <<mainVars, clientVars>>
  PROVE  TypeInv'
<1>1. net' \subseteq net \union {} /\ losses' = losses
  BY NetGrows DEF RecvNothing
<1>2. UNCHANGED <<state, retries, rxVars, txVars, mainVars, receded, clientVars>>
      /\ due' = due
  BY DEF RecvNothing, timer
<1>3. due' \in BOOLEAN /\ losses' \in 0 .. LOSSES /\ net' \subseteq net
  BY <1>1, <1>2 DEF TypeInv, TypeOK
<1> QED BY <1>2, <1>3, OtherTyped

LEMMA TcpRecvTyped ==
  ASSUME TypeInv, tcp_recv
  PROVE  TypeInv'
<1>1. PICK m \in net :
        /\ m.from = "client"
        /\ \/ RecvSyn(m) \/ RecvHandshakeAck(m) \/ RecvEstablished(m)
           \/ RecvLastAck(m) \/ RecvNothing(m)
  BY DEF tcp_recv
<1>2. UNCHANGED <<mainVars, clientVars>>
  BY DEF tcp_recv
<1>3. CASE RecvSyn(m)
  BY <1>1, <1>2, <1>3, RecvSynTyped
<1>4. CASE RecvHandshakeAck(m)
  <2>1. /\ Store(m) /\ state' = "ESTABLISHED" /\ due' = TRUE /\ retries' = 0
        /\ tx_buf_beg' = m.ack /\ UNCHANGED <<tx_buf_end, tx_buf>> /\ receded' = receded
    BY <1>4 DEF RecvHandshakeAck
  <2>2. /\ receded' \in BOOLEAN /\ due' \in BOOLEAN /\ retries' \in 0 .. RETRIES
        /\ tx_buf_beg' \in Nat
    BY <2>1, StreamAssumption DEF TypeInv, TypeOK, Segments
  <2> QED BY <1>2, <2>1, <2>2, StoreTyped
<1>5. CASE RecvEstablished(m)
  <2>1. TypeOK
    BY DEF TypeInv
  <2> QED BY <1>2, <1>5, <2>1, EstablishedMoves, StoreTyped
<1>6. CASE RecvLastAck(m)
  BY <1>2, <1>6, RecvLastAckTyped
<1>7. CASE RecvNothing(m)
  BY <1>2, <1>7, RecvNothingTyped
<1> QED BY <1>1, <1>3, <1>4, <1>5, <1>6, <1>7

LEMMA ClientReceivesTyped ==
  ASSUME TypeInv, ClientReceives
  PROVE  TypeInv'
BY ClientRecvSynAckTyped, ClientRecvTyped, ClientRecvAgainTyped, ClientRecvResetTyped
DEF ClientReceives

LEMMA TypeStep ==
  ASSUME TypeInv, [Next]_vars
  PROVE  TypeInv'
<1>1. CASE tcp_recv
  BY <1>1, TcpRecvTyped
<1>2. CASE tcp_set_state
  BY <1>2, SetStateTyped
<1>3. CASE Elapse
  <2>1. due' = TRUE /\ net' = net /\ losses' = losses
        /\ UNCHANGED <<state, retries, rxVars, txVars, mainVars, receded, clientVars>>
    BY <1>3 DEF Elapse, netVars
  <2>2. due' \in BOOLEAN /\ losses' \in 0 .. LOSSES /\ net' \subseteq net
    BY <2>1 DEF TypeInv, TypeOK
  <2> QED BY <2>1, <2>2, OtherTyped
<1>4. CASE sock_read
  BY <1>4, ReadTyped
<1>5. CASE Write
  BY <1>5, WriteTyped DEF Write
<1>6. CASE Connect
  BY <1>6, ConnectTyped
<1>7. CASE ClientReceives
  BY <1>7, ClientReceivesTyped
<1>8. CASE ClientSends
  BY <1>8, ClientSendTyped DEF ClientSends
<1>9. CASE \E m \in net : Lose(m)
  <2>1. PICK m \in net : Lose(m)
    BY <1>9
  <2>2. /\ net' \subseteq net /\ losses < LOSSES /\ losses' = losses + 1 /\ due' = due
        /\ UNCHANGED <<state, retries, rxVars, txVars, mainVars, receded, clientVars>>
    BY <2>1 DEF Lose, timer
  <2>3. due' \in BOOLEAN /\ losses' \in 0 .. LOSSES
    BY <2>2, StreamAssumption DEF TypeInv, TypeOK
  <2> QED BY <2>2, <2>3, OtherTyped
<1>10. CASE ClientAbort
  BY <1>10, AbortTyped
<1>11. CASE UNCHANGED vars
  BY <1>11 DEF vars, TypeInv, TypeOK, Handshake
<1> QED BY <1>1, <1>2, <1>3, <1>4, <1>5, <1>6, <1>7, <1>8, <1>9, <1>10, <1>11 DEF Next

LEMMA TypeInit ==
  ASSUME Init
  PROVE  TypeInv
<1>1. client \in ClientState /\ client.state = "CLOSED"
  BY StreamAssumption DEF Init, ClientState
<1>2. /\ taken = <<>> /\ queued = <<>> /\ seen = <<>> /\ <<>> \in Seq(Nat)
      /\ asked \in 0 .. Len(Reply)
  BY StreamAssumption DEF Init
<1>3. /\ state \in States /\ due \in BOOLEAN /\ retries \in 0 .. RETRIES
      /\ receded \in BOOLEAN /\ net \subseteq Segments /\ losses \in 0 .. LOSSES
  <2>1. 0 \in 0 .. RETRIES /\ 0 \in 0 .. LOSSES
    BY StreamAssumption
  <2>2. /\ state = "LISTEN" /\ due = TRUE /\ retries = 0 /\ receded = FALSE /\ net = {}
        /\ losses = 0
    BY DEF Init
  <2> QED BY <2>1, <2>2 DEF States
<1>4. /\ rx_buf_beg \in Nat /\ rx_buf_end \in Nat /\ rx_buf \in [0 .. TCP_RX_BUF_LEN -> Nat]
      /\ tx_buf_beg \in Nat /\ tx_buf_end \in Nat /\ tx_buf \in [0 .. TCP_TX_BUF_LEN -> Nat]
  BY DEF Init
<1>5. TypeOK
  BY <1>1, <1>2, <1>3, <1>4 DEF TypeOK
<1>6. Handshake
  BY <1>1, <1>2 DEF Init, Handshake
<1> QED BY <1>5, <1>6 DEF TypeInv

LEMMA TypeInvariant == Spec => []TypeInv
BY TypeInit, TypeStep, PTL DEF Spec

\* Every variable keeps its type: the rings never grow, and no count becomes negative,
\* whatever acknowledgement a segment carries (tcp.c, sock.c).
THEOREM StreamTypeCorrect == Spec => []TypeOK
<1>1. TypeInv => TypeOK
  BY DEF TypeInv
<1> QED BY <1>1, TypeInvariant, PTL

-----------------------------------------------------------------------------
(* The request arrives unchanged.                                          *)

LEMMA Numbers ==
  /\ First \in Nat /\ FinSeq \in Nat /\ FinSeq = First + Len(Request)
  /\ Request \in Seq(Nat) /\ Len(Request) \in Nat
  /\ TCP_RX_BUF_LEN \in Nat /\ TCP_TX_BUF_LEN \in Nat
  /\ Base \in Nat /\ ISS \in Nat
BY StreamAssumption DEF First, FinSeq, Base

\* The receive ring between beg and end holds the request.
RxHolds(beg, end, ring) ==
  /\ First <= beg /\ beg <= end /\ end <= FinSeq
  /\ end - beg <= TCP_RX_BUF_LEN
  /\ \A n \in beg .. end - 1 :
       ring[Slot(n, TCP_RX_BUF_LEN)] = Request[n - First + 1]

LEMMA RequestParts ==
  RequestInv <=>
    /\ state # "LISTEN" =>
         /\ RxHolds(rx_buf_beg, rx_buf_end, rx_buf)
         /\ taken = SubSeq(Request, 1, rx_buf_beg - First)
    /\ \A m \in net : m.from = "client" /\ m.data # <<>> => Carried(m)
BY DEF RequestInv, RequestIntact, RxHolds

\* A step that leaves the receive ring and what main has read alone.
LEMMA RequestKept ==
  ASSUME TypeInv, RequestInv, UNCHANGED <<rx_buf_beg, rx_buf_end, rx_buf, taken>>,
         state # "LISTEN" \/ state' = "LISTEN",
         NEW sent, net' \subseteq net \union sent,
         \A m \in sent : m.from = "client" /\ m.data # <<>> => Carried(m)
  PROVE  RequestInv'
BY DEF RequestInv, RequestIntact, Carried

LEMMA RecvSynRequest ==
  ASSUME TypeInv, RequestInv, NEW m \in net, m.from = "client", RecvSyn(m),
         UNCHANGED mainVars
  PROVE  RequestInv'
<1>1. m.seq = IRS /\ taken = <<>> /\ taken' = taken
  BY DEF TypeInv, Handshake, RecvSyn, SynSegment, mainVars
<1>2. rx_buf_beg' = First /\ rx_buf_end' = First
  BY <1>1 DEF RecvSyn, First
<1>3. taken' = SubSeq(Request, 1, rx_buf_beg' - First)
  <2>1. First - First = 0
    BY Numbers
  <2>2. SubSeq(Request, 1, 0) = <<>>
    BY SubSeqEmpty
  <2> QED BY <1>1, <1>2, <2>1, <2>2
<1>4. RxHolds(rx_buf_beg', rx_buf_end', rx_buf')
  BY <1>2, Numbers DEF RxHolds
<1>5. net' \subseteq net
  BY NetGrows DEF RecvSyn
<1>6. RequestInv'
  BY <1>3, <1>4, <1>5 DEF RequestInv, RequestIntact, RxHolds, Carried
<1> QED BY <1>6

\* The ring after a segment was stored that begins at rx_buf_end.
LEMMA RxFilled ==
  ASSUME NEW beg \in Nat, NEW end \in Nat, NEW ring, RxHolds(beg, end, ring),
         NEW m \in Segments, m.seq = end, m.data # <<>> => Carried(m),
         NEW n \in Nat, n <= Len(m.data), n <= TCP_RX_BUF_LEN - (end - beg)
  PROVE  RxHolds(beg, end + n,
                 Fill(ring, end, SubSeq(m.data, 1, n), TCP_RX_BUF_LEN))
<1> DEFINE bytes == SubSeq(m.data, 1, n)
           full == Fill(ring, end, bytes, TCP_RX_BUF_LEN)
<1>1. m.data \in Seq(Nat) /\ Len(m.data) \in Nat
  BY DEF Segments
<1>2. /\ bytes \in Seq(Nat) /\ Len(bytes) = n
      /\ \A i \in 1 .. n : bytes[i] = m.data[i]
  <2>1. /\ bytes \in Seq(Nat)
        /\ Len(bytes) = IF 1 <= n THEN n - 1 + 1 ELSE 0
        /\ \A i \in 1 .. n - 1 + 1 : bytes[i] = m.data[1 + i - 1]
    BY <1>1, Piece
  <2> HIDE DEF bytes
  <2> QED BY <2>1
<1> HIDE DEF bytes
<1>3. First <= beg /\ beg <= end /\ end <= FinSeq /\ end - beg <= TCP_RX_BUF_LEN
  BY DEF RxHolds
<1>4. end + n <= FinSeq /\ end + n - beg <= TCP_RX_BUF_LEN /\ beg <= end + n
  <2>1. CASE m.data = <<>>
    <3>1. n = 0
      BY <2>1
    <3> QED BY <1>3, <3>1, Numbers
  <2>2. CASE m.data # <<>>
    BY <1>1, <1>3, <2>2, Numbers DEF Carried
  <2> QED BY <2>1, <2>2
<1>5. ASSUME NEW k \in beg .. end + n - 1
      PROVE  full[Slot(k, TCP_RX_BUF_LEN)] = Request[k - First + 1]
  <2>1. CASE k < end
    <3>1. full[Slot(k, TCP_RX_BUF_LEN)] = ring[Slot(k, TCP_RX_BUF_LEN)]
      <4>1. k < end /\ end - k + Len(bytes) <= TCP_RX_BUF_LEN + 1
        BY <1>2, <1>3, <1>4, <2>1, Numbers, SMTT(30)
      <4>2. k \in Int /\ end \in Int
        OBVIOUS
      <4> QED BY <1>2, <4>1, <4>2, Numbers, FillStores
    <3>2. k \in beg .. end - 1
      BY <2>1
    <3> QED BY <3>1, <3>2 DEF RxHolds
  <2>2. CASE end <= k
    <3>1. full[Slot(k, TCP_RX_BUF_LEN)] = bytes[k - end + 1]
      <4>1. end <= k /\ k - end < Len(bytes) /\ Len(bytes) <= TCP_RX_BUF_LEN + 1
        BY <1>2, <1>3, <1>4, <2>2, Numbers, SMTT(30)
      <4>2. k \in Int /\ end \in Int
        OBVIOUS
      <4>3. bytes \in Seq(Nat) /\ TCP_RX_BUF_LEN \in Nat
        BY <1>2, Numbers
      <4>4. Fill(ring, end, bytes, TCP_RX_BUF_LEN)[Slot(k, TCP_RX_BUF_LEN)] = bytes[k - end + 1]
        BY <4>1, <4>2, <4>3, FillStores
      <4> QED BY <4>4
    <3>2. k - end + 1 \in 1 .. n /\ k - end + 1 \in 1 .. Len(m.data)
      BY <1>1, <2>2
    <3>3. m.data # <<>>
      BY <3>2
    <3>4. m.data[k - end + 1] = Request[m.seq - First + (k - end + 1)]
      BY <3>2, <3>3 DEF Carried
    <3>5. m.seq - First + (k - end + 1) = k - First + 1
      BY Numbers
    <3> QED BY <1>2, <3>1, <3>2, <3>4, <3>5
  <2> QED BY <2>1, <2>2
<1> HIDE DEF full
<1>6. RxHolds(beg, end + n, full)
  BY <1>3, <1>4, <1>5 DEF RxHolds
<1> QED BY <1>6 DEF full, bytes

LEMMA StoreRequest ==
  ASSUME TypeInv, RequestInv, NEW m \in net, m.from = "client", Store(m),
         state # "LISTEN", m.seq = rx_buf_end, tx_buf_beg' \in Nat, UNCHANGED mainVars
  PROVE  RequestInv'
<1>1. m \in Segments /\ m.ack \in Nat /\ TypeOK
  BY DEF TypeInv, TypeOK, Segments
<1>0. PICK n \in Nat : Stores(m, n)
  BY <1>1, StoreMoves
<1>2. /\ n = Clip(Len(m.data), Room(rx_buf_beg, rx_buf_end, TCP_RX_BUF_LEN))
      /\ n <= Len(m.data) /\ n <= Room(rx_buf_beg, rx_buf_end, TCP_RX_BUF_LEN)
      /\ rx_buf_beg' = rx_buf_beg
      /\ rx_buf_end' = rx_buf_end + n
      /\ SubSeq(m.data, 1, n) \in Seq(Nat)
      /\ rx_buf' = Fill(rx_buf, rx_buf_end, SubSeq(m.data, 1, n), TCP_RX_BUF_LEN)
      /\ rx_buf' \in [0 .. TCP_RX_BUF_LEN -> Nat]
      /\ net' \subseteq net \union {tcp_send({"ACK"}, <<>>)}
      /\ losses' = losses
  BY <1>0 DEF Stores
<1>3. rx_buf_beg \in Nat /\ rx_buf_end \in Nat /\ rx_buf_beg' \in Nat /\ rx_buf_end' \in Nat
  <2>1. rx_buf_beg \in Nat /\ rx_buf_end \in Nat
    BY <1>1 DEF TypeOK
  <2>2. rx_buf_beg' = rx_buf_beg /\ rx_buf_end' = rx_buf_end + n
    BY <1>2
  <2> QED BY <2>1, <2>2
<1>4. /\ RxHolds(rx_buf_beg, rx_buf_end, rx_buf)
      /\ taken = SubSeq(Request, 1, rx_buf_beg - First)
      /\ m.data # <<>> => Carried(m)
  BY RequestParts
<1>5. Room(rx_buf_beg, rx_buf_end, TCP_RX_BUF_LEN) = TCP_RX_BUF_LEN - (rx_buf_end - rx_buf_beg)
  <2>1. /\ rx_buf_beg \in Int /\ rx_buf_end \in Int /\ rx_buf_beg <= rx_buf_end
        /\ rx_buf_end - rx_buf_beg <= TCP_RX_BUF_LEN
    BY <1>3, <1>4 DEF RxHolds
  <2> QED BY <2>1, Numbers, UsedAndRoom, ZenonT(60)
<1>6. RxHolds(rx_buf_beg', rx_buf_end', rx_buf')
  <2>1. n <= TCP_RX_BUF_LEN - (rx_buf_end - rx_buf_beg) /\ n <= Len(m.data)
    BY <1>2, <1>5
  <2>2. RxHolds(rx_buf_beg, rx_buf_end + n,
                Fill(rx_buf, rx_buf_end, SubSeq(m.data, 1, n), TCP_RX_BUF_LEN))
    BY <1>1, <1>3, <1>4, <2>1, RxFilled
  <2> QED BY <1>2, <2>2
<1>7. taken' = SubSeq(Request, 1, rx_buf_beg' - First)
  BY <1>2, <1>4 DEF mainVars
<1>8. \A k \in net' : k.from = "client" /\ k.data # <<>> => Carried(k)
  <2>1. tcp_send({"ACK"}, <<>>).from = "server"
    BY <1>1, <1>3, PlainSent
  <2>2. \A k \in net : k.from = "client" /\ k.data # <<>> => Carried(k)
    BY RequestParts
  <2> HIDE DEF RequestInv
  <2> QED BY <1>2, <2>1, <2>2
<1> QED BY <1>6, <1>7, <1>8 DEF RequestInv, RequestIntact, RxHolds, Carried

\* One byte more has been read.
LEMMA OneMore ==
  ASSUME NEW s \in Seq(Nat), NEW k \in Nat, k < Len(s)
  PROVE  SubSeq(s, 1, k) \o <<s[k + 1]>> = SubSeq(s, 1, k + 1)
<1>1. k + 1 \in 1 .. Len(s) /\ 1 \in 1 .. Len(s) /\ k + 1 - 1 = k
  OBVIOUS
<1>2. SubSeq(s, 1, k + 1) = SubSeq(s, 1, (k + 1) - 1) \o <<s[k + 1]>>
  BY <1>1, SubSeqRecursiveSecond
<1> QED BY <1>1, <1>2

LEMMA ReadRequest ==
  ASSUME TypeInv, RequestInv, sock_read
  PROVE  RequestInv'
<1> DEFINE n == Clip(1, Used(rx_buf_beg, rx_buf_end, TCP_RX_BUF_LEN))
           bytes == Fetch(rx_buf, rx_buf_beg, n, TCP_RX_BUF_LEN)
           k == rx_buf_beg - First
<1>1. /\ rx_buf_beg \in Nat /\ rx_buf_end \in Nat /\ rx_buf_beg # rx_buf_end
      /\ rx_buf \in [0 .. TCP_RX_BUF_LEN -> Nat] /\ state # "LISTEN"
  BY DEF TypeInv, TypeOK, sock_read
<1>2. /\ RxHolds(rx_buf_beg, rx_buf_end, rx_buf)
      /\ taken = SubSeq(Request, 1, rx_buf_beg - First)
  BY <1>1, RequestParts
<1>3. First <= rx_buf_beg /\ rx_buf_beg < rx_buf_end /\ rx_buf_end <= FinSeq
      /\ rx_buf_end - rx_buf_beg <= TCP_RX_BUF_LEN
  BY <1>1, <1>2 DEF RxHolds
<1>4. n = 1
  <2>1. /\ rx_buf_beg \in Int /\ rx_buf_end \in Int /\ rx_buf_beg <= rx_buf_end
        /\ rx_buf_end - rx_buf_beg <= TCP_RX_BUF_LEN
    BY <1>1, <1>3
  <2>2. Used(rx_buf_beg, rx_buf_end, TCP_RX_BUF_LEN) = rx_buf_end - rx_buf_beg
    BY <2>1, Numbers, UsedAndRoom, ZenonT(60)
  <2> QED BY <1>1, <1>3, <2>2 DEF Clip
<1>5. taken' = taken \o bytes /\ rx_buf_beg' = rx_buf_beg + n
  BY DEF sock_read
<1>6. bytes = <<Request[k + 1]>>
  <2>1. bytes = <<rx_buf[Slot(rx_buf_beg + 1 - 1, TCP_RX_BUF_LEN)]>>
    BY <1>4 DEF Fetch
  <2>2. rx_buf_beg \in rx_buf_beg .. rx_buf_end - 1 /\ rx_buf_beg + 1 - 1 = rx_buf_beg
    BY <1>1, <1>3
  <2>3. rx_buf[Slot(rx_buf_beg, TCP_RX_BUF_LEN)] = Request[k + 1]
    BY <1>2, <2>2 DEF RxHolds
  <2> QED BY <2>1, <2>2, <2>3
<1> HIDE DEF n, bytes
<1>7. taken' = SubSeq(Request, 1, rx_buf_beg' - First)
  <2>1. k \in Nat /\ k < Len(Request)
    BY <1>1, <1>3, Numbers
  <2>2. rx_buf_beg' - First = k + 1
    BY <1>1, <1>4, <1>5, Numbers
  <2> HIDE DEF k
  <2>3. SubSeq(Request, 1, k) \o <<Request[k + 1]>> = SubSeq(Request, 1, k + 1)
    BY <2>1, Numbers, OneMore
  <2> QED BY <1>2, <1>5, <1>6, <2>2, <2>3 DEF k
<1>8. RxHolds(rx_buf_beg', rx_buf_end, rx_buf)
  <2>1. rx_buf_beg' = rx_buf_beg + 1 /\ First \in Nat
    BY <1>4, <1>5, Numbers
  <2> QED BY <1>1, <1>2, <1>3, <2>1, Numbers DEF RxHolds
<1>9. rx_buf_end' = rx_buf_end /\ rx_buf' = rx_buf /\ net' = net
  BY DEF sock_read, netVars
<1> QED BY <1>7, <1>8, <1>9 DEF RequestInv, RequestIntact, RxHolds, Carried

\* Segments of the server, and those of the client without data, do not count.
LEMMA RequestNeutral ==
  ASSUME TypeInv, RequestInv, UNCHANGED <<rx_buf_beg, rx_buf_end, rx_buf, taken>>,
         state # "LISTEN" \/ state' = "LISTEN",
         NEW sent, net' \subseteq net \union sent,
         \A m \in sent : m.from = "server" \/ m.data = <<>>
  PROVE  RequestInv'
<1>1. \A m \in sent : m.from = "client" /\ m.data # <<>> => Carried(m)
  OBVIOUS
<1> QED BY <1>1, RequestKept

LEMMA SetStateSends ==
  ASSUME TypeInv, tcp_set_state
  PROVE  /\ state \in {"SYN_REC", "ESTABLISHED", "LAST_ACK"}
         /\ UNCHANGED <<rx_buf_beg, rx_buf_end, rx_buf, tx_buf_beg, tx_buf_end, tx_buf>>
         /\ UNCHANGED <<taken, asked, queued, receded, client, seen>>
         /\ \/ state' = state /\ net' \subseteq net \union Again
            \/ state' = "CLOSED" /\ net' \subseteq net \union {tcp_send({"RST", "ACK"}, <<>>)}
BY NetGrows DEF tcp_set_state, rxVars, txVars, mainVars, clientVars

LEMMA SetStateRequest ==
  ASSUME TypeInv, RequestInv, tcp_set_state
  PROVE  RequestInv'
<1>1. /\ state \in {"SYN_REC", "ESTABLISHED", "LAST_ACK"}
      /\ UNCHANGED <<rx_buf_beg, rx_buf_end, rx_buf, tx_buf_beg, taken>>
      /\ \/ state' = state /\ net' \subseteq net \union Again
         \/ state' = "CLOSED" /\ net' \subseteq net \union {tcp_send({"RST", "ACK"}, <<>>)}
  BY SetStateSends
<1>2. rx_buf_beg' \in Nat /\ rx_buf_end' \in Nat /\ tx_buf_beg' \in Nat /\ TypeOK
  BY <1>1 DEF TypeInv, TypeOK
<1>3. \A m \in Again : m.from = "server"
  <2>1. UNCHANGED <<rxVars, txVars>>
    BY DEF tcp_set_state
  <2> QED BY <1>1, <1>2, <2>1, AgainSends
<1>4. tcp_send({"RST", "ACK"}, <<>>).from = "server"
  BY <1>2, PlainSent
<1>5. CASE state' = state /\ net' \subseteq net \union Again
  BY <1>1, <1>3, <1>5, RequestNeutral
<1>6. CASE state' = "CLOSED" /\ net' \subseteq net \union {tcp_send({"RST", "ACK"}, <<>>)}
  <2> DEFINE sent == {tcp_send({"RST", "ACK"}, <<>>)}
  <2>1. net' \subseteq net \union sent /\ \A m \in sent : m.from = "server"
    BY <1>4, <1>6
  <2> HIDE DEF sent
  <2> QED BY <1>1, <2>1, RequestNeutral
<1> QED BY <1>1, <1>5, <1>6

LEMMA ClientSendRequest ==
  ASSUME TypeInv, RequestInv, NEW start \in {client.una, client.nxt},
         NEW end \in First .. FinSeq, NEW fin \in BOOLEAN, start <= end,
         ClientSend(start, end, fin)
  PROVE  RequestInv'
<1>1. PICK flags, data : ClientSent(start, end, fin, flags, data)
  BY ClientSendMoves
<1> DEFINE sent == {FromClient(flags, start, data)}
<1>2. /\ flags = (IF fin THEN {"ACK", "FIN"} ELSE {"ACK"})
      /\ data \in Seq(Nat) /\ Len(data) = end - start
      /\ \A i \in 1 .. Len(data) : data[i] = Request[start - First + i]
      /\ start \in Nat /\ First <= start /\ end \in Nat /\ client' \in ClientState
      /\ net' \subseteq net \union sent /\ ClientStep
  BY <1>1 DEF ClientSent
<1>3. flags = {"ACK"} \/ flags = {"ACK", "FIN"}
  BY <1>2
<1>4. FromClient(flags, start, data).seq = start /\ FromClient(flags, start, data).data = data
  BY <1>2, <1>3, ClientSegmentTyped
<1>5. Carried(FromClient(flags, start, data))
  <2>1. start + Len(data) <= FinSeq
    BY <1>2, Numbers
  <2> QED BY <1>2, <1>4, <2>1 DEF Carried
<1>6. \A m \in sent : m.from = "client" /\ m.data # <<>> => Carried(m)
  BY <1>5
<1>7. UNCHANGED <<rx_buf_beg, rx_buf_end, rx_buf, taken>> /\ state' = state
  BY <1>2 DEF ClientStep, rxVars, mainVars
<1> HIDE DEF sent
<1> QED BY <1>2, <1>6, <1>7, RequestKept

\* What the client answers carries no data.
LEMMA ClientReceivesSends ==
  ASSUME TypeInv, ClientReceives
  PROVE  /\ ClientStep
         /\ \E seq : net' \subseteq net \union {FromClient({"ACK"}, seq, <<>>)}
<1>1. PICK m \in net : \/ ClientRecvSynAck(m) \/ ClientRecv(m)
                       \/ ClientRecvAgain(m)  \/ ClientRecvReset(m)
  BY DEF ClientReceives
<1>2. CASE ClientRecvSynAck(m)
  BY <1>2, NetGrows DEF ClientRecvSynAck
<1>3. CASE ClientRecv(m)
  BY <1>3, NetGrows DEF ClientRecv
<1>4. CASE ClientRecvAgain(m)
  BY <1>4, NetGrows DEF ClientRecvAgain
<1>5. CASE ClientRecvReset(m)
  BY <1>5, NetGrows DEF ClientRecvReset
<1> QED BY <1>1, <1>2, <1>3, <1>4, <1>5

LEMMA RequestStep ==
  ASSUME TypeInv, RequestInv, [Next]_vars
  PROVE  RequestInv'
<1>1. CASE tcp_recv
  <2>1. PICK m \in net :
          /\ m.from = "client"
          /\ \/ RecvSyn(m) \/ RecvHandshakeAck(m) \/ RecvEstablished(m)
             \/ RecvLastAck(m) \/ RecvNothing(m)
    BY <1>1 DEF tcp_recv
  <2>2. UNCHANGED mainVars
    BY <1>1 DEF tcp_recv
  <2>3. CASE RecvSyn(m)
    BY <2>1, <2>2, <2>3, RecvSynRequest
  <2>4. CASE RecvHandshakeAck(m) \/ RecvEstablished(m)
    <3>1. TypeOK /\ m.ack \in Nat
      BY DEF TypeInv, TypeOK, Segments
    <3>2. Store(m) /\ state # "LISTEN" /\ m.seq = rx_buf_end /\ tx_buf_beg' \in Nat
      BY <2>4, <3>1, EstablishedMoves DEF RecvHandshakeAck
    <3> QED BY <2>1, <2>2, <3>2, StoreRequest
  <2>5. CASE RecvLastAck(m) \/ RecvNothing(m)
    <3> DEFINE sent == {}
    <3>1. /\ UNCHANGED <<rx_buf_beg, rx_buf_end, rx_buf, taken>>
          /\ state' = state \/ (state = "LAST_ACK" /\ state' = "CLOSED")
          /\ net' \subseteq net \union sent
      BY <2>2, <2>5, NetGrows DEF RecvLastAck, RecvNothing, rxVars, mainVars
    <3>2. \A k \in sent : k.from = "server" \/ k.data = <<>>
      OBVIOUS
    <3> HIDE DEF sent
    <3>3. state # "LISTEN" \/ state' = "LISTEN"
      BY <3>1
    <3> QED BY <3>1, <3>2, <3>3, RequestNeutral
  <2> QED BY <2>1, <2>3, <2>4, <2>5
<1>2. CASE tcp_set_state
  BY <1>2, SetStateRequest
<1>3. CASE sock_read
  BY <1>3, ReadRequest
<1>4. CASE Connect \/ ClientReceives \/ ClientAbort
  <2>1. ClientStep
    BY <1>4, ClientReceivesSends DEF Connect, ClientAbort
  <2>2. PICK sent : net' \subseteq net \union sent /\ \A m \in sent : m.data = <<>>
    <3>1. CASE Connect
      <4> DEFINE sent == {Segment("client", {"SYN"}, IRS, 0, 0, <<>>)}
      <4>1. net' \subseteq net \union sent
        BY <3>1, NetGrows DEF Connect
      <4>2. \A m \in sent : m.data = <<>>
        BY DEF Segment
      <4> HIDE DEF sent
      <4> QED BY <4>1, <4>2
    <3>2. CASE ClientReceives
      <4>1. PICK seq : net' \subseteq net \union {FromClient({"ACK"}, seq, <<>>)}
        BY <3>2, ClientReceivesSends
      <4> DEFINE sent == {FromClient({"ACK"}, seq, <<>>)}
      <4>2. net' \subseteq net \union sent /\ \A m \in sent : m.data = <<>>
        BY <4>1 DEF FromClient, Segment
      <4> HIDE DEF sent
      <4> QED BY <4>2
    <3>3. CASE ClientAbort
      <4>1. TypeOK
        BY DEF TypeInv
      <4>2. PICK m : net' \subseteq net \union {m} /\ m.data = <<>>
        BY <3>3, <4>1, AbortMoves
      <4> DEFINE sent == {m}
      <4>3. net' \subseteq net \union sent /\ \A k \in sent : k.data = <<>>
        BY <4>2
      <4> HIDE DEF sent
      <4> QED BY <4>3
    <3> QED BY <1>4, <3>1, <3>2, <3>3
  <2>3. UNCHANGED <<rx_buf_beg, rx_buf_end, rx_buf, taken>> /\ state' = state
    BY <2>1 DEF ClientStep, rxVars, mainVars
  <2>4. state # "LISTEN" \/ state' = "LISTEN"
    BY <2>3
  <2> QED BY <2>2, <2>3, <2>4, RequestNeutral
<1>5. CASE ClientSends
  BY <1>5, ClientSendRequest DEF ClientSends
<1>6. CASE Elapse \/ Write \/ (\E m \in net : Lose(m)) \/ UNCHANGED vars
  <2>1. UNCHANGED <<rx_buf_beg, rx_buf_end, rx_buf, taken>> /\ state' = state
        /\ net' \subseteq net
    BY <1>6 DEF Elapse, Write, sock_write, Lose, vars, rxVars, mainVars, netVars
  <2> QED BY <2>1 DEF RequestInv, RequestIntact, Carried
<1> QED BY <1>1, <1>2, <1>3, <1>4, <1>5, <1>6 DEF Next

LEMMA RequestInit ==
  ASSUME Init
  PROVE  RequestInv
BY DEF Init, RequestInv, RequestIntact

\* What main reads is what the client sent, in order, for every request, every ring and
\* every order in which a network delivers, repeats or loses the segments (tcp.c 339,
\* 374-407; sock.c 179-209).
THEOREM RequestReadInOrder == Spec => []RequestIntact
<1>1. RequestInv => RequestIntact
  BY DEF RequestInv
<1>2. Init => RequestInv
  BY RequestInit
<1>3. TypeInv /\ RequestInv /\ [Next]_vars => RequestInv'
  BY RequestStep
<1> QED BY <1>1, <1>2, <1>3, TypeInvariant, PTL DEF Spec

-----------------------------------------------------------------------------
(* What is acknowledged is stored.                                         *)

LEMMA StoredStays ==
  ASSUME NEW a \in Nat, NEW end \in Nat, NEW next \in Nat, Stored(a, end),
         next = end \/ (end <= next /\ next <= FinSeq)
  PROVE  Stored(a, next)
BY Numbers DEF Stored

\* What is true of a ring stays true when bytes are stored and read.
LEMMA HonestStays ==
  ASSUME NEW m \in Segments, NEW done \in BOOLEAN, NEW beg \in Nat, NEW end \in Nat,
         NEW gone \in BOOLEAN, NEW from \in Nat, NEW next \in Nat,
         Honest(m, done, beg, end), done => gone, beg <= from,
         next = end \/ (end <= next /\ next <= FinSeq)
  PROVE  Honest(m, gone, from, next)
<1>1. m.ack \in Nat /\ m.win \in Int
  BY DEF Segments
<1>2. m.from = "server" => Stored(m.ack, next)
  BY <1>1, StoredStays DEF Honest
<1> QED BY <1>1, <1>2, Numbers DEF Honest

LEMMA KnowsStays ==
  ASSUME NEW c \in ClientState, NEW done \in BOOLEAN, NEW beg \in Nat, NEW end \in Nat,
         NEW gone \in BOOLEAN, NEW from \in Nat, NEW next \in Nat,
         Knows(c, done, beg, end), done => gone, beg <= from,
         next = end \/ (end <= next /\ next <= FinSeq)
  PROVE  Knows(c, gone, from, next)
<1>1. c.una \in Nat /\ c.edge \in Int
  BY DEF ClientState
<1>2. c.state \in {"OPEN", "ENDED"} => Stored(c.una, next)
  BY <1>1, StoredStays DEF Knows
<1> QED BY <1>1, <1>2, Numbers DEF Knows

\* A step of the server's that sends honest segments.
LEMMA AckKept ==
  ASSUME TypeInv, AckInv, UNCHANGED client,
         rx_buf_beg' \in Nat, rx_buf_end' \in Nat, rx_buf_beg <= rx_buf_beg',
         rx_buf_end' = rx_buf_end \/ (rx_buf_end <= rx_buf_end' /\ rx_buf_end' <= FinSeq),
         Done => Done', state' = "LAST_ACK" => rx_buf_end' = FinSeq,
         NEW sent, net' \subseteq net \union sent,
         \A m \in sent : Honest(m, Done', rx_buf_beg', rx_buf_end')
  PROVE  AckInv'
<1>1. rx_buf_beg \in Nat /\ rx_buf_end \in Nat /\ net \subseteq Segments /\ client \in ClientState
  BY DEF TypeInv, TypeOK
<1>2. Done \in BOOLEAN /\ Done' \in BOOLEAN
  BY DEF Done
<1>3. Knows(client', Done', rx_buf_beg', rx_buf_end')
  <2>1. Knows(client, Done, rx_buf_beg, rx_buf_end) /\ client' = client
    BY DEF AckInv
  <2> HIDE DEF Done
  <2>2. Knows(client, Done', rx_buf_beg', rx_buf_end')
    BY <1>1, <1>2, <2>1, KnowsStays
  <2> QED BY <2>1, <2>2
<1>4. \A m \in net : Honest(m, Done', rx_buf_beg', rx_buf_end')
  <2>1. TAKE m \in net
  <2>2. m \in Segments /\ Honest(m, Done, rx_buf_beg, rx_buf_end)
    BY <1>1 DEF AckInv
  <2> QED BY <1>1, <1>2, <2>2, HonestStays
<1>5. \A m \in net' : Honest(m, Done', rx_buf_beg', rx_buf_end')
  BY <1>4
<1> QED BY <1>3, <1>5 DEF AckInv

\* A step of the client's.
LEMMA AckKeptByClient ==
  ASSUME TypeInv, AckInv, ClientStep, Knows(client', Done, rx_buf_beg, rx_buf_end),
         NEW sent, net' \subseteq net \union sent,
         \A m \in sent : Honest(m, Done, rx_buf_beg, rx_buf_end)
  PROVE  AckInv'
<1>1. Done' = Done /\ rx_buf_beg' = rx_buf_beg /\ rx_buf_end' = rx_buf_end /\ state' = state
  BY DEF ClientStep, rxVars, Done
<1>2. \A m \in net' : Honest(m, Done, rx_buf_beg, rx_buf_end)
  BY DEF AckInv
<1> HIDE DEF Done
<1>3. Knows(client', Done', rx_buf_beg', rx_buf_end')
  BY <1>1
<1>4. \A m \in net' : Honest(m, Done', rx_buf_beg', rx_buf_end')
  BY <1>1, <1>2
<1> QED BY <1>1, <1>3, <1>4 DEF AckInv

\* A FIN is stored only with all that is before it.
LEMMA StoreAck ==
  ASSUME TypeInv, RequestInv, AckInv, RequestInv', NEW m \in net, m.from = "client",
         Store(m), state \in {"SYN_REC", "ESTABLISHED"}, m.seq = rx_buf_end,
         tx_buf_beg' \in Nat, UNCHANGED client,
         state' \in {"ESTABLISHED", "LAST_ACK", "CLOSED"},
         state' = "LAST_ACK" => "FIN" \in m.flags
  PROVE  AckInv'
<1>1. m \in Segments /\ m.ack \in Nat /\ m.data \in Seq(Nat) /\ Len(m.data) \in Nat /\ TypeOK
  BY DEF TypeInv, TypeOK, Segments
<1> DEFINE room == Room(rx_buf_beg, rx_buf_end, TCP_RX_BUF_LEN)
           sent == {tcp_send({"ACK"}, <<>>)}
<1>0. PICK n \in Nat : Stores(m, n)
  BY <1>1, StoreMoves
<1>2. /\ n = Clip(Len(m.data), room)
      /\ n <= Len(m.data) /\ n <= room
      /\ rx_buf_beg' = rx_buf_beg
      /\ rx_buf_end' = rx_buf_end + n
      /\ net' \subseteq net \union sent
  BY <1>0 DEF Stores
<1>3. rx_buf_beg \in Nat /\ rx_buf_end \in Nat /\ rx_buf_beg' \in Nat /\ rx_buf_end' \in Nat
  <2>1. rx_buf_beg \in Nat /\ rx_buf_end \in Nat
    BY <1>1 DEF TypeOK
  <2>2. rx_buf_beg' = rx_buf_beg /\ rx_buf_end' = rx_buf_end + n
    BY <1>2
  <2> QED BY <2>1, <2>2
<1>4. /\ rx_buf_beg <= rx_buf_end /\ rx_buf_end - rx_buf_beg <= TCP_RX_BUF_LEN
      /\ rx_buf_end' <= FinSeq
  BY DEF RequestInv
<1>5. room = TCP_RX_BUF_LEN - (rx_buf_end - rx_buf_beg)
  <2>1. rx_buf_beg \in Int /\ rx_buf_end \in Int
    BY <1>3
  <2> QED BY <1>4, <2>1, Numbers, UsedAndRoom, ZenonT(60)
<1> HIDE DEF room
<1>6. state' = "LAST_ACK" => rx_buf_end' = FinSeq
  <2>1. ASSUME state' = "LAST_ACK" PROVE rx_buf_end' = FinSeq
    <3>1. /\ m.seq + Len(m.data) = FinSeq
          /\ FinSeq <= rx_buf_beg + TCP_RX_BUF_LEN
      BY <2>1 DEF AckInv, Honest, Done
    <3>2. Len(m.data) <= room
      <4>1. rx_buf_end + Len(m.data) <= rx_buf_beg + TCP_RX_BUF_LEN
        BY <3>1
      <4>2. Len(m.data) \in Nat
        BY <1>1
      <4>3. TCP_RX_BUF_LEN \in Nat
        BY Numbers
      <4> DEFINE len == Len(m.data)
      <4> HIDE DEF len
      <4>4. len <= room
        BY <1>3, <1>5, <4>1, <4>2, <4>3 DEF len
      <4> QED BY <4>4 DEF len
    <3>3. n = Len(m.data)
      BY <1>1, <1>2, <3>2 DEF Clip
    <3> QED BY <1>2, <3>1, <3>3
  <2> QED BY <2>1
<1>7. \A k \in sent : Honest(k, Done', rx_buf_beg', rx_buf_end')
  <2> DEFINE k == tcp_send({"ACK"}, <<>>)
  <2>1. /\ k.from = "server"
        /\ state' # "LAST_ACK" => k.ack = rx_buf_end'
        /\ state' = "LAST_ACK" => k.ack = rx_buf_end' + 1
        /\ k.win = TCP_RX_BUF_LEN - (rx_buf_end' - rx_buf_beg')
    BY <1>1, <1>3, PlainSent
  <2> HIDE DEF k
  <2>2. CASE state' = "LAST_ACK"
    <3>1. k.ack = FinSeq + 1 /\ rx_buf_end' = FinSeq /\ Done'
      BY <1>6, <2>1, <2>2 DEF Done
    <3> QED BY <2>1, <3>1 DEF Honest, Stored, k
  <2>3. CASE state' # "LAST_ACK"
    <3>1. k.ack <= rx_buf_end' /\ k.ack + k.win <= rx_buf_beg' + TCP_RX_BUF_LEN
      BY <1>3, <2>1, <2>3, Numbers
    <3> QED BY <2>1, <3>1 DEF Honest, Stored, k
  <2> QED BY <2>2, <2>3
<1> HIDE DEF sent
<1>8. ~ Done
  BY DEF Done
<1>9. /\ rx_buf_beg <= rx_buf_beg'
      /\ rx_buf_end <= rx_buf_end' /\ rx_buf_end' <= FinSeq
  BY <1>2, <1>3, <1>4
<1> QED BY <1>2, <1>3, <1>6, <1>7, <1>8, <1>9, AckKept

LEMMA TcpRecvAck ==
  ASSUME TypeInv, RequestInv, AckInv, RequestInv', tcp_recv
  PROVE  AckInv'
<1>1. PICK m \in net :
        /\ m.from = "client"
        /\ \/ RecvSyn(m) \/ RecvHandshakeAck(m) \/ RecvEstablished(m)
           \/ RecvLastAck(m) \/ RecvNothing(m)
  BY DEF tcp_recv
<1>2. client' = client
  BY DEF tcp_recv, clientVars
<1>3. CASE RecvSyn(m)
  <2>1. state = "LISTEN" /\ state' = "SYN_REC" /\ net' \subseteq net
    BY <1>3, NetGrows DEF RecvSyn
  <2>2. /\ client'.state \in {"CLOSED", "SYN_SENT"}
        /\ \A k \in net' : k.from = "client" /\ "FIN" \notin k.flags
    BY <1>2, <2>1 DEF TypeInv, Handshake
  <2> QED BY <2>1, <2>2 DEF AckInv, Knows, Honest
<1>4. CASE RecvHandshakeAck(m)
  <2>1. /\ Store(m) /\ state = "SYN_REC" /\ m.seq = rx_buf_end /\ tx_buf_beg' = m.ack
        /\ state' = "ESTABLISHED"
    BY <1>4 DEF RecvHandshakeAck
  <2>2. tx_buf_beg' \in Nat
    BY <2>1 DEF TypeInv, TypeOK, Segments
  <2> QED BY <1>1, <1>2, <2>1, <2>2, StoreAck
<1>5. CASE RecvEstablished(m)
  <2>1. TypeOK
    BY DEF TypeInv
  <2> QED BY <1>1, <1>2, <1>5, <2>1, EstablishedMoves, StoreAck
<1>6. CASE RecvLastAck(m) \/ RecvNothing(m)
  <2> DEFINE sent == {}
  <2>1. /\ state' = state \/ (state = "LAST_ACK" /\ state' = "CLOSED")
        /\ rx_buf_beg' = rx_buf_beg /\ rx_buf_end' = rx_buf_end /\ net' \subseteq net \union sent
    BY <1>6, NetGrows DEF RecvLastAck, RecvNothing, rxVars
  <2>2. \A k \in sent : Honest(k, Done', rx_buf_beg', rx_buf_end')
    OBVIOUS
  <2> HIDE DEF sent
  <2>3. (Done => Done') /\ (state' = "LAST_ACK" => rx_buf_end' = FinSeq)
    BY <2>1 DEF Done, AckInv
  <2>4. rx_buf_beg' \in Nat /\ rx_buf_end' \in Nat /\ rx_buf_beg <= rx_buf_beg'
    BY <2>1 DEF TypeInv, TypeOK
  <2> QED BY <1>2, <2>1, <2>2, <2>3, <2>4, AckKept
<1> QED BY <1>1, <1>3, <1>4, <1>5, <1>6

LEMMA SetStateAck ==
  ASSUME TypeInv, AckInv, tcp_set_state
  PROVE  AckInv'
<1>1. /\ state \in {"SYN_REC", "ESTABLISHED", "LAST_ACK"}
      /\ rx_buf_beg' = rx_buf_beg /\ rx_buf_end' = rx_buf_end /\ tx_buf_beg' = tx_buf_beg
      /\ client' = client
      /\ \/ state' = state /\ net' \subseteq net \union Again
         \/ state' = "CLOSED" /\ net' \subseteq net \union {tcp_send({"RST", "ACK"}, <<>>)}
  BY SetStateSends
<1>2. /\ rx_buf_beg \in Nat /\ rx_buf_end \in Nat
      /\ rx_buf_beg' \in Nat /\ rx_buf_end' \in Nat /\ tx_buf_beg' \in Nat /\ TypeOK
  BY <1>1 DEF TypeInv, TypeOK
<1>3. /\ Done => Done'
      /\ state' = "LAST_ACK" => rx_buf_end' = FinSeq
      /\ rx_buf_beg <= rx_buf_beg'
  BY <1>1, <1>2 DEF Done, AckInv
<1>4. CASE state' = state /\ net' \subseteq net \union Again
  <2>1. ASSUME NEW m \in Again
        PROVE  Honest(m, Done', rx_buf_beg', rx_buf_end')
    <3>1. UNCHANGED <<rxVars, txVars>>
      BY DEF tcp_set_state
    <3>2. /\ m.from = "server"
          /\ state' # "LAST_ACK" => m.ack = rx_buf_end
          /\ state' = "LAST_ACK" => m.ack = rx_buf_end + 1
          /\ m.win = TCP_RX_BUF_LEN - (rx_buf_end - rx_buf_beg)
      BY <1>1, <1>2, <3>1, AgainSends
    <3>3. CASE state' = "LAST_ACK"
      <4>1. m.ack = FinSeq + 1 /\ rx_buf_end' = FinSeq /\ Done'
        BY <1>1, <1>3, <3>2, <3>3 DEF Done
      <4> QED BY <3>2, <4>1 DEF Honest, Stored
    <3>4. CASE state' # "LAST_ACK"
      <4>1. m.ack <= rx_buf_end' /\ m.ack + m.win <= rx_buf_beg' + TCP_RX_BUF_LEN
        BY <1>1, <1>2, <3>2, <3>4, Numbers
      <4> QED BY <3>2, <4>1 DEF Honest, Stored
    <3> QED BY <3>3, <3>4
  <2>2. client' = client /\ (rx_buf_end' = rx_buf_end) /\ rx_buf_beg' \in Nat
    BY <1>1, <1>2
  <2> HIDE DEF Done
  <2> QED BY <1>1, <1>2, <1>3, <1>4, <2>1, <2>2, AckKept
<1>5. CASE state' = "CLOSED" /\ net' \subseteq net \union {tcp_send({"RST", "ACK"}, <<>>)}
  <2> DEFINE k == tcp_send({"RST", "ACK"}, <<>>)
             sent == {k}
  <2>1. k.from = "server" /\ k.ack = rx_buf_end'
    BY <1>2, <1>5, PlainSent
  <2> HIDE DEF k
  <2>2. k.ack <= rx_buf_end' /\ Done'
    BY <1>2, <1>5, <2>1 DEF Done
  <2>3. \A m \in sent : Honest(m, Done', rx_buf_beg', rx_buf_end')
    BY <2>1, <2>2 DEF Honest, Stored
  <2>4. net' \subseteq net \union sent
    BY <1>5 DEF k
  <2> HIDE DEF sent
  <2> QED BY <1>1, <1>2, <1>3, <2>3, <2>4, AckKept
<1> QED BY <1>1, <1>4, <1>5

LEMMA ClientReceivesAck ==
  ASSUME TypeInv, AckInv, ClientReceives
  PROVE  AckInv'
<1>1. PICK m \in net :
        /\ m.from = "server"
        /\ \/ ClientRecvSynAck(m) \/ ClientRecv(m)
           \/ ClientRecvAgain(m)  \/ ClientRecvReset(m)
  BY DEF ClientReceives
<1>2. PICK seq : net' \subseteq net \union {FromClient({"ACK"}, seq, <<>>)}
  BY ClientReceivesSends
<1>3. ClientStep
  BY ClientReceivesSends
<1> DEFINE sent == {FromClient({"ACK"}, seq, <<>>)}
<1>4. \A k \in sent : Honest(k, Done, rx_buf_beg, rx_buf_end)
  BY DEF FromClient, Segment, Honest
<1>5. Knows(client, Done, rx_buf_beg, rx_buf_end) /\ Honest(m, Done, rx_buf_beg, rx_buf_end)
  BY DEF AckInv
<1>6. m \in Segments /\ client \in ClientState
  BY DEF TypeInv, TypeOK
<1>7. Knows(client', Done, rx_buf_beg, rx_buf_end)
  <2>1. CASE ClientRecvSynAck(m)
    <3>1. client' = client \/
          client' = [client EXCEPT !.state = "OPEN", !.una = m.ack, !.nxt = m.ack,
                                   !.edge = m.ack + m.win, !.rcv = m.seq + 1]
      BY <2>1 DEF ClientRecvSynAck
    <3> QED BY <1>1, <1>5, <1>6, <3>1 DEF Knows, Honest, ClientState
  <2>2. CASE ClientRecv(m)
    <3>1. ClientTook(m)
      BY <1>6, <2>2, ClientRecvMoves
    <3>2. /\ client.state = "OPEN"
          /\ client'.una = client.una \/ client'.una = m.ack
          /\ client'.edge = client.edge \/ client'.edge = m.ack + m.win
      BY <3>1 DEF ClientTook
    <3> QED BY <1>1, <1>5, <3>2 DEF Knows, Honest
  <2>3. CASE ClientRecvAgain(m)
    BY <1>5, <2>3 DEF ClientRecvAgain, clientVars
  <2>4. CASE ClientRecvReset(m)
    <3>1. client' = client \/ client' = [client EXCEPT !.state = "RESET"]
      BY <2>4 DEF ClientRecvReset
    <3> QED BY <1>5, <1>6, <3>1 DEF Knows, ClientState
  <2> QED BY <1>1, <2>1, <2>2, <2>3, <2>4
<1>8. net' \subseteq net \union sent
  BY <1>2
<1> HIDE DEF sent
<1> QED BY <1>3, <1>4, <1>7, <1>8, AckKeptByClient

LEMMA ClientSendAck ==
  ASSUME TypeInv, AckInv, NEW start \in {client.una, client.nxt},
         NEW end \in First .. FinSeq, NEW fin \in BOOLEAN, start <= end,
         ClientSend(start, end, fin)
  PROVE  AckInv'
<1>1. PICK flags, data : ClientSent(start, end, fin, flags, data)
  BY ClientSendMoves
<1> DEFINE m == FromClient(flags, start, data)
           sent == {m}
<1>2. /\ flags = (IF fin THEN {"ACK", "FIN"} ELSE {"ACK"})
      /\ data \in Seq(Nat) /\ Len(data) = end - start
      /\ start \in Nat /\ end \in Nat /\ client' \in ClientState
      /\ client.state = "OPEN" /\ client'.state = "OPEN" /\ client'.una = client.una
      /\ client'.edge = client.edge
      /\ net' \subseteq net \union sent /\ ClientStep
      /\ fin => end = FinSeq /\ end <= client.edge
  BY <1>1 DEF ClientSent
<1>3. m.from = "client" /\ m.flags = flags /\ m.seq = start /\ m.data = data
  BY DEF FromClient, Segment
<1> HIDE DEF m
<1>4. Knows(client, Done, rx_buf_beg, rx_buf_end)
  BY DEF AckInv
<1>5. Knows(client', Done, rx_buf_beg, rx_buf_end)
  BY <1>2, <1>4 DEF Knows
<1>6. Honest(m, Done, rx_buf_beg, rx_buf_end)
  <2>1. ASSUME "FIN" \in m.flags
        PROVE  m.seq + Len(m.data) = FinSeq /\ (Done \/ FinSeq <= rx_buf_beg + TCP_RX_BUF_LEN)
    <3>1. fin
      BY <1>2, <1>3, <2>1
    <3>2. end = FinSeq /\ end <= client.edge
      BY <1>2, <3>1
    <3>3. client.edge \in Int /\ rx_buf_beg \in Nat
      BY DEF TypeInv, TypeOK, ClientState
    <3>4. Done \/ client.edge <= rx_buf_beg + TCP_RX_BUF_LEN
      BY <1>2, <1>4 DEF Knows
    <3> HIDE DEF Done
    <3>5. Done \/ FinSeq <= rx_buf_beg + TCP_RX_BUF_LEN
      BY <3>2, <3>3, <3>4, Numbers
    <3>6. m.seq + Len(m.data) = FinSeq
      BY <1>2, <1>3, <3>2
    <3> QED BY <3>5, <3>6
  <2> QED BY <1>3, <2>1 DEF Honest
<1>7. \A k \in sent : Honest(k, Done, rx_buf_beg, rx_buf_end)
  BY <1>6
<1> HIDE DEF sent
<1> QED BY <1>2, <1>5, <1>7, AckKeptByClient

LEMMA AckStep ==
  ASSUME TypeInv, RequestInv, AckInv, RequestInv', [Next]_vars
  PROVE  AckInv'
<1>0. rx_buf_beg \in Nat /\ rx_buf_end \in Nat /\ (Done' <=> state' \in {"LAST_ACK", "CLOSED"})
  BY DEF TypeInv, TypeOK, Done
<1>1. CASE tcp_recv
  BY <1>1, TcpRecvAck
<1>2. CASE tcp_set_state
  BY <1>2, SetStateAck
<1>3. CASE ClientReceives
  BY <1>3, ClientReceivesAck
<1>4. CASE ClientSends
  BY <1>4, ClientSendAck DEF ClientSends
<1>5. CASE Connect
  <2> DEFINE sent == {Segment("client", {"SYN"}, IRS, 0, 0, <<>>)}
  <2>1. /\ net' \subseteq net \union sent /\ ClientStep
        /\ client' = [client EXCEPT !.state = "SYN_SENT"]
    BY <1>5, NetGrows DEF Connect
  <2>2. \A k \in sent : Honest(k, Done, rx_buf_beg, rx_buf_end)
    BY DEF Segment, Honest
  <2> HIDE DEF sent
  <2>3. Knows(client', Done, rx_buf_beg, rx_buf_end)
    BY <2>1 DEF TypeInv, TypeOK, ClientState, Knows
  <2> QED BY <2>1, <2>2, <2>3, AckKeptByClient
<1>6. CASE sock_read \/ Elapse \/ Write \/ (\E m \in net : Lose(m)) \/ UNCHANGED vars
  <2> DEFINE sent == {}
  <2>1. /\ rx_buf_end' = rx_buf_end /\ state' = state /\ client' = client
        /\ net' \subseteq net \union sent
    BY <1>6 DEF sock_read, Elapse, Write, sock_write, Lose, vars, rxVars, clientVars, netVars
  <2>2. rx_buf_beg' \in Nat /\ rx_buf_beg <= rx_buf_beg'
    <3>1. CASE sock_read
      <4> DEFINE n == Clip(1, Used(rx_buf_beg, rx_buf_end, TCP_RX_BUF_LEN))
      <4>1. rx_buf_beg' = rx_buf_beg + n
        BY <3>1 DEF sock_read
      <4>2. n \in Nat
        <5> DEFINE used == Used(rx_buf_beg, rx_buf_end, TCP_RX_BUF_LEN)
        <5>1. rx_buf_beg \in Int /\ rx_buf_end \in Int
          BY <1>0
        <5>2. used \in 0 .. TCP_RX_BUF_LEN
          BY <5>1, Numbers, CountsBounded
        <5> HIDE DEF used
        <5>3. used \in Nat /\ 1 \in Nat
          BY <5>2, Numbers
        <5>4. Clip(1, used) \in Nat
          BY <5>3, ClipBounded
        <5> QED BY <5>4 DEF used
      <4> HIDE DEF n
      <4> QED BY <1>0, <4>1, <4>2
    <3>2. CASE ~ sock_read
      <4>1. rx_buf_beg' = rx_buf_beg
        BY <1>6, <3>2 DEF Elapse, Write, sock_write, Lose, vars, rxVars
      <4> QED BY <1>0, <4>1
    <3> QED BY <3>1, <3>2
  <2>3. \A k \in sent : Honest(k, Done', rx_buf_beg', rx_buf_end')
    OBVIOUS
  <2> HIDE DEF sent
  <2>4. (Done => Done') /\ (state' = "LAST_ACK" => rx_buf_end' = FinSeq) /\ rx_buf_end' \in Nat
    BY <1>0, <2>1 DEF Done, AckInv
  <2> QED BY <2>1, <2>2, <2>3, <2>4, AckKept
<1>7. CASE ClientAbort
  <2>1. TypeOK
    BY DEF TypeInv
  <2>2. PICK m \in Segments : /\ net' \subseteq net \union {m}
                              /\ m.from = "client" /\ m.flags = {"RST"}
    BY <1>7, <2>1, AbortMoves
  <2> DEFINE sent == {m}
  <2>3. net' \subseteq net \union sent /\ \A k \in sent : Honest(k, Done, rx_buf_beg, rx_buf_end)
    BY <2>2 DEF Honest
  <2> HIDE DEF sent
  <2>4. ClientStep /\ Knows(client', Done, rx_buf_beg, rx_buf_end)
    BY <1>7, <2>1, AbortMoves DEF Knows
  <2> QED BY <2>3, <2>4, AckKeptByClient
<1> QED BY <1>1, <1>2, <1>3, <1>4, <1>5, <1>6, <1>7 DEF Next

\* What the client may forget the server holds: an acknowledgement never covers a byte
\* that found no room, and that of a FIN none of the bytes before it (tcp.c 309-330, 363,
\* 388-411, 456).
THEOREM OnlyStoredIsAcknowledged == Spec => []AcknowledgedIsStored
<1>1. TypeInv /\ AckInv => AcknowledgedIsStored
  BY DEF AckInv, Knows, Stored, AcknowledgedIsStored
<1>2. Init => AckInv /\ RequestInv
  <2>1. Init => AckInv
    BY DEF Init, AckInv, Knows, Honest
  <2> QED BY <2>1, RequestInit
<1>3. TypeInv /\ (AckInv /\ RequestInv) /\ [Next]_vars => (AckInv /\ RequestInv)'
  BY RequestStep, AckStep
<1> QED BY <1>1, <1>2, <1>3, TypeInvariant, PTL DEF Spec

-----------------------------------------------------------------------------
(* The reply arrives unchanged.                                            *)

\* A step of the server's that leaves the numbers alone.
LEMMA CountsKept ==
  ASSUME TypeInv, ReplyCounts, UNCHANGED <<client, seen, queued, tx_buf_end>>,
         state # "LISTEN" \/ state' = "LISTEN", Done => Done',
         NEW sent, net' \subseteq net \union sent,
         \A m \in sent : m.from = "server" /\ "FIN" \in m.flags => Done'
  PROVE  ReplyCounts'
BY DEF ReplyCounts

\* A step of the client's.
LEMMA CountsKeptByClient ==
  ASSUME TypeInv, ReplyCounts, ClientStep,
         client'.state = "OPEN" => client'.rcv = Base + Len(seen'),
         client'.state = "ENDED" => Done,
         NEW sent, net' \subseteq net \union sent, \A m \in sent : m.from = "client"
  PROVE  ReplyCounts'
<1>1. state' = state /\ tx_buf_end' = tx_buf_end /\ queued' = queued /\ (Done' <=> Done)
  BY DEF ClientStep, txVars, mainVars, Done
<1> HIDE DEF Done
<1> QED BY <1>1 DEF ReplyCounts

LEMMA TcpRecvCounts ==
  ASSUME TypeInv, ReplyCounts, tcp_recv
  PROVE  ReplyCounts'
<1>1. PICK m \in net :
        /\ m.from = "client"
        /\ \/ RecvSyn(m) \/ RecvHandshakeAck(m) \/ RecvEstablished(m)
           \/ RecvLastAck(m) \/ RecvNothing(m)
  BY DEF tcp_recv
<1>2. UNCHANGED <<client, seen, queued>>
  BY DEF tcp_recv, clientVars, mainVars
<1>3. CASE RecvSyn(m)
  <2>1. /\ state = "LISTEN" /\ state' = "SYN_REC" /\ net' \subseteq net
        /\ tx_buf_end' = Base
    BY <1>3, NetGrows DEF RecvSyn, Base
  <2>2. /\ client'.state \in {"CLOSED", "SYN_SENT"} /\ queued' = <<>>
        /\ \A k \in net' : k.from = "client"
    BY <1>2, <2>1 DEF TypeInv, Handshake
  <2>3. Len(queued') = 0 /\ Base + 0 = Base
    BY <2>2, Numbers
  <2> QED BY <2>1, <2>2, <2>3 DEF ReplyCounts
<1>4. CASE RecvHandshakeAck(m) \/ RecvEstablished(m)
  <2> DEFINE sent == {tcp_send({"ACK"}, <<>>)}
  <2>1. m \in Segments /\ m.ack \in Nat /\ TypeOK
    BY DEF TypeInv, TypeOK, Segments
  <2>2. /\ Store(m) /\ state \in {"SYN_REC", "ESTABLISHED"} /\ tx_buf_beg' \in Nat
        /\ tx_buf_end' = tx_buf_end
    BY <1>4, <2>1, EstablishedMoves DEF RecvHandshakeAck
  <2>3. /\ rx_buf_beg' = rx_buf_beg /\ rx_buf_end' \in Nat
        /\ net' \subseteq net \union sent
    <3>1. PICK n \in Nat : Stores(m, n)
      BY <2>1, <2>2, StoreMoves
    <3>2. rx_buf_end \in Nat
      BY <2>1 DEF TypeOK
    <3> QED BY <3>1, <3>2 DEF Stores
  <2>4. rx_buf_beg' \in Nat
    BY <2>1, <2>3 DEF TypeOK
  <2>5. "FIN" \notin tcp_send({"ACK"}, <<>>).flags
    BY <2>1, <2>2, <2>3, <2>4, PlainSent
  <2>6. \A k \in sent : k.from = "server" /\ "FIN" \in k.flags => Done'
    BY <2>5
  <2> HIDE DEF sent
  <2>7. (Done => Done') /\ state # "LISTEN"
    BY <2>2 DEF Done
  <2> QED BY <1>2, <2>2, <2>3, <2>6, <2>7, CountsKept
<1>5. CASE RecvLastAck(m) \/ RecvNothing(m)
  <2> DEFINE sent == {}
  <2>1. /\ state' = state \/ (state = "LAST_ACK" /\ state' = "CLOSED")
        /\ tx_buf_end' = tx_buf_end /\ net' \subseteq net \union sent
    BY <1>5, NetGrows DEF RecvLastAck, RecvNothing, txVars
  <2>2. \A k \in sent : k.from = "server" /\ "FIN" \in k.flags => Done'
    OBVIOUS
  <2> HIDE DEF sent
  <2>3. (Done => Done') /\ (state # "LISTEN" \/ state' = "LISTEN")
    BY <2>1 DEF Done
  <2> QED BY <1>2, <2>1, <2>2, <2>3, CountsKept
<1> QED BY <1>1, <1>3, <1>4, <1>5

LEMMA SetStateCounts ==
  ASSUME TypeInv, ReplyCounts, tcp_set_state
  PROVE  ReplyCounts'
<1>1. /\ state \in {"SYN_REC", "ESTABLISHED", "LAST_ACK"}
      /\ rx_buf_beg' = rx_buf_beg /\ rx_buf_end' = rx_buf_end
      /\ tx_buf_beg' = tx_buf_beg /\ tx_buf_end' = tx_buf_end
      /\ UNCHANGED <<queued, client, seen>>
      /\ \/ state' = state /\ net' \subseteq net \union Again
         \/ state' = "CLOSED" /\ net' \subseteq net \union {tcp_send({"RST", "ACK"}, <<>>)}
  BY SetStateSends
<1>2. /\ rx_buf_beg' \in Nat /\ rx_buf_end' \in Nat /\ tx_buf_beg' \in Nat /\ TypeOK
  BY <1>1 DEF TypeInv, TypeOK
<1>3. (Done => Done') /\ state # "LISTEN"
  BY <1>1 DEF Done
<1>4. CASE state' = state /\ net' \subseteq net \union Again
  <2>1. ASSUME NEW m \in Again, "FIN" \in m.flags
        PROVE  Done'
    <3>1. UNCHANGED <<rxVars, txVars>>
      BY DEF tcp_set_state
    <3>2. state = "LAST_ACK"
      BY <1>1, <1>2, <2>1, <3>1, AgainSends
    <3> QED BY <1>4, <3>2 DEF Done
  <2> HIDE DEF Done
  <2>2. \A m \in Again : m.from = "server" /\ "FIN" \in m.flags => Done'
    BY <2>1
  <2> QED BY <1>1, <1>3, <1>4, <2>2, CountsKept
<1>5. CASE state' = "CLOSED" /\ net' \subseteq net \union {tcp_send({"RST", "ACK"}, <<>>)}
  <2> DEFINE sent == {tcp_send({"RST", "ACK"}, <<>>)}
  <2>1. \A m \in sent : m.from = "server" /\ "FIN" \in m.flags => Done'
    BY <1>5 DEF Done
  <2>2. net' \subseteq net \union sent
    BY <1>5
  <2> HIDE DEF sent
  <2> QED BY <1>1, <1>3, <2>1, <2>2, CountsKept
<1> QED BY <1>1, <1>4, <1>5

LEMMA WriteCounts ==
  ASSUME TypeInv, ReplyCounts, NEW len \in 1 .. Len(Reply) - asked, sock_write(len)
  PROVE  ReplyCounts'
<1>1. PICK data \in Seq(Nat) :
        /\ Len(data) <= Room(tx_buf_beg, tx_buf_end, TCP_TX_BUF_LEN)
        /\ tx_buf_end' = tx_buf_end + Len(data)
        /\ tx_buf' = Fill(tx_buf, tx_buf_end, data, TCP_TX_BUF_LEN)
        /\ queued' = queued \o data
  BY WriteMoves DEF TypeInv
<1>2. /\ state = "ESTABLISHED" /\ state' = state
      /\ UNCHANGED <<client, seen, net>>
  BY DEF sock_write, clientVars, netVars
<1>3. queued \in Seq(Nat) /\ tx_buf_end = Base + Len(queued)
  BY <1>2 DEF TypeInv, TypeOK, ReplyCounts
<1>4. Len(queued') = Len(queued) + Len(data) /\ Len(queued) \in Nat /\ Len(data) \in Nat
  BY <1>1, <1>3, ConcatProperties
<1>5. tx_buf_end' = Base + Len(queued')
  BY <1>1, <1>3, <1>4, Numbers
<1> QED BY <1>2, <1>5 DEF ReplyCounts, Done

LEMMA ClientReceivesCounts ==
  ASSUME TypeInv, ReplyCounts, ClientReceives
  PROVE  ReplyCounts'
<1>1. PICK m \in net :
        /\ m.from = "server"
        /\ \/ ClientRecvSynAck(m) \/ ClientRecv(m)
           \/ ClientRecvAgain(m)  \/ ClientRecvReset(m)
  BY DEF ClientReceives
<1>2. PICK seq : net' \subseteq net \union {FromClient({"ACK"}, seq, <<>>)}
  BY ClientReceivesSends
<1>3. ClientStep
  BY ClientReceivesSends
<1> DEFINE sent == {FromClient({"ACK"}, seq, <<>>)}
<1>4. /\ net' \subseteq net \union sent
      /\ \A k \in sent : k.from = "client"
  BY <1>2 DEF FromClient, Segment
<1> HIDE DEF sent
<1>5. m \in Segments /\ client \in ClientState
  BY DEF TypeInv, TypeOK
<1>6. /\ client'.state = "OPEN" => client'.rcv = Base + Len(seen')
      /\ client'.state = "ENDED" => Done
  <2>1. CASE ClientRecvSynAck(m)
    <3>1. CASE client.state = "SYN_SENT"
      <4>1. /\ seen' = seen
            /\ client' = [client EXCEPT !.state = "OPEN", !.una = m.ack, !.nxt = m.ack,
                                        !.edge = m.ack + m.win, !.rcv = m.seq + 1]
        BY <2>1, <3>1 DEF ClientRecvSynAck
      <4>2. client'.state = "OPEN" /\ client'.rcv = m.seq + 1
        BY <1>5, <4>1 DEF ClientState
      <4>3. m.seq = ISS
        BY <1>1, <2>1 DEF ClientRecvSynAck, TypeInv, Handshake, SynSegment
      <4>4. Len(seen') = 0
        BY <3>1, <4>1 DEF TypeInv, Handshake
      <4> QED BY <4>2, <4>3, <4>4, Numbers DEF Base
    <3>2. CASE client.state # "SYN_SENT"
      <4>1. client' = client /\ seen' = seen
        BY <2>1, <3>2 DEF ClientRecvSynAck
      <4> QED BY <4>1 DEF ReplyCounts
    <3> QED BY <3>1, <3>2
  <2>2. CASE ClientRecv(m)
    <3> DEFINE fin == "FIN" \in m.flags /\ m.seq + Len(m.data) = client.rcv + Len(NewData(m))
    <3>1. ClientTook(m)
      BY <1>5, <2>2, ClientRecvMoves
    <3>2. /\ client.state = "OPEN"
          /\ client'.rcv = client.rcv + Len(NewData(m)) + (IF fin THEN 1 ELSE 0)
          /\ client'.state = (IF fin THEN "ENDED" ELSE "OPEN")
          /\ Len(seen') = Len(seen) + Len(NewData(m))
      BY <3>1 DEF ClientTook
    <3>3. client.rcv = Base + Len(seen) /\ client.rcv \in Nat /\ seen \in Seq(Nat)
      BY <1>5, <3>2 DEF ReplyCounts, ClientState, TypeInv, TypeOK
    <3>4. NewData(m) \in Seq(Nat) /\ Len(NewData(m)) \in Nat /\ Len(seen) \in Nat
      BY <1>5, <3>3, NewDataProperties DEF TypeInv
    <3>5. CASE fin
      BY <1>1, <3>2, <3>5 DEF ReplyCounts
    <3>6. CASE ~ fin
      <4>1. client'.rcv = client.rcv + Len(NewData(m)) + 0 /\ client'.state = "OPEN"
        BY <3>2, <3>6
      <4> HIDE DEF fin
      <4> QED BY <3>2, <3>3, <3>4, <4>1, Numbers
    <3> QED BY <3>5, <3>6
  <2>3. CASE ClientRecvAgain(m)
    BY <2>3 DEF ClientRecvAgain, clientVars, ReplyCounts
  <2>4. CASE ClientRecvReset(m)
    <3>1. (client' = client \/ client' = [client EXCEPT !.state = "RESET"]) /\ seen' = seen
      BY <2>4 DEF ClientRecvReset
    <3> QED BY <1>5, <3>1 DEF ClientState, ReplyCounts
  <2> QED BY <1>1, <2>1, <2>2, <2>3, <2>4
<1> QED BY <1>3, <1>4, <1>6, CountsKeptByClient

LEMMA CountsStep ==
  ASSUME TypeInv, ReplyCounts, [Next]_vars
  PROVE  ReplyCounts'
<1>1. CASE tcp_recv
  BY <1>1, TcpRecvCounts
<1>2. CASE tcp_set_state
  BY <1>2, SetStateCounts
<1>3. CASE Write
  BY <1>3, WriteCounts DEF Write
<1>4. CASE ClientReceives
  BY <1>4, ClientReceivesCounts
<1>5. CASE ClientSends
  <2>1. PICK start \in {client.una, client.nxt}, end \in First .. FinSeq, fin \in BOOLEAN :
          start <= end /\ ClientSend(start, end, fin)
    BY <1>5 DEF ClientSends
  <2>2. PICK flags, data : ClientSent(start, end, fin, flags, data)
    BY <2>1, ClientSendMoves
  <2> DEFINE sent == {FromClient(flags, start, data)}
  <2>3. /\ net' \subseteq net \union sent /\ ClientStep
        /\ client.state = "OPEN" /\ client'.state = "OPEN"
        /\ client'.rcv = client.rcv /\ seen' = seen
    BY <2>2 DEF ClientSent
  <2>4. \A k \in sent : k.from = "client"
    BY DEF FromClient, Segment
  <2> HIDE DEF sent
  <2>5. client'.rcv = Base + Len(seen')
    BY <2>3 DEF ReplyCounts
  <2> QED BY <2>3, <2>4, <2>5, CountsKeptByClient
<1>6. CASE Connect
  <2> DEFINE sent == {Segment("client", {"SYN"}, IRS, 0, 0, <<>>)}
  <2>1. /\ net' \subseteq net \union sent /\ ClientStep
        /\ client' = [client EXCEPT !.state = "SYN_SENT"]
    BY <1>6, NetGrows DEF Connect
  <2>2. \A k \in sent : k.from = "client"
    BY DEF Segment
  <2> HIDE DEF sent
  <2>3. client'.state = "SYN_SENT"
    BY <2>1 DEF TypeInv, TypeOK, ClientState
  <2> QED BY <2>1, <2>2, <2>3, CountsKeptByClient
<1>7. CASE sock_read \/ Elapse \/ (\E m \in net : Lose(m)) \/ UNCHANGED vars
  <2>1. /\ UNCHANGED <<client, seen, queued, tx_buf_end>> /\ state' = state
        /\ net' \subseteq net
    BY <1>7 DEF sock_read, Elapse, Lose, vars, txVars, mainVars, clientVars, netVars
  <2> QED BY <2>1 DEF ReplyCounts, Done
<1>8. CASE ClientAbort
  <2>1. TypeOK
    BY DEF TypeInv
  <2>2. PICK m \in Segments : net' \subseteq net \union {m} /\ m.from = "client"
    BY <1>8, <2>1, AbortMoves
  <2> DEFINE sent == {m}
  <2>3. net' \subseteq net \union sent /\ \A k \in sent : k.from = "client"
    BY <2>2
  <2> HIDE DEF sent
  <2>4. ClientStep /\ client'.state = "RESET"
    BY <1>8, <2>1, AbortMoves
  <2> QED BY <2>3, <2>4, CountsKeptByClient
<1> QED BY <1>1, <1>2, <1>3, <1>4, <1>5, <1>6, <1>7, <1>8 DEF Next

LEMMA BeginsTransitive ==
  ASSUME NEW s \in Seq(Nat), NEW t \in Seq(Nat), NEW u \in Seq(Nat),
         Begins(s, t), Begins(t, u)
  PROVE  Begins(s, u)
<1>1. Len(s) \in Nat /\ Len(t) \in Nat /\ Len(u) \in Nat
  OBVIOUS
<1> QED BY <1>1 DEF Begins

LEMMA BeginsConcat ==
  ASSUME NEW s \in Seq(Nat), NEW t \in Seq(Nat)
  PROVE  /\ s \o t \in Seq(Nat) /\ Begins(s, s \o t)
         /\ Len(s \o t) = Len(s) + Len(t)
         /\ \A i \in 1 .. Len(t) : (s \o t)[Len(s) + i] = t[i]
<1>1. Len(s) \in Nat /\ Len(t) \in Nat
  OBVIOUS
<1>2. /\ s \o t \in Seq(Nat) /\ Len(s \o t) = Len(s) + Len(t)
      /\ \A i \in 1 .. Len(s) + Len(t) :
           (s \o t)[i] = IF i <= Len(s) THEN s[i] ELSE t[i - Len(s)]
  BY ConcatProperties
<1>3. Begins(s, s \o t)
  BY <1>1, <1>2 DEF Begins
<1>4. ASSUME NEW i \in 1 .. Len(t)
      PROVE  (s \o t)[Len(s) + i] = t[i]
  <2>1. Len(s) + i \in 1 .. Len(s) + Len(t) /\ ~ (Len(s) + i <= Len(s)) /\ Len(s) + i - Len(s) = i
    BY <1>1
  <2> QED BY <1>2, <2>1
<1> QED BY <1>2, <1>3, <1>4

LEMMA BeginsIsPrefix ==
  ASSUME NEW s \in Seq(Nat), NEW t \in Seq(Nat), Begins(s, t)
  PROVE  IsPrefix(s, t)
<1>1. Len(s) \in Nat /\ Len(t) \in Nat /\ Len(s) <= Len(t)
  BY DEF Begins
<1>2. SubSeq(s, 1, Len(s)) = s
  BY SubSeqFull
<1>3. /\ SubSeq(t, 1, Len(s)) \in Seq(Nat)
      /\ Len(SubSeq(t, 1, Len(s))) = Len(s)
      /\ \A i \in 1 .. Len(s) : SubSeq(t, 1, Len(s))[i] = t[i]
  <2> DEFINE n == Len(s)
             u == SubSeq(t, 1, n)
  <2>1. n \in Nat /\ n <= Len(t)
    BY <1>1
  <2> HIDE DEF n
  <2>2. /\ u \in Seq(Nat)
        /\ Len(u) = IF 1 <= n THEN n - 1 + 1 ELSE 0
        /\ \A i \in 1 .. n - 1 + 1 : u[i] = t[1 + i - 1]
    BY <2>1, Piece
  <2> HIDE DEF u
  <2>3. Len(u) = n /\ \A i \in 1 .. n : u[i] = t[i]
    BY <2>1, <2>2
  <2> QED BY <2>2, <2>3 DEF n, u
<1>4. SubSeq(t, 1, Len(s)) = s
  <2> DEFINE u == SubSeq(t, 1, Len(s))
  <2>1. u \in Seq(Nat) /\ Len(u) = Len(s) /\ \A i \in 1 .. Len(u) : u[i] = s[i]
    BY <1>3 DEF Begins
  <2> HIDE DEF u
  <2>2. u = s
    BY <2>1, SeqEqual
  <2> QED BY <2>2 DEF u
<1> QED BY <1>1, <1>2, <1>4 DEF IsPrefix

\* What fits stays fitting when bytes are queued.
LEMMA ConsistentStays ==
  ASSUME NEW m \in Segments, NEW done \in BOOLEAN, NEW gone \in BOOLEAN, done => gone,
         NEW end \in Nat, NEW next \in Nat, end <= next,
         NEW q \in Seq(Nat), NEW r \in Seq(Nat), Begins(q, r), Consistent(m, done, end, q)
  PROVE  Consistent(m, gone, next, r)
<1>1. m.ack \in Nat /\ m.seq \in Nat /\ m.data \in Seq(Nat) /\ Len(m.data) \in Nat
      /\ Len(q) \in Nat /\ Len(r) \in Nat
  BY DEF Segments
<1>2. m.from = "client" /\ "SYN" \notin m.flags => gone \/ m.ack <= next
  BY <1>1 DEF Consistent
<1>3. ASSUME m.from = "server", m.data # <<>>
      PROVE  Replied(m, r)
  <2>1. Replied(m, q)
    BY <1>3 DEF Consistent
  <2>2. Base <= m.seq /\ m.seq + Len(m.data) <= Base + Len(r)
    BY <1>1, <2>1, Numbers DEF Replied, Begins
  <2>3. ASSUME NEW i \in 1 .. Len(m.data)
        PROVE  m.data[i] = r[m.seq - Base + i]
    <3>1. m.seq - Base + i \in 1 .. Len(q)
      <4>1. Base <= m.seq /\ m.seq + Len(m.data) <= Base + Len(q)
        BY <2>1 DEF Replied
      <4>2. Base \in Nat /\ i \in Nat /\ 1 <= i /\ i <= Len(m.data)
        BY <1>1, Numbers
      <4> QED BY <1>1, <4>1, <4>2, SMTT(30)
    <3> QED BY <2>1, <3>1 DEF Replied, Begins
  <2> QED BY <2>2, <2>3 DEF Replied
<1> QED BY <1>2, <1>3 DEF Consistent

\* A step of the server's that leaves what is queued and received alone.
LEMMA BytesKept ==
  ASSUME TypeInv, ReplyBytes, UNCHANGED <<seen, queued, tx_buf_end, tx_buf>>,
         tx_buf_beg' \in Nat, tx_buf_beg <= tx_buf_beg', tx_buf_beg' <= tx_buf_end,
         state' = "ESTABLISHED" =>
           state = "ESTABLISHED" \/ (tx_buf_beg' = tx_buf_end /\ tx_buf_end = Base),
         Done => Done', NEW sent, net' \subseteq net \union sent,
         \A m \in sent : Consistent(m, Done', tx_buf_end, queued),
         state # "LISTEN"
  PROVE  ReplyBytes'
<1>1. /\ tx_buf_beg \in Nat /\ tx_buf_end \in Nat /\ queued \in Seq(Nat)
      /\ net \subseteq Segments
      /\ tx_buf_beg <= tx_buf_end /\ tx_buf_end - tx_buf_beg <= TCP_TX_BUF_LEN
  BY DEF TypeInv, TypeOK, ReplyBytes
<1>2. tx_buf_beg' <= tx_buf_end' /\ tx_buf_end' - tx_buf_beg' <= TCP_TX_BUF_LEN
  <2>1. tx_buf_end' = tx_buf_end
    OBVIOUS
  <2>2. tx_buf_end - tx_buf_beg' <= TCP_TX_BUF_LEN
    <3> DEFINE beg == tx_buf_beg'
    <3>1. TCP_TX_BUF_LEN \in Nat
      BY Numbers
    <3>2. beg \in Nat /\ tx_buf_beg <= beg
      OBVIOUS
    <3> HIDE DEF beg
    <3>3. tx_buf_end - beg <= TCP_TX_BUF_LEN
      BY <1>1, <3>1, <3>2
    <3> QED BY <3>3 DEF beg
  <2> QED BY <2>1, <2>2
<1>3. state' = "ESTABLISHED" => TxHolds(tx_buf_beg', tx_buf_end', tx_buf', queued')
  <2>1. CASE state' = "ESTABLISHED" /\ state = "ESTABLISHED"
    <3>1. TxHolds(tx_buf_beg, tx_buf_end, tx_buf, queued)
      BY <2>1 DEF ReplyBytes
    <3>2. TxHolds(tx_buf_beg', tx_buf_end, tx_buf, queued)
      BY <1>1, <3>1, Numbers DEF TxHolds
    <3> QED BY <3>2
  <2>2. CASE state' = "ESTABLISHED" /\ tx_buf_beg' = tx_buf_end /\ tx_buf_end = Base
    <3>1. TxHolds(tx_buf_beg', tx_buf_end, tx_buf, queued)
      BY <2>2, Numbers DEF TxHolds
    <3> QED BY <3>1
  <2> QED BY <2>1, <2>2
<1>4. Done \in BOOLEAN /\ Done' \in BOOLEAN
  BY DEF Done
<1> HIDE DEF Done
<1>5. \A m \in net : Consistent(m, Done', tx_buf_end, queued)
  <2>1. TAKE m \in net
  <2>2. m \in Segments /\ Consistent(m, Done, tx_buf_end, queued)
    BY <1>1 DEF ReplyBytes
  <2>3. Begins(queued, queued) /\ tx_buf_end <= tx_buf_end
    BY <1>1 DEF Begins
  <2> QED BY <1>1, <1>4, <2>2, <2>3, ConsistentStays
<1>6. \A m \in net' : Consistent(m, Done', tx_buf_end', queued')
  BY <1>5
<1>7. Begins(seen', queued')
  BY DEF ReplyBytes
<1> QED BY <1>2, <1>3, <1>6, <1>7 DEF ReplyBytes

\* A step of the client's.
LEMMA BytesKeptByClient ==
  ASSUME TypeInv, ReplyBytes, ClientStep, Begins(seen', queued),
         NEW sent, net' \subseteq net \union sent,
         \A m \in sent : Consistent(m, Done, tx_buf_end, queued)
  PROVE  ReplyBytes'
<1>1. /\ state' = state /\ (Done' <=> Done) /\ queued' = queued
      /\ tx_buf_beg' = tx_buf_beg /\ tx_buf_end' = tx_buf_end /\ tx_buf' = tx_buf
  BY DEF ClientStep, txVars, mainVars, Done
<1> HIDE DEF Done
<1>2. \A m \in net' : Consistent(m, Done, tx_buf_end, queued)
  BY DEF ReplyBytes
<1>3. \A m \in net' : Consistent(m, Done', tx_buf_end', queued')
  BY <1>1, <1>2 DEF Consistent
<1>4. state' = "ESTABLISHED" => TxHolds(tx_buf_beg', tx_buf_end', tx_buf', queued')
  BY <1>1 DEF ReplyBytes
<1> QED BY <1>1, <1>3, <1>4 DEF ReplyBytes

LEMMA TcpRecvBytes ==
  ASSUME TypeInv, ReplyCounts, ReplyBytes, tcp_recv, ~ receded'
  PROVE  ReplyBytes'
<1>1. PICK m \in net :
        /\ m.from = "client"
        /\ \/ RecvSyn(m) \/ RecvHandshakeAck(m) \/ RecvEstablished(m)
           \/ RecvLastAck(m) \/ RecvNothing(m)
  BY DEF tcp_recv
<1>2. UNCHANGED <<seen, queued>> /\ client' = client
  BY DEF tcp_recv, clientVars, mainVars
<1>3. /\ m \in Segments /\ m.ack \in Nat /\ TypeOK
      /\ tx_buf_beg \in Nat /\ tx_buf_end \in Nat
  BY DEF TypeInv, TypeOK, Segments
<1>4. CASE RecvSyn(m)
  <2>1. /\ state = "LISTEN" /\ state' = "SYN_REC" /\ net' \subseteq net
        /\ tx_buf_beg' = ISS /\ tx_buf_end' = ISS + 1
    BY <1>4, NetGrows DEF RecvSyn
  <2>2. \A k \in net' : k.from = "client" /\ "SYN" \in k.flags
    BY <2>1 DEF TypeInv, Handshake
  <2>3. tx_buf_beg' <= tx_buf_end' /\ tx_buf_end' - tx_buf_beg' <= TCP_TX_BUF_LEN
    <3>1. ISS \in Nat /\ TCP_TX_BUF_LEN \in Nat \ {0}
      BY StreamAssumption
    <3> QED BY <2>1, <3>1
  <2>4. Begins(seen', queued')
    BY <1>2 DEF ReplyBytes
  <2> QED BY <2>1, <2>2, <2>3, <2>4 DEF ReplyBytes, Consistent
<1>5. CASE RecvHandshakeAck(m) \/ RecvEstablished(m)
  <2> DEFINE sent == {tcp_send({"ACK"}, <<>>)}
  <2>1. /\ Store(m) /\ state \in {"SYN_REC", "ESTABLISHED"} /\ tx_buf_beg' \in Nat
        /\ tx_buf_end' = tx_buf_end /\ tx_buf' = tx_buf
    BY <1>3, <1>5, EstablishedMoves DEF RecvHandshakeAck
  <2>2. /\ rx_buf_beg' = rx_buf_beg /\ rx_buf_end' \in Nat
        /\ net' \subseteq net \union sent
    <3>1. PICK n \in Nat : Stores(m, n)
      BY <1>3, <2>1, StoreMoves
    <3>2. rx_buf_end \in Nat
      BY <1>3 DEF TypeOK
    <3> QED BY <3>1, <3>2 DEF Stores
  <2>3. rx_buf_beg' \in Nat
    BY <1>3, <2>2 DEF TypeOK
  <2>4. tcp_send({"ACK"}, <<>>).from = "server" /\ tcp_send({"ACK"}, <<>>).data = <<>>
    BY <1>3, <2>1, <2>2, <2>3, PlainSent
  <2>5. \A k \in sent : Consistent(k, Done', tx_buf_end, queued)
    BY <2>4 DEF Consistent
  <2> HIDE DEF sent
  <2>6. /\ tx_buf_beg <= tx_buf_beg' /\ tx_buf_beg' <= tx_buf_end
        /\ state' = "ESTABLISHED" =>
             state = "ESTABLISHED" \/ (tx_buf_beg' = tx_buf_end /\ tx_buf_end = Base)
    <3>1. CASE RecvHandshakeAck(m)
      <4>1. state = "SYN_REC" /\ m.ack = tx_buf_end /\ tx_buf_beg' = m.ack
        BY <3>1 DEF RecvHandshakeAck
      <4>2. tx_buf_end = Base /\ tx_buf_beg <= tx_buf_end
        BY <4>1 DEF TypeInv, Handshake, ReplyBytes
      <4>3. tx_buf_beg <= tx_buf_beg' /\ tx_buf_beg' <= tx_buf_end
        BY <1>3, <4>1, <4>2
      <4> QED BY <4>1, <4>2, <4>3
    <3>2. CASE RecvEstablished(m)
      <4>1. /\ state = "ESTABLISHED" /\ "SYN" \notin m.flags
            /\ tx_buf_beg' = tx_buf_beg \/ tx_buf_beg' = m.ack
            /\ tx_buf_beg <= tx_buf_beg'
        BY <1>3, <3>2, EstablishedMoves
      <4>2. m.ack <= tx_buf_end /\ tx_buf_beg <= tx_buf_end
        BY <1>1, <4>1 DEF ReplyBytes, Consistent, Done
      <4> QED BY <4>1, <4>2
    <3> QED BY <1>5, <3>1, <3>2
  <2>7. (Done => Done') /\ state # "LISTEN"
    BY <2>1 DEF Done
  <2> HIDE DEF Done
  <2> QED BY <1>2, <2>1, <2>2, <2>5, <2>6, <2>7, BytesKept
<1>6. CASE RecvLastAck(m) \/ RecvNothing(m)
  <2>1. /\ state' = state \/ (state = "LAST_ACK" /\ state' = "CLOSED")
        /\ tx_buf_beg' = tx_buf_beg /\ tx_buf_end' = tx_buf_end /\ tx_buf' = tx_buf
        /\ net' \subseteq net
    BY <1>6, NetGrows DEF RecvLastAck, RecvNothing, txVars
  <2>2. (Done => Done') /\ (state' # "LISTEN" => state # "LISTEN")
        /\ (state' = "ESTABLISHED" => state = "ESTABLISHED")
    BY <2>1 DEF Done
  <2>3. \A k \in net' : Consistent(k, Done', tx_buf_end', queued')
    BY <1>2, <2>1, <2>2 DEF ReplyBytes, Consistent
  <2> QED BY <1>2, <2>1, <2>2, <2>3 DEF ReplyBytes
<1> QED BY <1>1, <1>4, <1>5, <1>6

LEMMA SetStateBytes ==
  ASSUME TypeInv, ReplyCounts, ReplyBytes, tcp_set_state
  PROVE  ReplyBytes'
<1>1. /\ state \in {"SYN_REC", "ESTABLISHED", "LAST_ACK"}
      /\ rx_buf_beg' = rx_buf_beg /\ rx_buf_end' = rx_buf_end
      /\ UNCHANGED <<seen, queued, tx_buf_beg, tx_buf_end, tx_buf>>
      /\ \/ state' = state /\ net' \subseteq net \union Again
         \/ state' = "CLOSED" /\ net' \subseteq net \union {tcp_send({"RST", "ACK"}, <<>>)}
  BY SetStateSends
<1>2. /\ rx_buf_beg' \in Nat /\ rx_buf_end' \in Nat /\ tx_buf_beg' \in Nat /\ TypeOK
      /\ tx_buf_beg \in Nat /\ tx_buf_end \in Nat /\ queued \in Seq(Nat)
  BY <1>1 DEF TypeInv, TypeOK
<1>3. /\ tx_buf_beg <= tx_buf_beg' /\ tx_buf_beg' <= tx_buf_end
      /\ tx_buf_end - tx_buf_beg <= TCP_TX_BUF_LEN
  BY <1>1, <1>2 DEF ReplyBytes
<1>4. /\ Done => Done'
      /\ state # "LISTEN"
      /\ state' = "ESTABLISHED" => state = "ESTABLISHED"
  BY <1>1 DEF Done
<1>5. CASE state' = state /\ net' \subseteq net \union Again
  <2>1. ASSUME NEW m \in Again
        PROVE  Consistent(m, Done', tx_buf_end, queued)
    <3>1. UNCHANGED <<rxVars, txVars>>
      BY DEF tcp_set_state
    <3>2. /\ m \in Segments /\ m.from = "server" /\ m.seq = tx_buf_beg
          /\ m.data # <<>> =>
               /\ state = "ESTABLISHED"
               /\ Len(m.data) <= Used(tx_buf_beg, tx_buf_end, TCP_TX_BUF_LEN)
               /\ \A i \in 1 .. Len(m.data) :
                    m.data[i] = tx_buf[Slot(tx_buf_beg + i - 1, TCP_TX_BUF_LEN)]
      BY <1>1, <1>2, <3>1, AgainSends
    <3>3. ASSUME m.data # <<>>
          PROVE  Replied(m, queued)
      <4>1. /\ state = "ESTABLISHED"
            /\ Base <= tx_buf_beg /\ tx_buf_end = Base + Len(queued)
        BY <3>2, <3>3 DEF ReplyCounts, ReplyBytes, TxHolds
      <4>2. Used(tx_buf_beg, tx_buf_end, TCP_TX_BUF_LEN) = tx_buf_end - tx_buf_beg
        <5>1. tx_buf_beg \in Int /\ tx_buf_end \in Int /\ tx_buf_beg <= tx_buf_end
              /\ tx_buf_end - tx_buf_beg <= TCP_TX_BUF_LEN
          BY <1>1, <1>2, <1>3
        <5> QED BY <5>1, Numbers, UsedAndRoom
      <4>3. Len(m.data) \in Nat /\ Len(m.data) <= tx_buf_end - tx_buf_beg
        BY <3>2, <3>3, <4>2 DEF Segments
      <4>4. Base <= m.seq /\ m.seq + Len(m.data) <= Base + Len(queued)
        BY <1>2, <3>2, <4>1, <4>3
      <4>5. ASSUME NEW i \in 1 .. Len(m.data)
            PROVE  m.data[i] = queued[m.seq - Base + i]
        <5> DEFINE n == tx_buf_beg + i - 1
        <5>1. n \in tx_buf_beg .. tx_buf_end - 1 /\ n - Base + 1 = m.seq - Base + i
          BY <1>2, <3>2, <4>3, Numbers
        <5>2. m.data[i] = tx_buf[Slot(n, TCP_TX_BUF_LEN)]
          BY <3>2, <3>3
        <5> HIDE DEF n
        <5>3. tx_buf[Slot(n, TCP_TX_BUF_LEN)] = queued[n - Base + 1]
          BY <4>1, <5>1 DEF ReplyBytes, TxHolds
        <5> QED BY <5>1, <5>2, <5>3
      <4> QED BY <4>4, <4>5 DEF Replied
    <3> QED BY <3>2, <3>3 DEF Consistent
  <2> HIDE DEF Done
  <2> QED BY <1>1, <1>2, <1>3, <1>4, <1>5, <2>1, BytesKept
<1>6. CASE state' = "CLOSED" /\ net' \subseteq net \union {tcp_send({"RST", "ACK"}, <<>>)}
  <2> DEFINE sent == {tcp_send({"RST", "ACK"}, <<>>)}
  <2>1. /\ tcp_send({"RST", "ACK"}, <<>>).from = "server"
        /\ tcp_send({"RST", "ACK"}, <<>>).data = <<>>
    BY <1>2, PlainSent
  <2>2. /\ net' \subseteq net \union sent
        /\ \A m \in sent : Consistent(m, Done', tx_buf_end, queued)
    BY <1>6, <2>1 DEF Consistent
  <2> HIDE DEF sent, Done
  <2> QED BY <1>1, <1>2, <1>3, <1>4, <2>2, BytesKept
<1> QED BY <1>1, <1>5, <1>6

LEMMA WriteBytes ==
  ASSUME TypeInv, ReplyCounts, ReplyBytes,
         NEW len \in 1 .. Len(Reply) - asked, sock_write(len)
  PROVE  ReplyBytes'
<1>1. PICK data \in Seq(Nat) :
        /\ Len(data) <= Room(tx_buf_beg, tx_buf_end, TCP_TX_BUF_LEN)
        /\ tx_buf_end' = tx_buf_end + Len(data)
        /\ tx_buf' = Fill(tx_buf, tx_buf_end, data, TCP_TX_BUF_LEN)
        /\ queued' = queued \o data
  BY WriteMoves DEF TypeInv
<1>2. /\ state = "ESTABLISHED" /\ state' = state /\ tx_buf_beg' = tx_buf_beg
      /\ UNCHANGED <<seen, net>>
  BY DEF sock_write, clientVars, netVars
<1>3. /\ tx_buf_beg \in Nat /\ tx_buf_end \in Nat /\ queued \in Seq(Nat) /\ seen \in Seq(Nat)
      /\ net \subseteq Segments
  BY DEF TypeInv, TypeOK
<1>4. /\ tx_buf_beg <= tx_buf_end /\ tx_buf_end - tx_buf_beg <= TCP_TX_BUF_LEN
      /\ tx_buf_end = Base + Len(queued) /\ Base <= tx_buf_beg
  BY <1>2 DEF ReplyCounts, ReplyBytes, TxHolds
<1>5. /\ queued' \in Seq(Nat) /\ Begins(queued, queued')
      /\ Len(queued') = Len(queued) + Len(data)
      /\ \A i \in 1 .. Len(data) : queued'[Len(queued) + i] = data[i]
  BY <1>1, <1>3, BeginsConcat
<1>6. Len(data) \in Nat /\ Len(queued) \in Nat
  BY <1>3
<1>7. Len(data) <= TCP_TX_BUF_LEN - (tx_buf_end - tx_buf_beg)
  <2>1. tx_buf_beg \in Int /\ tx_buf_end \in Int
    BY <1>3
  <2> QED BY <1>1, <1>4, <2>1, Numbers, UsedAndRoom
<1> DEFINE end == tx_buf_end + Len(data)
<1>8. /\ end \in Nat /\ tx_buf_end <= end /\ tx_buf_beg <= end
      /\ end - tx_buf_beg <= TCP_TX_BUF_LEN
  BY <1>3, <1>4, <1>6, <1>7, Numbers
<1>9. TxHolds(tx_buf_beg, end, tx_buf', queued')
  <2>1. ASSUME NEW n \in tx_buf_beg .. end - 1
        PROVE  tx_buf'[Slot(n, TCP_TX_BUF_LEN)] = queued'[n - Base + 1]
    <3>1. n \in Int /\ tx_buf_end \in Int
      BY <1>3
    <3>2. CASE n < tx_buf_end
      <4>1. tx_buf_end - n + Len(data) <= TCP_TX_BUF_LEN + 1
        BY <1>3, <1>6, <1>7, <3>2, Numbers
      <4>2. Fill(tx_buf, tx_buf_end, data, TCP_TX_BUF_LEN)[Slot(n, TCP_TX_BUF_LEN)]
              = tx_buf[Slot(n, TCP_TX_BUF_LEN)]
        BY <3>1, <3>2, <4>1, Numbers, FillStores
      <4>3. n \in tx_buf_beg .. tx_buf_end - 1
        BY <1>3, <3>2
      <4>4. tx_buf[Slot(n, TCP_TX_BUF_LEN)] = queued[n - Base + 1]
        BY <1>2, <4>3 DEF ReplyBytes, TxHolds
      <4>5. n - Base + 1 \in 1 .. Len(queued)
        BY <1>3, <1>4, <1>6, <4>3, Numbers
      <4>6. queued'[n - Base + 1] = queued[n - Base + 1]
        BY <1>5, <4>5 DEF Begins
      <4> QED BY <1>1, <4>2, <4>4, <4>6
    <3>3. CASE tx_buf_end <= n
      <4>1. n - tx_buf_end < Len(data) /\ Len(data) <= TCP_TX_BUF_LEN + 1
        BY <1>3, <1>4, <1>6, <1>7, <1>8, Numbers
      <4>2. Fill(tx_buf, tx_buf_end, data, TCP_TX_BUF_LEN)[Slot(n, TCP_TX_BUF_LEN)]
              = data[n - tx_buf_end + 1]
        BY <3>1, <3>3, <4>1, Numbers, FillStores
      <4>3. n - tx_buf_end + 1 \in 1 .. Len(data)
        BY <1>6, <3>1, <3>3, <4>1
      <4>4. Len(queued) + (n - tx_buf_end + 1) = n - Base + 1
        BY <1>3, <1>4, <1>6, Numbers
      <4>5. queued'[n - Base + 1] = data[n - tx_buf_end + 1]
        BY <1>5, <4>3, <4>4, SMTT(30)
      <4> QED BY <1>1, <4>2, <4>5
    <3> QED BY <1>3, <3>1, <3>2, <3>3
  <2> QED BY <1>4, <2>1 DEF TxHolds
<1>10. \A m \in net : Consistent(m, Done, end, queued')
  <2>1. Done \in BOOLEAN
    BY DEF Done
  <2> HIDE DEF Done, end
  <2>2. TAKE m \in net
  <2>3. m \in Segments /\ Consistent(m, Done, tx_buf_end, queued)
    BY <1>3 DEF ReplyBytes
  <2> QED BY <1>3, <1>5, <1>8, <2>1, <2>3, ConsistentStays
<1>11. tx_buf_end' = end /\ (Done' <=> Done)
  BY <1>1, <1>2 DEF Done
<1> HIDE DEF end, Done
<1>12. \A m \in net' : Consistent(m, Done', tx_buf_end', queued')
  BY <1>2, <1>10, <1>11 DEF Consistent
<1>13. Begins(seen', queued')
  <2>1. Begins(seen, queued)
    BY DEF ReplyBytes
  <2>2. Begins(seen, queued')
    BY <1>3, <1>5, <2>1, BeginsTransitive
  <2> QED BY <1>2, <2>2
<1>14. TxHolds(tx_buf_beg', tx_buf_end', tx_buf', queued')
  BY <1>2, <1>9, <1>11
<1>15. tx_buf_beg' <= tx_buf_end' /\ tx_buf_end' - tx_buf_beg' <= TCP_TX_BUF_LEN
  BY <1>2, <1>8, <1>11
<1> QED BY <1>12, <1>13, <1>14, <1>15 DEF ReplyBytes

\* The client acknowledges no more than was queued.
LEMMA ClientAcks ==
  ASSUME TypeInv, client' \in ClientState, state # "LISTEN", ClientStep, ReplyCounts,
         ReplyCounts', client'.state \in {"OPEN", "ENDED"}, Begins(seen', queued),
         seen' \in Seq(Nat)
  PROVE  Done \/ client'.rcv <= tx_buf_end
<1>1. state' = state
  BY DEF ClientStep
<1>2. CASE client'.state = "ENDED"
  BY <1>1, <1>2 DEF ReplyCounts, Done
<1>3. CASE client'.state = "OPEN"
  <2>1. client'.rcv = Base + Len(seen')
    BY <1>3 DEF ReplyCounts
  <2>2. tx_buf_end = Base + Len(queued)
    BY DEF ReplyCounts
  <2>3. Len(seen') \in Nat /\ Len(queued) \in Nat /\ Len(seen') <= Len(queued)
    BY DEF Begins, TypeInv, TypeOK
  <2>4. Base + Len(seen') <= Base + Len(queued)
    BY <2>3, Numbers
  <2> QED BY <2>1, <2>2, <2>4
<1> QED BY <1>2, <1>3

\* The bytes a client takes from a segment continue those it has.
LEMMA ClientTakes ==
  ASSUME TypeInv, ReplyCounts, ReplyBytes, NEW m \in net, m.from = "server", ClientTook(m)
  PROVE  Begins(seen', queued)
<1> DEFINE new == NewData(m)
<1>1. /\ m \in Segments /\ TypeOK /\ seen \in Seq(Nat) /\ queued \in Seq(Nat)
      /\ client \in ClientState
  BY DEF TypeInv, TypeOK
<1>2. /\ client.state = "OPEN" /\ seen' = seen \o new
      /\ client.rcv = Base + Len(seen) /\ Begins(seen, queued)
  BY DEF ClientTook, ReplyCounts, ReplyBytes
<1>3. /\ new \in Seq(Nat)
      /\ new # <<>> =>
           /\ m.seq <= client.rcv
           /\ m.data # <<>>
           /\ client.rcv + Len(new) = m.seq + Len(m.data)
           /\ \A i \in 1 .. Len(new) : new[i] = m.data[client.rcv - m.seq + i]
  BY <1>1, NewDataProperties
<1> HIDE DEF new
<1>4. CASE new = <<>>
  <2>1. seen' = seen
    BY <1>1, <1>2, <1>4, ConcatEmptySeq
  <2> QED BY <1>2, <2>1
<1>5. CASE new # <<>>
  <2>1. Replied(m, queued)
    BY <1>3, <1>5 DEF ReplyBytes, Consistent
  <2>2. /\ Base <= m.seq /\ m.seq + Len(m.data) <= Base + Len(queued)
        /\ \A i \in 1 .. Len(m.data) : m.data[i] = queued[m.seq - Base + i]
    BY <2>1 DEF Replied
  <2>3. /\ m.seq \in Nat /\ client.rcv \in Nat /\ Len(m.data) \in Nat
        /\ Len(new) \in Nat /\ Len(seen) \in Nat /\ Len(queued) \in Nat
    BY <1>1, <1>3, SMTT(30) DEF Segments, ClientState
  <2>4. /\ Len(seen \o new) = Len(seen) + Len(new)
        /\ \A i \in 1 .. Len(seen) + Len(new) :
             (seen \o new)[i] = IF i <= Len(seen) THEN seen[i] ELSE new[i - Len(seen)]
    BY <1>1, <1>3, ConcatProperties
  <2>5. Len(seen) + Len(new) <= Len(queued)
    BY <1>2, <1>3, <1>5, <2>2, <2>3, Numbers
  <2>6. ASSUME NEW i \in 1 .. Len(seen) + Len(new)
        PROVE  queued[i] = (seen \o new)[i]
    <3>1. CASE i <= Len(seen)
      <4>1. i \in 1 .. Len(seen)
        BY <2>3, <3>1
      <4>2. queued[i] = seen[i]
        BY <1>2, <4>1 DEF Begins
      <4> QED BY <2>4, <3>1, <4>2
    <3>2. CASE ~ (i <= Len(seen))
      <4> DEFINE j == i - Len(seen)
                 k == client.rcv - m.seq + j
      <4>1. j \in 1 .. Len(new)
        BY <2>3, <3>2
      <4>2. k \in 1 .. Len(m.data) /\ m.seq - Base + k = i
        <5>1. /\ Base \in Nat /\ m.seq <= client.rcv /\ client.rcv = Base + Len(seen)
              /\ client.rcv + Len(new) = m.seq + Len(m.data)
          BY <1>2, <1>3, <1>5, Numbers
        <5>2. j \in Nat /\ 1 <= j /\ j <= Len(new) /\ j = i - Len(seen) /\ i \in Nat
          BY <2>3, <4>1
        <5> HIDE DEF j
        <5>3. k \in Nat /\ 1 <= k /\ k <= Len(m.data)
          BY <2>3, <5>1, <5>2, SMTT(30)
        <5>4. m.seq - Base + k = i
          BY <2>3, <5>1, <5>2
        <5> QED BY <2>3, <5>3, <5>4
      <4>3. new[j] = m.data[k]
        BY <1>3, <1>5, <4>1
      <4>4. m.data[k] = queued[i]
        <5> HIDE DEF k
        <5> QED BY <2>2, <4>2
      <4> QED BY <2>4, <3>2, <4>3, <4>4
    <3> QED BY <3>1, <3>2
  <2> QED BY <1>2, <2>4, <2>5, <2>6 DEF Begins
<1> QED BY <1>4, <1>5

LEMMA ClientReceivesBytes ==
  ASSUME TypeInv, TypeInv', ReplyCounts, ReplyCounts', ReplyBytes, ClientReceives
  PROVE  ReplyBytes'
<1>1. PICK m \in net :
        /\ m.from = "server"
        /\ \/ ClientRecvSynAck(m) \/ ClientRecv(m)
           \/ ClientRecvAgain(m)  \/ ClientRecvReset(m)
  BY DEF ClientReceives
<1>2. ClientStep /\ state # "LISTEN"
  BY <1>1, ClientReceivesSends, ServerSent
<1>3. m \in Segments /\ client \in ClientState /\ client' \in ClientState /\ seen' \in Seq(Nat)
  BY DEF TypeInv, TypeOK
<1>4. Begins(seen', queued)
  <2>1. CASE ClientRecv(m)
    BY <1>1, <1>3, <2>1, ClientRecvMoves, ClientTakes
  <2>2. CASE ~ ClientRecv(m)
    <3>1. seen' = seen
      BY <1>1, <2>2 DEF ClientRecvSynAck, ClientRecvAgain, ClientRecvReset, clientVars
    <3> QED BY <3>1 DEF ReplyBytes
  <2> QED BY <2>1, <2>2
<1>5. CASE ClientRecvReset(m)
  <2> DEFINE sent == {}
  <2>1. net' \subseteq net \union sent
    BY <1>5, NetGrows DEF ClientRecvReset
  <2>2. \A k \in sent : Consistent(k, Done, tx_buf_end, queued)
    OBVIOUS
  <2> HIDE DEF sent
  <2> QED BY <1>2, <1>4, <2>1, <2>2, BytesKeptByClient
<1>6. CASE ~ ClientRecvReset(m)
  <2>1. PICK seq : net' \subseteq net \union {FromClient({"ACK"}, seq, <<>>)}
    BY ClientReceivesSends
  <2>2. client'.state \in {"OPEN", "ENDED"}
    <3>1. CASE ClientRecvSynAck(m)
      <4>1. \/ client.state = "OPEN" /\ client' = client
            \/ client' = [client EXCEPT !.state = "OPEN", !.una = m.ack, !.nxt = m.ack,
                                        !.edge = m.ack + m.win, !.rcv = m.seq + 1]
        BY <3>1 DEF ClientRecvSynAck
      <4> QED BY <1>3, <4>1 DEF ClientState
    <3>2. CASE ClientRecv(m)
      BY <1>3, <3>2, ClientRecvMoves DEF ClientTook
    <3>3. CASE ClientRecvAgain(m)
      BY <3>3 DEF ClientRecvAgain, clientVars
    <3> QED BY <1>1, <1>6, <3>1, <3>2, <3>3
  <2>3. Done \/ client'.rcv <= tx_buf_end
    BY <1>2, <1>3, <1>4, <2>2, ClientAcks
  <2> DEFINE sent == {FromClient({"ACK"}, seq, <<>>)}
  <2>4. \A k \in sent : Consistent(k, Done, tx_buf_end, queued)
    BY <2>3 DEF FromClient, Segment, Consistent
  <2>5. net' \subseteq net \union sent
    BY <2>1
  <2> HIDE DEF sent
  <2> QED BY <1>2, <1>4, <2>4, <2>5, BytesKeptByClient
<1> QED BY <1>5, <1>6

LEMMA BytesStep ==
  ASSUME TypeInv, TypeInv', ReplyCounts, ReplyCounts', ReplyBytes, [Next]_vars, ~ receded'
  PROVE  ReplyBytes'
<1>1. CASE tcp_recv
  BY <1>1, TcpRecvBytes
<1>2. CASE tcp_set_state
  BY <1>2, SetStateBytes
<1>3. CASE Write
  BY <1>3, WriteBytes DEF Write
<1>4. CASE ClientReceives
  BY <1>4, ClientReceivesBytes
<1>5. CASE ClientSends
  <2>1. PICK start \in {client.una, client.nxt}, end \in First .. FinSeq, fin \in BOOLEAN :
          start <= end /\ ClientSend(start, end, fin)
    BY <1>5 DEF ClientSends
  <2>2. PICK flags, data : ClientSent(start, end, fin, flags, data)
    BY <2>1, ClientSendMoves
  <2> DEFINE sent == {FromClient(flags, start, data)}
  <2>3. /\ net' \subseteq net \union sent /\ ClientStep
        /\ client.state = "OPEN" /\ client'.state = "OPEN" /\ client' \in ClientState
        /\ seen' = seen
    BY <2>2 DEF ClientSent
  <2>4. state # "LISTEN" /\ seen' \in Seq(Nat) /\ Begins(seen', queued)
    BY <2>3 DEF TypeInv, TypeOK, Handshake, ReplyBytes
  <2>5. Done \/ client'.rcv <= tx_buf_end
    BY <2>3, <2>4, ClientAcks
  <2>6. \A k \in sent : Consistent(k, Done, tx_buf_end, queued)
    BY <2>5 DEF FromClient, Segment, Consistent
  <2> HIDE DEF sent
  <2> QED BY <2>3, <2>4, <2>6, BytesKeptByClient
<1>6. CASE Connect
  <2> DEFINE sent == {Segment("client", {"SYN"}, IRS, 0, 0, <<>>)}
  <2>1. net' \subseteq net \union sent /\ ClientStep /\ seen' = seen
    BY <1>6, NetGrows DEF Connect
  <2>2. \A k \in sent : Consistent(k, Done, tx_buf_end, queued)
    BY DEF Segment, Consistent
  <2> HIDE DEF sent
  <2>3. Begins(seen', queued)
    BY <2>1 DEF ReplyBytes
  <2> QED BY <2>1, <2>2, <2>3, BytesKeptByClient
<1>7. CASE sock_read \/ Elapse \/ (\E m \in net : Lose(m)) \/ UNCHANGED vars
  <2>1. /\ UNCHANGED <<seen, queued, tx_buf_beg, tx_buf_end, tx_buf>> /\ state' = state
        /\ net' \subseteq net
    BY <1>7 DEF sock_read, Elapse, Lose, vars, txVars, mainVars, clientVars, netVars
  <2>2. \A m \in net' : Consistent(m, Done', tx_buf_end', queued')
    BY <2>1 DEF ReplyBytes, Consistent, Done
  <2> QED BY <2>1, <2>2 DEF ReplyBytes
<1>8. CASE ClientAbort
  <2>1. TypeOK /\ seen \in Seq(Nat) /\ queued \in Seq(Nat)
    BY DEF TypeInv, TypeOK
  <2>2. PICK m \in Segments : /\ net' \subseteq net \union {m}
                              /\ m.from = "client" /\ m.ack = client.rcv
    BY <1>8, <2>1, AbortMoves
  <2>3. client.state = "OPEN" /\ ClientStep /\ seen' = seen
    BY <1>8, <2>1, AbortMoves
  <2>4. client.rcv <= tx_buf_end
    <3>1. client.rcv = Base + Len(seen) /\ tx_buf_end = Base + Len(queued)
      BY <2>3 DEF ReplyCounts, TypeInv, Handshake
    <3>2. Len(seen) <= Len(queued) /\ Len(seen) \in Nat /\ Len(queued) \in Nat
      BY <2>1 DEF ReplyBytes, Begins
    <3>3. Base + Len(seen) <= Base + Len(queued)
      BY <3>2, Numbers
    <3> QED BY <3>1, <3>3
  <2> DEFINE sent == {m}
  <2>5. net' \subseteq net \union sent /\ \A k \in sent : Consistent(k, Done, tx_buf_end, queued)
    BY <2>2, <2>4 DEF Consistent
  <2> HIDE DEF sent
  <2>6. Begins(seen', queued)
    BY <2>3 DEF ReplyBytes
  <2> QED BY <2>3, <2>5, <2>6, BytesKeptByClient
<1> QED BY <1>1, <1>2, <1>3, <1>4, <1>5, <1>6, <1>7, <1>8 DEF Next

\* Nothing forgets that an old acknowledgement was taken.
LEMMA RecededStays ==
  ASSUME [Next]_vars, receded
  PROVE  receded'
BY DEF Next, vars, tcp_recv, RecvSyn, RecvHandshakeAck, RecvEstablished, RecvLastAck,
       RecvNothing, tcp_set_state, Elapse, sock_read, Write, sock_write, Connect,
       ClientReceives, ClientRecvSynAck, ClientRecv, ClientRecvAgain, ClientRecvReset,
       ClientSends, ClientSend, ClientAbort, ClientStep, Lose

LEMMA ReplyStep ==
  ASSUME TypeInv, TypeInv', ReplyInv, [Next]_vars
  PROVE  ReplyInv'
<1>1. ReplyCounts'
  BY CountsStep DEF ReplyInv
<1>2. ASSUME ~ receded'
      PROVE  ReplyBytes'
  <2>1. ~ receded
    BY <1>2, RecededStays
  <2> QED BY <1>1, <1>2, <2>1, BytesStep DEF ReplyInv
<1> QED BY <1>1, <1>2 DEF ReplyInv

\* What the client receives is what sock_write queued, in order, for every reply and
\* every network, unless an old acknowledgement has set tx_buf_beg back (tcp.c 106-139,
\* 346; sock.c 239-274).
THEOREM ReplyReceivedInOrder == Spec => []ReplyIntact
<1>1. TypeInv /\ ReplyInv => ReplyIntact
  BY BeginsIsPrefix DEF TypeInv, TypeOK, ReplyInv, ReplyBytes, ReplyIntact
<1>2. Init => ReplyInv
  BY DEF Init, ReplyInv, ReplyCounts, ReplyBytes, Begins
<1>3. TypeInv /\ TypeInv' /\ ReplyInv /\ [Next]_vars => ReplyInv'
  BY ReplyStep
<1> QED BY <1>1, <1>2, <1>3, TypeInvariant, PTL DEF Spec

=============================================================================
