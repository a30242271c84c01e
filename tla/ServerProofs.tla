----------------------------- MODULE ServerProofs -----------------------------
(***************************************************************************)
(* Proofs about Server for every number of sockets, every set of clients   *)
(* and every buffer length.                                                *)
(***************************************************************************)
EXTENDS Server, TLAPS

-----------------------------------------------------------------------------
(* The sockets a handler leaves are sockets.                               *)

\* What is clipped fits, and nothing stays nothing.
LEMMA ClipFits ==
  ASSUME NEW n \in Nat, NEW room \in Nat
  PROVE  Clip(n, room) \in 0 .. room /\ Clip(0, room) = 0
BY DEF Clip

\* Receiving keeps the state and the client, and bytes only if there are some.
LEMMA StoreSocket ==
  ASSUME NEW k \in Socket, NEW n \in Nat
  PROVE  /\ Store(k, n) \in Socket
         /\ Store(k, n).state = k.state
         /\ Store(k, n).dst = k.dst
         /\ Store(k, 0).rx = k.rx
<1> DEFINE room == TCP_RX_BUF_LEN - k.rx
<1>1. room \in Nat /\ k.rx + room = TCP_RX_BUF_LEN
  BY SocketAssumption DEF Socket
<1>2. Clip(n, room) \in 0 .. room /\ Clip(0, room) = 0
  BY <1>1, ClipFits
<1>3. k.rx + Clip(n, room) \in 0 .. TCP_RX_BUF_LEN /\ k.rx + 0 = k.rx
  BY <1>1, <1>2, SocketAssumption DEF Socket
<1> QED
  BY <1>2, <1>3 DEF Store, Socket

\* Restarting the retransmission timer makes a socket due.
LEMMA RestartSocket ==
  ASSUME NEW k \in Socket
  PROVE  /\ Restart(k) \in Socket
         /\ Restart(k).state = k.state
         /\ Restart(k).dst = k.dst
         /\ Restart(k).rx = k.rx
         /\ Restart(k).tx = k.tx
<1>1. 0 \in 0 .. RETRIES
  BY SocketAssumption
<1> QED
  BY <1>1 DEF Restart, Socket

\* An acknowledgement touches neither the state, the client nor received bytes.
LEMMA AckedSocket ==
  ASSUME NEW k \in Socket, NEW flags, NEW left \in 0 .. TCP_TX_BUF_LEN
  PROVE  /\ Acked(k, flags, left) \in Socket
         /\ Acked(k, flags, left).state = k.state
         /\ Acked(k, flags, left).dst = k.dst
         /\ Acked(k, flags, left).rx = k.rx
BY RestartSocket DEF Acked, Socket

\* Writing queues at most what there is room for.
LEMMA PutSocket ==
  ASSUME NEW k \in Socket, NEW n \in Nat
  PROVE  /\ Put(k, n) \in Socket
         /\ Put(k, n).state = k.state
         /\ Put(k, n).dst = k.dst
         /\ Put(k, n).rx = k.rx
<1> DEFINE room == TCP_TX_BUF_LEN - k.tx
<1>1. room \in Nat /\ k.tx + room = TCP_TX_BUF_LEN
  BY SocketAssumption DEF Socket
<1>2. Clip(n, room) \in 0 .. room
  BY <1>1, ClipFits
<1>3. k.tx + Clip(n, room) \in 0 .. TCP_TX_BUF_LEN
  BY <1>1, <1>2, SocketAssumption DEF Socket
<1> DEFINE queued == [Restart(k) EXCEPT !.tx = @ + Clip(n, room)]
<1>4. /\ queued \in Socket
      /\ queued.state = k.state
      /\ queued.dst = k.dst
      /\ queued.rx = k.rx
  BY <1>3, RestartSocket DEF Socket
<1>5. Put(k, n) = IF Clip(n, room) > 0 THEN queued ELSE k
  BY DEF Put
<1> HIDE DEF queued
<1> QED
  BY <1>4, <1>5

\* A timer sweep closes a connection it gives up and touches no data.
LEMMA TimerStepSocket ==
  ASSUME NEW k \in Socket
  PROVE  /\ TimerStep(k) \in Socket
         /\ TimerStep(k).state = IF GivesUp(k) THEN "CLOSED" ELSE k.state
         /\ TimerStep(k).dst = k.dst
         /\ TimerStep(k).rx = k.rx
<1>1. CASE GivesUp(k)
  <2>1. Expired(k)
    BY <1>1 DEF GivesUp
  <2> QED
    BY <1>1, <2>1 DEF TimerStep, Socket, States
<1>2. CASE Expired(k) /\ ~ GivesUp(k)
  <2>1. k.retries + 1 \in 0 .. RETRIES
    BY <1>2, SocketAssumption DEF GivesUp, Socket
  <2> QED
    BY <1>2, <2>1 DEF TimerStep, GivesUp, Socket
<1>3. CASE ~ Expired(k)
  BY <1>3 DEF TimerStep, GivesUp
<1> QED
  BY <1>1, <1>2, <1>3 DEF GivesUp

-----------------------------------------------------------------------------
(* Type correctness.                                                       *)

LEMMA InitTypeOK == Init => TypeOK
<1> SUFFICES ASSUME Init PROVE TypeOK
  OBVIOUS
<1>1. ASSUME NEW state \in States
      PROVE  ZeroSocket(state) \in Socket
  BY SocketAssumption DEF ZeroSocket, Socket
<1>2. PICK beyond \in BeyondStates :
        lo_sock = [i \in Slots |->
                     ZeroSocket(IF i \in Socks THEN "CLOSED" ELSE beyond)]
  BY DEF Init, tcp_init
<1>3. lo_sock \in [Slots -> Socket]
  BY <1>1, <1>2, SocketAssumption DEF States
<1>4. cur \in Slots /\ len \in 0 .. TCP_RX_BUF_LEN
  BY SocketAssumption DEF Init, Slots
<1> QED
  BY <1>3, <1>4 DEF Init, TypeOK, Points

\* A handler that changes one socket into a socket keeps the table.
LEMMA TableUpdate ==
  ASSUME TypeOK, NEW s \in Slots, NEW k \in Socket,
         lo_sock' = [lo_sock EXCEPT ![s] = k]
  PROVE  /\ lo_sock' \in [Slots -> Socket]
         /\ lo_sock'[s] = k
         /\ \A i \in Slots : i # s => lo_sock'[i] = lo_sock[i]
BY DEF TypeOK

LEMMA SocksAreSlots == Socks \subseteq Slots /\ SOCK_NUM \in Slots
BY SocketAssumption DEF Socks, Slots

LEMMA ReceiveTable ==
  ASSUME TypeOK, tcp_recv
  PROVE  lo_sock' \in [Slots -> Socket] /\ rx_wait' \in BOOLEAN
<1>1. PICK s \in Socks, r \in Remotes :
        \/ RecvSyn(s, r)
        \/ \E n \in 0 .. MaxSegLen : RecvHandshakeAck(s, r, n)
        \/ \E flags \in SUBSET {"FIN", "RST", "ACK"}, n \in 0 .. MaxSegLen,
              left \in 0 .. TCP_TX_BUF_LEN : RecvEstablished(s, r, flags, n, left)
        \/ RecvLastAck(s, r)
  BY DEF tcp_recv
<1>2. s \in Slots /\ lo_sock[s] \in Socket
  BY SocksAreSlots DEF TypeOK
<1>3. CASE RecvSyn(s, r)
  <2> DEFINE k == [Restart(lo_sock[s]) EXCEPT !.state = "SYN_REC", !.dst = r,
                                              !.rx = 0, !.tx = 1]
  <2>1. 0 \in 0 .. TCP_RX_BUF_LEN /\ 1 \in 0 .. TCP_TX_BUF_LEN
    BY SocketAssumption
  <2>2. k \in Socket
    BY <1>2, <2>1, RestartSocket DEF Socket, States
  <2>3. lo_sock' = [lo_sock EXCEPT ![s] = k]
    BY <1>2, <1>3 DEF RecvSyn, TypeOK
  <2> HIDE DEF k
  <2> QED
    BY <1>2, <1>3, <2>2, <2>3, TableUpdate DEF RecvSyn, TypeOK
<1>4. ASSUME NEW n \in 0 .. MaxSegLen, RecvHandshakeAck(s, r, n)
      PROVE  lo_sock' \in [Slots -> Socket] /\ rx_wait' \in BOOLEAN
  <2> DEFINE k == [Restart(Store(lo_sock[s], n)) EXCEPT
                     !.state = "ESTABLISHED", !.tx = 0]
  <2>1. n \in Nat /\ 0 \in 0 .. TCP_TX_BUF_LEN
    BY SocketAssumption
  <2>2. Restart(Store(lo_sock[s], n)) \in Socket
    BY <1>2, <2>1, StoreSocket, RestartSocket
  <2>3. k \in Socket
    BY <2>1, <2>2 DEF Socket, States
  <2>4. lo_sock' = [lo_sock EXCEPT ![s] = k]
    BY <1>2, <1>4 DEF RecvHandshakeAck, TypeOK
  <2> HIDE DEF k
  <2> QED
    BY <1>2, <1>4, <2>3, <2>4, TableUpdate DEF RecvHandshakeAck, TypeOK
<1>5. ASSUME NEW flags \in SUBSET {"FIN", "RST", "ACK"},
             NEW n \in 0 .. MaxSegLen, NEW left \in 0 .. TCP_TX_BUF_LEN,
             RecvEstablished(s, r, flags, n, left)
      PROVE  lo_sock' \in [Slots -> Socket] /\ rx_wait' \in BOOLEAN
  <2> DEFINE k == [Store(Acked(lo_sock[s], flags, left), n) EXCEPT
                     !.state = AfterFlags(flags)]
  <2>1. n \in Nat /\ AfterFlags(flags) \in States
    BY SocketAssumption DEF AfterFlags, States
  <2>2. Store(Acked(lo_sock[s], flags, left), n) \in Socket
    BY <1>2, <2>1, AckedSocket, StoreSocket
  <2>3. k \in Socket
    BY <2>1, <2>2 DEF Socket
  <2>4. lo_sock' = [lo_sock EXCEPT ![s] = k]
    BY <1>2, <1>5 DEF RecvEstablished, TypeOK
  <2> HIDE DEF k
  <2>5. rx_wait' \in BOOLEAN
    BY <1>5 DEF RecvEstablished, Wake, TypeOK
  <2> QED
    BY <1>2, <2>3, <2>4, <2>5, TableUpdate
<1>6. CASE RecvLastAck(s, r)
  <2> DEFINE k == [lo_sock[s] EXCEPT !.state = "CLOSED"]
  <2>1. k \in Socket
    BY <1>2 DEF Socket, States
  <2>2. lo_sock' = [lo_sock EXCEPT ![s] = k]
    BY <1>2, <1>6 DEF RecvLastAck, TypeOK
  <2> HIDE DEF k
  <2> QED
    BY <1>2, <1>6, <2>1, <2>2, TableUpdate DEF RecvLastAck, TypeOK
<1> QED
  BY <1>1, <1>3, <1>4, <1>5, <1>6

LEMMA SweepTable ==
  ASSUME TypeOK, tcp_set_state
  PROVE  lo_sock' \in [Slots -> Socket] /\ rx_wait' \in BOOLEAN
<1>1. ASSUME NEW i \in Slots
      PROVE  TimerStep(lo_sock[i]) \in Socket /\ lo_sock[i] \in Socket
  BY TimerStepSocket DEF TypeOK
<1>2. lo_sock' \in [Slots -> Socket]
  BY <1>1 DEF tcp_set_state
<1>3. rx_wait' \in BOOLEAN
  BY DEF tcp_set_state, TypeOK
<1> QED
  BY <1>2, <1>3

LEMMA ListenTable ==
  ASSUME TypeOK, SetListen(cur)
  PROVE  lo_sock' \in [Slots -> Socket]
<1>1. lo_sock[cur] \in Socket
  BY DEF TypeOK
<1> DEFINE k == [lo_sock[cur] EXCEPT !.state = "LISTEN", !.port = TRUE]
<1>2. k \in Socket
  BY <1>1 DEF Socket, States
<1>3. lo_sock' = [lo_sock EXCEPT ![cur] = k]
  BY DEF SetListen, TypeOK
<1> HIDE DEF k
<1> QED
  BY <1>2, <1>3, TableUpdate DEF TypeOK

LEMMA TakeTable ==
  ASSUME TypeOK, lo_sock[cur].rx > 0, TakeByte(cur)
  PROVE  lo_sock' \in [Slots -> Socket]
<1>1. lo_sock[cur] \in Socket
  BY DEF TypeOK
<1> DEFINE k == [lo_sock[cur] EXCEPT !.rx = @ - 1]
<1>2. lo_sock[cur].rx - 1 \in 0 .. TCP_RX_BUF_LEN
  BY <1>1, SocketAssumption DEF Socket
<1>3. k \in Socket
  BY <1>1, <1>2 DEF Socket
<1>4. lo_sock' = [lo_sock EXCEPT ![cur] = k]
  BY DEF TakeByte, TypeOK
<1> HIDE DEF k
<1> QED
  BY <1>3, <1>4, TableUpdate DEF TypeOK

LEMMA QueueTable ==
  ASSUME TypeOK, NEW n \in Nat, QueueBytes(cur, n)
  PROVE  lo_sock' \in [Slots -> Socket]
<1>1. lo_sock[cur] \in Socket
  BY DEF TypeOK
<1> DEFINE k == IF lo_sock[cur].state = "ESTABLISHED"
                THEN Put(lo_sock[cur], n) ELSE lo_sock[cur]
<1>2. k \in Socket
  BY <1>1, PutSocket
<1>3. lo_sock' = [lo_sock EXCEPT ![cur] = k]
  BY DEF QueueBytes, TypeOK
<1> HIDE DEF k
<1> QED
  BY <1>2, <1>3, TableUpdate DEF TypeOK

\* One step of sock_read's loop keeps the types.
LEMMA ReadTypeOK ==
  ASSUME TypeOK, NEW from, ReadOrWait(from)
  PROVE  TypeOK'
<1>1. lo_sock' \in [Slots -> Socket]
  <2>1. CASE MustWait(cur)
    BY <2>1 DEF ReadOrWait, TypeOK
  <2>2. CASE ~ MustWait(cur) /\ lo_sock[cur].rx > 0
    BY <2>2, TakeTable DEF ReadOrWait
  <2>3. CASE ~ MustWait(cur) /\ ~ lo_sock[cur].rx > 0
    BY <2>3 DEF ReadOrWait, TypeOK
  <2> QED
    BY <2>1, <2>2, <2>3
<1>2. pc' \in Points /\ sock_lock' \in BOOLEAN
  BY DEF ReadOrWait, Unlock, Goto, Points, InRequest
<1>3. rx_wait' \in BOOLEAN /\ sock_wait' \in Nat
  <2>1. cur \in Nat
    BY SocketAssumption DEF TypeOK, Slots
  <2>2. CASE MustWait(cur)
    BY <2>1, <2>2 DEF ReadOrWait
  <2>3. CASE ~ MustWait(cur)
    BY <2>3 DEF ReadOrWait, TypeOK
  <2> QED
    BY <2>2, <2>3
<1>4. UNCHANGED <<bound, cur, len>>
  BY DEF ReadOrWait
<1> QED
  BY <1>1, <1>2, <1>3, <1>4 DEF TypeOK

LEMMA LocalTypeOK ==
  ASSUME TypeOK, NEW from, NEW to \in Points, Local(from, to) \/ Lock(from, to)
  PROVE  TypeOK'
BY DEF TypeOK, Local, Lock, Goto

LEMMA MainTypeOK ==
  ASSUME TypeOK, Main
  PROVE  TypeOK'
<1> USE DEF Points, Locked, InRequest
<1>1. CASE Boot
  BY <1>1, LocalTypeOK DEF Boot
<1>2. CASE ScanLock
  BY <1>2, LocalTypeOK DEF ScanLock
<1>3. CASE Scan
  <2>1. lo_sock[cur].rx \in 0 .. TCP_RX_BUF_LEN
    BY DEF TypeOK, Socket
  <2> QED
    BY <1>3, <2>1 DEF Scan, Unlock, Goto, TypeOK
<1>4. CASE TestEstablished
  BY <1>4, LocalTypeOK DEF TestEstablished
<1>5. CASE TestClosed
  BY <1>5, LocalTypeOK DEF TestClosed
<1>6. CASE NextSocket
  <2>1. cur' \in Slots
    BY <1>6, SocketAssumption DEF NextSocket, TypeOK, Slots
  <2> QED
    BY <1>6, <2>1 DEF NextSocket, Goto, TypeOK
<1>7. CASE ListenLock
  BY <1>7, LocalTypeOK DEF ListenLock
<1>8. CASE sock_listen
  <2>1. lo_sock' \in [Slots -> Socket]
    BY <1>8, ListenTable DEF sock_listen
  <2> QED
    BY <1>8, <2>1 DEF sock_listen, Unlock, Goto, TypeOK
<1>9. CASE ReadLock
  BY <1>9, LocalTypeOK DEF ReadLock
<1>10. CASE sock_read
  <2>1. CASE lo_sock[cur].state \in RxBufStates
    BY <1>10, <2>1, ReadTypeOK DEF sock_read
  <2>2. CASE lo_sock[cur].state \notin RxBufStates
    BY <1>10, <2>2 DEF sock_read, Unlock, Goto, TypeOK
  <2> QED
    BY <2>1, <2>2
<1>11. CASE SpinEnds
  BY <1>11, LocalTypeOK DEF SpinEnds
<1>12. CASE sock_read_again
  BY <1>12, ReadTypeOK DEF sock_read_again
<1>13. CASE Parse
  BY <1>13, LocalTypeOK DEF Parse
<1>14. CASE HeaderLock
  BY <1>14, LocalTypeOK DEF HeaderLock
<1>15. CASE WriteHeader
  <2>1. lo_sock' \in [Slots -> Socket]
    BY <1>15, QueueTable, ReplyAssumption DEF WriteHeader
  <2> QED
    BY <1>15, <2>1 DEF WriteHeader, Unlock, Goto, TypeOK
<1>16. CASE DocumentLock
  BY <1>16, LocalTypeOK DEF DocumentLock
<1>17. CASE WriteDocument
  <2>1. lo_sock' \in [Slots -> Socket]
    BY <1>17, QueueTable, ReplyAssumption DEF WriteDocument
  <2> QED
    BY <1>17, <2>1 DEF WriteDocument, Unlock, Goto, TypeOK
<1> QED
  BY <1>1, <1>2, <1>3, <1>4, <1>5, <1>6, <1>7, <1>8, <1>9, <1>10, <1>11, <1>12,
     <1>13, <1>14, <1>15, <1>16, <1>17 DEF Main

LEMMA NextTypeOK == TypeOK /\ [Next]_vars => TypeOK'
<1> SUFFICES ASSUME TypeOK, [Next]_vars PROVE TypeOK'
  OBVIOUS
<1>1. CASE Main
  BY <1>1, MainTypeOK
<1>2. CASE Receive
  <2>1. lo_sock' \in [Slots -> Socket] /\ rx_wait' \in BOOLEAN
    BY <1>2, ReceiveTable DEF Receive
  <2>2. UNCHANGED <<sock_wait, bound>>
    BY <1>2 DEF Receive, tcp_recv, RecvSyn, RecvHandshakeAck, RecvEstablished,
                RecvLastAck
  <2> QED
    BY <1>2, <2>1, <2>2 DEF Receive, Interrupted, mainVars, TypeOK
<1>3. CASE TimerSweep
  <2>1. lo_sock' \in [Slots -> Socket] /\ rx_wait' \in BOOLEAN
    BY <1>3, SweepTable DEF TimerSweep
  <2> QED
    BY <1>3, <2>1 DEF TimerSweep, tcp_set_state, Interrupted, mainVars, TypeOK
<1>4. CASE LeaseChange
  BY <1>4 DEF LeaseChange, BindOrUnbind, Interrupted, mainVars, TypeOK
<1>5. ASSUME NEW s \in Socks, TimePasses(s)
      PROVE  TypeOK'
  <2> DEFINE k == [lo_sock[s] EXCEPT !.due = TRUE]
  <2>1. s \in Slots /\ k \in Socket
    BY SocksAreSlots DEF TypeOK, Socket
  <2>2. lo_sock' = [lo_sock EXCEPT ![s] = k]
    BY <1>5, <2>1 DEF TimePasses, Elapse, TypeOK
  <2> HIDE DEF k
  <2>3. lo_sock' \in [Slots -> Socket]
    BY <2>1, <2>2, TableUpdate
  <2> QED
    BY <1>5, <2>3 DEF TimePasses, Elapse, mainVars, TypeOK
<1>6. CASE UNCHANGED vars
  BY <1>6 DEF vars, TypeOK
<1> QED
  BY <1>1, <1>2, <1>3, <1>4, <1>5, <1>6 DEF Next

\* Every variable keeps its type: no buffer count leaves its buffer, no retry
\* count passes RETRIES, and main's index stays in the table or one behind it.
THEOREM TypeCorrect == Spec => []TypeOK
<1> QED
  BY InitTypeOK, NextTypeOK, PTL DEF Spec

-----------------------------------------------------------------------------
(* What the interrupt may do to a socket.                                  *)

\* A segment moves a socket along its life and no other socket at all: it is
\* accepted, established, finished or closed, and a connection that is left
\* established without a wakeup has received nothing.
LEMMA ReceiveMoves ==
  ASSUME TypeOK, tcp_recv
  PROVE  \E s \in Socks, r \in Remotes :
           /\ \A i \in Slots : i # s => lo_sock'[i] = lo_sock[i]
           /\ \/ /\ lo_sock[s].state = "LISTEN"
                 /\ lo_sock'[s].state = "SYN_REC" /\ lo_sock'[s].dst = r
                 /\ rx_wait' = rx_wait
              \/ /\ lo_sock[s].state = "SYN_REC"
                 /\ lo_sock'[s].state = "ESTABLISHED"
                 /\ lo_sock'[s].dst = lo_sock[s].dst
                 /\ rx_wait' = rx_wait
              \/ /\ lo_sock[s].state = "ESTABLISHED"
                 /\ lo_sock'[s].state \in {"ESTABLISHED", "LAST_ACK", "CLOSED"}
                 /\ lo_sock'[s].dst = lo_sock[s].dst
                 /\ \/ rx_wait' = (rx_wait /\ sock_wait # s)
                    \/ /\ rx_wait' = rx_wait
                       /\ lo_sock'[s].state = "ESTABLISHED"
                       /\ lo_sock'[s].rx = lo_sock[s].rx
              \/ /\ lo_sock[s].state = "LAST_ACK"
                 /\ lo_sock'[s].state = "CLOSED"
                 /\ rx_wait' = rx_wait
<1>1. PICK s \in Socks, r \in Remotes :
        \/ RecvSyn(s, r)
        \/ \E n \in 0 .. MaxSegLen : RecvHandshakeAck(s, r, n)
        \/ \E flags \in SUBSET {"FIN", "RST", "ACK"}, n \in 0 .. MaxSegLen,
              left \in 0 .. TCP_TX_BUF_LEN : RecvEstablished(s, r, flags, n, left)
        \/ RecvLastAck(s, r)
  BY DEF tcp_recv
<1>2. s \in Slots /\ lo_sock[s] \in Socket
  BY SocksAreSlots DEF TypeOK
<1> DEFINE Accepted ==
      /\ lo_sock[s].state = "LISTEN"
      /\ lo_sock'[s].state = "SYN_REC" /\ lo_sock'[s].dst = r
      /\ rx_wait' = rx_wait
    Shaken ==
      /\ lo_sock[s].state = "SYN_REC"
      /\ lo_sock'[s].state = "ESTABLISHED"
      /\ lo_sock'[s].dst = lo_sock[s].dst
      /\ rx_wait' = rx_wait
    Talked ==
      /\ lo_sock[s].state = "ESTABLISHED"
      /\ lo_sock'[s].state \in {"ESTABLISHED", "LAST_ACK", "CLOSED"}
      /\ lo_sock'[s].dst = lo_sock[s].dst
      /\ \/ rx_wait' = (rx_wait /\ sock_wait # s)
         \/ /\ rx_wait' = rx_wait
            /\ lo_sock'[s].state = "ESTABLISHED"
            /\ lo_sock'[s].rx = lo_sock[s].rx
    Parted ==
      /\ lo_sock[s].state = "LAST_ACK"
      /\ lo_sock'[s].state = "CLOSED"
      /\ rx_wait' = rx_wait
    Others == \A i \in Slots : i # s => lo_sock'[i] = lo_sock[i]
<1>3. ASSUME RecvSyn(s, r)
      PROVE  Others /\ Accepted
  <2>1. Others
    BY <1>2, <1>3 DEF RecvSyn, TypeOK
  <2>2. Accepted
    BY <1>2, <1>3, RestartSocket DEF RecvSyn, TypeOK, Socket
  <2> QED
    BY <2>1, <2>2
<1>4. ASSUME NEW n \in 0 .. MaxSegLen, RecvHandshakeAck(s, r, n)
      PROVE  Others /\ Shaken
  <2>1. Others
    BY <1>2, <1>4 DEF RecvHandshakeAck, TypeOK
  <2>2. /\ Restart(Store(lo_sock[s], n)) \in Socket
        /\ Restart(Store(lo_sock[s], n)).dst = lo_sock[s].dst
    BY <1>2, StoreSocket, RestartSocket, SocketAssumption
  <2>3. Shaken
    BY <1>2, <1>4, <2>2 DEF RecvHandshakeAck, TypeOK, Socket
  <2> QED
    BY <2>1, <2>3
<1>5. ASSUME NEW flags \in SUBSET {"FIN", "RST", "ACK"},
             NEW n \in 0 .. MaxSegLen, NEW left \in 0 .. TCP_TX_BUF_LEN,
             RecvEstablished(s, r, flags, n, left)
      PROVE  Others /\ Talked
  <2>1. Others
    BY <1>2, <1>5 DEF RecvEstablished, TypeOK
  <2> DEFINE a == Acked(lo_sock[s], flags, left)
           k == Store(a, n)
  <2>2. k \in Socket /\ k.dst = lo_sock[s].dst /\ (n = 0 => k.rx = lo_sock[s].rx)
    <3>1. a \in Socket /\ a.dst = lo_sock[s].dst /\ a.rx = lo_sock[s].rx
      BY <1>2, AckedSocket
    <3>2. n \in Nat
      BY SocketAssumption
    <3> HIDE DEF a
    <3>3. k \in Socket /\ k.dst = a.dst /\ Store(a, 0).rx = a.rx
      BY <3>1, <3>2, StoreSocket
    <3> QED
      BY <3>1, <3>3
  <2>3. lo_sock'[s] = [k EXCEPT !.state = AfterFlags(flags)]
    BY <1>2, <1>5 DEF RecvEstablished, TypeOK
  <2> HIDE DEF k
  <2>4. /\ lo_sock'[s].state = AfterFlags(flags)
        /\ lo_sock'[s].dst = lo_sock[s].dst
        /\ n = 0 => lo_sock'[s].rx = lo_sock[s].rx
    BY <2>2, <2>3 DEF Socket
  <2>5. AfterFlags(flags) \in {"ESTABLISHED", "LAST_ACK", "CLOSED"}
    BY DEF AfterFlags
  <2>6. CASE WakesReader(flags, n)
    BY <1>5, <2>1, <2>4, <2>5, <2>6 DEF RecvEstablished, Wake
  <2>7. CASE ~ WakesReader(flags, n)
    <3>1. n = 0 /\ AfterFlags(flags) = "ESTABLISHED"
      BY <2>7, SocketAssumption DEF WakesReader
    <3> QED
      BY <1>5, <2>1, <2>4, <2>7, <3>1 DEF RecvEstablished
  <2> QED
    BY <2>6, <2>7
<1>6. ASSUME RecvLastAck(s, r)
      PROVE  Others /\ Parted
  <2>1. Others
    BY <1>2, <1>6 DEF RecvLastAck, TypeOK
  <2>2. Parted
    BY <1>2, <1>6 DEF RecvLastAck, TypeOK, Socket
  <2> QED
    BY <2>1, <2>2
<1>7. Others /\ (Accepted \/ Shaken \/ Talked \/ Parted)
  <2> HIDE DEF Others, Accepted, Shaken, Talked, Parted
  <2> QED
    BY <1>1, <1>3, <1>4, <1>5, <1>6
<1> QED
  BY <1>7

\* A sweep leaves every socket as it is or gives it up, and the reader of a
\* connection that is given up is woken.
LEMMA SweepMoves ==
  ASSUME TypeOK, tcp_set_state
  PROVE  /\ \A i \in Slots :
              /\ lo_sock'[i].rx = lo_sock[i].rx
              /\ lo_sock'[i].dst = lo_sock[i].dst
              /\ lo_sock'[i].state = IF i \in Socks /\ GivesUp(lo_sock[i])
                                     THEN "CLOSED" ELSE lo_sock[i].state
         /\ rx_wait' = (rx_wait /\ ~ ReaderGivenUp)
<1>1. ASSUME NEW i \in Slots
      PROVE  /\ lo_sock'[i].rx = lo_sock[i].rx
             /\ lo_sock'[i].dst = lo_sock[i].dst
             /\ lo_sock'[i].state = IF i \in Socks /\ GivesUp(lo_sock[i])
                                    THEN "CLOSED" ELSE lo_sock[i].state
  <2>1. lo_sock[i] \in Socket
    BY DEF TypeOK
  <2>2. lo_sock'[i] = IF i \in Socks THEN TimerStep(lo_sock[i]) ELSE lo_sock[i]
    BY DEF tcp_set_state
  <2> QED
    BY <2>1, <2>2, TimerStepSocket
<1>2. rx_wait' = (rx_wait /\ ~ ReaderGivenUp)
  BY DEF tcp_set_state
<1> QED
  BY <1>1, <1>2

\* The clock only makes a socket due.
LEMMA TimePassesMoves ==
  ASSUME TypeOK, NEW s \in Socks, Elapse(s)
  PROVE  \A i \in Slots : /\ lo_sock'[i].state = lo_sock[i].state
                          /\ lo_sock'[i].dst = lo_sock[i].dst
                          /\ lo_sock'[i].rx = lo_sock[i].rx
BY SocksAreSlots DEF Elapse, TypeOK, Socket

-----------------------------------------------------------------------------
(* No wakeup is lost.                                                      *)

LEMMA InitNoLostWakeup == Init => NoLostWakeup
BY DEF Init, NoLostWakeup

\* Only sock_read's loop leads to the spin, with what it has just seen.
LEMMA MainNoLostWakeup ==
  ASSUME TypeOK, NoLostWakeup, Main
  PROVE  NoLostWakeup'
<1> SUFFICES ASSUME pc' = "spin"
             PROVE  sock_wait' = cur' /\ MustWait(cur)'
  BY DEF NoLostWakeup
<1>1. \/ ReadOrWait("read_locked")
      \/ ReadOrWait("reread_locked")
  BY DEF Main, Boot, ScanLock, Scan, TestEstablished, TestClosed, NextSocket,
         ListenLock, sock_listen, ReadLock, sock_read, SpinEnds,
         sock_read_again, Parse, HeaderLock, WriteHeader, DocumentLock,
         WriteDocument, Local, Lock, Unlock, Goto
<1>2. MustWait(cur) /\ lo_sock' = lo_sock /\ sock_wait' = cur /\ cur' = cur
  BY <1>1 DEF ReadOrWait, Unlock, Goto
<1> QED
  BY <1>2 DEF MustWait

\* A segment or a sweep that ends the wait clears the flag.
LEMMA InterruptNoLostWakeup ==
  ASSUME TypeOK, NoLostWakeup, UNCHANGED mainVars, sock_wait' = sock_wait,
         tcp_recv \/ tcp_set_state
  PROVE  NoLostWakeup'
<1> SUFFICES ASSUME pc = "spin", rx_wait'
             PROVE  sock_wait = cur /\ MustWait(cur)'
  BY DEF NoLostWakeup, mainVars
<1>1. cur \in Slots /\ cur' = cur
  BY DEF TypeOK, mainVars
<1>2. CASE tcp_recv
  <2>1. rx_wait /\ sock_wait = cur /\ MustWait(cur)
    BY <1>2, ReceiveMoves DEF NoLostWakeup
  <2> QED
    BY <1>1, <1>2, <2>1, ReceiveMoves DEF MustWait
<1>3. CASE tcp_set_state
  <2>1. rx_wait /\ ~ ReaderGivenUp
    BY <1>3, SweepMoves
  <2>2. sock_wait = cur /\ MustWait(cur)
    BY <2>1 DEF NoLostWakeup
  <2>3. ~ (cur \in Socks /\ GivesUp(lo_sock[cur]))
    BY <2>1, <2>2 DEF ReaderGivenUp, MustWait
  <2>4. /\ lo_sock'[cur].state = lo_sock[cur].state
        /\ lo_sock'[cur].rx = lo_sock[cur].rx
    BY <1>1, <1>3, <2>3, SweepMoves
  <2> QED
    BY <1>1, <2>2, <2>4 DEF MustWait
<1> QED
  BY <1>2, <1>3

LEMMA NextNoLostWakeup ==
  TypeOK /\ NoLostWakeup /\ [Next]_vars => NoLostWakeup'
<1> SUFFICES ASSUME TypeOK, NoLostWakeup, [Next]_vars PROVE NoLostWakeup'
  OBVIOUS
<1>1. CASE Main
  BY <1>1, MainNoLostWakeup
<1>2. CASE Receive
  <2>1. sock_wait' = sock_wait
    BY <1>2 DEF Receive, tcp_recv, RecvSyn, RecvHandshakeAck, RecvEstablished,
                RecvLastAck
  <2> QED
    BY <1>2, <2>1, InterruptNoLostWakeup DEF Receive, Interrupted
<1>3. CASE TimerSweep
  <2>1. sock_wait' = sock_wait
    BY <1>3 DEF TimerSweep, tcp_set_state
  <2> QED
    BY <1>3, <2>1, InterruptNoLostWakeup DEF TimerSweep, Interrupted
<1>4. CASE LeaseChange
  BY <1>4 DEF LeaseChange, BindOrUnbind, Interrupted, mainVars, NoLostWakeup,
              MustWait
<1>5. ASSUME NEW s \in Socks, TimePasses(s)
      PROVE  NoLostWakeup'
  <2>1. cur \in Slots /\ UNCHANGED <<pc, cur, rx_wait, sock_wait>>
    BY <1>5 DEF TimePasses, Elapse, mainVars, TypeOK
  <2>2. MustWait(cur) => MustWait(cur)'
    BY <1>5, <2>1, TimePassesMoves DEF TimePasses, MustWait
  <2> QED
    BY <2>1, <2>2 DEF NoLostWakeup
<1>6. CASE UNCHANGED vars
  BY <1>6 DEF vars, NoLostWakeup, MustWait
<1> QED
  BY <1>1, <1>2, <1>3, <1>4, <1>5, <1>6 DEF Next

\* While sock_read spins on rx_wait nothing it waits for has happened yet, for
\* every interleaving with the interrupt.
THEOREM NoWakeupIsLost == Spec => []NoLostWakeup
<1> QED
  BY TypeCorrect, InitNoLostWakeup, NextNoLostWakeup, PTL DEF Spec

-----------------------------------------------------------------------------
(* main's unlocked tests stay true where it relies on them.                *)

\* No interrupt opens a socket: one that is closed stays closed, and one past
\* its handshake never starts another.
LEMMA InterruptOpensNothing ==
  ASSUME TypeOK, NEW i \in Slots,
         \/ tcp_recv
         \/ tcp_set_state
         \/ BindOrUnbind
         \/ \E s \in Socks : Elapse(s)
  PROVE  /\ lo_sock[i].state = "CLOSED" => lo_sock'[i].state = "CLOSED"
         /\ lo_sock[i].state \in {"ESTABLISHED", "LAST_ACK", "CLOSED"}
              => lo_sock'[i].state \in {"ESTABLISHED", "LAST_ACK", "CLOSED"}
<1>1. CASE tcp_recv
  BY <1>1, ReceiveMoves
<1>2. CASE tcp_set_state
  <2>1. lo_sock[i].state = "CLOSED" => ~ GivesUp(lo_sock[i])
    BY DEF GivesUp, Expired, Timed
  <2> QED
    BY <1>2, <2>1, SweepMoves
<1>3. CASE BindOrUnbind
  BY <1>3 DEF BindOrUnbind
<1>4. CASE \E s \in Socks : Elapse(s)
  BY <1>4, TimePassesMoves
<1> QED
  BY <1>1, <1>2, <1>3, <1>4

\* A step that is not main's is one of the four above and leaves main alone.
LEMMA OthersLeaveMain ==
  ASSUME [Next]_vars, ~ Main
  PROVE  /\ UNCHANGED <<pc, cur>>
         /\ \/ tcp_recv
            \/ tcp_set_state
            \/ BindOrUnbind
            \/ \E s \in Socks : Elapse(s)
            \/ UNCHANGED lo_sock
BY DEF Next, Receive, TimerSweep, LeaseChange, TimePasses, Interrupted,
       mainVars, vars

LEMMA InitMainTests == Init => RequestKeepsConnection /\ ListenNeverResets
BY DEF Init, RequestKeepsConnection, ListenNeverResets, InRequest

\* What main does to the state of its socket: sock_listen opens it, and nothing
\* else changes it.
LEMMA MainMoves ==
  ASSUME TypeOK, Main
  PROVE  \/ /\ pc = "listen_locked" /\ pc' = "next" /\ cur' = cur
            /\ lo_sock'[cur].state = "LISTEN"
            /\ \A i \in Slots : i # cur => lo_sock'[i] = lo_sock[i]
         \/ /\ pc # "listen_locked"
            /\ \A i \in Slots : /\ lo_sock'[i].state = lo_sock[i].state
                                /\ lo_sock'[i].dst = lo_sock[i].dst
<1>1. lo_sock[cur] \in Socket /\ cur \in Slots
  BY DEF TypeOK
<1> DEFINE Kept == \A i \in Slots : /\ lo_sock'[i].state = lo_sock[i].state
                                    /\ lo_sock'[i].dst = lo_sock[i].dst
<1>2. CASE UNCHANGED lo_sock /\ pc # "listen_locked"
  BY <1>2
<1>3. CASE sock_listen
  BY <1>1, <1>3 DEF sock_listen, SetListen, Unlock, Goto, TypeOK, Socket
<1>4. ASSUME NEW from, from # "listen_locked", ReadOrWait(from)
      PROVE  Kept /\ pc # "listen_locked"
  <2>1. lo_sock' = lo_sock \/ TakeByte(cur)
    BY <1>4 DEF ReadOrWait
  <2>2. TakeByte(cur) => Kept
    BY <1>1 DEF TakeByte, TypeOK, Socket
  <2>3. pc = from
    BY <1>4 DEF ReadOrWait, Unlock, Goto
  <2> QED
    BY <1>4, <2>1, <2>2, <2>3
<1>5. ASSUME NEW n \in Nat, QueueBytes(cur, n)
      PROVE  Kept
  BY <1>1, <1>5, PutSocket DEF QueueBytes, TypeOK
<1>6. CASE WriteHeader \/ WriteDocument
  <2>1. HDR_LEN \in Nat /\ DOC_LEN \in Nat
    BY ReplyAssumption
  <2> QED
    BY <1>5, <1>6, <2>1 DEF WriteHeader, WriteDocument, Unlock, Goto
<1>7. CASE sock_read \/ sock_read_again
  BY <1>2, <1>4, <1>7 DEF sock_read, sock_read_again, Unlock, Goto
<1>8. CASE \/ Boot \/ ScanLock \/ Scan \/ TestEstablished \/ TestClosed
           \/ NextSocket \/ ListenLock \/ ReadLock \/ SpinEnds \/ Parse
           \/ HeaderLock \/ DocumentLock
  BY <1>2, <1>8 DEF Boot, ScanLock, Scan, TestEstablished, TestClosed,
     NextSocket, ListenLock, ReadLock, SpinEnds, Parse, HeaderLock,
     DocumentLock, Local, Lock, Unlock, Goto
<1> QED
  BY <1>3, <1>6, <1>7, <1>8 DEF Main

\* Where main may come from, and with the same socket, at the points of the
\* request and of the listen call.
LEMMA MainPath ==
  ASSUME Main
  PROVE  /\ pc' \in InRequest =>
              /\ cur' = cur
              /\ \/ pc \in InRequest
                 \/ lo_sock[cur].state = "ESTABLISHED" /\ UNCHANGED lo_sock
         /\ pc' \in {"listen", "listen_locked"} =>
              /\ cur' = cur /\ UNCHANGED lo_sock
              /\ \/ pc = "listen"
                 \/ lo_sock[cur].state = "CLOSED"
BY DEF Main, Boot, ScanLock, Scan, TestEstablished, TestClosed, NextSocket,
       ListenLock, sock_listen, ReadLock, sock_read, SpinEnds, sock_read_again,
       ReadOrWait, Parse, HeaderLock, WriteHeader, DocumentLock, WriteDocument,
       Local, Lock, Unlock, Goto, InRequest

LEMMA NextRequestKeepsConnection ==
  TypeOK /\ RequestKeepsConnection /\ [Next]_vars => RequestKeepsConnection'
<1> SUFFICES ASSUME TypeOK, RequestKeepsConnection, [Next]_vars,
                    pc' \in InRequest
             PROVE  lo_sock'[cur'].state \in {"ESTABLISHED", "LAST_ACK", "CLOSED"}
  BY DEF RequestKeepsConnection
<1>1. cur \in Slots
  BY DEF TypeOK
<1>2. CASE Main
  <2>1. pc' # "next"
    BY DEF InRequest
  <2> QED
    BY <1>1, <1>2, <2>1, MainPath, MainMoves DEF RequestKeepsConnection
<1>3. CASE ~ Main
  BY <1>1, <1>3, OthersLeaveMain, InterruptOpensNothing DEF RequestKeepsConnection
<1> QED
  BY <1>2, <1>3

LEMMA NextListenNeverResets ==
  TypeOK /\ ListenNeverResets /\ [Next]_vars => ListenNeverResets'
<1> SUFFICES ASSUME TypeOK, ListenNeverResets, [Next]_vars,
                    pc' \in {"listen", "listen_locked"}
             PROVE  lo_sock'[cur'].state = "CLOSED"
  BY DEF ListenNeverResets
<1>1. cur \in Slots
  BY DEF TypeOK
<1>2. CASE Main
  BY <1>2, MainPath DEF ListenNeverResets
<1>3. CASE ~ Main
  BY <1>1, <1>3, OthersLeaveMain, InterruptOpensNothing DEF ListenNeverResets
<1> QED
  BY <1>2, <1>3

\* A request is read from and answered on one connection only.
THEOREM RequestsKeepTheirConnection == Spec => []RequestKeepsConnection
<1> QED
  BY TypeCorrect, InitMainTests, NextRequestKeepsConnection, PTL DEF Spec

\* The connection-resetting branch of sock_listen is never taken.
THEOREM ListenResetsNothing == Spec => []ListenNeverResets
<1> QED
  BY TypeCorrect, InitMainTests, NextListenNeverResets, PTL DEF Spec

-----------------------------------------------------------------------------
(* The table implements SlotLifecycle.                                     *)

\* Sockets whose state and client stay show an unchanged slot.
LEMMA SlotsKept ==
  ASSUME \A i \in Socks : /\ lo_sock'[i].state = lo_sock[i].state
                          /\ lo_sock'[i].dst = lo_sock[i].dst
  PROVE  UNCHANGED <<SlotPhase, SlotPeer>>
BY DEF SlotPhase, SlotPeer, Live

LEMMA InitLife == Init => Life!Init
<1> SUFFICES ASSUME Init PROVE Life!Init
  OBVIOUS
<1>1. ASSUME NEW i \in Socks
      PROVE  lo_sock[i].state = "CLOSED"
  <2>1. i \in Slots
    BY SocksAreSlots
  <2> QED
    BY <2>1 DEF Init, tcp_init, ZeroSocket
<1> QED
  BY <1>1 DEF Life!Init, SlotPhase, SlotPeer, Live, Timed

\* sock_listen opens a closed slot, or the memory behind the table.
LEMMA MainLife ==
  ASSUME TypeOK, ListenNeverResets, Main
  PROVE  [Life!Next]_(Life!lifeVars)
<1>1. CASE pc # "listen_locked"
  <2>1. UNCHANGED <<SlotPhase, SlotPeer>>
    BY <1>1, MainMoves, SocksAreSlots, SlotsKept
  <2> QED
    BY <2>1 DEF Life!lifeVars
<1>2. CASE pc = "listen_locked"
  <2>1. /\ lo_sock[cur].state = "CLOSED"
        /\ lo_sock'[cur].state = "LISTEN"
        /\ \A i \in Socks : i # cur => lo_sock'[i] = lo_sock[i]
    BY <1>2, MainMoves, SocksAreSlots DEF ListenNeverResets
  <2>2. CASE cur \in Socks
    <3>1. SlotPhase[cur] = "CLOSED"
      BY <2>1, <2>2 DEF SlotPhase
    <3>2. SlotPhase' = [SlotPhase EXCEPT ![cur] = "LISTEN"]
      BY <2>1, <2>2 DEF SlotPhase
    <3>3. SlotPeer' = SlotPeer
      BY <2>1, <2>2 DEF SlotPeer, Live, Timed
    <3> QED
      BY <2>2, <3>1, <3>2, <3>3 DEF Life!Next, Life!Open
  <2>3. CASE cur \notin Socks
    <3>1. UNCHANGED <<SlotPhase, SlotPeer>>
      BY <2>1, <2>3, SlotsKept
    <3> QED
      BY <3>1 DEF Life!lifeVars
  <2> QED
    BY <2>2, <2>3
<1> QED
  BY <1>1, <1>2

\* Connections of the set gone end, all others stay.
LEMMA CloseLife ==
  ASSUME NEW gone \in SUBSET Socks,
         \A i \in gone : Live(i) /\ lo_sock'[i].state = "CLOSED",
         \A i \in Socks \ gone : /\ lo_sock'[i].state = lo_sock[i].state
                                 /\ lo_sock'[i].dst = lo_sock[i].dst
  PROVE  Life!Close(gone)
<1>1. \A i \in gone : SlotPhase[i] \in Life!Serving
  BY DEF SlotPhase, Live, Timed, Life!Serving
<1>2. SlotPhase' = [i \in Socks |-> IF i \in gone THEN "CLOSED" ELSE SlotPhase[i]]
  BY DEF SlotPhase
<1>3. SlotPeer' = [i \in Socks |-> IF i \in gone THEN NoRemote ELSE SlotPeer[i]]
  BY DEF SlotPeer, Live, Timed
<1> QED
  BY <1>1, <1>2, <1>3 DEF Life!Close

LEMMA ReceiveLife ==
  ASSUME TypeOK, tcp_recv
  PROVE  [Life!Next]_(Life!lifeVars)
<1>1. PICK s \in Socks, r \in Remotes :
        /\ \A i \in Slots : i # s => lo_sock'[i] = lo_sock[i]
        /\ \/ /\ lo_sock[s].state = "LISTEN"
              /\ lo_sock'[s].state = "SYN_REC" /\ lo_sock'[s].dst = r
           \/ /\ lo_sock[s].state = "SYN_REC"
              /\ lo_sock'[s].state = "ESTABLISHED"
              /\ lo_sock'[s].dst = lo_sock[s].dst
           \/ /\ lo_sock[s].state = "ESTABLISHED"
              /\ lo_sock'[s].state \in {"ESTABLISHED", "LAST_ACK", "CLOSED"}
              /\ lo_sock'[s].dst = lo_sock[s].dst
           \/ /\ lo_sock[s].state = "LAST_ACK"
              /\ lo_sock'[s].state = "CLOSED"
  BY ReceiveMoves
<1>2. \A i \in Socks : i # s => lo_sock'[i] = lo_sock[i]
  BY <1>1, SocksAreSlots
<1>3. CASE lo_sock[s].state = "LISTEN"
  <2>1. SlotPhase[s] = "LISTEN"
    BY <1>3 DEF SlotPhase
  <2>2. SlotPhase' = [SlotPhase EXCEPT ![s] = "SYN_REC"]
    BY <1>1, <1>2, <1>3 DEF SlotPhase
  <2>3. SlotPeer' = [SlotPeer EXCEPT ![s] = r]
    BY <1>1, <1>2, <1>3 DEF SlotPeer, Live, Timed
  <2> QED
    BY <2>1, <2>2, <2>3 DEF Life!Next, Life!Accept
<1>4. CASE lo_sock[s].state = "SYN_REC"
  <2>1. SlotPhase[s] = "SYN_REC"
    BY <1>4 DEF SlotPhase
  <2>2. SlotPhase' = [SlotPhase EXCEPT ![s] = "ESTABLISHED"]
    BY <1>1, <1>2, <1>4 DEF SlotPhase
  <2>3. SlotPeer' = SlotPeer
    BY <1>1, <1>2, <1>4 DEF SlotPeer, Live, Timed
  <2> QED
    BY <2>1, <2>2, <2>3 DEF Life!Next, Life!Establish
<1>5. CASE lo_sock[s].state = "ESTABLISHED" /\ lo_sock'[s].state = "ESTABLISHED"
  <2>1. UNCHANGED <<SlotPhase, SlotPeer>>
    BY <1>1, <1>2, <1>5, SlotsKept
  <2> QED
    BY <2>1 DEF Life!lifeVars
<1>6. CASE lo_sock[s].state = "ESTABLISHED" /\ lo_sock'[s].state = "LAST_ACK"
  <2>1. SlotPhase[s] = "ESTABLISHED"
    BY <1>6 DEF SlotPhase
  <2>2. SlotPhase' = [SlotPhase EXCEPT ![s] = "LAST_ACK"]
    BY <1>2, <1>6 DEF SlotPhase
  <2>3. SlotPeer' = SlotPeer
    BY <1>1, <1>2, <1>6 DEF SlotPeer, Live, Timed
  <2> QED
    BY <2>1, <2>2, <2>3 DEF Life!Next, Life!PeerFinishes
<1>7. CASE /\ lo_sock[s].state \in {"ESTABLISHED", "LAST_ACK"}
           /\ lo_sock'[s].state = "CLOSED"
  <2>1. Life!Close({s})
    BY <1>2, <1>7, CloseLife DEF Live, Timed
  <2> QED
    BY <2>1 DEF Life!Next
<1> QED
  BY <1>1, <1>3, <1>4, <1>5, <1>6, <1>7

\* A sweep ends at once all the connections it gives up.
LEMMA SweepLife ==
  ASSUME TypeOK, tcp_set_state
  PROVE  Life!Next
<1> DEFINE gone == {i \in Socks : GivesUp(lo_sock[i])}
<1>1. \A i \in gone : Live(i) /\ lo_sock'[i].state = "CLOSED"
  BY SweepMoves, SocksAreSlots DEF GivesUp, Expired, Live
<1>2. \A i \in Socks \ gone : /\ lo_sock'[i].state = lo_sock[i].state
                             /\ lo_sock'[i].dst = lo_sock[i].dst
  BY SweepMoves, SocksAreSlots
<1>3. Life!Close(gone)
  BY <1>1, <1>2, CloseLife
<1> QED
  BY <1>3 DEF Life!Next

LEMMA NextLife ==
  TypeOK /\ ListenNeverResets /\ [Next]_vars => [Life!Next]_(Life!lifeVars)
<1> SUFFICES ASSUME TypeOK, ListenNeverResets, [Next]_vars
             PROVE  [Life!Next]_(Life!lifeVars)
  OBVIOUS
<1>1. CASE Main
  BY <1>1, MainLife
<1>2. CASE tcp_recv
  BY <1>2, ReceiveLife
<1>3. CASE tcp_set_state
  BY <1>3, SweepLife
<1>4. CASE UNCHANGED lo_sock \/ BindOrUnbind \/ \E s \in Socks : Elapse(s)
  <2>1. UNCHANGED <<SlotPhase, SlotPeer>>
    BY <1>4, TimePassesMoves, SocksAreSlots, SlotsKept DEF BindOrUnbind
  <2> QED
    BY <2>1 DEF Life!lifeVars
<1> QED
  BY <1>1, <1>2, <1>3, <1>4, OthersLeaveMain

\* The server implements SlotLifecycle: whatever the clients send, every slot is
\* opened, accepts one client, serves that client alone, and is then closed.
THEOREM ImplementsSlotLifecycle == Spec => ServesOneClientAtATime
<1>1. Spec => []ListenNeverResets
  BY ListenResetsNothing
<1> QED
  BY <1>1, TypeCorrect, InitLife, NextLife, PTL
  DEF Spec, ServesOneClientAtATime, Life!Spec

=============================================================================
