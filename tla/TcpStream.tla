------------------------------- MODULE TcpStream -------------------------------
(***************************************************************************)
(* One connection in full: the sequence numbers, rings and segments of a   *)
(* socket of the server (tcp.c, and sock_read and sock_write of sock.c),   *)
(* the client at the other end, and the network between them.  main may    *)
(* read whenever there is something to read and write whenever the         *)
(* connection is established, which is more than http.c does.              *)
(*                                                                         *)
(* The client is an ordinary TCP.  It keeps to the server's window or      *)
(* probes it with one byte, repeats what is not acknowledged, takes data   *)
(* in order only, acknowledges all that occupies a sequence number, and    *)
(* may send a FIN behind its request or give the connection up.            *)
(*                                                                         *)
(* As in TcpSockets, due is secs >= timeout.  The model ends when the      *)
(* socket is closed: opening it for another client is TcpSockets' part.    *)
(***************************************************************************)
EXTENDS RingWindow, SequencesExt

CONSTANTS
  TCP_RX_BUF_LEN,  \* last slot of the receive ring, also its capacity
  TCP_TX_BUF_LEN,  \* last slot of the transmit ring, also its capacity
  MAX_DATA,        \* ETHER_FRAME_LEN_MAX - ETHER_HDR_LEN - 40
  RETRIES,         \* transmissions before giving up: the literal 4 of tcp.c
  IRS,             \* the client's initial sequence number
  ISS,             \* the server's, ticks at the SYN
  Request,         \* the bytes the client sends
  Reply,           \* the bytes main writes, by and by
  Network,         \* what the network may do
  LOSSES           \* bound: segments a calm network may lose

\* A hostile network delivers each segment any number of times, at any time or
\* never, and all timers may run out at any time; behind it a client may also give
\* up.  A calm one loses at most LOSSES segments, repeats none and is faster than
\* every timer; until the client has ended its request, its timers are faster than
\* the server's.
ASSUME StreamAssumption ==
  /\ TCP_RX_BUF_LEN \in Nat \ {0}
  /\ TCP_TX_BUF_LEN \in Nat \ {0}
  /\ MAX_DATA \in Nat \ {0}
  /\ RETRIES \in Nat
  /\ IRS \in Nat
  /\ ISS \in Nat
  /\ Request \in Seq(Nat)
  /\ Reply \in Seq(Nat)
  /\ Network \in {"hostile", "calm"}
  /\ LOSSES \in Nat

VARIABLES
  state, due, retries,             \* the socket
  rx_buf_beg, rx_buf_end, rx_buf,  \* its receive ring
  tx_buf_beg, tx_buf_end, tx_buf,  \* its transmit ring
  taken,     \* the bytes main has read
  asked,     \* the number of bytes main has passed to sock_write
  queued,    \* the bytes sock_write has put into the ring
  receded,   \* an acknowledgement older than an earlier one was taken
  client,    \* the client's connection
  seen,      \* the bytes the client has received
  net,       \* the segments on their way
  losses     \* the number of segments lost

rxVars == <<rx_buf_beg, rx_buf_end, rx_buf>>
txVars == <<tx_buf_beg, tx_buf_end, tx_buf>>
timer == <<due, retries>>
mainVars == <<taken, asked, queued>>
clientVars == <<client, seen>>
netVars == <<net, losses>>

vars == <<state, due, retries, rx_buf_beg, rx_buf_end, rx_buf,
          tx_buf_beg, tx_buf_end, tx_buf, taken, asked, queued, receded,
          client, seen, net, losses>>

States == {"LISTEN", "SYN_REC", "ESTABLISHED", "LAST_ACK", "CLOSED"}

Flags == {"SYN", "ACK", "FIN", "RST"}

Segment(from, flags, seq, ack, win, data) ==
  [from |-> from, flags |-> flags, seq |-> seq, ack |-> ack, win |-> win,
   data |-> data]

Segments == [from  : {"client", "server"}, flags : SUBSET Flags,
             seq   : Nat, ack : Nat, win : Int, data : Seq(Nat)]

\* una is the oldest number not acknowledged, nxt the next one to send, edge the
\* end of the server's window, rcv the next number expected, fin whether a FIN
\* was sent.
ClientState == [state : {"CLOSED", "SYN_SENT", "OPEN", "ENDED", "RESET"},
                una   : Nat, nxt : Nat, edge : Int, rcv : Nat, fin : BOOLEAN]

\* The number of the first byte and of the FIN of the client.
First == IRS + 1
FinSeq == First + Len(Request)

Init ==
  /\ state = "LISTEN"
  /\ due = TRUE
  /\ retries = 0
  /\ rx_buf_beg = 0
  /\ rx_buf_end = 0
  /\ rx_buf = [k \in 0 .. TCP_RX_BUF_LEN |-> 0]
  /\ tx_buf_beg = 0
  /\ tx_buf_end = 0
  /\ tx_buf = [k \in 0 .. TCP_TX_BUF_LEN |-> 0]
  /\ taken = <<>>
  /\ asked = 0
  /\ queued = <<>>
  /\ receded = FALSE
  /\ client = [state |-> "CLOSED", una |-> IRS, nxt |-> IRS, edge |-> IRS,
               rcv |-> 0, fin |-> FALSE]
  /\ seen = <<>>
  /\ net = {}
  /\ losses = 0

-----------------------------------------------------------------------------
(* The network.                                                            *)

Send(segments) == net' = net \union segments /\ UNCHANGED losses

\* m arrives and is answered with some segments.
Answer(m, segments) ==
  /\ net' = (IF Network = "hostile" THEN net ELSE net \ {m}) \union segments
  /\ UNCHANGED losses

Lose(m) ==
  /\ Network = "calm"
  /\ losses < LOSSES
  /\ net' = net \ {m}
  /\ losses' = losses + 1
  /\ UNCHANGED <<state, timer, rxVars, txVars, mainVars, receded, clientVars>>

\* A timer of the client may run out.
Quiet == Network = "hostile" \/ net = {}

-----------------------------------------------------------------------------
(* tcp_recv, one action per state that takes segments.  tcp_send fills in  *)
(* what the socket holds after the step.                                   *)

\* Variant: the window counts all slots of the ring.
WindowOfAllSlots == TCP_RX_BUF_LEN + 1 - (rx_buf_end' - rx_buf_beg')

Window == TCP_RX_BUF_LEN - (rx_buf_end' - rx_buf_beg')

tcp_send(flags, data) ==
  Segment("server", flags, tx_buf_beg',
          rx_buf_end' + (IF state' = "LAST_ACK" THEN 1 ELSE 0), Window, data)

RecvSyn(m) ==
  /\ state = "LISTEN"
  /\ m.flags = {"SYN"}
  /\ state' = "SYN_REC"
  /\ due' = TRUE
  /\ retries' = 0
  /\ rx_buf_beg' = m.seq + 1
  /\ rx_buf_end' = m.seq + 1
  /\ tx_buf_beg' = ISS
  /\ tx_buf_end' = ISS + 1
  /\ Answer(m, {})
  /\ UNCHANGED <<rx_buf, tx_buf, receded>>

\* The payload is stored behind rx_buf_end as far as there is room, and
\* acknowledged if there was any.
Store(m) ==
  LET room == Room(rx_buf_beg, rx_buf_end, TCP_RX_BUF_LEN)
      n    == Clip(Len(m.data), room)
  IN  /\ rx_buf' = Fill(rx_buf, rx_buf_end, SubSeq(m.data, 1, n), TCP_RX_BUF_LEN)
      /\ rx_buf_end' = rx_buf_end + n
      /\ UNCHANGED rx_buf_beg
      /\ Answer(m, IF m.data = <<>> THEN {} ELSE {tcp_send({"ACK"}, <<>>)})

RecvHandshakeAck(m) ==
  /\ state = "SYN_REC"
  /\ m.seq = rx_buf_end
  /\ m.ack = tx_buf_end
  /\ m.flags = {"ACK"}
  /\ state' = "ESTABLISHED"
  /\ due' = TRUE
  /\ retries' = 0
  /\ tx_buf_beg' = m.ack
  /\ Store(m)
  /\ UNCHANGED <<tx_buf_end, tx_buf, receded>>

\* Variant: the sequence number is not tested.
Fits(m) == "SYN" \notin m.flags

Expected(m) == m.seq = rx_buf_end /\ "SYN" \notin m.flags

\* An acknowledgement is taken as it is, a reset goes before a FIN, and a payload is
\* stored in any case.
RecvEstablished(m) ==
  /\ state = "ESTABLISHED"
  /\ Expected(m)
  /\ IF "ACK" \in m.flags
     THEN /\ due' = TRUE
          /\ retries' = 0
          /\ tx_buf_beg' = m.ack
          /\ receded' = (receded \/ m.ack < tx_buf_beg)
     ELSE UNCHANGED <<timer, tx_buf_beg, receded>>
  /\ state' = CASE "RST" \in m.flags -> "CLOSED"
                [] "FIN" \in m.flags /\ "RST" \notin m.flags -> "LAST_ACK"
                [] OTHER -> "ESTABLISHED"
  /\ Store(m)
  /\ UNCHANGED <<tx_buf_end, tx_buf>>

RecvLastAck(m) ==
  /\ state = "LAST_ACK"
  /\ m.seq = rx_buf_end + 1
  /\ m.ack = tx_buf_end + 1
  /\ m.flags = {"ACK"}
  /\ state' = "CLOSED"
  /\ Answer(m, {})
  /\ UNCHANGED <<timer, rxVars, txVars, receded>>

Takes(m) ==
  CASE state = "LISTEN"      -> m.flags = {"SYN"}
    [] state = "SYN_REC"     -> /\ m.seq = rx_buf_end /\ m.ack = tx_buf_end
                                /\ m.flags = {"ACK"}
    [] state = "ESTABLISHED" -> Expected(m)
    [] state = "LAST_ACK"    -> /\ m.seq = rx_buf_end + 1
                                /\ m.ack = tx_buf_end + 1
                                /\ m.flags = {"ACK"}
    [] state = "CLOSED"      -> FALSE

\* Variant: in LAST_ACK, an acknowledgement starts the tries anew.
RecvNothingButAck(m) ==
  /\ ~ Takes(m)
  /\ IF state = "LAST_ACK" /\ m.flags = {"ACK"}
     THEN due' = TRUE /\ retries' = 0
     ELSE UNCHANGED timer
  /\ Answer(m, {})
  /\ UNCHANGED <<state, rxVars, txVars, receded>>

\* Any other segment is dropped.
RecvNothing(m) ==
  /\ ~ Takes(m)
  /\ Answer(m, {})
  /\ UNCHANGED <<state, timer, rxVars, txVars, receded>>

tcp_recv ==
  /\ \E m \in net :
       /\ m.from = "client"
       /\ \/ RecvSyn(m) \/ RecvHandshakeAck(m) \/ RecvEstablished(m)
          \/ RecvLastAck(m) \/ RecvNothing(m)
  /\ UNCHANGED <<mainVars, clientVars>>

-----------------------------------------------------------------------------
(* tcp_set_state                                                           *)

\* Variant: one try more than is counted.
TriesLeftOver == retries <= RETRIES

TriesLeft == retries < RETRIES

\* ESTABLISHED sends what is not acknowledged, from the oldest byte on.
AgainData ==
  LET n == Clip(MAX_DATA, Used(tx_buf_beg, tx_buf_end, TCP_TX_BUF_LEN))
  IN  IF tx_buf_beg = tx_buf_end THEN {}
      ELSE {tcp_send({"ACK"}, Fetch(tx_buf, tx_buf_beg, n, TCP_TX_BUF_LEN))}

\* Variant: SYN_REC waits without sending.
AgainButSyn ==
  CASE state = "SYN_REC"     -> {}
    [] state = "ESTABLISHED" -> AgainData
    [] state = "LAST_ACK"    -> {tcp_send({"FIN", "ACK"}, <<>>)}

\* Variant: only the first try sends.
AgainOnce ==
  IF retries > 0 THEN {}
  ELSE CASE state = "SYN_REC"     -> {tcp_send({"SYN", "ACK"}, <<>>)}
         [] state = "ESTABLISHED" -> AgainData
         [] state = "LAST_ACK"    -> {tcp_send({"FIN", "ACK"}, <<>>)}

\* What a timed state sends again.
Again ==
  CASE state = "SYN_REC"     -> {tcp_send({"SYN", "ACK"}, <<>>)}
    [] state = "ESTABLISHED" -> AgainData
    [] state = "LAST_ACK"    -> {tcp_send({"FIN", "ACK"}, <<>>)}

tcp_set_state ==
  /\ state \in {"SYN_REC", "ESTABLISHED", "LAST_ACK"}
  /\ due
  /\ UNCHANGED <<rxVars, txVars, mainVars, receded, clientVars>>
  /\ IF TriesLeft
     THEN /\ due' = FALSE
          /\ retries' = retries + 1
          /\ UNCHANGED state
          /\ Send(Again)
     ELSE /\ state' = "CLOSED"
          /\ UNCHANGED timer
          /\ Send({tcp_send({"RST", "ACK"}, <<>>)})

\* secs reaches the timeout.
Elapse ==
  /\ state \in {"SYN_REC", "ESTABLISHED", "LAST_ACK"}
  /\ ~ due
  /\ Quiet
  /\ Network = "calm" /\ state # "LAST_ACK" /\ client.state = "OPEN" =>
       client.una >= FinSeq
  /\ due' = TRUE
  /\ UNCHANGED <<state, retries, rxVars, txVars, mainVars, receded, clientVars,
                 netVars>>

-----------------------------------------------------------------------------
(* The socket calls of main.                                               *)

\* One byte, as http_read_char asks for.  In LAST_ACK what came before the FIN
\* can still be read.
sock_read ==
  /\ state \in {"ESTABLISHED", "LAST_ACK"}
  /\ rx_buf_beg # rx_buf_end
  /\ LET n == Clip(1, Used(rx_buf_beg, rx_buf_end, TCP_RX_BUF_LEN))
     IN  /\ taken' = taken \o Fetch(rx_buf, rx_buf_beg, n, TCP_RX_BUF_LEN)
         /\ rx_buf_beg' = rx_buf_beg + n
  /\ UNCHANGED <<state, timer, rx_buf_end, rx_buf, txVars, asked, queued,
                 receded, clientVars, netVars>>

\* What does not fit into the ring is left out.
sock_write(len) ==
  /\ state = "ESTABLISHED"
  /\ LET n    == Clip(len, Room(tx_buf_beg, tx_buf_end, TCP_TX_BUF_LEN))
         data == SubSeq(Reply, asked + 1, asked + n)
     IN  /\ tx_buf' = Fill(tx_buf, tx_buf_end, data, TCP_TX_BUF_LEN)
         /\ tx_buf_end' = tx_buf_end + n
         /\ queued' = queued \o data
         /\ IF n > 0 THEN due' = TRUE /\ retries' = 0 ELSE UNCHANGED timer
  /\ asked' = asked + len
  /\ UNCHANGED <<state, rxVars, tx_buf_beg, taken, receded, clientVars, netVars>>

Write ==
  taken = Request /\ \E len \in 1 .. Len(Reply) - asked : sock_write(len)

-----------------------------------------------------------------------------
(* The client.                                                             *)

FromClient(flags, seq, data) ==
  Segment("client", flags, seq, client'.rcv, 0, data)

ClientStep ==
  UNCHANGED <<state, timer, rxVars, txVars, mainVars, receded>>

Connect ==
  /\ client.state \in {"CLOSED", "SYN_SENT"}
  /\ client.state = "SYN_SENT" => Quiet
  /\ client' = [client EXCEPT !.state = "SYN_SENT"]
  /\ Send({Segment("client", {"SYN"}, IRS, 0, 0, <<>>)})
  /\ UNCHANGED seen
  /\ ClientStep

\* The handshake's answer is acknowledged, also when it comes again.
ClientRecvSynAck(m) ==
  /\ m.flags = {"SYN", "ACK"}
  /\ client.state \in {"SYN_SENT", "OPEN"}
  /\ client' = IF client.state = "SYN_SENT"
               THEN [client EXCEPT !.state = "OPEN", !.una = m.ack, !.nxt = m.ack,
                                   !.edge = m.ack + m.win, !.rcv = m.seq + 1]
               ELSE client
  /\ Answer(m, {FromClient({"ACK"}, client'.nxt, <<>>)})
  /\ UNCHANGED seen
  /\ ClientStep

\* New data or a repetition, within the window or one byte to probe it.  start
\* is the first number sent, end the one behind the last byte.
ClientSend(start, end, fin) ==
  /\ client.state = "OPEN"
  /\ start < client.nxt => Quiet
  /\ end <= client.edge \/ (Quiet /\ start = client.una /\ end = start + 1 /\ ~ fin)
  /\ end > start \/ fin
  /\ fin => end = FinSeq
  /\ client.fin /\ end = FinSeq => fin
  /\ LET next == IF fin THEN end + 1 ELSE end
     IN  client' = [client EXCEPT !.nxt = IF next > @ THEN next ELSE @,
                                  !.fin = @ \/ fin]
  /\ Send({FromClient({"ACK"} \union (IF fin THEN {"FIN"} ELSE {}), start,
             SubSeq(Request, start - First + 1, end - First))})
  /\ UNCHANGED seen
  /\ ClientStep

\* The bytes of m the client has not received yet.
NewData(m) ==
  IF m.seq <= client.rcv THEN SubSeq(m.data, client.rcv - m.seq + 1, Len(m.data))
                         ELSE <<>>

ClientRecv(m) ==
  LET new  == NewData(m)
      next == client.rcv + Len(new)
      fin  == "FIN" \in m.flags /\ m.seq + Len(m.data) = next
      kept == m.ack <= client.nxt
  IN  /\ client.state = "OPEN"
      /\ m.flags \in {{"ACK"}, {"FIN", "ACK"}}
      /\ seen' = seen \o new
      /\ client' =
           [client EXCEPT !.una = IF kept /\ m.ack > @ THEN m.ack ELSE @,
                          !.edge = IF kept /\ m.ack + m.win > @ THEN m.ack + m.win
                                   ELSE @,
                          !.rcv = IF fin THEN next + 1 ELSE next,
                          !.state = IF fin THEN "ENDED" ELSE @]
      /\ Answer(m, IF m.data = <<>> /\ "FIN" \notin m.flags THEN {}
                   ELSE {FromClient({"ACK"}, client.nxt, <<>>)})
      /\ ClientStep

\* After the server's FIN the client only acknowledges.
ClientRecvAgain(m) ==
  /\ client.state = "ENDED"
  /\ "RST" \notin m.flags
  /\ UNCHANGED clientVars
  /\ Answer(m, IF m.data = <<>> /\ m.flags = {"ACK"} THEN {}
               ELSE {FromClient({"ACK"}, client.nxt, <<>>)})
  /\ ClientStep

ClientRecvReset(m) ==
  /\ "RST" \in m.flags
  /\ client' = IF m.seq = client.rcv THEN [client EXCEPT !.state = "RESET"]
                                     ELSE client
  /\ Answer(m, {})
  /\ UNCHANGED seen
  /\ ClientStep

\* The client gives the connection up; its reset carries no acknowledgement.
ClientAbort ==
  /\ Network = "hostile"
  /\ client.state = "OPEN"
  /\ client' = [client EXCEPT !.state = "RESET"]
  /\ Send({FromClient({"RST"}, client.nxt, <<>>)})
  /\ UNCHANGED seen
  /\ ClientStep

ClientReceives ==
  \E m \in net :
    /\ m.from = "server"
    /\ \/ ClientRecvSynAck(m) \/ ClientRecv(m)
       \/ ClientRecvAgain(m)  \/ ClientRecvReset(m)

ClientSends ==
  \E start \in {client.una, client.nxt}, end \in First .. FinSeq, fin \in BOOLEAN :
    start <= end /\ ClientSend(start, end, fin)

-----------------------------------------------------------------------------

Next ==
  \/ tcp_recv \/ tcp_set_state \/ Elapse
  \/ sock_read \/ Write
  \/ Connect \/ ClientReceives \/ ClientSends \/ ClientAbort
  \/ \E m \in net : Lose(m)

Spec == Init /\ [][Next]_vars

-----------------------------------------------------------------------------

\* Segments arrive, timers run out, main goes on, and the client sends what it has
\* to send.  secs counts also while a client's repetitions are on their way, hence
\* SF.  Whether the client ends with a FIN is left open.
Fairness ==
  /\ WF_vars(tcp_recv)
  /\ WF_vars(tcp_set_state)
  /\ SF_vars(Elapse)
  /\ WF_vars(sock_read)
  /\ WF_vars(Write)
  /\ WF_vars(Connect)
  /\ WF_vars(ClientReceives)
  /\ WF_vars(ClientSends /\ client'.fin = client.fin)

FairSpec == Spec /\ Fairness

-----------------------------------------------------------------------------

TypeOK ==
  /\ state \in States
  /\ due \in BOOLEAN
  /\ retries \in 0 .. RETRIES
  /\ rx_buf_beg \in Nat /\ rx_buf_end \in Nat
  /\ rx_buf \in [0 .. TCP_RX_BUF_LEN -> Nat]
  /\ tx_buf_beg \in Nat /\ tx_buf_end \in Nat
  /\ tx_buf \in [0 .. TCP_TX_BUF_LEN -> Nat]
  /\ taken \in Seq(Nat) /\ queued \in Seq(Nat) /\ seen \in Seq(Nat)
  /\ asked \in 0 .. Len(Reply)
  /\ receded \in BOOLEAN
  /\ client \in ClientState
  /\ net \subseteq Segments
  /\ losses \in 0 .. LOSSES

\* What main has read and what waits in the ring are what the client sent, in
\* order: nothing is lost, doubled, exchanged or overwritten, whatever the network
\* does (tcp.c 339, 374-407; sock.c 179-209).
RequestIntact ==
  state # "LISTEN" =>
    /\ taken = SubSeq(Request, 1, rx_buf_beg - First)
    /\ \A n \in rx_buf_beg .. rx_buf_end - 1 :
         rx_buf[Slot(n, TCP_RX_BUF_LEN)] = Request[n - First + 1]

\* What the client forgets because it was acknowledged, the server has stored; its
\* FIN is acknowledged only behind the last byte (tcp.c 309-330, 363, 388-411, 456).
AcknowledgedIsStored ==
  client.state \in {"OPEN", "ENDED"} =>
    \/ client.una <= rx_buf_end
    \/ client.una = FinSeq + 1 /\ rx_buf_end = FinSeq

\* What the client has received is what sock_write queued, in order.  A repetition
\* or a write into a full ring spoils nothing, unless an old acknowledgement has set
\* tx_buf_beg back (tcp.c 106-139, 346; sock.c 239-274).
ReplyIntact == ~ receded => IsPrefix(seen, queued)

\* A client that repeats what it sent comes to know that the server got it ("Sends
\* an acknowledgement package so the remote node knows that we got the
\* information.", tcp.c 409-410).
RemoteKnows ==
  \A n \in First + 1 .. FinSeq : rx_buf_end >= n ~> client.una >= n

\* An acknowledgement was lost and the client repeats its segment in vain.
Unanswered == <>[](client.state = "OPEN" /\ client.una < rx_buf_end)

\* The request reaches the server although segments are lost (tcp.c 75-83, 286,
\* 339-417).
RequestArrives ==
  Unanswered \/ <>(rx_buf_end = FinSeq)

\* The reply reaches the client although segments are lost, unless the client ends
\* the connection first (tcp.c 95-140, 343-346; sock.c 269-274).
ReplyArrives ==
  \/ Unanswered
  \/ <>(receded \/ client.fin)
  \/ \A k \in 1 .. Len(Reply) : Len(queued) >= k ~> Len(seen) >= k

\* When the client ends the connection and everything sent is acknowledged, it sees
\* the server end it too, although segments are lost.  With data outstanding the FIN
\* would go out at the number of that data (tcp.c 161-177, 363-371, 455-456).
EndIsSeen ==
  state = "LAST_ACK" /\ tx_buf_beg = tx_buf_end /\ ~ receded
    ~> client.state = "ENDED"

\* A connection that the client has ended is closed, also when the acknowledgement of
\* the server's FIN is lost, or is not the one LAST_ACK waits for because data was
\* outstanding when the FIN went out at its number (tcp.c 161-177, 432-437, 455).
LastAckEnds == state = "LAST_ACK" ~> state = "CLOSED"

=============================================================================
