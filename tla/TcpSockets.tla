------------------------------ MODULE TcpSockets ------------------------------
(***************************************************************************)
(* The socket table of the stack: what tcp.c keeps in lo_sock[] and how    *)
(* tcp_recv, tcp_set_state and the socket calls of sock.c change it.       *)
(*                                                                         *)
(* A socket's sequence numbers are abstracted to two counts: rx, the bytes *)
(* received and not yet read (rx_buf_end - rx_buf_beg), and tx, the bytes  *)
(* the ring takes for queued and not acknowledged, (tx_buf_end -           *)
(* tx_buf_beg) & TCP_TX_BUF_LEN.  A segment that fails the tests of its    *)
(* socket's state changes nothing, so only the segments that pass them are *)
(* actions.  timeout is abstracted to due, the                             *)
(* value of secs >= timeout: setting timeout to 0 makes it TRUE, setting   *)
(* it to secs + (4 << retries) makes it FALSE until Elapse.  What tcp_send *)
(* puts on the wire changes no socket and is left out.                     *)
(*                                                                         *)
(* FIN_WAIT and CLOSING are absent: no statement of the program assigns    *)
(* FIN_WAIT, and only FIN_WAIT leads to CLOSING (tcp.c 70-72, 423-429).    *)
(***************************************************************************)
EXTENDS Naturals

CONSTANTS
  SOCK_NUM,        \* sockets of the stack
  Remotes,         \* remote endpoints, an IP address and a port each
  NoRemote,        \* the zeroed endpoint of a socket that met no client yet
  TCP_RX_BUF_LEN,  \* bytes a receive buffer can hold
  TCP_TX_BUF_LEN,  \* bytes a transmit buffer can hold
  RETRIES,         \* transmissions before giving up: the literal 4 of tcp.c
  MaxSegLen,       \* bound: the longest payload of a segment
  RxBufStates,     \* the states whose value has TCP_STATE_FLAG_RX_BUF set
  BeyondStates     \* what the zeroed memory behind lo_sock reads as a state

States == {"CLOSED", "LISTEN", "SYN_REC", "ESTABLISHED", "LAST_ACK"}

ASSUME SocketAssumption ==
  /\ SOCK_NUM \in Nat \ {0}
  /\ NoRemote \notin Remotes
  /\ TCP_RX_BUF_LEN \in Nat \ {0}
  /\ TCP_TX_BUF_LEN \in Nat \ {0}
  /\ RETRIES \in Nat
  /\ MaxSegLen \in Nat
  /\ RxBufStates \subseteq States
  /\ "ESTABLISHED" \in RxBufStates
  /\ BeyondStates \subseteq States

VARIABLES
  lo_sock,    \* the socket table
  rx_wait,    \* sock_read spins while it is TRUE
  sock_wait,  \* the socket sock_read waits for
  bound       \* dhcp_state = DHCP_STATE_BOUND, what dhcp_check() returns

sockVars == <<lo_sock, rx_wait, sock_wait, bound>>

Socks == 0 .. SOCK_NUM - 1

\* main indexes the table up to SOCK_NUM: the last slot is the memory behind it.
Slots == 0 .. SOCK_NUM

Socket == [state   : States,
           dst     : Remotes \union {NoRemote},
           port    : BOOLEAN,
           retries : 0 .. RETRIES,
           due     : BOOLEAN,
           rx      : 0 .. TCP_RX_BUF_LEN,
           tx      : 0 .. TCP_TX_BUF_LEN]

ZeroSocket(state) ==
  [state |-> state, dst |-> NoRemote, port |-> FALSE, retries |-> 0,
   due |-> TRUE, rx |-> 0, tx |-> 0]

tcp_init ==
  \E beyond \in BeyondStates :
    lo_sock = [i \in Slots |->
                 ZeroSocket(IF i \in Socks THEN "CLOSED" ELSE beyond)]

Timed == {"SYN_REC", "ESTABLISHED", "LAST_ACK"}

Live(s) == lo_sock[s].state \in Timed

-----------------------------------------------------------------------------
(* Which socket a segment from r for the server's port goes to.            *)

Matches(s, r) ==
  /\ lo_sock[s].port
  /\ lo_sock[s].dst = r \/ lo_sock[s].state = "LISTEN"

Receives(s, r) ==
  /\ Matches(s, r)
  /\ \A t \in 0 .. s - 1 : ~ Matches(t, r)

Clip(len, room) == IF len > room THEN room ELSE len

\* Variant: the room is not tested.
StoreAll(k, len) == [k EXCEPT !.rx = @ + len]

Store(k, len) == [k EXCEPT !.rx = @ + Clip(len, TCP_RX_BUF_LEN - @)]

Restart(k) == [k EXCEPT !.due = TRUE, !.retries = 0]

\* Clears the flag of a sock_read that waits for socket s.
Wake(s) == rx_wait' = (rx_wait /\ sock_wait # s)

\* Variant: the handshake of a known client is taken up by a closed socket too.
RecvSynWhenIdle(s, r) ==
  /\ bound
  /\ Receives(s, r)
  /\ lo_sock[s].state \in {"LISTEN", "CLOSED"}
  /\ lo_sock' = [lo_sock EXCEPT ![s] =
       [Restart(@) EXCEPT !.state = "SYN_REC", !.dst = r, !.rx = 0, !.tx = 1]]
  /\ UNCHANGED <<rx_wait, sock_wait, bound>>

RecvSyn(s, r) ==
  /\ bound
  /\ Receives(s, r)
  /\ lo_sock[s].state = "LISTEN"
  /\ lo_sock' = [lo_sock EXCEPT ![s] =
       [Restart(@) EXCEPT !.state = "SYN_REC", !.dst = r, !.rx = 0, !.tx = 1]]
  /\ UNCHANGED <<rx_wait, sock_wait, bound>>

RecvHandshakeAck(s, r, len) ==
  /\ bound
  /\ Receives(s, r)
  /\ lo_sock[s].state = "SYN_REC"
  /\ lo_sock' = [lo_sock EXCEPT ![s] =
       [Restart(Store(@, len)) EXCEPT !.state = "ESTABLISHED", !.tx = 0]]
  /\ UNCHANGED <<rx_wait, sock_wait, bound>>

\* Variant: a reset makes the socket listen again at once.
AfterFlagsRelisten(flags) == CASE "RST" \in flags -> "LISTEN"
                               [] "FIN" \in flags -> "LAST_ACK"
                               [] OTHER           -> "ESTABLISHED"

\* The state a segment with these flags leaves an established socket in.
AfterFlags(flags) == CASE "RST" \in flags -> "CLOSED"
                       [] "FIN" \in flags -> "LAST_ACK"
                       [] OTHER           -> "ESTABLISHED"

\* tx_buf_beg takes the segment's ack untested (tcp.c 346), so any number of
\* bytes may be left in the ring.
Acked(k, flags, left) ==
  IF "ACK" \in flags THEN [Restart(k) EXCEPT !.tx = left] ELSE k

\* Variant: only data wakes the reader.
WakesReaderOnData(flags, len) == len > 0

WakesReader(flags, len) == len > 0 \/ AfterFlags(flags) # "ESTABLISHED"

RecvEstablished(s, r, flags, len, left) ==
  /\ bound
  /\ Receives(s, r)
  /\ lo_sock[s].state = "ESTABLISHED"
  /\ lo_sock' = [lo_sock EXCEPT ![s] =
       [Store(Acked(@, flags, left), len) EXCEPT !.state = AfterFlags(flags)]]
  /\ IF WakesReader(flags, len) THEN Wake(s) ELSE UNCHANGED rx_wait
  /\ UNCHANGED <<sock_wait, bound>>

RecvLastAck(s, r) ==
  /\ bound
  /\ Receives(s, r)
  /\ lo_sock[s].state = "LAST_ACK"
  /\ lo_sock' = [lo_sock EXCEPT ![s].state = "CLOSED"]
  /\ UNCHANGED <<rx_wait, sock_wait, bound>>

tcp_recv ==
  \E s \in Socks, r \in Remotes :
    \/ RecvSyn(s, r)
    \/ \E len \in 0 .. MaxSegLen : RecvHandshakeAck(s, r, len)
    \/ \E flags \in SUBSET {"FIN", "RST", "ACK"}, len \in 0 .. MaxSegLen,
          left \in 0 .. TCP_TX_BUF_LEN : RecvEstablished(s, r, flags, len, left)
    \/ RecvLastAck(s, r)

-----------------------------------------------------------------------------
(* The timer side: one sweep over all sockets.                             *)

Expired(k) == k.state \in Timed /\ k.due

GivesUp(k) == Expired(k) /\ k.retries >= RETRIES

TimerStep(k) ==
  CASE GivesUp(k)                  -> [k EXCEPT !.state = "CLOSED"]
    [] Expired(k) /\ ~ GivesUp(k)  -> [k EXCEPT !.due = FALSE, !.retries = @ + 1]
    [] ~ Expired(k)                -> k

\* Variant: giving up wakes nobody.
NobodyWoken == FALSE

\* The reader is woken when the established connection it waits for is given up.
ReaderGivenUp ==
  /\ sock_wait \in Socks
  /\ lo_sock[sock_wait].state = "ESTABLISHED"
  /\ GivesUp(lo_sock[sock_wait])

tcp_set_state ==
  /\ lo_sock' = [i \in Slots |->
                   IF i \in Socks THEN TimerStep(lo_sock[i]) ELSE lo_sock[i]]
  /\ rx_wait' = (rx_wait /\ ~ ReaderGivenUp)
  /\ UNCHANGED <<sock_wait, bound>>

\* secs reaches the timeout of socket s.
Elapse(s) ==
  /\ Live(s)
  /\ ~ lo_sock[s].due
  /\ lo_sock' = [lo_sock EXCEPT ![s].due = TRUE]
  /\ UNCHANGED <<rx_wait, sock_wait, bound>>

\* The DHCP client gets its lease, or loses it to a DHCPNACK.
BindOrUnbind ==
  /\ bound' = ~ bound
  /\ UNCHANGED <<lo_sock, rx_wait, sock_wait>>

-----------------------------------------------------------------------------
(* What the socket calls do to socket s between taking and releasing the   *)
(* lock.                                                                   *)

\* A connection that is neither closed nor listening is reset first; the
\* socket listens either way.
SetListen(s) ==
  lo_sock' = [lo_sock EXCEPT ![s].state = "LISTEN", ![s].port = TRUE]

MustWait(s) == lo_sock[s].state = "ESTABLISHED" /\ lo_sock[s].rx = 0

TakeByte(s) == lo_sock' = [lo_sock EXCEPT ![s].rx = @ - 1]

\* Line 281 subtracts the clipped length from itself, so the loop never
\* waits for room: what does not fit is not written.
Put(k, want) ==
  LET n == Clip(want, TCP_TX_BUF_LEN - k.tx)
  IN  IF n > 0 THEN [Restart(k) EXCEPT !.tx = @ + n] ELSE k

QueueBytes(s, want) ==
  lo_sock' = [lo_sock EXCEPT ![s] =
                IF @.state = "ESTABLISHED" THEN Put(@, want) ELSE @]

=============================================================================
