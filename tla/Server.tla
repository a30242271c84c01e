-------------------------------- MODULE Server --------------------------------
(***************************************************************************)
(* The whole server: the main program (main.c, http.c and the socket calls *)
(* of sock.c it makes), the timer interrupt that runs the protocol         *)
(* handlers, and the lock between them.                                    *)
(*                                                                         *)
(* The interrupt runs to completion and preempts main anywhere; it does    *)
(* nothing while sock_lock is set (sock_try_lock).  Its handler is in      *)
(* timer.c, which the repository does not contain; main's loops            *)
(* while(!dhcp_check()) and while(rx_wait) can end in no other way.  So    *)
(* main has a step of its own for every unprotected access, and one step   *)
(* for everything it does between setting and clearing the lock.           *)
(*                                                                         *)
(* The request parser is abstracted to its decisions: after a byte it      *)
(* reads on, answers, or ends without an answer.                           *)
(***************************************************************************)
EXTENDS TcpSockets

CONSTANTS
  HDR_LEN,  \* strlen(web_hdr)
  DOC_LEN   \* strlen(web_doc)

ASSUME ReplyAssumption == HDR_LEN \in Nat \ {0} /\ DOC_LEN \in Nat \ {0}

VARIABLES
  sock_lock,  \* TRUE while main is inside a critical section
  pc,         \* where main is
  cur,        \* cur_sock of main's loop
  len         \* len of main's loop

mainVars == <<sock_lock, pc, cur, len>>

vars == <<lo_sock, rx_wait, sock_wait, bound, sock_lock, pc, cur, len>>

\* The points of main inside a critical section, and those inside http_request.
Locked == {"scan_locked", "listen_locked", "read_locked", "reread_locked",
           "header_locked", "document_locked"}

InRequest == {"read", "read_locked", "spin", "reread_locked", "parse",
              "header", "header_locked", "document", "document_locked"}

Points == {"boot", "scan", "established?", "closed?", "listen", "next"}
            \union Locked \union InRequest

Init ==
  /\ tcp_init
  /\ rx_wait = FALSE
  /\ sock_wait = 1
  /\ bound = FALSE
  /\ sock_lock = FALSE
  /\ pc = "boot"
  /\ cur = 0
  /\ len = 0

Goto(from, to) == pc = from /\ pc' = to

\* A step of main that touches no shared state.
Local(from, to) ==
  /\ Goto(from, to)
  /\ UNCHANGED <<lo_sock, rx_wait, sock_wait, bound, sock_lock, cur, len>>

Lock(from, to) ==
  /\ Goto(from, to)
  /\ sock_lock' = TRUE
  /\ UNCHANGED <<lo_sock, rx_wait, sock_wait, bound, cur, len>>

Unlock(from, to) == Goto(from, to) /\ sock_lock' = FALSE

-----------------------------------------------------------------------------
(* main.c                                                                  *)

Boot == bound /\ Local("boot", "scan")

ScanLock == Lock("scan", "scan_locked")

Scan ==
  /\ Unlock("scan_locked", "established?")
  /\ len' = lo_sock[cur].rx
  /\ UNCHANGED <<lo_sock, rx_wait, sock_wait, bound, cur>>

TestEstablished ==
  IF lo_sock[cur].state = "ESTABLISHED" /\ len > 0
  THEN Local("established?", "read")
  ELSE Local("established?", "closed?")

\* Variant: every socket that is not serving an established client is opened.
TestNotEstablished ==
  IF lo_sock[cur].state # "ESTABLISHED"
  THEN Local("closed?", "listen")
  ELSE Local("closed?", "next")

TestClosed ==
  IF lo_sock[cur].state = "CLOSED"
  THEN Local("closed?", "listen")
  ELSE Local("closed?", "next")

\* Variant: the loop starts over at the second socket.
NextSocketFromSecond ==
  /\ Goto("next", "scan")
  /\ cur' = IF cur < SOCK_NUM THEN cur + 1 ELSE 1
  /\ UNCHANGED <<lo_sock, rx_wait, sock_wait, bound, sock_lock, len>>

NextSocket ==
  /\ Goto("next", "scan")
  /\ cur' = IF cur < SOCK_NUM THEN cur + 1 ELSE 0
  /\ UNCHANGED <<lo_sock, rx_wait, sock_wait, bound, sock_lock, len>>

-----------------------------------------------------------------------------
(* sock.c                                                                  *)

ListenLock == Lock("listen", "listen_locked")

sock_listen ==
  /\ Unlock("listen_locked", "next")
  /\ SetListen(cur)
  /\ UNCHANGED <<rx_wait, sock_wait, bound, cur, len>>

ReadLock == Lock("read", "read_locked")

\* The loop of sock_read, with the lock held: wait while an established
\* connection has nothing to read, else return a byte, or EOF if there is none.
ReadOrWait(from) ==
  /\ IF MustWait(cur)
     THEN /\ Unlock(from, "spin")
          /\ rx_wait' = TRUE
          /\ sock_wait' = cur
          /\ UNCHANGED lo_sock
     ELSE /\ IF lo_sock[cur].rx > 0
             THEN Unlock(from, "parse") /\ TakeByte(cur)
             ELSE Unlock(from, "next") /\ UNCHANGED lo_sock
          /\ UNCHANGED <<rx_wait, sock_wait>>
  /\ UNCHANGED <<bound, cur, len>>

sock_read ==
  IF lo_sock[cur].state \in RxBufStates
  THEN ReadOrWait("read_locked")
  ELSE /\ Unlock("read_locked", "next")
       /\ UNCHANGED <<lo_sock, rx_wait, sock_wait, bound, cur, len>>

SpinEnds == ~ rx_wait /\ Lock("spin", "reread_locked")

\* TCP_STATE_FLAG_RX_BUF is not tested again after the wait.
sock_read_again == ReadOrWait("reread_locked")

\* http_request: the request goes on, is a GET of /, or is anything else.
Parse ==
  \/ Local("parse", "read")
  \/ Local("parse", "header")
  \/ Local("parse", "next")

HeaderLock == Lock("header", "header_locked")

WriteHeader ==
  /\ Unlock("header_locked", "document")
  /\ QueueBytes(cur, HDR_LEN)
  /\ UNCHANGED <<rx_wait, sock_wait, bound, cur, len>>

DocumentLock == Lock("document", "document_locked")

WriteDocument ==
  /\ Unlock("document_locked", "next")
  /\ QueueBytes(cur, DOC_LEN)
  /\ UNCHANGED <<rx_wait, sock_wait, bound, cur, len>>

Main ==
  \/ Boot
  \/ ScanLock        \/ Scan
  \/ TestEstablished \/ TestClosed
  \/ NextSocket
  \/ ListenLock      \/ sock_listen
  \/ ReadLock        \/ sock_read
  \/ SpinEnds        \/ sock_read_again
  \/ Parse
  \/ HeaderLock      \/ WriteHeader
  \/ DocumentLock    \/ WriteDocument

-----------------------------------------------------------------------------
(* The timer interrupt and the passing of time.                            *)

Interrupted == ~ sock_lock /\ UNCHANGED mainVars

Receive == Interrupted /\ tcp_recv

TimerSweep == Interrupted /\ tcp_set_state

LeaseChange == Interrupted /\ BindOrUnbind

\* secs counts whether or not main holds the lock.
TimePasses(s) == Elapse(s) /\ UNCHANGED mainVars

Next ==
  \/ Main
  \/ Receive
  \/ TimerSweep
  \/ LeaseChange
  \/ \E s \in Socks : TimePasses(s)

Spec == Init /\ [][Next]_vars

\* The processor executes main, the clock counts, and an interrupt that stays
\* enabled is taken.  Nothing is assumed of the clients or of the lease.
Fairness ==
  /\ WF_vars(Main)
  /\ WF_vars(TimerSweep)
  /\ \A s \in Socks : WF_vars(TimePasses(s))

FairSpec == Spec /\ Fairness

-----------------------------------------------------------------------------
(* Safety.                                                                 *)

\* Every variable has its type.
TypeOK ==
  /\ lo_sock \in [Slots -> Socket]
  /\ rx_wait \in BOOLEAN
  /\ sock_wait \in Nat
  /\ bound \in BOOLEAN
  /\ sock_lock \in BOOLEAN
  /\ pc \in Points
  /\ cur \in Slots
  /\ len \in 0 .. TCP_RX_BUF_LEN

\* No wakeup is lost: while sock_read still spins, the connection it waits for
\* is established, has nothing to read, and is the one the handlers wake.
\* Data, FIN, RST and giving up each clear rx_wait (tcp.c 150, 358, 367, 413).
NoLostWakeup ==
  pc = "spin" /\ rx_wait =>
    /\ sock_wait = cur
    /\ MustWait(cur)

\* From the test in main to the last write of http_request the socket can only
\* close: it is never reopened, so what is read and written belongs to one
\* client (main.c 46-48; a socket leaves CLOSED only through sock_listen).
RequestKeepsConnection ==
  pc \in InRequest =>
    lo_sock[cur].state \in {"ESTABLISHED", "LAST_ACK", "CLOSED"}

\* sock_listen never resets a connection, though main tests for CLOSED without
\* the lock and sock_listen handles live connections (sock.c 131-135).
ListenNeverResets ==
  pc \in {"listen", "listen_locked"} => lo_sock[cur].state = "CLOSED"

\* A segment from the client of a live connection goes to that connection
\* ("Determin which of our sockets we are receiving information to.", tcp.c 225).
SegmentsReachTheirConnection ==
  \A s \in Socks : Live(s) => Receives(s, lo_sock[s].dst)

\* A connection is given up only while something it sent is unanswered ("If we
\* have tried four times to connect we assume that the remote node is offline
\* or application is unavailable", tcp.c 144-145).
GivenUpOnlyUnanswered ==
  \A s \in Socks :
    lo_sock[s].state = "ESTABLISHED" /\ GivesUp(lo_sock[s]) => lo_sock[s].tx > 0

\* How the table shows as the slots of SlotLifecycle.
SlotPhase == [s \in Socks |-> lo_sock[s].state]

SlotPeer == [s \in Socks |-> IF Live(s) THEN lo_sock[s].dst ELSE NoRemote]

Life == INSTANCE SlotLifecycle WITH phase <- SlotPhase, peer <- SlotPeer

\* The table gives every slot the life SlotLifecycle promises: opened, taken by
\* one client, kept for that client until the connection ends (tcp.c 263-438,
\* sock.c 124-141).
ServesOneClientAtATime == Life!Spec

-----------------------------------------------------------------------------
(* Liveness.                                                               *)

\* A client that sends again and again, each time before it is given up, can
\* hold main in one request for ever.
HeldByClient ==
  /\ <>[](pc \in InRequest)
  /\ []<><<\/ lo_sock'[cur].retries < lo_sock[cur].retries
          \/ lo_sock'[cur].rx > lo_sock[cur].rx>>_vars

\* A reader that waits for a silent client is released: the connection is
\* given up after RETRIES timeouts and giving up wakes it (tcp.c 142-154).
ReaderReleased == HeldByClient \/ (pc = "spin" ~> pc # "spin")

\* A request that has arrived is taken up, unless its connection ends first:
\* main's loop comes to every socket and does not act on a stale len for ever.
RequestServed ==
  HeldByClient \/
    \A s \in Socks :
      pc # "boot" /\ lo_sock[s].state = "ESTABLISHED" /\ lo_sock[s].rx > 0
        ~> \/ cur = s /\ pc \in InRequest
           \/ lo_sock[s].state # "ESTABLISHED"

\* Once the server is up every closed socket listens again, though main serves
\* the sockets one after the other and may wait in each (main.c 35-63).
SlotReopened ==
  HeldByClient \/
    \A s \in Socks :
      pc # "boot" /\ lo_sock[s].state = "CLOSED" ~> lo_sock[s].state = "LISTEN"

=============================================================================
