---------------------------- MODULE SlotLifecycle ----------------------------
(***************************************************************************)
(* What the socket table promises to a user of the server: every slot      *)
(* serves one client at a time.  A slot is opened, accepts one client,     *)
(* keeps that client until the connection is closed, and is then opened    *)
(* again.  The client of a slot never changes in between.                  *)
(***************************************************************************)
EXTENDS Naturals

CONSTANTS
  Socks,     \* the slots
  Remotes,   \* the possible clients
  NoRemote   \* no client

VARIABLES
  phase,  \* where each slot is in its life
  peer    \* the client each slot serves

lifeVars == <<phase, peer>>

Serving == {"SYN_REC", "ESTABLISHED", "LAST_ACK"}

Init ==
  /\ phase = [s \in Socks |-> "CLOSED"]
  /\ peer  = [s \in Socks |-> NoRemote]

Open(s) ==
  /\ phase[s] = "CLOSED"
  /\ phase' = [phase EXCEPT ![s] = "LISTEN"]
  /\ UNCHANGED peer

Accept(s, r) ==
  /\ phase[s] = "LISTEN"
  /\ phase' = [phase EXCEPT ![s] = "SYN_REC"]
  /\ peer'  = [peer EXCEPT ![s] = r]

Establish(s) ==
  /\ phase[s] = "SYN_REC"
  /\ phase' = [phase EXCEPT ![s] = "ESTABLISHED"]
  /\ UNCHANGED peer

PeerFinishes(s) ==
  /\ phase[s] = "ESTABLISHED"
  /\ phase' = [phase EXCEPT ![s] = "LAST_ACK"]
  /\ UNCHANGED peer

\* Connections end one at a time or, when a timer sweep gives up on them,
\* several at once.
Close(gone) ==
  /\ \A s \in gone : phase[s] \in Serving
  /\ phase' = [s \in Socks |-> IF s \in gone THEN "CLOSED" ELSE phase[s]]
  /\ peer'  = [s \in Socks |-> IF s \in gone THEN NoRemote ELSE peer[s]]

Next ==
  \/ \E s \in Socks :
       \/ Open(s)
       \/ \E r \in Remotes : Accept(s, r)
       \/ Establish(s)
       \/ PeerFinishes(s)
  \/ \E gone \in SUBSET Socks : Close(gone)

Spec == Init /\ [][Next]_lifeVars

=============================================================================
