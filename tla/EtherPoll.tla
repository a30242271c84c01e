------------------------------- MODULE EtherPoll -------------------------------
(***************************************************************************)
(* The polling loop of ether.c, against a controller that queues events in *)
(* its ISQ.  Reading ISQ_PORT takes the oldest event, or 0 if there is     *)
(* none.                                                                   *)
(*                                                                         *)
(* The loop is modelled as the compiler sees it: both branches of the test *)
(* leave the body, so that no step reaches lines 98-117.  Reception models *)
(* those lines and what they call.                                         *)
(***************************************************************************)
EXTENDS Naturals, Sequences

CONSTANT ISQ_LEN  \* events the controller queues at most

VARIABLES
  isq,    \* the ISQ
  pc,     \* where ether_poll is: "idle", "loop", "test", "dispatch"
  event   \* event

vars == <<isq, pc, event>>

\* A frame received well, one received with an error, and events of the
\* transmitter or of a counter.
Events == {"frame", "bad frame", "other"}

Init ==
  /\ isq = <<>>
  /\ pc = "idle"
  /\ event = "none"

Report ==
  /\ Len(isq) < ISQ_LEN
  /\ \E e \in Events : isq' = Append(isq, e)
  /\ UNCHANGED <<pc, event>>

\* The interrupt calls ether_poll.
Call == pc = "idle" /\ pc' = "loop" /\ UNCHANGED <<isq, event>>

ReadEvent ==
  /\ pc = "loop"
  /\ IF isq = <<>>
     THEN event' = "none" /\ UNCHANGED isq
     ELSE event' = Head(isq) /\ isq' = Tail(isq)
  /\ pc' = IF isq = <<>> THEN "idle" ELSE "test"

\* continue for what is no frame, break for a frame.
TestEvent ==
  /\ pc = "test"
  /\ pc' = IF event # "frame" THEN "loop" ELSE "idle"
  /\ UNCHANGED <<isq, event>>

\* The rest of the body.
ReadFrame ==
  /\ pc = "dispatch"
  /\ pc' = "loop"
  /\ UNCHANGED <<isq, event>>

ether_poll == Call \/ ReadEvent \/ TestEvent \/ ReadFrame

Next == Report \/ ether_poll

\* The interrupt calls ether_poll again and again, and it runs to its end.
FairSpec == Init /\ [][Next]_vars /\ WF_vars(ether_poll)

\* A frame that the ISQ reports is read and handed to IP or ARP ("Determin what
\* kind of information it is, either IP or ARP.", ether.c 105).
ReportedFrameIsRead == pc = "test" /\ event = "frame" ~> pc = "dispatch"

=============================================================================
