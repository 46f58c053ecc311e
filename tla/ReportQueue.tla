----------------------------- MODULE ReportQueue -----------------------------
(***************************************************************************)
(* What the play tracker promises its playback reporters: every report is  *)
(* handled once, in the order in which the reports were made, and none     *)
(* waits for ever.                                                         *)
(***************************************************************************)
EXTENDS Sequences

CONSTANT Report

VARIABLE queue

Init == queue = <<>>

Enqueue == \E r \in Report : queue' = Append(queue, r)

Handle == queue # <<>> /\ queue' = Tail(queue)

Next == Enqueue \/ Handle

Spec == Init /\ [][Next]_queue

FairSpec == Spec /\ WF_queue(Handle)
=============================================================================
