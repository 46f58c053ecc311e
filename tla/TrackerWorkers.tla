--------------------------- MODULE TrackerWorkers ----------------------------
(***************************************************************************)
(* The two background workers of the play tracker:                         *)
(* core/scrobbler/playbackreport_worker.go hands every report to the       *)
(* scrobblers, and core/scrobbler/nowplaying_worker.go the latest update   *)
(* of each player.  PlaySessions has the calls that queue them.            *)
(*                                                                         *)
(* Reports and updates are numbered as they are queued.  Each queue has    *)
(* its lock, a signal channel with room for one, and a worker that takes   *)
(* the queue over under the lock and sends without it.                     *)
(***************************************************************************)
EXTENDS Naturals, Sequences

CONSTANTS
  Players,
  MaxQueued    \* bound: reports, and updates of a player

VARIABLES
  prQueue, prSignal, prBatch, prWorker, prMade,  \* reports
  npQueue, npBatch, npWorker, npMade,            \* updates, 0 for none
  npSent       \* history: the last update sent of each player

reports == <<prQueue, prSignal, prBatch, prWorker, prMade>>
updates == <<npQueue, npBatch, npWorker, npMade, npSent>>
vars == <<reports, updates>>

None == [p \in Players |-> 0]

Init ==
  /\ prQueue = <<>> /\ prSignal = FALSE /\ prBatch = <<>> /\ prWorker = "waiting" /\ prMade = 0
  /\ npQueue = None /\ npBatch = None /\ npWorker = "waiting" /\ npMade = None /\ npSent = None

-----------------------------------------------------------------------------
\* Mutant: the worker is only signalled for a queue that was empty.
WakeSometimes == IF prQueue = <<>> /\ prWorker = "waiting" THEN TRUE ELSE prSignal

\* sendPlaybackReportSignal(): a signal that is still there is enough.
Wake == TRUE

\* enqueuePlaybackReport()
EnqueuePlaybackReport ==
  /\ prMade < MaxQueued /\ prMade' = prMade + 1
  /\ prQueue' = Append(prQueue, prMade') /\ prSignal' = Wake
  /\ UNCHANGED <<prBatch, prWorker, updates>>

\* playbackReportWorker(): the signal is read.
ReportWake ==
  /\ prWorker = "waiting" /\ prSignal
  /\ prSignal' = FALSE /\ prWorker' = "taking"
  /\ UNCHANGED <<prQueue, prBatch, prMade, updates>>

\* Mutant: an empty queue is taken over like any other one.
ReportTakeEmpty ==
  /\ prWorker = "taking"
  /\ prBatch' = prQueue /\ prQueue' = <<>> /\ prWorker' = "sending"
  /\ UNCHANGED <<prSignal, prMade, updates>>

\* playbackReportWorker(): the queue is taken over, if it is not empty.
ReportTake ==
  /\ prWorker = "taking"
  /\ prBatch' = prQueue /\ prQueue' = <<>>
  /\ prWorker' = IF prQueue = <<>> THEN "waiting" ELSE "sending"
  /\ UNCHANGED <<prSignal, prMade, updates>>

\* dispatchPlaybackReport() of the next report; an error is logged.
DispatchPlaybackReport ==
  /\ prWorker = "sending"
  /\ prBatch' = Tail(prBatch)
  /\ prWorker' = IF Tail(prBatch) = <<>> THEN "waiting" ELSE "sending"
  /\ UNCHANGED <<prQueue, prSignal, prMade, updates>>

-----------------------------------------------------------------------------
\* enqueueNowPlaying(): replaces the player's update that is not taken yet.
EnqueueNowPlaying(p) ==
  /\ npMade[p] < MaxQueued
  /\ npMade' = [npMade EXCEPT ![p] = @ + 1]
  /\ npQueue' = [npQueue EXCEPT ![p] = npMade'[p]]
  /\ UNCHANGED <<npBatch, npWorker, npSent, reports>>

\* nowPlayingWorker(): looks at least once a second, so the signal only hastens it.
NowPlayingTake ==
  /\ npWorker = "waiting" /\ npQueue # None
  /\ npBatch' = npQueue /\ npQueue' = None /\ npWorker' = "sending"
  /\ UNCHANGED <<npMade, npSent, reports>>

\* Mutant: the queue is emptied once its updates are sent, not when it is taken over.
DispatchAndEmpty(p) ==
  /\ npWorker = "sending" /\ npBatch[p] # 0
  /\ npSent' = [npSent EXCEPT ![p] = npBatch[p]]
  /\ npBatch' = [npBatch EXCEPT ![p] = 0]
  /\ npWorker' = IF npBatch' = None THEN "waiting" ELSE "sending"
  /\ npQueue' = IF npBatch' = None THEN None ELSE npQueue
  /\ UNCHANGED <<npMade, reports>>

\* dispatchNowPlaying() of one of the updates; a map has no order.
DispatchNowPlaying(p) ==
  /\ npWorker = "sending" /\ npBatch[p] # 0
  /\ npSent' = [npSent EXCEPT ![p] = npBatch[p]]
  /\ npBatch' = [npBatch EXCEPT ![p] = 0]
  /\ npWorker' = IF npBatch' = None THEN "waiting" ELSE "sending"
  /\ UNCHANGED <<npQueue, npMade, reports>>

ReportWorker == ReportWake \/ ReportTake \/ DispatchPlaybackReport
NowPlayingWorker == NowPlayingTake \/ \E p \in Players : DispatchNowPlaying(p)

Next ==
  \/ EnqueuePlaybackReport \/ ReportWorker
  \/ (\E p \in Players : EnqueueNowPlaying(p)) \/ NowPlayingWorker

Spec == Init /\ [][Next]_vars

\* The workers run.
FairSpec == Spec /\ WF_vars(ReportWorker) /\ WF_vars(NowPlayingWorker)

-----------------------------------------------------------------------------
\* Every variable keeps its type, and a worker holds a batch only while it sends.
TypeOK ==
  /\ prQueue \in Seq(Nat) /\ prBatch \in Seq(Nat)
  /\ prSignal \in BOOLEAN /\ prWorker \in {"waiting", "taking", "sending"} /\ prMade \in Nat
  /\ prWorker = "sending" <=> prBatch # <<>>
  /\ {npQueue, npBatch, npMade, npSent} \subseteq [Players -> Nat]
  /\ npWorker \in {"waiting", "sending"}

\* The queue, the signal and the worker as an ideal queue.
Ideal == INSTANCE ReportQueue WITH Report <- 1..MaxQueued, queue <- prBatch \o prQueue

\* Reports are handled once each and in the order in which they were queued; none is
\* lost between the worker's locks, and none is left waiting without a wake-up.
ReportsInOrder == Ideal!FairSpec

\* The update of a player that is sent is never older than one sent before, and as the
\* players stop at the bound, the latest one of each is sent in the end, whatever was
\* queued while the worker sent.
LatestSent ==
  /\ [][\A p \in Players : npSent'[p] >= npSent[p]]_vars
  /\ []<>(\A p \in Players : npSent[p] = npMade[p])
=============================================================================
