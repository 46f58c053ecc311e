---------------------------- MODULE ArtworkQueue ----------------------------
(***************************************************************************)
(* The artwork queue and its worker: core/artwork/worker.go, processor.go  *)
(* and housekeeping.go over persistence/artwork_queue_repository.go.       *)
(*                                                                         *)
(* An item is an album, artist, playlist, radio or track.  What its        *)
(* sources hold is a version, and resolving the item reads the current     *)
(* one.  A queue row is compared by its retry_at when the worker settles   *)
(* it; as every write of retry_at stores a new time, the comparison is     *)
(* modelled by whether the row is still the one that was dequeued.         *)
(* Priorities, traces and the bytes of the images (ArtworkStore) are left  *)
(* out.                                                                    *)
(***************************************************************************)
EXTENDS Naturals, FiniteSets

CONSTANTS
  Items,
  Pools, PoolOf,
  Images,       \* versions of the sources that hold an image
  Batch,        \* rows a drain takes
  MaxAttempts,  \* attempts that use up the retry budget at the latest
  MaxVersion,   \* bound: changes of each item's sources
  MaxEvents     \* bound: requests, pauses, crashes and database errors

ASSUME ArtworkQueueAssumption ==
  /\ PoolOf \in [Items -> Pools]
  /\ Images \subseteq Nat /\ Batch \in Nat \ {0}
  /\ MaxAttempts \in Nat /\ MaxVersion \in Nat /\ MaxEvents \in Nat

VARIABLES
  settling,    \* items whose kind settles absent: all but tracks
  source,      \* the version of each item's sources
  row,         \* item_artwork: no row, settled absent, or an image
  ver,         \* item_artwork: the version that was resolved last
  failed,      \* item_artwork: last_failure is set
  queued, ready, attempts,  \* artwork_queue: row exists, retry_at has passed, attempts
  unchanged,   \* the queue row is still the one the worker took
  job,         \* where the worker is with each item
  got,         \* the version that the worker resolved
  refreshing,  \* items Refresh() has cleared but not yet enqueued
  paused,      \* a scan is running
  left,        \* events left
  asked,       \* history: the version of the sources when Enqueue() was last called
  owed,        \* history: Enqueue() was called and the item not resolved since
  unrecorded   \* history: items given up whose failure could not be written down

art == <<row, ver, failed>>
queue == <<queued, ready, attempts>>
worker == <<unchanged, job, got>>
history == <<asked, owed, unrecorded>>
vars == <<settling, source, art, queue, worker, refreshing, paused, left, history>>

Init ==
  /\ settling \in SUBSET Items /\ source = [i \in Items |-> 1]
  /\ row = [i \in Items |-> "none"] /\ ver = [i \in Items |-> 0]
  /\ failed = [i \in Items |-> FALSE]
  /\ queued = [i \in Items |-> FALSE] /\ ready = [i \in Items |-> FALSE]
  /\ attempts = [i \in Items |-> 0]
  /\ unchanged = [i \in Items |-> FALSE] /\ job = [i \in Items |-> "idle"]
  /\ got = [i \in Items |-> 0]
  /\ refreshing = {} /\ paused = FALSE /\ left = MaxEvents
  /\ asked = [i \in Items |-> 0] /\ owed = [i \in Items |-> FALSE] /\ unrecorded = {}

Event == left > 0 /\ left' = left - 1

-----------------------------------------------------------------------------
(* Requests: the scanner, the clients and the command line. *)

SourceChanges(i) ==
  /\ source[i] < MaxVersion
  /\ source' = [source EXCEPT ![i] = @ + 1]
  /\ UNCHANGED <<settling, art, queue, worker, refreshing, paused, left, history>>

\* Enqueue(): a fresh lifecycle, whether or not the item is queued.
Enqueue(i) ==
  /\ queued' = [queued EXCEPT ![i] = TRUE] /\ ready' = [ready EXCEPT ![i] = TRUE]
  /\ attempts' = [attempts EXCEPT ![i] = 0]
  /\ unchanged' = [unchanged EXCEPT ![i] = FALSE]
  /\ asked' = [asked EXCEPT ![i] = source[i]] /\ owed' = [owed EXCEPT ![i] = TRUE]
  /\ unrecorded' = unrecorded \ {i}

\* A row for an item that has none; DO NOTHING, or only a priority, otherwise.
InsertIfNotQueued(i) ==
  /\ queued' = [queued EXCEPT ![i] = TRUE]
  /\ ready' = [ready EXCEPT ![i] = IF queued[i] THEN @ ELSE TRUE]
  /\ attempts' = [attempts EXCEPT ![i] = IF queued[i] THEN @ ELSE 0]

\* A scan that is not a full one enqueues the items that changed.
ScanEnqueue(i) ==
  /\ i \in settling /\ Event /\ Enqueue(i)
  /\ UNCHANGED <<settling, source, art, job, got, refreshing, paused>>

\* Mutant: the anti-join selects the items that have a row.
HasRow(i) == row[i] # "none"

Missing(i) == row[i] = "none"

\* EnqueueIfMissing() by a full scan and EnqueueAllMissing() by the schedule.
EnqueueMissing(i) ==
  /\ i \in settling /\ Missing(i) /\ ~queued[i]
  /\ InsertIfNotQueued(i)
  /\ UNCHANGED <<settling, source, art, worker, refreshing, paused, left, history>>

\* EnqueueBySource(): artwork reprocess.
EnqueueBySource(i) ==
  /\ i \in settling /\ row[i] # "none" /\ Event
  /\ InsertIfNotQueued(i)
  /\ UNCHANGED <<settling, source, art, worker, refreshing, paused, history>>

\* Get(): an item without a row, or whose image no longer matches its source,
\* is enqueued with EnqueuePreservingBackoff().
View(i) ==
  /\ row[i] = "none" \/ (row[i] = "image" /\ ver[i] # source[i])
  /\ InsertIfNotQueued(i)
  /\ UNCHANGED <<settling, source, art, worker, refreshing, paused, left, history>>

\* DeleteForItems()
DeleteForItem(i) ==
  /\ row' = [row EXCEPT ![i] = "none"] /\ failed' = [failed EXCEPT ![i] = FALSE]
  /\ UNCHANGED ver

\* Refresh() clears the item's state, and then enqueues it or fails to.
RefreshDelete(i) ==
  /\ i \notin refreshing /\ Event /\ DeleteForItem(i)
  /\ refreshing' = refreshing \cup {i}
  /\ UNCHANGED <<settling, source, queue, worker, paused, history>>

RefreshEnqueue(i) ==
  /\ i \in refreshing /\ Enqueue(i)
  /\ refreshing' = refreshing \ {i}
  /\ UNCHANGED <<settling, source, art, job, got, paused, left>>

RefreshFails(i) ==
  /\ i \in refreshing /\ Event
  /\ refreshing' = refreshing \ {i}
  /\ UNCHANGED <<settling, source, art, queue, worker, paused, history>>

\* A scan imports a track again: its state is cleared.
InvalidateTrack(i) ==
  /\ i \notin settling /\ Event /\ DeleteForItem(i)
  /\ UNCHANGED <<settling, source, queue, worker, refreshing, paused, history>>

\* PurgeQueued(): artwork cancel withdraws requests.
PurgeQueued(is) ==
  /\ is # {} /\ Event
  /\ queued' = [i \in Items |-> queued[i] /\ i \notin is]
  /\ unchanged' = [i \in Items |-> unchanged[i] /\ i \notin is]
  /\ asked' = [i \in Items |-> IF i \in is THEN 0 ELSE asked[i]]
  /\ owed' = [i \in Items |-> owed[i] /\ i \notin is]
  /\ UNCHANGED <<settling, source, art, ready, attempts, job, got, refreshing, paused, unrecorded>>

ScanStarts ==
  /\ ~paused /\ Event /\ paused' = TRUE
  /\ UNCHANGED <<settling, source, art, queue, worker, refreshing, history>>

ScanEnds ==
  /\ paused /\ paused' = FALSE
  /\ UNCHANGED <<settling, source, art, queue, worker, refreshing, left, history>>

\* The server stops and starts again.
Crash ==
  /\ Event /\ refreshing' = {} /\ paused' = FALSE
  /\ job' = [i \in Items |-> "idle"] /\ unchanged' = [i \in Items |-> FALSE]
  /\ UNCHANGED <<settling, source, art, queue, got, history>>

-----------------------------------------------------------------------------
(* The worker: one drain at a time in each pool, the items of its batch in  *)
(* parallel.                                                                *)

\* retry_at passes.
Due(i) ==
  /\ queued[i] /\ ~ready[i]
  /\ ready' = [ready EXCEPT ![i] = TRUE]
  /\ UNCHANGED <<settling, source, art, queued, attempts, worker, refreshing, paused, left, history>>

InPool(p) == {i \in Items : PoolOf[i] = p}
Eligible(p) == {i \in InPool(p) : queued[i] /\ ready[i]}

\* DequeueBatch(): the rows stay as they are.
DequeueBatch(p) ==
  {b \in SUBSET Eligible(p) :
     Cardinality(b) = IF Cardinality(Eligible(p)) < Batch THEN Cardinality(Eligible(p)) ELSE Batch}

\* drain() starts once every item of the previous batch is done.
Drain(p) ==
  /\ ~paused /\ \A i \in InPool(p) : job[i] = "idle"
  /\ Eligible(p) # {}
  /\ \E b \in DequeueBatch(p) :
       /\ job' = [i \in Items |-> IF i \in b THEN "taken" ELSE job[i]]
       /\ unchanged' = [i \in Items |-> unchanged[i] \/ i \in b]
  /\ UNCHANGED <<settling, source, art, queue, got, refreshing, paused, left, history>>

\* A scan started: the rest of the batch is left in the queue.
DrainPaused(p) ==
  /\ paused /\ \E i \in InPool(p) : job[i] = "taken"
  /\ LET rest == {i \in InPool(p) : job[i] = "taken"}
     IN /\ job' = [i \in Items |-> IF i \in rest THEN "idle" ELSE job[i]]
        /\ unchanged' = [i \in Items |-> unchanged[i] /\ i \notin rest]
  /\ UNCHANGED <<settling, source, art, queue, got, refreshing, paused, left, history>>

\* acquire() resolves the item and reads what it found, or fails to.
Resolve(i) ==
  /\ job[i] = "taken" /\ ~paused
  /\ \/ job' = [job EXCEPT ![i] = "resolved"] /\ got' = [got EXCEPT ![i] = source[i]]
     \/ job' = [job EXCEPT ![i] = "failed"] /\ UNCHANGED got
  /\ owed' = [owed EXCEPT ![i] = FALSE]
  /\ UNCHANGED <<settling, source, art, queue, unchanged, refreshing, paused, left, asked, unrecorded>>

\* persist() or writeAbsent(): the outcome is found or absent, or stale when
\* an external source failed but another had an image.
Persist(i) ==
  /\ job[i] = "resolved"
  /\ row' = [row EXCEPT ![i] = IF got[i] \in Images THEN "image" ELSE "absent"]
  /\ ver' = [ver EXCEPT ![i] = got[i]] /\ failed' = [failed EXCEPT ![i] = FALSE]
  /\ \/ job' = [job EXCEPT ![i] = "settled"]
     \/ got[i] \in Images /\ job' = [job EXCEPT ![i] = "stale"]
  /\ unrecorded' = unrecorded \ {i}
  /\ UNCHANGED <<settling, source, queue, unchanged, got, refreshing, paused, left, asked, owed>>

PersistFails(i) ==
  /\ job[i] = "resolved" /\ job' = [job EXCEPT ![i] = "failed"]
  /\ UNCHANGED <<settling, source, art, queue, unchanged, got, refreshing, paused, left, history>>

Done(i) ==
  /\ job' = [job EXCEPT ![i] = "idle"] /\ unchanged' = [unchanged EXCEPT ![i] = FALSE]
  /\ UNCHANGED <<settling, source, art, got, refreshing, paused, history>>

\* Mutant: the row is deleted whatever its retry_at.
DeleteAlways(i) == [queued EXCEPT ![i] = FALSE]

DeleteIfUnchanged(i) == [queued EXCEPT ![i] = @ /\ ~unchanged[i]]

\* process(): the row of a settled item goes, unless it was enqueued again.
Settle(i) ==
  /\ job[i] = "settled" /\ Done(i)
  /\ queued' = DeleteIfUnchanged(i)
  /\ UNCHANGED <<ready, attempts, left>>

SettleFails(i) ==
  /\ job[i] = "settled" /\ Done(i) /\ Event
  /\ UNCHANGED queue

\* The next attempt falls within giveUpAfter of the request.  The delays grow,
\* so there is an attempt that does not; a provider's hint may end it sooner.
WithinBudget(i) == unchanged[i] => attempts[i] < MaxAttempts

\* Mutant: the backoff is applied whatever the row's retry_at.
MarkFailedAlways(i) ==
  /\ attempts' = [attempts EXCEPT ![i] = @ + 1]
  /\ ready' = [ready EXCEPT ![i] = FALSE]

\* Mutant: failed attempts are not counted.
MarkFailedUncounted(i) ==
  /\ ready' = [ready EXCEPT ![i] = @ /\ ~unchanged[i]]
  /\ UNCHANGED attempts

MarkFailedIfUnchanged(i) ==
  /\ attempts' = [attempts EXCEPT ![i] = IF unchanged[i] THEN @ + 1 ELSE @]
  /\ ready' = [ready EXCEPT ![i] = @ /\ ~unchanged[i]]

Reschedule(i) ==
  /\ job[i] \in {"failed", "stale"} /\ WithinBudget(i) /\ Done(i)
  /\ MarkFailedIfUnchanged(i)
  /\ UNCHANGED <<queued, left>>

RescheduleFails(i) ==
  /\ job[i] \in {"failed", "stale"} /\ Done(i) /\ Event
  /\ UNCHANGED queue

HasResolvedArtwork(i) == row[i] = "image"

\* Giving up: an item that never resolved is settled absent, and so is one
\* whose row could not be read, which counts as having no image ...
GiveUp(i) ==
  /\ job[i] \in {"failed", "stale"}
  /\ \/ /\ job' = [job EXCEPT ![i] = IF @ = "failed" /\ i \in settling /\ ~HasResolvedArtwork(i)
                                     THEN "exhausted" ELSE "giving up"]
        /\ UNCHANGED left
     \/ /\ job[i] = "failed" /\ i \in settling /\ Event
        /\ job' = [job EXCEPT ![i] = "misread"]
  /\ UNCHANGED <<settling, source, art, queue, unchanged, got, refreshing, paused, history>>

GiveUpAbsent(i) ==
  /\ job[i] \in {"exhausted", "misread"} /\ job' = [job EXCEPT ![i] = "giving up"]
  /\ \/ /\ row' = [row EXCEPT ![i] = "absent"] /\ failed' = [failed EXCEPT ![i] = FALSE]
        /\ UNCHANGED <<ver, left>>
     \/ Event /\ UNCHANGED art
  /\ UNCHANGED <<settling, source, queue, unchanged, got, refreshing, paused, history>>

\* ... and recordGiveUp() keeps the failure on the state row, if there is one.
\* When that write fails, the queue row goes all the same.
RecordGiveUp(i) ==
  /\ job[i] = "giving up" /\ job' = [job EXCEPT ![i] = "settled"]
  /\ \/ /\ failed' = [failed EXCEPT ![i] = row[i] # "none"]
        /\ unrecorded' = unrecorded \ {i} /\ UNCHANGED left
     \/ Event /\ unrecorded' = unrecorded \cup {i} /\ UNCHANGED failed
  /\ UNCHANGED <<settling, source, row, ver, queue, unchanged, got, refreshing, paused, asked, owed>>

-----------------------------------------------------------------------------
Request(i) ==
  \/ SourceChanges(i) \/ ScanEnqueue(i) \/ EnqueueMissing(i) \/ EnqueueBySource(i) \/ View(i)
  \/ RefreshDelete(i) \/ RefreshEnqueue(i) \/ RefreshFails(i) \/ InvalidateTrack(i)

Process(i) ==
  \/ Resolve(i) \/ Persist(i) \/ PersistFails(i) \/ Settle(i) \/ SettleFails(i)
  \/ Reschedule(i) \/ RescheduleFails(i) \/ GiveUp(i) \/ GiveUpAbsent(i) \/ RecordGiveUp(i)

Next ==
  \/ \E i \in Items : Request(i) \/ Due(i) \/ Process(i)
  \/ \E is \in SUBSET Items : PurgeQueued(is)
  \/ \E p \in Pools : Drain(p) \/ DrainPaused(p)
  \/ ScanStarts \/ ScanEnds \/ Crash

Spec == Init /\ [][Next]_vars

\* The worker keeps running, scans end, time passes, the schedule enqueues
\* what is missing, and Refresh() returns.
Fairness ==
  /\ \A i \in Items : /\ WF_vars(Process(i)) /\ WF_vars(Due(i))
                      /\ WF_vars(EnqueueMissing(i)) /\ WF_vars(RefreshEnqueue(i))
  /\ \A p \in Pools : WF_vars(Drain(p)) /\ WF_vars(DrainPaused(p))
  /\ WF_vars(ScanEnds)

FairSpec == Spec /\ Fairness

-----------------------------------------------------------------------------
Jobs == {"idle", "taken", "resolved", "failed", "stale", "settled", "exhausted", "misread", "giving up"}

\* The types of the variables; a row that the worker still holds is queued,
\* and only a row of an item that is being processed is held.
TypeOK ==
  /\ settling \subseteq Items /\ source \in [Items -> Nat] /\ ver \in [Items -> Nat]
  /\ row \in [Items -> {"none", "absent", "image"}]
  /\ failed \in [Items -> BOOLEAN] /\ queued \in [Items -> BOOLEAN]
  /\ ready \in [Items -> BOOLEAN] /\ attempts \in [Items -> 0 .. MaxAttempts]
  /\ unchanged \in [Items -> BOOLEAN] /\ job \in [Items -> Jobs] /\ got \in [Items -> Nat]
  /\ refreshing \subseteq Items /\ paused \in BOOLEAN /\ left \in 0 .. MaxEvents
  /\ asked \in [Items -> Nat] /\ owed \in [Items -> BOOLEAN] /\ unrecorded \subseteq Items
  /\ \A i \in Items : unchanged[i] => queued[i] /\ ready[i] /\ job[i] # "idle"

\* A request made with Enqueue() while the worker is busy with the item is
\* neither deleted nor put off by what the worker then does (the retry_at
\* comparisons in process()): until the item is resolved again, its row is in
\* the queue and due.
RequestKept == \A i \in Items : owed[i] => queued[i] /\ ready[i]

\* When an item leaves the queue, what is served for it is at least as new as
\* its sources were when it was last requested, or the row says that resolving
\* it failed, or there is no row and the next view or recheck resolves it.  The
\* one exception: recordGiveUp() only logs that it could not write the failure
\* down, and an item that was given up then has nothing to show for it.
SettledIsCurrent ==
  \A i \in Items :
    ~queued[i] => row[i] = "none" \/ failed[i] \/ ver[i] >= asked[i] \/ i \in unrecorded

\* "Art already being served is kept: exhaustion means unreachable, not
\* removed": an image gives way to an absent state only when every source
\* answered that it has none, or when hasResolvedArtwork() could not read the
\* item's row as the worker gave up, which process() takes for having no image.
ServedArtKept ==
  [][\A i \in Items :
       row[i] = "image" /\ row'[i] = "absent" =>
         (job[i] = "resolved" /\ ver'[i] \notin Images) \/ job[i] = "misread"]_vars

\* Every queued item leaves the queue, however often its sources fail: the
\* retry budget of process() ends.
QueueDrains == \A i \in Items : queued[i] ~> ~queued[i]

\* Every item but a track ends up with a state row, whatever requests were cut
\* short by a crash between their two writes.
EveryItemSettles == \A i \in Items : <>[](i \in settling => row[i] # "none")
=============================================================================
