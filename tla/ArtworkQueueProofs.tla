------------------------- MODULE ArtworkQueueProofs -------------------------
(***************************************************************************)
(* Proofs about ArtworkQueue, for any items, pools, batches and bounds.    *)
(***************************************************************************)
EXTENDS ArtworkQueue, TLAPS

Numbers ==
  /\ source \in [Items -> Nat] /\ ver \in [Items -> Nat] /\ got \in [Items -> Nat]
  /\ asked \in [Items -> Nat]

Types ==
  /\ row \in [Items -> {"none", "absent", "image"}] /\ job \in [Items -> Jobs]
  /\ failed \in [Items -> BOOLEAN] /\ queued \in [Items -> BOOLEAN]
  /\ ready \in [Items -> BOOLEAN] /\ unchanged \in [Items -> BOOLEAN]
  /\ owed \in [Items -> BOOLEAN] /\ refreshing \subseteq Items /\ unrecorded \subseteq Items

\* The worker holds only rows that are queued and due.
Held == \A i \in Items : unchanged[i] => queued[i] /\ ready[i] /\ job[i] # "idle"

\* An item that was requested after the worker resolved it has a new row.
OwedIsNew ==
  \A i \in Items : owed[i] /\ job[i] \notin {"idle", "taken"} => ~unchanged[i]

\* Requests are for versions that exist, and an item whose row has gone while
\* the worker is busy with it was withdrawn.
Asked == \A i \in Items : /\ asked[i] <= source[i]
                          /\ job[i] # "idle" /\ ~queued[i] => asked[i] = 0

\* What the worker resolved, and then stored, for a row it still holds is what
\* was asked for.
GotIsCurrent ==
  \A i \in Items : unchanged[i] =>
    /\ job[i] = "resolved" => got[i] >= asked[i]
    /\ job[i] = "settled" => row[i] = "none" \/ failed[i] \/ ver[i] >= asked[i] \/ i \in unrecorded

IInv == Numbers /\ Types /\ Held /\ OwedIsNew /\ Asked /\ GotIsCurrent
        /\ RequestKept /\ SettledIsCurrent

\* Every step keeps the invariant.
LEMMA IInvStep == IInv /\ [Next]_vars => IInv'
<1> USE ArtworkQueueAssumption DEF Jobs
<1> SUFFICES ASSUME IInv, [Next]_vars PROVE IInv'
  BY Zenon
<1>1. ASSUME NEW i \in Items, SourceChanges(i) PROVE IInv'
  <2>0. Numbers'
    BY <1>1 DEF IInv, Numbers, SourceChanges, art, queue, worker, history
  <2>1. Types'
    BY Zenon, <1>1 DEF IInv, Types, SourceChanges, art, queue, worker, history
  <2>2. Held'
    BY Zenon, <1>1 DEF IInv, Numbers, Types, Held, SourceChanges, art, queue, worker, history
  <2>3. OwedIsNew'
    BY Zenon, <1>1 DEF IInv, Numbers, Types, OwedIsNew, SourceChanges, art, queue, worker, history
  <2>4. Asked'
    <3> SUFFICES ASSUME NEW j \in Items
                 PROVE  asked'[j] <= source'[j] /\ (job'[j] # "idle" /\ ~queued'[j] => asked'[j] = 0)
      BY Zenon DEF Asked
    <3>1. asked[j] \in Nat /\ source[j] \in Nat /\ asked[j] <= source[j]
      BY Zenon DEF IInv, Numbers, Asked
    <3>2. source'[j] = source[j] \/ source'[j] = source[j] + 1
      BY Zenon, <1>1 DEF IInv, Numbers, SourceChanges
    <3>3. UNCHANGED <<asked, job, queued>>
      BY Zenon, <1>1 DEF SourceChanges, queue, worker, history
    <3> QED BY <3>1, <3>2, <3>3 DEF IInv, Asked
  <2>5. GotIsCurrent'
    BY Zenon, <1>1 DEF IInv, Numbers, Types, GotIsCurrent, Asked, SourceChanges, art, queue, worker,
                history
  <2>6. RequestKept'
    BY Zenon, <1>1
    DEF IInv, Numbers, Types, RequestKept, OwedIsNew, Held, SourceChanges, art, queue,
                worker, history
  <2>7. SettledIsCurrent'
    BY Zenon, <1>1
    DEF IInv, Numbers, Types, SettledIsCurrent, GotIsCurrent, Asked, SourceChanges, art,
                queue, worker, history
  <2> QED BY Zenon, <2>0, <2>1, <2>2, <2>3, <2>4, <2>5, <2>6, <2>7 DEF IInv
<1>2. ASSUME NEW i \in Items, Enqueue(i), UNCHANGED <<source, art, job, got>>,
             refreshing' \subseteq refreshing
      PROVE IInv'
  <2>0. Numbers'
    BY Zenon, <1>2 DEF IInv, Numbers, Enqueue, art
  <2>1. Types'
    BY Zenon, <1>2 DEF IInv, Types, Enqueue, art
  <2>2. Held'
    BY Zenon, <1>2 DEF IInv, Numbers, Types, Held, Enqueue, art
  <2>3. OwedIsNew'
    BY Zenon, <1>2 DEF IInv, Numbers, Types, OwedIsNew, Enqueue, art
  <2>4. Asked'
    <3> SUFFICES ASSUME NEW j \in Items
                 PROVE  asked'[j] <= source'[j] /\ (job'[j] # "idle" /\ ~queued'[j] => asked'[j] = 0)
      BY Zenon DEF Asked
    <3>1. asked[j] <= source[j] /\ source[j] \in Nat /\ (job[j] # "idle" /\ ~queued[j] => asked[j] = 0)
      BY Zenon DEF IInv, Numbers, Asked
    <3>2. CASE j = i
      <4>1. asked'[i] = source[i] /\ source' = source
        BY Zenon, <1>2 DEF IInv, Numbers, Enqueue
      <4>2. queued'[i] = TRUE
        BY Zenon, <1>2 DEF IInv, Types, Enqueue
      <4> QED BY <3>1, <3>2, <4>1, <4>2
    <3>3. CASE j # i
      BY Zenon, <1>2, <3>1, <3>3 DEF IInv, Numbers, Types, Enqueue
    <3> QED BY Zenon, <3>2, <3>3
  <2>5. GotIsCurrent'
    BY Zenon, <1>2 DEF IInv, Numbers, Types, GotIsCurrent, Asked, Enqueue, art
  <2>6. RequestKept'
    BY Zenon, <1>2 DEF IInv, Numbers, Types, RequestKept, OwedIsNew, Held, Enqueue, art
  <2>7. SettledIsCurrent'
    BY Zenon, <1>2 DEF IInv, Numbers, Types, SettledIsCurrent, GotIsCurrent, Asked, Enqueue, art
  <2> QED BY Zenon, <2>0, <2>1, <2>2, <2>3, <2>4, <2>5, <2>6, <2>7 DEF IInv
<1>3. ASSUME NEW i \in Items, InsertIfNotQueued(i),
             UNCHANGED <<source, art, worker, refreshing, history>>
      PROVE IInv'
  BY Zenon, <1>3 DEF IInv, Numbers, Types, Held, OwedIsNew, Asked, GotIsCurrent, RequestKept,
              SettledIsCurrent,
              InsertIfNotQueued, art, worker, history
<1>4. ASSUME NEW i \in Items, DeleteForItem(i), UNCHANGED <<source, queue, worker, history>>,
             refreshing' \subseteq refreshing \cup {i}
      PROVE IInv'
  BY Zenon, <1>4 DEF IInv, Numbers, Types, Held, OwedIsNew, Asked, GotIsCurrent, RequestKept,
              SettledIsCurrent,
              DeleteForItem, queue, worker, history
<1>5. ASSUME NEW is \in SUBSET Items, PurgeQueued(is) PROVE IInv'
  <2>0. Numbers'
    BY Zenon, <1>5 DEF IInv, Numbers, PurgeQueued, art
  <2>1. Types'
    BY Zenon, <1>5 DEF IInv, Types, PurgeQueued, art
  <2>2. Held'
    BY Zenon, <1>5 DEF IInv, Numbers, Types, Held, PurgeQueued, art
  <2>3. OwedIsNew'
    BY Zenon, <1>5 DEF IInv, Numbers, Types, OwedIsNew, PurgeQueued, art
  <2>4. Asked'
    <3> SUFFICES ASSUME NEW j \in Items
                 PROVE  asked'[j] <= source'[j] /\ (job'[j] # "idle" /\ ~queued'[j] => asked'[j] = 0)
      BY Zenon DEF Asked
    <3>1. asked[j] <= source[j] /\ source[j] \in Nat /\ (job[j] # "idle" /\ ~queued[j] => asked[j] = 0)
      BY Zenon DEF IInv, Numbers, Asked
    <3>2. CASE j \in is
      BY <1>5, <3>1, <3>2 DEF PurgeQueued
    <3>3. CASE j \notin is
      BY Zenon, <1>5, <3>1, <3>3 DEF PurgeQueued
    <3> QED BY Zenon, <3>2, <3>3
  <2>5. GotIsCurrent'
    BY Zenon, <1>5 DEF IInv, Numbers, Types, GotIsCurrent, Asked, PurgeQueued, art
  <2>6. RequestKept'
    BY Zenon, <1>5 DEF IInv, Numbers, Types, RequestKept, OwedIsNew, Held, PurgeQueued, art
  <2>7. SettledIsCurrent'
    <3> SUFFICES ASSUME NEW j \in Items, ~queued'[j]
                 PROVE  row'[j] = "none" \/ failed'[j] \/ ver'[j] >= asked'[j] \/ j \in unrecorded'
      BY Zenon DEF SettledIsCurrent
    <3>1. UNCHANGED <<row, failed, ver, unrecorded>> /\ ver[j] \in Nat
      BY Zenon, <1>5 DEF IInv, Numbers, PurgeQueued, art
    <3>2. CASE j \in is
      BY <1>5, <3>1, <3>2 DEF PurgeQueued
    <3>3. CASE j \notin is
      BY Zenon, <1>5, <3>1, <3>3 DEF IInv, SettledIsCurrent, PurgeQueued
    <3> QED BY Zenon, <3>2, <3>3
  <2> QED BY Zenon, <2>0, <2>1, <2>2, <2>3, <2>4, <2>5, <2>6, <2>7 DEF IInv
<1>6. ASSUME Crash PROVE IInv'
  BY Zenon, <1>6 DEF IInv, Numbers, Types, Held, OwedIsNew, Asked, GotIsCurrent, RequestKept,
              SettledIsCurrent,
              Crash, art, queue, history
<1>7. ASSUME NEW i \in Items, Due(i) PROVE IInv'
  BY Zenon, <1>7 DEF IInv, Numbers, Types, Held, OwedIsNew, Asked, GotIsCurrent, RequestKept,
              SettledIsCurrent,
              Due, art, worker, history
<1>8. ASSUME NEW p \in Pools, Drain(p) PROVE IInv'
  <2>1. PICK b \in DequeueBatch(p) :
          /\ job' = [i \in Items |-> IF i \in b THEN "taken" ELSE job[i]]
          /\ unchanged' = [i \in Items |-> unchanged[i] \/ i \in b]
    BY Zenon, <1>8 DEF Drain
  <2>2. \A i \in b : i \in Items /\ queued[i] /\ ready[i]
    BY Zenon, <2>1 DEF DequeueBatch, Eligible, InPool
  <2>3. UNCHANGED <<source, art, queue, got, refreshing, history>>
    BY Zenon, <1>8 DEF Drain
  <2> QED BY Zenon, <2>1, <2>2, <2>3
          DEF IInv, Numbers, Types, Held, OwedIsNew, Asked, GotIsCurrent, RequestKept, SettledIsCurrent,
              art, queue, history
<1>9. ASSUME NEW p \in Pools, DrainPaused(p) PROVE IInv'
  BY Zenon, <1>9 DEF IInv, Numbers, Types, Held, OwedIsNew, Asked, GotIsCurrent, RequestKept,
              SettledIsCurrent,
              DrainPaused, art, queue, history
<1>10. ASSUME NEW i \in Items, Resolve(i) PROVE IInv'
  <2>0. Numbers'
    BY Zenon, <1>10 DEF IInv, Numbers, Resolve, art, queue
  <2>1. Types'
    BY Zenon, <1>10 DEF IInv, Types, Resolve, art, queue
  <2>2. Held'
    BY Zenon, <1>10 DEF IInv, Numbers, Types, Held, Resolve, art, queue
  <2>3. OwedIsNew'
    BY Zenon, <1>10 DEF IInv, Numbers, Types, OwedIsNew, Resolve, art, queue
  <2>4. Asked'
    BY Zenon, <1>10 DEF IInv, Numbers, Types, Asked, Resolve, art, queue
  <2>5. GotIsCurrent'
    BY Zenon, <1>10 DEF IInv, Numbers, Types, GotIsCurrent, Asked, Resolve, art, queue
  <2>6. RequestKept'
    BY Zenon, <1>10 DEF IInv, Numbers, Types, RequestKept, OwedIsNew, Held, Resolve, art, queue
  <2>7. SettledIsCurrent'
    BY Zenon, <1>10
    DEF IInv, Numbers, Types, SettledIsCurrent, GotIsCurrent, Asked, Resolve, art, queue
  <2> QED BY Zenon, <2>0, <2>1, <2>2, <2>3, <2>4, <2>5, <2>6, <2>7 DEF IInv
<1>11. ASSUME NEW i \in Items, Persist(i) PROVE IInv'
  <2>0. Numbers'
    BY Zenon, <1>11 DEF IInv, Numbers, Persist, queue, history
  <2>1. Types'
    BY Zenon, <1>11 DEF IInv, Types, Persist, queue, history
  <2>2. Held'
    BY Zenon, <1>11 DEF IInv, Numbers, Types, Held, Persist, queue, history
  <2>3. OwedIsNew'
    BY Zenon, <1>11 DEF IInv, Numbers, Types, OwedIsNew, Persist, queue, history
  <2>4. Asked'
    BY Zenon, <1>11 DEF IInv, Numbers, Types, Asked, Persist, queue, history
  <2>5. GotIsCurrent'
    BY Zenon, <1>11 DEF IInv, Numbers, Types, GotIsCurrent, Asked, Persist, queue, history
  <2>6. RequestKept'
    BY Zenon, <1>11 DEF IInv, Numbers, Types, RequestKept, OwedIsNew, Held, Persist, queue, history
  <2>7. SettledIsCurrent'
    <3> SUFFICES ASSUME NEW j \in Items, ~queued[j]
                 PROVE  row'[j] = "none" \/ failed'[j] \/ ver'[j] >= asked[j] \/ j \in unrecorded'
      BY Zenon, <1>11 DEF SettledIsCurrent, Persist, queue, history
    <3>1. CASE j = i
      <4>1. asked[i] = 0
        BY Zenon, <1>11, <3>1 DEF IInv, Asked, Persist
      <4>2. ver'[i] \in Nat
        BY Zenon, <2>0 DEF Numbers
      <4> QED BY <3>1, <4>1, <4>2
    <3>2. CASE j # i
      <4>1. /\ row'[j] = row[j] /\ failed'[j] = failed[j] /\ ver'[j] = ver[j]
            /\ j \in unrecorded => j \in unrecorded'
        BY Zenon, <1>11, <3>2 DEF IInv, Numbers, Types, Persist, art
      <4> QED BY Zenon, <4>1 DEF IInv, SettledIsCurrent
    <3> QED BY Zenon, <3>1, <3>2
  <2> QED BY Zenon, <2>0, <2>1, <2>2, <2>3, <2>4, <2>5, <2>6, <2>7 DEF IInv
<1>12. ASSUME NEW i \in Items, PersistFails(i) \/ GiveUp(i) PROVE IInv'
  <2>0. Numbers'
    BY Zenon, <1>12 DEF IInv, Numbers, PersistFails, GiveUp, art, queue, history
  <2>1. Types'
    BY Zenon, <1>12 DEF IInv, Types, PersistFails, GiveUp, art, queue, history
  <2>2. Held'
    BY <1>12, ZenonT(40) DEF IInv, Numbers, Types, Held, PersistFails, GiveUp, art, queue, history
  <2>3. OwedIsNew'
    BY Zenon, <1>12 DEF IInv, Numbers, Types, OwedIsNew, PersistFails, GiveUp, art, queue, history
  <2>4. Asked'
    BY Zenon, <1>12 DEF IInv, Numbers, Types, Asked, PersistFails, GiveUp, art, queue, history
  <2>5. GotIsCurrent'
    BY <1>12, ZenonT(40) DEF IInv, Numbers, Types, GotIsCurrent, Asked, PersistFails, GiveUp, art, queue,
                 history
  <2>6. RequestKept'
    BY Zenon, <1>12
    DEF IInv, Numbers, Types, RequestKept, OwedIsNew, Held, PersistFails, GiveUp, art,
                 queue, history
  <2>7. SettledIsCurrent'
    BY Zenon, <1>12
    DEF IInv, Numbers, Types, SettledIsCurrent, GotIsCurrent, Asked, PersistFails, GiveUp,
                 art, queue, history
  <2> QED BY Zenon, <2>0, <2>1, <2>2, <2>3, <2>4, <2>5, <2>6, <2>7 DEF IInv
<1>13. ASSUME NEW i \in Items, Settle(i) PROVE IInv'
  BY Zenon, <1>13 DEF IInv, Numbers, Types, Held, OwedIsNew, Asked, GotIsCurrent, RequestKept,
               SettledIsCurrent,
               Settle, Done, DeleteIfUnchanged, art, history
<1>14. ASSUME NEW i \in Items, Reschedule(i) PROVE IInv'
  BY Zenon, <1>14 DEF IInv, Numbers, Types, Held, OwedIsNew, Asked, GotIsCurrent, RequestKept,
               SettledIsCurrent,
               Reschedule, Done, MarkFailedIfUnchanged, art, history
<1>15. ASSUME NEW i \in Items, SettleFails(i) \/ RescheduleFails(i) PROVE IInv'
  <2>0. Numbers'
    BY Zenon, <1>15 DEF IInv, Numbers, SettleFails, RescheduleFails, Done, art, queue, history
  <2>a. /\ job' = [job EXCEPT ![i] = "idle"] /\ unchanged' = [unchanged EXCEPT ![i] = FALSE]
        /\ UNCHANGED <<art, queue, got, refreshing, history>>
    BY Zenon, <1>15 DEF SettleFails, RescheduleFails, Done
  <2>1. Types'
    BY Zenon, <2>a DEF IInv, Types, art, queue, history
  <2>2. Held'
    BY Zenon, <2>a DEF IInv, Types, Held, art, queue, history
  <2>3. OwedIsNew'
    BY Zenon, <1>15
    DEF IInv, Numbers, Types, OwedIsNew, SettleFails, RescheduleFails, Done, art, queue,
                 history
  <2>4. Asked'
    BY Zenon, <1>15 DEF IInv, Numbers, Types, Asked, SettleFails, RescheduleFails, Done, art, queue,
                 history
  <2>5. GotIsCurrent'
    <3>1. \A j \in Items : unchanged'[j] => unchanged[j] /\ job'[j] = job[j]
      BY Zenon, <2>a DEF IInv, Types
    <3> QED BY Zenon, <2>a, <3>1 DEF IInv, GotIsCurrent, art, queue, history
  <2>6. RequestKept'
    BY Zenon, <1>15
    DEF IInv, Numbers, Types, RequestKept, OwedIsNew, Held, SettleFails, RescheduleFails,
                 Done, art, queue, history
  <2>7. SettledIsCurrent'
    BY Zenon, <1>15 DEF IInv, Numbers, Types, SettledIsCurrent, GotIsCurrent, Asked, SettleFails,
                 RescheduleFails, Done, art, queue, history
  <2> QED BY Zenon, <2>0, <2>1, <2>2, <2>3, <2>4, <2>5, <2>6, <2>7 DEF IInv
<1>16. ASSUME NEW i \in Items, GiveUpAbsent(i) PROVE IInv'
  <2>0. Numbers'
    BY Zenon, <1>16 DEF IInv, Numbers, GiveUpAbsent, art, queue, history
  <2>1. Types'
    BY Zenon, <1>16 DEF IInv, Types, GiveUpAbsent, art, queue, history
  <2>2. Held'
    BY Zenon, <1>16 DEF IInv, Numbers, Types, Held, GiveUpAbsent, art, queue, history
  <2>3. OwedIsNew'
    BY Zenon, <1>16 DEF IInv, Numbers, Types, OwedIsNew, GiveUpAbsent, art, queue, history
  <2>4. Asked'
    BY Zenon, <1>16 DEF IInv, Numbers, Types, Asked, GiveUpAbsent, art, queue, history
  <2>5. GotIsCurrent'
    BY Zenon, <1>16 DEF IInv, Numbers, Types, GotIsCurrent, Asked, GiveUpAbsent, art, queue, history
  <2>6. RequestKept'
    BY Zenon, <1>16
    DEF IInv, Numbers, Types, RequestKept, OwedIsNew, Held, GiveUpAbsent, art, queue,
                 history
  <2>7. SettledIsCurrent'
    <3> SUFFICES ASSUME NEW j \in Items, ~queued[j]
                 PROVE  row'[j] = "none" \/ failed'[j] \/ ver'[j] >= asked[j] \/ j \in unrecorded'
      BY Zenon, <1>16 DEF SettledIsCurrent, GiveUpAbsent, queue, history
    <3>1. CASE j = i
      <4>1. asked[i] = 0
        BY Zenon, <1>16, <3>1 DEF IInv, Asked, GiveUpAbsent
      <4>2. ver'[i] \in Nat
        BY Zenon, <2>0 DEF Numbers
      <4> QED BY <3>1, <4>1, <4>2
    <3>2. CASE j # i
      <4>1. /\ row'[j] = row[j] /\ failed'[j] = failed[j] /\ ver'[j] = ver[j]
            /\ unrecorded' = unrecorded
        BY Zenon, <1>16, <3>2 DEF IInv, Numbers, Types, GiveUpAbsent, art, history
      <4> QED BY Zenon, <4>1 DEF IInv, SettledIsCurrent
    <3> QED BY Zenon, <3>1, <3>2
  <2> QED BY Zenon, <2>0, <2>1, <2>2, <2>3, <2>4, <2>5, <2>6, <2>7 DEF IInv
<1>17. ASSUME NEW i \in Items, RecordGiveUp(i) PROVE IInv'
  <2>1. /\ job[i] = "giving up" /\ job' = [job EXCEPT ![i] = "settled"]
        /\ UNCHANGED <<source, row, ver, queue, unchanged, got, refreshing, asked, owed>>
        /\ failed' \in [Items -> BOOLEAN] /\ unrecorded' \subseteq Items
    BY Zenon, <1>17 DEF IInv, Types, RecordGiveUp
  <2>2. \A j \in Items : row[j] = "none" \/ failed[j] \/ j \in unrecorded
                           => row[j] = "none" \/ failed'[j] \/ j \in unrecorded'
    BY Zenon, <1>17 DEF IInv, Types, RecordGiveUp
  <2>3. row[i] = "none" \/ failed'[i] \/ i \in unrecorded'
    BY Zenon, <1>17 DEF IInv, Types, RecordGiveUp
  <2>4. Numbers' /\ Types' /\ Held' /\ OwedIsNew' /\ Asked' /\ RequestKept'
    BY Zenon, <2>1 DEF IInv, Numbers, Types, Held, OwedIsNew, Asked, RequestKept, queue
  <2>5. GotIsCurrent'
    BY Zenon, <2>1, <2>2, <2>3 DEF IInv, Types, GotIsCurrent, queue
  <2>6. SettledIsCurrent'
    BY Zenon, <2>1, <2>2 DEF IInv, SettledIsCurrent, queue
  <2> QED BY Zenon, <2>4, <2>5, <2>6 DEF IInv
<1>18. ASSUME UNCHANGED <<source, art, queue, worker, history>>, refreshing' \subseteq refreshing
       PROVE IInv'
  BY Zenon, <1>18 DEF IInv, Numbers, Types, Held, OwedIsNew, Asked, GotIsCurrent, RequestKept,
               SettledIsCurrent,
               art, queue, worker, history
<1>19. ASSUME NEW i \in Items, Request(i) PROVE IInv'
  <2>1. CASE ScanEnqueue(i) \/ RefreshEnqueue(i)
    BY Zenon, <1>2, <2>1 DEF ScanEnqueue, RefreshEnqueue
  <2>2. CASE EnqueueMissing(i) \/ EnqueueBySource(i) \/ View(i)
    BY Zenon, <1>3, <2>2 DEF EnqueueMissing, EnqueueBySource, View
  <2>3. CASE RefreshDelete(i) \/ InvalidateTrack(i)
    BY Zenon, <1>4, <2>3 DEF RefreshDelete, InvalidateTrack
  <2>4. CASE RefreshFails(i)
    BY Zenon, <1>18, <2>4 DEF RefreshFails
  <2> QED BY Zenon, <1>1, <1>19, <2>1, <2>2, <2>3, <2>4 DEF Request
<1>20. ASSUME NEW i \in Items, Process(i) PROVE IInv'
  BY Zenon, <1>10, <1>11, <1>12, <1>13, <1>14, <1>15, <1>16, <1>17, <1>20 DEF Process
<1>21. ASSUME ScanStarts \/ ScanEnds \/ UNCHANGED vars PROVE IInv'
  BY Zenon, <1>18, <1>21 DEF ScanStarts, ScanEnds, vars
<1> QED BY Zenon, <1>5, <1>6, <1>7, <1>8, <1>9, <1>19, <1>20, <1>21 DEF Next

\* The first state satisfies the invariant.
LEMMA InitIInv == Init => IInv
BY ArtworkQueueAssumption
DEF Init, IInv, Numbers, Types, Held, OwedIsNew, Asked, GotIsCurrent, RequestKept, SettledIsCurrent, Jobs

\* A request made with Enqueue() while a worker was busy with the item is still
\* in the queue when that worker is done with it.
THEOREM RequestsKept == Spec => []RequestKept
<1>1. IInv => RequestKept
  BY Zenon DEF IInv
<1> QED BY <1>1, InitIInv, IInvStep, PTL DEF Spec

\* An item leaves the queue only with a state that answers its last request, or
\* given up by a worker that could not write the failure down.
THEOREM RequestsAnswered == Spec => []SettledIsCurrent
<1>1. IInv => SettledIsCurrent
  BY Zenon DEF IInv
<1> QED BY <1>1, InitIInv, IInvStep, PTL DEF Spec

-----------------------------------------------------------------------------
\* The worker settles absent only items that have no image, if it could read that.
ExhaustedHasNone == \A i \in Items : job[i] = "exhausted" => row[i] # "image"

\* A step that is not one of the worker's with some item leaves every image alone.
LEMMA OthersKeepArt ==
  ASSUME Types, Next, ~ \E i \in Items : Process(i)
  PROVE  \A j \in Items : /\ job'[j] = "exhausted" => job[j] = "exhausted"
                          /\ row'[j] # row[j] => row'[j] = "none"
<1>1. ASSUME NEW i \in Items, Request(i) \/ Due(i)
      PROVE  job' = job /\ \A j \in Items : row'[j] # row[j] => row'[j] = "none"
  <2>1. CASE RefreshDelete(i) \/ InvalidateTrack(i)
    BY Zenon, <2>1 DEF RefreshDelete, InvalidateTrack, DeleteForItem, worker, Types
  <2>2. CASE Due(i) \/ SourceChanges(i) \/ ScanEnqueue(i) \/ EnqueueMissing(i) \/ EnqueueBySource(i)
              \/ View(i) \/ RefreshEnqueue(i) \/ RefreshFails(i)
    BY Zenon, <2>2 DEF Due, SourceChanges, ScanEnqueue, EnqueueMissing, EnqueueBySource, View,
                RefreshEnqueue,
                RefreshFails, worker, art
  <2> QED BY Zenon, <1>1, <2>1, <2>2 DEF Request
<1>2. ASSUME NEW p \in Pools, Drain(p) \/ DrainPaused(p)
      PROVE  row' = row /\ \A j \in Items : job'[j] = job[j] \/ job'[j] \in {"idle", "taken"}
  BY Zenon, <1>2 DEF Drain, DrainPaused, art
<1>3. ASSUME (\E is \in SUBSET Items : PurgeQueued(is)) \/ ScanStarts \/ ScanEnds \/ Crash
      PROVE  row' = row /\ \A j \in Items : job'[j] = job[j] \/ job'[j] = "idle"
  BY Zenon, <1>3 DEF PurgeQueued, ScanStarts, ScanEnds, Crash, art, worker
<1> QED BY Zenon, <1>1, <1>2, <1>3 DEF Next

\* A step of the worker with an item makes it absent only from a definite answer,
\* or after it could not read the item's row.
LEMMA ProcessKeepsArt ==
  ASSUME Numbers, Types, ExhaustedHasNone, NEW i \in Items, Process(i)
  PROVE  /\ ExhaustedHasNone'
         /\ \A j \in Items : row[j] = "image" /\ row'[j] = "absent"
                                => (job[j] = "resolved" /\ ver'[j] \notin Images) \/ job[j] = "misread"
<1>1. CASE Persist(i)
  <2>1. /\ job[i] = "resolved" /\ ver' = [ver EXCEPT ![i] = got[i]]
        /\ row' = [row EXCEPT ![i] = IF got[i] \in Images THEN "image" ELSE "absent"]
        /\ job' = [job EXCEPT ![i] = "settled"] \/ job' = [job EXCEPT ![i] = "stale"]
    BY Zenon, <1>1 DEF Persist
  <2>2. ExhaustedHasNone'
    BY Zenon, <2>1 DEF ExhaustedHasNone, Types
  <2> QED BY Zenon, <2>1, <2>2 DEF Numbers, Types
<1>2. CASE GiveUpAbsent(i)
  BY Zenon, <1>2 DEF GiveUpAbsent, ExhaustedHasNone, Types, art
<1>3. CASE GiveUp(i)
  BY Zenon, <1>3 DEF GiveUp, HasResolvedArtwork, ExhaustedHasNone, Types, art
<1>4. CASE Resolve(i) \/ PersistFails(i) \/ RecordGiveUp(i)
  BY Zenon, <1>4 DEF Resolve, PersistFails, RecordGiveUp, ExhaustedHasNone, Types, art
<1>5. CASE Settle(i) \/ SettleFails(i) \/ Reschedule(i) \/ RescheduleFails(i)
  BY Zenon, <1>5
  DEF Settle, SettleFails, Reschedule, RescheduleFails, Done, ExhaustedHasNone, Types, art
<1> QED BY Zenon, <1>1, <1>2, <1>3, <1>4, <1>5 DEF Process

\* Art that is served is kept when an item's retry budget is exhausted, unless
\* the item's row cannot be read at that moment.
THEOREM ArtKept == Spec => ServedArtKept
<1>1. Init => IInv /\ ExhaustedHasNone
  BY ArtworkQueueAssumption
  DEF Init, IInv, Numbers, Types, Held, OwedIsNew, Asked, GotIsCurrent, RequestKept, SettledIsCurrent,
      Jobs, ExhaustedHasNone
<1>2. IInv /\ ExhaustedHasNone /\ [Next]_vars =>
        /\ ExhaustedHasNone'
        /\ [\A i \in Items : row[i] = "image" /\ row'[i] = "absent" =>
               (job[i] = "resolved" /\ ver'[i] \notin Images) \/ job[i] = "misread"]_vars
  <2> SUFFICES ASSUME IInv, ExhaustedHasNone, [Next]_vars
               PROVE  /\ ExhaustedHasNone'
                      /\ \/ \A i \in Items : row[i] = "image" /\ row'[i] = "absent" =>
                              (job[i] = "resolved" /\ ver'[i] \notin Images) \/ job[i] = "misread"
                         \/ UNCHANGED vars
    BY Zenon
  <2>1. CASE \E i \in Items : Process(i)
    BY Zenon, <2>1, ProcessKeepsArt DEF IInv
  <2>2. CASE Next /\ ~ \E i \in Items : Process(i)
    BY Zenon, <2>2, OthersKeepArt DEF IInv, ExhaustedHasNone
  <2>3. CASE UNCHANGED vars
    BY Zenon, <2>3 DEF ExhaustedHasNone, vars, art, worker
  <2> QED BY Zenon, <2>1, <2>2, <2>3
<1> QED BY <1>1, <1>2, IInvStep, PTL DEF Spec, ServedArtKept

-----------------------------------------------------------------------------
\* The rest of the type invariant: the retry budget ends the attempts.
Rest ==
  /\ settling \subseteq Items /\ attempts \in [Items -> 0 .. MaxAttempts]
  /\ left \in 0 .. MaxEvents

LEMMA RestStep == IInv /\ Rest /\ [Next]_vars => Rest'
<1> SUFFICES ASSUME IInv, Rest, [Next]_vars PROVE Rest'
  BY Zenon
<1>1. Types /\ Numbers
  BY Zenon DEF IInv
<1> USE ArtworkQueueAssumption DEF Rest, Event
<1>2. ASSUME NEW i \in Items, Request(i) \/ Due(i) PROVE Rest'
  <2>1. CASE SourceChanges(i) \/ Due(i)
    BY Zenon, <2>1 DEF SourceChanges, Due, queue
  <2>2. CASE ScanEnqueue(i) \/ RefreshEnqueue(i)
    BY <2>2 DEF ScanEnqueue, RefreshEnqueue, Enqueue
  <2>3. CASE EnqueueMissing(i) \/ EnqueueBySource(i) \/ View(i)
    <3>1. UNCHANGED settling /\ InsertIfNotQueued(i) /\ (UNCHANGED left \/ Event)
      BY <2>3, Zenon DEF EnqueueMissing, EnqueueBySource, View
    <3> QED BY <3>1 DEF InsertIfNotQueued
  <2>4. CASE RefreshDelete(i) \/ RefreshFails(i) \/ InvalidateTrack(i)
    BY <2>4 DEF RefreshDelete, RefreshFails, InvalidateTrack, queue
  <2> QED BY Zenon, <1>2, <2>1, <2>2, <2>3, <2>4 DEF Request
<1>3. ASSUME NEW i \in Items, Process(i) PROVE Rest'
  <2>1. CASE Reschedule(i)
    BY <1>1, <2>1 DEF Reschedule, WithinBudget, MarkFailedIfUnchanged, Done, Types
  <2>2. CASE Settle(i) \/ SettleFails(i) \/ RescheduleFails(i)
    BY <2>2 DEF Settle, SettleFails, RescheduleFails, Done, queue
  <2>3. CASE Resolve(i) \/ Persist(i) \/ PersistFails(i) \/ GiveUp(i) \/ GiveUpAbsent(i) \/ RecordGiveUp(i)
    <3>1. UNCHANGED <<settling, queue>> /\ (UNCHANGED left \/ Event)
      BY <2>3, Zenon DEF Resolve, Persist, PersistFails, GiveUp, GiveUpAbsent, RecordGiveUp
    <3> QED BY <3>1 DEF queue
  <2> QED BY Zenon, <1>3, <2>1, <2>2, <2>3 DEF Process
<1>4. ASSUME NEW p \in Pools, Drain(p) \/ DrainPaused(p) PROVE Rest'
  BY Zenon, <1>4 DEF Drain, DrainPaused, queue
<1>5. ASSUME NEW is \in SUBSET Items, PurgeQueued(is) PROVE Rest'
  BY <1>5 DEF PurgeQueued
<1>6. CASE ScanStarts \/ ScanEnds \/ Crash
  BY <1>6 DEF ScanStarts, ScanEnds, Crash, queue
<1>7. CASE UNCHANGED vars
  BY Zenon, <1>7 DEF vars, queue
<1> HIDE DEF Rest
<1> QED BY Zenon, <1>2, <1>3, <1>4, <1>5, <1>6, <1>7 DEF Next

\* A scan pauses the worker or does not.
Flag == paused \in BOOLEAN

LEMMA FlagStep == Flag /\ [Next]_vars => Flag'
<1> SUFFICES ASSUME Flag, [Next]_vars PROVE Flag'
  BY Zenon
<1> USE DEF Flag
<1>1. ASSUME NEW i \in Items, Request(i) \/ Due(i) PROVE Flag'
  BY <1>1, Zenon DEF Request, Due, SourceChanges, ScanEnqueue, EnqueueMissing, EnqueueBySource, View,
                     RefreshDelete, RefreshEnqueue, RefreshFails, InvalidateTrack
<1>2. ASSUME NEW i \in Items, Process(i) PROVE Flag'
  BY <1>2, Zenon DEF Process, Resolve, Persist, PersistFails, Settle, SettleFails, Reschedule,
                     RescheduleFails, GiveUp, GiveUpAbsent, RecordGiveUp, Done
<1>3. ASSUME NEW p \in Pools, Drain(p) \/ DrainPaused(p) PROVE Flag'
  BY <1>3, Zenon DEF Drain, DrainPaused
<1>4. ASSUME NEW is \in SUBSET Items, PurgeQueued(is) PROVE Flag'
  BY <1>4, Zenon DEF PurgeQueued
<1>5. CASE ScanStarts \/ ScanEnds \/ Crash
  BY <1>5, Zenon DEF ScanStarts, ScanEnds, Crash
<1>6. CASE UNCHANGED vars
  BY <1>6, Zenon DEF vars
<1> HIDE DEF Flag
<1> QED BY Zenon, <1>1, <1>2, <1>3, <1>4, <1>5, <1>6 DEF Next

\* The variables keep their types, the worker holds only rows that are queued and
\* due, and no item is tried more often than its retry budget allows.
THEOREM TypeCorrect == Spec => []TypeOK
<1>1. Init => Rest
  BY ArtworkQueueAssumption DEF Init, Rest
<1>2. Init => Flag
  BY Zenon DEF Init, Flag
<1>3. IInv /\ Rest /\ Flag => TypeOK
  BY Zenon DEF IInv, Numbers, Types, Held, Rest, Flag, TypeOK
<1> QED BY <1>1, <1>2, <1>3, InitIInv, IInvStep, RestStep, FlagStep, PTL DEF Spec
=============================================================================
