---------------------------- MODULE WatcherProofs ----------------------------
(***************************************************************************)
(* Proofs about Watcher, for any libraries, folders, instances and bounds. *)
(***************************************************************************)
EXTENDS Watcher, TLAPS

InstanceType ==
  /\ libraryWatchers \in [Libs -> Instances \cup {NoInstance}]
  /\ state \in [Instances -> {"unused", "starting", "running", "returned", "done"}]
  /\ watches \in [Instances -> Libs] /\ cancelled \subseteq Instances
  /\ pending \in [Instances -> SUBSET Folders]

\* An instance that was never started is unknown to everybody.
UnusedUnknown ==
  \A i \in Instances : state[i] = "unused" =>
    i \notin cancelled /\ \A l \in Libs : libraryWatchers[l] # i

InstanceInv == InstanceType /\ UnusedUnknown /\ NoOrphanWatcher /\ RegisteredIsLive

\* Every step keeps the registry and the goroutines of the instances together.
LEMMA InstanceStep == InstanceInv /\ [Next]_vars => InstanceInv'
<1> USE WatcherAssumption
<1> SUFFICES ASSUME InstanceInv, [Next]_vars PROVE InstanceInv'
  BY Zenon
<1>1. ASSUME NEW f \in Folders, Change(f) PROVE InstanceInv'
  BY <1>1 DEF InstanceInv, InstanceType, UnusedUnknown, NoOrphanWatcher, RegisteredIsLive, Change
<1>2. ASSUME NEW l \in Libs, Watch(l) PROVE InstanceInv'
  <2>1. PICK i \in Instances :
          /\ state[i] = "unused" /\ watches[i] = l
          /\ state' = [state EXCEPT ![i] = "starting"]
          /\ cancelled' = cancelled \cup ({libraryWatchers[l]} \ {NoInstance})
          /\ libraryWatchers' = [libraryWatchers EXCEPT ![l] = i]
    BY Zenon, <1>2 DEF Watch
  <2>2. watches' = watches /\ pending' = pending
    BY Zenon, <1>2 DEF Watch
  <2>3. InstanceType'
    BY Zenon, <2>1, <2>2 DEF InstanceInv, InstanceType
  <2>4. UnusedUnknown'
    BY Zenon, <2>1, <2>2 DEF InstanceInv, InstanceType, UnusedUnknown
  <2>5. NoOrphanWatcher'
    BY Zenon, <2>1, <2>2 DEF InstanceInv, InstanceType, UnusedUnknown, NoOrphanWatcher
  <2>6. RegisteredIsLive'
    BY Zenon, <2>1, <2>2 DEF InstanceInv, InstanceType, UnusedUnknown, RegisteredIsLive
  <2> QED BY Zenon, <2>3, <2>4, <2>5, <2>6 DEF InstanceInv
<1>3. ASSUME NEW l \in Libs, StopWatching(l) PROVE InstanceInv'
  BY <1>3 DEF InstanceInv, InstanceType, UnusedUnknown, NoOrphanWatcher, RegisteredIsLive,
              StopWatching,
              DeleteWatcher
<1>4. ASSUME NEW i \in Instances, WatchLibrary(i) PROVE InstanceInv'
  BY <1>4 DEF InstanceInv, InstanceType, UnusedUnknown, NoOrphanWatcher, RegisteredIsLive,
              WatchLibrary
<1>5. ASSUME NEW i \in Instances, WatchLibraryReturns(i) PROVE InstanceInv'
  BY Zenon, <1>5 DEF InstanceInv, InstanceType, UnusedUnknown, NoOrphanWatcher, RegisteredIsLive,
              WatchLibraryReturns
<1>6. ASSUME NEW i \in Instances, Cleanup(i) PROVE InstanceInv'
  BY <1>6 DEF InstanceInv, InstanceType, UnusedUnknown, NoOrphanWatcher, RegisteredIsLive, Cleanup,
              Unregister, DeleteWatcher
<1>7. ASSUME NEW i \in Instances, NEW f \in Folders, ProcessEvent(i, f) PROVE InstanceInv'
  BY Zenon, <1>7 DEF InstanceInv, InstanceType, UnusedUnknown, NoOrphanWatcher, RegisteredIsLive,
              ProcessEvent
<1>8. ASSUME UNCHANGED instances PROVE InstanceInv'
  BY Zenon, <1>8
  DEF InstanceInv, InstanceType, UnusedUnknown, NoOrphanWatcher, RegisteredIsLive, instances
<1>9. \/ \E f \in Folders : Change(f)
      \/ \E l \in Libs : Watch(l) \/ StopWatching(l)
      \/ \E i \in Instances : WatchLibrary(i) \/ WatchLibraryReturns(i) \/ Cleanup(i)
      \/ \E i \in Instances, f \in Folders : ProcessEvent(i, f)
      \/ UNCHANGED instances
  BY Zenon DEF Next, Stages, vars, TriggerFails, TriggerBusy, OtherScan, Receive, Scan, ScanRefused,
         Visit, PassOver, Trigger, ScanEnds, ScanFails
<1> QED BY Zenon, <1>1, <1>2, <1>3, <1>4, <1>5, <1>6, <1>7, <1>8, <1>9

\* Watch, StopWatching, failing storages and deferred cleanups in any order leave
\* no running instance that is not registered, and register no cancelled one.
THEOREM OneWatcherPerLibrary == Spec => [](NoOrphanWatcher /\ RegisteredIsLive)
<1>1. Init => InstanceInv
  BY Zenon, WatcherAssumption
  DEF Init, InstanceInv, InstanceType, UnusedUnknown, NoOrphanWatcher, RegisteredIsLive
<1>2. InstanceInv => NoOrphanWatcher /\ RegisteredIsLive
  BY Zenon DEF InstanceInv
<1> QED BY <1>1, <1>2, InstanceStep, PTL DEF Spec

-----------------------------------------------------------------------------
\* The types of the main loop's variables, and what they mean to each other: a goroutine
\* that does not wait has no request, and without a scan nothing is left to visit and
\* none is the watcher's.
LoopInv ==
  /\ dirty \subseteq Folders /\ targets \subseteq Targets /\ armed \in BOOLEAN
  /\ waiting \subseteq Requests /\ request \in [Requests -> SUBSET Targets]
  /\ \A r \in Requests : r \notin waiting => request[r] = {}
  /\ running \in BOOLEAN /\ (~running => toVisit = {} /\ ~own)

\* A folder stays on its way unless a step visits it or records its loss.
Kept == \A f \in dirty' \ lost' : OnItsWay(f) => OnItsWay(f)'

\* Every step keeps each changed folder on its way, or records its loss.
LEMMA LossStep ==
  InstanceInv /\ LoopInv /\ LossHasCause /\ [Next]_vars => LoopInv' /\ LossHasCause'
<1> USE WatcherAssumption
<1> SUFFICES ASSUME InstanceInv, LoopInv, LossHasCause, [Next]_vars
             PROVE LoopInv' /\ LossHasCause'
  BY Zenon
<1>0. ASSUME dirty' \subseteq dirty, lost \cap dirty' \subseteq lost', Kept PROVE LossHasCause'
  BY Zenon, <1>0 DEF LossHasCause, Kept
<1>1. ASSUME NEW f \in Folders, Change(f) PROVE LoopInv' /\ LossHasCause'
  <2> DEFINE seeing == {i \in Instances :
                      state[i] = "running" /\ i \notin cancelled /\ watches[i] = LibOf[f]}
  <2>1. PICK i \in seeing : TRUE
    BY Zenon, <1>1 DEF Change
  <2>2. pending' = [j \in Instances |-> IF j \in seeing THEN pending[j] \cup {f} ELSE pending[j]]
    BY Zenon, <1>1 DEF Change
  <2>3. \A j \in Instances : pending[j] \subseteq pending'[j]
    BY Zenon, <2>2
  <2>4. f \in pending'[i] /\ state[i] = "running" /\ i \in Instances
    BY Zenon, <2>1, <2>2
  <2>5. /\ UNCHANGED <<state, notified, armed, targets, request, waiting, running, toVisit, own>>
        /\ dirty' = dirty \cup {f} /\ lost' = lost \ {f}
    BY Zenon, <1>1 DEF Change, loop, calls, scan
  <2>6. LoopInv'
    BY Zenon, <2>5 DEF LoopInv
  <2>7. \A g \in dirty \ lost : OnItsWay(g)'
    BY Zenon, <2>3, <2>5 DEF LossHasCause, OnItsWay
  <2>8. OnItsWay(f)'
    BY Zenon, <2>4, <2>5 DEF OnItsWay
  <2> QED BY Zenon, <2>5, <2>6, <2>7, <2>8 DEF LossHasCause
<1>2. ASSUME NEW l \in Libs, Watch(l) \/ StopWatching(l) PROVE LoopInv' /\ LossHasCause'
  <2>1. UNCHANGED <<dirty, pending, notified, loop, calls, scan, lost>>
    BY Zenon, <1>2 DEF Watch, StopWatching
  <2>2. \A j \in Instances : state[j] = "running" => state'[j] = "running"
    BY Zenon, <1>2 DEF Watch, StopWatching, InstanceInv, InstanceType
  <2>3. LoopInv'
    BY Zenon, <2>1 DEF LoopInv, loop, calls, scan
  <2>4. Kept
    BY Zenon, <2>1, <2>2 DEF Kept, OnItsWay, loop, calls, scan
  <2> QED BY Zenon, <1>0, <2>1, <2>3, <2>4
<1>3. ASSUME NEW i \in Instances, WatchLibrary(i) \/ Cleanup(i) PROVE LoopInv' /\ LossHasCause'
  <2>1. UNCHANGED <<dirty, pending, notified, loop, calls, scan, lost>>
    BY Zenon, <1>3 DEF WatchLibrary, Cleanup
  <2>2. \A j \in Instances : state[j] = "running" => state'[j] = "running"
    BY Zenon, <1>3 DEF WatchLibrary, Cleanup, InstanceInv, InstanceType
  <2>3. LoopInv'
    BY Zenon, <2>1 DEF LoopInv, loop, calls, scan
  <2>4. Kept
    BY Zenon, <2>1, <2>2 DEF Kept, OnItsWay, loop, calls, scan
  <2> QED BY Zenon, <1>0, <2>1, <2>3, <2>4
<1>4. ASSUME NEW i \in Instances, WatchLibraryReturns(i) PROVE LoopInv' /\ LossHasCause'
  <2>1. /\ state' = [state EXCEPT ![i] = "returned"] /\ pending' = [pending EXCEPT ![i] = {}]
        /\ lost' = lost \cup pending[i] /\ UNCHANGED <<dirty, notified, loop, calls, scan>>
    BY Zenon, <1>4 DEF WatchLibraryReturns
  <2>2. LoopInv'
    BY Zenon, <2>1 DEF LoopInv, loop, calls, scan
  <2>3. \A f \in dirty' \ lost', j \in Instances :
          state[j] = "running" /\ f \in pending[j] => state'[j] = "running" /\ f \in pending'[j]
    BY Zenon, <2>1 DEF InstanceInv, InstanceType
  <2>4. Kept
    BY <2>1, <2>3 DEF Kept, OnItsWay, loop, calls, scan
  <2> QED BY Zenon, <1>0, <2>1, <2>2, <2>4
<1>5. ASSUME NEW i \in Instances, NEW f \in Folders, ProcessEvent(i, f)
      PROVE LoopInv' /\ LossHasCause'
  <2>1. PICK t \in {f, LibOf[f]} : notified' = notified \cup {t}
    BY Zenon, <1>5 DEF ProcessEvent
  <2>2. /\ pending' = [pending EXCEPT ![i] = pending[i] \ {f}]
        /\ UNCHANGED <<dirty, state, loop, calls, scan, lost>>
    BY Zenon, <1>5 DEF ProcessEvent
  <2>3. LoopInv'
    BY Zenon, <2>2 DEF LoopInv, loop, calls, scan
  <2>4. ASSUME NEW g \in dirty, OnItsWay(g) PROVE OnItsWay(g)'
    <3>1. CASE g = f
      BY Zenon, <2>1, <2>2, <3>1 DEF OnItsWay
    <3>2. CASE g # f
      <4>1. \A j \in Instances : g \in pending[j] => g \in pending'[j]
        BY Zenon, <2>2, <3>2 DEF InstanceInv, InstanceType
      <4> QED BY Zenon, <2>1, <2>2, <2>4, <4>1 DEF OnItsWay, loop, calls, scan
    <3> QED BY Zenon, <3>1, <3>2
  <2> QED BY Zenon, <1>0, <2>2, <2>3, <2>4 DEF Kept
<1>6. ASSUME NEW t \in Targets, Receive(t) PROVE LoopInv' /\ LossHasCause'
  <2>1. LoopInv'
    BY Zenon, <1>6 DEF LoopInv, Receive, calls, scan
  <2>2. Kept
    BY Zenon, <1>6 DEF Kept, OnItsWay, Receive, instances, calls, scan
  <2> QED BY Zenon, <1>0, <1>6, <2>1, <2>2 DEF Receive
<1>7. ASSUME TriggerFails PROVE LoopInv' /\ LossHasCause'
  <2>1. LoopInv'
    BY Zenon, <1>7 DEF LoopInv, TriggerFails, calls, scan
  <2>2. \A f \in dirty' \ lost' : f \notin targets /\ LibOf[f] \notin targets
    BY Zenon, <1>7 DEF TriggerFails, Covered, LoopInv
  <2>3. Kept
    BY Zenon, <1>7, <2>2 DEF Kept, OnItsWay, TriggerFails, instances, calls, scan
  <2> QED BY Zenon, <1>0, <1>7, <2>1, <2>3 DEF TriggerFails
<1>8. ASSUME TriggerBusy PROVE LoopInv' /\ LossHasCause'
  BY Zenon, <1>8
  DEF TriggerBusy, AfterBusy, Rearm, LoopInv, LossHasCause, OnItsWay, instances, calls, scan
<1>9. ASSUME Trigger PROVE LoopInv' /\ LossHasCause'
  <2>1. PICK r \in Requests \ waiting :
          request' = [request EXCEPT ![r] = targets] /\ waiting' = waiting \cup {r}
    BY Zenon, <1>9 DEF Trigger
  <2>2. /\ armed /\ ~running /\ targets' = {} /\ armed' = FALSE
        /\ UNCHANGED <<dirty, instances, notified, scan, lost>>
    BY Zenon, <1>9 DEF Trigger
  <2>3. LoopInv'
    BY Zenon, <2>1, <2>2 DEF LoopInv, scan
  <2>4. /\ request[r] = {} /\ request'[r] = targets
        /\ \A s \in Requests : s # r => request'[s] = request[s]
    BY Zenon, <2>1 DEF LoopInv
  <2>5. Kept
    BY Zenon, <2>2, <2>4 DEF Kept, OnItsWay, instances, scan
  <2> QED BY Zenon, <1>0, <2>2, <2>3, <2>5
<1>10. ASSUME NEW r \in Requests, Scan(r) PROVE LoopInv' /\ LossHasCause'
  <2>1. /\ toVisit = {} /\ running' = TRUE /\ own' = TRUE
        /\ toVisit' = IF Selective THEN Covered(request[r]) ELSE Folders
        /\ waiting' = waiting \ {r} /\ request' = [request EXCEPT ![r] = {}]
        /\ UNCHANGED <<dirty, instances, notified, loop, lost>>
    BY Zenon, <1>10 DEF Scan, LoopInv
  <2>2. LoopInv'
    BY Zenon, <2>1 DEF LoopInv, loop
  <2>3. \A s \in Requests : s # r => request'[s] = request[s]
    BY Zenon, <2>1 DEF LoopInv
  <2>4. ASSUME NEW g \in dirty, OnItsWay(g) PROVE OnItsWay(g)'
    <3>1. g \in Folders
      BY Zenon DEF LoopInv
    <3>2. CASE g \in request[r] \/ LibOf[g] \in request[r]
      BY Zenon, <2>1, <3>1, <3>2 DEF OnItsWay, Covered
    <3>3. CASE ~(g \in request[r] \/ LibOf[g] \in request[r])
      BY Zenon, <2>1, <2>3, <2>4, <3>3 DEF OnItsWay, instances, loop
    <3> QED BY Zenon, <3>2, <3>3
  <2> QED BY Zenon, <1>0, <2>1, <2>2, <2>4 DEF Kept
<1>11. ASSUME NEW r \in Requests, ScanRefused(r) PROVE LoopInv' /\ LossHasCause'
  <2>1. /\ waiting' = waiting \ {r} /\ request' = [request EXCEPT ![r] = {}]
        /\ lost' = lost \cup Covered(request[r])
        /\ UNCHANGED <<dirty, instances, notified, loop, scan>>
    BY Zenon, <1>11 DEF ScanRefused
  <2>2. LoopInv'
    BY Zenon, <2>1 DEF LoopInv, loop, scan
  <2>3. \A s \in Requests : s # r => request'[s] = request[s]
    BY Zenon, <2>1 DEF LoopInv
  <2>4. \A f \in dirty' \ lost' : f \notin request[r] /\ LibOf[f] \notin request[r]
    BY Zenon, <2>1 DEF Covered, LoopInv
  <2>5. Kept
    BY <2>1, <2>3, <2>4 DEF Kept, OnItsWay, instances, loop, scan
  <2> QED BY Zenon, <1>0, <2>1, <2>2, <2>5
<1>12. ASSUME OtherScan PROVE LoopInv' /\ LossHasCause'
  <2>1. /\ toVisit = {} /\ running' = TRUE
        /\ UNCHANGED <<dirty, instances, notified, loop, calls, lost>>
    BY Zenon, <1>12 DEF OtherScan, LoopInv
  <2>2. LoopInv'
    BY Zenon, <2>1 DEF LoopInv, loop, calls
  <2>3. Kept
    BY Zenon, <2>1 DEF Kept, OnItsWay, instances, loop, calls
  <2> QED BY Zenon, <1>0, <2>1, <2>2, <2>3
<1>13. ASSUME NEW f \in Folders, Visit(f) PROVE LoopInv' /\ LossHasCause'
  <2>1. /\ toVisit' = toVisit \ {f} /\ dirty' = dirty \ {f} /\ running
        /\ UNCHANGED <<instances, notified, loop, calls, running, own, lost>>
    BY Zenon, <1>13 DEF Visit
  <2>2. LoopInv'
    BY Zenon, <2>1 DEF LoopInv, loop, calls
  <2>3. Kept
    BY Zenon, <2>1 DEF Kept, OnItsWay, instances, loop, calls
  <2> QED BY Zenon, <1>0, <2>1, <2>2, <2>3
<1>14. ASSUME ScanEnds PROVE LoopInv' /\ LossHasCause'
  BY Zenon, <1>14 DEF ScanEnds, LoopInv, LossHasCause, OnItsWay, instances, loop, calls
<1>15. ASSUME NEW f \in Folders, PassOver(f) PROVE LoopInv' /\ LossHasCause'
  <2>1. /\ toVisit' = toVisit \ {f} /\ lost' = lost \cup (IF own THEN {f} ELSE {}) /\ running
        /\ UNCHANGED <<dirty, instances, notified, loop, calls, running, own>>
    BY Zenon, <1>15 DEF PassOver, CutOff
  <2>2. LoopInv'
    BY Zenon, <2>1 DEF LoopInv, loop, calls
  <2>3. Kept
    BY Zenon, <2>1 DEF Kept, OnItsWay, instances, loop, calls
  <2> QED BY Zenon, <1>0, <2>1, <2>2, <2>3
<1>16. ASSUME ScanFails PROVE LoopInv' /\ LossHasCause'
  <2>1. /\ toVisit' = {} /\ own' = FALSE /\ running' = FALSE
        /\ lost' = lost \cup (IF own THEN toVisit ELSE {})
        /\ UNCHANGED <<dirty, instances, notified, loop, calls>>
    BY Zenon, <1>16 DEF ScanFails, CutOff
  <2>2. LoopInv'
    BY Zenon, <2>1 DEF LoopInv, loop, calls
  <2>3. Kept
    BY Zenon, <2>1 DEF Kept, OnItsWay, instances, loop, calls
  <2> QED BY Zenon, <1>0, <2>1, <2>2, <2>3
<1>17. ASSUME UNCHANGED vars PROVE LoopInv' /\ LossHasCause'
  BY <1>17 DEF vars, LoopInv, LossHasCause, OnItsWay, instances, loop, calls, scan
<1> QED
  BY Zenon, <1>1, <1>2, <1>3, <1>4, <1>5, <1>6, <1>7, <1>8, <1>9, <1>10, <1>11, <1>12, <1>13, <1>14,
     <1>15, <1>16, <1>17
  DEF Next, Stages

\* A change that a watcher saw is on its way to a scan, unless its watcher was
\* stopped, the status could not be read, another scan got in between, or the
\* watcher's own scan failed or passed over the folder, for any number of folders,
\* watchers, goroutines, changes and scans.
THEOREM NoChangeForgotten == Spec => []LossHasCause
<1>1. Init => InstanceInv /\ LoopInv /\ LossHasCause
  BY Zenon, WatcherAssumption
  DEF Init, InstanceInv, InstanceType, UnusedUnknown, NoOrphanWatcher, RegisteredIsLive, LoopInv,
      LossHasCause
<1>2. InstanceInv /\ LoopInv /\ LossHasCause /\ [Next]_vars =>
        InstanceInv' /\ LoopInv' /\ LossHasCause'
  BY Zenon, InstanceStep, LossStep
<1> QED BY <1>1, <1>2, PTL DEF Spec
=============================================================================
