------------------------------- MODULE Watcher -------------------------------
(***************************************************************************)
(* The file system watcher, scanner/watcher.go: one watcher instance per   *)
(* library turns file system events into notifications, and the main loop  *)
(* collects them as targets and triggers a scan after a quiet period.      *)
(* Scans take their turn through ScanMaintenance's lock: here a call made  *)
(* while another scan runs is refused with ErrAlreadyScanning.  A scan     *)
(* that runs may pass over folders, and may fail, at any moment.           *)
(*                                                                         *)
(* Channels are sets, as a notification that is repeated changes nothing   *)
(* but the timer, and the timer is armed or not: it may fire at any time   *)
(* while it is armed.                                                      *)
(***************************************************************************)
EXTENDS Naturals, FiniteSets

CONSTANTS
  Folders, Libs,
  LibOf,         \* LibOf[f]: the library of folder f
  Instances,     \* watcher instances that may be created
  Requests,      \* goroutines started by the main loop
  NoInstance,
  Selective,     \* conf.Server.DevSelectiveWatcher
  MaxChanges     \* bound: changes in the file system

ASSUME WatcherAssumption ==
  /\ LibOf \in [Folders -> Libs] /\ Folders \cap Libs = {}
  /\ NoInstance \notin Instances
  /\ Selective \in BOOLEAN /\ MaxChanges \in Nat

VARIABLES
  dirty,            \* folders that changed since a scan last visited them
  libraryWatchers,  \* the instance registered for each library, or NoInstance
  state,            \* of each instance's goroutine
  watches,          \* the library of each instance
  cancelled,        \* instances whose context is cancelled
  pending,          \* events an instance has not processed yet
  notified,         \* targets in the watcherNotify channel
  targets,          \* targets the main loop has collected
  armed,            \* the trigger timer is running
  request,          \* targets of each goroutine that has yet to call the scanner
  waiting,          \* goroutines that have yet to call the scanner
  running, toVisit, \* a scan is running, and the folders it has still to visit
  own,              \* history: the scan that is running was started by the watcher
  lost,             \* history: folders that were cut off from their scan, see LossHasCause
  changes           \* changes so far

instances == <<libraryWatchers, state, watches, cancelled, pending>>
loop == <<targets, armed>>
calls == <<request, waiting>>
scan == <<running, toVisit, own>>
vars == <<dirty, instances, notified, loop, calls, scan, lost, changes>>

Targets == Folders \cup Libs      \* a library stands for its root folder

\* The folders a scan of the targets visits.
Covered(ts) == {f \in Folders : f \in ts \/ LibOf[f] \in ts}

\* Run() has yet to call Watch() for each library.
Init ==
  /\ dirty = {} /\ pending = [i \in Instances |-> {}]
  /\ libraryWatchers = [l \in Libs |-> NoInstance]
  /\ state = [i \in Instances |-> "unused"]
  /\ watches \in [Instances -> Libs] /\ cancelled = {}
  /\ notified = {} /\ targets = {} /\ armed = FALSE
  /\ request = [r \in Requests |-> {}] /\ waiting = {}
  /\ running = FALSE /\ toVisit = {} /\ own = FALSE /\ lost = {} /\ changes = 0

-----------------------------------------------------------------------------
\* A folder changes, and the instances watching its library see it.
Change(f) ==
  /\ changes < MaxChanges /\ changes' = changes + 1
  /\ LET seeing == {i \in Instances :
                      state[i] = "running" /\ i \notin cancelled /\ watches[i] = LibOf[f]}
     IN /\ seeing # {}
        /\ pending' = [i \in Instances |-> IF i \in seeing THEN pending[i] \cup {f} ELSE pending[i]]
  /\ dirty' = dirty \cup {f} /\ lost' = lost \ {f}
  /\ UNCHANGED <<libraryWatchers, state, watches, cancelled, notified, loop, calls, scan>>

\* Watch(): an instance that is registered already is cancelled and replaced.
Watch(l) ==
  /\ \E i \in Instances :
       /\ state[i] = "unused" /\ watches[i] = l
       /\ state' = [state EXCEPT ![i] = "starting"]
       /\ cancelled' = cancelled \cup ({libraryWatchers[l]} \ {NoInstance})
       /\ libraryWatchers' = [libraryWatchers EXCEPT ![l] = i]
  /\ UNCHANGED <<dirty, watches, pending, notified, loop, calls, scan, lost, changes>>

DeleteWatcher(l) == [libraryWatchers EXCEPT ![l] = NoInstance]

\* StopWatching()
StopWatching(l) ==
  /\ libraryWatchers[l] # NoInstance
  /\ cancelled' = cancelled \cup {libraryWatchers[l]}
  /\ libraryWatchers' = DeleteWatcher(l)
  /\ UNCHANGED <<dirty, state, watches, pending, notified, loop, calls, scan, lost, changes>>

\* watchLibrary(): the storage's watcher is started.
WatchLibrary(i) ==
  /\ state[i] = "starting"
  /\ state' = [state EXCEPT ![i] = "running"]
  /\ UNCHANGED <<dirty, libraryWatchers, watches, cancelled, pending, notified, loop, calls, scan,
                 lost, changes>>

\* watchLibrary() returns: the storage's watcher cannot be started, or the
\* context is cancelled.
WatchLibraryReturns(i) ==
  /\ \/ state[i] = "starting"
     \/ state[i] = "running" /\ i \in cancelled
  /\ state' = [state EXCEPT ![i] = "returned"]
  /\ pending' = [pending EXCEPT ![i] = {}]
  /\ lost' = lost \cup pending[i]
  /\ UNCHANGED <<dirty, libraryWatchers, watches, cancelled, notified, loop, calls, scan, changes>>

\* Mutant: the cleanup removes whatever is registered for the library.
UnregisterAny(l, i) == libraryWatchers[l] # NoInstance

\* The deferred cleanup removes the instance only if it is still registered.
Unregister(l, i) == libraryWatchers[l] = i

\* The deferred function of the goroutine in Watch().
Cleanup(i) ==
  /\ state[i] = "returned"
  /\ state' = [state EXCEPT ![i] = "done"]
  /\ libraryWatchers' = IF Unregister(watches[i], i)
                        THEN DeleteWatcher(watches[i]) ELSE libraryWatchers
  /\ UNCHANGED <<dirty, watches, cancelled, pending, notified, loop, calls, scan, lost, changes>>

\* processLibraryEvents() of an event that is not ignored: resolveFolderPath gives
\* the folder or, if that is gone, one above it.
ProcessEvent(i, f) ==
  /\ state[i] = "running" /\ f \in pending[i]
  /\ pending' = [pending EXCEPT ![i] = pending[i] \ {f}]
  /\ \E t \in {f, LibOf[f]} : notified' = notified \cup {t}
  /\ UNCHANGED <<dirty, libraryWatchers, state, watches, cancelled, loop, calls, scan, lost,
                 changes>>

-----------------------------------------------------------------------------
\* Run(): a notification is received.
Receive(t) ==
  /\ t \in notified
  /\ notified' = notified \ {t}
  /\ targets' = targets \cup {t} /\ armed' = TRUE
  /\ UNCHANGED <<dirty, instances, calls, scan, lost, changes>>

\* Run(): the timer fires and the scanner's status cannot be read.
TriggerFails ==
  /\ armed
  /\ armed' = FALSE
  /\ lost' = lost \cup Covered(targets)
  /\ UNCHANGED <<dirty, instances, notified, targets, calls, scan, changes>>

\* Mutant: the targets are dropped when a scan is running.
AfterBusyDropped == {}

\* Run(): what is left of the targets when the timer fires during a scan.
AfterBusy == targets

\* Mutant: the timer is not set again.
RearmNot == FALSE

\* Run(): the timer is set again, to three times the usual wait.
Rearm == TRUE

\* Run(): the timer fires during a scan.
TriggerBusy ==
  /\ armed /\ running
  /\ targets' = AfterBusy /\ armed' = Rearm
  /\ UNCHANGED <<dirty, instances, notified, calls, scan, lost, changes>>

\* Run(): the timer fires, and a goroutine takes the targets to the scanner.
Trigger ==
  /\ armed /\ ~running
  /\ \E r \in Requests \ waiting :
       /\ request' = [request EXCEPT ![r] = targets]
       /\ waiting' = waiting \cup {r}
  /\ targets' = {} /\ armed' = FALSE
  /\ UNCHANGED <<dirty, instances, notified, scan, lost, changes>>

\* The goroutine calls ScanFolders or ScanAll.
Scan(r) ==
  /\ r \in waiting /\ ~running
  /\ running' = TRUE /\ own' = TRUE
  /\ toVisit' = IF Selective THEN Covered(request[r]) ELSE Folders
  /\ waiting' = waiting \ {r} /\ request' = [request EXCEPT ![r] = {}]
  /\ UNCHANGED <<dirty, instances, notified, loop, lost, changes>>

\* The goroutine's call is refused with ErrAlreadyScanning, which is logged.
ScanRefused(r) ==
  /\ r \in waiting /\ running
  /\ waiting' = waiting \ {r} /\ request' = [request EXCEPT ![r] = {}]
  /\ lost' = lost \cup Covered(request[r])
  /\ UNCHANGED <<dirty, instances, notified, loop, scan, changes>>

\* Somebody else starts a scan, of all libraries or of some folders; it may be
\* between the trigger and the call of the scanner.
OtherScan ==
  /\ ~running
  /\ running' = TRUE /\ own' = FALSE /\ toVisit' \in SUBSET Folders
  /\ UNCHANGED <<dirty, instances, notified, loop, calls, lost, changes>>

\* The running scan visits a folder and imports what changed in it.
Visit(f) ==
  /\ running /\ f \in toVisit
  /\ toVisit' = toVisit \ {f} /\ dirty' = dirty \ {f}
  /\ UNCHANGED <<instances, notified, loop, calls, running, own, lost, changes>>

\* The watcher has dropped its targets when its scan starts: what the scan then
\* leaves out is not on its way any more.
CutOff(fs) == IF own THEN fs ELSE {}

\* The running scan goes on without a folder: its library cannot be opened, or the
\* folder cannot be listed or is not walked.
PassOver(f) ==
  /\ running /\ f \in toVisit
  /\ toVisit' = toVisit \ {f}
  /\ lost' = lost \cup CutOff({f})
  /\ UNCHANGED <<dirty, instances, notified, loop, calls, running, own, changes>>

ScanEnds ==
  /\ running /\ toVisit = {}
  /\ running' = FALSE /\ own' = FALSE
  /\ UNCHANGED <<dirty, instances, notified, loop, calls, toVisit, lost, changes>>

\* The running scan ends with an error, before its first folder or later; the
\* watcher logs the error of its own.
ScanFails ==
  /\ running
  /\ running' = FALSE /\ own' = FALSE /\ toVisit' = {}
  /\ lost' = lost \cup CutOff(toVisit)
  /\ UNCHANGED <<dirty, instances, notified, loop, calls, changes>>

Stages ==
  \/ \E i \in Instances, f \in Folders : ProcessEvent(i, f)
  \/ \E t \in Targets : Receive(t)
  \/ \E r \in Requests : Scan(r) \/ ScanRefused(r)
  \/ \E f \in Folders : Visit(f)
  \/ Trigger \/ ScanEnds

Next ==
  \/ \E f \in Folders : Change(f)
  \/ \E l \in Libs : Watch(l) \/ StopWatching(l)
  \/ \E i \in Instances : WatchLibrary(i) \/ WatchLibraryReturns(i) \/ Cleanup(i)
  \/ TriggerFails \/ TriggerBusy \/ OtherScan \/ ScanFails
  \/ \E f \in Folders : PassOver(f)
  \/ Stages

Spec == Init /\ [][Next]_vars

\* The goroutines run, the timer fires and scans end.  The trigger is retried
\* again and again, so it also finds a moment between the scans of others.
Fairness ==
  /\ \A i \in Instances, f \in Folders : WF_vars(ProcessEvent(i, f))
  /\ \A t \in Targets : WF_vars(Receive(t))
  /\ \A r \in Requests : WF_vars(Scan(r) \/ ScanRefused(r))
  /\ \A f \in Folders : WF_vars(Visit(f))
  /\ SF_vars(Trigger) /\ WF_vars(ScanEnds)

FairSpec == Spec /\ Fairness

-----------------------------------------------------------------------------
\* Every variable keeps its type; a goroutine waits with targets, the timer runs
\* only for targets, and folders are left to visit only while a scan runs.
TypeOK ==
  /\ dirty \subseteq Folders /\ changes \in 0..MaxChanges
  /\ libraryWatchers \in [Libs -> Instances \cup {NoInstance}]
  /\ state \in [Instances -> {"unused", "starting", "running", "returned", "done"}]
  /\ watches \in [Instances -> Libs] /\ cancelled \subseteq Instances
  /\ pending \in [Instances -> SUBSET Folders]
  /\ notified \subseteq Targets /\ targets \subseteq Targets /\ armed \in BOOLEAN
  /\ request \in [Requests -> SUBSET Targets] /\ waiting \subseteq Requests
  /\ running \in BOOLEAN /\ toVisit \subseteq Folders
  /\ armed => targets # {}
  /\ \A r \in Requests : r \in waiting <=> request[r] # {}
  /\ own \in BOOLEAN /\ (own => running) /\ (~running => toVisit = {})

\* A library is watched by at most the instance registered for it: an instance
\* that runs on is registered, so that Watch and StopWatching can cancel it.
NoOrphanWatcher ==
  \A i \in Instances :
    state[i] \in {"starting", "running"} /\ i \notin cancelled => libraryWatchers[watches[i]] = i

\* A registered instance has not been cancelled.
RegisteredIsLive ==
  \A l \in Libs : libraryWatchers[l] # NoInstance =>
    libraryWatchers[l] \notin cancelled /\ watches[libraryWatchers[l]] = l

\* The folder is on its way to a scan: as an event, a notification, a target with
\* the timer set, the request of a goroutine or a part of the watcher's own scan.
OnItsWay(f) ==
  \/ \E i \in Instances : state[i] = "running" /\ f \in pending[i]
  \/ \E t \in {f, LibOf[f]} :
       t \in notified \/ (armed /\ t \in targets) \/ \E r \in Requests : t \in request[r]
  \/ own /\ f \in toVisit

\* A change seen by a watcher is not forgotten before a scan has visited the
\* folder, whatever other scans run, fail or pass over meanwhile, but for four
\* causes, which lost records: the watcher is stopped before it has passed the event
\* on, the scanner's status cannot be read when the timer fires, another scan gets in
\* between the trigger and the call of the scanner, or the scan that the watcher
\* started fails before it has visited the folder, or passes over it.
LossHasCause == \A f \in dirty \ lost : OnItsWay(f)

\* ... and a scan does visit it.
ChangeScanned == \A f \in Folders : f \in dirty ~> f \notin dirty \/ f \in lost
=============================================================================
