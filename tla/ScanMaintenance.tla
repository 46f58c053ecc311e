--------------------------- MODULE ScanMaintenance ---------------------------
(***************************************************************************)
(* The process-wide lock between library scans and database maintenance    *)
(* (lockScan and LockForMaintenance of scanner/controller.go) together     *)
(* with the persistent request for a statistics refresh that scans leave   *)
(* and the maintenance job serves (db/optimize.go).  Scan requests come    *)
(* from the API, the scheduler, the watcher and signals; jobs from cron.   *)
(* The process may crash at any moment: the lock is lost, the properties   *)
(* table stays.  An analysis takes less than one tick of the clock.        *)
(***************************************************************************)
EXTENDS Naturals

CONSTANTS
  Scans,      \* scan requests
  Analyzers,  \* runs of the DB analysis check
  Chores,     \* runs of the other maintenance jobs (outsideScan)
  Nobody,     \* mux value: the mutex is free
  Day,        \* 24 hours, in periods of the analysis check
  MaxScans,   \* bound: scans accepted
  MaxFaults   \* bound: failed DB operations and crashes

Jobs == Analyzers \cup Chores
Procs == Scans \cup Jobs

ASSUME MaintenanceAssumption ==
  /\ Scans \cap Jobs = {}
  /\ Analyzers \cap Chores = {}
  /\ Nobody \notin Procs
  /\ Day \in Nat /\ Day > 4
  /\ MaxScans \in Nat /\ MaxFaults \in Nat

VARIABLES
  running,      \* the atomic flag "running"
  mux,          \* holder of scanMaintenanceMux
  pc,           \* where each process is
  kind,         \* kind[s]: what the scan s of this run imports
  pending,      \* property DBAnalyzePending
  failures,     \* property DBAnalyzeFailureCount, capped at 4
  sinceAttempt, \* age of LastDBAnalyzeAttemptAt, capped at Day
  sinceAnalyze, \* age of LastDBAnalyzeAt, capped at Day
  stale,        \* history: a heavy import is not in the statistics
  lostMark,     \* history: the last attempt to set pending failed
  scans,        \* scans accepted so far
  faults        \* faults injected so far

lock == <<running, mux>>
props == <<pending, failures, sinceAttempt, sinceAnalyze>>
env == <<scans, faults>>
vars == <<lock, pc, kind, props, stale, lostMark, env>>

Init ==
  /\ running = FALSE /\ mux = Nobody
  /\ pc = [p \in Procs |-> "idle"]
  /\ kind = [s \in Scans |-> "quick"]
  /\ pending = FALSE /\ failures = 0
  /\ sinceAttempt = Day /\ sinceAnalyze = Day
  /\ stale = FALSE /\ lostMark = FALSE
  /\ scans = 0 /\ faults = 0

Goto(p, l) == pc' = [pc EXCEPT ![p] = l]
Fault == faults < MaxFaults /\ faults' = faults + 1
Capped(n, top) == IF n < top THEN n + 1 ELSE top

-----------------------------------------------------------------------------
\* lockScan(): the compare-and-swap finds the flag set; ErrAlreadyScanning.
ScanRefused(s) == pc[s] = "idle" /\ running /\ UNCHANGED vars

\* lockScan(): the compare-and-swap succeeds.
LockScan(s) ==
  /\ pc[s] = "idle" /\ ~running /\ scans < MaxScans
  /\ running' = TRUE
  /\ Goto(s, "lock")
  /\ scans' = scans + 1
  /\ UNCHANGED <<mux, kind, props, stale, lostMark, faults>>

\* lockScan(): scanMaintenanceMux.Lock().
AcquireMux(s) ==
  /\ pc[s] = "lock" /\ mux = Nobody
  /\ mux' = s
  /\ Goto(s, "mark")
  /\ UNCHANGED <<running, kind, props, stale, lostMark, env>>

\* Mutant: only a requested full scan leaves a mark before it starts.
NeedsMarkFullOnly(k) == k = "full"

\* ScanFolders(): the scans that must be followed by an analysis.
NeedsMark(k) == k \in {"full", "unscanned"}

\* ScanFolders(): effectiveFullScan and includesUnscannedLibrary are read, and
\* the request for an analysis is stored before the scan starts.
MarkBeforeScan(s) ==
  /\ pc[s] = "mark"
  /\ \E k \in {"quick", "unscanned", "full"} :
       /\ kind' = [kind EXCEPT ![s] = k]
       /\ \/ NeedsMark(k) /\ pending' = TRUE /\ lostMark' = FALSE /\ UNCHANGED faults
          \/ NeedsMark(k) /\ Fault /\ lostMark' = TRUE /\ UNCHANGED pending
          \/ ~NeedsMark(k) /\ UNCHANGED <<pending, lostMark, faults>>
  /\ Goto(s, "scan")
  /\ UNCHANGED <<lock, failures, sinceAttempt, sinceAnalyze, stale, scans>>

\* The scanner writes to the library.
Import(s) ==
  /\ pc[s] = "scan"
  /\ stale' = (stale \/ kind[s] # "quick")
  /\ UNCHANGED <<lock, pc, kind, props, lostMark, env>>

\* trackProgress() returns; a full scan without an error goes on to Optimize.
ScanSucceeds(s) ==
  /\ pc[s] = "scan"
  /\ Goto(s, IF kind[s] = "full" THEN "begin" ELSE "unlock")
  /\ UNCHANGED <<lock, kind, props, stale, lostMark, env>>

ScanFails(s) ==
  /\ pc[s] = "scan" /\ Fault
  /\ Goto(s, "unlock")
  /\ UNCHANGED <<lock, kind, props, stale, lostMark, scans>>

\* The function lockScan returns unlocks the mutex before it clears the flag.
Unlock(s) ==
  /\ pc[s] = "unlock"
  /\ mux' = Nobody
  /\ Goto(s, "clear")
  /\ UNCHANGED <<running, kind, props, stale, lostMark, env>>

\* Mutant: the flag is left set when the scan ends.
ClearRunningForgotten(s) ==
  /\ pc[s] = "clear"
  /\ Goto(s, "idle")
  /\ UNCHANGED <<running, mux, kind, props, stale, lostMark, env>>

ClearRunning(s) ==
  /\ pc[s] = "clear"
  /\ running' = FALSE
  /\ Goto(s, "idle")
  /\ UNCHANGED <<mux, kind, props, stale, lostMark, env>>

-----------------------------------------------------------------------------
\* LockForMaintenance(): TryLock fails and the job is skipped.
TryLockFails(j) == pc[j] = "idle" /\ mux # Nobody /\ UNCHANGED vars

\* LockForMaintenance(): TryLock succeeds.
TryLock(j) ==
  /\ pc[j] = "idle" /\ mux = Nobody
  /\ mux' = j
  /\ Goto(j, "check")
  /\ UNCHANGED <<running, kind, props, stale, lostMark, env>>

\* Mutant: a job that gives way to a scan keeps the mutex.
CheckRunningKeepsMutex(j) ==
  /\ pc[j] = "check"
  /\ Goto(j, IF running THEN "idle" ELSE "run")
  /\ UNCHANGED <<lock, kind, props, stale, lostMark, env>>

\* LockForMaintenance(): a scan that waits for the mutex goes first.
CheckRunning(j) ==
  /\ pc[j] = "check"
  /\ IF running THEN mux' = Nobody /\ Goto(j, "idle")
     ELSE Goto(j, "run") /\ UNCHANGED mux
  /\ UNCHANGED <<running, kind, props, stale, lostMark, env>>

analyzeRetryDelay(n) == CASE n = 1 -> 1 [] n = 2 -> 2 [] n = 3 -> 4 [] OTHER -> Day

\* Mutant: after a failure the back-off never ends.
analyzeRetryBackoffForever == failures >= 1

analyzeRetryBackoffActive == failures >= 1 /\ sinceAttempt < analyzeRetryDelay(failures)

optimizeDue == ~analyzeRetryBackoffActive /\ (pending \/ sinceAnalyze >= Day)

\* optimizeIfNeeded(): an analysis that is due begins; one that is not, and any
\* other job, releases the mutex.
RunJob(j) ==
  /\ pc[j] = "run"
  /\ Goto(j, IF j \in Analyzers /\ optimizeDue THEN "begin" ELSE "release")
  /\ UNCHANGED <<lock, kind, props, stale, lostMark, env>>

Release(j) ==
  /\ pc[j] = "release"
  /\ mux' = Nobody
  /\ Goto(j, "idle")
  /\ UNCHANGED <<running, kind, props, stale, lostMark, env>>

-----------------------------------------------------------------------------
\* Where a process goes once its analysis has ended.
AfterAnalysis(p) == IF p \in Scans THEN "unlock" ELSE "release"

\* optimizeAt(): the request is stored first, and then every index is analyzed.
BeginAnalyze(p) ==
  /\ pc[p] = "begin"
  /\ pending' = TRUE /\ lostMark' = FALSE
  /\ stale' = FALSE
  /\ Goto(p, "analyze")
  /\ UNCHANGED <<lock, kind, failures, sinceAttempt, sinceAnalyze, env>>

\* recordAnalyzeSuccess(), one transaction.
AnalyzeOk(p) ==
  /\ pc[p] = "analyze"
  /\ pending' = FALSE /\ failures' = 0 /\ sinceAnalyze' = 0
  /\ Goto(p, AfterAnalysis(p))
  /\ UNCHANGED <<lock, kind, sinceAttempt, stale, lostMark, env>>

\* recordAnalyzeError(): the request could not be stored or the analysis failed,
\* and the failure is recorded in one transaction.
AnalyzeFails(p) ==
  /\ pc[p] \in {"begin", "analyze"} /\ Fault
  /\ stale' = (stale \/ pc[p] = "analyze")
  /\ pending' = TRUE /\ lostMark' = FALSE
  /\ failures' = Capped(failures, 4) /\ sinceAttempt' = 0
  /\ Goto(p, AfterAnalysis(p))
  /\ UNCHANGED <<lock, kind, sinceAnalyze, scans>>

\* recordAnalyzeError(): recording the failure fails too.
RecordingFails(p) ==
  /\ pc[p] \in {"begin", "analyze"} /\ Fault
  /\ stale' = (stale \/ pc[p] = "analyze")
  /\ Goto(p, AfterAnalysis(p))
  /\ UNCHANGED <<lock, kind, props, lostMark, scans>>

Tick ==
  /\ sinceAttempt' = Capped(sinceAttempt, Day)
  /\ sinceAnalyze' = Capped(sinceAnalyze, Day)
  /\ UNCHANGED <<lock, pc, kind, pending, failures, stale, lostMark, env>>

\* The process dies and is started again.
Crash ==
  /\ Fault
  /\ running' = FALSE /\ mux' = Nobody
  /\ pc' = [p \in Procs |-> "idle"]
  /\ stale' = (stale \/ \E p \in Procs : pc[p] = "analyze")
  /\ UNCHANGED <<kind, props, lostMark, scans>>

ScanStep(s) ==
  \/ ScanRefused(s) \/ LockScan(s) \/ AcquireMux(s) \/ MarkBeforeScan(s) \/ Import(s)
  \/ ScanSucceeds(s) \/ ScanFails(s) \/ Unlock(s) \/ ClearRunning(s)

JobStep(j) ==
  TryLockFails(j) \/ TryLock(j) \/ CheckRunning(j) \/ RunJob(j) \/ Release(j)

AnalyzeStep(p) == BeginAnalyze(p) \/ AnalyzeOk(p) \/ AnalyzeFails(p) \/ RecordingFails(p)

Next ==
  \/ \E s \in Scans : ScanStep(s)
  \/ \E j \in Jobs : JobStep(j)
  \/ \E p \in Procs : AnalyzeStep(p)
  \/ Tick
  \/ Crash

Spec == Init /\ [][Next]_vars

\* Every goroutine keeps running and cron keeps firing.  A mutex that is waited
\* for is eventually granted (sync.Mutex enters starvation mode after 1 ms), and
\* the analysis check, which fires twice as often as the other jobs, sometimes
\* finds the mutex free.
Fairness ==
  /\ \A s \in Scans :
       /\ SF_vars(AcquireMux(s))
       /\ WF_vars(MarkBeforeScan(s)) /\ WF_vars(ScanSucceeds(s))
       /\ WF_vars(Unlock(s)) /\ WF_vars(ClearRunning(s))
  /\ \A j \in Jobs : WF_vars(CheckRunning(j)) /\ WF_vars(RunJob(j)) /\ WF_vars(Release(j))
  /\ \A j \in Analyzers : SF_vars(TryLock(j))
  /\ \A p \in Procs : WF_vars(BeginAnalyze(p)) /\ WF_vars(AnalyzeOk(p))
  /\ WF_vars(Tick)

FairSpec == Spec /\ Fairness

-----------------------------------------------------------------------------
ScanLabels == {"idle", "lock", "mark", "scan", "begin", "analyze", "unlock", "clear"}
JobLabels == {"idle", "check", "run", "begin", "analyze", "release"}
Holding == {"mark", "scan", "begin", "analyze", "unlock", "check", "run", "release"}

ControlType ==
  /\ running \in BOOLEAN /\ mux \in Procs \cup {Nobody}
  /\ pc \in [Procs -> ScanLabels \cup JobLabels]
  /\ \A s \in Scans : pc[s] \in ScanLabels
  /\ \A j \in Jobs : pc[j] \in JobLabels

DataType ==
  /\ kind \in [Scans -> {"quick", "unscanned", "full"}]
  /\ pending \in BOOLEAN /\ failures \in 0..4
  /\ sinceAttempt \in 0..Day /\ sinceAnalyze \in 0..Day
  /\ stale \in BOOLEAN /\ lostMark \in BOOLEAN
  /\ scans \in 0..MaxScans /\ faults \in 0..MaxFaults

\* The control state and the stored properties keep their types; a scan never
\* takes the path of a job nor a job that of a scan.
TypeOK == ControlType /\ DataType

\* The mutex is held exactly by the process that is in its section, so scans
\* and maintenance jobs never write to the database together, and analyzeMux is
\* never contended inside this process.
HolderInSection == \A p \in Procs : mux = p <=> pc[p] \in Holding

\* The flag is set exactly while one scan is between lockScan and the end of its
\* release: two scans never overlap and a finished scan never blocks the next.
RunningIsOneScan ==
  /\ \A s, t \in Scans : pc[s] # "idle" /\ pc[t] # "idle" => s = t
  /\ running <=> \E s \in Scans : pc[s] # "idle"

\* An import that must be followed by an analysis is never forgotten: until the
\* statistics are refreshed the request stays stored, whatever fails or crashes,
\* unless storing it was what failed; and nothing heavy is imported while an
\* analysis that will clear the request is under way.
StaleIsPending ==
  /\ \A s \in Scans : pc[s] = "scan" /\ kind[s] # "quick" => pending \/ lostMark
  /\ stale => pending \/ lostMark
  /\ \A p \in Procs : pc[p] = "analyze" => pending /\ ~stale

\* A stored request is eventually served: once scans and faults stop, the job
\* gets past its back-off and refreshes the statistics.
PendingServed == pending ~> ~pending

\* A scan that lockScan accepted starts, or the process is restarted.
AcceptedScanStarts == \A s \in Scans : pc[s] = "lock" ~> pc[s] \in {"scan", "idle"}
=============================================================================
