------------------------------ MODULE TaskQueue ------------------------------
(***************************************************************************)
(* The persistent task queues of a plugin, plugins/host_taskqueue.go: the  *)
(* tasks table, the workers of each queue and the life of the service,     *)
(* which is closed when the plugin is unloaded, may time out while it is,  *)
(* may die with the process, and is started again on the same database.   *)
(*                                                                         *)
(* A worker is known by the task it holds: stage[t] says how far processTask *)
(* is with t.  Time is abstract: due[t] is next_run_at <= now.  The signal *)
(* and the poll only decide when an idle worker looks at the table.        *)
(***************************************************************************)
EXTENDS Naturals, FiniteSets, FiniteSetsExt

CONSTANTS
  Tasks, Queues,
  QueueOf,         \* QueueOf[t]: the queue task t is put into
  Concurrency,     \* Concurrency[q]: what the plugin asks for
  MaxConcurrency,  \* maxConcurrency of the plugin's manifest
  MaxRetries,
  MaxFaults        \* bound: shutdowns, crashes and database errors

ASSUME TaskQueueAssumption ==
  /\ IsFiniteSet(Tasks) /\ QueueOf \in [Tasks -> Queues]
  /\ Concurrency \in [Queues -> Nat \ {0}] /\ MaxConcurrency \in Nat
  /\ MaxRetries \in Nat /\ MaxFaults \in Nat

VARIABLES
  status, attempt, due,  \* the tasks table
  service,               \* "up", "closing" (its context is cancelled) or "down"
  workers,               \* the workers of each queue of this service, 0 without it
  stage,                 \* of the worker that holds the task, "none" without one
  unwritten,             \* tasks whose result this service could not write
  failures,              \* history: callbacks that failed, per task
  cut,                   \* history: attempts that count although they did not fail
  faults

table == <<status, attempt, due>>
history == <<failures, cut>>
vars == <<table, service, workers, stage, unwritten, history, faults>>

Terminal == {"completed", "failed", "cancelled"}
Of(q) == {t \in Tasks : QueueOf[t] = q}
Busy(q) == {t \in Of(q) : stage[t] # "none"}

Init ==
  /\ status = [t \in Tasks |-> "new"] /\ attempt = [t \in Tasks |-> 0]
  /\ due = [t \in Tasks |-> FALSE]
  /\ service = "down" /\ workers = [q \in Queues |-> 0]
  /\ stage = [t \in Tasks |-> "none"] /\ unwritten = {}
  /\ failures = [t \in Tasks |-> 0] /\ cut = [t \in Tasks |-> 0] /\ faults = 0

Fault == faults < MaxFaults /\ faults' = faults + 1

\* newTaskQueueService(): the plugin is loaded.
Load ==
  /\ service = "down" /\ service' = "up"
  /\ UNCHANGED <<table, workers, stage, unwritten, history, faults>>

-----------------------------------------------------------------------------
(* The host functions of the plugin. *)

\* The workers of all queues, and their number.
Pool == UNION {{q} \X (1..workers[q]) : q \in Queues}

Allocated == Cardinality(Pool)

\* Mutant: the budget is not reduced by the other queues.
ClampAlone(q) == Min({Concurrency[q], MaxConcurrency})

clampConcurrency(q) == Min({Concurrency[q], MaxConcurrency - Allocated})

\* Mutant: no task is reset.
StaleNone(t) == FALSE

\* The tasks left running by a service that is gone.
Stale(t) == status[t] = "running"

\* "Reset stale running tasks": they are pending again, their attempts count.
Reset(ts) ==
  /\ status' = [t \in Tasks |-> IF t \in ts THEN "pending" ELSE status[t]]
  /\ cut' = [t \in Tasks |-> IF t \in ts /\ attempt[t] > failures[t] + cut[t]
                             THEN cut[t] + 1 ELSE cut[t]]
  /\ UNCHANGED <<attempt, due, failures>>

\* CreateQueue(): refused when the budget is spent or the queue exists.
CreateQueue(q) ==
  /\ service = "up" /\ workers[q] = 0 /\ MaxConcurrency > Allocated
  /\ workers' = [workers EXCEPT ![q] = clampConcurrency(q)]
  /\ Reset({t \in Of(q) : Stale(t)})
  /\ UNCHANGED <<service, stage, unwritten, faults>>

Enqueue(t) ==
  /\ service # "down" /\ workers[QueueOf[t]] > 0 /\ status[t] = "new"
  /\ status' = [status EXCEPT ![t] = "pending"] /\ due' = [due EXCEPT ![t] = TRUE]
  /\ UNCHANGED <<attempt, service, workers, stage, unwritten, history, faults>>

Cancellable(t) == status[t] = "pending"

Cancel(t) ==
  /\ service # "down" /\ Cancellable(t)
  /\ status' = [status EXCEPT ![t] = "cancelled"]
  /\ UNCHANGED <<attempt, due, service, workers, stage, unwritten, history, faults>>

ClearQueue(q) ==
  /\ service # "down" /\ workers[q] > 0
  /\ status' = [t \in Tasks |->
       IF t \in Of(q) /\ status[t] = "pending" THEN "cancelled" ELSE status[t]]
  /\ UNCHANGED <<attempt, due, service, workers, stage, unwritten, history, faults>>

\* runCleanup(): a task past its retention is deleted.
Cleanup(t) ==
  /\ service = "up" /\ workers[QueueOf[t]] > 0 /\ status[t] \in Terminal
  /\ status' = [status EXCEPT ![t] = "deleted"]
  /\ UNCHANGED <<attempt, due, service, workers, stage, unwritten, history, faults>>

\* The backoff of the task is over.
BackoffEnds(t) ==
  /\ status[t] = "pending" /\ ~due[t]
  /\ due' = [due EXCEPT ![t] = TRUE]
  /\ UNCHANGED <<status, attempt, service, workers, stage, unwritten, history, faults>>

-----------------------------------------------------------------------------
(* The workers. *)

Release(t) == stage' = [stage EXCEPT ![t] = "none"]

HasIdleWorker(q) == Cardinality(Busy(q)) < workers[q]

\* processTask(): a pending task that is due is taken, in one statement.
Dequeue(t) ==
  /\ service = "up" /\ HasIdleWorker(QueueOf[t])
  /\ status[t] = "pending" /\ due[t]
  /\ status' = [status EXCEPT ![t] = "running"]
  /\ attempt' = [attempt EXCEPT ![t] = @ + 1]
  /\ stage' = [stage EXCEPT ![t] = "waiting"]
  /\ UNCHANGED <<due, service, workers, unwritten, history, faults>>

\* The rate limiter lets the worker go on, and it calls the plugin.
Wait(t) ==
  /\ stage[t] = "waiting" /\ service = "up"
  /\ stage' = [stage EXCEPT ![t] = "calling"]
  /\ UNCHANGED <<table, service, workers, unwritten, history, faults>>

\* Mutant: the interrupted attempt counts.
RevertedAttemptKept(t) == attempt

RevertedAttempt(t) == [attempt EXCEPT ![t] = IF @ > 0 THEN @ - 1 ELSE 0]

\* revertTaskToPending() does nothing to a task that is not running any more.
revertTaskToPending(t) ==
  /\ Release(t)
  /\ IF status[t] = "running"
     THEN status' = [status EXCEPT ![t] = "pending"] /\ attempt' = RevertedAttempt(t)
     ELSE UNCHANGED <<status, attempt>>
  /\ UNCHANGED <<due, service, workers, unwritten, faults>>

\* limiter.Wait() returns an error: the context is cancelled.
WaitCancelled(t) ==
  /\ stage[t] = "waiting" /\ service = "closing"
  /\ revertTaskToPending(t) /\ UNCHANGED history

\* The callback returns, and the context is not cancelled.
CallbackReturns(t) ==
  /\ stage[t] = "calling" /\ service = "up"
  /\ \/ stage' = [stage EXCEPT ![t] = "succeeded"] /\ UNCHANGED failures
     \/ stage' = [stage EXCEPT ![t] = "erred"] /\ failures' = [failures EXCEPT ![t] = @ + 1]
  /\ UNCHANGED <<table, service, workers, unwritten, cut, faults>>

\* The callback returns, and the context is cancelled: the result is dropped.
CallbackCancelled(t) ==
  /\ stage[t] = "calling" /\ service = "closing"
  /\ revertTaskToPending(t) /\ UNCHANGED history

completeTask(t) ==
  /\ stage[t] = "succeeded" /\ service = "up" /\ Release(t)
  /\ status' = [status EXCEPT ![t] = "completed"]
  /\ UNCHANGED <<attempt, due, service, workers, unwritten, history, faults>>

Exhausted(t) == attempt[t] > MaxRetries

handleTaskFailure(t) ==
  /\ stage[t] = "erred" /\ service = "up" /\ Release(t)
  /\ IF Exhausted(t)
     THEN status' = [status EXCEPT ![t] = "failed"] /\ UNCHANGED due
     ELSE status' = [status EXCEPT ![t] = "pending"] /\ due' = [due EXCEPT ![t] = FALSE]
  /\ UNCHANGED <<attempt, service, workers, unwritten, history, faults>>

\* completeTask() or handleTaskFailure() cannot write: the context was cancelled
\* after all, or the database fails.  The error is logged, the task stays running.
WriteFails(t) ==
  /\ stage[t] \in {"succeeded", "erred"} /\ Release(t)
  /\ \/ service = "closing" /\ UNCHANGED faults
     \/ service = "up" /\ Fault
  /\ unwritten' = unwritten \cup {t}
  /\ UNCHANGED <<table, service, workers, history>>

-----------------------------------------------------------------------------
(* The end of the service. *)

\* Close() cancels the context and waits for the goroutines.
Close ==
  /\ service = "up" /\ Fault /\ service' = "closing"
  /\ UNCHANGED <<table, workers, stage, unwritten, history>>

Gone ==
  /\ service' = "down" /\ workers' = [q \in Queues |-> 0]
  /\ stage' = [t \in Tasks |-> "none"] /\ unwritten' = {}

\* Close(): the goroutines ended, or the wait timed out on callbacks that go on and
\* whose end is not seen any more; the tasks still running are reset and the
\* database is closed.
CloseEnds ==
  /\ service = "closing" /\ \A t \in Tasks : stage[t] \in {"none", "calling"}
  /\ Gone /\ Reset({t \in Tasks : Stale(t)})
  /\ UNCHANGED faults

\* The process dies.
Crash ==
  /\ service # "down" /\ Fault /\ Gone
  /\ UNCHANGED <<table, history>>

Next ==
  \/ Load \/ Close \/ CloseEnds \/ Crash
  \/ \E q \in Queues : CreateQueue(q) \/ ClearQueue(q)
  \/ \E t \in Tasks :
       \/ Enqueue(t) \/ Cancel(t) \/ Cleanup(t) \/ BackoffEnds(t)
       \/ Dequeue(t) \/ Wait(t) \/ WaitCancelled(t) \/ CallbackReturns(t) \/ CallbackCancelled(t)
       \/ completeTask(t) \/ handleTaskFailure(t) \/ WriteFails(t)

Spec == Init /\ [][Next]_vars

\* The plugin is loaded again and creates its queues, callbacks return, and the
\* workers poll.  A worker takes the task that was due first, so that no task is
\* passed over for ever.
Fairness ==
  /\ WF_vars(Load) /\ WF_vars(CloseEnds) /\ \A q \in Queues : WF_vars(CreateQueue(q))
  /\ \A t \in Tasks :
       /\ WF_vars(BackoffEnds(t)) /\ SF_vars(Dequeue(t)) /\ WF_vars(Wait(t))
       /\ WF_vars(WaitCancelled(t)) /\ WF_vars(CallbackReturns(t)) /\ WF_vars(CallbackCancelled(t))
       /\ WF_vars(completeTask(t)) /\ WF_vars(handleTaskFailure(t)) /\ WF_vars(WriteFails(t))

FairSpec == Spec /\ Fairness

-----------------------------------------------------------------------------
\* The types of the variables.
TypeOK ==
  /\ status \in [Tasks -> {"new", "pending", "running", "deleted"} \cup Terminal]
  /\ attempt \in [Tasks -> Nat] /\ due \in [Tasks -> BOOLEAN]
  /\ service \in {"up", "closing", "down"} /\ DOMAIN workers = Queues
  /\ stage \in [Tasks -> {"none", "waiting", "calling", "succeeded", "erred"}]
  /\ unwritten \subseteq Tasks
  /\ failures \in [Tasks -> Nat] /\ cut \in [Tasks -> Nat]
  /\ faults \in 0..MaxFaults

\* The plugin never runs more workers than its manifest allows, whatever its
\* queues ask for and in whatever order they are created, and no queue has more
\* tasks in hand than workers.
WithinBudget ==
  /\ Allocated <= MaxConcurrency
  /\ \A q \in Queues : workers[q] \in Nat /\ Cardinality(Busy(q)) <= workers[q]

\* A task in the hands of a worker is running in the table: no Cancel, ClearQueue,
\* CreateQueue, cleanup or other worker touches it meanwhile, so that the update
\* by id at the end of processTask() overwrites nothing.
HeldIsRunning == \A t \in Tasks : stage[t] # "none" => status[t] = "running"

\* Every attempt in the table is a callback that failed, the one being made, or
\* one cut off by a crash, by a shutdown that timed out or by a result that could
\* not be written: the attempt an orderly shutdown interrupts does not count.
AttemptsAccounted ==
  \A t \in Tasks :
    /\ status[t] \in {"new", "pending", "failed", "cancelled"} => attempt[t] = failures[t] + cut[t]
    /\ stage[t] \in {"waiting", "calling", "succeeded"} => attempt[t] = failures[t] + cut[t] + 1

\* A task fails for good only after one attempt and MaxRetries retries.
RetriesHonoured ==
  \A t \in Tasks : status[t] = "failed" => failures[t] + cut[t] > MaxRetries

\* A finished or cancelled task stays so until it is deleted: no reset or late
\* result brings it back.
FinishedStays ==
  [][\A t \in Tasks : status[t] \in Terminal => status'[t] \in {status[t], "deleted"}]_vars

\* Every task comes to an end, whatever shutdowns and crashes interrupt it.  Only a
\* result that the database refused leaves it running until the next start.
EveryTaskEnds ==
  \A t \in Tasks :
    status[t] = "pending" ~> status[t] \in Terminal \cup {"deleted"} \/ t \in unwritten
=============================================================================
