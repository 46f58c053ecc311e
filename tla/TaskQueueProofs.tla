--------------------------- MODULE TaskQueueProofs ---------------------------
(***************************************************************************)
(* Proofs about TaskQueue, for any tasks and queues and any number of      *)
(* retries, shutdowns, crashes and database errors.                        *)
(***************************************************************************)
EXTENDS TaskQueue, FiniteSetTheorems, TLAPS

Statuses == {"new", "pending", "running", "deleted", "completed", "failed", "cancelled"}

Numbers ==
  /\ attempt \in [Tasks -> Nat] /\ failures \in [Tasks -> Nat] /\ cut \in [Tasks -> Nat]

Types ==
  /\ status \in [Tasks -> Statuses] /\ DOMAIN workers = Queues
  /\ stage \in [Tasks -> {"none", "waiting", "calling", "succeeded", "erred"}]

\* A worker's queue exists.
HeldHasQueue == \A t \in Tasks : stage[t] # "none" => workers[QueueOf[t]] # 0

\* The attempts of one task add up.
Accounted(t) ==
  /\ status[t] \in {"new", "pending", "failed", "cancelled"} => attempt[t] = failures[t] + cut[t]
  /\ stage[t] \in {"waiting", "calling", "succeeded"} => attempt[t] = failures[t] + cut[t] + 1
  /\ status[t] = "running" =>
       attempt[t] = failures[t] + cut[t] \/ attempt[t] = failures[t] + cut[t] + 1
  /\ stage[t] = "erred" => attempt[t] = failures[t] + cut[t]
  /\ status[t] = "failed" => attempt[t] > MaxRetries

IInv ==
  /\ Numbers /\ Types /\ HeldIsRunning /\ HeldHasQueue
  /\ \A t \in Tasks : Accounted(t)

\* A task that a step leaves alone.
Same(t) ==
  /\ status'[t] = status[t] /\ stage'[t] = stage[t]
  /\ attempt'[t] = attempt[t] /\ failures'[t] = failures[t] /\ cut'[t] = cut[t]

LEMMA SameAccounted ==
  ASSUME NEW t \in Tasks, Accounted(t), Same(t) PROVE Accounted(t)'
BY Zenon DEF Accounted, Same

\* A step that changes the row and the stage of one task keeps the invariant if
\* the task's own part of it is kept.
LEMMA OneTask ==
  ASSUME IInv, NEW t \in Tasks, Numbers', Types', workers' = workers,
         \A u \in Tasks \ {t} : Same(u),
         stage'[t] # "none" => status'[t] = "running" /\ workers[QueueOf[t]] # 0,
         Accounted(t)'
  PROVE  IInv'
<1>1. \A u \in Tasks : Accounted(u)'
  BY Zenon, SameAccounted DEF IInv
<1>2. HeldIsRunning' /\ HeldHasQueue'
  BY Zenon DEF IInv, HeldIsRunning, HeldHasQueue, Same
<1> QED BY Zenon, <1>1, <1>2 DEF IInv

\* A dead or a new service resets tasks that nobody holds.
LEMMA ResetAccounted ==
  ASSUME IInv, NEW ts \in SUBSET Tasks, \A t \in ts : Stale(t), Reset(ts),
         NEW t \in Tasks, stage'[t] = stage[t] \/ stage'[t] = "none",
         t \in ts => stage'[t] = "none"
  PROVE  Accounted(t)'
<1>1. /\ attempt[t] \in Nat /\ failures[t] \in Nat /\ cut[t] \in Nat
      /\ attempt'[t] = attempt[t] /\ failures'[t] = failures[t]
  BY Zenon DEF IInv, Numbers, Reset
<1>2. CASE t \notin ts
  <2>1. status'[t] = status[t] /\ cut'[t] = cut[t]
    BY Zenon, <1>2 DEF Reset
  <2> QED BY Zenon, <1>1, <2>1 DEF IInv, Accounted
<1>3. CASE t \in ts
  <2>1. status[t] = "running" /\ status'[t] = "pending" /\ stage'[t] = "none"
    BY Zenon, <1>3 DEF Reset, Stale
  <2>2. attempt[t] = failures[t] + cut[t] \/ attempt[t] = failures[t] + cut[t] + 1
    BY Zenon, <2>1 DEF IInv, Accounted
  <2>3. cut'[t] = IF attempt[t] > failures[t] + cut[t] THEN cut[t] + 1 ELSE cut[t]
    BY Zenon, <1>3 DEF Reset
  <2>4. attempt'[t] = failures'[t] + cut'[t]
    BY <1>1, <2>2, <2>3
  <2> QED BY Zenon, <2>1, <2>4 DEF Accounted
<1> QED BY Zenon, <1>2, <1>3

LEMMA IdleWorker ==
  ASSUME NEW q \in Queues, HasIdleWorker(q) PROVE workers[q] # 0
<1>1. IsFiniteSet(Busy(q))
  BY Zenon, TaskQueueAssumption, FS_Subset DEF Busy, Of
<1>2. Cardinality(Busy(q)) \in Nat
  BY Zenon, <1>1, FS_CardinalityType
<1> QED BY <1>2 DEF HasIdleWorker

\* Every step keeps the invariant.
LEMMA IInvStep == IInv /\ [Next]_vars => IInv'
<1> USE TaskQueueAssumption
<1> SUFFICES ASSUME IInv, [Next]_vars PROVE IInv'
  BY Zenon
<1>n. /\ attempt \in [Tasks -> Nat] /\ failures \in [Tasks -> Nat] /\ cut \in [Tasks -> Nat]
      /\ status \in [Tasks -> Statuses] /\ DOMAIN workers = Queues
      /\ stage \in [Tasks -> {"none", "waiting", "calling", "succeeded", "erred"}]
  BY Zenon DEF IInv, Numbers, Types
<1>1. ASSUME UNCHANGED <<status, attempt, stage, failures, cut, workers>> PROVE IInv'
  BY Zenon, <1>1 DEF IInv, Numbers, Types, HeldIsRunning, HeldHasQueue, Accounted
<1>2. ASSUME NEW q \in Queues, CreateQueue(q) PROVE IInv'
  <2> DEFINE ts == {t \in Of(q) : Stale(t)}
  <2>1. /\ Reset(ts) /\ stage' = stage /\ workers[q] = 0
        /\ workers' = [workers EXCEPT ![q] = clampConcurrency(q)]
    BY Zenon, <1>2 DEF CreateQueue
  <2>2. \A t \in ts : t \in Tasks /\ QueueOf[t] = q /\ stage[t] = "none"
    BY Zenon, <2>1 DEF Of, IInv, HeldHasQueue
  <2>3. ts \in SUBSET Tasks /\ \A t \in ts : Stale(t)
    BY Zenon, <2>2
  <2>4. \A t \in Tasks : Accounted(t)'
    BY Zenon, <2>1, <2>2, <2>3, ResetAccounted
  <2>5. \A t \in Tasks : stage[t] # "none" => QueueOf[t] # q /\ QueueOf[t] \in Queues
    BY Zenon, <2>1 DEF IInv, HeldHasQueue
  <2>6. HeldHasQueue'
    BY Zenon, <1>n, <2>1, <2>5 DEF IInv, HeldHasQueue
  <2>7. HeldIsRunning'
    BY Zenon, <2>1, <2>2 DEF IInv, HeldIsRunning, Reset
  <2>8. Types'
    BY Zenon, <1>n, <2>1 DEF Types, Reset, Statuses
  <2>9. Numbers'
    BY <1>n, <2>1 DEF Numbers, Reset
  <2> QED BY Zenon, <2>4, <2>6, <2>7, <2>8, <2>9 DEF IInv
<1>3. ASSUME NEW t \in Tasks, status[t] # "running", status' = [status EXCEPT ![t] = "pending"],
             status[t] = "new", UNCHANGED <<attempt, stage, failures, cut, workers>>
      PROVE  IInv'
  <2>1. Accounted(t)'
    BY Zenon, <1>n, <1>3 DEF IInv, Accounted, HeldIsRunning
  <2> QED BY Zenon, <1>n, <1>3, <2>1, OneTask
          DEF IInv, Numbers, Types, Same, Statuses, HeldIsRunning, HeldHasQueue
<1>4. ASSUME \A t \in Tasks : \/ status'[t] = status[t]
                              \/ status[t] = "pending" /\ status'[t] = "cancelled"
                              \/ status[t] \in Terminal /\ status'[t] = "deleted",
             status' \in [Tasks -> Statuses], UNCHANGED <<attempt, stage, failures, cut, workers>>
      PROVE  IInv'
  <2>1. \A t \in Tasks : Accounted(t)'
    BY Zenon, <1>n, <1>4 DEF IInv, Accounted, HeldIsRunning, Terminal
  <2> QED BY Zenon, <1>n, <1>4, <2>1 DEF IInv, Numbers, Types, HeldIsRunning, HeldHasQueue, Terminal
<1>5. ASSUME NEW t \in Tasks, Dequeue(t) PROVE IInv'
  <2>1. /\ status' = [status EXCEPT ![t] = "running"] /\ attempt' = [attempt EXCEPT ![t] = @ + 1]
        /\ stage' = [stage EXCEPT ![t] = "waiting"]
        /\ status[t] = "pending" /\ UNCHANGED <<failures, cut, workers>>
    BY Zenon, <1>5 DEF Dequeue, history
  <2>2. workers[QueueOf[t]] # 0
    BY Zenon, <1>5, IdleWorker DEF Dequeue
  <2>3. Accounted(t)'
    BY Zenon, <1>n, <2>1 DEF IInv, Accounted
  <2>4. Numbers' /\ Types'
    BY <1>n, <2>1 DEF Numbers, Types, Statuses
  <2> QED BY Zenon, <1>n, <2>1, <2>2, <2>3, <2>4, OneTask DEF Same
<1>6. ASSUME NEW t \in Tasks, Wait(t) PROVE IInv'
  <2>1. /\ stage' = [stage EXCEPT ![t] = "calling"] /\ stage[t] = "waiting"
        /\ UNCHANGED <<status, attempt, failures, cut, workers>>
    BY Zenon, <1>6 DEF Wait, table, history
  <2>2. Accounted(t)'
    BY Zenon, <1>n, <2>1 DEF IInv, Accounted
  <2> QED BY Zenon, <1>n, <2>1, <2>2, OneTask
          DEF IInv, Same, Numbers, Types, HeldIsRunning, HeldHasQueue
<1>7. ASSUME NEW t \in Tasks, stage[t] \in {"waiting", "calling"}, revertTaskToPending(t),
             UNCHANGED history
      PROVE  IInv'
  <2>1. status[t] = "running" /\ attempt[t] = failures[t] + cut[t] + 1
    BY Zenon, <1>7 DEF IInv, HeldIsRunning, Accounted
  <2>2. attempt' = [attempt EXCEPT ![t] = attempt[t] - 1]
    BY <1>n, <1>7, <2>1 DEF revertTaskToPending, RevertedAttempt
  <2>3. /\ status' = [status EXCEPT ![t] = "pending"] /\ stage' = [stage EXCEPT ![t] = "none"]
        /\ UNCHANGED <<failures, cut, workers>>
    BY Zenon, <1>7, <2>1 DEF revertTaskToPending, Release, history
  <2>4. Accounted(t)'
    BY <1>n, <2>1, <2>2, <2>3 DEF Accounted
  <2>5. Numbers' /\ Types'
    BY <1>n, <2>1, <2>2, <2>3 DEF Numbers, Types, Statuses
  <2> QED BY Zenon, <1>n, <2>2, <2>3, <2>4, <2>5, OneTask DEF Same
<1>8. ASSUME NEW t \in Tasks, CallbackReturns(t) PROVE IInv'
  <2>1. /\ UNCHANGED <<status, attempt, cut, workers>> /\ stage[t] = "calling"
        /\ \/ stage' = [stage EXCEPT ![t] = "succeeded"] /\ failures' = failures
           \/ /\ stage' = [stage EXCEPT ![t] = "erred"]
              /\ failures' = [failures EXCEPT ![t] = @ + 1]
    BY Zenon, <1>8 DEF CallbackReturns, table
  <2>2. Accounted(t)'
    BY <1>n, <2>1 DEF IInv, Accounted, HeldIsRunning
  <2>3. Numbers' /\ Types'
    BY <1>n, <2>1 DEF Numbers, Types
  <2> QED BY Zenon, <1>n, <2>1, <2>2, <2>3, OneTask DEF IInv, Same, HeldIsRunning, HeldHasQueue
<1>9. ASSUME NEW t \in Tasks, completeTask(t) \/ handleTaskFailure(t) \/ WriteFails(t) PROVE IInv'
  <2>1. /\ stage' = [stage EXCEPT ![t] = "none"] /\ stage[t] # "none"
        /\ UNCHANGED <<attempt, failures, cut, workers>>
        /\ \/ status' = [status EXCEPT ![t] = "completed"]
           \/ stage[t] = "erred" /\ attempt[t] > MaxRetries /\ status' = [status EXCEPT ![t] = "failed"]
           \/ stage[t] = "erred" /\ status' = [status EXCEPT ![t] = "pending"]
           \/ status' = status
    BY Zenon, <1>9
    DEF completeTask, handleTaskFailure, WriteFails, Release, Exhausted, table, history
  <2>2. status[t] = "running"
    BY Zenon, <2>1 DEF IInv, HeldIsRunning
  <2>3. Accounted(t)'
    BY Zenon, <1>n, <2>1, <2>2 DEF IInv, Accounted
  <2>4. Numbers' /\ Types'
    BY Zenon, <1>n, <2>1 DEF Numbers, Types, Statuses
  <2> QED BY Zenon, <1>n, <2>1, <2>3, <2>4, OneTask DEF Same
<1>10. ASSUME CloseEnds PROVE IInv'
  <2> DEFINE ts == {t \in Tasks : Stale(t)}
  <2>1. Reset(ts) /\ stage' = [t \in Tasks |-> "none"] /\ workers' = [q \in Queues |-> 0]
    BY Zenon, <1>10 DEF CloseEnds, Gone
  <2>2. \A t \in Tasks : Accounted(t)'
    BY Zenon, <2>1, ResetAccounted
  <2>3. Types' /\ Numbers'
    BY <1>n, <2>1 DEF Types, Numbers, Reset, Statuses
  <2> QED BY Zenon, <2>1, <2>2, <2>3 DEF IInv, HeldIsRunning, HeldHasQueue
<1>11. ASSUME Crash PROVE IInv'
  <2>1. /\ UNCHANGED <<status, attempt, failures, cut>> /\ stage' = [t \in Tasks |-> "none"]
        /\ workers' = [q \in Queues |-> 0]
    BY Zenon, <1>11 DEF Crash, Gone, table, history
  <2>2. \A t \in Tasks : Accounted(t)'
    BY Zenon, <2>1 DEF IInv, Accounted
  <2> QED BY Zenon, <1>n, <2>1, <2>2 DEF IInv, Numbers, Types, HeldIsRunning, HeldHasQueue
<1>12. ASSUME Load \/ Close \/ (\E t \in Tasks : BackoffEnds(t)) \/ UNCHANGED vars PROVE IInv'
  BY Zenon, <1>1, <1>12 DEF Load, Close, BackoffEnds, vars, table, history
<1>13. ASSUME NEW t \in Tasks, Enqueue(t) PROVE IInv'
  BY Zenon, <1>3, <1>13 DEF Enqueue, history
<1>14. ASSUME NEW t \in Tasks, Cancel(t) \/ Cleanup(t) PROVE IInv'
  <2>1. /\ status' \in [Tasks -> Statuses] /\ UNCHANGED <<attempt, stage, failures, cut, workers>>
        /\ \A u \in Tasks \ {t} : status'[u] = status[u]
        /\ \/ status[t] = "pending" /\ status'[t] = "cancelled"
           \/ status[t] \in Terminal /\ status'[t] = "deleted"
    BY Zenon, <1>n, <1>14 DEF Cancel, Cleanup, Cancellable, Statuses, history
  <2> QED BY Zenon, <1>4, <2>1
<1>15. ASSUME NEW q \in Queues, ClearQueue(q) PROVE IInv'
  <2>1. /\ status' \in [Tasks -> Statuses] /\ UNCHANGED <<attempt, stage, failures, cut, workers>>
        /\ \A t \in Tasks : \/ status'[t] = status[t]
                            \/ status[t] = "pending" /\ status'[t] = "cancelled"
    BY Zenon, <1>n, <1>15 DEF ClearQueue, Statuses, history
  <2> QED BY Zenon, <1>4, <2>1
<1>16. ASSUME NEW t \in Tasks, WaitCancelled(t) \/ CallbackCancelled(t) PROVE IInv'
  BY Zenon, <1>7, <1>16 DEF WaitCancelled, CallbackCancelled
<1> QED BY Zenon, <1>2, <1>5, <1>6, <1>8, <1>9, <1>10, <1>11, <1>12, <1>13, <1>14, <1>15, <1>16
  DEF Next

LEMMA InitIInv == Init => IInv
BY TaskQueueAssumption
DEF Init, IInv, Numbers, Types, Statuses, HeldIsRunning, HeldHasQueue, Accounted

\* The attempts of every task are accounted for: only failures, crashes, timed out
\* shutdowns and unwritten results are charged to it.
THEOREM AttemptsAddUp == Spec => []AttemptsAccounted
<1>1. IInv => AttemptsAccounted
  BY Zenon DEF IInv, Accounted, AttemptsAccounted
<1> QED BY <1>1, InitIInv, IInvStep, PTL DEF Spec

\* No task that a worker holds is touched by anybody else.
THEOREM HeldTasksRun == Spec => []HeldIsRunning
<1>1. IInv => HeldIsRunning
  BY Zenon DEF IInv
<1> QED BY <1>1, InitIInv, IInvStep, PTL DEF Spec

\* A task fails for good only after as many attempts as its queue allows.
THEOREM RetriesKept == Spec => []RetriesHonoured
<1>1. IInv => RetriesHonoured
  BY Zenon DEF IInv, Numbers, Accounted, RetriesHonoured
<1> QED BY <1>1, InitIInv, IInvStep, PTL DEF Spec

Stays == \A t \in Tasks : status[t] \in Terminal => status'[t] \in {status[t], "deleted"}

\* No step brings a finished task back.
LEMMA StaysStep == IInv /\ [Next]_vars => [Stays]_vars
<1> SUFFICES ASSUME IInv, [Next]_vars PROVE Stays
  BY Zenon
<1> USE DEF Terminal
<1>n. status \in [Tasks -> Statuses]
  BY Zenon DEF IInv, Types
<1>1. ASSUME NEW u \in Tasks, stage[u] # "none", NEW s, status' = [status EXCEPT ![u] = s]
      PROVE  Stays
  BY Zenon, <1>n, <1>1 DEF IInv, HeldIsRunning, Stays
<1>2. ASSUME NEW u \in Tasks, NEW s, status' = [status EXCEPT ![u] = s], status[u] \notin Terminal
      PROVE  Stays
  BY Zenon, <1>n, <1>2 DEF Stays
<1>3. ASSUME UNCHANGED status PROVE Stays
  BY Zenon, <1>3 DEF Stays
<1>4. ASSUME NEW ts, Reset(ts), \A t \in ts : Stale(t) PROVE Stays
  BY Zenon, <1>4 DEF Stays, Reset, Stale
<1>5. ASSUME NEW q \in Queues, CreateQueue(q) PROVE Stays
  BY Zenon, <1>4, <1>5 DEF CreateQueue
<1>6. ASSUME CloseEnds PROVE Stays
  BY Zenon, <1>4, <1>6 DEF CloseEnds
<1>7. ASSUME NEW q \in Queues, ClearQueue(q) PROVE Stays
  BY Zenon, <1>n, <1>7 DEF ClearQueue, Stays
<1>8. ASSUME NEW u \in Tasks, Enqueue(u) \/ Cancel(u) \/ Dequeue(u) PROVE Stays
  BY Zenon, <1>2, <1>8 DEF Enqueue, Cancel, Cancellable, Dequeue
<1>9. ASSUME NEW u \in Tasks, Cleanup(u) PROVE Stays
  BY Zenon, <1>n, <1>9 DEF Cleanup, Stays
<1>10. ASSUME NEW u \in Tasks, WaitCancelled(u) \/ CallbackCancelled(u) PROVE Stays
  <2>1. stage[u] # "none" /\ \/ status' = [status EXCEPT ![u] = "pending"]
                             \/ UNCHANGED status
    BY Zenon, <1>10 DEF WaitCancelled, CallbackCancelled, revertTaskToPending
  <2> QED BY Zenon, <1>1, <1>3, <2>1
<1>11. ASSUME NEW u \in Tasks, completeTask(u) \/ handleTaskFailure(u) PROVE Stays
  <2>1. stage[u] # "none" /\ \E s : status' = [status EXCEPT ![u] = s]
    BY Zenon, <1>11 DEF completeTask, handleTaskFailure
  <2> QED BY Zenon, <1>1, <2>1
<1>12. ASSUME \/ Load \/ Close \/ Crash \/ UNCHANGED vars
              \/ \E t \in Tasks : \/ BackoffEnds(t) \/ Wait(t) \/ CallbackReturns(t) \/ WriteFails(t)
       PROVE  Stays
  BY Zenon, <1>3, <1>12
  DEF Load, Close, Crash, BackoffEnds, Wait, CallbackReturns, WriteFails, vars, table
<1> QED BY Zenon, <1>5, <1>6, <1>7, <1>8, <1>9, <1>10, <1>11, <1>12 DEF Next

\* A finished or cancelled task stays so until it is deleted.
THEOREM FinishedKept == Spec => FinishedStays
<1>1. [Stays]_vars => [\A t \in Tasks : status[t] \in Terminal => status'[t] \in {status[t], "deleted"}]_vars
  BY Zenon DEF Stays
<1> QED BY <1>1, InitIInv, IInvStep, StaysStep, PTL DEF Spec, FinishedStays

\* The type invariant alone is kept by every step.
LEMMA TypeStep == TypeOK /\ [Next]_vars => TypeOK'
<1> USE TaskQueueAssumption DEF TypeOK, Terminal
<1> SUFFICES ASSUME TypeOK, [Next]_vars PROVE TypeOK'
  BY Zenon
<1>1. ASSUME Load PROVE TypeOK'
  BY Zenon, <1>1 DEF Load, table, history
<1>2. ASSUME Close PROVE TypeOK'
  BY <1>2 DEF Close, Fault, table, history
<1>3. ASSUME CloseEnds PROVE TypeOK'
  BY <1>3 DEF CloseEnds, Gone, Reset, Stale
<1>4. ASSUME Crash PROVE TypeOK'
  BY <1>4 DEF Crash, Fault, Gone, table, history
<1>5. ASSUME NEW q \in Queues, CreateQueue(q) PROVE TypeOK'
  BY <1>5 DEF CreateQueue, Reset
<1>6. ASSUME NEW q \in Queues, ClearQueue(q) PROVE TypeOK'
  BY Zenon, <1>6 DEF ClearQueue, history
<1>7. ASSUME NEW t \in Tasks, Enqueue(t) PROVE TypeOK'
  BY Zenon, <1>7 DEF Enqueue, history
<1>8. ASSUME NEW t \in Tasks, Cancel(t) PROVE TypeOK'
  BY Zenon, <1>8 DEF Cancel, history
<1>9. ASSUME NEW t \in Tasks, Cleanup(t) PROVE TypeOK'
  BY Zenon, <1>9 DEF Cleanup, history
<1>10. ASSUME NEW t \in Tasks, BackoffEnds(t) PROVE TypeOK'
  BY Zenon, <1>10 DEF BackoffEnds, history
<1>11. ASSUME NEW t \in Tasks, Dequeue(t) PROVE TypeOK'
  BY <1>11 DEF Dequeue, history
<1>12. ASSUME NEW t \in Tasks, Wait(t) PROVE TypeOK'
  BY Zenon, <1>12 DEF Wait, table, history
<1>13. ASSUME NEW t \in Tasks, WaitCancelled(t) PROVE TypeOK'
  BY <1>13 DEF WaitCancelled, revertTaskToPending, RevertedAttempt, Release, history
<1>14. ASSUME NEW t \in Tasks, CallbackReturns(t) PROVE TypeOK'
  BY <1>14 DEF CallbackReturns, table
<1>15. ASSUME NEW t \in Tasks, CallbackCancelled(t) PROVE TypeOK'
  BY <1>15 DEF CallbackCancelled, revertTaskToPending, RevertedAttempt, Release, history
<1>16. ASSUME NEW t \in Tasks, completeTask(t) PROVE TypeOK'
  BY Zenon, <1>16 DEF completeTask, Release, history
<1>17. ASSUME NEW t \in Tasks, handleTaskFailure(t) PROVE TypeOK'
  BY Zenon, <1>17 DEF handleTaskFailure, Release, history
<1>18. ASSUME NEW t \in Tasks, WriteFails(t) PROVE TypeOK'
  BY <1>18 DEF WriteFails, Fault, Release, table, history
<1>19. CASE UNCHANGED vars
  BY Zenon, <1>19 DEF vars, table, history
<1> QED
  BY Zenon, <1>1, <1>2, <1>3, <1>4, <1>5, <1>6, <1>7, <1>8, <1>9, <1>10, <1>11, <1>12, <1>13, <1>14,
  <1>15, <1>16, <1>17, <1>18, <1>19 DEF Next

\* The tables and the workers keep their types in every step of the plugin and of
\* its workers.
THEOREM TypeCorrect == Spec => []TypeOK
<1>1. Init => TypeOK
  BY TaskQueueAssumption DEF Init, TypeOK, Terminal
<1> QED BY <1>1, TypeStep, PTL DEF Spec

-----------------------------------------------------------------------------
(* The budget of workers. *)

\* The queues' workers, within the budget; and each queue's tasks in hand.
BudgetInv ==
  /\ workers \in [Queues -> Nat] /\ IsFiniteSet(Pool) /\ Allocated <= MaxConcurrency
  /\ \A q \in Queues : Cardinality(Busy(q)) <= workers[q]

\* The tasks in hand are finitely many.
LEMMA BusyFinite == ASSUME NEW q PROVE IsFiniteSet(Busy(q)) /\ Cardinality(Busy(q)) \in Nat
<1>1. Busy(q) \subseteq Tasks
  BY Zenon DEF Busy, Of
<1>2. IsFiniteSet(Busy(q))
  BY Zenon, <1>1, TaskQueueAssumption, FS_Subset
<1> QED BY Zenon, <1>2, FS_CardinalityType

\* ... also after a step.
LEMMA BusyFiniteNext == ASSUME NEW q PROVE IsFiniteSet(Busy(q)') /\ Cardinality(Busy(q)') \in Nat
<1>1. Busy(q)' \subseteq Tasks
  BY Zenon DEF Busy, Of
<1>2. IsFiniteSet(Busy(q)')
  BY Zenon, <1>1, TaskQueueAssumption, FS_Subset
<1> QED BY Zenon, <1>2, FS_CardinalityType

\* A step that takes no task in hand keeps the number of those in hand.
LEMMA NoMoreBusy ==
  ASSUME \A t \in Tasks : stage'[t] # "none" => stage[t] # "none", NEW q
  PROVE  Cardinality(Busy(q)') <= Cardinality(Busy(q))
<1>1. Busy(q)' \subseteq Busy(q)
  BY Zenon DEF Busy, Of
<1> QED BY Zenon, <1>1, BusyFinite, FS_Subset

\* clampConcurrency() leaves at least one worker and stays within the budget.
LEMMA ClampFits ==
  ASSUME NEW q \in Queues, Allocated \in Nat, MaxConcurrency > Allocated
  PROVE  clampConcurrency(q) \in Nat \ {0} /\ clampConcurrency(q) <= MaxConcurrency - Allocated
<1> DEFINE a == Concurrency[q]
           b == MaxConcurrency - Allocated
<1>1. a \in Nat \ {0} /\ b \in Nat \ {0}
  BY TaskQueueAssumption
<1> HIDE DEF a, b
<1>2. \E x \in {a, b} : \A y \in {a, b} : x =< y
  BY <1>1
<1>3. Min({a, b}) \in {a, b} /\ Min({a, b}) <= b
  BY Zenon, <1>1, <1>2 DEF Min
<1> QED BY Zenon, <1>1, <1>3 DEF clampConcurrency, a, b

\* A queue is created: its workers are added to the pool.
LEMMA BudgetCreate ==
  ASSUME BudgetInv, NEW q \in Queues, CreateQueue(q)
  PROVE  BudgetInv'
<1> DEFINE n == clampConcurrency(q)
           new == {q} \X (1..n)
<1>1. /\ MaxConcurrency > Allocated /\ workers[q] = 0 /\ UNCHANGED stage
      /\ workers' = [workers EXCEPT ![q] = n]
  BY Zenon DEF CreateQueue
<1>2. Allocated \in Nat /\ IsFiniteSet(Pool) /\ MaxConcurrency \in Nat
  BY Zenon, FS_CardinalityType, TaskQueueAssumption DEF BudgetInv, Allocated
<1>3. n \in Nat \ {0} /\ n <= MaxConcurrency - Allocated
  BY Zenon, <1>1, <1>2, ClampFits
<1> HIDE DEF n
<1>4. workers' \in [Queues -> Nat] /\ workers'[q] = n /\ \A k \in Queues \ {q} : workers'[k] = workers[k]
  BY Zenon, <1>1, <1>3 DEF BudgetInv
<1>5. IsFiniteSet(new) /\ Cardinality(new) = n
  <2>1. IsFiniteSet(1..n) /\ Cardinality(1..n) = n
    BY <1>3, FS_Interval
  <2>2. IsFiniteSet({q}) /\ Cardinality({q}) = 1
    BY Zenon, FS_Singleton
  <2> QED BY <1>3, <2>1, <2>2, FS_Product
<1>6. Pool' \subseteq Pool \cup new
  <2> SUFFICES ASSUME NEW k \in Queues, NEW w \in {k} \X (1..workers'[k])
               PROVE  w \in Pool \cup new
    BY Zenon DEF Pool
  <2>1. CASE k = q
    BY Zenon, <1>4, <2>1
  <2>2. CASE k # q
    <3>1. w \in {k} \X (1..workers[k])
      BY Zenon, <1>4, <2>2
    <3> QED BY Zenon, <3>1 DEF Pool
  <2> QED BY Zenon, <2>1, <2>2
<1>7. /\ IsFiniteSet(Pool \cup new)
      /\ Cardinality(Pool \cup new) = Cardinality(Pool) + Cardinality(new) - Cardinality(Pool \cap new)
  BY Zenon, <1>2, <1>5, FS_Union
<1>8. Cardinality(Pool \cap new) \in Nat
  BY Zenon, <1>2, FS_Intersection, FS_CardinalityType
<1>9. IsFiniteSet(Pool') /\ Cardinality(Pool') <= Cardinality(Pool \cup new) /\ Cardinality(Pool') \in Nat
  BY Zenon, <1>6, <1>7, FS_Subset, FS_CardinalityType
<1>10. Allocated' <= MaxConcurrency
  <2>1. Allocated = Cardinality(Pool) /\ Allocated' = Cardinality(Pool')
    BY Zenon DEF Allocated
  <2> QED BY <1>2, <1>3, <1>5, <1>7, <1>8, <1>9, <2>1
<1>11. \A k \in Queues : Cardinality(Busy(k)') <= workers'[k]
  <2> SUFFICES ASSUME NEW k \in Queues PROVE Cardinality(Busy(k)') <= workers'[k]
    BY Zenon
  <2>1. Busy(k)' = Busy(k)
    BY Zenon, <1>1 DEF Busy, Of
  <2>2. Cardinality(Busy(k)) \in Nat /\ Cardinality(Busy(k)) <= workers[k]
    BY Zenon, BusyFinite DEF BudgetInv
  <2> QED BY <1>1, <1>3, <1>4, <2>1, <2>2
<1> QED BY Zenon, <1>4, <1>9, <1>10, <1>11 DEF BudgetInv

\* A worker takes a task only if it is idle.
LEMMA BudgetDequeue ==
  ASSUME BudgetInv, stage \in [Tasks -> {"none", "waiting", "calling", "succeeded", "erred"}],
         NEW t \in Tasks, Dequeue(t), NEW k \in Queues
  PROVE  Cardinality(Busy(k)') <= workers[k]
<1>1. /\ stage' = [stage EXCEPT ![t] = "waiting"] /\ Cardinality(Busy(QueueOf[t])) < workers[QueueOf[t]]
  BY Zenon DEF Dequeue, HasIdleWorker
<1>2. /\ Cardinality(Busy(k)) \in Nat /\ Cardinality(Busy(k)) <= workers[k] /\ workers[k] \in Nat
      /\ Cardinality(Busy(k)') \in Nat /\ IsFiniteSet(Busy(k))
  BY Zenon, BusyFinite, BusyFiniteNext DEF BudgetInv
<1>3. CASE QueueOf[t] = k
  <2>1. Busy(k)' \subseteq Busy(k) \cup {t}
    BY Zenon, <1>1 DEF Busy, Of
  <2>2. /\ IsFiniteSet(Busy(k) \cup {t})
        /\ Cardinality(Busy(k) \cup {t}) <= Cardinality(Busy(k)) + 1
        /\ Cardinality(Busy(k) \cup {t}) \in Nat
    <3>1. CASE t \in Busy(k)
      <4>1. Busy(k) \cup {t} = Busy(k)
        BY <3>1, Zenon
      <4>2. /\ IsFiniteSet(Busy(k) \cup {t}) = IsFiniteSet(Busy(k))
            /\ Cardinality(Busy(k) \cup {t}) = Cardinality(Busy(k))
        BY <4>1, Zenon
      <4>3. Cardinality(Busy(k)) <= Cardinality(Busy(k)) + 1
        BY <1>2
      <4> QED BY <1>2, <4>2, <4>3, Zenon
    <3>2. CASE t \notin Busy(k)
      <4>1. IsFiniteSet(Busy(k) \cup {t}) /\ Cardinality(Busy(k) \cup {t}) = Cardinality(Busy(k)) + 1
        BY Zenon, <1>2, <3>2, FS_AddElement
      <4> QED BY <1>2, <4>1
    <3> QED BY Zenon, <3>1, <3>2
  <2>3. Cardinality(Busy(k)') <= Cardinality(Busy(k) \cup {t})
    BY Zenon, <2>1, <2>2, FS_Subset
  <2> QED BY <1>1, <1>2, <1>3, <2>2, <2>3
<1>4. CASE QueueOf[t] # k
  <2>1. Busy(k)' \subseteq Busy(k)
    BY Zenon, <1>1, <1>4 DEF Busy, Of
  <2>2. Cardinality(Busy(k)') <= Cardinality(Busy(k))
    BY Zenon, <1>2, <2>1, FS_Subset
  <2> QED BY <1>2, <2>2
<1> QED BY Zenon, <1>3, <1>4

\* Every step keeps the budget.
LEMMA BudgetStep == Types /\ BudgetInv /\ [Next]_vars => BudgetInv'
<1> SUFFICES ASSUME Types, BudgetInv, [Next]_vars PROVE BudgetInv'
  BY Zenon
<1>t. stage \in [Tasks -> {"none", "waiting", "calling", "succeeded", "erred"}]
  BY Zenon DEF Types
<1>1. ASSUME UNCHANGED workers, \A k \in Queues : Cardinality(Busy(k)') <= workers[k] PROVE BudgetInv'
  BY Zenon, <1>1 DEF BudgetInv, Pool, Allocated
<1>2. ASSUME UNCHANGED workers, \A t \in Tasks : stage'[t] # "none" => stage[t] # "none" PROVE BudgetInv'
  <2> SUFFICES ASSUME NEW k \in Queues PROVE Cardinality(Busy(k)') <= workers[k]
    BY Zenon, <1>1, <1>2
  <2>1. Cardinality(Busy(k)') <= Cardinality(Busy(k)) /\ Cardinality(Busy(k)) <= workers[k]
    BY Zenon, <1>2, NoMoreBusy DEF BudgetInv
  <2>2. Cardinality(Busy(k)') \in Nat /\ Cardinality(Busy(k)) \in Nat /\ workers[k] \in Nat
    BY Zenon, BusyFinite, BusyFiniteNext DEF BudgetInv
  <2> QED BY <2>1, <2>2
<1>3. ASSUME Gone PROVE BudgetInv'
  <2>1. stage' = [t \in Tasks |-> "none"] /\ workers' = [q \in Queues |-> 0]
    BY Zenon, <1>3 DEF Gone
  <2>2. Pool' = {} /\ \A k \in Queues : Busy(k)' = {}
    BY <2>1 DEF Pool, Busy, Of
  <2>3. Allocated' = 0 /\ IsFiniteSet(Pool') /\ \A k \in Queues : Cardinality(Busy(k)') = 0
    BY Zenon, <2>2, FS_EmptySet DEF Allocated
  <2> QED BY <2>1, <2>3, TaskQueueAssumption DEF BudgetInv
<1>4. ASSUME NEW t \in Tasks, Dequeue(t) PROVE BudgetInv'
  BY Zenon, <1>1, <1>4, <1>t, BudgetDequeue DEF Dequeue
<1>5. ASSUME NEW t \in Tasks,
             \/ Wait(t) \/ WaitCancelled(t) \/ CallbackReturns(t) \/ CallbackCancelled(t)
             \/ completeTask(t) \/ handleTaskFailure(t) \/ WriteFails(t)
      PROVE  BudgetInv'
  <2>1. UNCHANGED workers /\ stage[t] # "none" /\ \E x : stage' = [stage EXCEPT ![t] = x]
    BY Zenon, <1>5
    DEF Wait, WaitCancelled, CallbackReturns, CallbackCancelled, completeTask, handleTaskFailure,
                WriteFails, revertTaskToPending, Release
  <2> QED BY Zenon, <1>2, <1>t, <2>1
<1>6. ASSUME \/ Load \/ Close \/ UNCHANGED vars \/ (\E q \in Queues : ClearQueue(q))
             \/ \E t \in Tasks : Enqueue(t) \/ Cancel(t) \/ Cleanup(t) \/ BackoffEnds(t)
      PROVE  BudgetInv'
  BY Zenon, <1>2, <1>6 DEF Load, Close, ClearQueue, Enqueue, Cancel, Cleanup, BackoffEnds, vars
<1> QED BY Zenon, <1>3, <1>4, <1>5, <1>6, BudgetCreate DEF Next, CloseEnds, Crash

\* The plugin never runs more workers than its manifest allows, whatever its queues ask
\* for, and no queue has more tasks in hand than workers.
THEOREM BudgetKept == Spec => []WithinBudget
<1>1. Init => BudgetInv
  <2> SUFFICES ASSUME Init PROVE BudgetInv
    BY Zenon
  <2>1. stage = [t \in Tasks |-> "none"] /\ workers = [q \in Queues |-> 0]
    BY Zenon DEF Init
  <2>2. Pool = {} /\ \A k \in Queues : Busy(k) = {}
    BY <2>1 DEF Pool, Busy, Of
  <2>3. Allocated = 0 /\ IsFiniteSet(Pool) /\ \A k \in Queues : Cardinality(Busy(k)) = 0
    BY Zenon, <2>2, FS_EmptySet DEF Allocated
  <2> QED BY <2>1, <2>3, TaskQueueAssumption DEF BudgetInv
<1>2. IInv => Types
  BY Zenon DEF IInv
<1>3. BudgetInv => WithinBudget
  BY Zenon DEF BudgetInv, WithinBudget
<1> QED BY <1>1, <1>2, <1>3, InitIInv, IInvStep, BudgetStep, PTL DEF Spec
=============================================================================
