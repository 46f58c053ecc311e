--------------------------- MODULE PluginScheduler ---------------------------
(***************************************************************************)
(* The scheduler service of a plugin, plugins/host_scheduler.go: one-time  *)
(* and recurring schedules that call the plugin back, known by an ID the   *)
(* plugin may choose and use again.                                        *)
(*                                                                         *)
(* The schedules are numbered as they are made.  A timer or a cron job     *)
(* fires in a goroutine of its own, which looks the ID up under the lock,  *)
(* calls the plugin without it and, of a one-time schedule, then deletes   *)
(* the entry of the ID, whichever entry that is by then.                   *)
(***************************************************************************)
EXTENDS Naturals

CONSTANTS
  IDs,
  MaxSchedules,  \* bound: schedules made
  MaxFirings     \* bound: firings of a recurring schedule

VARIABLES
  schedules,     \* the schedule each ID stands for, or 0
  idOf, recurring,  \* of a schedule: its ID, and whether it is recurring
  armed,         \* schedules whose timer or cron job is set
  stopping,      \* schedules that CancelSchedule() or Close() will stop
  firings,       \* goroutines of the timers and jobs: the schedule, and the place
  loaded,        \* the plugin is loaded
  made, fired,   \* schedules made, and firings of each
  called,        \* history: schedules the plugin was called for
  dropped,       \* history: schedules that were cancelled, or of a plugin unloaded
  mistaken       \* history: schedules called or deleted by the firing of another one

triggers == <<idOf, recurring, armed, stopping, fired>>
history == <<called, dropped, mistaken>>
vars == <<schedules, triggers, firings, loaded, made, history>>

Schedule == 1..MaxSchedules

Init ==
  /\ schedules = [i \in IDs |-> 0] /\ armed = {} /\ stopping = {} /\ firings = {}
  /\ idOf = [n \in Schedule |-> CHOOSE i \in IDs : TRUE]
  /\ recurring = [n \in Schedule |-> FALSE]
  /\ loaded = TRUE /\ made = 0 /\ fired = [n \in Schedule |-> 0]
  /\ called = {} /\ dropped = {} /\ mistaken = {}

-----------------------------------------------------------------------------
\* Mutant: an ID in use is taken over.
InUseNever(i) == FALSE

InUse(i) == schedules[i] # 0

\* ScheduleOneTime() and ScheduleRecurring(); an ID in use and a bad cron expression
\* are refused.  A call of the plugin that is under way may make it after Close().
MakeSchedule(i, r) ==
  /\ made < MaxSchedules /\ ~InUse(i)
  /\ loaded \/ \E g \in firings : g.at = "calling"
  /\ made' = made + 1
  /\ schedules' = [schedules EXCEPT ![i] = made'] /\ armed' = armed \cup {made'}
  /\ idOf' = [idOf EXCEPT ![made'] = i] /\ recurring' = [recurring EXCEPT ![made'] = r]
  /\ UNCHANGED <<stopping, fired, firings, loaded, history>>

\* CancelSchedule(): the entry is deleted under the lock, its timer stopped after it.
CancelSchedule(i) ==
  /\ InUse(i) /\ schedules' = [schedules EXCEPT ![i] = 0]
  /\ stopping' = stopping \cup {schedules[i]} /\ dropped' = dropped \cup {schedules[i]}
  /\ UNCHANGED <<idOf, recurring, armed, fired, firings, loaded, made, called, mistaken>>

\* Stop() of a timer, Remove() of a cron job: a firing under way goes on.
StopTrigger(n) ==
  /\ n \in stopping /\ stopping' = stopping \ {n} /\ armed' = armed \ {n}
  /\ UNCHANGED <<schedules, idOf, recurring, fired, firings, loaded, made, history>>

\* unloadPlugin(), Close(): the manager forgets the plugin, then its schedules go.
Close ==
  /\ loaded /\ loaded' = FALSE
  /\ LET all == {schedules[i] : i \in IDs} \ {0} IN
     stopping' = stopping \cup all /\ dropped' = dropped \cup all
  /\ schedules' = [i \in IDs |-> 0]
  /\ UNCHANGED <<idOf, recurring, armed, fired, firings, made, called, mistaken>>

\* A timer fires once, a cron job again and again.
Fire(n) ==
  /\ n \in armed /\ fired[n] < MaxFirings
  /\ armed' = IF recurring[n] THEN armed ELSE armed \ {n}
  /\ fired' = [fired EXCEPT ![n] = @ + 1]
  /\ firings' = firings \cup {[of |-> n, at |-> "lookup"]}
  /\ UNCHANGED <<schedules, idOf, recurring, stopping, loaded, made, history>>

\* The goroutine g goes on to place p; the one of a cron job has nothing to clean up.
MoveTo(g, p) ==
  firings' = (firings \ {g}) \cup
    (IF recurring[g.of] /\ p = "cleanup" THEN {} ELSE {[of |-> g.of, at |-> p]})

\* invokeCallback(): looks the ID up, and the plugin; calls it if both are there.
LookUp(g) ==
  /\ g \in firings /\ g.at = "lookup"
  /\ LET m == schedules[idOf[g.of]] IN
     IF m # 0 /\ loaded
     THEN /\ MoveTo(g, "calling") /\ called' = called \cup {m}
          /\ mistaken' = IF m = g.of THEN mistaken ELSE mistaken \cup {m}
     ELSE MoveTo(g, "cleanup") /\ UNCHANGED <<called, mistaken>>
  /\ UNCHANGED <<schedules, triggers, loaded, made, dropped>>

\* The plugin returns; an error is logged.
CallReturns(g) ==
  /\ g \in firings /\ g.at = "calling" /\ MoveTo(g, "cleanup")
  /\ UNCHANGED <<schedules, triggers, loaded, made, history>>

\* Mutant: the entry stays after the schedule has fired.
CleanUpNot(g) ==
  /\ g \in firings /\ g.at = "cleanup" /\ firings' = firings \ {g}
  /\ UNCHANGED <<schedules, triggers, loaded, made, history>>

\* "Clean up the entry after firing": the entry of the ID.
CleanUp(g) ==
  /\ g \in firings /\ g.at = "cleanup" /\ firings' = firings \ {g}
  /\ LET i == idOf[g.of] IN
     /\ schedules' = [schedules EXCEPT ![i] = 0]
     /\ mistaken' = IF schedules[i] \in {0, g.of} THEN mistaken ELSE mistaken \cup {schedules[i]}
  /\ UNCHANGED <<triggers, loaded, made, called, dropped>>

-----------------------------------------------------------------------------
Run(n) == StopTrigger(n) \/ Fire(n)
Firing == \E g \in firings : LookUp(g) \/ CallReturns(g) \/ CleanUp(g)

Next ==
  \/ \E i \in IDs : CancelSchedule(i) \/ \E r \in BOOLEAN : MakeSchedule(i, r)
  \/ Close \/ (\E n \in Schedule : Run(n)) \/ Firing

Spec == Init /\ [][Next]_vars

\* Timers and jobs fire, and their goroutines run.
FairSpec == Spec /\ WF_vars(Firing) /\ \A n \in Schedule : WF_vars(Fire(n))

-----------------------------------------------------------------------------
\* Every variable keeps its type.
TypeOK ==
  /\ schedules \in [IDs -> 0..made] /\ idOf \in [Schedule -> IDs]
  /\ recurring \in [Schedule -> BOOLEAN]
  /\ {armed, stopping, called, dropped, mistaken} \subseteq SUBSET Schedule
  /\ firings \subseteq [of : Schedule, at : {"lookup", "calling", "cleanup"}]
  /\ loaded \in BOOLEAN /\ made \in 0..MaxSchedules /\ fired \in [Schedule -> 0..MaxFirings]

\* What an ID stands for and what can fire agree: a timer or job that is set can be
\* cancelled by its ID or is about to be stopped, and an ID in use has a timer, a job
\* or a firing under way, so that it is free again one day.  The exception is a
\* schedule that a firing of an earlier one of the same ID took for its own.
ScheduleIsKept ==
  /\ \A n \in armed \ (stopping \cup mistaken) : schedules[idOf[n]] = n
  /\ \A i \in IDs : schedules[i] # 0 => \/ schedules[i] \in armed \cup mistaken
                                       \/ \E g \in firings : g.of = schedules[i]

\* The plugin is called for every schedule that is not cancelled, nor taken over by
\* a firing of an earlier one, while the plugin is loaded.
ScheduleServed ==
  \A n \in Schedule : n \in armed ~> n \in called \cup dropped \cup mistaken \/ ~loaded
=============================================================================
