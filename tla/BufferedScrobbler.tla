-------------------------- MODULE BufferedScrobbler --------------------------
(***************************************************************************)
(* The retry queue of one external scrobbler that a plugin provides:       *)
(* core/scrobbler/buffered_scrobbler.go, the scrobble_buffer table and the *)
(* part of the play tracker that starts and stops the scrobbler's loop as  *)
(* the plugin comes and goes.  A builtin scrobbler is the case in which    *)
(* the plugin is always loaded.                                            *)
(*                                                                         *)
(* A loop is the goroutine of one bufferedScrobbler.  A stopped loop may   *)
(* still be sending when the next one starts.  Time is abstract: an armed  *)
(* timer fires at any moment.                                              *)
(***************************************************************************)
EXTENDS Naturals, FiniteSets, FiniteSetsExt

CONSTANTS
  Plays, Users,
  UserOf,         \* UserOf[p]: whose play it is
  PlayTime,       \* PlayTime[p]
  Earlier,        \* the plays that the table holds when the server starts
  BadUsers,       \* users whom the service asks to retry for ever
  Loops,          \* bound: loops that exist at the same time
  RetryIns,       \* the delays a RetryLaterError may carry
  MaxRetryDelay, MaxRetryShift,
  MaxFaults,      \* bound: unloads, errors, crashes and temporary retries
  NoPlay, NoLoop, NoUser

ASSUME ScrobblerAssumption ==
  /\ UserOf \in [Plays -> Users] /\ PlayTime \in [Plays -> Nat] /\ BadUsers \subseteq Users
  /\ Earlier \subseteq Plays
  /\ RetryIns \subseteq Nat /\ IsFiniteSet(RetryIns) /\ 0 \in RetryIns
  /\ MaxRetryDelay \in Nat \ {0} /\ MaxRetryShift \in Nat /\ MaxFaults \in Nat
  /\ \A f \in 0..MaxRetryShift : 2^f \in Nat \ {0}  \* arithmetic that the provers do not know
  /\ NoPlay \notin Plays /\ NoLoop \notin Loops /\ NoUser \notin Users

VARIABLES
  buffer,      \* the table: the set of buffered plays
  loaded,      \* the plugin is loaded: LoadScrobbler() finds it
  current,     \* pluginScrobblers[name]
  client,      \* how far dispatchScrobble() is with the play
  via,         \* the loop whose scrobbler the dispatch holds
  pc, stopped, \* of a loop: where it is, and whether its context is cancelled
  wake,        \* wakeSignal holds a signal
  todo, user, entry, result, retryIn, \* locals of processQueue() and processUserQueue()
  timer, fired, backingOff, failures, \* locals of run()
  answered,    \* history: how often the service gave the play a final answer
  excused,     \* history: plays that a loop lost while it held them
  dropped,     \* history: plays discarded with the plugin
  stranded,    \* history: plays whose wake signal went to a loop that was replaced
  asked,       \* history: the delays asked for in the current or last pass
  faults

tracker == <<loaded, current, client, via>>
pass == <<todo, user, entry, result, retryIn, asked>>
window == <<timer, fired, backingOff, failures>>
history == <<answered, excused, dropped, stranded>>
vars == <<buffer, tracker, pc, stopped, wake, pass, window, history, faults>>

\* The same local value in every loop.
All(v) == [l \in Loops |-> v]

Init ==
  /\ buffer = Earlier /\ loaded = TRUE /\ current = NoLoop
  /\ client = [p \in Plays |-> IF p \in Earlier THEN "done" ELSE "new"]
  /\ via = [p \in Plays |-> NoLoop]
  /\ pc = All("none") /\ stopped = All(FALSE) /\ wake = All(FALSE)
  /\ todo = All({}) /\ user = All(NoUser) /\ entry = All(NoPlay)
  /\ result = All(TRUE) /\ retryIn = All(0) /\ asked = All({})
  /\ timer = All(0) /\ fired = All(FALSE)
  /\ backingOff = All(FALSE) /\ failures = All(0)
  /\ answered = [p \in Plays |-> 0] /\ excused = {} /\ dropped = {} /\ stranded = {} /\ faults = 0

Fault == faults < MaxFaults /\ faults' = faults + 1

\* A database operation under the context of loop l fails.
DBFails(l) == IF stopped[l] THEN UNCHANGED faults ELSE Fault

DBWorks(l) == ~stopped[l] /\ UNCHANGED faults

-----------------------------------------------------------------------------
(* The play tracker. *)

\* Mutant: the scrobbler is replaced without being stopped.
StopForgotten(l) == UNCHANGED <<stopped, excused>>

\* Loop l lets go of its play without knowing whether it is still in the table.
Excuse(l) == excused' = excused \cup ({entry[l]} \cap Plays)

\* Stop().  The play that the loop holds may be sent again by the next loop.
Stop(l) ==
  stopped' = [stopped EXCEPT ![l] = TRUE] /\ Excuse(l)

\* A loop that nobody runs or holds.
Free(l) == pc[l] = "none" /\ \A p \in Plays : via[p] # l

\* newBufferedScrobblerWithLoader()
New(l) ==
  /\ Free(l) /\ l = CHOOSE x \in Loops : Free(x)
  /\ pc' = [pc EXCEPT ![l] = "top"] /\ UNCHANGED <<stopped, wake, pass, window>>

\* refreshPluginScrobblers(): the map follows the plugins that are loaded.
Refresh ==
  \/ /\ loaded <=> current # NoLoop
     /\ UNCHANGED <<current, pc, stopped, wake, pass, window, excused>>
  \/ /\ loaded /\ current = NoLoop
     /\ \E l \in Loops : New(l) /\ current' = l
     /\ UNCHANGED excused
  \/ /\ ~loaded /\ current # NoLoop /\ current' = NoLoop /\ Stop(current)
     /\ UNCHANGED <<pc, wake, pass, window>>

\* getActiveScrobblers() on behalf of some other report.
OtherReport ==
  /\ ~(loaded <=> current # NoLoop) /\ Refresh
  /\ UNCHANGED <<buffer, loaded, client, via, answered, dropped, stranded, faults>>

\* dispatchScrobble(): the scrobblers are taken from the map, and then used without
\* its lock.  Without a scrobbler, or a plugin that authorizes the user, the play is
\* not for this service.
Dispatch(p) ==
  /\ client[p] = "new" /\ Refresh
  /\ via' = [via EXCEPT ![p] = current']
  /\ client' = [client EXCEPT ![p] = IF current' = NoLoop THEN "skipped" ELSE "dispatched"]
  /\ UNCHANGED <<buffer, loaded, answered, dropped, stranded, faults>>

\* The rest of dispatchScrobble(): IsAuthorized() fails without the plugin, the row
\* cannot be written, or it is.
Scrobble(p) ==
  /\ client[p] = "dispatched"
  /\ \/ /\ buffer' = buffer \cup {p} /\ client' = [client EXCEPT ![p] = "buffered"]
        /\ UNCHANGED <<via, faults>>
     \/ /\ client' = [client EXCEPT ![p] = "skipped"] /\ via' = [via EXCEPT ![p] = NoLoop]
        /\ IF loaded THEN Fault ELSE UNCHANGED faults
        /\ UNCHANGED buffer
  /\ UNCHANGED <<loaded, current, pc, stopped, wake, pass, window, history>>

\* A signal is kept until the loop looks, and is of no use to a loop that is gone.
sendWakeSignal(p) ==
  /\ client[p] = "buffered" /\ client' = [client EXCEPT ![p] = "done"]
  /\ wake' = [wake EXCEPT ![via[p]] = pc[via[p]] # "none"] /\ via' = [via EXCEPT ![p] = NoLoop]
  /\ stranded' = IF via[p] = current THEN stranded ELSE stranded \cup {p}
  /\ UNCHANGED <<buffer, loaded, current, pc, stopped, pass, window,
                 answered, excused, dropped, faults>>

Load ==
  /\ ~loaded /\ loaded' = TRUE
  /\ UNCHANGED <<buffer, current, client, via, pc, stopped, wake, pass, window, history, faults>>

\* unloadPlugin(): it is disabled, or its file changed.
Unload ==
  /\ loaded /\ loaded' = FALSE /\ Fault
  /\ UNCHANGED <<buffer, current, client, via, pc, stopped, wake, pass, window, history>>

\* removePluginFromDB(): Discard() follows the unloading.
Discard ==
  /\ ~loaded /\ buffer # {}
  /\ buffer' = {} /\ dropped' = dropped \cup buffer
  /\ UNCHANGED <<tracker, pc, stopped, wake, pass, window, answered, excused, stranded, faults>>

-----------------------------------------------------------------------------
(* The loop: run(), processQueue() and processUserQueue(). *)

\* processQueue() begins: UserIDs().  The users are visited in some order (theirs is
\* by number of rows, when they are read).
PassStarts(l) ==
  /\ pc[l] = "top"
  /\ \/ DBWorks(l) /\ todo' = [todo EXCEPT ![l] = {UserOf[p] : p \in buffer}]
        /\ result' = [result EXCEPT ![l] = TRUE]
     \/ DBFails(l) /\ todo' = [todo EXCEPT ![l] = {}] /\ result' = [result EXCEPT ![l] = FALSE]
  /\ pc' = [pc EXCEPT ![l] = "users"]
  /\ UNCHANGED <<buffer, tracker, stopped, wake, user, entry, retryIn, asked, window, history>>

\* Mutant: processQueue() gives up at the first user that fails.
LeftBreak(l, u) == {}

\* The users left when the queue of user u failed.
Left(l, u) == todo[l] \ {u}

\* Mutant: the last user's delay is taken.
LongestLast(l, d) == d

Longest(l, d) == Max({retryIn[l], d})

\* processUserQueue() returns false and d.
UserFails(l, u, d) ==
  /\ pc' = [pc EXCEPT ![l] = "users"]
  /\ user' = [user EXCEPT ![l] = NoUser] /\ entry' = [entry EXCEPT ![l] = NoPlay]
  /\ todo' = [todo EXCEPT ![l] = Left(l, u)] /\ result' = [result EXCEPT ![l] = FALSE]
  /\ retryIn' = [retryIn EXCEPT ![l] = Longest(l, d)]

\* The plays Next() may return, by play time.
NextOf(u) ==
  {p \in buffer : UserOf[p] = u /\
     \A x \in buffer : UserOf[x] = u => PlayTime[p] <= PlayTime[x]}

\* Next() for the user whose queue is being drained: an entry, none (the user is
\* done) or an error.
Drain(l, u) ==
  /\ pc[l] = "users" /\ u \in todo[l] /\ user[l] \in {u, NoUser}
  /\ \/ /\ DBWorks(l) /\ \E p \in NextOf(u) : entry' = [entry EXCEPT ![l] = p]
        /\ pc' = [pc EXCEPT ![l] = "loader"] /\ user' = [user EXCEPT ![l] = u]
        /\ UNCHANGED <<todo, result, retryIn>>
     \/ /\ DBWorks(l) /\ NextOf(u) = {}
        /\ todo' = [todo EXCEPT ![l] = @ \ {u}] /\ user' = [user EXCEPT ![l] = NoUser]
        /\ UNCHANGED <<pc, entry, result, retryIn>>
     \/ DBFails(l) /\ UserFails(l, u, 0)
  /\ UNCHANGED <<buffer, tracker, stopped, wake, asked, window, history>>

\* loader(): the plugin, or not available.
Loader(l) ==
  /\ pc[l] = "loader"
  /\ IF loaded
     THEN pc' = [pc EXCEPT ![l] = "sending"] /\ UNCHANGED <<todo, user, entry, result, retryIn>>
     ELSE UserFails(l, user[l], 0)
  /\ UNCHANGED <<buffer, tracker, stopped, wake, asked, window, history, faults>>

\* The service answers: done or not accepted, and the entry is to be removed.
Answer(l) ==
  /\ pc[l] = "sending" /\ user[l] \notin BadUsers
  /\ pc' = [pc EXCEPT ![l] = "dequeue"]
  /\ answered' = [answered EXCEPT ![entry[l]] = @ + 1]
  /\ UNCHANGED <<buffer, tracker, stopped, wake, pass, window, excused, dropped, stranded, faults>>

\* Mutant: the entry is removed although it is to be retried.
KeptDropped(p) == buffer \ {p}

\* What a RetryLaterError leaves of the buffer.
Kept(p) == buffer

\* The service answers with a RetryLaterError.
RetryLater(l) ==
  /\ pc[l] = "sending"
  /\ IF user[l] \in BadUsers THEN UNCHANGED faults ELSE Fault
  /\ \E d \in RetryIns :
       UserFails(l, user[l], d) /\ asked' = [asked EXCEPT ![l] = @ \cup {d}]
  /\ buffer' = Kept(entry[l])
  /\ UNCHANGED <<tracker, stopped, wake, window, history>>

\* Dequeue(): the row is deleted and the user's next one read, or the deletion fails.
Dequeue(l) ==
  /\ pc[l] = "dequeue"
  /\ \/ /\ DBWorks(l) /\ buffer' = buffer \ {entry[l]} /\ entry' = [entry EXCEPT ![l] = NoPlay]
        /\ pc' = [pc EXCEPT ![l] = "users"]
        /\ UNCHANGED <<todo, user, result, retryIn, excused>>
     \/ /\ DBFails(l) /\ UserFails(l, user[l], 0)
        /\ Excuse(l) /\ UNCHANGED buffer
  /\ UNCHANGED <<tracker, stopped, wake, asked, window, answered, dropped, stranded>>

backoffDelay(f) == IF f >= MaxRetryShift THEN MaxRetryDelay ELSE Min({2^f, MaxRetryDelay})

Counted(f) == IF f < MaxRetryShift THEN f + 1 ELSE f

\* processQueue() returns, and run() waits.
PassEnds(l) ==
  /\ pc[l] = "users" /\ todo[l] = {} /\ pc' = [pc EXCEPT ![l] = "select"]
  /\ fired' = [fired EXCEPT ![l] = FALSE]
  /\ result' = [result EXCEPT ![l] = TRUE] /\ retryIn' = [retryIn EXCEPT ![l] = 0]
  /\ IF result[l]
     THEN /\ failures' = [failures EXCEPT ![l] = 0] /\ timer' = [timer EXCEPT ![l] = 0]
          /\ UNCHANGED backingOff
     ELSE /\ timer' = [timer EXCEPT ![l] = Max({backoffDelay(failures[l]), retryIn[l]})]
          /\ backingOff' = [backingOff EXCEPT ![l] = TRUE]
          /\ failures' = [failures EXCEPT ![l] = Counted(@)]
  /\ UNCHANGED <<buffer, tracker, stopped, wake, todo, user, entry, asked, history, faults>>

\* Where a wake takes the loop.
Awake(l) == IF backingOff[l] THEN "select" ELSE "top"

Woken(l) ==
  /\ pc[l] = "select" /\ wake[l]
  /\ wake' = [wake EXCEPT ![l] = FALSE] /\ pc' = [pc EXCEPT ![l] = Awake(l)]
  /\ UNCHANGED <<buffer, tracker, stopped, pass, window, history, faults>>

TimerFires(l) ==
  /\ timer[l] > 0 /\ timer' = [timer EXCEPT ![l] = 0] /\ fired' = [fired EXCEPT ![l] = TRUE]
  /\ asked' = [asked EXCEPT ![l] = {}]
  /\ UNCHANGED <<buffer, tracker, pc, stopped, wake, todo, user, entry, result, retryIn,
                 backingOff, failures, history, faults>>

WindowEnds(l) ==
  /\ pc[l] = "select" /\ fired[l] /\ fired' = [fired EXCEPT ![l] = FALSE]
  /\ backingOff' = [backingOff EXCEPT ![l] = FALSE] /\ pc' = [pc EXCEPT ![l] = "top"]
  /\ UNCHANGED <<buffer, tracker, stopped, wake, pass, timer, failures, history, faults>>

\* ctx.Done()
LoopEnds(l) ==
  /\ pc[l] = "select" /\ stopped[l] /\ pc' = [pc EXCEPT ![l] = "none"]
  /\ stopped' = [stopped EXCEPT ![l] = FALSE] /\ wake' = [wake EXCEPT ![l] = FALSE]
  /\ timer' = [timer EXCEPT ![l] = 0] /\ fired' = [fired EXCEPT ![l] = FALSE]
  /\ backingOff' = [backingOff EXCEPT ![l] = FALSE] /\ failures' = [failures EXCEPT ![l] = 0]
  /\ asked' = [asked EXCEPT ![l] = {}]
  /\ UNCHANGED <<buffer, tracker, todo, user, entry, result, retryIn, history, faults>>

\* The server stops and starts again: what was not in the table is gone.
Crash ==
  /\ Fault /\ current # NoLoop /\ current' = NoLoop
  /\ pc' = All("none") /\ stopped' = All(FALSE) /\ wake' = All(FALSE)
  /\ todo' = All({}) /\ user' = All(NoUser) /\ entry' = All(NoPlay)
  /\ result' = All(TRUE) /\ retryIn' = All(0) /\ asked' = All({})
  /\ timer' = All(0) /\ fired' = All(FALSE)
  /\ backingOff' = All(FALSE) /\ failures' = All(0)
  /\ client' = [p \in Plays |-> CASE client[p] = "dispatched" -> "skipped"
                                  [] client[p] = "buffered" -> "done"
                                  [] OTHER -> client[p]]
  /\ via' = [p \in Plays |-> NoLoop] /\ Excuse(current)
  /\ UNCHANGED <<buffer, loaded, answered, dropped, stranded>>

Step(l) ==
  \/ PassStarts(l) \/ (\E u \in Users : Drain(l, u)) \/ Loader(l) \/ Answer(l) \/ RetryLater(l)
  \/ Dequeue(l) \/ PassEnds(l) \/ Woken(l) \/ WindowEnds(l) \/ LoopEnds(l)

Next ==
  \/ OtherReport \/ Load \/ Unload \/ Discard \/ Crash
  \/ \E p \in Plays : Dispatch(p) \/ Scrobble(p) \/ sendWakeSignal(p)
  \/ \E l \in Loops : Step(l) \/ TimerFires(l)

Spec == Init /\ [][Next]_vars

\* The loops go on, timers fire, an interrupted dispatch does not stay so, the plugin
\* is loaded again and some client reports to the tracker.  Go's select takes each
\* ready case in the end.
FairSpec ==
  /\ Spec /\ WF_vars(Load) /\ WF_vars(OtherReport)
  /\ \A p \in Plays : WF_vars(Scrobble(p)) /\ WF_vars(sendWakeSignal(p))
  /\ \A l \in Loops : WF_vars(Step(l)) /\ WF_vars(TimerFires(l)) /\ SF_vars(LoopEnds(l))

-----------------------------------------------------------------------------
\* The types of the variables.
TypeOK ==
  /\ buffer \subseteq Plays /\ loaded \in BOOLEAN /\ current \in Loops \cup {NoLoop}
  /\ client \in [Plays -> {"new", "dispatched", "buffered", "done", "skipped"}]
  /\ via \in [Plays -> Loops \cup {NoLoop}]
  /\ pc \in [Loops -> {"none", "top", "users", "loader", "sending", "dequeue", "select"}]
  /\ stopped \in [Loops -> BOOLEAN] /\ wake \in [Loops -> BOOLEAN]
  /\ todo \in [Loops -> SUBSET Users] /\ user \in [Loops -> Users \cup {NoUser}]
  /\ entry \in [Loops -> Plays \cup {NoPlay}] /\ result \in [Loops -> BOOLEAN]
  /\ retryIn \in [Loops -> RetryIns] /\ asked \in [Loops -> SUBSET RetryIns]
  /\ DOMAIN timer = Loops /\ fired \in [Loops -> BOOLEAN]
  /\ backingOff \in [Loops -> BOOLEAN] /\ failures \in [Loops -> 0..MaxRetryShift]
  /\ answered \in [Plays -> Nat] /\ excused \subseteq Plays
  /\ dropped \subseteq Plays /\ stranded \subseteq Plays /\ faults \in 0..MaxFaults

\* A play that Scrobble() accepted is in the table until the service has given it a
\* final answer or the plugin is removed, whatever stops, crashes and database
\* errors interrupt the loop.
NothingLost ==
  \A p \in Plays :
    client[p] \in {"buffered", "done"} => p \in buffer \/ answered[p] > 0 \/ p \in dropped

\* The service answers a play twice only if a loop lost it: it was stopped or
\* crashed while it held the play, or could not delete the row.
DuplicatesExcused == \A p \in Plays : answered[p] > 1 => p \in excused

\* While the timer of a backoff window runs nothing is sent, however many plays
\* arrive: "that is the hammering this avoids".
NoHammering == \A l \in Loops : timer[l] > 0 => pc[l] = "select"

\* The window is no shorter than the longest delay any user's service asked for in
\* the pass, and no longer than that or the longest backoff.
WaitHonoured ==
  \A l \in Loops : timer[l] \in Nat /\ (timer[l] > 0 =>
    /\ \A d \in asked[l] : timer[l] >= d
    /\ timer[l] <= MaxRetryDelay \/ timer[l] \in asked[l])

\* Every buffered play leaves the table in the end, even if the service of another
\* user fails for ever, except one whose wake signal went to a replaced loop.
EveryPlayAnswered ==
  \A p \in Plays :
    p \in buffer /\ UserOf[p] \notin BadUsers ~> p \notin buffer \/ p \in stranded
=============================================================================
