----------------------- MODULE BufferedScrobblerProofs -----------------------
(***************************************************************************)
(* Proofs about BufferedScrobbler, for any plays, users, loops and number  *)
(* of faults.                                                              *)
(***************************************************************************)
EXTENDS BufferedScrobbler, TLAPS

Points == {"none", "top", "users", "loader", "sending", "dequeue", "select"}
Holding == {"loader", "sending", "dequeue"}

Types ==
  /\ buffer \subseteq Plays /\ current \in Loops \cup {NoLoop} /\ pc \in [Loops -> Points]
  /\ entry \in [Loops -> Plays \cup {NoPlay}] /\ answered \in [Plays -> Nat]
  /\ client \in [Plays -> {"new", "dispatched", "buffered", "done", "skipped"}]

Flags == stopped \in [Loops -> BOOLEAN]

\* A loop that is not stopped is the one in the tracker's map.
OneLive == \A l \in Loops : pc[l] # "none" /\ ~stopped[l] => l = current

EntryHeld == \A l \in Loops : entry[l] \in Plays <=> pc[l] \in Holding

\* A loop deletes only what the service answered.
Answered == \A l \in Loops : pc[l] = "dequeue" => answered[entry[l]] > 0

\* A play no loop has lost is held by the live loop only, and was answered before
\* only if it is about to be deleted.
NotLost(p) ==
  p \notin excused =>
    /\ answered[p] \in {0, 1}
    /\ answered[p] = 1 /\ p \in buffer =>
         \E l \in Loops : pc[l] = "dequeue" /\ entry[l] = p /\ ~stopped[l]
    /\ \A l \in Loops : entry[l] = p => ~stopped[l] /\ (pc[l] # "dequeue" => answered[p] = 0)

\* What is not buffered yet is nowhere.
Unseen ==
  \A p \in Plays : client[p] \in {"new", "dispatched"} =>
    p \notin buffer /\ answered[p] = 0 /\ \A l \in Loops : entry[l] # p

IInv ==
  /\ Types /\ Flags /\ OneLive /\ EntryHeld /\ Answered /\ Unseen /\ NothingLost
  /\ \A p \in Plays : NotLost(p)

LEMMA InitIInv == Init => IInv
BY ScrobblerAssumption
DEF Init, All, IInv, Types, Flags, Points, Holding, OneLive, EntryHeld, Answered, Unseen, NothingLost, NotLost

\* Every step keeps the invariant.
LEMMA IInvStep == IInv /\ [Next]_vars => IInv'
<1> USE ScrobblerAssumption DEF Points, Holding
<1> SUFFICES ASSUME IInv, [Next]_vars PROVE IInv'
  BY Zenon
<1> DEFINE rest == <<buffer, current, client, stopped, entry, answered, excused, dropped>>
<1>t. Types /\ Flags
  BY Zenon DEF IInv
<1>1. ASSUME UNCHANGED rest, UNCHANGED pc PROVE IInv'
  BY Zenon, <1>1 DEF IInv, Types, Flags, OneLive, EntryHeld, Answered, Unseen, NothingLost, NotLost
<1>2. ASSUME NEW l \in Loops, NEW x \in {"top", "users", "select"},
             pc[l] \in {"top", "users", "select"}, pc' = [pc EXCEPT ![l] = x], UNCHANGED rest
      PROVE  IInv'
  <2>1. Types' /\ Flags'
    BY Zenon, <1>2, <1>t DEF Types, Flags
  <2>2. OneLive' /\ EntryHeld' /\ Answered' /\ Unseen' /\ NothingLost'
    BY Zenon, <1>2, <1>t DEF IInv, Types, OneLive, EntryHeld, Answered, Unseen, NothingLost
  <2>3. \A p \in Plays : NotLost(p)'
    BY <1>2, <1>t DEF IInv, Types, NotLost
  <2> QED BY Zenon, <2>1, <2>2, <2>3 DEF IInv
<1>3. ASSUME NEW l \in Loops, pc[l] \in {"users", "loader", "sending"},
             pc' = [pc EXCEPT ![l] = "users"], entry' = [entry EXCEPT ![l] = NoPlay],
             UNCHANGED <<buffer, current, client, stopped, answered, excused, dropped>>
      PROVE  IInv'
  <2>1. Types' /\ Flags'
    BY Zenon, <1>3, <1>t DEF Types, Flags
  <2>2. OneLive' /\ EntryHeld' /\ Answered' /\ Unseen' /\ NothingLost'
    BY <1>3, <1>t DEF IInv, Types, OneLive, EntryHeld, Answered, Unseen, NothingLost
  <2>3. \A p \in Plays : NotLost(p)'
    BY <1>3, <1>t DEF IInv, Types, NotLost
  <2> QED BY Zenon, <2>1, <2>2, <2>3 DEF IInv
<1>4. ASSUME NEW l \in Loops, PassStarts(l) \/ PassEnds(l) \/ Woken(l) \/ WindowEnds(l) PROVE IInv'
  <2>1. /\ UNCHANGED rest /\ pc[l] \in {"top", "users", "select"}
        /\ \E x \in {"top", "users", "select"} : pc' = [pc EXCEPT ![l] = x]
    BY Zenon, <1>4 DEF PassStarts, PassEnds, Woken, WindowEnds, Awake, tracker, pass, history
  <2> QED BY Zenon, <1>2, <2>1
<1>5. ASSUME NEW l \in Loops, NEW u \in Users, Drain(l, u) PROVE IInv'
  <2>0. pc[l] = "users" /\ UNCHANGED <<buffer, current, client, stopped, answered, excused, dropped>>
    BY Zenon, <1>5 DEF Drain, tracker, history
  <2>1. CASE DBWorks(l) /\ \E p \in NextOf(u) : /\ entry' = [entry EXCEPT ![l] = p]
                                               /\ pc' = [pc EXCEPT ![l] = "loader"]
    <3>1. PICK p \in buffer : /\ entry' = [entry EXCEPT ![l] = p]
                              /\ pc' = [pc EXCEPT ![l] = "loader"]
      BY Zenon, <2>1 DEF NextOf
    <3>2. ~stopped[l] /\ p \in Plays /\ l = current
      BY Zenon, <2>0, <2>1, <1>t DEF DBWorks, IInv, OneLive, Types
    <3>3. p \notin excused => answered[p] = 0
      <4>1. \A k \in Loops : pc[k] = "dequeue" /\ ~stopped[k] => k = l
        BY Zenon, <3>2 DEF IInv, OneLive
      <4> QED BY Zenon, <2>0, <3>2, <4>1 DEF IInv, NotLost
    <3>4. Types' /\ Flags'
      BY Zenon, <2>0, <3>1, <3>2, <1>t DEF Types, Flags
    <3>5. OneLive' /\ EntryHeld' /\ Answered'
      BY Zenon, <2>0, <3>1, <3>2, <1>t DEF IInv, Types, OneLive, EntryHeld, Answered
    <3>6. Unseen' /\ NothingLost'
      BY Zenon, <2>0, <3>1, <3>2, <1>t DEF IInv, Types, Unseen, NothingLost
    <3>7. \A q \in Plays : NotLost(q)'
      BY <2>0, <3>1, <3>2, <3>3, <1>t DEF IInv, Types, NotLost
    <3> QED BY Zenon, <3>4, <3>5, <3>6, <3>7 DEF IInv
  <2>2. CASE pc' = [pc EXCEPT ![l] = "users"] /\ entry' = [entry EXCEPT ![l] = NoPlay]
    BY Zenon, <1>3, <2>0, <2>2
  <2>3. CASE UNCHANGED <<pc, entry>>
    BY Zenon, <1>1, <2>0, <2>3
  <2> QED BY Zenon, <1>5, <2>1, <2>2, <2>3 DEF Drain, UserFails
<1>6. ASSUME NEW l \in Loops, Loader(l) PROVE IInv'
  <2>0. pc[l] = "loader" /\ UNCHANGED <<buffer, current, client, stopped, answered, excused, dropped>>
    BY Zenon, <1>6 DEF Loader, tracker, history
  <2>1. CASE pc' = [pc EXCEPT ![l] = "sending"] /\ UNCHANGED entry
    <3>1. Types' /\ Flags'
      BY Zenon, <2>0, <2>1, <1>t DEF Types, Flags
    <3>2. OneLive' /\ EntryHeld' /\ Answered' /\ Unseen' /\ NothingLost'
      BY Zenon, <2>0, <2>1, <1>t DEF IInv, Types, OneLive, EntryHeld, Answered, Unseen, NothingLost
    <3>3. \A p \in Plays : NotLost(p)'
      BY <2>0, <2>1, <1>t DEF IInv, Types, NotLost
    <3> QED BY Zenon, <3>1, <3>2, <3>3 DEF IInv
  <2>2. CASE pc' = [pc EXCEPT ![l] = "users"] /\ entry' = [entry EXCEPT ![l] = NoPlay]
    BY Zenon, <1>3, <2>0, <2>2
  <2> QED BY Zenon, <1>6, <2>1, <2>2 DEF Loader, UserFails
<1>7. ASSUME NEW l \in Loops, Answer(l) PROVE IInv'
  <2>0. /\ pc[l] = "sending" /\ pc' = [pc EXCEPT ![l] = "dequeue"]
        /\ answered' = [answered EXCEPT ![entry[l]] = @ + 1]
        /\ UNCHANGED <<buffer, current, client, stopped, entry, excused, dropped>>
    BY Zenon, <1>7 DEF Answer, tracker, pass
  <2>1. entry[l] \in Plays
    BY Zenon, <2>0 DEF IInv, EntryHeld
  <2>2. Types' /\ Flags'
    BY <2>0, <2>1, <1>t DEF Types, Flags
  <2>3. OneLive' /\ EntryHeld' /\ Answered'
    BY <2>0, <2>1, <1>t DEF IInv, Types, OneLive, EntryHeld, Answered
  <2>4. Unseen' /\ NothingLost'
    BY <2>0, <2>1, <1>t DEF IInv, Types, Unseen, NothingLost
  <2>5. ASSUME NEW p \in Plays PROVE NotLost(p)'
    <3>1. CASE p # entry[l]
      BY <2>0, <2>1, <3>1, <1>t DEF IInv, Types, NotLost
    <3>2. CASE p = entry[l] /\ p \notin excused
      <4>1. ~stopped[l] /\ answered[p] = 0
        BY Zenon, <2>0, <3>2 DEF IInv, NotLost
      <4>2. \A k \in Loops : entry[k] = p => k = l
        BY <3>2, <4>1, <2>0 DEF IInv, NotLost, OneLive, EntryHeld
      <4> QED BY <2>0, <3>2, <4>1, <4>2, <1>t DEF Types, NotLost
    <3> QED BY Zenon, <3>1, <3>2, <2>0 DEF NotLost
  <2> QED BY Zenon, <2>2, <2>3, <2>4, <2>5 DEF IInv
<1>8. ASSUME NEW l \in Loops, RetryLater(l) PROVE IInv'
  BY Zenon, <1>3, <1>8 DEF RetryLater, UserFails, Kept, tracker, history
<1>9. ASSUME NEW l \in Loops, Dequeue(l) PROVE IInv'
  <2>0. /\ pc[l] = "dequeue" /\ pc' = [pc EXCEPT ![l] = "users"]
        /\ entry' = [entry EXCEPT ![l] = NoPlay]
        /\ UNCHANGED <<current, client, stopped, answered, dropped>>
        /\ \/ buffer' = buffer \ {entry[l]} /\ excused' = excused
           \/ buffer' = buffer /\ excused' = excused \cup ({entry[l]} \cap Plays)
    BY Zenon, <1>9 DEF Dequeue, UserFails, Excuse, tracker
  <2>1. entry[l] \in Plays /\ answered[entry[l]] > 0
    BY Zenon, <2>0 DEF IInv, EntryHeld, Answered
  <2>2. Types' /\ Flags'
    BY Zenon, <2>0, <1>t DEF Types, Flags
  <2>3. OneLive' /\ EntryHeld' /\ Answered' /\ Unseen' /\ NothingLost'
    BY <2>0, <2>1, <1>t DEF IInv, Types, OneLive, EntryHeld, Answered, Unseen, NothingLost
  <2>4. \A p \in Plays : NotLost(p)'
    BY <2>0, <2>1, <1>t DEF IInv, Types, NotLost
  <2> QED BY Zenon, <2>2, <2>3, <2>4 DEF IInv
<1>10. ASSUME NEW l \in Loops, LoopEnds(l) PROVE IInv'
  <2>0. /\ pc[l] = "select" /\ pc' = [pc EXCEPT ![l] = "none"]
        /\ stopped' = [stopped EXCEPT ![l] = FALSE]
        /\ UNCHANGED <<buffer, current, client, entry, answered, excused, dropped>>
    BY Zenon, <1>10 DEF LoopEnds, tracker, history
  <2>1. entry[l] \notin Plays
    BY Zenon, <2>0 DEF IInv, EntryHeld
  <2>2. Types' /\ Flags'
    BY Zenon, <2>0, <1>t DEF Types, Flags
  <2>3. OneLive' /\ EntryHeld' /\ Answered' /\ Unseen' /\ NothingLost'
    BY Zenon, <2>0, <1>t DEF IInv, Types, Flags, OneLive, EntryHeld, Answered, Unseen, NothingLost
  <2>4. \A p \in Plays : NotLost(p)'
    BY <2>0, <2>1, <1>t DEF IInv, Types, Flags, NotLost
  <2> QED BY Zenon, <2>2, <2>3, <2>4 DEF IInv
<1>11. ASSUME Crash PROVE IInv'
  <2>0. /\ current' = NoLoop /\ pc' = All("none") /\ entry' = All(NoPlay) /\ stopped' = All(FALSE)
        /\ excused' = excused \cup ({entry[current]} \cap Plays)
        /\ UNCHANGED <<buffer, answered, dropped>>
        /\ client' \in [Plays -> {"new", "done", "skipped"}]
        /\ \A p \in Plays : /\ client'[p] = "new" => client[p] = "new"
                            /\ client'[p] = "done" => client[p] \in {"buffered", "done"}
    BY Zenon, <1>11, <1>t DEF Crash, Excuse, Types
  <2>2. Types' /\ Flags'
    BY Zenon, <2>0, <1>t DEF Types, Flags, All
  <2>3. OneLive' /\ EntryHeld' /\ Answered' /\ Unseen' /\ NothingLost'
    BY <2>0, <1>t DEF IInv, OneLive, EntryHeld, Answered, Unseen, NothingLost, All
  <2>4. ASSUME NEW p \in Plays PROVE NotLost(p)'
    <3>1. p \in buffer /\ answered[p] = 1 /\ p \notin excused => p = entry[current]
      BY Zenon DEF IInv, NotLost, OneLive
    <3> QED BY Zenon, <2>0, <3>1, <1>t DEF IInv, Types, NotLost, All
  <2> QED BY Zenon, <2>2, <2>3, <2>4 DEF IInv
<1>12. ASSUME Refresh, UNCHANGED <<buffer, answered, dropped>>,
              client' \in [Plays -> {"new", "dispatched", "buffered", "done", "skipped"}],
              \A p \in Plays : client'[p] # client[p] =>
                client[p] = "new" /\ client'[p] \in {"dispatched", "skipped"}
       PROVE  IInv'
  <2>1. CASE UNCHANGED <<current, pc, stopped, entry, excused>>
    <3>2. Types' /\ Flags'
      BY Zenon, <1>12, <2>1, <1>t DEF Types, Flags
    <3>3. OneLive' /\ EntryHeld' /\ Answered' /\ Unseen' /\ NothingLost'
      BY Zenon, <1>12, <2>1, <1>t DEF IInv, OneLive, EntryHeld, Answered, Unseen, NothingLost
    <3>4. \A p \in Plays : NotLost(p)'
      BY <1>12, <2>1, <1>t DEF IInv, NotLost
    <3> QED BY Zenon, <3>2, <3>3, <3>4 DEF IInv
  <2>2. CASE \E l \in Loops : /\ current = NoLoop /\ current' = l /\ pc[l] = "none"
                              /\ pc' = [pc EXCEPT ![l] = "top"]
                              /\ UNCHANGED <<stopped, entry, excused>>
    <3>1. PICK l \in Loops : /\ current = NoLoop /\ current' = l /\ pc[l] = "none"
                             /\ pc' = [pc EXCEPT ![l] = "top"]
                             /\ UNCHANGED <<stopped, entry, excused>>
      BY Zenon, <2>2
    <3>2. Types' /\ Flags'
      BY Zenon, <1>12, <3>1, <1>t DEF Types, Flags
    <3>3. OneLive' /\ EntryHeld' /\ Answered' /\ Unseen' /\ NothingLost'
      BY <1>12, <3>1, <1>t DEF IInv, Types, OneLive, EntryHeld, Answered, Unseen, NothingLost
    <3>4. \A p \in Plays : NotLost(p)'
      BY <1>12, <3>1, <1>t DEF IInv, Types, NotLost
    <3> QED BY Zenon, <3>2, <3>3, <3>4 DEF IInv
  <2>3. CASE /\ current \in Loops /\ current' = NoLoop
             /\ stopped' = [stopped EXCEPT ![current] = TRUE]
             /\ excused' = excused \cup ({entry[current]} \cap Plays) /\ UNCHANGED <<pc, entry>>
    <3>2. Types' /\ Flags'
      BY Zenon, <1>12, <2>3, <1>t DEF Types, Flags
    <3>3. OneLive' /\ EntryHeld' /\ Answered' /\ Unseen' /\ NothingLost'
      BY <1>12, <2>3, <1>t DEF IInv, Types, Flags, OneLive, EntryHeld, Answered, Unseen, NothingLost
    <3>4. \A p \in Plays : NotLost(p)'
      BY <1>12, <2>3, <1>t DEF IInv, Types, Flags, NotLost
    <3> QED BY Zenon, <3>2, <3>3, <3>4 DEF IInv
  <2> QED BY Zenon, <1>12, <1>t, <2>1, <2>2, <2>3 DEF Refresh, New, Free, Stop, Excuse, Types, pass
<1>13. ASSUME OtherReport PROVE IInv'
  BY Zenon, <1>12, <1>13, <1>t DEF OtherReport, Types
<1>14. ASSUME NEW p \in Plays, Dispatch(p) PROVE IInv'
  BY Zenon, <1>12, <1>14, <1>t DEF Dispatch, Types
<1>15. ASSUME NEW p \in Plays, Scrobble(p) PROVE IInv'
  <2>0. /\ client[p] = "dispatched"
        /\ UNCHANGED <<current, pc, stopped, entry, answered, excused, dropped>>
        /\ \/ buffer' = buffer \cup {p} /\ client' = [client EXCEPT ![p] = "buffered"]
           \/ buffer' = buffer /\ client' = [client EXCEPT ![p] = "skipped"]
    BY Zenon, <1>15 DEF Scrobble, pass, history
  <2>1. answered[p] = 0
    BY Zenon, <2>0 DEF IInv, Unseen
  <2>2. Types' /\ Flags'
    BY Zenon, <2>0, <1>t DEF Types, Flags
  <2>3. OneLive' /\ EntryHeld' /\ Answered' /\ Unseen' /\ NothingLost'
    BY <2>0, <1>t DEF IInv, Types, OneLive, EntryHeld, Answered, Unseen, NothingLost
  <2>4. \A q \in Plays : NotLost(q)'
    BY <2>0, <2>1, <1>t DEF IInv, NotLost
  <2> QED BY Zenon, <2>2, <2>3, <2>4 DEF IInv
<1>16. ASSUME NEW p \in Plays, sendWakeSignal(p) PROVE IInv'
  <2>0. /\ client[p] = "buffered" /\ client' = [client EXCEPT ![p] = "done"]
        /\ UNCHANGED <<buffer, current, pc, stopped, entry, answered, excused, dropped>>
    BY Zenon, <1>16 DEF sendWakeSignal, pass
  <2>2. Types' /\ Flags'
    BY Zenon, <2>0, <1>t DEF Types, Flags
  <2>3. OneLive' /\ EntryHeld' /\ Answered' /\ Unseen' /\ NothingLost'
    BY <2>0, <1>t DEF IInv, Types, OneLive, EntryHeld, Answered, Unseen, NothingLost
  <2>4. \A q \in Plays : NotLost(q)'
    BY <2>0 DEF IInv, NotLost
  <2> QED BY Zenon, <2>2, <2>3, <2>4 DEF IInv
<1>17. ASSUME Discard PROVE IInv'
  <2>0. /\ buffer' = {} /\ dropped' = dropped \cup buffer
        /\ UNCHANGED <<current, client, pc, stopped, entry, answered, excused>>
    BY Zenon, <1>17 DEF Discard, tracker, pass
  <2> QED BY Zenon, <2>0
    DEF IInv, Types, Flags, OneLive, EntryHeld, Answered, Unseen, NothingLost, NotLost
<1>18. ASSUME Load \/ Unload \/ (\E l \in Loops : TimerFires(l)) \/ UNCHANGED vars PROVE IInv'
  BY Zenon, <1>1, <1>18 DEF Load, Unload, TimerFires, vars, tracker, pass, history
<1> QED BY Zenon, <1>4, <1>5, <1>6, <1>7, <1>8, <1>9, <1>10, <1>11, <1>13, <1>14, <1>15, <1>16, <1>17, <1>18
        DEF Next, Step

\* No play that was accepted is lost before the service answered it or the plugin
\* was removed.
THEOREM AcceptedKept == Spec => []NothingLost
<1>1. IInv => NothingLost
  BY Zenon DEF IInv
<1> QED BY <1>1, InitIInv, IInvStep, PTL DEF Spec

\* The service answers twice only what a loop lost while it held it: two loops never
\* work for the same service at the same time.
THEOREM AnsweredOnce == Spec => []DuplicatesExcused
<1>1. IInv => DuplicatesExcused
  BY DEF IInv, NotLost, DuplicatesExcused
<1> QED BY <1>1, InitIInv, IInvStep, PTL DEF Spec

-----------------------------------------------------------------------------
(* The backoff window. *)

\* An armed timer has not fired, and the loop knows that it waits for it.
WInv ==
  /\ pc \in [Loops -> Points] /\ DOMAIN timer = Loops
  /\ fired \in [Loops -> BOOLEAN] /\ backingOff \in [Loops -> BOOLEAN]
  /\ \A l \in Loops : timer[l] > 0 => pc[l] = "select" /\ backingOff[l] /\ ~fired[l]

LEMMA InitWInv == Init => WInv
BY DEF Init, All, WInv, Points

\* Every step keeps it.
LEMMA WInvStep == WInv /\ [Next]_vars => WInv'
<1> USE DEF Points
<1> SUFFICES ASSUME WInv, [Next]_vars PROVE WInv'
  BY Zenon
<1>1. ASSUME UNCHANGED <<pc, window>> PROVE WInv'
  BY Zenon, <1>1 DEF WInv, window
<1>2. ASSUME NEW l \in Loops, NEW x \in Points, pc[l] # "select", pc' = [pc EXCEPT ![l] = x],
             UNCHANGED window
      PROVE  WInv'
  BY Zenon, <1>2 DEF WInv, window
<1>3. ASSUME NEW l \in Loops, \/ PassStarts(l) \/ (\E u \in Users : Drain(l, u)) \/ Loader(l)
                              \/ Answer(l) \/ RetryLater(l) \/ Dequeue(l)
      PROVE  WInv'
  <2>1. /\ UNCHANGED window /\ pc[l] # "select"
        /\ pc' = pc \/ \E x \in Points : pc' = [pc EXCEPT ![l] = x]
    BY Zenon, <1>3 DEF PassStarts, Drain, Loader, Answer, RetryLater, Dequeue, UserFails, WInv
  <2> QED BY Zenon, <1>1, <1>2, <2>1
<1>4. ASSUME NEW l \in Loops, PassEnds(l) PROVE WInv'
  <2>1. CASE result[l]
    BY <1>4, <2>1 DEF PassEnds, WInv
  <2>2. CASE ~result[l]
    BY Zenon, <1>4, <2>2 DEF PassEnds, WInv
  <2> QED BY Zenon, <2>1, <2>2
<1>5. ASSUME NEW l \in Loops, Woken(l) PROVE WInv'
  <2>1. CASE backingOff[l]
    BY Zenon, <1>5, <2>1 DEF Woken, Awake, WInv, window
  <2>2. CASE ~backingOff[l]
    BY Zenon, <1>5, <2>2 DEF Woken, Awake, WInv, window
  <2> QED BY Zenon, <2>1, <2>2
<1>6. ASSUME NEW l \in Loops, TimerFires(l) PROVE WInv'
  BY <1>6 DEF TimerFires, WInv
<1>7. ASSUME NEW l \in Loops, WindowEnds(l) PROVE WInv'
  BY Zenon, <1>7 DEF WindowEnds, WInv
<1>8. ASSUME NEW l \in Loops, LoopEnds(l) PROVE WInv'
  BY <1>8 DEF LoopEnds, WInv
<1>9. ASSUME Crash PROVE WInv'
  BY <1>9 DEF Crash, All, WInv
<1>10. ASSUME Refresh PROVE WInv'
  <2>1. UNCHANGED window
    BY Zenon, <1>10 DEF Refresh, New
  <2>2. pc' = pc \/ \E l \in Loops : pc[l] = "none" /\ pc' = [pc EXCEPT ![l] = "top"]
    BY Zenon, <1>10 DEF Refresh, New, Free
  <2> QED BY Zenon, <1>1, <1>2, <2>1, <2>2
<1>11. ASSUME \/ Load \/ Unload \/ Discard \/ UNCHANGED vars
              \/ \E p \in Plays : Scrobble(p) \/ sendWakeSignal(p)
       PROVE  WInv'
  BY Zenon, <1>1, <1>11 DEF Load, Unload, Discard, Scrobble, sendWakeSignal, vars
<1> QED BY Zenon, <1>3, <1>4, <1>5, <1>6, <1>7, <1>8, <1>9, <1>10, <1>11
        DEF Next, Step, OtherReport, Dispatch

\* No wake, fault or restart makes a loop send while its backoff timer runs.
THEOREM WindowKept == Spec => []NoHammering
<1>1. WInv => NoHammering
  BY Zenon DEF WInv, NoHammering
<1> QED BY <1>1, InitWInv, WInvStep, PTL DEF Spec

-----------------------------------------------------------------------------
\* What the type invariant says beyond IInv and WInv: the locals of a pass ...
PassTypes ==
  /\ todo \in [Loops -> SUBSET Users] /\ user \in [Loops -> Users \cup {NoUser}]
  /\ retryIn \in [Loops -> RetryIns] /\ asked \in [Loops -> SUBSET RetryIns]
  /\ failures \in [Loops -> 0..MaxRetryShift]

\* ... the flags, and the history.
FlagTypes == loaded \in BOOLEAN /\ wake \in [Loops -> BOOLEAN] /\ result \in [Loops -> BOOLEAN]

HistoryTypes ==
  /\ via \in [Plays -> Loops \cup {NoLoop}] /\ excused \subseteq Plays /\ dropped \subseteq Plays
  /\ stranded \subseteq Plays /\ faults \in 0..MaxFaults

\* The longer of two delays is one of them.
LEMMA LongestIn == ASSUME PassTypes, NEW l \in Loops, NEW d \in RetryIns PROVE Longest(l, d) \in RetryIns
<1>1. retryIn[l] \in Nat /\ d \in Nat /\ retryIn[l] \in RetryIns
  BY Zenon, ScrobblerAssumption DEF PassTypes
<1>2. \E x \in {retryIn[l], d} : \A y \in {retryIn[l], d} : x >= y
  BY <1>1
<1> QED BY Zenon, <1>1, <1>2 DEF Longest, Max

\* Every step keeps the types of a pass ...
LEMMA PassStep == Types /\ PassTypes /\ [Next]_vars => PassTypes'
<1> SUFFICES ASSUME Types, PassTypes, [Next]_vars PROVE PassTypes'
  BY Zenon
<1> USE ScrobblerAssumption
<1>1. ASSUME UNCHANGED <<pass, failures>> PROVE PassTypes'
  BY Zenon, <1>1 DEF PassTypes, pass
<1>2. ASSUME NEW l \in Loops, NEW u, NEW d \in RetryIns, UserFails(l, u, d), UNCHANGED failures,
             asked' = asked \/ asked' = [asked EXCEPT ![l] = @ \cup {d}]
      PROVE  PassTypes'
  <2>1. Longest(l, d) \in RetryIns
    BY Zenon, <1>2, LongestIn
  <2> QED BY <1>2, <2>1 DEF PassTypes, UserFails, Left
<1>3. ASSUME NEW l \in Loops, PassStarts(l) PROVE PassTypes'
  <2>1. \A p \in buffer : UserOf[p] \in Users
    BY Zenon DEF Types
  <2>2. /\ UNCHANGED <<user, retryIn, asked, failures>>
        /\ \/ todo' = [todo EXCEPT ![l] = {UserOf[p] : p \in buffer}]
           \/ todo' = [todo EXCEPT ![l] = {}]
    BY <1>3, Zenon DEF PassStarts, window
  <2> QED BY <2>1, <2>2 DEF PassTypes
<1>4. ASSUME NEW l \in Loops, NEW u \in Users, Drain(l, u) PROVE PassTypes'
  <2>1. UNCHANGED <<asked, failures>>
    BY Zenon, <1>4 DEF Drain, window
  <2>2. CASE UserFails(l, u, 0)
    BY Zenon, <1>2, <2>1, <2>2
  <2>3. CASE UNCHANGED <<todo, retryIn>> /\ user' = [user EXCEPT ![l] = u]
    BY Zenon, <2>1, <2>3 DEF PassTypes
  <2>4. CASE /\ UNCHANGED retryIn /\ user' = [user EXCEPT ![l] = NoUser]
             /\ todo' = [todo EXCEPT ![l] = @ \ {u}]
    BY Zenon, <2>1, <2>4 DEF PassTypes
  <2> QED BY <1>4, <2>2, <2>3, <2>4, Zenon DEF Drain
<1>5. ASSUME NEW l \in Loops, Loader(l) \/ Dequeue(l) PROVE PassTypes'
  <2>1. /\ UNCHANGED <<asked, failures>>
        /\ UNCHANGED <<todo, user, retryIn>> \/ UserFails(l, user[l], 0)
    BY Zenon, <1>5 DEF Loader, Dequeue, window
  <2>2. CASE UNCHANGED <<todo, user, retryIn>>
    BY Zenon, <2>1, <2>2 DEF PassTypes
  <2> QED BY Zenon, <1>2, <2>1, <2>2
<1>6. ASSUME NEW l \in Loops, RetryLater(l) PROVE PassTypes'
  BY Zenon, <1>2, <1>6 DEF RetryLater, window
<1>7. ASSUME NEW l \in Loops, PassEnds(l) PROVE PassTypes'
  <2>1. /\ UNCHANGED <<todo, user, asked>> /\ retryIn' = [retryIn EXCEPT ![l] = 0]
        /\ \/ failures' = [failures EXCEPT ![l] = 0]
           \/ failures' = [failures EXCEPT ![l] = Counted(@)]
    BY Zenon, <1>7 DEF PassEnds
  <2> QED BY <2>1 DEF PassTypes, Counted
<1>8. ASSUME NEW l \in Loops, TimerFires(l) \/ LoopEnds(l) PROVE PassTypes'
  BY <1>8 DEF TimerFires, LoopEnds, PassTypes
<1>9. CASE Crash
  BY <1>9 DEF Crash, All, PassTypes
<1>10. ASSUME NEW l \in Loops, Answer(l) \/ Woken(l) \/ WindowEnds(l) PROVE PassTypes'
  BY Zenon, <1>1, <1>10 DEF Answer, Woken, WindowEnds, window
<1>11. ASSUME Refresh PROVE PassTypes'
  BY Zenon, <1>1, <1>11 DEF Refresh, New, window
<1>12. ASSUME \/ Load \/ Unload \/ Discard \/ UNCHANGED vars
              \/ \E p \in Plays : Scrobble(p) \/ sendWakeSignal(p)
       PROVE  PassTypes'
  BY Zenon, <1>1, <1>12 DEF Load, Unload, Discard, Scrobble, sendWakeSignal, vars, window
<1> QED BY Zenon, <1>3, <1>4, <1>5, <1>6, <1>7, <1>8, <1>9, <1>10, <1>11, <1>12
        DEF Next, Step, OtherReport, Dispatch

\* ... of the flags ...
LEMMA FlagStep == Types /\ HistoryTypes /\ FlagTypes /\ [Next]_vars => FlagTypes'
<1> SUFFICES ASSUME Types, HistoryTypes, FlagTypes, [Next]_vars PROVE FlagTypes'
  BY Zenon
<1>1. ASSUME UNCHANGED <<loaded, wake, result>> PROVE FlagTypes'
  BY <1>1, Zenon DEF FlagTypes
<1>2. ASSUME NEW l \in Loops, NEW b \in BOOLEAN, result' = [result EXCEPT ![l] = b],
             UNCHANGED <<loaded, wake>>
      PROVE  FlagTypes'
  BY <1>2, Zenon DEF FlagTypes
<1>3. ASSUME NEW l, NEW b \in BOOLEAN, wake' = [wake EXCEPT ![l] = b], UNCHANGED <<loaded, result>>
      PROVE  FlagTypes'
  BY <1>3, Zenon DEF FlagTypes
<1>4. ASSUME NEW l \in Loops, \/ PassStarts(l) \/ (\E u \in Users : Drain(l, u)) \/ Loader(l)
                              \/ Answer(l) \/ RetryLater(l) \/ Dequeue(l) \/ PassEnds(l)
      PROVE  FlagTypes'
  <2>1. /\ UNCHANGED <<loaded, wake>>
        /\ UNCHANGED result \/ \E b \in BOOLEAN : result' = [result EXCEPT ![l] = b]
    BY Zenon, <1>4
    DEF PassStarts, Drain, Loader, Answer, RetryLater, Dequeue, PassEnds, UserFails, pass, tracker
  <2> QED BY Zenon, <1>1, <1>2, <2>1
<1>5. ASSUME NEW l \in Loops, Woken(l) \/ LoopEnds(l) PROVE FlagTypes'
  <2>1. wake' = [wake EXCEPT ![l] = FALSE] /\ UNCHANGED <<loaded, result>>
    BY Zenon, <1>5 DEF Woken, LoopEnds, pass, tracker
  <2> QED BY Zenon, <1>3, <2>1
<1>6. ASSUME NEW l \in Loops, TimerFires(l) \/ WindowEnds(l) PROVE FlagTypes'
  BY Zenon, <1>1, <1>6 DEF TimerFires, WindowEnds, pass, tracker
<1>7. CASE Crash
  BY <1>7, Zenon DEF Crash, All, FlagTypes
<1>8. CASE Load \/ Unload
  <2>1. loaded' \in BOOLEAN /\ UNCHANGED <<wake, result>>
    BY Zenon, <1>8 DEF Load, Unload, pass
  <2> QED BY <2>1, Zenon DEF FlagTypes
<1>9. ASSUME Refresh, UNCHANGED loaded PROVE FlagTypes'
  BY Zenon, <1>1, <1>9 DEF Refresh, New, pass
<1>10. ASSUME NEW p \in Plays, sendWakeSignal(p) PROVE FlagTypes'
  <2>1. /\ wake' = [wake EXCEPT ![via[p]] = pc[via[p]] # "none"] /\ UNCHANGED <<loaded, result>>
    BY Zenon, <1>10 DEF sendWakeSignal, pass
  <2>2. (pc[via[p]] # "none") \in BOOLEAN
    BY Zenon
  <2> QED BY Zenon, <1>3, <2>1, <2>2
<1>11. ASSUME Discard \/ UNCHANGED vars \/ \E p \in Plays : Scrobble(p) PROVE FlagTypes'
  BY Zenon, <1>1, <1>11 DEF Discard, Scrobble, vars, pass, tracker
<1> QED BY Zenon, <1>4, <1>5, <1>6, <1>7, <1>8, <1>9, <1>10, <1>11
  DEF Next, Step, OtherReport, Dispatch


\* ... and of the history.
LEMMA HistoryStep == Types /\ HistoryTypes /\ [Next]_vars => HistoryTypes'
<1> SUFFICES ASSUME Types, HistoryTypes, [Next]_vars PROVE HistoryTypes'
  BY Zenon
<1> USE ScrobblerAssumption DEF Fault, DBWorks, DBFails, Excuse
<1>1. ASSUME NEW l \in Loops, Step(l) \/ TimerFires(l) PROVE HistoryTypes'
  <2>1. /\ UNCHANGED <<via, dropped, stranded>> /\ (UNCHANGED faults \/ Fault)
        /\ UNCHANGED excused \/ Excuse(l)
    BY <1>1, Zenon DEF Step, PassStarts, Drain, Loader, Answer, RetryLater, Dequeue, PassEnds, Woken,
                WindowEnds, LoopEnds, TimerFires, history, tracker
  <2>2. excused' \subseteq Plays
    BY Zenon, <2>1 DEF HistoryTypes
  <2>3. faults' \in 0..MaxFaults
    BY <2>1 DEF HistoryTypes
  <2> QED BY <2>1, <2>2, <2>3, Zenon DEF HistoryTypes
<1>2. ASSUME Refresh PROVE excused' \subseteq Plays /\ current' \in Loops \cup {NoLoop}
  BY Zenon, <1>2 DEF Refresh, Stop, Types, HistoryTypes
<1>3. ASSUME NEW p \in Plays, Dispatch(p) PROVE HistoryTypes'
  <2>1. /\ UNCHANGED <<dropped, stranded, faults>> /\ via' = [via EXCEPT ![p] = current'] /\ Refresh
    BY Zenon, <1>3 DEF Dispatch
  <2> QED BY Zenon, <1>2, <2>1 DEF HistoryTypes
<1>4. CASE OtherReport
  <2>1. UNCHANGED <<via, dropped, stranded, faults>> /\ Refresh
    BY Zenon, <1>4 DEF OtherReport
  <2> QED BY Zenon, <1>2, <2>1 DEF HistoryTypes
<1>5. ASSUME NEW p \in Plays, Scrobble(p) \/ sendWakeSignal(p) PROVE HistoryTypes'
  BY <1>5 DEF Scrobble, sendWakeSignal, history, HistoryTypes
<1>6. CASE Load \/ Unload \/ Discard
  BY <1>6 DEF Load, Unload, Discard, history, tracker, Types, HistoryTypes
<1>7. CASE Crash
  BY <1>7 DEF Crash, HistoryTypes
<1>8. CASE UNCHANGED vars
  BY Zenon, <1>8 DEF vars, history, tracker, HistoryTypes
<1> QED BY Zenon, <1>1, <1>3, <1>4, <1>5, <1>6, <1>7, <1>8 DEF Next

\* The tracker, the loops and the table keep their types through stops, reloads and
\* crashes; the count of failures never exceeds the shift backoffDelay() allows.
THEOREM TypeCorrect == Spec => []TypeOK
<1>1. Init => PassTypes /\ HistoryTypes
  BY ScrobblerAssumption DEF Init, All, PassTypes, HistoryTypes
<1>2. Init => FlagTypes
  BY Zenon DEF Init, All, FlagTypes
<1>3. IInv => Types
  BY Zenon DEF IInv
<1>4. IInv /\ WInv /\ PassTypes /\ FlagTypes /\ HistoryTypes => TypeOK
  BY Zenon DEF IInv, Types, Flags, Points, WInv, PassTypes, FlagTypes, HistoryTypes, TypeOK
<1> QED BY <1>1, <1>2, <1>3, <1>4, InitIInv, IInvStep, InitWInv, WInvStep, PassStep, FlagStep,
           HistoryStep, PTL DEF Spec


-----------------------------------------------------------------------------
(* The delays that the service asks for. *)

Delays == timer \in [Loops -> Nat]

\* Outside a pass no delay is pending, and none is remembered but for an armed timer.
AtRest(l) == retryIn[l] = 0 /\ (timer[l] = 0 => asked[l] = {})

\* During a pass the longest delay asked for is kept, and one that was asked for makes
\* the pass fail.
InPass(l) ==
  /\ timer[l] = 0 /\ \A d \in asked[l] : d <= retryIn[l]
  /\ retryIn[l] \in asked[l] \cup {0} /\ (result[l] => asked[l] = {} /\ retryIn[l] = 0)

\* The armed timer covers them.
Covers(l) ==
  timer[l] > 0 => /\ \A d \in asked[l] : timer[l] >= d
                  /\ timer[l] <= MaxRetryDelay \/ timer[l] \in asked[l]

Waits(l) ==
  /\ pc[l] \in {"none", "top", "select"} => AtRest(l)
  /\ pc[l] \notin {"none", "top", "select"} => InPass(l)
  /\ Covers(l)

WaitInv == Delays /\ \A l \in Loops : Waits(l)

\* The longer of two delays
LEMMA MaxOfTwo ==
  ASSUME NEW a \in Nat, NEW b \in Nat
  PROVE  Max({a, b}) \in {a, b} /\ Max({a, b}) >= a /\ Max({a, b}) >= b
<1>1. \E x \in {a, b} : \A y \in {a, b} : x >= y
  OBVIOUS
<1> QED BY Zenon, <1>1 DEF Max

\* ... and the shorter
LEMMA MinOfTwo ==
  ASSUME NEW a \in Nat, NEW b \in Nat
  PROVE  Min({a, b}) \in {a, b} /\ Min({a, b}) <= a /\ Min({a, b}) <= b
<1>1. \E x \in {a, b} : \A y \in {a, b} : x =< y
  OBVIOUS
<1> QED BY Zenon, <1>1 DEF Min

\* The backoff is positive and bounded.
LEMMA BackoffBounded ==
  ASSUME NEW f \in 0..MaxRetryShift
  PROVE  backoffDelay(f) \in Nat /\ backoffDelay(f) > 0 /\ backoffDelay(f) <= MaxRetryDelay
<1>1. 2^f \in Nat /\ 2^f > 0 /\ MaxRetryDelay \in Nat /\ MaxRetryDelay > 0
  BY ScrobblerAssumption
<1>2. Min({2^f, MaxRetryDelay}) \in {2^f, MaxRetryDelay} /\ Min({2^f, MaxRetryDelay}) <= MaxRetryDelay
  BY Zenon, <1>1, MinOfTwo
<1> QED BY <1>1, <1>2 DEF backoffDelay

\* A loop that the step does not concern
LEMMA WaitsKept ==
  ASSUME NEW k \in Loops, Waits(k), pc'[k] = pc[k], timer'[k] = timer[k], retryIn'[k] = retryIn[k],
         asked'[k] = asked[k], result'[k] = result[k]
  PROVE  Waits(k)'
BY Zenon DEF Waits, AtRest, InPass, Covers

\* What a step of loop l concerns
LEMMA OneLoop ==
  ASSUME Types, PassTypes, FlagTypes, Delays, NEW l \in Loops, Step(l) \/ TimerFires(l), NEW k \in Loops, k # l
  PROVE  /\ pc'[k] = pc[k] /\ timer'[k] = timer[k] /\ retryIn'[k] = retryIn[k]
         /\ asked'[k] = asked[k] /\ result'[k] = result[k]
<1> DEFINE Same == /\ pc'[k] = pc[k] /\ timer'[k] = timer[k] /\ retryIn'[k] = retryIn[k]
                   /\ asked'[k] = asked[k] /\ result'[k] = result[k]
<1> USE DEF Types, PassTypes, FlagTypes, Delays
<1>1. CASE PassStarts(l)
  BY Zenon, <1>1 DEF PassStarts, window
<1>2. ASSUME NEW u, NEW d, UserFails(l, u, d)
      PROVE  pc'[k] = pc[k] /\ retryIn'[k] = retryIn[k] /\ result'[k] = result[k]
  BY Zenon, <1>2 DEF UserFails
<1>3. ASSUME NEW u \in Users, Drain(l, u) PROVE Same
  <2>1. UNCHANGED <<asked, timer>>
    BY Zenon, <1>3 DEF Drain, window
  <2>2. CASE UserFails(l, u, 0)
    BY Zenon, <1>2, <2>1, <2>2
  <2>3. CASE UNCHANGED <<result, retryIn>> /\ (pc' = pc \/ pc' = [pc EXCEPT ![l] = "loader"])
    BY Zenon, <2>1, <2>3
  <2> QED BY <1>3, <2>2, <2>3, Zenon DEF Drain
<1>4. CASE Loader(l) \/ Dequeue(l)
  <2>1. /\ UNCHANGED <<asked, timer>>
        /\ \/ UserFails(l, user[l], 0)
           \/ /\ UNCHANGED <<result, retryIn>>
              /\ pc' = [pc EXCEPT ![l] = "sending"] \/ pc' = [pc EXCEPT ![l] = "users"]
    BY Zenon, <1>4 DEF Loader, Dequeue, window
  <2> QED BY Zenon, <1>2, <2>1
<1>5. CASE RetryLater(l)
  <2>1. PICK d \in RetryIns : UserFails(l, user[l], d) /\ asked' = [asked EXCEPT ![l] = @ \cup {d}]
    BY Zenon, <1>5 DEF RetryLater
  <2>2. UNCHANGED timer
    BY Zenon, <1>5 DEF RetryLater, window
  <2> QED BY Zenon, <1>2, <2>1, <2>2
<1>6. CASE PassEnds(l)
  BY Zenon, <1>6 DEF PassEnds
<1>7. CASE Answer(l) \/ Woken(l) \/ WindowEnds(l)
  BY Zenon, <1>7 DEF Answer, Woken, WindowEnds, pass, window
<1>8. CASE LoopEnds(l) \/ TimerFires(l)
  BY Zenon, <1>8 DEF LoopEnds, TimerFires
<1> QED BY Zenon, <1>1, <1>3, <1>4, <1>5, <1>6, <1>7, <1>8 DEF Step

\* A pass goes on.
LEMMA WaitsPass ==
  ASSUME WInv, Types, PassTypes, FlagTypes, Delays, NEW l \in Loops, Waits(l),
         \/ PassStarts(l) \/ (\E u \in Users : Drain(l, u)) \/ Loader(l) \/ Answer(l) \/ RetryLater(l)
         \/ Dequeue(l)
  PROVE  UNCHANGED timer /\ Waits(l)'
<1>t. /\ retryIn[l] \in Nat /\ asked[l] \subseteq Nat /\ RetryIns \subseteq Nat /\ timer[l] \in Nat
      /\ 0 \in RetryIns
  BY Zenon, ScrobblerAssumption DEF PassTypes, Delays
<1>u. UNCHANGED timer
  BY Zenon DEF PassStarts, Drain, Loader, Answer, RetryLater, Dequeue, window
<1>1. CASE PassStarts(l)
  <2>1. /\ pc[l] = "top" /\ pc'[l] = "users" /\ UNCHANGED <<retryIn, asked>>
    BY Zenon, <1>1 DEF PassStarts, Types
  <2>2. timer[l] = 0
    BY <1>t, <2>1 DEF WInv
  <2> QED BY Zenon, <1>u, <2>1, <2>2 DEF Waits, AtRest, InPass, Covers
<1>2. ASSUME InPass(l), pc'[l] \in {"users", "loader", "sending", "dequeue"},
             UNCHANGED <<retryIn, asked, result>>
      PROVE  Waits(l)'
  BY Zenon, <1>u, <1>t, <1>2 DEF Waits, InPass, Covers
<1>3. ASSUME NEW u, NEW d \in RetryIns, UserFails(l, u, d), InPass(l),
             asked' = [asked EXCEPT ![l] = @ \cup {d}] \/ (UNCHANGED asked /\ d = 0)
      PROVE  Waits(l)'
  <2>1. /\ pc'[l] = "users" /\ result'[l] = FALSE /\ retryIn'[l] = Max({retryIn[l], d})
    BY Zenon, <1>3 DEF UserFails, Longest, Types, PassTypes, FlagTypes
  <2>2. /\ retryIn'[l] \in {retryIn[l], d} /\ retryIn'[l] >= retryIn[l] /\ retryIn'[l] >= d /\ d \in Nat
    BY Zenon, <1>t, <2>1, MaxOfTwo
  <2>3. asked'[l] = asked[l] \cup {d} \/ (asked'[l] = asked[l] /\ d = 0)
    BY Zenon, <1>3 DEF PassTypes
  <2>4. InPass(l)'
    <3>1. \A e \in asked'[l] : e <= retryIn'[l]
      BY <1>3, <1>t, <2>2, <2>3 DEF InPass
    <3>2. retryIn'[l] \in asked'[l] \cup {0}
      BY Zenon, <1>3, <2>2, <2>3 DEF InPass
    <3> QED BY Zenon, <1>3, <1>u, <2>1, <3>1, <3>2 DEF InPass
  <2>5. Covers(l)'
    BY <1>u, <1>3 DEF InPass, Covers
  <2> QED BY Zenon, <2>1, <2>4, <2>5 DEF Waits
<1>4. pc[l] \in {"users", "loader", "sending", "dequeue"} => InPass(l)
  BY Zenon DEF Waits
<1>5. ASSUME NEW u \in Users, Drain(l, u) PROVE Waits(l)'
  <2>1. UNCHANGED asked /\ pc[l] = "users"
    BY Zenon, <1>5 DEF Drain
  <2>2. CASE UserFails(l, u, 0)
    BY Zenon, <1>3, <1>4, <1>t, <2>1, <2>2
  <2>3. CASE UNCHANGED <<result, retryIn>> /\ (pc' = pc \/ pc' = [pc EXCEPT ![l] = "loader"])
    BY Zenon, <1>2, <1>4, <2>1, <2>3 DEF Types
  <2> QED BY <1>5, <2>2, <2>3, Zenon DEF Drain
<1>6. CASE Loader(l) \/ Dequeue(l)
  <2>0. InPass(l)
    BY Zenon, <1>4, <1>6 DEF Loader, Dequeue
  <2>1. /\ UNCHANGED asked /\ pc[l] \in {"loader", "dequeue"}
        /\ \/ UserFails(l, user[l], 0)
           \/ /\ UNCHANGED <<result, retryIn>>
              /\ pc' = [pc EXCEPT ![l] = "sending"] \/ pc' = [pc EXCEPT ![l] = "users"]
    BY Zenon, <1>6 DEF Loader, Dequeue
  <2>2. CASE UserFails(l, user[l], 0)
    BY Zenon, <1>u, <1>3, <1>t, <2>0, <2>1, <2>2
  <2>3. ASSUME NEW to \in {"sending", "users"}, pc' = [pc EXCEPT ![l] = to] PROVE pc'[l] = to
    BY Zenon, <2>3 DEF Types
  <2> QED BY Zenon, <1>u, <1>2, <2>0, <2>1, <2>2, <2>3
<1>7. CASE RetryLater(l)
  <2>1. PICK d \in RetryIns : UserFails(l, user[l], d) /\ asked' = [asked EXCEPT ![l] = @ \cup {d}]
    BY Zenon, <1>7 DEF RetryLater
  <2>2. InPass(l)
    BY Zenon, <1>4, <1>7 DEF RetryLater
  <2> QED BY Zenon, <1>u, <1>3, <2>1, <2>2
<1>8. CASE Answer(l)
  <2>1. InPass(l)
    BY Zenon, <1>4, <1>8 DEF Answer
  <2>2. pc'[l] = "dequeue" /\ UNCHANGED <<retryIn, asked, result>>
    BY Zenon, <1>8 DEF Answer, Types, pass
  <2> QED BY Zenon, <1>u, <1>2, <2>1, <2>2
<1> QED BY Zenon, <1>u, <1>1, <1>5, <1>6, <1>7, <1>8


\* A pass ends: the timer covers what was asked for.
LEMMA WaitsEnd ==
  ASSUME WInv, Types, PassTypes, FlagTypes, Delays, NEW l \in Loops, Waits(l), PassEnds(l)
  PROVE  Delays' /\ Waits(l)'
<1>t. retryIn[l] \in Nat /\ asked[l] \subseteq Nat /\ MaxRetryDelay \in Nat
  BY Zenon, ScrobblerAssumption DEF PassTypes
<1>1. /\ pc[l] = "users" /\ pc'[l] = "select" /\ retryIn'[l] = 0 /\ UNCHANGED asked
  BY Zenon DEF PassEnds, Types, PassTypes
<1>2. InPass(l)
  BY Zenon, <1>1 DEF Waits
<1>3. CASE result[l]
  <2>1. timer' = [timer EXCEPT ![l] = 0]
    BY Zenon, <1>3 DEF PassEnds
  <2>2. timer'[l] = 0 /\ asked'[l] = {} /\ Delays'
    BY Zenon, <1>1, <1>2, <1>3, <2>1 DEF InPass, Delays
  <2> QED BY <1>1, <2>2 DEF Waits, AtRest, Covers
<1>4. CASE ~result[l]
  <2> DEFINE b == backoffDelay(failures[l])
  <2>1. timer' = [timer EXCEPT ![l] = Max({b, retryIn[l]})]
    BY Zenon, <1>4 DEF PassEnds
  <2>2. b \in Nat /\ b > 0 /\ b <= MaxRetryDelay
    BY Zenon, BackoffBounded DEF PassTypes
  <2> HIDE DEF b
  <2>3. PICK t : t = Max({b, retryIn[l]})
    BY Zenon
  <2>4. t \in {b, retryIn[l]} /\ t >= b /\ t >= retryIn[l]
    BY Zenon, <1>t, <2>2, <2>3, MaxOfTwo
  <2>5. t \in Nat /\ t > 0
    BY <1>t, <2>2, <2>4
  <2>6. timer'[l] = t /\ Delays'
    BY Zenon, <2>1, <2>3, <2>5 DEF Delays
  <2>7. \A d \in asked[l] : t >= d
    BY <1>t, <1>2, <2>4, <2>5 DEF InPass
  <2>8. t <= MaxRetryDelay \/ t \in asked[l]
    BY <1>2, <2>2, <2>4, <2>5 DEF InPass
  <2> QED BY <1>1, <2>5, <2>6, <2>7, <2>8 DEF Waits, AtRest, Covers
<1> QED BY Zenon, <1>3, <1>4

\* The loop waits, wakes up or ends.
LEMMA WaitsSelect ==
  ASSUME WInv, Types, PassTypes, FlagTypes, Delays, NEW l \in Loops, Waits(l),
         Woken(l) \/ WindowEnds(l) \/ LoopEnds(l) \/ TimerFires(l)
  PROVE  Delays' /\ Waits(l)'
<1>t. timer[l] \in Nat
  BY Zenon DEF Delays
<1>1. CASE Woken(l) \/ WindowEnds(l)
  <2>1. /\ pc[l] = "select" /\ pc'[l] \in {"select", "top"} /\ UNCHANGED <<timer, retryIn, asked>>
    BY Zenon, <1>1 DEF Woken, Awake, WindowEnds, Types, pass, window
  <2> QED BY Zenon, <2>1 DEF Waits, AtRest, Covers, Delays
<1>2. CASE LoopEnds(l) \/ TimerFires(l)
  <2>1. /\ pc[l] = "select" /\ pc'[l] \in {"select", "none"} /\ UNCHANGED retryIn
    BY Zenon, <1>2, <1>t DEF LoopEnds, TimerFires, Types, WInv
  <2>2. timer' = [timer EXCEPT ![l] = 0] /\ asked' = [asked EXCEPT ![l] = {}]
    BY Zenon, <1>2 DEF LoopEnds, TimerFires
  <2>3. timer'[l] = 0 /\ asked'[l] = {} /\ Delays'
    BY Zenon, <2>2 DEF Delays, PassTypes
  <2> QED BY <2>1, <2>3 DEF Waits, AtRest, Covers
<1> QED BY Zenon, <1>1, <1>2

\* Every step keeps it.
LEMMA WaitStep ==
  ASSUME WInv, Types, PassTypes, FlagTypes, WaitInv, [Next]_vars
  PROVE  WaitInv'
<1>1. CASE UNCHANGED <<pc, timer, retryIn, asked, result>>
  BY Zenon, <1>1, WaitsKept DEF WaitInv, Delays
<1>2. ASSUME NEW l \in Loops, Step(l) \/ TimerFires(l) PROVE WaitInv'
  <2>1. Delays' /\ Waits(l)'
    <3>1. CASE \/ PassStarts(l) \/ (\E u \in Users : Drain(l, u)) \/ Loader(l) \/ Answer(l) \/ RetryLater(l)
               \/ Dequeue(l)
      BY Zenon, <3>1, WaitsPass DEF WaitInv, Delays
    <3> QED BY Zenon, <1>2, <3>1, WaitsEnd, WaitsSelect DEF Step, WaitInv
  <2>2. \A k \in Loops \ {l} : Waits(k)'
    BY Zenon, <1>2, OneLoop, WaitsKept DEF WaitInv
  <2> QED BY Zenon, <2>1, <2>2 DEF WaitInv
<1>3. CASE Crash
  <2>1. /\ timer' = All(0) /\ pc' = All("none") /\ retryIn' = All(0) /\ asked' = All({})
    BY Zenon, <1>3 DEF Crash
  <2> QED BY <2>1 DEF All, WaitInv, Delays, Waits, AtRest, Covers
<1>4. ASSUME Refresh PROVE WaitInv'
  <2>1. UNCHANGED <<timer, retryIn, asked, result>>
    BY Zenon, <1>4 DEF Refresh, New, pass, window
  <2>2. CASE UNCHANGED pc
    BY Zenon, <1>1, <2>1, <2>2
  <2>3. ASSUME NEW l \in Loops, pc[l] = "none", pc' = [pc EXCEPT ![l] = "top"] PROVE WaitInv'
    <3>1. pc'[l] = "top" /\ \A k \in Loops \ {l} : pc'[k] = pc[k]
      BY Zenon, <2>3 DEF Types
    <3>2. Waits(l)'
      BY Zenon, <2>1, <2>3, <3>1 DEF WaitInv, Waits, AtRest, Covers
    <3> QED BY Zenon, <2>1, <3>1, <3>2, WaitsKept DEF WaitInv, Delays
  <2> QED BY Zenon, <1>4, <2>2, <2>3 DEF Refresh, New, Free
<1>5. ASSUME \/ Load \/ Unload \/ Discard \/ UNCHANGED vars
             \/ \E p \in Plays : Scrobble(p) \/ sendWakeSignal(p)
      PROVE  UNCHANGED <<pc, timer, retryIn, asked, result>>
  BY Zenon, <1>5 DEF Load, Unload, Discard, Scrobble, sendWakeSignal, vars, pass, window
<1> QED BY Zenon, <1>1, <1>2, <1>3, <1>4, <1>5 DEF Next, OtherReport, Dispatch

\* The backoff window is no shorter than any delay the service asked for in the pass,
\* and no longer than those or the longest backoff.
THEOREM WaitsAreHonoured == Spec => []WaitHonoured
<1>1. Init => PassTypes /\ HistoryTypes
  BY ScrobblerAssumption DEF Init, All, PassTypes, HistoryTypes
<1>2. Init => FlagTypes
  BY Zenon DEF Init, All, FlagTypes
<1>3. Init => WaitInv
  <2> SUFFICES ASSUME Init PROVE WaitInv
    BY Zenon
  <2>1. /\ timer = All(0) /\ pc = All("none") /\ retryIn = All(0) /\ asked = All({})
    BY Zenon DEF Init
  <2> QED BY <2>1 DEF All, WaitInv, Delays, Waits, AtRest, Covers
<1>4. IInv => Types
  BY Zenon DEF IInv
<1>5. WInv /\ Types /\ PassTypes /\ FlagTypes /\ WaitInv /\ [Next]_vars => WaitInv'
  BY Zenon, WaitStep
<1>6. WaitInv => WaitHonoured
  BY Zenon DEF WaitInv, Delays, Waits, Covers, WaitHonoured
<1> QED BY <1>1, <1>2, <1>3, <1>4, <1>5, <1>6, InitIInv, IInvStep, InitWInv, WInvStep, PassStep, FlagStep,
           HistoryStep, PTL DEF Spec
=============================================================================
