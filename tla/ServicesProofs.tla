---------------------------- MODULE ServicesProofs ----------------------------
(***************************************************************************)
(* Proofs about the services, each for any value of its constants:         *)
(*  - the report worker implements an ideal queue (ReportQueue);           *)
(*  - a session is not taken back from playing and ends by its own stop;   *)
(*  - what the transcoding cache calls complete is whole, and its limiter  *)
(*    counts the transcodes under way;                                     *)
(*  - the event broker panics only if a departure overtook an arrival;     *)
(*  - the IDs of a plugin's scheduler agree with what can fire;            *)
(*  - the now-playing worker sends a player's updates in their order;      *)
(*  - the composition implements each of its parts, so that the types of   *)
(*    all of them hold in it.                                              *)
(* A step names the instance a definition comes from: Workers!, Cache!,    *)
(* Broker! or Scheduler!; the sessions are extended.                       *)
(***************************************************************************)
EXTENDS Services, FiniteSetTheorems, TLAPS

\* A report queued while the worker holds a batch comes after the batch.
LEMMA AppendToRest ==
  ASSUME NEW b \in Seq(Nat), NEW q \in Seq(Nat), NEW n \in Nat
  PROVE  b \o Append(q, n) = Append(b \o q, n)
OBVIOUS

\* Taking the queue over leaves the reports in their order.
LEMMA TakeAll ==
  ASSUME NEW q \in Seq(Nat)
  PROVE  q \o <<>> = q /\ <<>> \o q = q
OBVIOUS

\* The first report of a batch is the first one of all.
LEMMA TailFirst ==
  ASSUME NEW b \in Seq(Nat), NEW q \in Seq(Nat), b # <<>>
  PROVE  /\ b \o q # <<>> /\ Tail(b) \in Seq(Nat)
         /\ Tail(b \o q) = Tail(b) \o q
OBVIOUS

\* The part of the workers' state that the refinement rests on: only a worker that
\* is sending holds a batch.
BatchOK ==
  /\ prQueue \in Seq(Nat) /\ prBatch \in Seq(Nat) /\ prMade \in Nat
  /\ prWorker = "sending" <=> prBatch # <<>>

\* Every step of the workers keeps it.
LEMMA BatchStep ==
  ASSUME BatchOK, [Workers!Next]_(Workers!vars)
  PROVE  BatchOK'
<1> USE DEF BatchOK, Workers!reports, Workers!updates
<1>1. CASE Workers!EnqueuePlaybackReport
  BY <1>1 DEF Workers!EnqueuePlaybackReport
<1>2. CASE Workers!ReportWake
  BY Zenon, <1>2 DEF Workers!ReportWake
<1>3. CASE Workers!ReportTake
  BY Zenon, <1>3 DEF Workers!ReportTake
<1>4. CASE Workers!DispatchPlaybackReport
  BY Zenon, <1>4, TailFirst DEF Workers!DispatchPlaybackReport
<1>5. CASE UNCHANGED Workers!reports
  BY Zenon, <1>5
<1>6. QED
  BY Zenon, <1>1, <1>2, <1>3, <1>4, <1>5
  DEF Workers!Next, Workers!ReportWorker, Workers!NowPlayingWorker, Workers!NowPlayingTake,
      Workers!EnqueueNowPlaying, Workers!DispatchNowPlaying, Workers!vars

\* Every step of the workers is a step of the ideal queue, or leaves it as it is.
LEMMA QueueStep ==
  ASSUME MaxQueued \in Nat, BatchOK, [Workers!Next]_(Workers!vars)
  PROVE  [Workers!Ideal!Next]_(prBatch \o prQueue)
<1> USE DEF BatchOK, Workers!reports, Workers!updates
<1>1. CASE Workers!EnqueuePlaybackReport
  <2>1. prMade' \in 1..MaxQueued /\ prMade' \in Nat
    BY <1>1 DEF Workers!EnqueuePlaybackReport
  <2>2. prBatch' \o prQueue' = Append(prBatch \o prQueue, prMade')
    BY Zenon, <1>1, <2>1, AppendToRest DEF Workers!EnqueuePlaybackReport
  <2>3. QED
    BY Zenon, <2>1, <2>2 DEF Workers!Ideal!Next, Workers!Ideal!Enqueue
<1>2. CASE Workers!ReportWake
  BY Zenon, <1>2 DEF Workers!ReportWake
<1>3. CASE Workers!ReportTake
  BY Zenon, <1>3, TakeAll DEF Workers!ReportTake
<1>4. CASE Workers!DispatchPlaybackReport
  BY Zenon, <1>4, TailFirst DEF Workers!DispatchPlaybackReport, Workers!Ideal!Next, Workers!Ideal!Handle
<1>5. CASE UNCHANGED Workers!reports
  BY Zenon, <1>5
<1>6. QED
  BY Zenon, <1>1, <1>2, <1>3, <1>4, <1>5
  DEF Workers!Next, Workers!ReportWorker, Workers!NowPlayingWorker, Workers!NowPlayingTake,
      Workers!EnqueueNowPlaying, Workers!DispatchNowPlaying, Workers!vars

\* The queue of playbackreport_worker.go, its signal and its worker implement the ideal
\* queue: reports are handled once each, in order, and none is lost, for any number of
\* reports.  That none waits for ever is left to the model checker.
THEOREM ReportsHandledInOrder ==
  ASSUME MaxQueued \in Nat
  PROVE  Workers!Spec => Workers!Ideal!Spec
<1>1. Workers!Init => BatchOK
  BY DEF Workers!Init, BatchOK
<1>2. Workers!Init => Workers!Ideal!Init
  BY TakeAll DEF Workers!Init, Workers!Ideal!Init
<1>3. BatchOK /\ [Workers!Next]_(Workers!vars) => BatchOK'
  BY Zenon, BatchStep
<1>4. BatchOK /\ [Workers!Next]_(Workers!vars) => [Workers!Ideal!Next]_(prBatch \o prQueue)
  BY Zenon, QueueStep
<1>5. QED
  BY <1>1, <1>2, <1>3, <1>4, PTL DEF Workers!Spec, Workers!Ideal!Spec

\* An update that waits is no older than the one being sent, nor that than the last one sent.
SentInv ==
  /\ {npQueue, npBatch, npMade, npSent} \subseteq [Players -> Nat]
  /\ \A p \in Players : npSent[p] <= npMade[p] /\ npBatch[p] <= npMade[p]
  /\ \A p \in Players : npBatch[p] # 0 => npSent[p] <= npBatch[p]
  /\ \A p \in Players : npQueue[p] # 0 =>
       npSent[p] <= npQueue[p] /\ npBatch[p] <= npQueue[p] /\ npQueue[p] <= npMade[p]

\* Every step of the workers keeps it, and sends no update older than the last one.
LEMMA SentStep ==
  ASSUME SentInv, [Workers!Next]_(Workers!vars)
  PROVE  SentInv' /\ \A p \in Players : npSent'[p] >= npSent[p]
<1>t. /\ npQueue \in [Players -> Nat] /\ npBatch \in [Players -> Nat] /\ npMade \in [Players -> Nat]
      /\ npSent \in [Players -> Nat]
  BY Zenon DEF SentInv
<1>1. ASSUME NEW p \in Players, Workers!EnqueueNowPlaying(p)
      PROVE  SentInv' /\ \A q \in Players : npSent'[q] >= npSent[q]
  <2>1. /\ npMade' = [npMade EXCEPT ![p] = npMade[p] + 1] /\ UNCHANGED <<npBatch, npSent>>
        /\ npQueue' = [npQueue EXCEPT ![p] = npMade[p] + 1]
    BY Zenon, <1>1, <1>t DEF Workers!EnqueueNowPlaying
  <2>2. npMade' \in [Players -> Nat] /\ npQueue' \in [Players -> Nat]
    BY <1>t, <2>1
  <2>3. \A q \in Players : IF q = p THEN npMade'[q] = npMade[q] + 1 /\ npQueue'[q] = npMade[q] + 1
                                    ELSE npMade'[q] = npMade[q] /\ npQueue'[q] = npQueue[q]
    BY Zenon, <1>t, <2>1
  <2> QED BY <1>t, <2>1, <2>2, <2>3 DEF SentInv
<1>2. ASSUME Workers!NowPlayingTake
      PROVE  SentInv' /\ \A q \in Players : npSent'[q] >= npSent[q]
  <2>1. /\ npBatch' = npQueue /\ npQueue' \in [Players -> Nat] /\ \A q \in Players : npQueue'[q] = 0
        /\ UNCHANGED <<npMade, npSent>>
    BY Zenon, <1>2 DEF Workers!NowPlayingTake, Workers!None
  <2>2. \A q \in Players : npQueue[q] \in Nat /\ npMade[q] \in Nat /\ npSent[q] \in Nat
    BY Zenon, <1>t
  <2> QED BY <1>t, <2>1, <2>2 DEF SentInv
<1>3. ASSUME NEW p \in Players, Workers!DispatchNowPlaying(p)
      PROVE  SentInv' /\ \A q \in Players : npSent'[q] >= npSent[q]
  <2>1. /\ npBatch[p] # 0 /\ npSent' = [npSent EXCEPT ![p] = npBatch[p]]
        /\ npBatch' = [npBatch EXCEPT ![p] = 0] /\ UNCHANGED <<npQueue, npMade>>
    BY Zenon, <1>3 DEF Workers!DispatchNowPlaying
  <2>2. npSent' \in [Players -> Nat] /\ npBatch' \in [Players -> Nat]
    BY Zenon, <1>t, <2>1
  <2>3. \A q \in Players : IF q = p THEN npSent'[q] = npBatch[q] /\ npBatch'[q] = 0
                                    ELSE npSent'[q] = npSent[q] /\ npBatch'[q] = npBatch[q]
    BY Zenon, <1>t, <2>1
  <2>4. \A q \in Players : npBatch[q] \in Nat /\ npMade[q] \in Nat /\ npSent[q] \in Nat /\ npQueue[q] \in Nat
    BY Zenon, <1>t
  <2> QED BY <1>t, <2>1, <2>2, <2>3, <2>4 DEF SentInv
<1>4. ASSUME UNCHANGED Workers!updates
      PROVE  SentInv' /\ \A q \in Players : npSent'[q] >= npSent[q]
  BY <1>4, <1>t DEF SentInv, Workers!updates
<1> QED
  BY Zenon, <1>1, <1>2, <1>3, <1>4
  DEF Workers!Next, Workers!ReportWorker, Workers!NowPlayingWorker, Workers!EnqueuePlaybackReport,
      Workers!ReportWake, Workers!ReportTake, Workers!DispatchPlaybackReport, Workers!vars

\* The safety half of LatestSent: nowplaying_worker.go sends no update of a player after a
\* newer one, whatever is queued while it sends.
THEOREM UpdatesInOrder ==
  Workers!Spec => [][\A p \in Players : npSent'[p] >= npSent[p]]_(Workers!vars)
<1>1. Workers!Init => SentInv
  BY DEF Workers!Init, Workers!None, SentInv
<1>2. SentInv /\ [Workers!Next]_(Workers!vars) => SentInv'
  BY Zenon, SentStep
<1>3. SentInv /\ [Workers!Next]_(Workers!vars) =>
        [\A p \in Players : npSent'[p] >= npSent[p]]_(Workers!vars)
  BY Zenon, SentStep
<1> QED BY <1>1, <1>2, <1>3, PTL DEF Workers!Spec
-----------------------------------------------------------------------------
\* The type invariant of the sessions is inductive: what a call carries fits the
\* place where it is.
LEMMA SessionsTypeStep ==
  ASSUME TypeOK, [Next]_vars
  PROVE  TypeOK'
<1> USE SessionsAssumption, NamesAssumption DEF TypeOK, vars, call, history
<1>1. ASSUME NEW k \in Calls, NEW c \in Clients, NEW t \in Tracks, BeginStarting(k, c, t)
      PROVE  TypeOK'
  BY <1>1 DEF BeginStarting, Enter, Proceed, Args, States
<1>2. ASSUME NEW k \in Calls, NEW c \in Clients, NEW t \in Tracks,
             NEW s \in {"playing", "paused"}, BeginPlaying(k, c, t, s)
      PROVE  TypeOK'
  BY <1>2 DEF BeginPlaying, Enter, Proceed, Args, States
<1>3. ASSUME NEW k \in Calls, NEW c \in Clients, NEW t \in Tracks, BeginStopped(k, c, t)
      PROVE  TypeOK'
  <2> DEFINE a(l) == [client |-> c, track |-> t, state |-> "stopped", loaded |-> l]
  <2>1. PICK l \in BOOLEAN : Proceed(k, "remove", a(l))
    BY <1>3, Zenon DEF BeginStopped
  <2>2. a(l) \in Args /\ a(l).state = "stopped"
    BY Zenon, <2>1 DEF Args, States
  <2> HIDE DEF a
  <2>3. QED
    BY <1>3, <2>1, <2>2 DEF BeginStopped, Enter, Proceed
<1>4. ASSUME NEW k \in Calls, StoreStarting(k)
      PROVE  TypeOK'
  BY <1>4 DEF StoreStarting, SessionOf, Return, Proceed, Args, States, Session
<1>5. ASSUME NEW k \in Calls, StorePlaying(k)
      PROVE  TypeOK'
  BY Zenon, <1>5 DEF StorePlaying, SessionOf, Proceed, Args, States, Session
<1>6. ASSUME NEW k \in Calls, RemoveSession(k)
      PROVE  TypeOK'
  BY <1>6 DEF RemoveSession, Return, Proceed, Args, States
<1>7. ASSUME NEW k \in Calls, QueueReport(k)
      PROVE  TypeOK'
  BY Zenon, <1>7 DEF QueueReport, EnqueueReport, Proceed, Args, States
<1>8. ASSUME NEW k \in Calls, Announce(k)
      PROVE  TypeOK'
  BY Zenon, <1>8 DEF Announce, Return, Proceed, Args, Session
<1>9. ASSUME NEW c \in Clients, Expire(c)
      PROVE  TypeOK'
  BY <1>9 DEF Expire, Session, Report, States
<1>10. ASSUME NEW r \in expiring, OnExpiration(r)
       PROVE  TypeOK'
  BY Zenon, <1>10 DEF OnExpiration, EnqueueReport, Report, States
<1>11. CASE UNCHANGED vars
  BY Zenon, <1>11
<1> HIDE DEF TypeOK, vars, call, history
<1>12. QED
  BY Zenon, <1>1, <1>2, <1>3, <1>4, <1>5, <1>6, <1>7, <1>8, <1>9, <1>10, <1>11 DEF Next, Step

\* The sessions, the calls under way and the pending callbacks keep their types, for
\* any number of clients and of concurrent ReportPlayback calls.
THEOREM SessionsTypeCorrect == Spec => []TypeOK
<1>1. Init => TypeOK
  BY SessionsAssumption, NamesAssumption DEF Init, TypeOK, States
<1>2. QED
  BY <1>1, SessionsTypeStep, PTL DEF Spec

\* Only three steps of a call and the expiry write the sessions.
LEMMA SessionsWritten ==
  ASSUME [Next]_vars
  PROVE  \/ UNCHANGED playMap
         \/ \E k \in Calls : StoreStarting(k) \/ StorePlaying(k) \/ RemoveSession(k)
         \/ \E c \in Clients : Expire(c)
BY Zenon DEF Next, Step, vars, BeginStarting, BeginPlaying, BeginStopped, QueueReport, Announce,
       OnExpiration

\* A late "starting" never takes a session back from playing, however many calls of
\* the client are under way when it gets the lock.
LEMMA PlayingNotDowngraded ==
  ASSUME TypeOK, [Next]_vars
  PROVE  [NotDowngraded]_vars
<1> DEFINE Downgraded(c, t) ==
      playMap'[c] # NoSession /\ playMap'[c].track = t /\ playMap'[c].state = "starting"
<1>1. ASSUME NEW c \in Clients, NEW t \in Tracks, HasPlayingSession(c, t)
      PROVE  ~Downgraded(c, t)
  <2> USE <1>1 DEF TypeOK
  <2>1. CASE UNCHANGED playMap
    BY Zenon, <2>1 DEF HasPlayingSession
  <2>2. ASSUME NEW k \in Calls, StoreStarting(k)
        PROVE  ~Downgraded(c, t)
    BY <2>2 DEF StoreStarting, LateStarting, HasPlayingSession, SessionOf, Args
  <2>3. ASSUME NEW k \in Calls, StorePlaying(k)
        PROVE  ~Downgraded(c, t)
    BY Zenon, <2>3 DEF StorePlaying, HasPlayingSession, SessionOf, Args
  <2>4. ASSUME NEW k \in Calls, RemoveSession(k)
        PROVE  ~Downgraded(c, t)
    BY Zenon, <2>4 DEF RemoveSession, HasPlayingSession, Args
  <2>5. ASSUME NEW d \in Clients, Expire(d)
        PROVE  ~Downgraded(c, t)
    BY Zenon, <2>5 DEF Expire, HasPlayingSession
  <2>6. QED
    BY Zenon, <2>1, <2>2, <2>3, <2>4, <2>5, SessionsWritten
<1>2. QED
  BY Zenon, <1>1 DEF NotDowngraded

\* A session ends by a stop of its own track or by its expiry: a stop of the track
\* before, however late, leaves the session of the next one alone.
LEMMA SessionEndsByItsOwn ==
  ASSUME TypeOK, [Next]_vars
  PROVE  [EndsByItsOwn]_vars
<1> DEFINE OwnEnd(c) ==
      \/ \E k \in Calls : /\ at[k] = "remove" /\ at'[k] = "report"
                          /\ args[k].client = c /\ args[k].track = playMap[c].track
      \/ expiring' # expiring
<1>1. ASSUME NEW c \in Clients, playMap[c] # NoSession, playMap'[c] = NoSession
      PROVE  OwnEnd(c)
  <2> USE <1>1, NamesAssumption DEF TypeOK
  <2>1. CASE UNCHANGED playMap
    BY Zenon, <2>1
  <2>2. ASSUME NEW k \in Calls, StoreStarting(k)
        PROVE  FALSE
    BY <2>2 DEF StoreStarting, SessionOf, Args, States, Session
  <2>3. ASSUME NEW k \in Calls, StorePlaying(k)
        PROVE  FALSE
    BY Zenon, <2>3 DEF StorePlaying, SessionOf, Args, States, Session
  <2>4. ASSUME NEW k \in Calls, RemoveSession(k)
        PROVE  OwnEnd(c)
    BY Zenon, <2>4 DEF RemoveSession, LateStop, Proceed, Args
  <2>5. ASSUME NEW d \in Clients, Expire(d)
        PROVE  OwnEnd(c)
    BY Zenon, <2>5 DEF Expire
  <2>6. QED
    BY Zenon, <2>1, <2>2, <2>3, <2>4, <2>5, SessionsWritten
<1>2. QED
  BY Zenon, <1>1 DEF EndsByItsOwn

\* Late calls of ReportPlayback leave the session of the track that plays alone, for any
\* number of clients, tracks and overlapping calls.
THEOREM SessionsKept == Spec => SessionKept
<1>1. TypeOK /\ [Next]_vars => [NotDowngraded /\ EndsByItsOwn]_vars
  BY Zenon, PlayingNotDowngraded, SessionEndsByItsOwn
<1>2. QED
  BY <1>1, SessionsTypeCorrect, PTL DEF Spec, SessionKept
-----------------------------------------------------------------------------
\* A writer that has ended its copy has written the whole file, and so has the writer
\* of an entry that is closed, unless the entry is doubtful; a marker vouches for the
\* file beside it.
WholeInv ==
  /\ \A n \in 1..MaxEntries : cAt[n] \in {"copied", "marked"} => n \in whole
  /\ \A n \in 1..MaxEntries : cAt[n] \in {"closed", "unclosed"} => n \in whole \cup doubtful
  /\ \A k \in Keys : k \in marker /\ data[k] # 0 => data[k] \in whole \cup doubtful

\* The types that the two invariants of the cache need
CacheType ==
  /\ cMade \in 0..MaxEntries /\ registered \in [Keys -> 0..cMade] /\ data \in [Keys -> 0..cMade]
  /\ cAt \in [1..MaxEntries -> Cache!Places] /\ userOf \in [1..MaxEntries -> Users]
  /\ keyOf \in [1..MaxEntries -> Keys \cup {NoKey}]

CacheInv == CacheType /\ WholeInv

\* Taking a key's entry or file away
LEMMA KeyCleared ==
  ASSUME NEW m \in Nat, NEW f \in [Keys -> 0..m], NEW k
  PROVE  LET g == [f EXCEPT ![k] = 0]
         IN  g \in [Keys -> 0..m] /\ \A j \in Keys : g[j] \in {0, f[j]}
<1> DEFINE g == [f EXCEPT ![k] = 0]
<1>1. \A j \in Keys : g[j] = IF j = k THEN 0 ELSE f[j]
  BY Zenon
<1>2. g = [j \in Keys |-> g[j]]
  BY Zenon
<1>3. \A j \in Keys : g[j] \in 0..m
  BY <1>1
<1> HIDE DEF g
<1>4. g \in [Keys -> 0..m]
  BY <1>2, <1>3, Zenon
<1>5. QED
  BY Zenon, <1>1, <1>4 DEF g

\* Every step of the cache keeps it, a crash and both ways to load included.
LEMMA CacheStep ==
  ASSUME MaxEntries \in Nat, CacheInv, [Cache!Next]_(Cache!vars)
  PROVE  CacheInv'
<1> USE DEF CacheInv, CacheType, WholeInv, Cache!Entry, Cache!Places, Cache!GoTo, Cache!entries,
            Cache!disk, Cache!slots, Cache!process, Cache!history
<1>1. ASSUME NEW k \in Keys, NEW u \in Users, Cache!GetMiss(k, u)
      PROVE  CacheInv'
  BY <1>1 DEF Cache!GetMiss
<1>2. ASSUME NEW u \in Users, Cache!GetDirect(u)
      PROVE  CacheInv'
  BY <1>2 DEF Cache!GetDirect
<1>3. ASSUME NEW n \in 1..MaxEntries, Cache!Opens(n)
      PROVE  CacheInv'
  BY Zenon, <1>3 DEF Cache!Opens, Cache!AcquirePerUser, Cache!AcquireGlobal, Cache!Transcode,
              Cache!CloseRefused
<1>4. ASSUME NEW n \in 1..MaxEntries, Cache!CopyEnds(n)
      PROVE  CacheInv'
  BY Zenon, <1>4 DEF Cache!CopyEnds
<1>5. ASSUME NEW n \in 1..MaxEntries, Cache!MarkComplete(n)
      PROVE  CacheInv'
  BY Zenon, <1>5 DEF Cache!MarkComplete
<1>6. ASSUME NEW n \in 1..MaxEntries,
             \/ Cache!CloseDirect(n) \/ Cache!CloseWriter(n) \/ Cache!CloseWithError(n)
             \/ Cache!Invalidate(n) \/ Cache!NoCommand(n)
      PROVE  CacheInv'
  <2>1. /\ UNCHANGED <<data, marker, cMade, whole, doubtful, keyOf, userOf>>
        /\ UNCHANGED registered \/ registered' = [registered EXCEPT ![keyOf[n]] = 0]
    BY Zenon, <1>6 DEF Cache!CloseDirect, Cache!CloseWriter, Cache!CloseWithError, Cache!Invalidate,
                Cache!NoCommand, Cache!Unregister
  <2>2. PICK p \in {"dropped", "closed", "unclosed", "cancelled", "refused"} :
          cAt' = [cAt EXCEPT ![n] = p] /\ (p \in {"closed", "unclosed"} => cAt[n] = "marked")
    BY Zenon, <1>6 DEF Cache!CloseDirect, Cache!CloseWriter, Cache!CloseWithError, Cache!Invalidate,
                Cache!NoCommand
  <2>3. registered' \in [Keys -> 0..cMade]
    BY <2>1, KeyCleared
  <2>4. QED
    BY Zenon, <2>1, <2>2, <2>3
<1>7. ASSUME NEW n \in 1..MaxEntries, Cache!RemoveMarker(n) \/ Cache!ReaderLeaves(n)
      PROVE  CacheInv'
  BY Zenon, <1>7 DEF Cache!RemoveMarker, Cache!ReaderLeaves
<1>8. ASSUME NEW n \in 1..MaxEntries, Cache!RemoveData(n)
      PROVE  CacheInv'
  <2>1. data' \in [Keys -> 0..cMade'] /\ \A k \in Keys : data'[k] \in {0, data[k]}
    BY <1>8, KeyCleared DEF Cache!RemoveData
  <2>2. QED
    BY Zenon, <1>8, <2>1 DEF Cache!RemoveData
<1>9. ASSUME NEW k \in Keys, Cache!GetHit(k) \/ Cache!GetLost(k)
      PROVE  CacheInv'
  BY Zenon, <1>9 DEF Cache!GetHit, Cache!GetLost, Cache!Unregister
<1>10. ASSUME NEW k \in Keys, Cache!Scrub(k) \/ Cache!Vanish(k)
       PROVE  CacheInv'
  <2>1. data' = [data EXCEPT ![k] = 0] /\ cMade' = cMade
    BY Zenon, <1>10 DEF Cache!Scrub, Cache!Vanish
  <2>2. registered' \in [Keys -> 0..cMade']
    BY <1>10, KeyCleared DEF Cache!Scrub, Cache!Vanish
  <2>3. data' \in [Keys -> 0..cMade'] /\ \A j \in Keys : data'[j] \in {0, data[j]}
    BY <2>1, KeyCleared
  <2>4. QED
    BY Zenon, <1>10, <2>2, <2>3 DEF Cache!Scrub, Cache!Vanish
<1>11. CASE Cache!Crash
  BY <1>11 DEF Cache!Crash
<1>12. CASE Cache!Restart \/ UNCHANGED Cache!vars
  BY Zenon, <1>12 DEF Cache!Restart, Cache!vars
<1>13. CASE Cache!Reload
  BY <1>13 DEF Cache!Reload, Cache!Adopt, Cache!Adopted, Cache!Files
<1>14. CASE Cache!Migrate
  BY Zenon, <1>14 DEF Cache!Migrate, Cache!Adopt, Cache!Files
<1>15. QED
  BY Zenon, <1>1, <1>2, <1>3, <1>4, <1>5, <1>6, <1>7, <1>8, <1>9, <1>10, <1>11,
     <1>12, <1>13, <1>14
  DEF Cache!Next, Cache!Writes, Cache!Removes

\* The files and entries of the cache that count as complete were written in full,
\* for any keys, users, numbers of entries, crashes and restarts.
THEOREM CompleteEntriesAreWhole ==
  ASSUME MaxEntries \in Nat, Anonymous \in Users
  PROVE  Cache!Spec => []CompleteIsWhole
<1>1. Cache!Init => CacheInv
  BY DEF Cache!Init, CacheInv, CacheType, WholeInv, Cache!Entry, Cache!Places
<1>2. CacheInv => CompleteIsWhole
  BY DEF CacheInv, CacheType, WholeInv, CompleteIsWhole, Cache!CompleteIsWhole
<1>3. QED
  BY <1>1, <1>2, CacheStep, PTL DEF Cache!Spec

\* A reader that reaches a clean end has read a whole file, for any number of readers.
THEOREM CleanEndsAreWhole ==
  ASSUME MaxEntries \in Nat, Anonymous \in Users
  PROVE  Cache!Spec => []CleanEndIsWhole
<1>1. Cache!Init => CacheInv
  BY DEF Cache!Init, CacheInv, CacheType, WholeInv, Cache!Entry, Cache!Places
<1>2. CacheInv => CleanEndIsWhole
  BY Zenon DEF CacheInv, WholeInv, CleanEndIsWhole, Cache!CleanEndIsWhole, Cache!EndsCleanly,
               Cache!Entry
<1>3. QED
  BY <1>1, <1>2, CacheStep, PTL DEF Cache!Spec

-----------------------------------------------------------------------------
\* An entry that has not been made has no key; the file of a key is of an entry of that
\* key; and until the cache is loaded only requests that bypass it are under way.
OwnersInv ==
  /\ \A n \in 1..MaxEntries : n > cMade => cAt[n] = "none" /\ keyOf[n] = NoKey
  /\ \A k \in Keys : data[k] # 0 => keyOf[data[k]] = k
  /\ \A n \in 1..MaxEntries : ~ready /\ keyOf[n] # NoKey => cAt[n] \in {"none", "dropped"}

\* A step of a request or of its writer moves one entry that is under way, and nothing
\* else that OwnersInv speaks of.
LEMMA EntryMoves ==
  ASSUME NEW n \in 1..MaxEntries, Cache!Opens(n) \/ Cache!NoCommand(n) \/ Cache!Writes(n)
  PROVE  /\ cAt[n] \notin {"none", "dropped"} /\ \E p : cAt' = [cAt EXCEPT ![n] = p]
         /\ UNCHANGED <<keyOf, userOf, data, cMade, ready>>
<1> USE DEF Cache!GoTo, Cache!entries, Cache!disk, Cache!process
<1>1. CASE Cache!Opens(n)
  BY Zenon, <1>1 DEF Cache!Opens, Cache!AcquirePerUser, Cache!AcquireGlobal, Cache!Transcode,
              Cache!CloseRefused
<1>2. CASE Cache!NoCommand(n)
  BY Zenon, <1>2 DEF Cache!NoCommand
<1>3. CASE Cache!Writes(n)
  BY Zenon, <1>3 DEF Cache!Writes, Cache!CopyEnds, Cache!CloseDirect, Cache!MarkComplete,
              Cache!CloseWriter, Cache!CloseWithError, Cache!Invalidate
<1>4. QED
  BY Zenon, <1>1, <1>2, <1>3

\* A file that goes, and a step that moves no entry, keep the owners.
LEMMA OwnersKept ==
  ASSUME CacheType, OwnersInv, UNCHANGED <<cAt, keyOf, cMade, ready>>,
         \A k \in Keys : data'[k] \in {0, data[k]}
  PROVE  OwnersInv'
BY Zenon DEF OwnersInv

\* Every step of the cache keeps it.
LEMMA OwnersStep ==
  ASSUME MaxEntries \in Nat, NoKey \notin Keys, CacheType, OwnersInv, [Cache!Next]_(Cache!vars)
  PROVE  OwnersInv'
<1> USE DEF Cache!GoTo, Cache!entries, Cache!disk, Cache!slots, Cache!process, Cache!history
<1>1. ASSUME NEW k \in Keys, NEW u \in Users, Cache!GetMiss(k, u)
      PROVE  OwnersInv'
  <2> DEFINE m == cMade + 1
  <2>1. /\ cMade' = m /\ cMade < MaxEntries /\ ready /\ UNCHANGED ready
        /\ data' = [data EXCEPT ![k] = m] /\ keyOf' = [keyOf EXCEPT ![m] = k]
        /\ cAt' = [cAt EXCEPT ![m] = "opening"]
    BY Zenon, <1>1 DEF Cache!GetMiss
  <2>2. /\ m \in 1..MaxEntries /\ m > cMade /\ \A j \in Keys : data[j] \in Nat /\ data[j] <= cMade
        /\ \A n \in 1..MaxEntries : n > m => n > cMade /\ n # m
        /\ cMade \in Nat
    BY <2>1 DEF CacheType
  <2>3. /\ \A n \in 1..MaxEntries : keyOf'[n] = IF n = m THEN k ELSE keyOf[n]
        /\ \A n \in 1..MaxEntries : cAt'[n] = IF n = m THEN "opening" ELSE cAt[n]
        /\ \A j \in Keys : data'[j] = IF j = k THEN m ELSE data[j]
    BY Zenon, <2>1, <2>2 DEF CacheType
  <2>4. \A j \in Keys : data[j] # 0 => data[j] \in 1..MaxEntries /\ data[j] # m
    BY <2>1, <2>2
  <2> HIDE DEF m
  <2>5. \A n \in 1..MaxEntries : n > cMade' => cAt'[n] = "none" /\ keyOf'[n] = NoKey
    BY Zenon, <2>1, <2>2, <2>3 DEF OwnersInv
  <2>6. \A j \in Keys : data'[j] # 0 => keyOf'[data'[j]] = j
    BY <2>2, <2>3, <2>4 DEF OwnersInv
  <2>7. QED
    BY Zenon, <2>1, <2>5, <2>6 DEF OwnersInv
<1>2. ASSUME NEW u \in Users, Cache!GetDirect(u)
      PROVE  OwnersInv'
  <2>1. /\ cMade' = cMade + 1 /\ cMade < MaxEntries /\ ~ready /\ UNCHANGED <<data, keyOf, ready>>
        /\ cAt' = [cAt EXCEPT ![cMade'] = "opening"]
    BY Zenon, <1>2 DEF Cache!GetDirect
  <2>2. cMade \in Nat /\ cMade' \in 1..MaxEntries /\ keyOf[cMade'] = NoKey
    BY <2>1 DEF CacheType, OwnersInv
  <2>3. \A n \in 1..MaxEntries : cAt'[n] = IF n = cMade' THEN "opening" ELSE cAt[n]
    BY Zenon, <2>1, <2>2 DEF CacheType
  <2>4. QED
    BY <2>1, <2>2, <2>3 DEF OwnersInv
<1>3. ASSUME NEW n \in 1..MaxEntries, Cache!Opens(n) \/ Cache!NoCommand(n) \/ Cache!Writes(n)
      PROVE  OwnersInv'
  <2>1. PICK p : cAt' = [cAt EXCEPT ![n] = p]
    BY Zenon, <1>3, EntryMoves
  <2>2. cAt[n] \notin {"none", "dropped"} /\ UNCHANGED <<keyOf, data, cMade, ready>>
    BY Zenon, <1>3, EntryMoves
  <2>3. \A m \in 1..MaxEntries : cAt'[m] = IF m = n THEN p ELSE cAt[m]
    BY Zenon, <2>1 DEF CacheType
  <2>4. QED
    BY Zenon, <2>2, <2>3 DEF OwnersInv
<1>4. ASSUME NEW n \in 1..MaxEntries, Cache!Removes(n) \/ Cache!ReaderLeaves(n)
      PROVE  OwnersInv'
  <2>1. /\ UNCHANGED <<cAt, keyOf, cMade, ready>>
        /\ UNCHANGED data \/ data' = [data EXCEPT ![keyOf[n]] = 0]
    BY Zenon, <1>4 DEF Cache!Removes, Cache!RemoveMarker, Cache!RemoveData, Cache!ReaderLeaves
  <2>2. \A k \in Keys : data'[k] \in {0, data[k]}
    BY Zenon, <2>1 DEF CacheType
  <2>3. QED
    BY Zenon, <2>1, <2>2, OwnersKept
<1>5. ASSUME NEW k \in Keys,
             Cache!GetHit(k) \/ Cache!GetLost(k) \/ Cache!Scrub(k) \/ Cache!Vanish(k)
      PROVE  OwnersInv'
  <2>1. /\ UNCHANGED <<cAt, keyOf, cMade, ready>>
        /\ UNCHANGED data \/ data' = [data EXCEPT ![k] = 0]
    BY Zenon, <1>5 DEF Cache!GetHit, Cache!GetLost, Cache!Scrub, Cache!Vanish
  <2>2. \A j \in Keys : data'[j] \in {0, data[j]}
    BY Zenon, <2>1 DEF CacheType
  <2>3. QED
    BY Zenon, <2>1, <2>2, OwnersKept
<1>6. CASE Cache!Crash
  <2>1. /\ UNCHANGED <<data, keyOf, cMade>>
        /\ \A n \in 1..MaxEntries : cAt'[n] = IF cAt[n] = "none" THEN "none" ELSE "dropped"
    BY Zenon, <1>6 DEF Cache!Crash, Cache!Entry
  <2>2. QED
    BY Zenon, <2>1 DEF OwnersInv
<1>7. CASE Cache!Restart \/ UNCHANGED Cache!vars
  BY Zenon, <1>7, OwnersKept DEF Cache!Restart, Cache!vars
<1>8. CASE Cache!Reload \/ Cache!Migrate
  <2>1. /\ ready' = TRUE /\ UNCHANGED <<keyOf, cMade>>
        /\ \A k \in Keys : data'[k] \in {0, data[k]}
    BY Zenon, <1>8 DEF Cache!Reload, Cache!Migrate
  <2>2. ASSUME NEW n \in 1..MaxEntries, n > cMade
        PROVE  cAt'[n] = cAt[n]
    <3>1. PICK S \in SUBSET Keys :
            cAt' = [m \in 1..MaxEntries |-> IF \E k \in S : data[k] = m THEN "closed" ELSE cAt[m]]
      BY Zenon, <1>8 DEF Cache!Reload, Cache!Migrate, Cache!Adopt, Cache!Files, Cache!Entry
    <3>2. \A k \in Keys : data[k] # n
      BY <2>2 DEF CacheType
    <3>3. QED
      BY Zenon, <3>1, <3>2
  <2>3. QED
    BY Zenon, <2>1, <2>2 DEF OwnersInv
<1>9. QED
  BY Zenon, <1>1, <1>2, <1>3, <1>4, <1>5, <1>6, <1>7, <1>8 DEF Cache!Next, Cache!Entry

\* What a count is when an entry joins or leaves
LEMMA SlotsCount ==
  ASSUME MaxEntries \in Nat, NEW S \in SUBSET (1..MaxEntries), NEW n \in 1..MaxEntries
  PROVE  /\ Cardinality(S) \in Nat
         /\ n \notin S => Cardinality(S \cup {n}) = Cardinality(S) + 1
         /\ n \in S => Cardinality(S) > 0 /\ Cardinality(S \ {n}) = Cardinality(S) - 1
<1>1. IsFiniteSet(1..MaxEntries)
  BY FS_Interval
<1>2. IsFiniteSet(S)
  BY Zenon, <1>1, FS_Subset
<1>3. Cardinality(S) \in Nat
  BY Zenon, <1>2, FS_CardinalityType
<1>4. n \notin S => Cardinality(S \cup {n}) = Cardinality(S) + 1
  BY Zenon, <1>2, FS_AddElement
<1>5. n \in S => Cardinality(S \ {n}) = Cardinality(S) - 1
  BY Zenon, <1>2, FS_RemoveElement
<1>6. n \in S => Cardinality(S) # 0
  BY Zenon, <1>2, FS_EmptySet
<1>7. QED
  BY <1>3, <1>4, <1>5, <1>6

\* The instance of the cache counts like FiniteSets.
LEMMA SameCardinality == \A S : Cache!Cardinality(S) = Cardinality(S)
BY Zenon DEF Cache!Cardinality, Cardinality

\* What the cache's constants are
CacheConstants ==
  /\ MaxEntries \in Nat /\ MaxConcurrent \in Nat /\ MaxPerUser \in Nat
  /\ NoKey \notin Keys /\ Anonymous \in Users

\* The places of an entry that has a slot of the process, and of its user
AtGlobal == {"starting", "copying"}
AtUser == {"limiting", "starting", "copying"}

GlobalSlots == global \in Nat /\ global = Cardinality(Cache!Transcoding) /\ global <= MaxConcurrent
UserSlots ==
  /\ perUser \in [Users -> Nat]
  /\ \A u \in Users \ {Anonymous} :
       perUser[u] = Cardinality(Cache!TranscodingFor(u)) /\ perUser[u] <= MaxPerUser

\* What does not move an entry in or out of the places with a slot keeps the counts.
LEMMA GlobalKept ==
  ASSUME GlobalSlots, UNCHANGED global,
         \A n \in 1..MaxEntries : cAt'[n] \in AtGlobal <=> cAt[n] \in AtGlobal
  PROVE  GlobalSlots'
<1>1. Cache!Transcoding' = Cache!Transcoding
  BY Zenon DEF Cache!Transcoding, Cache!Entry, AtGlobal
<1>2. QED
  BY Zenon, <1>1 DEF GlobalSlots

\* The same for the slots of the users
LEMMA UserKept ==
  ASSUME UserSlots, UNCHANGED perUser,
         \A n \in 1..MaxEntries : cAt'[n] \in AtUser <=> cAt[n] \in AtUser,
         \A n \in 1..MaxEntries : cAt[n] \in AtUser => userOf'[n] = userOf[n]
  PROVE  UserSlots'
<1>1. ASSUME NEW u \in Users
      PROVE  Cache!TranscodingFor(u)' = Cache!TranscodingFor(u)
  BY Zenon DEF Cache!TranscodingFor, Cache!Entry, AtUser
<1>2. QED
  BY Zenon, <1>1 DEF UserSlots

\* An entry takes a slot of the process.
LEMMA GlobalTaken ==
  ASSUME CacheConstants, CacheType, GlobalSlots, global < MaxConcurrent, global' = global + 1,
         NEW n \in 1..MaxEntries, cAt[n] \notin AtGlobal, cAt' = [cAt EXCEPT ![n] = "starting"]
  PROVE  GlobalSlots'
<1>1. /\ Cache!Transcoding' = Cache!Transcoding \cup {n} /\ n \notin Cache!Transcoding
      /\ Cache!Transcoding \in SUBSET (1..MaxEntries)
  BY Zenon DEF Cache!Transcoding, Cache!Entry, AtGlobal, CacheType
<1>2. QED
  BY <1>1, SlotsCount DEF GlobalSlots, CacheConstants

\* The entry gives it back.
LEMMA GlobalReleased ==
  ASSUME CacheConstants, CacheType, GlobalSlots, global' = global - 1,
         NEW n \in 1..MaxEntries, cAt[n] \in AtGlobal,
         NEW p, p \notin AtGlobal, cAt' = [cAt EXCEPT ![n] = p]
  PROVE  GlobalSlots'
<1>1. /\ Cache!Transcoding' = Cache!Transcoding \ {n} /\ n \in Cache!Transcoding
      /\ Cache!Transcoding \in SUBSET (1..MaxEntries)
  BY Zenon DEF Cache!Transcoding, Cache!Entry, AtGlobal, CacheType
<1>2. QED
  BY <1>1, SlotsCount DEF GlobalSlots, CacheConstants

\* An entry takes a slot of its user.
LEMMA UserTaken ==
  ASSUME CacheConstants, CacheType, UserSlots, NEW n \in 1..MaxEntries,
         userOf[n] # Anonymous, perUser[userOf[n]] < MaxPerUser,
         perUser' = [perUser EXCEPT ![userOf[n]] = @ + 1],
         cAt[n] \notin AtUser, cAt' = [cAt EXCEPT ![n] = "limiting"], UNCHANGED userOf
  PROVE  UserSlots'
<1>1. /\ Cache!TranscodingFor(userOf[n])' = Cache!TranscodingFor(userOf[n]) \cup {n}
      /\ n \notin Cache!TranscodingFor(userOf[n])
  BY Zenon DEF Cache!TranscodingFor, Cache!Entry, AtUser, CacheType
<1>2. \A u \in Users : Cache!TranscodingFor(u) \in SUBSET (1..MaxEntries)
  BY Zenon DEF Cache!TranscodingFor, Cache!Entry
<1>3. ASSUME NEW u \in Users, u # userOf[n]
      PROVE  Cache!TranscodingFor(u)' = Cache!TranscodingFor(u)
  BY Zenon, <1>3 DEF Cache!TranscodingFor, Cache!Entry, CacheType
<1>4. userOf[n] \in Users
  BY Zenon DEF CacheType
<1>5. QED
  BY <1>1, <1>2, <1>3, <1>4, SlotsCount DEF UserSlots, CacheConstants

\* The entry gives it back.
LEMMA UserReleased ==
  ASSUME CacheConstants, CacheType, UserSlots, NEW n \in 1..MaxEntries,
         Cache!ReleasePerUser(n), cAt[n] \in AtUser,
         NEW p, p \notin AtUser, cAt' = [cAt EXCEPT ![n] = p], UNCHANGED userOf
  PROVE  UserSlots'
<1>1. /\ Cache!TranscodingFor(userOf[n])' = Cache!TranscodingFor(userOf[n]) \ {n}
      /\ n \in Cache!TranscodingFor(userOf[n])
  BY Zenon DEF Cache!TranscodingFor, Cache!Entry, AtUser, CacheType
<1>2. \A u \in Users : Cache!TranscodingFor(u) \in SUBSET (1..MaxEntries)
  BY Zenon DEF Cache!TranscodingFor, Cache!Entry
<1>3. ASSUME NEW u \in Users, u # userOf[n]
      PROVE  Cache!TranscodingFor(u)' = Cache!TranscodingFor(u)
  BY Zenon, <1>3 DEF Cache!TranscodingFor, Cache!Entry, CacheType
<1>4. userOf[n] \in Users
  BY Zenon DEF CacheType
<1>5. CASE userOf[n] = Anonymous
  BY Zenon, <1>3, <1>5 DEF UserSlots, Cache!ReleasePerUser
<1>6. CASE userOf[n] # Anonymous
  <2>1. /\ Cardinality(Cache!TranscodingFor(userOf[n])) \in Nat \ {0}
        /\ Cardinality(Cache!TranscodingFor(userOf[n])')
             = Cardinality(Cache!TranscodingFor(userOf[n])) - 1
    <3> DEFINE S == Cache!TranscodingFor(userOf[n])
    <3>1. S \in SUBSET (1..MaxEntries) /\ n \in S /\ S' = S \ {n} /\ MaxEntries \in Nat
      BY Zenon, <1>1, <1>2, <1>4 DEF CacheConstants
    <3> HIDE DEF S
    <3>2. /\ Cardinality(S) \in Nat /\ Cardinality(S) > 0
          /\ Cardinality(S \ {n}) = Cardinality(S) - 1
      BY Zenon, <3>1, SlotsCount
    <3>3. QED
      BY <3>1, <3>2 DEF S
  <2>2. perUser' = [perUser EXCEPT ![userOf[n]] = @ - 1]
    BY Zenon, <1>6 DEF Cache!ReleasePerUser
  <2>3. QED
    BY <1>3, <1>4, <1>6, <2>1, <2>2 DEF UserSlots, CacheConstants
<1>7. QED
  BY Zenon, <1>5, <1>6

\* Every step of the cache keeps the counts; only the limiter's steps and a crash change
\* them.
LEMMA SlotsStep ==
  ASSUME CacheConstants, CacheType, OwnersInv, GlobalSlots, UserSlots, [Cache!Next]_(Cache!vars)
  PROVE  GlobalSlots' /\ UserSlots'
<1> USE DEF CacheConstants, CacheType, Cache!Entry, Cache!GoTo, Cache!entries, Cache!disk,
            Cache!slots, Cache!process, Cache!history, AtGlobal, AtUser
<1>1. ASSUME NEW n \in 1..MaxEntries, Cache!AcquirePerUser(n)
      PROVE  GlobalSlots' /\ UserSlots'
  <2>1. cAt[n] = "opening" /\ UNCHANGED <<global, userOf>>
    BY Zenon, <1>1 DEF Cache!AcquirePerUser
  <2>2. PICK p \in {"limiting", "refused"} : cAt' = [cAt EXCEPT ![n] = p]
    BY Zenon, <1>1 DEF Cache!AcquirePerUser
  <2>3. GlobalSlots'
    BY Zenon, <2>1, <2>2, GlobalKept
  <2>4. CASE userOf[n] = Anonymous /\ UNCHANGED perUser
    <3>1. ASSUME NEW u \in Users \ {Anonymous}
          PROVE  Cache!TranscodingFor(u)' = Cache!TranscodingFor(u)
      BY Zenon, <2>1, <2>2, <2>4 DEF Cache!TranscodingFor
    <3>2. QED
      BY Zenon, <2>3, <2>4, <3>1 DEF UserSlots
  <2>5. CASE /\ userOf[n] # Anonymous /\ perUser[userOf[n]] < MaxPerUser
             /\ perUser' = [perUser EXCEPT ![userOf[n]] = @ + 1]
             /\ cAt' = [cAt EXCEPT ![n] = "limiting"]
    BY Zenon, <2>1, <2>3, <2>5, UserTaken
  <2>6. CASE UNCHANGED perUser /\ cAt' = [cAt EXCEPT ![n] = "refused"]
    BY Zenon, <2>1, <2>3, <2>6, UserKept
  <2>7. QED
    BY Zenon, <1>1, <2>4, <2>5, <2>6 DEF Cache!AcquirePerUser
<1>2. ASSUME NEW n \in 1..MaxEntries, Cache!AcquireGlobal(n)
      PROVE  GlobalSlots' /\ UserSlots'
  <2>1. cAt[n] = "limiting" /\ UNCHANGED userOf
    BY Zenon, <1>2 DEF Cache!AcquireGlobal
  <2>2. CASE global < MaxConcurrent
    BY Zenon, <1>2, <2>1, <2>2, GlobalTaken, UserKept DEF Cache!AcquireGlobal
  <2>3. CASE ~(global < MaxConcurrent)
    <3>1. Cache!ReleasePerUser(n) /\ UNCHANGED global /\ cAt' = [cAt EXCEPT ![n] = "refused"]
      BY Zenon, <1>2, <2>3 DEF Cache!AcquireGlobal
    <3>2. QED
      BY Zenon, <2>1, <3>1, GlobalKept, UserReleased
  <2>4. QED
    BY Zenon, <2>2, <2>3
<1>3. ASSUME NEW n \in 1..MaxEntries,
             Cache!Transcode(n) \/ Cache!CopyEnds(n) \/ Cache!CloseDirect(n)
      PROVE  GlobalSlots' /\ UserSlots'
  <2>1. cAt[n] \in AtGlobal /\ UNCHANGED userOf
    BY Zenon, <1>3 DEF Cache!Transcode, Cache!CopyEnds, Cache!CloseDirect
  <2>2. CASE UNCHANGED <<global, perUser>> /\ cAt' = [cAt EXCEPT ![n] = "copying"]
    BY Zenon, <2>1, <2>2, GlobalKept, UserKept
  <2>3. ASSUME Cache!Release(n), NEW p \in {"refused", "copied", "failed", "dropped"},
               cAt' = [cAt EXCEPT ![n] = p]
        PROVE  GlobalSlots' /\ UserSlots'
    <3>1. Cache!ReleasePerUser(n) /\ global' = global - 1
      BY Zenon, <2>3 DEF Cache!Release
    <3>2. QED
      BY Zenon, <2>1, <2>3, <3>1, GlobalReleased, UserReleased
  <2>4. QED
    BY Zenon, <1>3, <2>2, <2>3 DEF Cache!Transcode, Cache!CopyEnds, Cache!CloseDirect
<1>4. ASSUME NEW n \in 1..MaxEntries,
             \/ Cache!NoCommand(n) \/ Cache!CloseRefused(n) \/ Cache!MarkComplete(n)
             \/ Cache!CloseWriter(n) \/ Cache!CloseWithError(n) \/ Cache!Invalidate(n)
      PROVE  GlobalSlots' /\ UserSlots'
  <2>1. /\ cAt[n] \notin AtUser /\ UNCHANGED <<perUser, global, userOf>>
        /\ \E p \in {"refused", "dropped", "emptied", "marked", "closed", "unclosed", "cancelled"} :
             cAt' = [cAt EXCEPT ![n] = p]
    BY Zenon, <1>4 DEF Cache!NoCommand, Cache!CloseRefused, Cache!MarkComplete, Cache!CloseWriter,
                Cache!CloseWithError, Cache!Invalidate
  <2>2. QED
    BY Zenon, <2>1, GlobalKept, UserKept
<1>5. ASSUME NEW u \in Users, Cache!GetDirect(u) \/ \E k \in Keys : Cache!GetMiss(k, u)
      PROVE  GlobalSlots' /\ UserSlots'
  <2>1. /\ cMade' \in 1..MaxEntries /\ cAt[cMade'] = "none" /\ UNCHANGED <<perUser, global>>
        /\ cAt' = [cAt EXCEPT ![cMade'] = "opening"] /\ userOf' = [userOf EXCEPT ![cMade'] = u]
    <3>1. /\ cMade' = cMade + 1 /\ cMade < MaxEntries /\ UNCHANGED <<perUser, global>>
          /\ cAt' = [cAt EXCEPT ![cMade'] = "opening"] /\ userOf' = [userOf EXCEPT ![cMade'] = u]
      BY Zenon, <1>5 DEF Cache!GetMiss, Cache!GetDirect
    <3>2. cMade' \in 1..MaxEntries /\ cMade' > cMade
      BY <3>1
    <3>3. QED
      BY Zenon, <3>1, <3>2 DEF OwnersInv
  <2>2. QED
    BY Zenon, <2>1, GlobalKept, UserKept
<1>6. CASE Cache!Reload \/ Cache!Migrate
  <2>1. PICK files \in SUBSET Cache!Files : Cache!Adopt(files)
    BY Zenon, <1>6 DEF Cache!Reload, Cache!Migrate, Cache!Files
  <2>2. ~ready /\ UNCHANGED <<perUser, global, userOf>>
    BY Zenon, <1>6 DEF Cache!Reload, Cache!Migrate
  <2>3. \A n \in 1..MaxEntries : cAt'[n] = cAt[n] \/ (cAt'[n] = "closed" /\ cAt[n] \notin AtUser)
    BY Zenon, <2>1, <2>2 DEF Cache!Adopt, Cache!Files, OwnersInv
  <2>4. QED
    BY Zenon, <2>2, <2>3, GlobalKept, UserKept
<1>7. CASE Cache!Crash
  <2>1. Cache!Transcoding' = {} /\ \A u \in Users : Cache!TranscodingFor(u)' = {}
    BY Zenon, <1>7 DEF Cache!Crash, Cache!Transcoding, Cache!TranscodingFor
  <2>2. QED
    <3>1. global' = 0 /\ perUser' = [u \in Users |-> 0]
      BY Zenon, <1>7 DEF Cache!Crash
    <3>2. Cardinality({}) = 0
      BY Zenon, FS_EmptySet
    <3>3. GlobalSlots'
      BY <2>1, <3>1, <3>2 DEF GlobalSlots
    <3>4. \A u \in Users : perUser'[u] = 0 /\ Cardinality(Cache!TranscodingFor(u)') = 0
      BY Zenon, <2>1, <3>1, <3>2
    <3>5. perUser' \in [Users -> Nat] /\ 0 <= MaxPerUser
      BY <3>1
    <3>6. UserSlots'
      BY Zenon, <3>4, <3>5 DEF UserSlots
    <3>7. QED
      BY Zenon, <3>3, <3>6
<1>8. CASE UNCHANGED <<cAt, userOf, perUser, global>>
  BY Zenon, <1>8, GlobalKept, UserKept
<1>9. QED
  BY Zenon, <1>1, <1>2, <1>3, <1>4, <1>5, <1>6, <1>7, <1>8
  DEF Cache!Next, Cache!vars, Cache!Opens, Cache!Writes, Cache!Removes, Cache!RemoveMarker,
      Cache!RemoveData, Cache!ReaderLeaves, Cache!GetHit, Cache!GetLost, Cache!Scrub,
      Cache!Vanish, Cache!Restart

\* The limiter's counts are those of the transcodes under way and stay within the caps,
\* for any users, caps, numbers of requests, refusals, failures and crashes.
THEOREM SlotsWithinLimits ==
  ASSUME CacheConstants
  PROVE  Cache!Spec => []WithinLimits
<1> DEFINE Inv == CacheInv /\ OwnersInv /\ GlobalSlots /\ UserSlots
<1>1. Cache!Init => Inv
  <2> SUFFICES ASSUME Cache!Init PROVE Inv
    BY Zenon
  <2>1. CacheType /\ WholeInv /\ OwnersInv
    <3>1. CacheType
      BY DEF Cache!Init, CacheConstants, CacheType, Cache!Entry, Cache!Places
    <3>2. WholeInv
      BY Zenon DEF Cache!Init, WholeInv, Cache!Entry
    <3>3. OwnersInv
      BY Zenon DEF Cache!Init, OwnersInv, Cache!Entry
    <3>4. QED
      BY Zenon, <3>1, <3>2, <3>3
  <2>2. Cache!Transcoding = {} /\ \A u \in Users : Cache!TranscodingFor(u) = {}
    BY Zenon DEF Cache!Init, Cache!Transcoding, Cache!TranscodingFor, Cache!Entry
  <2>3. GlobalSlots /\ UserSlots
    BY <2>2, FS_EmptySet DEF Cache!Init, CacheConstants, GlobalSlots, UserSlots
  <2>4. QED
    BY Zenon, <2>1, <2>3 DEF CacheInv
<1>2. Inv /\ [Cache!Next]_(Cache!vars) => Inv'
  BY Zenon, CacheStep, OwnersStep, SlotsStep DEF CacheConstants, CacheInv
<1>3. Inv => WithinLimits
  BY Zenon, SameCardinality DEF WithinLimits, Cache!WithinLimits, GlobalSlots, UserSlots
<1>4. QED
  BY <1>1, <1>2, <1>3, PTL DEF Cache!Spec

-----------------------------------------------------------------------------
\* A channel with room for one
Short == {<<>>} \cup {<<c>> : c \in Streams}

\* What the channels of arrivals and departures can hold
LEMMA ShortChannel ==
  /\ \A s \in Short : Len(s) < 1 => s = <<>>
  /\ \A s \in Short : s # <<>> => \E c \in Streams : s = <<c>>
  /\ \A c \in Streams : Append(<<>>, c) = <<c>> /\ Head(<<c>>) = c /\ Tail(<<c>>) = <<>>
  /\ \A c, d \in Streams : <<c>> = <<d>> => c = d
  /\ \A c \in Streams : <<c>> # <<>> /\ <<c>> \in Short
  /\ <<>> \in Short
BY DEF Short

\* An arrival or a departure is announced once, and in the life of a stream one after
\* the other.  A closed stream is forgotten unless its departure overtook its arrival.
BrokerInv ==
  /\ stream \in [Streams -> {"new", "arriving", "open", "leaving", "gone"}]
  /\ subscribing \in Short /\ unsubscribing \in Short
  /\ clients \subseteq Streams /\ closed \subseteq Streams
  /\ \A c \in Streams : subscribing = <<c>> =>
       stream[c] \in {"open", "leaving", "gone"} /\ c \notin clients
  /\ \A c \in clients : stream[c] \in {"open", "leaving", "gone"}
  /\ \A c \in Streams : unsubscribing = <<c>> => stream[c] = "gone" /\ c \notin closed
  /\ \A c \in closed : stream[c] = "gone"
  /\ \A c \in closed \ overtook : c \notin clients /\ subscribing # <<c>>
  /\ panicked => overtook # {}

\* Every step of the broker keeps it.
LEMMA BrokerStep ==
  ASSUME BrokerInv, [Broker!Next]_(Broker!vars)
  PROVE  BrokerInv'
<1> USE ShortChannel DEF BrokerInv, Broker!channels, Broker!subscribingSize
<1>1. ASSUME NEW c \in Streams, Broker!Connect(c)
      PROVE  BrokerInv'
  BY Zenon, <1>1 DEF Broker!Connect
<1>2. ASSUME NEW c \in Streams, Broker!Subscribe(c)
      PROVE  BrokerInv'
  <2>1. /\ subscribing' = <<c>> /\ stream[c] = "arriving" /\ stream' = [stream EXCEPT ![c] = "open"]
        /\ UNCHANGED <<unsubscribing, clients, closed, panicked, overtook>>
    BY Zenon, <1>2 DEF Broker!Subscribe
  <2>2. QED
    BY Zenon, <2>1
<1>3. ASSUME NEW c \in Streams, Broker!Write(c) \/ Broker!Disconnect(c)
      PROVE  BrokerInv'
  <2>1. PICK p \in {"open", "leaving"} :
          /\ stream[c] = "open" /\ stream' = [stream EXCEPT ![c] = p]
          /\ UNCHANGED <<subscribing, unsubscribing, clients, closed, panicked, overtook>>
    BY Zenon, <1>3 DEF Broker!Write, Broker!Disconnect
  <2>2. QED
    BY Zenon, <2>1
<1>4. ASSUME NEW c \in Streams, Broker!Unsubscribe(c)
      PROVE  BrokerInv'
  <2>1. /\ unsubscribing' = <<c>> /\ stream[c] = "leaving"
        /\ stream' = [stream EXCEPT ![c] = "gone"]
        /\ UNCHANGED <<subscribing, clients, closed, panicked, overtook>>
    BY Zenon, <1>4 DEF Broker!Unsubscribe
  <2>2. QED
    BY Zenon, <2>1
<1>5. CASE Broker!HandleSubscribing
  <2>1. PICK c \in Streams : subscribing = <<c>>
    BY Zenon, <1>5 DEF Broker!HandleSubscribing
  <2>2. /\ subscribing' = <<>> /\ clients' = clients \cup {c} /\ panicked' = ({c} \cap closed # {})
        /\ UNCHANGED <<stream, unsubscribing, closed, overtook>>
    BY Zenon, <1>5, <2>1 DEF Broker!HandleSubscribing, Broker!SendOrDrop
  <2>3. c \in closed => c \in overtook
    BY Zenon, <2>1
  <2>4. QED
    BY Zenon, <2>1, <2>2, <2>3
<1>6. CASE Broker!HandleUnsubscribing
  <2>1. PICK c \in Streams : unsubscribing = <<c>>
    BY Zenon, <1>6 DEF Broker!HandleUnsubscribing
  <2>2. /\ unsubscribing' = <<>> /\ closed' = closed \cup {c} /\ clients' = clients \ {c}
        /\ panicked' = (c \in closed) /\ UNCHANGED <<stream, subscribing>>
        /\ overtook' = IF c \in clients THEN overtook ELSE overtook \cup {c}
    BY Zenon, <1>6, <2>1 DEF Broker!HandleUnsubscribing
  <2>3. QED
    BY Zenon, <2>1, <2>2
<1>7. CASE Broker!HandlePublish \/ Broker!HandleKeepAlive
  BY Zenon, <1>7 DEF Broker!HandlePublish, Broker!HandleKeepAlive, Broker!SendOrDrop
<1>8. CASE UNCHANGED <<stream, subscribing, unsubscribing, clients, closed, panicked, overtook>>
  BY Zenon, <1>8
<1>9. QED
  BY Zenon, <1>1, <1>2, <1>3, <1>4, <1>5, <1>6, <1>7, <1>8
  DEF Broker!Next, Broker!Serve, Broker!Listen, Broker!SendMessage, Broker!Publish, Broker!vars

\* listen() panics only after the departure of some stream overtook its arrival, for any
\* streams and events.
THEOREM PanicsHaveCause == Broker!Spec => []PanicHasCause
<1>1. Broker!Init => BrokerInv
  BY Zenon, ShortChannel DEF Broker!Init, BrokerInv
<1>2. BrokerInv => PanicHasCause
  BY Zenon DEF BrokerInv, PanicHasCause, Broker!PanicHasCause
<1>3. QED
  BY <1>1, <1>2, BrokerStep, PTL DEF Broker!Spec

-----------------------------------------------------------------------------
\* The schedules made so far
Made == 1..sMade

\* The types of the scheduler's state: everything speaks of schedules made so far.
SchedulerType ==
  /\ sMade \in 0..MaxSchedules /\ schedules \in [IDs -> Made \cup {0}]
  /\ idOf \in [1..MaxSchedules -> IDs] /\ recurring \in [1..MaxSchedules -> BOOLEAN]
  /\ armed \subseteq Made /\ stopping \subseteq Made /\ mistaken \subseteq Made
  /\ \A g \in firings : g.of \in Made

\* An ID stands for a schedule made with it and not about to be stopped; a recurring one
\* stays armed.
IDsAgree ==
  \A i \in IDs : schedules[i] # 0 =>
    /\ idOf[schedules[i]] = i /\ schedules[i] \notin stopping
    /\ recurring[schedules[i]] => schedules[i] \in armed \cup mistaken

\* A one-time schedule that has fired is not armed any more, and only its firing cleans up.
FiringsAgree ==
  \A g \in firings : /\ recurring[g.of] => g.at # "cleanup"
                     /\ ~recurring[g.of] => g.of \notin armed

\* The two halves of ScheduleIsKept
ArmedKept == \A n \in armed \ (stopping \cup mistaken) : schedules[idOf[n]] = n
IDsKept ==
  \A i \in IDs : schedules[i] # 0 => \/ schedules[i] \in armed \cup mistaken
                                     \/ \E g \in firings : g.of = schedules[i]

SchedulerInv == SchedulerType /\ IDsAgree /\ FiringsAgree /\ ArmedKept /\ IDsKept

\* What the types say of the schedules that an ID, a trigger or a firing names
LEMMA SchedulesNamed ==
  ASSUME MaxSchedules \in Nat, SchedulerType
  PROVE  /\ 0 \notin Made /\ Made \subseteq 1..MaxSchedules
         /\ \A i \in IDs : schedules[i] # 0 => schedules[i] \in Made
         /\ \A n \in Made : idOf[n] \in IDs /\ recurring[n] \in BOOLEAN
         /\ \A g \in firings : g.of \in Made
         /\ armed \subseteq Made /\ stopping \subseteq Made /\ mistaken \subseteq Made
<1>1. 0 \notin Made /\ Made \subseteq 1..MaxSchedules
  BY DEF SchedulerType, Made
<1>2. \A i \in IDs : schedules[i] # 0 => schedules[i] \in Made
  BY Zenon DEF SchedulerType
<1>3. \A n \in Made : idOf[n] \in IDs /\ recurring[n] \in BOOLEAN
  BY Zenon, <1>1 DEF SchedulerType
<1>4. QED
  BY Zenon, <1>1, <1>2, <1>3 DEF SchedulerType

\* Entries may go, as long as no schedule loses its ID or its last firing unnoticed.
LEMMA EntriesCleared ==
  ASSUME MaxSchedules \in Nat, SchedulerInv, UNCHANGED <<idOf, recurring, armed, sMade>>,
         schedules' \in [IDs -> Made \cup {0}], \A j \in IDs : schedules'[j] \in {0, schedules[j]},
         stopping \subseteq stopping', stopping' \subseteq Made,
         mistaken \subseteq mistaken', mistaken' \subseteq Made, firings' \subseteq firings,
         \A j \in IDs : schedules'[j] # 0 => schedules'[j] \notin stopping',
         \A j \in IDs, g \in firings \ firings' :
           schedules'[j] # 0 => g.of # schedules'[j] \/ schedules'[j] \in armed \cup mistaken',
         \A n \in armed \ (stopping' \cup mistaken') : schedules'[idOf[n]] = schedules[idOf[n]]
  PROVE  SchedulerInv'
<1>0. Made' = Made
  BY Zenon DEF Made
<1>1. SchedulerType'
  BY Zenon, <1>0 DEF SchedulerInv, SchedulerType
<1>2. IDsAgree'
  BY Zenon DEF SchedulerInv, IDsAgree
<1>3. FiringsAgree'
  BY Zenon DEF SchedulerInv, FiringsAgree
<1>4. ArmedKept'
  BY Zenon DEF SchedulerInv, ArmedKept
<1>5. ASSUME NEW i \in IDs, schedules'[i] # 0
      PROVE  schedules'[i] \in armed' \cup mistaken' \/ \E g \in firings' : g.of = schedules'[i]
  <2>1. schedules'[i] = schedules[i]
    BY Zenon, <1>5
  <2>2. CASE schedules[i] \in armed \cup mistaken
    BY Zenon, <2>1, <2>2
  <2>3. CASE \E g \in firings : g.of = schedules[i]
    <3>1. PICK g \in firings : g.of = schedules[i]
      BY Zenon, <2>3
    <3>2. CASE g \in firings'
      BY Zenon, <2>1, <3>1, <3>2
    <3>3. CASE g \notin firings'
      BY Zenon, <1>5, <2>1, <3>1, <3>3
    <3>4. QED
      BY Zenon, <3>2, <3>3
  <2>4. QED
    BY Zenon, <1>5, <2>1, <2>2, <2>3 DEF SchedulerInv, IDsKept
<1>6. IDsKept'
  BY Zenon, <1>5 DEF IDsKept
<1>7. QED
  BY Zenon, <1>1, <1>2, <1>3, <1>4, <1>6 DEF SchedulerInv

\* Firings may come and go on: no ID, trigger or schedule changes but the triggers that
\* fire, and a schedule that has a firing keeps one.
LEMMA FiringsChange ==
  ASSUME MaxSchedules \in Nat, SchedulerInv, UNCHANGED <<schedules, idOf, recurring, stopping, sMade>>,
         mistaken \subseteq mistaken', mistaken' \subseteq Made, armed' \subseteq armed,
         \A n \in armed \ armed' : ~recurring[n] /\ \E g \in firings' : g.of = n,
         \A g \in firings : \/ \E h \in firings' : h.of = g.of
                            \/ recurring[g.of],
         \A h \in firings' : /\ h.of \in Made
                             /\ recurring[h.of] => h.at # "cleanup"
                             /\ ~recurring[h.of] => h.of \notin armed'
  PROVE  SchedulerInv'
<1>0. Made' = Made
  BY Zenon DEF Made
<1>1. SchedulerType'
  BY Zenon, <1>0 DEF SchedulerInv, SchedulerType
<1>2. IDsAgree'
  BY Zenon DEF SchedulerInv, IDsAgree
<1>3. FiringsAgree'
  BY Zenon DEF FiringsAgree
<1>4. ArmedKept'
  BY Zenon DEF SchedulerInv, ArmedKept
<1>5. ASSUME NEW i \in IDs, schedules[i] # 0
      PROVE  schedules[i] \in armed' \cup mistaken' \/ \E g \in firings' : g.of = schedules[i]
  <2>1. CASE schedules[i] \in armed \cup mistaken
    BY Zenon, <2>1
  <2>2. CASE \E g \in firings : g.of = schedules[i]
    <3>1. PICK g \in firings : g.of = schedules[i]
      BY Zenon, <2>2
    <3>2. CASE \E h \in firings' : h.of = g.of
      BY Zenon, <3>1, <3>2
    <3>3. CASE recurring[g.of]
      <4>1. schedules[i] \in armed \cup mistaken
        BY Zenon, <1>5, <3>1, <3>3 DEF SchedulerInv, IDsAgree
      <4>2. QED
        BY Zenon, <2>1, <4>1
    <3>4. QED
      BY Zenon, <3>2, <3>3
  <2>3. QED
    BY Zenon, <1>5, <2>1, <2>2 DEF SchedulerInv, IDsKept
<1>6. IDsKept'
  BY Zenon, <1>5 DEF IDsKept
<1>7. QED
  BY Zenon, <1>1, <1>2, <1>3, <1>4, <1>6 DEF SchedulerInv

\* A firing that goes on takes nothing away from the invariant.
LEMMA FiringMoves ==
  ASSUME MaxSchedules \in Nat, SchedulerInv, NEW g \in firings, NEW p \in {"calling", "cleanup"},
         Scheduler!MoveTo(g, p), mistaken \subseteq mistaken', mistaken' \subseteq Made,
         UNCHANGED <<schedules, idOf, recurring, armed, stopping, sMade>>
  PROVE  SchedulerInv'
<1> DEFINE h == [of |-> g.of, at |-> p]
<1>1. firings' = (firings \ {g}) \cup (IF recurring[g.of] /\ p = "cleanup" THEN {} ELSE {h})
  BY Zenon DEF Scheduler!MoveTo
<1>2. h.of = g.of /\ h.at = p
  BY Zenon
<1> HIDE DEF h
<1>3. \A f \in firings : f.of \in Made
  BY Zenon, SchedulesNamed DEF SchedulerInv
<1>4. ASSUME NEW f \in firings
      PROVE  (\E e \in firings' : e.of = f.of) \/ recurring[f.of]
  BY Zenon, <1>1, <1>2
<1>5. ASSUME NEW f \in firings'
      PROVE  /\ f.of \in Made
             /\ recurring[f.of] => f.at # "cleanup"
             /\ ~recurring[f.of] => f.of \notin armed'
  <2>1. CASE f \in firings
    BY Zenon, <1>3, <2>1 DEF SchedulerInv, FiringsAgree
  <2>2. CASE f = h /\ ~(recurring[g.of] /\ p = "cleanup")
    BY Zenon, <1>2, <1>3, <2>2 DEF SchedulerInv, FiringsAgree
  <2>3. QED
    BY Zenon, <1>1, <2>1, <2>2
<1>6. QED
  BY Zenon, <1>4, <1>5, FiringsChange

\* A schedule is made: an ID that was free stands for a new schedule.
LEMMA ScheduleMade ==
  ASSUME MaxSchedules \in Nat, SchedulerInv, NEW i \in IDs, NEW r \in BOOLEAN,
         Scheduler!MakeSchedule(i, r)
  PROVE  SchedulerInv'
<1> DEFINE n == sMade + 1
<1>1. /\ sMade < MaxSchedules /\ schedules[i] = 0 /\ sMade' = n
      /\ schedules' = [schedules EXCEPT ![i] = n] /\ armed' = armed \cup {n}
      /\ idOf' = [idOf EXCEPT ![n] = i] /\ recurring' = [recurring EXCEPT ![n] = r]
      /\ UNCHANGED <<stopping, firings, mistaken>>
  BY Zenon DEF Scheduler!MakeSchedule, Scheduler!InUse, Scheduler!history
<1>2. /\ n \in 1..MaxSchedules /\ n \notin Made /\ Made' = Made \cup {n} /\ n \in 0..MaxSchedules
      /\ n # 0
  BY <1>1 DEF SchedulerInv, SchedulerType, Made
<1> HIDE DEF n
<1>3. /\ \A j \in IDs : schedules'[j] = IF j = i THEN n ELSE schedules[j]
      /\ \A m \in Made : idOf'[m] = idOf[m] /\ recurring'[m] = recurring[m]
      /\ idOf'[n] = i
  <2>1. Made \subseteq 1..MaxSchedules
    BY Zenon, SchedulesNamed DEF SchedulerInv
  <2>2. QED
    BY Zenon, <1>1, <1>2, <2>1 DEF SchedulerInv, SchedulerType
<1>4. /\ \A j \in IDs : schedules[j] # 0 => schedules[j] \in Made
      /\ 0 \notin Made /\ \A m \in Made : idOf[m] \in IDs
      /\ \A g \in firings : g.of \in Made
      /\ armed \subseteq Made /\ stopping \subseteq Made /\ mistaken \subseteq Made
  BY Zenon, SchedulesNamed DEF SchedulerInv
<1>5. SchedulerType'
  <2>1. schedules' \in [IDs -> Made' \cup {0}]
    BY Zenon, <1>1, <1>2 DEF SchedulerInv, SchedulerType
  <2>2. idOf' \in [1..MaxSchedules -> IDs] /\ recurring' \in [1..MaxSchedules -> BOOLEAN]
    BY Zenon, <1>1, <1>2 DEF SchedulerInv, SchedulerType
  <2>3. QED
    BY Zenon, <1>1, <1>2, <1>4, <2>1, <2>2 DEF SchedulerType
<1>6. IDsAgree'
  <2> SUFFICES ASSUME NEW j \in IDs, schedules'[j] # 0
               PROVE  /\ idOf'[schedules'[j]] = j /\ schedules'[j] \notin stopping'
                      /\ recurring'[schedules'[j]] => schedules'[j] \in armed' \cup mistaken'
    BY Zenon DEF IDsAgree
  <2>1. CASE j = i
    BY <1>1, <1>2, <1>3, <1>4, <2>1
  <2>2. CASE j # i
    <3>1. schedules'[j] = schedules[j] /\ schedules[j] \in Made /\ schedules[j] # 0
      BY Zenon, <1>3, <1>4, <2>2
    <3>2. /\ idOf'[schedules[j]] = idOf[schedules[j]]
          /\ recurring'[schedules[j]] = recurring[schedules[j]]
      BY Zenon, <1>3, <3>1
    <3>3. /\ idOf[schedules[j]] = j /\ schedules[j] \notin stopping
          /\ recurring[schedules[j]] => schedules[j] \in armed \cup mistaken
      BY Zenon, <3>1 DEF SchedulerInv, IDsAgree
    <3>4. stopping' = stopping /\ armed \cup mistaken \subseteq armed' \cup mistaken'
      BY Zenon, <1>1
    <3> QED BY Zenon, <3>1, <3>2, <3>3, <3>4
  <2>3. QED
    BY Zenon, <2>1, <2>2
<1>7. FiringsAgree'
  BY Zenon, <1>1, <1>2, <1>3, <1>4 DEF SchedulerInv, FiringsAgree
<1>8. ArmedKept'
  <2> SUFFICES ASSUME NEW m \in armed' \ (stopping' \cup mistaken')
               PROVE  schedules'[idOf'[m]] = m
    BY Zenon DEF ArmedKept
  <2>1. CASE m = n
    BY Zenon, <1>3, <2>1
  <2>2. CASE m # n
    <3>1. m \in armed \ (stopping \cup mistaken) /\ m \in Made /\ idOf'[m] = idOf[m]
      BY Zenon, <1>1, <1>3, <1>4, <2>2
    <3>2. schedules[idOf[m]] = m /\ m # 0
      BY Zenon, <1>4, <3>1 DEF SchedulerInv, ArmedKept
    <3>3. QED
      BY Zenon, <1>1, <1>3, <1>4, <3>1, <3>2
  <2>3. QED
    BY Zenon, <2>1, <2>2
<1>9. IDsKept'
  <2> SUFFICES ASSUME NEW j \in IDs, schedules'[j] # 0
               PROVE  \/ schedules'[j] \in armed' \cup mistaken'
                      \/ \E g \in firings' : g.of = schedules'[j]
    BY Zenon DEF IDsKept
  <2>0. n \in armed' /\ armed \cup mistaken \subseteq armed' \cup mistaken' /\ firings' = firings
    BY Zenon, <1>1
  <2>1. CASE j = i
    <3>1. schedules'[j] = n
      BY Zenon, <1>3, <2>1
    <3> QED BY Zenon, <2>0, <3>1
  <2>2. CASE j # i
    <3>1. schedules'[j] = schedules[j]
      BY Zenon, <1>3, <2>2
    <3>2. \/ schedules[j] \in armed \cup mistaken
          \/ \E g \in firings : g.of = schedules[j]
      BY Zenon, <3>1 DEF SchedulerInv, IDsKept
    <3> QED BY Zenon, <2>0, <3>1, <3>2
  <2>3. QED
    BY Zenon, <2>1, <2>2
<1>10. QED
  BY Zenon, <1>5, <1>6, <1>7, <1>8, <1>9 DEF SchedulerInv

\* Every step of the scheduler keeps it.
LEMMA SchedulerStep ==
  ASSUME MaxSchedules \in Nat, SchedulerInv, [Scheduler!Next]_(Scheduler!vars)
  PROVE  SchedulerInv'
<1> USE DEF Scheduler!triggers, Scheduler!history
<1>0. /\ 0 \notin Made
      /\ \A j \in IDs : schedules[j] # 0 => schedules[j] \in Made
      /\ \A n \in Made : idOf[n] \in IDs /\ recurring[n] \in BOOLEAN
      /\ \A g \in firings : g.of \in Made
      /\ armed \subseteq Made /\ stopping \subseteq Made /\ mistaken \subseteq Made
      /\ schedules \in [IDs -> Made \cup {0}]
  BY Zenon, SchedulesNamed DEF SchedulerInv, SchedulerType
<1>1. ASSUME NEW i \in IDs, NEW r \in BOOLEAN, Scheduler!MakeSchedule(i, r)
      PROVE  SchedulerInv'
  BY Zenon, <1>1, ScheduleMade
<1>2. ASSUME NEW i \in IDs, Scheduler!CancelSchedule(i)
      PROVE  SchedulerInv'
  <2>1. /\ schedules[i] # 0 /\ schedules' = [schedules EXCEPT ![i] = 0]
        /\ stopping' = stopping \cup {schedules[i]}
        /\ UNCHANGED <<idOf, recurring, armed, firings, sMade, mistaken>>
    BY Zenon, <1>2 DEF Scheduler!CancelSchedule, Scheduler!InUse
  <2>2. /\ schedules' \in [IDs -> Made \cup {0}]
        /\ \A j \in IDs : schedules'[j] = IF j = i THEN 0 ELSE schedules[j]
    BY Zenon, <1>0, <2>1
  <2>3. stopping' \subseteq Made
    BY Zenon, <1>0, <2>1
  <2>4. ASSUME NEW j \in IDs, schedules'[j] # 0
        PROVE  schedules'[j] \notin stopping'
    <3>1. j # i /\ schedules'[j] = schedules[j]
      BY Zenon, <2>2, <2>4
    <3>2. idOf[schedules[j]] = j /\ idOf[schedules[i]] = i /\ schedules[j] \notin stopping
      BY Zenon, <2>1, <2>4, <3>1 DEF SchedulerInv, IDsAgree
    <3>3. QED
      BY <2>1, <3>1, <3>2
  <2>5. ASSUME NEW n \in armed \ (stopping' \cup mistaken')
        PROVE  schedules'[idOf[n]] = schedules[idOf[n]]
    <3>1. n # schedules[i] /\ n \in Made /\ n \in armed \ (stopping \cup mistaken)
      BY Zenon, <1>0, <2>1
    <3>2. schedules[idOf[n]] = n /\ idOf[n] \in IDs
      BY Zenon, <1>0, <3>1 DEF SchedulerInv, ArmedKept
    <3>3. QED
      BY Zenon, <2>2, <3>1, <3>2
  <2>6. QED
    BY Zenon, <1>0, <2>1, <2>2, <2>3, <2>4, <2>5, EntriesCleared
<1>3. CASE Scheduler!Close
  <2>1. /\ schedules' = [i \in IDs |-> 0]
        /\ stopping' = stopping \cup ({schedules[i] : i \in IDs} \ {0})
        /\ UNCHANGED <<idOf, recurring, armed, firings, sMade, mistaken>>
    BY Zenon, <1>3 DEF Scheduler!Close
  <2>2. schedules' \in [IDs -> Made \cup {0}] /\ \A j \in IDs : schedules'[j] = 0
    BY Zenon, <1>0, <2>1
  <2>3. stopping' \subseteq Made
    <3>1. ASSUME NEW n \in stopping'
          PROVE  n \in Made
      <4>1. n \in stopping \/ \E i \in IDs : schedules[i] = n /\ n # 0
        BY <2>1, Zenon
      <4>2. QED
        BY Zenon, <1>0, <4>1
    <3>2. QED
      BY Zenon, <3>1
  <2>4. ASSUME NEW n \in armed \ (stopping' \cup mistaken')
        PROVE  FALSE
    <3>1. n \in armed \ (stopping \cup mistaken) /\ n \notin {schedules[i] : i \in IDs} \ {0}
      BY <2>1, Zenon
    <3>2. n # 0 /\ idOf[n] \in IDs /\ schedules[idOf[n]] = n
      BY Zenon, <1>0, <3>1 DEF SchedulerInv, ArmedKept
    <3>3. n \in {schedules[i] : i \in IDs}
      BY <3>2, Zenon
    <3>4. QED
      BY <3>1, <3>2, <3>3, Zenon
  <2>5. QED
    BY Zenon, <1>0, <2>1, <2>2, <2>3, <2>4, EntriesCleared
<1>4. ASSUME NEW n \in 1..MaxSchedules, Scheduler!StopTrigger(n)
      PROVE  SchedulerInv'
  <2>1. /\ n \in stopping /\ stopping' = stopping \ {n} /\ armed' = armed \ {n}
        /\ UNCHANGED <<schedules, idOf, recurring, firings, sMade, mistaken>>
    BY Zenon, <1>4 DEF Scheduler!StopTrigger
  <2>2. \A i \in IDs : schedules[i] # 0 => schedules[i] # n
    BY Zenon, <2>1 DEF SchedulerInv, IDsAgree
  <2>3. SchedulerType'
    <3>1. Made' = Made
      BY Zenon, <2>1 DEF Made
    <3>2. QED
      BY Zenon, <2>1, <3>1 DEF SchedulerInv, SchedulerType
  <2>4. IDsAgree'
    BY Zenon, <2>1, <2>2 DEF SchedulerInv, IDsAgree
  <2>5. FiringsAgree' /\ ArmedKept'
    BY Zenon, <2>1 DEF SchedulerInv, FiringsAgree, ArmedKept
  <2>6. IDsKept'
    BY Zenon, <2>1, <2>2 DEF SchedulerInv, IDsKept
  <2>7. QED
    BY Zenon, <2>3, <2>4, <2>5, <2>6 DEF SchedulerInv
<1>5. ASSUME NEW n \in 1..MaxSchedules, Scheduler!Fire(n)
      PROVE  SchedulerInv'
  <2> DEFINE f == [of |-> n, at |-> "lookup"]
  <2>1. /\ n \in armed /\ armed' = IF recurring[n] THEN armed ELSE armed \ {n}
        /\ firings' = firings \cup {f}
        /\ UNCHANGED <<schedules, idOf, recurring, stopping, sMade, mistaken>>
    BY Zenon, <1>5 DEF Scheduler!Fire
  <2>2. f.of = n /\ f.at = "lookup"
    BY Zenon
  <2> HIDE DEF f
  <2>3. armed' \subseteq armed /\ \A m \in armed \ armed' : m = n /\ ~recurring[m]
    BY Zenon, <2>1
  <2>4. ASSUME NEW h \in firings'
        PROVE  /\ h.of \in Made
               /\ recurring[h.of] => h.at # "cleanup"
               /\ ~recurring[h.of] => h.of \notin armed'
    <3>1. CASE h \in firings
      BY Zenon, <1>0, <2>3, <3>1 DEF SchedulerInv, FiringsAgree
    <3>2. CASE h = f
      BY Zenon, <1>0, <2>1, <2>2, <3>2
    <3>3. QED
      BY Zenon, <2>1, <3>1, <3>2
  <2>5. QED
    BY Zenon, <1>0, <2>1, <2>2, <2>3, <2>4, FiringsChange
<1>6. ASSUME NEW g \in firings, Scheduler!LookUp(g)
      PROVE  SchedulerInv'
  <2>1. PICK p \in {"calling", "cleanup"} : Scheduler!MoveTo(g, p)
    BY Zenon, <1>6 DEF Scheduler!LookUp
  <2>2. UNCHANGED <<schedules, idOf, recurring, armed, stopping, sMade>>
    BY Zenon, <1>6 DEF Scheduler!LookUp
  <2>3. \/ mistaken' = mistaken
        \/ schedules[idOf[g.of]] # 0 /\ mistaken' = mistaken \cup {schedules[idOf[g.of]]}
    BY Zenon, <1>6 DEF Scheduler!LookUp
  <2>4. mistaken \subseteq mistaken' /\ mistaken' \subseteq Made
    <3>1. idOf[g.of] \in IDs
      BY Zenon, <1>0
    <3>2. QED
      BY Zenon, <1>0, <2>3, <3>1
  <2>5. QED
    BY Zenon, <2>1, <2>2, <2>4, FiringMoves
<1>7. ASSUME NEW g \in firings, Scheduler!CallReturns(g)
      PROVE  SchedulerInv'
  <2>1. PICK p \in {"calling", "cleanup"} : Scheduler!MoveTo(g, p)
    BY Zenon, <1>7 DEF Scheduler!CallReturns
  <2>2. UNCHANGED <<schedules, idOf, recurring, armed, stopping, sMade, mistaken>>
    BY Zenon, <1>7 DEF Scheduler!CallReturns
  <2>3. QED
    BY Zenon, <1>0, <2>1, <2>2, FiringMoves
<1>8. ASSUME NEW g \in firings, Scheduler!CleanUp(g)
      PROVE  SchedulerInv'
  <2> DEFINE i == idOf[g.of]
  <2>1. /\ g.at = "cleanup" /\ firings' = firings \ {g} /\ schedules' = [schedules EXCEPT ![i] = 0]
        /\ mistaken' = IF schedules[i] \in {0, g.of} THEN mistaken ELSE mistaken \cup {schedules[i]}
        /\ UNCHANGED <<idOf, recurring, armed, stopping, sMade>>
    BY Zenon, <1>8 DEF Scheduler!CleanUp
  <2>2. i \in IDs
    BY Zenon, <1>0
  <2>3. g.of \notin armed
    BY Zenon, <1>0, <2>1 DEF SchedulerInv, FiringsAgree
  <2>4. \A j \in IDs : schedules[j] = g.of => j = i
    BY <1>0 DEF SchedulerInv, IDsAgree
  <2> HIDE DEF i
  <2>5. /\ schedules' \in [IDs -> Made \cup {0}]
        /\ \A j \in IDs : schedules'[j] = IF j = i THEN 0 ELSE schedules[j]
    BY Zenon, <1>0, <2>1, <2>2
  <2>6. mistaken \subseteq mistaken' /\ mistaken' \subseteq Made
    BY Zenon, <1>0, <2>1, <2>2
  <2>7. ASSUME NEW n \in armed \ (stopping' \cup mistaken')
        PROVE  schedules'[idOf[n]] = schedules[idOf[n]]
    <3>1. schedules[idOf[n]] = n /\ n \in Made /\ n # 0 /\ idOf[n] \in IDs /\ n # g.of
      BY Zenon, <1>0, <2>1, <2>3, <2>6 DEF SchedulerInv, ArmedKept
    <3>2. idOf[n] # i
      BY Zenon, <2>1, <3>1
    <3>3. QED
      BY Zenon, <2>5, <3>1, <3>2
  <2>8. ASSUME NEW j \in IDs, schedules'[j] # 0
        PROVE  schedules'[j] \notin stopping' /\ schedules'[j] # g.of
    <3>1. j # i /\ schedules'[j] = schedules[j]
      BY Zenon, <2>5, <2>8
    <3>2. schedules[j] \notin stopping
      BY Zenon, <2>8, <3>1 DEF SchedulerInv, IDsAgree
    <3>3. QED
      BY <2>1, <2>4, <3>1, <3>2
  <2>9. QED
    BY Zenon, <1>0, <2>1, <2>5, <2>6, <2>7, <2>8, EntriesCleared
<1>9. CASE UNCHANGED Scheduler!vars
  BY Zenon, <1>9 DEF Scheduler!vars, SchedulerInv, SchedulerType, IDsAgree, FiringsAgree, ArmedKept, IDsKept, Made
<1>10. QED
  BY Zenon, <1>1, <1>2, <1>3, <1>4, <1>5, <1>6, <1>7, <1>8, <1>9
  DEF Scheduler!Next, Scheduler!Run, Scheduler!Firing, Scheduler!Schedule

\* A new scheduler satisfies it.
LEMMA SchedulerStarts ==
  ASSUME MaxSchedules \in Nat, IDs # {}, Scheduler!Init
  PROVE  SchedulerInv
<1>1. /\ schedules = [i \in IDs |-> 0] /\ sMade = 0 /\ firings = {}
      /\ armed = {} /\ stopping = {} /\ mistaken = {}
  BY Zenon DEF Scheduler!Init
<1>2. idOf \in [1..MaxSchedules -> IDs] /\ recurring \in [1..MaxSchedules -> BOOLEAN]
  BY Zenon DEF Scheduler!Init, Scheduler!Schedule
<1>3. SchedulerType
  BY <1>1, <1>2 DEF SchedulerType, Made
<1>4. IDsAgree /\ FiringsAgree /\ ArmedKept /\ IDsKept
  BY Zenon, <1>1 DEF IDsAgree, FiringsAgree, ArmedKept, IDsKept
<1> QED BY Zenon, <1>3, <1>4 DEF SchedulerInv

\* The IDs of a plugin's scheduler and what can fire agree, for any IDs and any number of
\* schedules and firings, with the exception the property names.
THEOREM SchedulesKept ==
  ASSUME MaxSchedules \in Nat, IDs # {}
  PROVE  Scheduler!Spec => []ScheduleIsKept
<1>1. Scheduler!Init => SchedulerInv
  BY Zenon, SchedulerStarts
<1>2. SchedulerInv => ScheduleIsKept
  BY Zenon DEF SchedulerInv, ArmedKept, IDsKept, ScheduleIsKept, Scheduler!ScheduleIsKept
<1>3. QED
  BY <1>1, <1>2, SchedulerStep, PTL DEF Scheduler!Spec


-----------------------------------------------------------------------------
(* The types of the services, and the services side by side. *)

\* The queues and the batches of the two workers keep their types.
LEMMA WorkersTypeStep ==
  ASSUME Workers!TypeOK, [Workers!Next]_(Workers!vars)
  PROVE  Workers!TypeOK'
<1>b. BatchOK'
  BY Zenon, BatchStep DEF Workers!TypeOK, BatchOK
<1>s. prSignal' \in BOOLEAN /\ prWorker' \in {"waiting", "taking", "sending"}
  BY Zenon DEF Workers!TypeOK, Workers!Next, Workers!ReportWorker, Workers!NowPlayingWorker,
         Workers!EnqueuePlaybackReport, Workers!Wake, Workers!ReportWake, Workers!ReportTake,
         Workers!DispatchPlaybackReport, Workers!NowPlayingTake, Workers!EnqueueNowPlaying,
         Workers!DispatchNowPlaying, Workers!reports, Workers!updates, Workers!vars
<1>n. Workers!None \in [Players -> Nat]
  BY Zenon DEF Workers!None
<1>t. /\ npQueue \in [Players -> Nat] /\ npBatch \in [Players -> Nat] /\ npMade \in [Players -> Nat]
      /\ npSent \in [Players -> Nat] /\ npWorker \in {"waiting", "sending"}
  BY Zenon DEF Workers!TypeOK
<1> DEFINE Updates == /\ npQueue' \in [Players -> Nat] /\ npBatch' \in [Players -> Nat]
                      /\ npMade' \in [Players -> Nat] /\ npSent' \in [Players -> Nat]
                      /\ npWorker' \in {"waiting", "sending"}
<1>1. ASSUME NEW p \in Players, Workers!EnqueueNowPlaying(p) PROVE Updates
  BY <1>t, <1>1 DEF Workers!EnqueueNowPlaying
<1>2. ASSUME Workers!NowPlayingTake PROVE Updates
  BY Zenon, <1>t, <1>n, <1>2 DEF Workers!NowPlayingTake
<1>3. ASSUME NEW p \in Players, Workers!DispatchNowPlaying(p) PROVE Updates
  BY Zenon, <1>t, <1>3 DEF Workers!DispatchNowPlaying
<1>4. ASSUME UNCHANGED Workers!updates PROVE Updates
  BY Zenon, <1>t, <1>4 DEF Workers!updates
<1>5. Updates
  BY Zenon, <1>1, <1>2, <1>3, <1>4
  DEF Workers!Next, Workers!ReportWorker, Workers!NowPlayingWorker, Workers!EnqueuePlaybackReport,
      Workers!ReportWake, Workers!ReportTake, Workers!DispatchPlaybackReport, Workers!vars
<1> QED BY Zenon, <1>b, <1>s, <1>5 DEF Workers!TypeOK, BatchOK

\* What happens to a channel: an element is appended or the first one taken.
LEMMA ChannelSteps ==
  ASSUME NEW S, NEW s \in Seq(S)
  PROVE  /\ \A x \in S : Append(s, x) \in Seq(S) /\ Len(Append(s, x)) = Len(s) + 1
         /\ s # <<>> => Head(s) \in S /\ Tail(s) \in Seq(S) /\ Len(Tail(s)) <= Len(s)
         /\ Len(s) \in Nat
OBVIOUS

\* sendOrDrop() never fills a stream's channel beyond its capacity.
LEMMA SendTypes ==
  ASSUME Broker!TypeOK, NEW cs \in SUBSET Streams,
         NEW m \in Events \cup {Broker!ServerStart, Broker!KeepAlive}, Broker!SendOrDrop(cs, m)
  PROVE  /\ panicked' \in BOOLEAN
         /\ msgC' \in [Streams -> Seq(Events \cup {Broker!ServerStart, Broker!KeepAlive})]
         /\ \A c \in Streams : Len(msgC'[c]) <= Broker!bufferSize
<1> DEFINE M == Events \cup {Broker!ServerStart, Broker!KeepAlive}
           new(c) == IF c \in cs \ closed /\ Len(msgC[c]) < Broker!bufferSize
                     THEN Append(msgC[c], m) ELSE msgC[c]
<1>1. panicked' \in BOOLEAN /\ msgC' = [c \in Streams |-> new(c)]
  BY Zenon DEF Broker!SendOrDrop
<1>2. ASSUME NEW c \in Streams PROVE new(c) \in Seq(M) /\ Len(new(c)) <= Broker!bufferSize
  <2>1. msgC[c] \in Seq(M) /\ Len(msgC[c]) <= Broker!bufferSize
    BY Zenon DEF Broker!TypeOK
  <2> HIDE DEF M
  <2>2. m \in M
    BY Zenon DEF M
  <2>3. Append(msgC[c], m) \in Seq(M) /\ Len(Append(msgC[c], m)) = Len(msgC[c]) + 1 /\ Len(msgC[c]) \in Nat
    BY Zenon, <2>1, <2>2, ChannelSteps
  <2> QED BY <2>1, <2>3 DEF Broker!bufferSize
<1> HIDE DEF M, new
<1>3. msgC' \in [Streams -> Seq(M)] /\ \A c \in Streams : Len(msgC'[c]) <= Broker!bufferSize
  BY Zenon, <1>1, <1>2
<1> QED BY Zenon, <1>1, <1>3 DEF M


\* The channels of the broker keep their capacities and what it knows are streams.
LEMMA BrokerTypeStep ==
  ASSUME MaxTicks \in Nat, Broker!TypeOK, [Broker!Next]_(Broker!vars)
  PROVE  Broker!TypeOK'
<1> DEFINE M == Events \cup {Broker!ServerStart, Broker!KeepAlive}
           Stages == {"new", "arriving", "open", "leaving", "gone"}
           Channels == /\ publish \in Seq(Events) /\ Len(publish) <= Broker!publishSize
                       /\ subscribing \in Seq(Streams) /\ Len(subscribing) <= Broker!subscribingSize
                       /\ unsubscribing \in Seq(Streams) /\ Len(unsubscribing) <= Broker!subscribingSize
           Messages == /\ msgC \in [Streams -> Seq(M)]
                       /\ \A c \in Streams : Len(msgC[c]) <= Broker!bufferSize
           Known == clients \subseteq Streams /\ closed \subseteq Streams /\ overtook \subseteq Streams
           Rest == /\ stream \in [Streams -> Stages] /\ sender \in [Events -> {"new", "waiting", "sent"}]
                   /\ panicked \in BOOLEAN /\ ticks \in 0..MaxTicks
<1>t. Channels /\ Messages /\ Known /\ Rest
  BY Zenon DEF Broker!TypeOK
<1>q. Channels' /\ Messages' /\ Known' /\ Rest' => Broker!TypeOK'
  BY Zenon DEF Broker!TypeOK
<1>s. ASSUME NEW cs \in SUBSET Streams, NEW m \in M, Broker!SendOrDrop(cs, m)
      PROVE  Messages' /\ panicked' \in BOOLEAN
  BY Zenon, <1>s, SendTypes
<1>c. ASSUME UNCHANGED Broker!channels PROVE Channels'
  BY Zenon, <1>t, <1>c DEF Broker!channels
<1>m. ASSUME UNCHANGED msgC PROVE Messages'
  BY Zenon, <1>t, <1>m
<1>k. ASSUME UNCHANGED <<clients, closed, overtook>> PROVE Known'
  BY Zenon, <1>t, <1>k
<1>a. ASSUME UNCHANGED <<stream, sender, panicked, ticks>> PROVE Rest'
  BY Zenon, <1>t, <1>a
<1>1. ASSUME NEW e \in Events, Broker!SendMessage(e) PROVE Broker!TypeOK'
  <2>1. UNCHANGED <<stream, Broker!channels, clients, msgC, closed, panicked, overtook, ticks>>
    BY Zenon, <1>1 DEF Broker!SendMessage
  <2>2. Rest'
    BY Zenon, <1>1, <1>t, <2>1 DEF Broker!SendMessage
  <2> HIDE DEF Channels, Messages, Known, Rest
  <2> QED BY Zenon, <1>q, <1>c, <1>m, <1>k, <2>1, <2>2
<1>2. ASSUME NEW e \in Events, Broker!Publish(e) PROVE Broker!TypeOK'
  <2>1. UNCHANGED <<stream, subscribing, unsubscribing, clients, msgC, closed, panicked, overtook, ticks>>
    BY Zenon, <1>2 DEF Broker!Publish
  <2>2. Rest'
    BY Zenon, <1>2, <1>t, <2>1 DEF Broker!Publish
  <2>3. publish' \in Seq(Events) /\ Len(publish') = Len(publish) + 1 /\ Len(publish) \in Nat
    BY Zenon, <1>2, <1>t, ChannelSteps DEF Broker!Publish
  <2>4. Len(publish) < Broker!publishSize
    BY Zenon, <1>2 DEF Broker!Publish
  <2>5. Channels'
    BY <1>t, <2>1, <2>3, <2>4 DEF Broker!publishSize
  <2> HIDE DEF Channels, Messages, Known, Rest
  <2> QED BY Zenon, <1>q, <1>m, <1>k, <2>1, <2>2, <2>5
<1>3. ASSUME NEW c \in Streams, Broker!Connect(c) \/ Broker!Disconnect(c) PROVE Broker!TypeOK'
  <2>1. UNCHANGED <<sender, Broker!channels, clients, msgC, closed, panicked, overtook, ticks>>
    BY Zenon, <1>3 DEF Broker!Connect, Broker!Disconnect
  <2>2. Rest'
    BY Zenon, <1>3, <1>t, <2>1 DEF Broker!Connect, Broker!Disconnect
  <2> HIDE DEF Channels, Messages, Known, Rest
  <2> QED BY Zenon, <1>q, <1>c, <1>m, <1>k, <2>1, <2>2
<1>4. ASSUME NEW c \in Streams, Broker!Subscribe(c) PROVE Broker!TypeOK'
  <2>1. UNCHANGED <<sender, publish, unsubscribing, clients, msgC, closed, panicked, overtook, ticks>>
    BY Zenon, <1>4 DEF Broker!Subscribe
  <2>2. Rest'
    BY Zenon, <1>4, <1>t, <2>1 DEF Broker!Subscribe
  <2>3. subscribing' \in Seq(Streams) /\ Len(subscribing') = Len(subscribing) + 1 /\ Len(subscribing) \in Nat
    BY Zenon, <1>4, <1>t, ChannelSteps DEF Broker!Subscribe
  <2>4. Len(subscribing) < Broker!subscribingSize
    BY Zenon, <1>4 DEF Broker!Subscribe
  <2>5. Channels'
    BY <1>t, <2>1, <2>3, <2>4 DEF Broker!subscribingSize
  <2> HIDE DEF Channels, Messages, Known, Rest
  <2> QED BY Zenon, <1>q, <1>m, <1>k, <2>1, <2>2, <2>5
<1>5. ASSUME NEW c \in Streams, Broker!Unsubscribe(c) PROVE Broker!TypeOK'
  <2>1. UNCHANGED <<sender, publish, subscribing, clients, msgC, closed, panicked, overtook, ticks>>
    BY Zenon, <1>5 DEF Broker!Unsubscribe
  <2>2. Rest'
    BY Zenon, <1>5, <1>t, <2>1 DEF Broker!Unsubscribe
  <2>3. /\ unsubscribing' \in Seq(Streams) /\ Len(unsubscribing') = Len(unsubscribing) + 1
        /\ Len(unsubscribing) \in Nat
    BY Zenon, <1>5, <1>t, ChannelSteps DEF Broker!Unsubscribe
  <2>4. Len(unsubscribing) < Broker!subscribingSize
    BY Zenon, <1>5 DEF Broker!Unsubscribe
  <2>5. Channels'
    BY <1>t, <2>1, <2>3, <2>4 DEF Broker!subscribingSize
  <2> HIDE DEF Channels, Messages, Known, Rest
  <2> QED BY Zenon, <1>q, <1>m, <1>k, <2>1, <2>2, <2>5
<1>6. ASSUME NEW c \in Streams, Broker!Write(c) PROVE Broker!TypeOK'
  <2>1. UNCHANGED <<sender, Broker!channels, clients, closed, panicked, overtook, ticks>>
    BY Zenon, <1>6 DEF Broker!Write
  <2>2. PICK s \in {"open", "leaving"} : stream' = [stream EXCEPT ![c] = s]
    BY Zenon, <1>6 DEF Broker!Write
  <2>3. Rest'
    BY Zenon, <1>t, <2>1, <2>2
  <2>4. msgC' = [msgC EXCEPT ![c] = Tail(msgC[c])] /\ msgC[c] # <<>> /\ msgC[c] \in Seq(M)
    BY Zenon, <1>6, <1>t DEF Broker!Write
  <2> HIDE DEF M
  <2>5. Tail(msgC[c]) \in Seq(M) /\ Len(Tail(msgC[c])) <= Len(msgC[c]) /\ Len(msgC[c]) \in Nat
    BY Zenon, <2>4, ChannelSteps
  <2>6. Len(Tail(msgC[c])) \in Nat
    BY Zenon, <2>5, ChannelSteps
  <2>7. Len(Tail(msgC[c])) <= Broker!bufferSize
    BY <1>t, <2>5, <2>6 DEF Broker!bufferSize
  <2>8. Messages'
    BY Zenon, <1>t, <2>4, <2>5, <2>7
  <2> HIDE DEF Channels, Messages, Known, Rest
  <2> QED BY Zenon, <1>q, <1>c, <1>k, <2>1, <2>3, <2>8
<1>7. ASSUME Broker!HandleSubscribing PROVE Broker!TypeOK'
  <2> DEFINE c == Head(subscribing)
  <2>1. /\ UNCHANGED <<stream, sender, publish, unsubscribing, closed, overtook, ticks>>
        /\ subscribing # <<>> /\ clients' = clients \cup {c} /\ subscribing' = Tail(subscribing)
        /\ Broker!SendOrDrop({c}, Broker!ServerStart)
    BY Zenon, <1>7 DEF Broker!HandleSubscribing
  <2>2. /\ c \in Streams /\ subscribing' \in Seq(Streams) /\ Len(subscribing') <= Len(subscribing)
        /\ Len(subscribing) \in Nat
    BY Zenon, <1>t, <2>1, ChannelSteps
  <2>3. Len(subscribing') \in Nat
    BY Zenon, <2>2, ChannelSteps
  <2>4. Channels'
    BY <1>t, <2>1, <2>2, <2>3 DEF Broker!subscribingSize
  <2>5. Known'
    BY Zenon, <1>t, <2>1, <2>2
  <2>6. Messages' /\ panicked' \in BOOLEAN
    BY Zenon, <1>s, <2>1, <2>2
  <2>7. Rest'
    BY Zenon, <1>t, <2>1, <2>6
  <2> HIDE DEF Channels, Messages, Known, Rest
  <2> QED BY Zenon, <1>q, <2>4, <2>5, <2>6, <2>7
<1>8. ASSUME Broker!HandleUnsubscribing PROVE Broker!TypeOK'
  <2> DEFINE c == Head(unsubscribing)
  <2>1. /\ UNCHANGED <<stream, sender, publish, subscribing, msgC, ticks>>
        /\ unsubscribing # <<>> /\ closed' = closed \cup {c} /\ clients' = clients \ {c}
        /\ unsubscribing' = Tail(unsubscribing) /\ panicked' \in BOOLEAN
        /\ overtook' \subseteq overtook \cup {c}
    BY <1>8 DEF Broker!HandleUnsubscribing
  <2>2. /\ c \in Streams /\ unsubscribing' \in Seq(Streams) /\ Len(unsubscribing') <= Len(unsubscribing)
        /\ Len(unsubscribing) \in Nat
    BY Zenon, <1>t, <2>1, ChannelSteps
  <2>3. Len(unsubscribing') \in Nat
    BY Zenon, <2>2, ChannelSteps
  <2>4. Channels'
    BY <1>t, <2>1, <2>2, <2>3 DEF Broker!subscribingSize
  <2>5. Known' /\ Rest'
    BY Zenon, <1>t, <2>1, <2>2
  <2> HIDE DEF Channels, Messages, Known, Rest
  <2> QED BY Zenon, <1>q, <1>m, <2>1, <2>4, <2>5
<1>9. ASSUME Broker!HandlePublish PROVE Broker!TypeOK'
  <2> DEFINE e == Head(publish)
             cs == {c \in clients : Broker!ShouldSend(e, c)}
  <2>1. /\ UNCHANGED <<stream, sender, subscribing, unsubscribing, clients, closed, overtook, ticks>>
        /\ publish # <<>> /\ publish' = Tail(publish) /\ Broker!SendOrDrop(cs, e)
    BY Zenon, <1>9 DEF Broker!HandlePublish
  <2>2. /\ e \in Events /\ publish' \in Seq(Events) /\ Len(publish') <= Len(publish)
        /\ Len(publish) \in Nat
    BY Zenon, <1>t, <2>1, ChannelSteps
  <2>3. Len(publish') \in Nat
    BY Zenon, <2>2, ChannelSteps
  <2>4. Channels'
    BY <1>t, <2>1, <2>2, <2>3 DEF Broker!publishSize
  <2>5. cs \in SUBSET Streams
    BY Zenon, <1>t
  <2> HIDE DEF cs, e
  <2>6. Messages' /\ panicked' \in BOOLEAN
    BY Zenon, <1>s, <2>1, <2>2, <2>5
  <2>7. Rest'
    BY Zenon, <1>t, <2>1, <2>6
  <2> HIDE DEF Channels, Messages, Known, Rest
  <2> QED BY Zenon, <1>q, <1>k, <2>1, <2>4, <2>6, <2>7
<1>10. ASSUME Broker!HandleKeepAlive PROVE Broker!TypeOK'
  <2>1. /\ UNCHANGED <<stream, sender, Broker!channels, clients, closed, overtook>>
        /\ ticks < MaxTicks /\ ticks' = ticks + 1 /\ Broker!SendOrDrop(clients, Broker!KeepAlive)
    BY Zenon, <1>10 DEF Broker!HandleKeepAlive
  <2>2. Messages' /\ panicked' \in BOOLEAN
    BY Zenon, <1>s, <1>t, <2>1
  <2>3. ticks' \in 0..MaxTicks
    BY <1>t, <2>1
  <2>4. Rest'
    BY Zenon, <1>t, <2>1, <2>2, <2>3
  <2> HIDE DEF Channels, Messages, Known, Rest
  <2> QED BY Zenon, <1>q, <1>c, <1>k, <2>1, <2>2, <2>4
<1>11. ASSUME UNCHANGED Broker!vars PROVE Broker!TypeOK'
  <2> HIDE DEF Channels, Messages, Known, Rest
  <2> QED BY Zenon, <1>q, <1>c, <1>m, <1>k, <1>a, <1>11 DEF Broker!vars
<1> QED
  BY Zenon, <1>1, <1>2, <1>3, <1>4, <1>5, <1>6, <1>7, <1>8, <1>9, <1>10, <1>11
  DEF Broker!Next, Broker!Serve, Broker!Listen


\* What the scheduler counts and what its goroutines carry keep their types.
LEMMA SchedulerTypeStep ==
  ASSUME MaxSchedules \in Nat, MaxFirings \in Nat, Scheduler!TypeOK, SchedulerInv, SchedulerInv',
         [Scheduler!Next]_(Scheduler!vars)
  PROVE  Scheduler!TypeOK'
<1> DEFINE N == 1..MaxSchedules
           Places == {"lookup", "calling", "cleanup"}
           Firings == firings \subseteq [of : N, at : Places]
           Histories == called \subseteq N /\ dropped \subseteq N
           Rest == loaded \in BOOLEAN /\ fired \in [N -> 0..MaxFirings]
<1>t. Firings /\ Histories /\ Rest
  BY Zenon DEF Scheduler!TypeOK, Scheduler!Schedule
<1>m. \A i \in IDs : schedules[i] \in N \cup {0}
  BY DEF SchedulerInv, SchedulerType, Made
<1>q. ASSUME Firings', Histories', Rest' PROVE Scheduler!TypeOK'
  <2>1. SchedulerType'
    BY Zenon DEF SchedulerInv
  <2>2. Made' \cup {0} = 0..sMade' /\ Made' \subseteq N
    BY <2>1 DEF SchedulerType, Made
  <2>3. /\ schedules' \in [IDs -> 0..sMade'] /\ armed' \subseteq N /\ stopping' \subseteq N
        /\ mistaken' \subseteq N
    BY Zenon, <2>1, <2>2 DEF SchedulerType
  <2> QED BY Zenon, <1>q, <2>1, <2>3 DEF SchedulerType, Scheduler!TypeOK, Scheduler!Schedule
<1>1. ASSUME UNCHANGED <<firings, loaded, fired, called>>, dropped' \subseteq N PROVE Scheduler!TypeOK'
  <2>1. Firings' /\ Histories' /\ Rest'
    BY Zenon, <1>1, <1>t
  <2> HIDE DEF Firings, Histories, Rest
  <2> QED BY Zenon, <1>q, <2>1
<1>2. ASSUME NEW i \in IDs, Scheduler!CancelSchedule(i) PROVE Scheduler!TypeOK'
  <2>1. schedules[i] \in N
    BY Zenon, <1>2, <1>m DEF Scheduler!CancelSchedule, Scheduler!InUse
  <2>2. dropped' \subseteq N
    BY Zenon, <1>2, <1>t, <2>1 DEF Scheduler!CancelSchedule
  <2> QED BY Zenon, <1>1, <1>2, <2>2 DEF Scheduler!CancelSchedule
<1>3. ASSUME NEW i \in IDs, NEW r \in BOOLEAN, Scheduler!MakeSchedule(i, r) PROVE Scheduler!TypeOK'
  BY Zenon, <1>1, <1>3, <1>t DEF Scheduler!MakeSchedule, Scheduler!history
<1>4. ASSUME Scheduler!Close PROVE Scheduler!TypeOK'
  <2>1. UNCHANGED <<firings, fired, called>> /\ loaded' = FALSE
    BY Zenon, <1>4 DEF Scheduler!Close
  <2>2. dropped' = dropped \cup ({schedules[i] : i \in IDs} \ {0})
    BY Zenon, <1>4 DEF Scheduler!Close
  <2>3. dropped' \subseteq N
    BY Zenon, <1>m, <1>t, <2>2
  <2>4. Firings' /\ Histories' /\ Rest'
    BY Zenon, <1>t, <2>1, <2>3
  <2> HIDE DEF Firings, Histories, Rest
  <2> QED BY Zenon, <1>q, <2>4
<1>5. ASSUME NEW n \in N, Scheduler!StopTrigger(n) PROVE Scheduler!TypeOK'
  BY Zenon, <1>1, <1>5, <1>t DEF Scheduler!StopTrigger, Scheduler!history
<1>6. ASSUME NEW n \in N, Scheduler!Fire(n) PROVE Scheduler!TypeOK'
  <2>1. /\ UNCHANGED <<loaded, called, dropped>> /\ fired[n] < MaxFirings
        /\ fired' = [fired EXCEPT ![n] = fired[n] + 1]
        /\ firings' = firings \cup {[of |-> n, at |-> "lookup"]}
    BY Zenon, <1>6 DEF Scheduler!Fire, Scheduler!history
  <2>2. fired[n] + 1 \in 0..MaxFirings
    BY <1>t, <2>1
  <2>3. Rest' /\ Histories'
    BY Zenon, <1>t, <2>1, <2>2
  <2>4. Firings'
    BY <1>t, <2>1
  <2> HIDE DEF Firings, Histories, Rest
  <2> QED BY Zenon, <1>q, <2>3, <2>4
<1>7. ASSUME NEW g \in firings, NEW p \in Places, Scheduler!MoveTo(g, p) PROVE Firings'
  <2>1. g.of \in N
    BY Zenon, <1>t
  <2>2. [of |-> g.of, at |-> p] \in [of : N, at : Places]
    BY Zenon, <2>1
  <2> QED BY Zenon, <1>7, <1>t, <2>2 DEF Scheduler!MoveTo
<1>8. ASSUME NEW g \in firings, Scheduler!LookUp(g) PROVE Scheduler!TypeOK'
  <2>1. UNCHANGED <<loaded, fired, dropped>> /\ (Scheduler!MoveTo(g, "calling") \/ Scheduler!MoveTo(g, "cleanup"))
    BY Zenon, <1>8 DEF Scheduler!LookUp, Scheduler!triggers
  <2>2. idOf[g.of] \in IDs
    BY Zenon, <1>t DEF Scheduler!TypeOK, Scheduler!Schedule
  <2>3. called' \subseteq N
    BY Zenon, <1>8, <1>m, <1>t, <2>2 DEF Scheduler!LookUp
  <2>4. Histories' /\ Rest'
    BY Zenon, <1>t, <2>1, <2>3
  <2>5. Firings'
    BY Zenon, <1>7, <2>1
  <2> HIDE DEF Firings, Histories, Rest
  <2> QED BY Zenon, <1>q, <2>4, <2>5
<1>9. ASSUME NEW g \in firings, Scheduler!CallReturns(g) PROVE Scheduler!TypeOK'
  <2>1. UNCHANGED <<loaded, fired, called, dropped>> /\ Scheduler!MoveTo(g, "cleanup")
    BY Zenon, <1>9 DEF Scheduler!CallReturns, Scheduler!triggers, Scheduler!history
  <2>2. Histories' /\ Rest'
    BY Zenon, <1>t, <2>1
  <2>3. Firings'
    BY Zenon, <1>7, <2>1
  <2> HIDE DEF Firings, Histories, Rest
  <2> QED BY Zenon, <1>q, <2>2, <2>3
<1>10. ASSUME NEW g \in firings, Scheduler!CleanUp(g) PROVE Scheduler!TypeOK'
  <2>1. UNCHANGED <<loaded, fired, called, dropped>> /\ firings' = firings \ {g}
    BY Zenon, <1>10 DEF Scheduler!CleanUp, Scheduler!triggers
  <2>2. Firings' /\ Histories' /\ Rest'
    BY Zenon, <1>t, <2>1
  <2> HIDE DEF Firings, Histories, Rest
  <2> QED BY Zenon, <1>q, <2>2
<1>11. ASSUME UNCHANGED Scheduler!vars PROVE Scheduler!TypeOK'
  BY Zenon, <1>1, <1>11, <1>t DEF Scheduler!vars, Scheduler!triggers, Scheduler!history
<1> QED
  BY Zenon, <1>2, <1>3, <1>4, <1>5, <1>6, <1>8, <1>9, <1>10, <1>11
  DEF Scheduler!Next, Scheduler!Run, Scheduler!Firing, Scheduler!Schedule


\* The reader of a request is open until the request has its transcoder, unless it
\* bypasses the cache, and a writer that ends with an error or a marker has a key.
AtOpening == {"opening", "limiting", "starting", "refused"}
AtKeyed == {"copied", "failed", "marked", "unclosed", "emptied", "cancelled"}
ReadersInv ==
  /\ readers \in [1..MaxEntries -> 0..MaxReaders]
  /\ \A n \in 1..MaxEntries : cAt[n] \in AtOpening /\ keyOf[n] # NoKey => readers[n] > 0
  /\ \A n \in 1..MaxEntries : cAt[n] \in AtKeyed => keyOf[n] # NoKey

\* A step of the cache that touches no reader, entry or key
LEMMA ReadersKept == ASSUME ReadersInv, UNCHANGED <<readers, cAt, keyOf>> PROVE ReadersInv'
BY Zenon DEF ReadersInv

\* An entry moves on and keeps its readers.
LEMMA ReadersMove ==
  ASSUME CacheType, ReadersInv, UNCHANGED <<readers, keyOf>>, NEW n \in 1..MaxEntries, NEW p,
         cAt' = [cAt EXCEPT ![n] = p], p \in AtOpening => cAt[n] \in AtOpening,
         p \in AtKeyed => keyOf[n] # NoKey
  PROVE  ReadersInv'
<1>1. \A m \in 1..MaxEntries : cAt'[m] = IF m = n THEN p ELSE cAt[m]
  BY Zenon DEF CacheType
<1> QED BY Zenon, <1>1 DEF ReadersInv

\* A reader comes or leaves, or the readers of an entry are closed, as it moves on or not.
LEMMA ReadersChange ==
  ASSUME CacheType, ReadersInv, UNCHANGED keyOf, NEW n \in 1..MaxEntries, NEW r \in 0..MaxReaders, NEW p,
         readers' = [readers EXCEPT ![n] = r],
         \A m \in 1..MaxEntries : cAt'[m] = IF m = n THEN p ELSE cAt[m],
         p \in AtOpening /\ keyOf[n] # NoKey => r > 0, p \in AtKeyed => keyOf[n] # NoKey
  PROVE  ReadersInv'
<1>1. readers' \in [1..MaxEntries -> 0..MaxReaders]
  BY Zenon DEF ReadersInv
<1>2. \A m \in 1..MaxEntries : readers'[m] = IF m = n THEN r ELSE readers[m]
  BY Zenon DEF ReadersInv
<1> QED BY Zenon, <1>1, <1>2 DEF ReadersInv

\* Every step of the cache keeps it.
LEMMA ReadersStep ==
  ASSUME MaxEntries \in Nat, MaxReaders \in Nat \ {0}, NoKey \notin Keys,
         CacheType, OwnersInv, ReadersInv, [Cache!Next]_(Cache!vars)
  PROVE  ReadersInv'
<1> USE DEF Cache!GoTo, Cache!entries, Cache!disk, Cache!slots, Cache!process, Cache!history
<1>t. /\ cAt \in [1..MaxEntries -> Cache!Places] /\ cMade \in 0..MaxEntries
      /\ \A n \in 1..MaxEntries : readers[n] \in 0..MaxReaders
  BY Zenon DEF CacheType, ReadersInv
<1>1. ASSUME NEW k \in Keys, Cache!GetHit(k) PROVE ReadersInv'
  <2> DEFINE n == registered[k]
  <2>1. /\ n # 0 /\ readers[n] < MaxReaders /\ readers' = [readers EXCEPT ![n] = readers[n] + 1]
        /\ UNCHANGED <<keyOf, cAt>>
    BY Zenon, <1>1 DEF Cache!GetHit
  <2>2. n \in 1..MaxEntries
    BY <2>1 DEF CacheType
  <2> HIDE DEF n
  <2>3. readers[n] + 1 \in 0..MaxReaders /\ readers[n] + 1 > 0
    BY <1>t, <2>1, <2>2
  <2>4. cAt[n] \in AtKeyed => keyOf[n] # NoKey
    BY Zenon, <2>2 DEF ReadersInv
  <2>5. \A m \in 1..MaxEntries : cAt'[m] = IF m = n THEN cAt[n] ELSE cAt[m]
    BY Zenon, <2>1
  <2> QED BY Zenon, <2>1, <2>2, <2>3, <2>4, <2>5, ReadersChange
<1>2. ASSUME NEW k \in Keys, NEW u \in Users, Cache!GetMiss(k, u) PROVE ReadersInv'
  <2> DEFINE n == cMade + 1
  <2>1. /\ cMade < MaxEntries /\ readers' = [readers EXCEPT ![n] = 1]
        /\ keyOf' = [keyOf EXCEPT ![n] = k] /\ cAt' = [cAt EXCEPT ![n] = "opening"]
    BY Zenon, <1>2 DEF Cache!GetMiss
  <2>2. n \in 1..MaxEntries
    BY <1>t, <2>1
  <2> HIDE DEF n
  <2>3. readers' \in [1..MaxEntries -> 0..MaxReaders]
    BY <2>1, <2>2 DEF ReadersInv
  <2>4. \A m \in 1..MaxEntries :
          IF m = n THEN readers'[m] = 1 /\ keyOf'[m] = k /\ cAt'[m] = "opening"
                   ELSE readers'[m] = readers[m] /\ keyOf'[m] = keyOf[m] /\ cAt'[m] = cAt[m]
    BY Zenon, <1>t, <2>1, <2>2 DEF ReadersInv, CacheType
  <2> QED BY <2>3, <2>4 DEF ReadersInv, AtOpening, AtKeyed
<1>3. ASSUME NEW u \in Users, Cache!GetDirect(u) PROVE ReadersInv'
  <2> DEFINE n == cMade + 1
  <2>1. cMade < MaxEntries /\ UNCHANGED <<readers, keyOf>> /\ cAt' = [cAt EXCEPT ![n] = "opening"]
    BY Zenon, <1>3 DEF Cache!GetDirect
  <2>2. n \in 1..MaxEntries /\ keyOf[n] = NoKey
    BY <1>t, <2>1 DEF OwnersInv
  <2> HIDE DEF n
  <2>3. \A m \in 1..MaxEntries : cAt'[m] = IF m = n THEN "opening" ELSE cAt[m]
    BY Zenon, <1>t, <2>1
  <2> QED BY <2>1, <2>2, <2>3 DEF ReadersInv, AtOpening, AtKeyed
<1>4. ASSUME NEW n \in 1..MaxEntries, Cache!ReaderLeaves(n) PROVE ReadersInv'
  <2>1. /\ readers[n] > (IF cAt[n] \in AtOpening THEN 1 ELSE 0)
        /\ readers' = [readers EXCEPT ![n] = readers[n] - 1] /\ UNCHANGED <<keyOf, cAt>>
    BY Zenon, <1>4 DEF Cache!ReaderLeaves, Cache!Opening, AtOpening
  <2>2. readers[n] - 1 \in 0..MaxReaders /\ (cAt[n] \in AtOpening => readers[n] - 1 > 0)
    BY <1>t, <2>1
  <2>3. cAt[n] \in AtKeyed => keyOf[n] # NoKey
    BY Zenon DEF ReadersInv
  <2>4. \A m \in 1..MaxEntries : cAt'[m] = IF m = n THEN cAt[n] ELSE cAt[m]
    BY Zenon, <2>1
  <2> QED BY Zenon, <2>1, <2>2, <2>3, <2>4, ReadersChange
<1>5. ASSUME NEW n \in 1..MaxEntries,
             \/ Cache!NoCommand(n) \/ Cache!AcquirePerUser(n) \/ Cache!AcquireGlobal(n) \/ Cache!Transcode(n)
      PROVE  ReadersInv'
  <2>1. PICK p \in {"limiting", "starting", "refused", "copying"} :
          cAt' = [cAt EXCEPT ![n] = p] /\ cAt[n] \in AtOpening /\ UNCHANGED <<readers, keyOf>>
    BY Zenon, <1>5 DEF Cache!NoCommand, Cache!AcquirePerUser, Cache!AcquireGlobal, Cache!Transcode, AtOpening
  <2>2. p \notin AtKeyed
    BY Zenon DEF AtKeyed
  <2> QED BY Zenon, <2>1, <2>2, ReadersMove
<1>6. ASSUME NEW n \in 1..MaxEntries, Cache!CloseRefused(n) PROVE ReadersInv'
  <2>1. UNCHANGED keyOf /\ cAt[n] \in AtOpening
    BY Zenon, <1>6 DEF Cache!CloseRefused, AtOpening
  <2>2. CASE keyOf[n] = NoKey
    <3>1. cAt' = [cAt EXCEPT ![n] = "dropped"] /\ UNCHANGED readers
      BY Zenon, <1>6, <2>2 DEF Cache!CloseRefused
    <3>2. "dropped" \notin AtOpening /\ "dropped" \notin AtKeyed
      BY Zenon DEF AtOpening, AtKeyed
    <3> QED BY Zenon, <2>1, <3>1, <3>2, ReadersMove
  <2>3. CASE keyOf[n] # NoKey
    <3>1. cAt' = [cAt EXCEPT ![n] = "emptied"] /\ readers' = [readers EXCEPT ![n] = readers[n] - 1]
      BY Zenon, <1>6, <2>3 DEF Cache!CloseRefused
    <3>2. readers[n] > 0
      BY Zenon, <2>1, <2>3 DEF ReadersInv
    <3>3. readers[n] - 1 \in 0..MaxReaders
      BY <1>t, <3>2
    <3>4. "emptied" \notin AtOpening
      BY Zenon DEF AtOpening
    <3>5. \A m \in 1..MaxEntries : cAt'[m] = IF m = n THEN "emptied" ELSE cAt[m]
      BY Zenon, <1>t, <3>1
    <3> QED BY Zenon, <2>1, <2>3, <3>1, <3>3, <3>4, <3>5, ReadersChange
  <2> QED BY Zenon, <2>2, <2>3
<1>7. ASSUME NEW n \in 1..MaxEntries, Cache!CopyEnds(n) PROVE ReadersInv'
  <2>1. PICK p \in {"copied", "failed"} :
          cAt' = [cAt EXCEPT ![n] = p] /\ keyOf[n] # NoKey /\ UNCHANGED <<readers, keyOf>>
    BY Zenon, <1>7 DEF Cache!CopyEnds
  <2>2. p \notin AtOpening
    BY Zenon DEF AtOpening
  <2> QED BY Zenon, <2>1, <2>2, ReadersMove
<1>8. ASSUME NEW n \in 1..MaxEntries,
             \/ Cache!CloseDirect(n) \/ Cache!MarkComplete(n) \/ Cache!CloseWriter(n) \/ Cache!Invalidate(n)
      PROVE  ReadersInv'
  <2>1. PICK p \in {"dropped", "marked", "closed", "unclosed"} :
          /\ cAt' = [cAt EXCEPT ![n] = p] /\ UNCHANGED <<readers, keyOf>>
          /\ (p = "marked" => cAt[n] = "copied") /\ (p = "unclosed" => cAt[n] = "marked")
    BY Zenon, <1>8 DEF Cache!CloseDirect, Cache!MarkComplete, Cache!CloseWriter, Cache!Invalidate
  <2>2. p \notin AtOpening /\ (p \in AtKeyed => keyOf[n] # NoKey)
    BY Zenon, <2>1 DEF AtOpening, AtKeyed, ReadersInv
  <2> QED BY Zenon, <2>1, <2>2, ReadersMove
<1>9. ASSUME NEW n \in 1..MaxEntries, Cache!CloseWithError(n) PROVE ReadersInv'
  <2>1. /\ cAt[n] = "failed" /\ cAt' = [cAt EXCEPT ![n] = "cancelled"]
        /\ readers' = [readers EXCEPT ![n] = 0] /\ UNCHANGED keyOf
    BY Zenon, <1>9 DEF Cache!CloseWithError
  <2>2. "cancelled" \notin AtOpening /\ keyOf[n] # NoKey /\ 0 \in 0..MaxReaders
    BY <2>1 DEF AtOpening, AtKeyed, ReadersInv
  <2>3. \A m \in 1..MaxEntries : cAt'[m] = IF m = n THEN "cancelled" ELSE cAt[m]
    BY Zenon, <1>t, <2>1
  <2> QED BY Zenon, <2>1, <2>2, <2>3, ReadersChange
<1>10. ASSUME Cache!Crash PROVE ReadersInv'
  BY <1>10 DEF Cache!Crash, Cache!Entry, ReadersInv, AtOpening, AtKeyed
<1>11. ASSUME Cache!Reload \/ Cache!Migrate PROVE ReadersInv'
  <2>1. UNCHANGED <<readers, keyOf>> /\ \A n \in 1..MaxEntries : cAt'[n] \in {"closed", cAt[n]}
    BY Zenon, <1>11 DEF Cache!Reload, Cache!Migrate, Cache!Adopt, Cache!Entry
  <2> QED BY Zenon, <2>1 DEF ReadersInv, AtOpening, AtKeyed
<1>12. ASSUME \/ \E k \in Keys : Cache!GetLost(k) \/ Cache!Scrub(k) \/ Cache!Vanish(k)
              \/ \E n \in 1..MaxEntries : Cache!Removes(n)
              \/ Cache!Restart \/ UNCHANGED Cache!vars
       PROVE  ReadersInv'
  BY Zenon, <1>12, ReadersKept
  DEF Cache!GetLost, Cache!Scrub, Cache!Vanish, Cache!Removes, Cache!RemoveMarker, Cache!RemoveData,
      Cache!Restart, Cache!vars
<1> QED
  BY Zenon, <1>1, <1>2, <1>3, <1>4, <1>5, <1>6, <1>7, <1>8, <1>9, <1>10, <1>11, <1>12
  DEF Cache!Next, Cache!Opens, Cache!Writes, Cache!Entry


\* The rest of the cache's types: how far removals are, what is on disk, the histories
\* and the process.
RemovalTypes == removing \in [1..MaxEntries -> {"no", "waiting", "unmarked", "removed"}]
MarkTypes ==
  marker \subseteq Keys /\ whole \subseteq 1..MaxEntries /\ doubtful \subseteq 1..MaxEntries
ProcessTypes ==
  /\ sentinel \in BOOLEAN /\ running \in BOOLEAN /\ ready \in BOOLEAN /\ (ready => running)
  /\ faults \in 0..MaxFaults

\* Only an entry that is known is removed.
LEMMA RemovalStep ==
  ASSUME MaxEntries \in Nat, CacheType, ReadersInv, RemovalTypes, [Cache!Next]_(Cache!vars)
  PROVE  RemovalTypes'
<1> USE DEF Cache!entries
<1>1. ASSUME NEW k \in Keys, Cache!Unregister(k) PROVE RemovalTypes'
  <2>1. registered[k] \in 0..MaxEntries
    BY DEF CacheType
  <2> QED BY Zenon, <1>1, <2>1 DEF Cache!Unregister, RemovalTypes
<1>2. ASSUME NEW n \in 1..MaxEntries, Cache!Invalidate(n) PROVE RemovalTypes'
  <2>1. keyOf[n] \in Keys
    BY Zenon, <1>2 DEF Cache!Invalidate, ReadersInv, AtKeyed, CacheType
  <2> QED BY Zenon, <1>1, <1>2, <2>1 DEF Cache!Invalidate
<1>3. ASSUME NEW n \in 1..MaxEntries, Cache!Removes(n) PROVE RemovalTypes'
  BY Zenon, <1>3 DEF Cache!Removes, Cache!RemoveMarker, Cache!RemoveData, RemovalTypes
<1>4. ASSUME Cache!Crash PROVE RemovalTypes'
  BY Zenon, <1>4 DEF Cache!Crash, RemovalTypes, Cache!Entry
<1>5. ASSUME UNCHANGED removing PROVE RemovalTypes'
  BY Zenon, <1>5 DEF RemovalTypes
<1>6. ASSUME \/ \E k \in Keys : \/ Cache!GetHit(k) \/ Cache!Scrub(k) \/ Cache!Vanish(k)
                                \/ \E u \in Users : Cache!GetMiss(k, u)
             \/ (\E u \in Users : Cache!GetDirect(u))
             \/ Cache!Restart \/ Cache!Reload \/ Cache!Migrate \/ UNCHANGED Cache!vars
      PROVE  UNCHANGED removing
  BY Zenon, <1>6 DEF Cache!GetHit, Cache!Scrub, Cache!Vanish, Cache!GetMiss, Cache!GetDirect, Cache!Restart,
              Cache!Reload, Cache!Migrate, Cache!vars
<1>7. ASSUME NEW n \in 1..MaxEntries,
             \/ Cache!ReaderLeaves(n) \/ Cache!NoCommand(n) \/ Cache!Opens(n) \/ Cache!CopyEnds(n)
             \/ Cache!CloseDirect(n) \/ Cache!MarkComplete(n) \/ Cache!CloseWriter(n)
             \/ Cache!CloseWithError(n)
      PROVE  UNCHANGED removing
  BY Zenon, <1>7 DEF Cache!ReaderLeaves, Cache!NoCommand, Cache!Opens, Cache!AcquirePerUser, Cache!AcquireGlobal,
              Cache!Transcode, Cache!CloseRefused, Cache!CopyEnds, Cache!CloseDirect,
              Cache!MarkComplete, Cache!CloseWriter, Cache!CloseWithError
<1> QED
  BY Zenon, <1>1, <1>2, <1>3, <1>4, <1>5, <1>6, <1>7 DEF Cache!Next, Cache!Writes, Cache!Entry, Cache!GetLost

\* Only files of the cache's keys are marked.
LEMMA MarkStep ==
  ASSUME MaxEntries \in Nat, CacheType, ReadersInv, MarkTypes, [Cache!Next]_(Cache!vars)
  PROVE  MarkTypes'
<1> USE DEF Cache!disk, Cache!history
<1>d. \A k \in Keys : data[k] \in 0..MaxEntries
  BY DEF CacheType
<1>1. ASSUME NEW k \in Keys, NEW u \in Users, Cache!GetMiss(k, u) PROVE MarkTypes'
  <2>1. UNCHANGED <<marker, whole>> /\ doubtful' \subseteq doubtful \cup {cMade + 1} /\ cMade < MaxEntries
    BY Zenon, <1>1 DEF Cache!GetMiss
  <2>2. cMade + 1 \in 1..MaxEntries
    BY <2>1 DEF CacheType
  <2> QED BY Zenon, <2>1, <2>2 DEF MarkTypes
<1>2. ASSUME NEW n \in 1..MaxEntries, Cache!ReaderLeaves(n) PROVE MarkTypes'
  BY Zenon, <1>2 DEF Cache!ReaderLeaves, MarkTypes
<1>3. ASSUME NEW n \in 1..MaxEntries, Cache!CopyEnds(n) PROVE MarkTypes'
  BY Zenon, <1>3 DEF Cache!CopyEnds, MarkTypes
<1>4. ASSUME NEW n \in 1..MaxEntries, Cache!MarkComplete(n) PROVE MarkTypes'
  <2>1. cAt[n] = "copied" /\ UNCHANGED whole
    BY Zenon, <1>4 DEF Cache!MarkComplete
  <2>2. keyOf[n] \in Keys
    BY Zenon, <2>1 DEF ReadersInv, AtKeyed, CacheType
  <2>3. data[keyOf[n]] \in 0..MaxEntries
    BY Zenon, <1>d, <2>2
  <2>4. marker' \subseteq marker \cup {keyOf[n]} /\ doubtful' \subseteq doubtful \cup ({data[keyOf[n]]} \ {0})
    BY Zenon, <1>4 DEF Cache!MarkComplete
  <2>5. doubtful' \subseteq 1..MaxEntries
    <3>1. {data[keyOf[n]]} \ {0} \subseteq 1..MaxEntries
      BY <2>3
    <3>2. doubtful \subseteq 1..MaxEntries
      BY Zenon DEF MarkTypes
    <3> QED BY Zenon, <2>4, <3>1, <3>2
  <2> QED BY Zenon, <2>1, <2>2, <2>4, <2>5 DEF MarkTypes
<1>5. ASSUME NEW n \in 1..MaxEntries, Cache!Removes(n) PROVE MarkTypes'
  BY Zenon, <1>5 DEF Cache!Removes, Cache!RemoveMarker, Cache!RemoveData, MarkTypes
<1>6. ASSUME NEW k \in Keys, Cache!Scrub(k) PROVE MarkTypes'
  BY Zenon, <1>6 DEF Cache!Scrub, MarkTypes
<1>7. ASSUME Cache!Reload PROVE MarkTypes'
  BY Zenon, <1>7 DEF Cache!Reload, MarkTypes
<1>8. ASSUME Cache!Migrate PROVE MarkTypes'
  <2>1. /\ UNCHANGED whole /\ marker' \subseteq Cache!Files
        /\ doubtful' = doubtful \cup {data[k] : k \in Cache!Files \ marker}
    BY Zenon, <1>8 DEF Cache!Migrate
  <2>2. Cache!Files \subseteq Keys /\ \A k \in Cache!Files : data[k] \in 1..MaxEntries
    BY <1>d DEF Cache!Files
  <2> QED BY Zenon, <2>1, <2>2 DEF MarkTypes
<1>9. ASSUME UNCHANGED <<marker, whole, doubtful>> PROVE MarkTypes'
  BY Zenon, <1>9 DEF MarkTypes
<1>10. ASSUME \/ \E k \in Keys : Cache!GetHit(k) \/ Cache!GetLost(k) \/ Cache!Vanish(k)
              \/ (\E u \in Users : Cache!GetDirect(u))
              \/ Cache!Crash \/ Cache!Restart \/ UNCHANGED Cache!vars
       PROVE  UNCHANGED <<marker, whole, doubtful>>
  BY Zenon, <1>10 DEF Cache!GetHit, Cache!GetLost, Cache!Vanish, Cache!GetDirect, Cache!Crash, Cache!Restart,
               Cache!vars
<1>11. ASSUME NEW n \in 1..MaxEntries,
              \/ Cache!NoCommand(n) \/ Cache!Opens(n) \/ Cache!CloseDirect(n) \/ Cache!CloseWriter(n)
              \/ Cache!CloseWithError(n) \/ Cache!Invalidate(n)
       PROVE  UNCHANGED <<marker, whole, doubtful>>
  BY Zenon, <1>11 DEF Cache!NoCommand, Cache!Opens, Cache!AcquirePerUser, Cache!AcquireGlobal, Cache!Transcode,
               Cache!CloseRefused, Cache!CloseDirect, Cache!CloseWriter, Cache!CloseWithError,
               Cache!Invalidate
<1> QED
  BY Zenon, <1>1, <1>2, <1>3, <1>4, <1>5, <1>6, <1>7, <1>8, <1>9, <1>10, <1>11
  DEF Cache!Next, Cache!Writes, Cache!Entry

\* The cache is loaded only in a process that runs.
LEMMA ProcessStep ==
  ASSUME MaxFaults \in Nat, ProcessTypes, [Cache!Next]_(Cache!vars)
  PROVE  ProcessTypes'
<1> USE DEF Cache!disk, Cache!process
<1>1. ASSUME Cache!Crash \/ Cache!Restart \/ Cache!Reload \/ Cache!Migrate PROVE ProcessTypes'
  <2>1. CASE Cache!Crash
    <3>1. /\ faults < MaxFaults /\ faults' = faults + 1 /\ running' = FALSE /\ ready' = FALSE
          /\ sentinel' = sentinel
      BY Zenon, <2>1 DEF Cache!Crash
    <3>2. faults' \in 0..MaxFaults
      BY <3>1 DEF ProcessTypes
    <3> QED BY Zenon, <3>1, <3>2 DEF ProcessTypes
  <2>2. CASE Cache!Restart
    BY Zenon, <2>2 DEF Cache!Restart, ProcessTypes
  <2>3. CASE Cache!Reload
    BY Zenon, <2>3 DEF Cache!Reload, ProcessTypes
  <2>4. CASE Cache!Migrate
    BY Zenon, <2>4 DEF Cache!Migrate, ProcessTypes
  <2> QED BY Zenon, <1>1, <2>1, <2>2, <2>3, <2>4
<1>2. ASSUME NEW k \in Keys, Cache!Vanish(k) PROVE ProcessTypes'
  BY <1>2 DEF Cache!Vanish, ProcessTypes
<1>3. ASSUME UNCHANGED <<sentinel, running, ready, faults>> PROVE ProcessTypes'
  BY Zenon, <1>3 DEF ProcessTypes
<1>4. ASSUME \/ \E k \in Keys : \/ Cache!GetHit(k) \/ Cache!GetLost(k) \/ Cache!Scrub(k)
                                \/ \E u \in Users : Cache!GetMiss(k, u)
             \/ (\E u \in Users : Cache!GetDirect(u)) \/ UNCHANGED Cache!vars
      PROVE  UNCHANGED <<sentinel, running, ready, faults>>
  BY Zenon, <1>4 DEF Cache!GetHit, Cache!GetLost, Cache!Scrub, Cache!GetMiss, Cache!GetDirect, Cache!vars
<1>5. ASSUME NEW n \in 1..MaxEntries,
             Cache!ReaderLeaves(n) \/ Cache!NoCommand(n) \/ Cache!Opens(n) \/ Cache!Removes(n)
      PROVE  UNCHANGED <<sentinel, running, ready, faults>>
  BY Zenon, <1>5 DEF Cache!ReaderLeaves, Cache!NoCommand, Cache!Opens, Cache!AcquirePerUser, Cache!AcquireGlobal,
              Cache!Transcode, Cache!CloseRefused, Cache!Removes, Cache!RemoveMarker, Cache!RemoveData
<1>6. ASSUME NEW n \in 1..MaxEntries, Cache!Writes(n)
      PROVE  UNCHANGED <<sentinel, running, ready, faults>>
  BY Zenon, <1>6 DEF Cache!Writes, Cache!CopyEnds, Cache!CloseDirect, Cache!MarkComplete, Cache!CloseWriter,
              Cache!CloseWithError, Cache!Invalidate
<1> QED
  BY Zenon, <1>1, <1>2, <1>3, <1>4, <1>5, <1>6 DEF Cache!Next, Cache!Entry


\* What the constants of the services are
ServicesConstants ==
  /\ MaxTicks \in Nat /\ MaxSchedules \in Nat /\ MaxFirings \in Nat /\ IDs # {}
  /\ MaxEntries \in Nat /\ MaxReaders \in Nat \ {0} /\ MaxFaults \in Nat
  /\ NoKey \notin Keys /\ Anonymous \in Users

\* A step of the services side by side is a step of one and leaves the others as they are.
LEMMA OneServiceSteps ==
  ASSUME [ServicesNext]_all
  PROVE  /\ [Next]_vars /\ [Workers!Next]_(Workers!vars) /\ [Broker!Next]_(Broker!vars)
         /\ [Scheduler!Next]_(Scheduler!vars) /\ [Cache!Next]_(Cache!vars)
<1>w. UNCHANGED workersVars => UNCHANGED Workers!vars
  BY Zenon DEF workersVars, Workers!vars, Workers!reports, Workers!updates
<1>b. UNCHANGED brokerVars => UNCHANGED Broker!vars
  BY Zenon DEF brokerVars, Broker!vars, Broker!channels
<1>s. UNCHANGED schedulerVars => UNCHANGED Scheduler!vars
  BY Zenon DEF schedulerVars, Scheduler!vars, Scheduler!triggers, Scheduler!history
<1>c. UNCHANGED cacheVars => UNCHANGED Cache!vars
  BY Zenon
  DEF cacheVars, Cache!vars, Cache!entries, Cache!disk, Cache!slots, Cache!process, Cache!history
<1>1. CASE Sessions(Next)
  BY Zenon, <1>w, <1>b, <1>s, <1>c, <1>1 DEF Sessions
<1>2. CASE InWorkers(Workers!Next)
  BY Zenon, <1>b, <1>s, <1>c, <1>2 DEF InWorkers
<1>3. CASE InBroker(Broker!Next)
  BY Zenon, <1>w, <1>s, <1>c, <1>3 DEF InBroker
<1>4. CASE InScheduler(Scheduler!Next)
  BY Zenon, <1>w, <1>b, <1>c, <1>4 DEF InScheduler
<1>5. CASE InCache(Cache!Next)
  BY Zenon, <1>w, <1>b, <1>s, <1>5 DEF InCache
<1>6. CASE UNCHANGED all
  BY Zenon, <1>w, <1>b, <1>s, <1>c, <1>6 DEF all
<1> QED BY Zenon, <1>1, <1>2, <1>3, <1>4, <1>5, <1>6 DEF ServicesNext

\* Side by side, each service does what it does alone: what is proved of a service by
\* itself, and what is checked of them together, is about the same steps.
THEOREM ServicesImplementEach ==
  ServicesSpec => Spec /\ Workers!Spec /\ Broker!Spec /\ Scheduler!Spec /\ Cache!Spec
<1>1. ServicesInit => Init /\ Workers!Init /\ Broker!Init /\ Scheduler!Init /\ Cache!Init
  BY Zenon DEF ServicesInit
<1>2. [ServicesNext]_all => /\ [Next]_vars /\ [Workers!Next]_(Workers!vars) /\ [Broker!Next]_(Broker!vars)
                            /\ [Scheduler!Next]_(Scheduler!vars) /\ [Cache!Next]_(Cache!vars)
  BY Zenon, OneServiceSteps
<1> QED
  BY <1>1, <1>2, PTL DEF ServicesSpec, Spec, Workers!Spec, Broker!Spec, Scheduler!Spec, Cache!Spec

\* The variables of all services keep their types: no channel of the broker exceeds its
\* capacity, no reader of the cache is closed twice, and nothing speaks of a schedule or
\* an entry that was not made, for any clients, streams, IDs, keys and bounds.
THEOREM TypesKept ==
  ASSUME ServicesConstants
  PROVE  ServicesSpec => []TypesOK
<1> DEFINE CacheTypes == /\ CacheInv /\ OwnersInv /\ ReadersInv /\ RemovalTypes /\ MarkTypes
                         /\ ProcessTypes
<1>c. /\ MaxTicks \in Nat /\ MaxSchedules \in Nat /\ MaxFirings \in Nat /\ IDs # {}
      /\ MaxEntries \in Nat /\ MaxReaders \in Nat \ {0} /\ MaxFaults \in Nat
      /\ NoKey \notin Keys /\ Anonymous \in Users
  BY Zenon DEF ServicesConstants
<1>1. Workers!Spec => []Workers!TypeOK
  <2>1. Workers!Init => Workers!TypeOK
    <3> SUFFICES ASSUME Workers!Init PROVE Workers!TypeOK
      BY Zenon
    <3>1. Workers!None \in [Players -> Nat]
      BY Zenon DEF Workers!None
    <3>2. {npQueue, npBatch, npMade, npSent} \subseteq [Players -> Nat]
      BY Zenon, <3>1 DEF Workers!Init
    <3>3. prQueue = <<>> /\ prBatch = <<>> /\ prQueue \in Seq(Nat) /\ prBatch \in Seq(Nat)
      BY DEF Workers!Init
    <3>4. prSignal \in BOOLEAN /\ prWorker = "waiting" /\ prMade \in Nat /\ npWorker = "waiting"
      BY Zenon DEF Workers!Init
    <3> QED BY Zenon, <3>2, <3>3, <3>4 DEF Workers!TypeOK
  <2> QED BY <2>1, WorkersTypeStep, PTL DEF Workers!Spec
<1>2. Broker!Spec => []Broker!TypeOK
  <2>1. Broker!Init => Broker!TypeOK
    <3> SUFFICES ASSUME Broker!Init PROVE Broker!TypeOK
      BY Zenon
    <3>1. /\ publish \in Seq(Events) /\ Len(publish) <= Broker!publishSize
          /\ {subscribing, unsubscribing} \subseteq Seq(Streams)
          /\ Len(subscribing) <= Broker!subscribingSize /\ Len(unsubscribing) <= Broker!subscribingSize
      BY DEF Broker!Init, Broker!publishSize, Broker!subscribingSize
    <3>2. /\ msgC \in [Streams -> Seq(Events \cup {Broker!ServerStart, Broker!KeepAlive})]
          /\ \A c \in Streams : Len(msgC[c]) <= Broker!bufferSize
      BY DEF Broker!Init, Broker!bufferSize
    <3>3. /\ stream \in [Streams -> {"new", "arriving", "open", "leaving", "gone"}]
          /\ sender \in [Events -> {"new", "waiting", "sent"}]
      BY Zenon DEF Broker!Init
    <3>4. /\ clients \subseteq Streams /\ closed \subseteq Streams /\ overtook \subseteq Streams
          /\ panicked = FALSE /\ ticks = 0
      BY Zenon DEF Broker!Init
    <3>5. ticks \in 0..MaxTicks
      BY <1>c, <3>4
    <3> QED BY Zenon, <3>1, <3>2, <3>3, <3>4, <3>5 DEF Broker!TypeOK
  <2>2. Broker!TypeOK /\ [Broker!Next]_(Broker!vars) => Broker!TypeOK'
    BY Zenon, <1>c, BrokerTypeStep
  <2> QED BY <2>1, <2>2, PTL DEF Broker!Spec
<1>3. Scheduler!Spec => []Scheduler!TypeOK
  <2>1. Scheduler!Init => Scheduler!TypeOK
    <3> SUFFICES ASSUME Scheduler!Init PROVE Scheduler!TypeOK
      BY Zenon
    <3>1. sMade = 0 /\ sMade \in 0..MaxSchedules /\ 0 \in 0..MaxFirings
      BY <1>c DEF Scheduler!Init
    <3>2. schedules \in [IDs -> 0..sMade] /\ fired \in [Scheduler!Schedule -> 0..MaxFirings]
      BY <3>1 DEF Scheduler!Init
    <3>3. idOf \in [Scheduler!Schedule -> IDs]
      BY Zenon, <1>c DEF Scheduler!Init
    <3>4. recurring \in [Scheduler!Schedule -> BOOLEAN] /\ loaded \in BOOLEAN
      BY Zenon DEF Scheduler!Init
    <3>5. /\ {armed, stopping, called, dropped, mistaken} \subseteq SUBSET Scheduler!Schedule
          /\ firings = {}
      BY Zenon DEF Scheduler!Init
    <3>6. firings \subseteq [of : Scheduler!Schedule, at : {"lookup", "calling", "cleanup"}]
      BY Zenon, <3>5
    <3> QED BY Zenon, <3>1, <3>2, <3>3, <3>4, <3>5, <3>6 DEF Scheduler!TypeOK
  <2>2. Scheduler!Init => SchedulerInv
    BY Zenon, <1>c, SchedulerStarts
  <2>3. SchedulerInv /\ [Scheduler!Next]_(Scheduler!vars) => SchedulerInv'
    BY Zenon, <1>c, SchedulerStep
  <2>4. SchedulerInv /\ SchedulerInv' /\ Scheduler!TypeOK /\ [Scheduler!Next]_(Scheduler!vars)
          => Scheduler!TypeOK'
    BY Zenon, <1>c, SchedulerTypeStep
  <2> QED BY <2>1, <2>2, <2>3, <2>4, PTL DEF Scheduler!Spec
<1>4. Cache!Spec => []Cache!TypeOK
  <2>1. Cache!Init => CacheTypes
    <3> SUFFICES ASSUME Cache!Init PROVE CacheTypes
      BY Zenon
    <3>1. CacheInv
      <4>1. cMade = 0 /\ cMade \in 0..MaxEntries
        BY <1>c DEF Cache!Init
      <4>2. registered \in [Keys -> 0..cMade] /\ data \in [Keys -> 0..cMade]
        BY <4>1 DEF Cache!Init
      <4>3. /\ cAt \in [1..MaxEntries -> Cache!Places]
            /\ keyOf \in [1..MaxEntries -> Keys \cup {NoKey}]
        BY Zenon DEF Cache!Init, Cache!Entry, Cache!Places
      <4>4. userOf \in [1..MaxEntries -> Users]
        BY Zenon, <1>c DEF Cache!Init, Cache!Entry
      <4>5. WholeInv
        BY Zenon DEF Cache!Init, WholeInv, Cache!Entry
      <4> QED BY Zenon, <4>1, <4>2, <4>3, <4>4, <4>5 DEF CacheInv, CacheType
    <3>2. OwnersInv
      BY Zenon DEF Cache!Init, OwnersInv, Cache!Entry
    <3>3. ReadersInv
      BY <1>c DEF Cache!Init, ReadersInv, AtOpening, AtKeyed, Cache!Entry
    <3>4. RemovalTypes /\ MarkTypes
      BY Zenon DEF Cache!Init, RemovalTypes, MarkTypes, Cache!Entry
    <3>5. ProcessTypes
      <4>1. sentinel = FALSE /\ running = TRUE /\ ready = FALSE /\ faults = 0
        BY Zenon DEF Cache!Init
      <4>2. faults \in 0..MaxFaults
        BY <1>c, <4>1
      <4> QED BY Zenon, <4>1, <4>2 DEF ProcessTypes
    <3> QED BY Zenon, <3>1, <3>2, <3>3, <3>4, <3>5
  <2>2. CacheTypes /\ [Cache!Next]_(Cache!vars) => CacheTypes'
    BY Zenon, <1>c, CacheStep, OwnersStep, ReadersStep, RemovalStep, MarkStep, ProcessStep
    DEF CacheInv
  <2>3. CacheTypes => Cache!TypeOK
    BY Zenon DEF CacheInv, CacheType, ReadersInv, RemovalTypes, MarkTypes, ProcessTypes, Cache!TypeOK,
           Cache!Entry
  <2> QED BY <2>1, <2>2, <2>3, PTL DEF Cache!Spec
<1>5. TypeOK /\ Workers!TypeOK /\ Broker!TypeOK /\ Scheduler!TypeOK /\ Cache!TypeOK => TypesOK
  BY Zenon DEF TypesOK
<1> QED BY <1>1, <1>2, <1>3, <1>4, <1>5, SessionsTypeCorrect, ServicesImplementEach, PTL
=============================================================================
