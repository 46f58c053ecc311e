---------------------------- MODULE PlaySessions -----------------------------
(***************************************************************************)
(* The playback sessions of core/scrobbler/play_tracker.go: clients report *)
(* what they play, ReportPlayback keeps a session per client, sessions     *)
(* expire.  TrackerWorkers has the workers that pass the reports and the   *)
(* now-playing updates on, BufferedScrobbler what becomes of a scrobble.   *)
(*                                                                         *)
(* A call of ReportPlayback is a goroutine of its own.  It reads the       *)
(* session, loads the track, writes the session under sessionsMu and       *)
(* queues the report in separate steps, so the calls of one client may     *)
(* overtake each other.  Time is abstract: a session may expire at any     *)
(* moment, and the callback runs in a goroutine of the cache library.      *)
(***************************************************************************)
EXTENDS Naturals

CONSTANTS
  Clients, Tracks,
  Enabled,       \* clients whose player has scrobbling enabled
  Calls,         \* goroutines serving ReportPlayback
  NoSession, NoArgs, NoTrack,
  MaxReports     \* bound: calls of ReportPlayback

ASSUME SessionsAssumption ==
  Enabled \subseteq Clients /\ NoTrack \notin Tracks /\ MaxReports \in Nat

States == {"starting", "playing", "paused", "stopped"}
Session == [track : Tracks, state : States \ {"stopped"}]

\* A report on its way through ReportPlayback; loaded tells whether a stop has
\* loaded the track already, for the scrobble.
Args == [client : Clients, track : Tracks, state : States, loaded : BOOLEAN]

\* A playbackReportEntry
Report == [client : Clients, track : Tracks, state : States \cup {"expired"}]

ASSUME NamesAssumption == NoSession \notin Session /\ NoArgs \notin Args

VARIABLES
  playMap,       \* the session of each client, or NoSession
  at, args,      \* of a call: where it is, and the report it makes
  expiring,      \* reports of the expiration callbacks that have yet to run
  announced,     \* the track of each client's last now-playing update, or NoTrack
  last,          \* history: the state in the report queued last for each client
  overtaken,     \* history: clients of which one call was overtaken by another one or
                 \* by the end of the session
  made           \* reports so far

call == <<at, args>>
history == <<last, overtaken>>
vars == <<playMap, call, expiring, announced, history, made>>

Init ==
  /\ playMap = [c \in Clients |-> NoSession] /\ expiring = {}
  /\ at = [k \in Calls |-> "idle"] /\ args = [k \in Calls |-> NoArgs]
  /\ announced = [c \in Clients |-> NoTrack]
  /\ last = [c \in Clients |-> "stopped"] /\ overtaken = {} /\ made = 0

-----------------------------------------------------------------------------
\* The client's session is playing the track.
HasPlayingSession(c, t) ==
  playMap[c] # NoSession /\ playMap[c].track = t /\ playMap[c].state = "playing"

\* The call goes on with the report a.
Proceed(k, place, a) ==
  /\ at' = [at EXCEPT ![k] = place]
  /\ args' = [args EXCEPT ![k] = a]

Return(k) == Proceed(k, "idle", NoArgs)

\* A call of the client is under way.
Busy(c) == \E k \in Calls : at[k] # "idle" /\ args[k].client = c

\* A report arrives.
Enter(k, c) ==
  /\ at[k] = "idle" /\ made < MaxReports /\ made' = made + 1
  /\ overtaken' = IF Busy(c) THEN overtaken \cup {c} ELSE overtaken

\* "starting": the first check, and the load of the track.  A report that is late,
\* or whose track cannot be loaded, changes nothing.
BeginStarting(k, c, t) ==
  /\ Enter(k, c) /\ ~HasPlayingSession(c, t)
  /\ Proceed(k, "store", [client |-> c, track |-> t, state |-> "starting", loaded |-> TRUE])
  /\ UNCHANGED <<playMap, expiring, announced, last>>

\* "playing" and "paused": the session is read or the track loaded.
BeginPlaying(k, c, t, s) ==
  /\ Enter(k, c)
  /\ Proceed(k, "update", [client |-> c, track |-> t, state |-> s, loaded |-> TRUE])
  /\ UNCHANGED <<playMap, expiring, announced, last>>

\* "stopped": the track is loaded to scrobble the play, if it counts, which is then
\* up to BufferedScrobbler; without scrobbling it is not loaded yet.
BeginStopped(k, c, t) ==
  /\ Enter(k, c)
  /\ \E l \in IF c \in Enabled THEN BOOLEAN ELSE {FALSE} :
       Proceed(k, "remove", [client |-> c, track |-> t, state |-> "stopped", loaded |-> l])
  /\ UNCHANGED <<playMap, expiring, announced, last>>

\* The session that a report leaves behind.
SessionOf(a) == [track |-> a.track, state |-> a.state]

\* Mutant: the check is not repeated under the lock.
LateStartingOnce(a) == FALSE

\* The check that is repeated under the lock.
LateStarting(a) == HasPlayingSession(a.client, a.track)

\* "starting": the session is written, unless it is playing by now.
StoreStarting(k) ==
  /\ at[k] = "store"
  /\ IF LateStarting(args[k])
     THEN Return(k) /\ UNCHANGED playMap
     ELSE /\ playMap' = [playMap EXCEPT ![args[k].client] = SessionOf(args[k])]
          /\ Proceed(k, "report", args[k])
  /\ UNCHANGED <<expiring, announced, history, made>>

\* "playing" and "paused": the session is written.
StorePlaying(k) ==
  /\ at[k] = "update"
  /\ playMap' = [playMap EXCEPT ![args[k].client] = SessionOf(args[k])]
  /\ Proceed(k, "report", args[k])
  /\ UNCHANGED <<expiring, announced, history, made>>

\* The client has gone on to another track.
LateStop(a) == playMap[a.client] # NoSession /\ playMap[a.client].track # a.track

\* "stopped": the session is removed, unless the stop is late.  Without a session
\* the track is loaded now, which may fail.
RemoveSession(k) ==
  /\ at[k] = "remove"
  /\ \/ LateStop(args[k]) /\ Return(k) /\ UNCHANGED playMap
     \/ /\ ~LateStop(args[k])
        /\ playMap' = [playMap EXCEPT ![args[k].client] = NoSession]
        /\ Proceed(k, "report", args[k])
     \/ /\ playMap[args[k].client] = NoSession /\ ~args[k].loaded
        /\ Return(k) /\ UNCHANGED playMap
  /\ UNCHANGED <<expiring, announced, history, made>>

-----------------------------------------------------------------------------
\* enqueuePlaybackReport(): what becomes of the report is in TrackerWorkers.
EnqueueReport(r) == last' = [last EXCEPT ![r.client] = r.state]

\* The call queues its report.
QueueReport(k) ==
  /\ at[k] = "report"
  /\ EnqueueReport([client |-> args[k].client, track |-> args[k].track, state |-> args[k].state])
  /\ Proceed(k, "announce", args[k])
  /\ UNCHANGED <<playMap, expiring, announced, overtaken, made>>

\* The call ends; of a track that starts or goes on playing, and that the user's
\* filter lets through, it announces the track of the session it finds now.
Announce(k) ==
  /\ at[k] = "announce"
  /\ LET c == args[k].client IN
     \/ /\ c \in Enabled /\ args[k].state \in {"starting", "playing"} /\ playMap[c] # NoSession
        /\ announced' = [announced EXCEPT ![c] = playMap[c].track]
     \/ UNCHANGED announced
  /\ Return(k)
  /\ UNCHANGED <<playMap, expiring, history, made>>

\* The session's time is over: the cache drops it and starts the callback.  Times
\* are seconds apart, so the callback of an equal session has run by then.
Expire(c) ==
  /\ playMap[c] # NoSession
  /\ playMap' = [playMap EXCEPT ![c] = NoSession]
  /\ LET r == [client |-> c, track |-> playMap[c].track, state |-> "expired"]
     IN r \notin expiring /\ expiring' = expiring \cup {r}
  /\ overtaken' = IF Busy(c) THEN overtaken \cup {c} ELSE overtaken
  /\ UNCHANGED <<call, announced, last, made>>

\* Mutant: the callback does not report.
OnExpirationQuiet(r) ==
  /\ r \in expiring /\ expiring' = expiring \ {r}
  /\ UNCHANGED <<playMap, call, announced, history, made>>

\* The expiration callback.
OnExpiration(r) ==
  /\ r \in expiring /\ expiring' = expiring \ {r}
  /\ EnqueueReport(r)
  /\ UNCHANGED <<playMap, call, announced, overtaken, made>>

-----------------------------------------------------------------------------
Step(k) ==
  StoreStarting(k) \/ StorePlaying(k) \/ RemoveSession(k) \/ QueueReport(k) \/ Announce(k)

Next ==
  \/ \E k \in Calls, c \in Clients, t \in Tracks :
       \/ BeginStarting(k, c, t) \/ BeginStopped(k, c, t)
       \/ \E s \in {"playing", "paused"} : BeginPlaying(k, c, t, s)
  \/ \E k \in Calls : Step(k)
  \/ \E c \in Clients : Expire(c)
  \/ \E r \in expiring : OnExpiration(r)

Spec == Init /\ [][Next]_vars

\* The goroutines run, a session's time runs out and the callback is called.
Fairness ==
  /\ \A k \in Calls : WF_vars(Step(k))
  /\ \A c \in Clients : WF_vars(Expire(c))
  /\ \A r \in Report : WF_vars(OnExpiration(r))

FairSpec == Spec /\ Fairness

-----------------------------------------------------------------------------
\* Every variable keeps its type.
TypeOK ==
  /\ playMap \in [Clients -> Session \cup {NoSession}] /\ expiring \subseteq Report
  /\ at \in [Calls -> {"idle", "store", "update", "remove", "report", "announce"}]
  /\ args \in [Calls -> Args \cup {NoArgs}]
  /\ \A k \in Calls : at[k] # "idle" => args[k] \in Args
  /\ \A k \in Calls : /\ at[k] = "store" => args[k].state = "starting"
                      /\ at[k] = "update" => args[k].state \in {"playing", "paused"}
                      /\ at[k] = "remove" => args[k].state = "stopped"
  /\ announced \in [Clients -> Tracks \cup {NoTrack}]
  /\ overtaken \subseteq Clients /\ made \in 0..MaxReports
  /\ last \in [Clients -> States \cup {"expired"}]

\* A step takes no session that plays a track back to starting it.
NotDowngraded ==
  \A c \in Clients, t \in Tracks :
    HasPlayingSession(c, t) =>
      ~(playMap'[c] # NoSession /\ playMap'[c].track = t /\ playMap'[c].state = "starting")

\* A step that ends a session is a stop of its own track, or its time is over.
EndsByItsOwn ==
  \A c \in Clients :
    playMap[c] # NoSession /\ playMap'[c] = NoSession =>
      \/ \E k \in Calls : /\ at[k] = "remove" /\ at'[k] = "report"
                          /\ args[k].client = c /\ args[k].track = playMap[c].track
      \/ expiring' # expiring

\* Late calls of ReportPlayback leave the session of the track that plays alone: a
\* starting does not take it back, though the track is loaded between the first check
\* and the write, and the stop of another track does not end it.
SessionKept == [][NotDowngraded /\ EndsByItsOwn]_vars

\* No client is shown as playing for ever: of a client that makes its reports one
\* after the other, the last one queued is a stop or an expiry in the end.
EndReported ==
  \A c \in Clients :
    last[c] \in {"starting", "playing", "paused"} ~>
      last[c] \in {"stopped", "expired"} \/ c \in overtaken
=============================================================================
