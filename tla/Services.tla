------------------------------- MODULE Services ------------------------------
(***************************************************************************)
(* The play tracker's sessions and workers, the event broker, the          *)
(* scheduler of a plugin and the transcoding cache, side by side.  They    *)
(* share no state, so one behaviour runs one of them, which service names; *)
(* the others stay as they began.                                          *)
(***************************************************************************)
EXTENDS PlaySessions, Sequences, FiniteSets

CONSTANTS
  Players, MaxQueued,
  Streams, Events, Device, User, Origin, Nobody, MaxTicks,
  IDs, MaxSchedules, MaxFirings,
  Keys, NoKey, Users, Anonymous, MaxConcurrent, MaxPerUser, MaxEntries, MaxReaders, MaxFaults

VARIABLES
  service,
  prQueue, prSignal, prBatch, prWorker, prMade, npQueue, npBatch, npWorker, npMade, npSent,
  stream, sender, publish, subscribing, unsubscribing, clients, msgC, closed, panicked,
  overtook, ticks,
  schedules, idOf, recurring, armed, stopping, firings, loaded, sMade, fired, called, dropped,
  mistaken,
  registered, keyOf, userOf, cAt, readers, removing, data, marker, sentinel, perUser, global,
  running, ready, cMade, faults, whole, doubtful

workersVars ==
  <<prQueue, prSignal, prBatch, prWorker, prMade, npQueue, npBatch, npWorker, npMade, npSent>>
brokerVars ==
  <<stream, sender, publish, subscribing, unsubscribing, clients, msgC, closed, panicked,
    overtook, ticks>>
schedulerVars ==
  <<schedules, idOf, recurring, armed, stopping, firings, loaded, sMade, fired, called,
    dropped, mistaken>>
cacheVars ==
  <<registered, keyOf, userOf, cAt, readers, removing, data, marker, sentinel, perUser,
    global, running, ready, cMade, faults, whole, doubtful>>
all == <<service, vars, workersVars, brokerVars, schedulerVars, cacheVars>>

Workers == INSTANCE TrackerWorkers

Broker == INSTANCE EventBroker

Scheduler == INSTANCE PluginScheduler WITH made <- sMade
Cache == INSTANCE TranscodeCache WITH at <- cAt, made <- cMade

ServicesInit ==
  /\ service \in {"sessions", "workers", "broker", "scheduler", "cache"}
  /\ Init /\ Workers!Init /\ Broker!Init /\ Scheduler!Init /\ Cache!Init

\* A step A of the service that runs
Sessions(A) ==
  /\ service = "sessions" /\ A
  /\ UNCHANGED <<service, workersVars, brokerVars, schedulerVars, cacheVars>>

InWorkers(A) ==
  /\ service = "workers" /\ A
  /\ UNCHANGED <<service, vars, brokerVars, schedulerVars, cacheVars>>

InBroker(A) ==
  /\ service = "broker" /\ A
  /\ UNCHANGED <<service, vars, workersVars, schedulerVars, cacheVars>>

InScheduler(A) ==
  /\ service = "scheduler" /\ A
  /\ UNCHANGED <<service, vars, workersVars, brokerVars, cacheVars>>

InCache(A) ==
  /\ service = "cache" /\ A
  /\ UNCHANGED <<service, vars, workersVars, brokerVars, schedulerVars>>

ServicesNext ==
  \/ Sessions(Next) \/ InWorkers(Workers!Next) \/ InBroker(Broker!Next)
  \/ InScheduler(Scheduler!Next) \/ InCache(Cache!Next)

\* The steps of the goroutines of each service; what its callers do is left out.
Progress ==
  \/ Sessions(\/ (\E k \in Calls : Step(k)) \/ (\E c \in Clients : Expire(c))
              \/ \E r \in expiring : OnExpiration(r))
  \/ InWorkers(Workers!ReportWorker \/ Workers!NowPlayingWorker)
  \/ InBroker(\/ Broker!Listen \/ (\E e \in Events : Broker!Publish(e))
              \/ \E c \in Streams : Broker!Serve(c))
  \/ InScheduler(Scheduler!Firing \/ \E n \in 1..MaxSchedules : Scheduler!Fire(n))
  \/ InCache(\E n \in 1..MaxEntries : Cache!Opens(n) \/ Cache!Writes(n))

\* The code is fair to each goroutine.  The bounds leave a behaviour finitely many of
\* these steps, so it is enough that the goroutines together do not stop.
ServicesSpec == ServicesInit /\ [][ServicesNext]_all /\ WF_all(Progress)

\* Every variable of every service keeps its type.
TypesOK ==
  TypeOK /\ Workers!TypeOK /\ Broker!TypeOK /\ Scheduler!TypeOK /\ Cache!TypeOK

\* TrackerWorkers: the worker of the playback reports implements ReportQueue.
ReportsInOrder == Workers!ReportsInOrder
\* TrackerWorkers: a player's latest now-playing update is sent in the end.
LatestSent == Workers!LatestSent
\* EventBroker: a stream that has left and been handled is written to no more.
DetachedIsForgotten == Broker!DetachedIsForgotten
\* EventBroker: only a departure handled before its arrival makes the broker fail.
PanicHasCause == Broker!PanicHasCause
\* EventBroker: no publisher waits for ever for slow streams.
PublisherGoesOn == Broker!PublisherGoesOn
\* PluginScheduler: a schedule that has yet to fire is found under its ID.
ScheduleIsKept == Scheduler!ScheduleIsKept
\* PluginScheduler: a schedule that fires calls its plugin.
ScheduleServed == Scheduler!ScheduleServed
\* TranscodeCache: a file marked complete is whole.
CompleteIsWhole == Cache!CompleteIsWhole
\* TranscodeCache: a stream that ends without an error was whole.
CleanEndIsWhole == Cache!CleanEndIsWhole
\* TranscodeCache: no more transcodings run than the limiter allows.
WithinLimits == Cache!WithinLimits
\* TranscodeCache: a failed entry is removed in the end.
FailedIsForgotten == Cache!FailedIsForgotten
=============================================================================
