SPECIFICATION ServicesSpec

CONSTANTS
  Clients = {c1}
  Tracks = {t1, t2}
  Enabled = {c1}
  Calls = {k1, k2}
  NoSession = NoSession
  NoArgs = NoArgs
  NoTrack = NoTrack
  MaxReports = 3
  Players = {c1, c2}
  MaxQueued = 3
  Streams = {s1, s2}
  Events = {"first", "second", "third"}
  Device <- StreamDevice
  User <- StreamUser
  Origin <- EventOrigin
  Nobody = Nobody
  MaxTicks = 1
  IDs = {i1}
  MaxSchedules = 2
  MaxFirings = 2
  Keys = {key1}
  NoKey = NoKey
  Users = {u1, Anonymous}
  Anonymous = Anonymous
  MaxConcurrent = 1
  MaxPerUser = 1
  MaxEntries = 2
  MaxReaders = 2
  MaxFaults = 1

INVARIANTS
  TypesOK
  ScheduleIsKept
  CompleteIsWhole
  WithinLimits

PROPERTIES
  SessionKept
  EndReported
  ReportsInOrder
  LatestSent
  PublisherGoesOn
  ScheduleServed
  FailedIsForgotten

CHECK_DEADLOCK FALSE
