SPECIFICATION PartsSpec

CONSTANTS
  Scans = {s1, s2}
  Analyzers = {a1}
  Chores = {c1}
  Nobody = Nobody
  Day = 5
  MaxScans = 2
  MaxFaults = 2
  TrackIDs = {"a1", "b1", "b2", "n1", "n2"}
  Libraries = {1, 2}
  TrackLib <- TrackLibrary
  Created <- TrackCreated
  Base <- TrackBase
  Album <- TrackAlbum
  Contents <- TrackContents
  Tagged = {"tagged"}
  ScanStarted = 3
  NoRow = NoRow
  NoMove = NoMove
  MaxErrors = 1
  MaxRemaps = 1

INVARIANTS
  RunningIsOneScan
  StaleIsPending
  OneRowPerFile
  ClaimIsHonoured

PROPERTIES
  PendingServed
  AcceptedScanStarts
