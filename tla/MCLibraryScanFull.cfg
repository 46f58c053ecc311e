SPECIFICATION FairSpec
CONSTANTS
  a = a
  b = b
  root = root
  sub = sub
  other = other
  NoFolder = NoFolder
  Libs = {a, b}
  Folders = {root, sub, other}
  LibOf <- TwoLibs
  ParentOf <- Tree
  NewLibs = {}
  Events = {"selective", "badlib"}
  MaxPid = 2
  MaxEdits = 1
  MaxFaults = 2
INVARIANTS
  FullScanRemembered
  PIDApplied
PROPERTY
  FullScanFinishes
