SPECIFICATION Spec
CONSTANTS
  a = a
  b = b
  root = root
  sub = sub
  other = other
  NoFolder = NoFolder
  Libs = {a}
  Folders = {root, sub}
  LibOf <- OneLib
  ParentOf <- SmallTree
  NewLibs = {}
  Events = {"partial"}
  MaxPid = 1
  MaxEdits = 1
  MaxFaults = 1
INVARIANT
  FullScanRemembered
