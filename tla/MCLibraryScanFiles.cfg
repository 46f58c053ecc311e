SPECIFICATION Spec
CONSTANTS
  a = a
  b = b
  root = root
  sub = sub
  other = other
  NoFolder = NoFolder
  Libs = {a}
  Folders = {root, sub}
  LibOf <- OneLib
  ParentOf <- SmallTree
  NewLibs = {}
  Events = {"selective", "partial", "delete", "vanish", "badfull"}
  MaxPid = 1
  MaxEdits = 2
  MaxFaults = 1
INVARIANT
  SkippedIsImported
PROPERTY
  MissingWasUnseen
