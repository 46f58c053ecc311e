SPECIFICATION FairSpec
CONSTANTS
  a = a
  b = b
  x = x
  y = y
  NoInstance = NoInstance
  Folders = {x, y}
  Libs = {a, b}
  LibOf <- TwoLibs
  Instances = {1, 2}
  Requests = {1}
  Selective = TRUE
  MaxChanges = 2
INVARIANTS
  NoOrphanWatcher
  LossHasCause
PROPERTY
  ChangeScanned
