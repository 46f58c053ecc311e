SPECIFICATION FairSpec
CONSTANTS
  alice = alice
  bob = bob
  p1 = p1
  p2 = p2
  p3 = p3
  l1 = l1
  l2 = l2
  NoPlay = NoPlay
  NoLoop = NoLoop
  NoUser = NoUser
  Plays = {p1, p2, p3}
  Users = {alice, bob}
  UserOf <- Owners
  PlayTime <- Times
  Earlier = {p2, p3}
  BadUsers = {bob}
  Loops = {l1, l2}
  RetryIns = {0, 3}
  MaxRetryDelay = 2
  MaxRetryShift = 1
  MaxFaults = 1
INVARIANTS
  NothingLost
  DuplicatesExcused
  WaitHonoured
PROPERTIES
  EveryPlayAnswered
CHECK_DEADLOCK FALSE
