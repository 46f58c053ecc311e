SPECIFICATION FairSpec
CONSTANTS
  item = item
  local = local
  Items = {item}
  Pools = {local}
  PoolOf <- OnePool
  Images = {1, 3}
  Batch = 16
  MaxAttempts = 2
  MaxVersion = 3
  MaxEvents = 5
INVARIANT
  RequestKept
  SettledIsCurrent
PROPERTY
  QueueDrains
  EveryItemSettles
CHECK_DEADLOCK FALSE
