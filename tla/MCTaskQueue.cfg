SPECIFICATION FairSpec
CONSTANTS
  q = q
  r = r
  t1 = t1
  t2 = t2
  Tasks = {t1, t2}
  Queues = {q, r}
  QueueOf <- FirstQueue
  Concurrency <- AskTwo
  MaxConcurrency = 3
  MaxRetries = 1
  MaxFaults = 3
INVARIANTS
  WithinBudget
  AttemptsAccounted
PROPERTIES
  EveryTaskEnds
