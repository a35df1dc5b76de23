SPECIFICATION MCSpec
CONSTANTS
  Producers = {p1, p2}
  Consumers = {c1, c2}
  Capacity = 2
  MaxItems = 5
  Workers = {w1}
  Publishers = {b1}
  Subscribers = {s1, s2}
  QueueCount = 2
  QueueSize = 1
  MaxEvents = 3
  MaxFail = 1
  Handlers = {h1, h2}
  JobWorkers = {j1, j2}
  Main = main
  JobQueueSize = 1
  \* the order of mdv_committer_finalize and mdv_fetcher_finalize
  DecrementFirst = FALSE
  OwnsPool = TRUE
  MaxJobs = 3
INVARIANTS
  RefusalIsSafe
  ReplacedListIsIdle
  FreedWhenUnused
  
PROPERTIES
  ImplementsQueue
  EventuallyPopped
  EventuallyServed
  FreedUnlessByUser
CHECK_DEADLOCK FALSE
