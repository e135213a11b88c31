\* Three circuits, one or two tasks in the pool at a time; two threads and two
\* items.
CONSTANTS
  c1 = c1
  c2 = c2
  c3 = c3
  t1 = t1
  t2 = t2
  i1 = i1
  i3 = i3
  NoItem = NoItem
  Circs <- MCCircs
  Threads <- MCThreads
  Items <- MCItems
  Priority <- MCPriority
  Stoppers <- MCStoppers
  UpdateStops = TRUE
  MaxUpdates = 2
  MaxPendings = {1, 2}
  AlwaysRoom = 2
  cutoff = 1
  MaxTime = 1
SPECIFICATION FairCpuworkersSpec
CHECK_DEADLOCK FALSE
INVARIANTS QueueAgrees TasksKeepCircuits NobodySleepsOnWork ArgsFreedOnce
PROPERTIES NobodyWaitsForEver IsWorkPool EveryItemAnswered
