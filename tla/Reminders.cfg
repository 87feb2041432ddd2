SPECIFICATION FairSpec
CONSTANTS
  Message <- Timers
  Worker = {w1, w2}
  NoWorker = NoWorker
  NoSlot = NoSlot
  MaxRows = 3
  MaxOccurrences = 2
  MaxRecomputes = 0
  MaxFailures = 2
  MaxDeliveries = 2
  MaxCopies = 3
CHECK_DEADLOCK FALSE
INVARIANT OneSeries
PROPERTY EveryTimerSettles
