SPECIFICATION Spec
CONSTANTS
  Message <- Timers
  Worker = {w1, w2}
  NoWorker = NoWorker
  NoSlot = NoSlot
  MaxRows = 4
  MaxOccurrences = 2
  MaxRecomputes = 1
  MaxFailures = 1
  MaxDeliveries = 2
  MaxCopies = 2
CHECK_DEADLOCK FALSE
SYMMETRY Workers
INVARIANTS SeriesAlive AtMostOneAfterCompletion
