\* A message that overtakes its stamp.  With NeverChasedAfterCompletion instead: a
\* handler that read the task before it was finished.
SPECIFICATION Spec
CONSTANTS
  Message <- Timers
  Worker = {w1}
  NoWorker = NoWorker
  NoSlot = NoSlot
  MaxRows = 2
  MaxOccurrences = 2
  MaxRecomputes = 0
  MaxFailures = 0
  MaxDeliveries = 2
  MaxCopies = 1
CHECK_DEADLOCK FALSE
INVARIANT NoTimerLost
