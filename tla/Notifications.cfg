SPECIFICATION NoticeSpec
CONSTANTS
  Person = {p1, p2}
  Consumer = {w1, w2}
  MaxAttempts = 2
  MaxTimers = 3
  MaxFaults = 1
INVARIANTS FailureNeverSilent SentOnceUncut JournalledOnce
PROPERTIES OutcomesFinal EveryDeliverySettles
CHECK_DEADLOCK FALSE
