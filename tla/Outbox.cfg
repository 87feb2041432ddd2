SPECIFICATION FairSpec
CONSTANTS
  m1 = m1
  m2 = m2
  Event = {1}
  Message = {m1, m2}
  EventOf <- BothOne
  Id = {m1, m2}
  IdOf <- OwnIds
  Poison = {m2}
  Relay = {r1, r2}
  Worker = {w1, w2}
  NoWorker = NoWorker
  NoSlot = NoSlot
  BatchSize = 1
  MaxFailures = 1
  MaxDeliveries = 2
  MaxCopies = 2
INVARIANT PublishedEffectsAreKept
PROPERTIES EveryFactSettles ImplementsEffectLedger
CHECK_DEADLOCK FALSE
