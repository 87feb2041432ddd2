SPECIFICATION FairSpec
CONSTANTS
  p1 = p1
  p2 = p2
  p3 = p3
  u1 = u1
  u2 = u2
  Person = {p1, p2, p3}
  User = {u1, u2}
  Role = {r1}
  External = {p1}
  Owner <- OneOwned
  Holds <- AllHold
  Call = {c1, c2}
  Worker = {w1}
  MaxCalls = 4
  MaxDeaths = 1
  Nobody = Nobody
CHECK_DEADLOCK FALSE
INVARIANTS SupersededByOneMerge MergesUnwind EndedStaysEnded
PROPERTY OverdueIsEnded
