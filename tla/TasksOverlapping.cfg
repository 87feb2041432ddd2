SPECIFICATION Spec
CONSTANTS
  a = a
  b = b
  c = c
  d = d
  e = e
  g = g
  early = early
  late = late
  cyclic = cyclic
  Task = {a, b, c, d, e}
  Gate = {g}
  List = {early, late, cyclic}
  Needs <- Cyclic
  ListOf <- ThreeLists
  Actor = {x1, x2}
  Nothing = Nothing
CHECK_DEADLOCK FALSE
INVARIANTS SatisfiedTasksOpen NothingWaitsOnThePast
