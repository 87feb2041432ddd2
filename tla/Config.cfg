SPECIFICATION Spec
CONSTANTS
  Writer = {w1, w2}
  MaxTime = 3
  MaxWrites = 3
  MaxReads = 1
SYMMETRY Writers
INVARIANT SettledReadsReproduce
PROPERTY ImplementsTimeline
