SPECIFICATION Spec
CONSTANTS
  Writer = {w1, w2}
  MaxTime = 4
  MaxWrites = 3
  MaxReads = 1
SYMMETRY Writers
INVARIANTS ReadsReproduce ConflictsAreReal
