SPECIFICATION RosterSpec
CONSTANTS
  Team = {t1}
  Person = {p1, p2}
  Caller = {c1, c2}
  Nobody = Nobody
  Idle = Idle
  MaxRows = 2
  LastDay = 3
  MaxCalls = 4
CHECK_DEADLOCK FALSE
SYMMETRY Symmetric
INVARIANTS JournalIsTheHistory ArchivedTeamsAreClosed
