\* A cancel effect that overtakes the open effect.  With NeverChasedAfterDecision
\* instead: a chase that had read the request before it was decided.
SPECIFICATION Spec
CONSTANTS
  State <- MCState
  Action <- MCAction
  Instance = {c1}
  Subject = {s1}
  SubjectOf <- OneSubject
  Request = {q1, q2}
  Person = {p1, p2}
  Member = {p1}
  Call = {t1, t2}
  Def <- PilotSignoff
  Opens <- PilotOpens
  Cancels <- PilotCancels
  MaxMoves = 3
  Chased = {q1}
  NoState = NoState
  NoInstance = NoInstance
  NoAction = NoAction
  NoRequest = NoRequest
  NoSubject = NoSubject
SYMMETRY Sym
INVARIANT NoRequestOutlivesItsCase
