SPECIFICATION FairSpec
CONSTANTS
  State <- MCState
  Action <- MCAction
  Instance = {i1, i2}
  Subject = {s1}
  SubjectOf <- OneSubject
  Timer = {t1, t2}
  User = {u1}
  Worker = {w1, w2}
  Defs <- Request
  MaxVersion = 2
  MaxMoves = 3
  MaxCrashes = 1
  NoState = NoState
  NoInstance = NoInstance
  NoTimer = NoTimer
  NoAction = NoAction
INVARIANTS NoTimerOutlivesItsCase StaleTimerNeverMovesCase TimerMovesCaseOnce
PROPERTIES RefinesCaseLifecycle DueTimerMovesCase
CHECK_DEADLOCK FALSE
