SPECIFICATION Spec
CONSTANTS
  None = None
  Computers = {a, b}
  MaxRecords = 1
  MaxConns = 2
  MaxDecisions = 1
  MaxReqs = 3
  MaxKeepalives = 1
INVARIANT AnswersStayHome
INVARIANT AnswersMatch
INVARIANT AnswerNotStolen
INVARIANT BlockedStaysOut
PROPERTY LockReleased
CHECK_DEADLOCK FALSE
