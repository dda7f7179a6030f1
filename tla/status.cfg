SPECIFICATION Spec
CONSTANTS
  Calls = {c1, c2}
  MaxMoves = 4
  MaxFailures = 1
  TaskCount = 2
  MaxExecutions = 2
  MaxExecutionsWithTasks = 1
  MaxRevisions = 2
  PageSize = 2
  MaxTasks = 3
  MaxRollouts = 2
INVARIANTS
  PhaseWasTrue
  NothingMissed
  ActionsKept
  FailureWasReal
  ViewsAgree
\* The provider takes MaxMoves steps and then stops: a call that waits for it waits for ever.
CHECK_DEADLOCK FALSE
