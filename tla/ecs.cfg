SPECIFICATION Spec
CONSTANTS
  References = {"mine"}
  Reports <- EcsReports
  Delay = 1
  Timeouts = {1}
  MaxTime = 1
  Scenarios <- OnePartAtATime
INVARIANTS
  VerdictIsOfThisDeployment
  EventsAreContiguous
  TaskStoryInOrder
