SPECIFICATION JobSpec
CONSTANTS
  References = {"op"}
  Reports <- JobReports
  Delay = 1
  Timeouts = {2}
  MaxTime = 4
  MaxFailures = 2
INVARIANT
  FailedStatusFailsWatch
