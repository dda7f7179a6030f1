SPECIFICATION FairSpec
CONSTANTS
  References = {"mine"}
  Reports <- EcsReports
  Delay = 1
  Timeouts = {100}
  MaxTime = 1
  Scenarios <- CallsOnly
PROPERTY
  CompletionReported
