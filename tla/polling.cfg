SPECIFICATION FairWatchSpec
CONSTANTS
  References = {"ref"}
  Reports <- AnyReports
  Delay = 1
  Timeouts = {2, 100}
  MaxTime = 4
INVARIANTS
  WatchTypeOK
  OutcomeJustified
PROPERTIES
  ImplementsContract
  WatchEnds
  ContextHeeded
