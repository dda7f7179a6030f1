SPECIFICATION FairSpec
CONSTANT
  Scenarios <- OneFailure
PROPERTY
  WatchReturns
