SPECIFICATION FairGettersSpec
CONSTANTS
  References = {"op"}
  Reports <- AnyReports
  Delay = 1
  Timeouts = {2, 100}
  MaxTime = 3
  MaxFailures = 2
  Kinds = {"job", "ecs", "beanstalk", "cdn", "cloudcdn", "aca", "azurefunctions", "blob", "cloudfunction", "composer", "cloudrunservice"}
INVARIANT
  VerdictIsReal
PROPERTIES
  SuccessReported
  WatchersImplementContract
