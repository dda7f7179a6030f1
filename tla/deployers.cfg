SPECIFICATION Spec
CONSTANTS
  Deploys = {d1, d2}
  Versions = {v1, v2}
  Files = {f1, f2}
  MaxFailures = 1
  MaxRetries = 1
  MaxCdns = 2
  MaxEdits = 1
  MaxObjectEdits = 1
  MaxLambdaEdits = 1
  MaxCronJobs = 2
  MaxJobEdits = 1
  MaxPolls = 2
SYMMETRY Interchangeable
INVARIANTS
  EditsOfOthersKept
  CachesDropped
  OneVersionRuns
  ReferenceIsOwn
  PlanKept
  RetiredOnlyForNewer
  SoleDeployTakesEffect
  CronJobsFailAlone
  DagsNeverMissing
  PullReproducesPush
  TagsListed
