SPECIFICATION Spec
CONSTANTS
  p1 = p1
  p2 = p2
  c1 = c1
  c2 = c2
  Pods = {p1, p2}
  Containers = {c1, c2}
  PodOf <- PodOfContainers
  Existing = {p1}
  Scenarios <- SomeScenarios
INVARIANTS
  LinesWithoutGap
  TailWritten
PROPERTIES
  StreamGivesUp
CHECK_DEADLOCK FALSE
