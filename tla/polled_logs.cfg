SPECIFICATION Spec
CONSTANTS
  Groups = {g1, g2}
  Tasks = {t1, t2}
  Times = {2, 3, 4}
  TicksPerSecond = 2
  LookBack = 1
  Requests <- SomeRequests
  MaxEvents = 2
  MaxFailures = 1
SYMMETRY Interchangeable
INVARIANTS
  WrittenOnce
  
CHECK_DEADLOCK FALSE
