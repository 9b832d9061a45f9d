CONSTANTS
  None = None
  Off = Off
  b1 = b1
  d1 = d1
  s1 = s1
  w1 = w1
  w2 = w2
  r0 = r0
  r1 = r1
  e1 = e1
  e2 = e2
  relOld = relOld
  relFirst = relFirst
  relBroken = relBroken
  relNew = relNew
  Executors = {e1, e2}
  Operators = {}
  Graph <- ForkGraph
  Compensatable = {1, 2}
  Approvals = {}
  Decidable = {}
  SlowSteps = FALSE
  MaxFaults = 2
  Nobody = None
SPECIFICATION AllSpec
INVARIANTS
  ServingIsTrue
  ScansTellTheTruth
PROPERTIES
  SagaSettles
  
  NoDowngrade
  EventuallyServes
  HintsRepaired
CHECK_DEADLOCK FALSE
