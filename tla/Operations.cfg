CONSTANTS
  None = None
  Off = Off
  d1 = d1
  d2 = d2
  b1 = b1
  s1 = s1
  w1 = w1
  r0 = r0
  r1 = r1
  e1 = e1
  e2 = e2
  Executors = {e1, e2}
  Operators = {e2}
  Graph <- ForkGraph
  Compensatable = {1, 2}
  Approvals = {3}
  Decidable = {3}
  SlowSteps = TRUE
  MaxFaults = 2
  Nobody = None
SPECIFICATION AllSpec
INVARIANTS
  DesiredPublished
  
  RecordsBelong
  
  StepsInOrder
  ProductionApproved
  
  OldCredentialUnused
CHECK_DEADLOCK FALSE
