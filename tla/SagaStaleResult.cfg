CONSTANTS
  Executors = {e1, e2}
  Operators = {}
  Graph <- ForkGraph
  Compensatable = {1, 2}
  Approvals = {}
  Decidable = {}
  SlowSteps = TRUE
  MaxFaults = 1
  Nobody = Nobody
SPECIFICATION Spec
PROPERTIES
  ResultsUnderLease
CHECK_DEADLOCK FALSE
