SPECIFICATION Spec
CONSTANTS
  Operators = {o1, o2}
  Options <- MCOptions
  Versions = {v1, v2}
  Ingress = TRUE
  Adopted = {"asg"}
  Conventional = TRUE
  MaxTrouble = 2
  MaxJobs = 3
INVARIANTS BootstrapWhole FailsForCause RecordsFollowCloud
 
CHECK_DEADLOCK FALSE
SYMMETRY Symmetry
