CONSTANTS
  None = None
  Empty = Empty
  b1 = b1
  b2 = b2
  Clients = {c1, c2}
  Keys = {1, 2, 3}
  Bodies = {b1, b2}
  Limits = {0, 2}
  Workloads <- MCWorkloads
  Tags <- MCTags
  Backends = {"file"}
  MaxVersion = 2
  PageSize = 2
  MaxFaults = 1
  Overlap = TRUE
SPECIFICATION Spec
INVARIANT SwapsExact
SYMMETRY Interchangeable
CHECK_DEADLOCK FALSE
