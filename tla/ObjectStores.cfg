CONSTANTS
  None = None
  Empty = Empty
  b1 = b1
  b2 = b2
  Clients = {c1, c2}
  Keys = {1, 2, 3}
  Bodies = {b1, b2}
  Limits = {0, 2}
  Workloads <- MCWorkloads
  Tags <- MCTags
  Backends = {"memory", "s3", "file"}
  MaxVersion = 2
  PageSize = 2
  MaxFaults = 1
  Overlap = FALSE
SPECIFICATION Spec
PROPERTY IsAtomicStore
SYMMETRY Interchangeable
CHECK_DEADLOCK FALSE
