CONSTANTS
  None = None
  p1 = p1
  p2 = p2
  o1 = o1
  o2 = o2
  rel1 = rel1
  rel2 = rel2
  Members = {0, 1}
  Procs = {p1, p2}
  Instances = {i0, i1, n1, n2}
  Releases = {rel1, rel2}
  OldRelease = rel1
  Scenarios <- Overlapping
  MaxUnavailable = 1
  MaxFaults = 2
SPECIFICATION Spec
INVARIANTS OneUnfencedServer RecordsTrue UpdatesExclusive
PROPERTY GenerationNamesInstance
CHECK_DEADLOCK FALSE
