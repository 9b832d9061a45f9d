SPECIFICATION Spec
CONSTANTS
  Actors = {a1, a2}
  Mutations = {m1, m2}
  Duration = 1
  Skew = 1
  MaxTime = 2
  MaxTokens = 3
  MaxVersion = 5
  MaxAttempts = 2
  NoLease = NoLease
  NoHandle = NoHandle
  Idle = Idle
SYMMETRY ActorSymmetry
INVARIANTS SingleWriter NoLostUpdate GenerationIdentifiesLease
PROPERTY LeaseFenced
CHECK_DEADLOCK FALSE
