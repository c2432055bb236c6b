SPECIFICATION MonitorSpec
CONSTANTS
  Cores = {c1, c2}
  NoCore = NoCore
  MAX_PENDING_REQ = 2
SYMMETRY CoreSymmetry
INVARIANTS
  RingExact
  NoFalseBlame
  AtMostOneServing
  ContentionExact
