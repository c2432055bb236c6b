SPECIFICATION RoundSpec
CONSTANTS
  MAX_DATASETS = 4
  COUNT_MATCHES = TRUE
  LIST_MATCHES = FALSE
  LIST_FAILURES = TRUE
  Word = {zero, a, b}
  Zero = zero
  Timeout <- MCTimeout
  Configs <- MCConfigs
  SetRegister <- MCSetRegister
INVARIANTS
  MissingIsFlagged
  VerdictExact
  QuorumDecides
PROPERTIES
  RoundEnds
  ImplementsVoting
