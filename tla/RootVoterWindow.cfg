SPECIFICATION WindowSpec
CONSTANTS
  MAX_DATASETS = 3
  COUNT_MATCHES = TRUE
  LIST_MATCHES = FALSE
  LIST_FAILURES = TRUE
  Word = {zero, a}
  Zero = zero
  Timeout <- MCTimeout
  Configs <- MCConfigs
  SetRegister <- MCSetRegister
  MaxAge = 6
INVARIANTS
  NoFalseTimeout
  FullWindowGranted
  LateIsReported
PROPERTIES
  TimeoutFlagsFinal
