SPECIFICATION DriverSpec
CONSTANTS
  MAX_DATASETS = 4
  COUNT_MATCHES = TRUE
  LIST_MATCHES = FALSE
  LIST_FAILURES = TRUE
  Word = {zero, a, b}
  Zero = zero
  Timeout <- MCTimeout
  Configs = {}
  SetRegister = {}
  Workers <- FourWorkers
  Callers <- TwoOfFour
  TimeoutSpan = 8
INVARIANTS
  AgreementNeedsMLoaded
