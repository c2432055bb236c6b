SPECIFICATION DriverSpec
CONSTANTS
  MAX_DATASETS = 3
  COUNT_MATCHES = TRUE
  LIST_MATCHES = FALSE
  LIST_FAILURES = TRUE
  Word = {zero, a}
  Zero = zero
  Timeout <- MCTimeout
  Configs = {}
  SetRegister = {}
  Workers <- MCWorkers
  Callers <- MCCallers
  TimeoutSpan = 8
INVARIANTS
  AgreementMeansMEqual
  NotTimedOutLoaded
  ResetFindsIdle
  ResultConsistent
  ResultOfAcceptedMode
PROPERTIES
  VoteReturns
