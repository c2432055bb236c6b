SPECIFICATION SelfTestSpec
CONSTANTS
  Tests <- MCTests
INVARIANTS
  PassedIsSound
  MismatchMeansLate
PROPERTIES
  TestCompletes
\* The test ends.
CHECK_DEADLOCK FALSE
