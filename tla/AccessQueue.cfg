SPECIFICATION QueueSpec
CONSTANTS
  Cpus = {c0, c1, c2}
  None = none
SYMMETRY CpuSymmetry
INVARIANTS
  QueueTypeOK
  QueueExact
  BooksBalance
  ActiveExact
  FifoAssertions
  BlamedIsQueued
