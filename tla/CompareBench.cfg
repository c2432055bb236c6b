SPECIFICATION BenchSpec
CONSTANTS
  MAX_DATASETS = 5
  COUNT_MATCHES = TRUE
  LIST_MATCHES = TRUE
  Word = {w1, w2, w3}
  Zero = w1
INVARIANTS
  CountsExact
  VectorDecodes
  VotingTime
