SPECIFICATION SafeSUSpec
CONSTANTS
  MCCU_N_CORES = 4
  fieldw = 7
  N_CROSSBAR_CFG = 6
  N_MCCU_WEIGHTS = 2
  Outputs <- MCOutputs
  Events <- MCEvents
  Inputs <- MCInputs
  Weights <- MCWeights
  Masks <- MCMasks
  Cores <- MCCores
  Quotas = {1}
INVARIANTS
  SwitchesAsAsked
