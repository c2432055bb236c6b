SPECIFICATION SafeSUSpec
CONSTANTS
  MCCU_N_CORES = 6
  fieldw = 7
  N_CROSSBAR_CFG = 6
  N_MCCU_WEIGHTS = 3
  Outputs <- MCOutputs
  Events <- MCEvents
  Inputs <- MCInputs
  Weights <- MCWeights
  Masks <- MCMasks
  Cores <- MCCores
  Quotas = {1}
INVARIANTS
  SwitchesAsAsked
  NothingHeld
  RoutesAsAsked
  WeightsAsAsked
