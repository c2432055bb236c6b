SPECIFICATION PathSpec
CONSTANTS
  SetRegister <- MCSetRegister
  Config <- MCConfig
  Word <- MCWord
  Zero = 0
  ResetWord = 8
  Outputs <- MCOutputs
  Rom <- MCRom
INVARIANTS
  NoAnswerLost
PROPERTIES
  ImplementsPort
