SPECIFICATION RSpec
CONSTANTS
  b1 = b1
  b2 = b2
  Bundle <- MCBundle
  NoBundle = NoBundle
  MaxCalls = 3
  MaxOps = 1
  MaxFaults = 0
INVARIANTS
  OperationIsOneVoice
