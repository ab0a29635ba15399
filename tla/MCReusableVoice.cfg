SPECIFICATION MCSpec
CONSTANTS
  b1 = b1
  b2 = b2
  w1 = w1
  Bundle <- MCBundle
  Word <- MCWord
  NoBundle = NoBundle
  NoWord = NoWord
  MaxServices = 2
  MaxSaves = 3
  MaxByHand = 1
  MaxCalls = 4
  MaxOps = 3
  MaxFaults = 1
INVARIANTS
  OneVoicePerOperation
  NamesakesCross
  PromotedIsUsable
PROPERTIES
  SavingEnds
