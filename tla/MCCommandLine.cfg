SPECIFICATION MCSpec
CONSTANTS
  MaxFrames = 3
  MaxBatch = 2
  MinLoud = 2
  Window = 3
  MaxClick = 2
  MaxBlocks = 6
  MaxAttempts = 2
  MAX_TRAILING = 1
  KEEP = 0
  u1 = u1
  u2 = u2
  User <- MCUser
  MaxStarted = 4
  Artifact <- MCArtifact
  Recording = {"w1", "w2"}
  Seed = {0, 1}
  Label = {"a", "b"}
  MaxExtracts = 2
  MaxModels = 1
  MaxRecordings = 2
INVARIANTS
  SuccessIsWhole
  SuccessIsTrue
  GateOnlyCutsClicks
  VoiceIsAudition
  CustodyIsTrue
  PairIsOne
  LoadedAsAsked
PROPERTIES
  ImplementsEngine
  NothingReplaced
  CommandEnds
