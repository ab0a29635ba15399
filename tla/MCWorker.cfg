SPECIFICATION FairSpec
CONSTANTS
  i1 = i1
  i2 = i2
  Id <- MCId
  NoId = NoId
  MaxFrames = 3
  MaxCallbacks = 2
  MaxBlocks = 2
  MaxFaults = 2
INVARIANTS
  CancelHonoured
  StaleAudioBounded
PROPERTIES
  ImplementsService
  NoAudioOnceRefused
  EveryRequestAnswered
  ShutdownEnds
