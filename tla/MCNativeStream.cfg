SPECIFICATION PSpec
CONSTANTS
  FramesPerToken = 2
  FloorFrames = 3
  MaxCap = 7
  MaxChunk = 4
  MaxTokens = 4
  Convs <- MCConvs
  Blocks <- MCBlocks
  Upsamples <- MCUpsamples
  STEP = 2
  TABLE = 12
  SubCodes = 2
  RefTokens = 2
  RefFrames = 3
  WARM_FRAMES = 2
  DescTokens = 1
  Vocabulary = 5
  SPECIAL = 3
  EosCode = 3
  NEG <- MCNEG
  PenaltyUp = 3
  PenaltyDown = 2
  Levels <- MCLevels
  MaxPast = 2
  STRIDES <- MCStrides
  DOWNSAMPLE <- MCDownsample
  MaxRecordingLength = 40
  TopKs = {0, 1, 2, 5}
INVARIANTS
  EachFrameOnce
  DecodedAsWhole
  PromptIsWhole
  TalkerSeesAll
  SamplesSpeechOrEnd
PROPERTIES
  ImplementsEngine
