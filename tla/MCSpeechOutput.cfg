SPECIFICATION MCSpec
CONSTANTS
  Blocksize = 3
  Preroll = 2
  TailCap = 6
  Measure = 2
  MaxTrailing = 2
  MaxChunk = 3
  MaxSamples = 9
  MaxLength = 5
  Texts <- MCTexts
  FIRST_CHUNK_MAX = 2
  REST_CHUNK_MAX = 3
  RATE = 4
  MP3_RATE = 7
  OPUS_RATE = 8
  OPUS_FRAME = 3
  Speeds <- MCSpeeds
  MaxSound = 5
INVARIANTS
  NothingLost
  VerdictIsSound
  NothingUnsaid
