SPECIFICATION Spec
CONSTANTS
  Blocksize = 3
  Preroll = 2
  TailCap = 6
  Measure = 2
  MaxTrailing = 2
  MaxChunk = 3
  MaxSamples = 6
INVARIANTS
  PrerollKept
