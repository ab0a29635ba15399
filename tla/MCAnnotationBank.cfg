SPECIFICATION Spec
CONSTANTS
  c1 = c1
  c2 = c2
  t1 = t1
  t2 = t2
  Client <- MCClient
  Text <- MCText
  NoOp = NoOp
  MaxOps = 2
  MaxSaves = 3
SYMMETRY MCSymmetry
INVARIANTS
  NoBlindOverwrite
  SavedIsWritten
  RetryIsAcknowledged
  BackupIsPredecessor
