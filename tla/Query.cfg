SPECIFICATION HistorySpec
CONSTANTS
  r1 = r1
  r2 = r2
  A = A
  B = B
  None = None
  Readers <- MCReaders
  Identities <- MCIdentities
  MaxWrites = 1
  MaxEpochs = 1
  MaxMoves = 1
  MaxChanges = 2
INVARIANTS RememberedIsCurrent RowsAreFresh WindowIsTimed
PROPERTIES HandedInScope
SYMMETRY MCSymmetry
CHECK_DEADLOCK FALSE
