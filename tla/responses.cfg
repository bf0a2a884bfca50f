SPECIFICATION Spec
CONSTANTS
  FileLen <- MCFileLen
  Piece <- MCPiece
  SendRoom <- MCSendRoom
INVARIANTS
  NoGaps
  CutOnlyWhenFull
PROPERTY Finishes
\* A behaviour ends with the answer.
CHECK_DEADLOCK FALSE
