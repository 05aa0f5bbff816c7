SPECIFICATION FairSpec
CONSTANTS
  Piece <- Pieces
  Keyword <- Words
  MaxPiece = 5
INVARIANTS
  TypeOK
  LexesAsWritten
  NumeralsConvert
PROPERTY
  LexEnds
CHECK_DEADLOCK FALSE
