SPECIFICATION Spec
CONSTANT
  MaxToken = 18
INVARIANTS
  TypeOK
  ReadsAsWritten
  RunsOnce
CHECK_DEADLOCK FALSE
