SPECIFICATION Spec
CONSTANT
  MaxText = 10
INVARIANTS
  TypeOK
  Verifies
  PhisMatch
  RunsAsWritten
CHECK_DEADLOCK FALSE
