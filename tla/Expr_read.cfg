SPECIFICATION Spec
CONSTANTS
  Token = {"identifier", "literal", "+", "-", "*", "<", "^", "!", "~", "(", ")"}
  MaxToken = 7
INVARIANTS
  TypeOK
  OperandsSuffice
  NothingDropped
  ReadsAsWritten
CHECK_DEADLOCK FALSE
