CONSTANTS
  a = a
  b = b
  c = c
  File = {a, b, c}
  MaxArg = 4
  MaxImport = 3
SPECIFICATION Spec
INVARIANTS
  TypeOK
  CodeInOnePlace
  LinksItsImports
  FailureExplained
CHECK_DEADLOCK FALSE
