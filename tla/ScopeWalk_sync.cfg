SPECIFICATION Spec
CONSTANTS
  x = x
  f = f
  xx = xx
  xf = xf
  fx = fx
  ff = ff
  VarName = {x}
  MethodName = {xx, xf, fx, ff}
  Mangled <- Mangle
  ModuleName = {m1, m2}
  Construct = {"class", "func", "method", "constructor", "if", "for", "while", "enum", "import"}
  MaxUnit = 2
  MaxEvent = 12
INVARIANTS
  TypeOK
  InSync
  IInv
  ExternalIsGenerated
PROPERTY
  WalksTheText
CHECK_DEADLOCK FALSE
