SPECIFICATION Spec
CONSTANTS
  x = x
  f = f
  xx = xx
  xf = xf
  fx = fx
  ff = ff
  VarName = {x, f}
  MethodName = {xx, xf, fx, ff}
  Mangled <- Mangle
  ModuleName = {m1}
  Construct = {"class", "method", "func", "if", "while", "switch", "var", "field", "use", "return", "else"}
  MaxUnit = 1
  MaxEvent = 10
INVARIANTS
  SlotInItsScope
  UseReadsItsVariable
  ReturnFindsItsCallable
  FailureExplained
CHECK_DEADLOCK FALSE
