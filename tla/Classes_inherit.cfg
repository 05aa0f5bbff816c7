SPECIFICATION Spec
CONSTANTS
  A = A
  B = B
  C = C
  x = x
  z = z
  y = y
  Am = Am
  An = An
  Bm = Bm
  Bn = Bn
  Cm = Cm
  Cn = Cn
  VarName = {A, B, C, x, y, z}
  MethodName = {Am, An, Bm, Bn, Cm, Cn}
  ModuleName = {"animals"}
  ClassName <- Row
  FieldName = {x, y, z}
  Method = {"m", "n"}
  Mangled <- Mangle
  MaxMember = 4
INVARIANTS
  TypeOK
  MethodInItsScope
  FailureExplained
  OneCellPerField
  MethodsAreNearest
SYMMETRY AnyField
CHECK_DEADLOCK FALSE
