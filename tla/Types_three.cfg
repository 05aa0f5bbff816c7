SPECIFICATION Spec
CONSTANTS
  int = int
  a = a
  this_int = this_int
  this_a = this_a
  array = array
  Name <- Names
  Builtin = {int}
  ClassName <- Classes
  VarName = {a, this_a}
  TypeName = {int, a}
  This <- ThisOf
  Array = array
  MaxModule = 3
  MaxImport = 2
  MaxSaid = 3
INVARIANTS
  TypeOK
  NamesAsDeclared
  TwoWaysAgree
  CallsOfTypes
CHECK_DEADLOCK FALSE
