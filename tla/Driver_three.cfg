CONSTANTS
  a = a
  b = b
  c = c
  File = {a, b, c}
  MaxArg = 3
  MaxImport = 1
SPECIFICATION Spec
INVARIANT DistinctFilesAreLinked
CHECK_DEADLOCK FALSE
