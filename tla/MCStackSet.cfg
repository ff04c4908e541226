CONSTANTS
  Vals = {v1, v2, v3}
  InitialSize <- MCInitialSize
  MaxSize <- MCMaxSize
  Garbage = Garbage
SPECIFICATION Spec
INVARIANTS
  TypeOK
PROPERTIES
  Refines
CHECK_DEADLOCK FALSE
