CONSTANTS
  Programs <- MCPrograms
  PrimNames <- MCPrimNames
  GlobalProcs <- MCGlobalProcs
  Calls <- MCCalls
  StackSizes <- MCStackSizes
  MaxObjs <- MCMaxObjs
  MaxVec <- MCMaxVec
  CallerPins <- MCCallerPins
SPECIFICATION Spec
CHECK_DEADLOCK FALSE
INVARIANTS
  TypeOK
  EvaluatesAsSpecified
  StackInBounds
