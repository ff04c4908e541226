CONSTANTS
  Programs <- MCPrograms
  PrimNames <- MCPrimNames
  GlobalProcs <- MCGlobalProcs
  Calls <- MCCallsCC
  StackSizes <- MCStackSizes
  MaxObjs <- MCMaxObjs
  MaxVec <- MCMaxVec
  CallerPins <- MCCallerPins
SPECIFICATION Spec
CHECK_DEADLOCK FALSE
INVARIANTS
  EvaluatesAsSpecified
