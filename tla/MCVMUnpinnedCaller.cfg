CONSTANTS
  Programs <- MCPrograms
  PrimNames <- MCPrimNames
  GlobalProcs <- MCGlobalProcs
  Calls <- MCCalls
  StackSizes <- MCStackSizes
  MaxObjs <- MCMaxObjs
  MaxVec <- MCMaxVec
  CallerPins <- MCCallerPinsNone
SPECIFICATION Spec
CHECK_DEADLOCK FALSE
INVARIANTS
  NoFreedInUse
