CONSTANTS
  Programs <- MCPrograms
  PrimNames <- MCPrimNames
  GlobalProcs <- MCGlobalProcs
  Calls <- MCCallsAll
  StackSizes <- MCStackSizes
  MaxObjs <- MCMaxObjs
  MaxVec <- MCMaxVec
  CallerPins <- MCCallerPins
SPECIFICATION Spec
CHECK_DEADLOCK FALSE
INVARIANTS
  NoFreedInUse
  CallerStackIntact
