CONSTANTS
  MaxCells <- MCMaxCells
  InitialHeap <- MCInitialHeap
  HeapExtension0 <- MCHeapExtension0
  ColorBits <- MCColorBits
  Kinds <- MCKinds
  Slots = {s1, s2}
  Nil = Nil
  EmptyList = EmptyList
SPECIFICATION Spec
VIEW View
PROPERTIES
  CollectorTransparent

