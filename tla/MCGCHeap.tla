------------------------------ MODULE MCGCHeap ------------------------------
(* GCHeap with two pinnable locals and a pool of three cells: gc_init    *)
(* takes two, so every collection runs with both cells allocated, and a  *)
(* collection that frees nothing ends in out-of-memory because the       *)
(* extension of two does not fit.                                         *)
EXTENDS GCHeap

MCMaxCells == 3
MCInitialHeap == 2
MCHeapExtension0 == 2
MCColorBits == 2
MCKinds == {"pair", "string"}
=============================================================================
