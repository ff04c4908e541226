---------------------------- MODULE MCGCHeapGrow ----------------------------
(* GCHeap with a pool of five cells: two from gc_init, three more from    *)
(* the first extension, which is prepended to an Active list still       *)
(* holding garbage, and out of memory at the next one (nine).  One local *)
(* and pairs only keep the space small enough to reach the growth path.  *)
EXTENDS GCHeap

MCMaxCells == 5
MCInitialHeap == 2
MCHeapExtension0 == 3
MCColorBits == 2
MCKinds == {"pair"}
=============================================================================
