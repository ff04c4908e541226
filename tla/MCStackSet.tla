----------------------------- MODULE MCStackSet -----------------------------
(* A stack_set starting at one slot, so that it doubles twice (1, 2, 4)   *)
(* before MALLOC refuses the next growth; three values, so that a pop can *)
(* find its value under one or two others and duplicates occur.           *)
EXTENDS StackSet

MCInitialSize == 1
MCMaxSize == 4
=============================================================================
