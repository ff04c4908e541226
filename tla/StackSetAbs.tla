----------------------------- MODULE StackSetAbs -----------------------------
(***************************************************************************)
(* What a stack_set of src/gc.c promises its two users, Root_Objects      *)
(* (push_root, pop_root) and the finalizable stacks (stack_set_push,      *)
(* clear_stack_set): a sequence of entries, bottom first, in which a pop  *)
(* of a value removes its topmost occurrence and keeps the others in      *)
(* their order, and a pop of a value not on the stack aborts the process  *)
(* (pop_root's throw_gc).  A push may instead fail for lack of memory     *)
(* (MALLOC's exit).  After an abort nothing of the stack is observable.   *)
(* call records the last call and its argument, the interface's input.   *)
(***************************************************************************)
EXTENDS Sequences, SequencesExt

CONSTANT Vals

VARIABLES stack, status, call

Init == stack = <<>> /\ status = "ok" /\ call = <<"none">>

Push(v) ==
  /\ status = "ok"
  /\ call' = <<"push", v>>
  /\ \/ stack' = Append(stack, v) /\ UNCHANGED status
     \/ stack' = <<>> /\ status' = "oom"

Pop(v) ==
  /\ status = "ok"
  /\ call' = <<"pop", v>>
  /\ IF v \in Range(stack)
     THEN /\ stack' = RemoveAt(stack, SelectLastInSeq(stack, LAMBDA x : x = v))
          /\ UNCHANGED status
     ELSE stack' = <<>> /\ status' = "failed"

Clear == status = "ok" /\ stack' = <<>> /\ call' = <<"clear">> /\ UNCHANGED status

Next == \E v \in Vals : Push(v) \/ Pop(v) \/ Clear

Spec == Init /\ [][Next]_<<stack, status, call>>

==============================================================================
