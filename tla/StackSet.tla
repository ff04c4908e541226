------------------------------ MODULE StackSet ------------------------------
(***************************************************************************)
(* The stack_set array of src/gc.c: objs[0..size-1], of which the first   *)
(* top entries are in use.  stack_set_push doubles the array with REALLOC *)
(* when it is full; stack_set_pop pre-decrements top and, when the top    *)
(* entry is not the value, rotates the entries below it down by one until *)
(* it has passed the value.  pop_root aborts when the pop returns 0.       *)
(***************************************************************************)
EXTENDS Integers, Sequences, SequencesExt

CONSTANTS
  Vals,         \* the values pushed (root addresses, objects)
  InitialSize,  \* make_stack_set's initial_size (400 in gc_init)
  MaxSize,      \* the largest array MALLOC can supply
  Garbage       \* the contents of a slot never written

ASSUME InitialSize \in Nat \ {0} /\ MaxSize \in Nat /\ InitialSize <= MaxSize

VARIABLES
  objs,    \* ss->objs, indexed from 0
  top,     \* ss->top
  size,    \* ss->size
  status,  \* "ok", or how the process ended: "oom" (MALLOC), "failed" (throw_gc)
  call     \* the last call and its argument, as the caller made it

vars == <<objs, top, size, status, call>>

(* make_stack_set: the array is fresh from MALLOC.                        *)
Init ==
  /\ objs = [i \in 0..InitialSize - 1 |-> Garbage]
  /\ top = 0
  /\ size = InitialSize
  /\ status = "ok"
  /\ call = <<"none">>

(* Mutant: the array is grown without doubling its size.                 *)
GrowSame(o, s) == <<[i \in 0..s - 1 |-> o[i]], s>>

(* REALLOC to twice the size: the old entries are copied, the new half is *)
(* uninitialized.                                                          *)
Grow(o, s) == <<[i \in 0..2 * s - 1 |-> IF i < s THEN o[i] ELSE Garbage], 2 * s>>

(* stack_set_push: grow if top == size, then objs[top++] = value.  An     *)
(* index outside the array is a write past its end, which the function's  *)
(* EXCEPT leaves undone.                                                   *)
Push(v) ==
  /\ status = "ok"
  /\ call' = <<"push", v>>
  /\ IF top = size
     THEN IF 2 * size > MaxSize
          THEN status' = "oom" /\ UNCHANGED <<objs, top, size>>
          ELSE LET g == Grow(objs, size)
               IN  /\ objs' = [g[1] EXCEPT ![top] = v]
                   /\ size' = g[2]
                   /\ top' = top + 1
                   /\ UNCHANGED status
     ELSE /\ objs' = [objs EXCEPT ![top] = v]
          /\ top' = top + 1
          /\ UNCHANGED <<size, status>>

RECURSIVE Rotate(_, _, _, _)
(* The scan-back loop: <<objs, done>> after walking idx down from the     *)
(* given index with last carried one slot down.                           *)
Rotate(o, idx, last, v) ==
  IF idx < 0 THEN <<o, FALSE>>
  ELSE LET o2 == [o EXCEPT ![idx] = last]
       IN  IF o[idx] = v THEN <<o2, TRUE>> ELSE Rotate(o2, idx - 1, o[idx], v)

(* Mutant: the entries below the top are not rotated; only the flag is   *)
(* computed.                                                               *)
PopResultNoRotate(o, t, v) ==
  IF o[t] = v THEN <<o, TRUE>> ELSE <<o, \E i \in 0..t - 1 : o[i] = v>>

(* stack_set_pop after --top, with t the new top: <<objs, returned>>.     *)
PopResult(o, t, v) ==
  IF o[t] = v THEN <<o, TRUE>> ELSE Rotate(o, t - 1, o[t], v)

(* pop_root: stack_set_pop, then throw_gc if it returned 0.  On an empty  *)
(* stack --top reads objs[-1], the word before the array, which is never *)
(* a root's address: the loop is skipped and 0 returned.                  *)
Pop(v) ==
  /\ status = "ok"
  /\ call' = <<"pop", v>>
  /\ top' = top - 1
  /\ IF top = 0
     THEN status' = "failed" /\ UNCHANGED <<objs, size>>
     ELSE LET r == PopResult(objs, top - 1, v)
          IN  /\ objs' = r[1]
              /\ status' = IF r[2] THEN "ok" ELSE "failed"
              /\ UNCHANGED size

(* clear_stack_set                                                         *)
Clear == status = "ok" /\ top' = 0 /\ call' = <<"clear">> /\ UNCHANGED <<objs, size, status>>

Next == \E v \in Vals : Push(v) \/ Pop(v) \/ Clear

Spec == Init /\ [][Next]_vars

-----------------------------------------------------------------------------
(* The entries in use, bottom first.                                        *)
InUse == [i \in 1..top |-> objs[i - 1]]

Abs == INSTANCE StackSetAbs WITH
         stack <- IF status = "ok" THEN InUse ELSE <<>>

TypeOK ==
  /\ size \in Nat /\ size <= MaxSize
  /\ objs \in [0..size - 1 -> Vals \cup {Garbage}]
  /\ status \in {"ok", "oom", "failed"}
  /\ status = "ok" => top \in 0..size

(* Every sequence of pushes, pops and clears that the array code performs *)
(* is one the abstract stack allows: a pop removes the topmost copy of its *)
(* value and leaves the rest in order, growth loses no entry, and a pop   *)
(* of an absent value (or on an empty stack) aborts.                       *)
Refines == Abs!Spec

=============================================================================
