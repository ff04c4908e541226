------------------------------- MODULE GCAbs --------------------------------
(***************************************************************************)
(* What the collector of src/gc.c promises the native code that uses it: *)
(* the objects reachable from its locals keep their type and fields       *)
(* whatever collections happen, and an allocation returns a cell that    *)
(* holds none of them.  Collections do not appear: the heap is only the  *)
(* graph reachable from the locals, each object with its kind and its     *)
(* two reference fields.  The only failure is the exit on out-of-memory.  *)
(***************************************************************************)
EXTENDS Naturals, Sequences, SequencesExt

CONSTANTS
  Cells,      \* the cells an object can occupy
  Slots,      \* native locals whose address can be pinned
  Kinds,      \* object types allocated
  EmptyList   \* the_empty_list

VARIABLES
  locals,       \* the value of every native local
  rootObjects,  \* the pinned locals, bottom first
  heap,         \* reachable cell -> [kind, field]
  running       \* FALSE once the process has exited

avars == <<locals, rootObjects, heap, running>>

FieldIdx(k) == IF k \in {"pair", "vector"} THEN {1, 2} ELSE {}

RECURSIVE ReachIn(_, _)
ReachIn(h, S) ==
  LET S2 == S \cup (UNION {{h[c].field[i] : i \in FieldIdx(h[c].kind)} : c \in S}
                     \ {EmptyList})
  IN  IF S2 = S THEN S ELSE ReachIn(h, S2)

(* The heap h as the locals ls see it: the objects they reach.             *)
Seen(h, ls) == LET live == ReachIn(h, {ls[s] : s \in Slots} \ {EmptyList})
               IN  [c \in live |-> h[c]]

Init ==
  /\ locals = [s \in Slots |-> EmptyList]
  /\ rootObjects = <<>>
  /\ heap = <<>>
  /\ running = TRUE

PushRoot(s) ==
  /\ running /\ s \notin Range(rootObjects)
  /\ rootObjects' = Append(rootObjects, s)
  /\ UNCHANGED <<locals, heap, running>>

PopRoot(s) ==
  /\ running /\ s \in Range(rootObjects)
  /\ rootObjects' = RemoveAt(rootObjects, SelectLastInSeq(rootObjects, LAMBDA x : x = s))
  /\ locals' = [locals EXCEPT ![s] = EmptyList]
  /\ heap' = Seen(heap, locals')
  /\ UNCHANGED running

LoadField(s, t, i) ==
  /\ running /\ s \in Range(rootObjects)
  /\ locals[t] # EmptyList /\ i \in FieldIdx(heap[locals[t]].kind)
  /\ locals' = [locals EXCEPT ![s] = heap[locals[t]].field[i]]
  /\ heap' = Seen(heap, locals')
  /\ UNCHANGED <<rootObjects, running>>

StoreField(t, i, s) ==
  /\ running
  /\ locals[t] # EmptyList /\ i \in FieldIdx(heap[locals[t]].kind)
  /\ heap' = Seen([heap EXCEPT ![locals[t]].field[i] = locals[s]], locals)
  /\ UNCHANGED <<locals, rootObjects, running>>

ClearLocal(s) ==
  /\ running /\ locals[s] # EmptyList
  /\ locals' = [locals EXCEPT ![s] = EmptyList]
  /\ heap' = Seen(heap, locals')
  /\ UNCHANGED <<rootObjects, running>>

(* The new object takes a cell no reachable object occupies; its fields   *)
(* are the values of two locals, or empty for a kind without references. *)
Alloc(s, k, a, b) ==
  /\ running /\ s \in Range(rootObjects)
  /\ \E c \in Cells \ DOMAIN heap :
       LET vals == IF FieldIdx(k) = {} THEN <<EmptyList, EmptyList>>
                   ELSE <<locals[a], locals[b]>>
       IN  /\ locals' = [locals EXCEPT ![s] = c]
           /\ heap' = Seen((c :> [kind |-> k, field |-> vals]) @@ heap, locals')
  /\ UNCHANGED <<rootObjects, running>>

OutOfMemory ==
  /\ running
  /\ running' = FALSE
  /\ UNCHANGED <<locals, rootObjects, heap>>

Next ==
  \/ \E s \in Slots : PushRoot(s) \/ PopRoot(s) \/ ClearLocal(s)
  \/ \E s, t \in Slots, i \in 1..2 : LoadField(s, t, i) \/ StoreField(t, i, s)
  \/ \E s, a, b \in Slots, k \in Kinds : Alloc(s, k, a, b)
  \/ OutOfMemory

Spec == Init /\ [][Next]_avars

=============================================================================
