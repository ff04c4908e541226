------------------------------- MODULE GCHeap -------------------------------
(***************************************************************************)
(* The heap, allocator and collector of src/gc.c.                          *)
(*                                                                         *)
(* Object cells live on one of two doubly linked lists, Active and Old,   *)
(* whose prev/next pointers are modelled one for one.  alloc_object hands *)
(* out the cell at Next_Free_Object and advances it along Active; when    *)
(* Active is used up it runs baker_collect: Old is appended to Active,    *)
(* current_color is advanced, every object reachable from a pinned local  *)
(* is coloured and moved to the head of Old, Old itself being the scan    *)
(* queue walked through prev, finalizable objects left unreached are      *)
(* finalized, the colour is advanced again and the unreached rest of      *)
(* Active is reused.  If too little was freed, extend_heap prepends a new *)
(* block of cells.                                                         *)
(*                                                                         *)
(* The mutator is native code that keeps the pinning contract of         *)
(* push_root and pop_root: its locals (Slots) hold objects only while     *)
(* their address is pinned, a local going out of scope with its pin.     *)
(* It allocates into a pinned local from the values of pinned locals,    *)
(* loads and stores object fields, and drops references.                 *)
(*                                                                         *)
(* The collector's loops are stepped: one step per root (move_reachable's *)
(* entry), one per scanned object, so that the list surgery is checked   *)
(* between every pair of moves.  The mutator cannot run while pc is not   *)
(* "idle": the runtime is single-threaded and alloc_object returns only   *)
(* after the collection.                                                  *)
(***************************************************************************)
EXTENDS Naturals, Sequences, SequencesExt, FiniteSets

CONSTANTS
  MaxCells,        \* cells the backing pool can hold; MALLOC fails beyond it
  InitialHeap,     \* the extend_heap(1000) of gc_init
  HeapExtension0,  \* the initial Next_Heap_Extension (also 1000)
  ColorBits,       \* width of the char current_color
  Slots,           \* native locals whose address can be pinned with push_root
  Kinds,           \* object types allocated: a subset of "pair", "vector", "string"
  Nil,             \* NULL
  EmptyList        \* the_empty_list: a permanently pinned singleton

ASSUME MaxCells \in Nat /\ InitialHeap \in 2..MaxCells /\ HeapExtension0 \in 2..MaxCells
ASSUME ColorBits \in Nat \ {0}
ASSUME Kinds \subseteq {"pair", "vector", "string"}

Cells == 1..MaxCells
Ref == Cells \cup {EmptyList}
ColorSpace == 2^ColorBits
NoKind == "none"
EmptyDLL == [head |-> Nil, tail |-> Nil, count |-> 0]
NoRequest == [dst |-> Nil, kind |-> NoKind, vals |-> <<EmptyList, EmptyList>>]

VARIABLES
  prev, next,          \* object->prev, object->next
  color,               \* object->color
  active, old,         \* Active_Heap_Objects, Old_Heap_Objects
  nextFree,            \* Next_Free_Object
  heapSize,            \* cells taken from the pool so far
  currentColor,        \* current_color
  nextHeapExtension,   \* Next_Heap_Extension
  kind, field,         \* object->type and its object references
  rootObjects,         \* Root_Objects: the pinned locals, bottom first
  locals,              \* the value of every native local
  finalizable,         \* Finalizable_Objects
  freedPayload,        \* cells whose out-of-slab payload has been finalized
  pc,                  \* where alloc_object is: idle, mark, scan, grow, exit
  rootIdx,             \* ii of baker_collect's root loop
  scanIter,            \* scan_iter of move_reachable
  request              \* the pending alloc_object call and its arguments

heapVars == <<prev, next, color, active, old, nextFree, heapSize>>
vars == <<prev, next, color, active, old, nextFree, heapSize, currentColor,
          nextHeapExtension, kind, field, rootObjects, locals, finalizable,
          freedPayload, pc, rootIdx, scanIter, request>>

(* The list state as one record, so that list surgery composes.           *)
H == [prev |-> prev, next |-> next, color |-> color, active |-> active,
      old |-> old, nextFree |-> nextFree, size |-> heapSize]

SetHeap(h) ==
  /\ prev' = h.prev /\ next' = h.next /\ color' = h.color
  /\ active' = h.active /\ old' = h.old
  /\ nextFree' = h.nextFree /\ heapSize' = h.size

-----------------------------------------------------------------------------
(* Object layout                                                           *)

(* The references the scanner follows, in its order: car then cdr of a    *)
(* PAIR, the elements of a VECTOR (two here), none for a STRING.           *)
FieldsOf(k) == IF k \in {"pair", "vector"} THEN <<1, 2>> ELSE <<>>

(* STRING and VECTOR own an out-of-slab buffer and are allocated with     *)
(* needs_finalization set.                                                 *)
NeedsFinalization(k) == k \in {"string", "vector"}

(* Mutant: the colour is not kept within the width of a char.           *)
NextColorUnbounded(c) == c + 1

NextColor(c) == (c + 1) % ColorSpace

-----------------------------------------------------------------------------
(* List surgery                                                            *)

(* Mutant: obj->next->prev = obj is left out when Old is not empty.       *)
MoveObjectToHeadNoBackLink(h, o) ==
  LET p == h.prev[o]
      n == h.next[o]
      prev1 == IF n = Nil THEN h.prev ELSE [h.prev EXCEPT ![n] = p]
      next1 == IF p = Nil THEN h.next ELSE [h.next EXCEPT ![p] = n]
      src == [head  |-> IF p = Nil THEN n ELSE h.active.head,
              tail  |-> IF n = Nil THEN p ELSE h.active.tail,
              count |-> h.active.count - 1]
      d == h.old
  IN  [h EXCEPT !.prev = [prev1 EXCEPT ![o] = Nil],
                !.next = [next1 EXCEPT ![o] = d.head],
                !.active = src,
                !.old = [head |-> o, tail |-> IF d.head = Nil THEN o ELSE d.tail,
                         count |-> d.count + 1]]

(* move_object_to_head(obj, &Active_Heap_Objects, &Old_Heap_Objects)       *)
MoveObjectToHead(h, o) ==
  LET p == h.prev[o]
      n == h.next[o]
      prev1 == IF n = Nil THEN h.prev ELSE [h.prev EXCEPT ![n] = p]
      next1 == IF p = Nil THEN h.next ELSE [h.next EXCEPT ![p] = n]
      src == [head  |-> IF p = Nil THEN n ELSE h.active.head,
              tail  |-> IF n = Nil THEN p ELSE h.active.tail,
              count |-> h.active.count - 1]
      d == h.old
  IN  IF d.head = Nil
      THEN [h EXCEPT !.prev = [prev1 EXCEPT ![o] = Nil],
                     !.next = [next1 EXCEPT ![o] = Nil],
                     !.active = src,
                     !.old = [head |-> o, tail |-> o, count |-> d.count + 1]]
      ELSE [h EXCEPT !.prev = [prev1 EXCEPT ![o] = Nil, ![d.head] = o],
                     !.next = [next1 EXCEPT ![o] = d.head],
                     !.active = src,
                     !.old = [head |-> o, tail |-> d.tail, count |-> d.count + 1]]

(* append_to_tail(&Active_Heap_Objects, &Old_Heap_Objects)                 *)
AppendToTail(h) ==
  LET a == h.active
      o == h.old
  IN  CASE a.tail = Nil ->
             [h EXCEPT !.active = [head |-> o.head, tail |-> o.tail,
                                   count |-> a.count + o.count],
                       !.old = EmptyDLL]
        [] o.head = Nil -> h
        [] OTHER ->
             [h EXCEPT !.next = [h.next EXCEPT ![a.tail] = o.head],
                       !.prev = [h.prev EXCEPT ![o.head] = a.tail],
                       !.active = [head |-> a.head, tail |-> o.tail,
                                   count |-> a.count + o.count],
                       !.old = EmptyDLL]

(* Mutant: the old head of Active is not pointed back at the new block.  *)
ExtendHeapNoBackLink(h, n, col) ==
  LET first == h.size + 1
      last  == h.size + n
  IN  [h EXCEPT
         !.prev = [c \in Cells |->
                    CASE c = first -> Nil
                      [] c \in first + 1..last -> c - 1
                      [] OTHER -> h.prev[c]],
         !.next = [c \in Cells |->
                    CASE c \in first..last - 1 -> c + 1
                      [] c = last -> h.active.head
                      [] OTHER -> h.next[c]],
         !.color = [c \in Cells |-> IF c \in first..last THEN col ELSE h.color[c]],
         !.active = [head  |-> first,
                     tail  |-> IF h.active.head = Nil THEN last ELSE h.active.tail,
                     count |-> h.active.count + n],
         !.nextFree = first,
         !.size = last]

(* extend_heap(n): n fresh cells of colour col, chained and prepended to  *)
(* Active; Next_Free_Object moves back to the first of them.               *)
ExtendHeap(h, n, col) ==
  LET first == h.size + 1
      last  == h.size + n
  IN  [h EXCEPT
         !.prev = [c \in Cells |->
                    CASE c = first -> Nil
                      [] c \in first + 1..last -> c - 1
                      [] c = h.active.head -> last
                      [] OTHER -> h.prev[c]],
         !.next = [c \in Cells |->
                    CASE c \in first..last - 1 -> c + 1
                      [] c = last -> h.active.head
                      [] OTHER -> h.next[c]],
         !.color = [c \in Cells |-> IF c \in first..last THEN col ELSE h.color[c]],
         !.active = [head  |-> first,
                     tail  |-> IF h.active.head = Nil THEN last ELSE h.active.tail,
                     count |-> h.active.count + n],
         !.nextFree = first,
         !.size = last]

(* maybe_move(obj): colour and move an object not yet of this colour.     *)
MaybeMove(h, o) ==
  IF o # EmptyList /\ h.color[o] # currentColor
  THEN [MoveObjectToHead(h, o) EXCEPT !.color[o] = currentColor]
  ELSE h

(* Mutant: the scanner's PAIR case forgets the cdr.                      *)
ScanFieldsCarOnly(h, o) ==
  IF FieldsOf(kind[o]) = <<>> THEN h ELSE MaybeMove(h, field[o][1])

(* The switch of move_reachable: maybe_move every reference of obj.       *)
ScanFields(h, o) ==
  FoldLeft(LAMBDA acc, i : MaybeMove(acc, field[o][i]), h, FieldsOf(kind[o]))

-----------------------------------------------------------------------------
(* Walking the lists                                                       *)

RECURSIVE Walk(_, _, _)
(* The cells met from c following next, at most k of them.                *)
Walk(nxt, c, k) == IF c = Nil \/ k = 0 THEN <<>> ELSE <<c>> \o Walk(nxt, nxt[c], k - 1)

(* debug_validate(list): head/tail/count and prev agree with next.        *)
ListValid(h, l) ==
  LET w == Walk(h.next, l.head, MaxCells + 1)
  IN  /\ Len(w) = l.count
      /\ (l.count = 0) <=> (l.head = Nil /\ l.tail = Nil)
      /\ l.count > 0 =>
           /\ h.prev[l.head] = Nil
           /\ w[Len(w)] = l.tail
           /\ h.next[l.tail] = Nil
           /\ \A i \in 2..Len(w) : h.prev[w[i]] = w[i - 1]

(* debug_validate(list) as the code writes it: the walk over the central *)
(* nodes between head->next and tail, with last trailing one behind.  A  *)
(* list whose next chain never reaches the tail would crash or spin the   *)
(* debug build; it is rejected here.                                      *)
DebugValidate(h, l) ==
  IF l.head = Nil \/ l.tail = Nil
  THEN l.head = Nil /\ l.tail = Nil /\ l.count = 0
  ELSE /\ h.prev[l.head] = Nil
       /\ IF l.head = l.tail
          THEN l.count = 1 /\ h.next[l.head] = Nil /\ h.prev[l.tail] = Nil
          ELSE LET w == Walk(h.next, h.next[l.head], MaxCells + 1)
                   central == SubSeq(w, 1, SelectInSeq(w, LAMBDA c : c = l.tail) - 1)
                   last == IF central = <<>> THEN Nil ELSE central[Len(central)]
               IN  /\ h.next[l.head] # Nil
                   /\ l.tail \in ToSet(w)
                   /\ \A i \in DOMAIN central :
                        /\ h.prev[central[i]] # Nil /\ h.next[central[i]] # Nil
                        /\ i > 1 => h.prev[central[i]] = central[i - 1]
                   /\ h.next[l.tail] = Nil
                   /\ h.prev[l.tail] # Nil
                   /\ h.prev[l.tail] = last
                   /\ Len(central) + 2 = l.count

ActiveCells == ToSet(Walk(next, active.head, MaxCells + 1))
OldCells    == ToSet(Walk(next, old.head, MaxCells + 1))
(* The unallocated cells: Active from Next_Free_Object to its tail.      *)
FreeCells   == ToSet(Walk(next, nextFree, MaxCells + 1))
Pinned      == Range(rootObjects)

RECURSIVE Closure(_)
Closure(S) ==
  LET S2 == S \cup (UNION {{field[c][i] : i \in ToSet(FieldsOf(kind[c]))} : c \in S}
                     \ {EmptyList})
  IN  IF S2 = S THEN S ELSE Closure(S2)

(* The objects reachable from a set of locals.                            *)
ReachableFrom(ss) == Closure({locals[s] : s \in ss} \ {EmptyList})

-----------------------------------------------------------------------------
(* gc_init                                                                 *)

Init ==
  LET h0 == [prev |-> [c \in Cells |-> Nil], next |-> [c \in Cells |-> Nil],
             color |-> [c \in Cells |-> 0], active |-> EmptyDLL,
             old |-> EmptyDLL, nextFree |-> Nil, size |-> 0]
      h1 == ExtendHeap(h0, InitialHeap, 0)
  IN  /\ prev = h1.prev /\ next = h1.next /\ color = h1.color
      /\ active = h1.active /\ old = h1.old
      /\ nextFree = h1.active.head /\ heapSize = h1.size
      /\ currentColor = 0
      /\ nextHeapExtension = HeapExtension0
      /\ kind = [c \in Cells |-> NoKind]
      /\ field = [c \in Cells |-> <<EmptyList, EmptyList>>]
      /\ rootObjects = <<>>
      /\ locals = [s \in Slots |-> EmptyList]
      /\ finalizable = <<>>
      /\ freedPayload = {}
      /\ pc = "idle"
      /\ rootIdx = 1
      /\ scanIter = Nil
      /\ request = NoRequest

-----------------------------------------------------------------------------
(* Root pinning: push_root and pop_root                                    *)

PushRoot(s) ==
  /\ pc = "idle"
  /\ s \notin Pinned
  /\ rootObjects' = Append(rootObjects, s)
  /\ UNCHANGED <<heapVars, currentColor, nextHeapExtension, kind, field, locals,
                 finalizable, freedPayload, pc, rootIdx, scanIter, request>>

(* stack_set_pop removes the topmost entry equal to the address, keeping  *)
(* the order of the others (StackSet checks this of the array code).  The *)
(* local goes out of scope with its pin.                                  *)
PopRoot(s) ==
  /\ pc = "idle"
  /\ s \in Pinned
  /\ rootObjects' = RemoveAt(rootObjects, SelectLastInSeq(rootObjects, LAMBDA x : x = s))
  /\ locals' = [locals EXCEPT ![s] = EmptyList]
  /\ UNCHANGED <<heapVars, currentColor, nextHeapExtension, kind, field,
                 finalizable, freedPayload, pc, rootIdx, scanIter, request>>

-----------------------------------------------------------------------------
(* The mutator's own steps between allocations                             *)

(* x = car(y) / x = VARRAY(y)[i]                                           *)
LoadField(s, t, i) ==
  /\ pc = "idle"
  /\ s \in Pinned
  /\ locals[t] \in Cells /\ i \in ToSet(FieldsOf(kind[locals[t]]))
  /\ locals' = [locals EXCEPT ![s] = field[locals[t]][i]]
  /\ UNCHANGED <<heapVars, currentColor, nextHeapExtension, kind, field,
                 rootObjects, finalizable, freedPayload, pc, rootIdx, scanIter, request>>

(* set_car(y, x) / VARRAY(y)[i] = x                                        *)
StoreField(t, i, s) ==
  /\ pc = "idle"
  /\ locals[t] \in Cells /\ i \in ToSet(FieldsOf(kind[locals[t]]))
  /\ field' = [field EXCEPT ![locals[t]][i] = locals[s]]
  /\ UNCHANGED <<heapVars, currentColor, nextHeapExtension, kind, locals,
                 rootObjects, finalizable, freedPayload, pc, rootIdx, scanIter, request>>

(* x = the_empty_list                                                      *)
ClearLocal(s) ==
  /\ pc = "idle"
  /\ locals[s] # EmptyList
  /\ locals' = [locals EXCEPT ![s] = EmptyList]
  /\ UNCHANGED <<heapVars, currentColor, nextHeapExtension, kind, field,
                 rootObjects, finalizable, freedPayload, pc, rootIdx, scanIter, request>>

-----------------------------------------------------------------------------
(* alloc_object                                                            *)

Args(k, a, b) == IF FieldsOf(k) = <<>> THEN <<EmptyList, EmptyList>>
                 ELSE <<locals[a], locals[b]>>
(* Mutant: Next_Free_Object is not advanced past the cell handed out.    *)
TakeCellNoAdvance(h, r) ==
  LET o == h.nextFree
  IN  /\ SetHeap([h EXCEPT !.color[o] = currentColor])
      /\ kind' = [kind EXCEPT ![o] = r.kind]
      /\ field' = [field EXCEPT ![o] = r.vals]
      /\ finalizable' = IF NeedsFinalization(r.kind) THEN Append(finalizable, o)
                        ELSE finalizable
      /\ freedPayload' = freedPayload \ {o}
      /\ locals' = [locals EXCEPT ![r.dst] = o]
      /\ pc' = "idle"
      /\ request' = NoRequest

(* The tail of alloc_object: take the cell at Next_Free_Object, colour it  *)
(* live, record it for finalization, advance; then the constructor fills  *)
(* in its fields.                                                          *)
TakeCell(h, r) ==
  LET o == h.nextFree
  IN  /\ SetHeap([h EXCEPT !.color[o] = currentColor, !.nextFree = h.next[o]])
      /\ kind' = [kind EXCEPT ![o] = r.kind]
      /\ field' = [field EXCEPT ![o] = r.vals]
      /\ finalizable' = IF NeedsFinalization(r.kind) THEN Append(finalizable, o)
                        ELSE finalizable
      /\ freedPayload' = freedPayload \ {o}
      /\ locals' = [locals EXCEPT ![r.dst] = o]
      /\ pc' = "idle"
      /\ request' = NoRequest

(* Next_Free_Object is not NULL: no collection.                           *)
AllocFast(s, k, a, b) ==
  /\ pc = "idle"
  /\ nextFree # Nil
  /\ s \in Pinned
  /\ TakeCell(H, [dst |-> s, kind |-> k, vals |-> Args(k, a, b)])
  /\ UNCHANGED <<currentColor, nextHeapExtension, rootObjects, rootIdx, scanIter>>

(* Next_Free_Object is NULL: baker_collect starts by merging Old into     *)
(* Active and advancing the colour.                                        *)
AllocSlow(s, k, a, b) ==
  /\ pc = "idle"
  /\ nextFree = Nil
  /\ s \in Pinned
  /\ SetHeap(AppendToTail(H))
  /\ currentColor' = NextColor(currentColor)
  /\ rootIdx' = 1
  /\ pc' = "mark"
  /\ request' = [dst |-> s, kind |-> k, vals |-> Args(k, a, b)]
  /\ UNCHANGED <<nextHeapExtension, kind, field, rootObjects, locals,
                 finalizable, freedPayload, scanIter>>

-----------------------------------------------------------------------------
(* baker_collect and move_reachable                                        *)

(* Mutant: the root loop does not advance past a root it skips.          *)
SkipRootStuck ==
  /\ pc = "mark"
  /\ rootIdx <= Len(rootObjects)
  /\ LET r == locals[rootObjects[rootIdx]]
     IN  IF r = EmptyList THEN TRUE ELSE color[r] = currentColor
  /\ UNCHANGED vars

(* move_reachable on the root returns at once: NULL or already marked.  *)
SkipRoot ==
  /\ pc = "mark"
  /\ rootIdx <= Len(rootObjects)
  /\ LET r == locals[rootObjects[rootIdx]]
     IN  IF r = EmptyList THEN TRUE ELSE color[r] = currentColor
  /\ rootIdx' = rootIdx + 1
  /\ UNCHANGED <<heapVars, currentColor, nextHeapExtension, kind, field,
                 rootObjects, locals, finalizable, freedPayload, pc, scanIter, request>>

(* move_reachable on the root: colour the root, move it to the head of Old and *)
(* start scanning there.                                                   *)
MarkRoot ==
  /\ pc = "mark"
  /\ rootIdx <= Len(rootObjects)
  /\ LET r == locals[rootObjects[rootIdx]]
     IN  /\ r # EmptyList /\ color[r] # currentColor
         /\ SetHeap(MoveObjectToHead([H EXCEPT !.color[r] = currentColor], r))
         /\ scanIter' = r
  /\ pc' = "scan"
  /\ UNCHANGED <<currentColor, nextHeapExtension, kind, field, rootObjects,
                 locals, finalizable, freedPayload, rootIdx, request>>

(* Mutant: the scan steps to scan_iter->next, away from the new arrivals. *)
ScanObjectForward ==
  /\ pc = "scan"
  /\ scanIter # Nil
  /\ LET h == ScanFields(H, scanIter)
     IN  /\ SetHeap(h)
         /\ scanIter' = h.next[scanIter]
  /\ UNCHANGED <<currentColor, nextHeapExtension, kind, field, rootObjects,
                 locals, finalizable, freedPayload, pc, rootIdx, request>>

(* One turn of the scan loop: move the object's unmarked references to    *)
(* the head of Old, then step to scan_iter->prev.                          *)
ScanObject ==
  /\ pc = "scan"
  /\ scanIter # Nil
  /\ LET h == ScanFields(H, scanIter)
     IN  /\ SetHeap(h)
         /\ scanIter' = h.prev[scanIter]
  /\ UNCHANGED <<currentColor, nextHeapExtension, kind, field, rootObjects,
                 locals, finalizable, freedPayload, pc, rootIdx, request>>

(* The scan reached the head of Old: on to the next root.                 *)
ScanDone ==
  /\ pc = "scan"
  /\ scanIter = Nil
  /\ pc' = "mark"
  /\ rootIdx' = rootIdx + 1
  /\ UNCHANGED <<heapVars, currentColor, nextHeapExtension, kind, field,
                 rootObjects, locals, finalizable, freedPayload, scanIter, request>>

(* Mutants: every entry is finalized whatever its colour; no entry is     *)
(* dropped from the stack.                                                  *)
FinalizedAll(f) == Range(f)
SurvivorsAll(f) == f

(* Finalizable objects left unreached have their payload freed; the      *)
(* reached ones form the next Finalizable_Objects.                        *)
Finalized(f) == {f[i] : i \in {j \in DOMAIN f : color[f[j]] # currentColor}}
Survivors(f) == SelectSeq(f, LAMBDA c : color[c] = currentColor)

(* The rest of baker_collect: finalize, swap the stacks, advance the      *)
(* colour again, and restart Next_Free_Object at the head of Active.      *)
CollectFinish ==
  /\ pc = "mark"
  /\ rootIdx > Len(rootObjects)
  /\ freedPayload' = freedPayload \cup Finalized(finalizable)
  /\ finalizable' = Survivors(finalizable)
  /\ currentColor' = NextColor(currentColor)
  /\ nextFree' = active.head
  /\ pc' = "grow"
  /\ rootIdx' = 1
  /\ UNCHANGED <<prev, next, color, active, old, heapSize, nextHeapExtension,
                 kind, field, rootObjects, locals, scanIter, request>>

-----------------------------------------------------------------------------
(* The rest of alloc_object after the collection                           *)

(* freed == 0 || Next_Heap_Extension / freed > 2                           *)
NeedsGrowth == IF active.count = 0 THEN TRUE
               ELSE nextHeapExtension \div active.count > 2

GrowHeap ==
  /\ pc = "grow"
  /\ NeedsGrowth
  /\ heapSize + nextHeapExtension <= MaxCells
  /\ TakeCell(ExtendHeap(H, nextHeapExtension, currentColor), request)
  /\ nextHeapExtension' = nextHeapExtension * 3
  /\ UNCHANGED <<currentColor, rootObjects, rootIdx, scanIter>>

(* MALLOC of the extension fails: "out of memory", exit(1).               *)
OutOfMemory ==
  /\ pc = "grow"
  /\ NeedsGrowth
  /\ heapSize + nextHeapExtension > MaxCells
  /\ pc' = "exit"
  /\ UNCHANGED <<heapVars, currentColor, nextHeapExtension, kind, field,
                 rootObjects, locals, finalizable, freedPayload, rootIdx,
                 scanIter, request>>

ReuseFreed ==
  /\ pc = "grow"
  /\ ~NeedsGrowth
  /\ TakeCell(H, request)
  /\ UNCHANGED <<currentColor, nextHeapExtension, rootObjects, rootIdx, scanIter>>

(* The process has exited.                                                 *)
Exited == pc = "exit" /\ UNCHANGED vars

-----------------------------------------------------------------------------

Mutator ==
  \/ \E s \in Slots : PushRoot(s) \/ PopRoot(s) \/ ClearLocal(s)
  \/ \E s, t \in Slots, i \in 1..2 : LoadField(s, t, i) \/ StoreField(t, i, s)
  \/ \E s, a, b \in Slots, k \in Kinds : AllocFast(s, k, a, b) \/ AllocSlow(s, k, a, b)

Collector ==
  \/ SkipRoot \/ MarkRoot \/ ScanObject \/ ScanDone \/ CollectFinish
  \/ GrowHeap \/ OutOfMemory \/ ReuseFreed

Next == Mutator \/ Collector \/ Exited

(* alloc_object runs the collection to its end before it returns.          *)
Spec == Init /\ [][Next]_vars /\ WF_vars(Collector)

-----------------------------------------------------------------------------
(* Between allocations, the kind, fields and colour of a cell nothing    *)
(* can reach are never read again, save whether it needs finalization:   *)
(* the collector never visits it and finalizes it whatever its colour,   *)
(* and alloc_object and the constructor overwrite all of it on reuse.    *)
(* States that differ only there behave alike; View identifies them.     *)
Unseen == IF pc = "idle" THEN (1..heapSize) \ ReachableFrom(Slots) ELSE {}
View == <<prev, next, active, old, nextFree, heapSize, currentColor,
          nextHeapExtension, rootObjects, locals, finalizable, freedPayload,
          pc, rootIdx, scanIter, request,
          [c \in Cells \ Unseen |-> <<color[c], kind[c], field[c]>>],
          [c \in Unseen |-> kind[c] # NoKind /\ NeedsFinalization(kind[c])]>>

-----------------------------------------------------------------------------
(* Properties                                                              *)

TypeOK ==
  /\ prev \in [Cells -> Cells \cup {Nil}] /\ next \in [Cells -> Cells \cup {Nil}]
  /\ color \in [Cells -> 0..ColorSpace - 1]
  /\ nextFree \in Cells \cup {Nil}
  /\ heapSize \in 0..MaxCells
  /\ currentColor \in 0..ColorSpace - 1
  /\ kind \in [Cells -> Kinds \cup {NoKind}]
  /\ field \in [Cells -> [1..2 -> Ref]]
  /\ rootObjects \in Seq(Slots) /\ IsInjective(rootObjects)
  /\ locals \in [Slots -> Ref]
  /\ finalizable \in Seq(Cells)
  /\ freedPayload \subseteq Cells
  /\ pc \in {"idle", "mark", "scan", "grow", "exit"}
  /\ scanIter \in Cells \cup {Nil}

(* Both lists stay well formed through every move_object_to_head,          *)
(* append_to_tail and extend_heap, and together they hold every cell of   *)
(* the pool exactly once (the debug_validate checks, plus the partition).  *)
HeapPartition ==
  /\ ListValid(H, active)
  /\ ListValid(H, old)
  /\ ActiveCells \cap OldCells = {}
  /\ ActiveCells \cup OldCells = 1..heapSize

(* Between allocations, nothing a native local can reach lies in the part *)
(* of Active that alloc_object will hand out again: a collection never    *)
(* frees, and an allocation never returns, a live object.                 *)
NoLiveCellFree ==
  pc = "idle" => ReachableFrom(Slots) \cap FreeCells = {}

(* After a collection (baker_collect has returned into alloc_object),     *)
(* every object reachable from a pinned local is on Old and carries the   *)
(* colour current_color - 1, as the spec's collection law states.          *)
CollectedLiveOnOld ==
  pc = "grow" =>
    \A c \in ReachableFrom(Pinned) :
      c \in OldCells /\ NextColor(color[c]) = currentColor

(* Between allocations, Finalizable_Objects lists exactly the allocated   *)
(* objects that own a payload, each once: none is forgotten (a leak) and  *)
(* none is left behind once finalized, to be finalized again later.       *)
FinalizableTracked ==
  pc = "idle" =>
    /\ IsInjective(finalizable)
    /\ Range(finalizable) = {c \in (1..heapSize) \ FreeCells :
                               kind[c] # NoKind /\ NeedsFinalization(kind[c])}

(* No object a local can reach has had its payload finalized.             *)
NoUseAfterFinalize ==
  pc = "idle" => ReachableFrom(Slots) \cap freedPayload = {}

(* Every allocation that starts a collection returns (or the process      *)
(* exits on out-of-memory): the traversal and the root loop terminate.    *)
AllocationCompletes ==
  pc \in {"mark", "scan", "grow"} ~> pc \in {"idle", "exit"}

(* The DEBUG_GC check debug_validate, called on both lists at the end of  *)
(* every baker_collect and extend_heap, accepts every well-formed list:   *)
(* its assertions hold whenever head, tail, count and the prev and next   *)
(* links agree.                                                           *)
DebugValidateAgrees ==
  \A l \in {active, old} : ListValid(H, l) => DebugValidate(H, l)

(* The collector is invisible to native code: seen through the graph its  *)
(* locals reach, every step is a step of GCAbs.  Collections, extensions *)
(* and finalization leave every reachable object's type and fields as     *)
(* they were, and alloc_object returns a cell no reachable object holds.  *)
Abs == INSTANCE GCAbs WITH
         Cells <- Cells,
         heap <- [c \in ReachableFrom(Slots) |-> [kind |-> kind[c], field |-> field[c]]],
         running <- pc # "exit"
CollectorTransparent == Abs!Spec

=============================================================================
