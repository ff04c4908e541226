--------------------------------- MODULE VM ---------------------------------
(***************************************************************************)
(* vm_execute of src/vm.c: the bytecode interpreter, one action per       *)
(* opcode case, over an abstract heap of the objects the VM builds and    *)
(* reads: pairs (environment conses, continuation triples, lists),        *)
(* vectors (frames and value stacks), compiled procedures and primitives. *)
(*                                                                         *)
(* The value stack is a VECTOR object grown by vector_push; VPUSH and     *)
(* VPOP (vm.h, not under src/) are vector_push / vector_pop followed by   *)
(* the increment or decrement of stack_top.  Fixnums and the other        *)
(* immediates are values here, their identity being invisible to the VM. *)
(* The collector is left out (GCHeap models it): this module is about the *)
(* interpreter's own control and data.                                    *)
(***************************************************************************)
EXTENDS Integers, Sequences, SequencesExt

CONSTANTS
  Programs,     \* label -> bytecode vector: the compiler's output
  PrimNames,    \* primitive procedures bound globally under their name
  GlobalProcs,  \* labels of compiled procedures bound globally under their label
  Calls,        \* the calls vm_execute may be given: [main, args, caller]
  StackSizes,   \* VSIZE of the value stack the caller passes
  MaxObjs,      \* objects the heap can hold
  MaxVec,       \* the largest vector index modelled, plus one
  CallerPins    \* which of fn and stack the caller of vm_execute keeps pinned

Fix(n) == [k |-> "fix", n |-> n]
Obj(i) == [k |-> "obj", n |-> i]
False == [k |-> "false", n |-> 0]      \* the false singleton
Nil == [k |-> "nil", n |-> 0]          \* the_empty_list
EmptyVec == [k |-> "evec", n |-> 0]    \* the_empty_vector
ErrorSym == [k |-> "sym", n |-> 0]     \* error_sym
Junk == [k |-> "junk", n |-> 0]        \* a pointer that is not an object

Objs == 1..MaxObjs
VecIdx == 0..MaxVec - 1
Value == {Fix(n) : n \in 0..99} \cup {Obj(i) : i \in Objs}
           \cup {False, Nil, EmptyVec, ErrorSym}

(* Objects 1.. are the primitives, then the global procedures, then the  *)
(* procedure called and the value stack it is given.                     *)
NP == Len(PrimNames)
NG == Len(GlobalProcs)
MainObj == Obj(NP + NG + 1)
StackObj == Obj(NP + NG + 2)

(* make_instr(name, arg1, arg2)                                            *)
I(op, a, b) == [op |-> op, a |-> a, b |-> b]

(* vm_init: the cc_bytecode every reified continuation runs.              *)
CCBytecode == <<I("args", 1, Nil), I("lvar", 1, 1), I("lvar", 1, 0),
                I("setcc", Nil, Nil), I("lvar", 0, 0), I("return", Nil, Nil)>>

Code == Programs @@ ("cc" :> CCBytecode)

VARIABLES
  mem,         \* the heap: per object its type and fields, and the next free id
  fn, env, pc, nArgs,  \* the registers fn, env, pc, n_args
  stk,         \* the local stack
  stackTop,    \* stack_top
  initialTop,  \* initial_top
  globals,     \* vm_global_environment
  status,      \* "run", or how vm_execute ended: "done", "error", "crash"
  result,      \* the value vm_execute returned
  call         \* the call being run, from Calls

vars == <<mem, fn, env, pc, nArgs, stk, stackTop, initialTop, globals, status,
          result, call>>

-----------------------------------------------------------------------------
(* Objects                                                                 *)

TypeIn(m, v) == IF v.k = "obj" THEN m.type[v.n] ELSE v.k
IsCompiled(m, v) == TypeIn(m, v) \in {"proc", "syntax"}
VSize(m, v) == IF v = EmptyVec THEN 0 ELSE m.vsize[v.n]
Car(m, v) == m.car[v.n]
Cdr(m, v) == m.cdr[v.n]
Slot(m, v, i) == m.varray[v.n][i]
SetSlot(m, v, i, x) == [m EXCEPT !.varray[v.n][i] = x]

(* The objects an object refers to, as move_reachable scans them: car    *)
(* and cdr of a pair, the slots of a vector, the env of a procedure.     *)
Refs(m, i) ==
  LET vals == CASE m.type[i] = "pair" -> {m.car[i], m.cdr[i]}
                [] m.type[i] = "vector" -> {m.varray[i][j] : j \in VecIdx \cap 0..m.vsize[i] - 1}
                [] m.type[i] \in {"proc", "syntax", "meta"} -> {m.car[i]}
                [] OTHER -> {}
  IN  {v.n : v \in {x \in vals : x.k = "obj"}}

RECURSIVE ReachIds(_, _, _)
ReachIds(m, seen, todo) ==
  IF todo = {} THEN seen
  ELSE ReachIds(m, seen \cup todo, UNION {Refs(m, i) : i \in todo} \ (seen \cup todo))

(* The objects reachable from a set of values.                             *)
Reach(m, vals) == ReachIds(m, {}, {v.n : v \in {x \in vals : x.k = "obj"}})

(* The caller's pinned references, and the global environment.           *)
CallerRoots == {(IF p = "fn" THEN MainObj ELSE StackObj) : p \in CallerPins}

(* alloc_object may run baker_collect first: every allocated object not  *)
(* reachable from a root (pins: the references pinned at this point, the *)
(* constructor's arguments among them) is reclaimed.  CollectedLiveOnOld *)
(* of GCHeap shows the collector keeps every reachable object; reclaiming *)
(* everything else is the assumption that makes this the worst case:     *)
(* reclaimed sets only grow and cells are not reused.                    *)
Collect(m, pins) ==
  [m EXCEPT !.freed = @ \cup ((1..m.next - 1) \ Reach(m, pins \cup CallerRoots \cup Range(globals)))]

(* Mutant: vm_execute does not pin env.                                   *)
PinnedNoEnv(f, e) == {f}

(* push_root(&fn); push_root(&env): the registers pinned for the call.   *)
Pinned(f, e) == {f, e}

(* cons / make_vector(fill, n) / make_compiled_proc(code, env), each      *)
(* keeping its arguments pinned while it allocates: <<m, obj>>.           *)
AllocCons(m, pins, a, d) ==
  LET g == Collect(m, pins \cup {a, d})
  IN  <<[g EXCEPT !.type[g.next] = "pair", !.car[g.next] = a, !.cdr[g.next] = d,
                  !.next = g.next + 1], Obj(g.next)>>
AllocVector(m, pins, fill, n) ==
  LET g == Collect(m, pins)
  IN  <<[g EXCEPT !.type[g.next] = "vector", !.vsize[g.next] = n,
                  !.varray[g.next] = [i \in VecIdx |-> fill], !.next = g.next + 1],
        Obj(g.next)>>
AllocProc(m, pins, label, e) ==
  LET g == Collect(m, pins \cup {e})
  IN  <<[g EXCEPT !.type[g.next] = "proc", !.code[g.next] = label, !.car[g.next] = e,
                  !.next = g.next + 1], Obj(g.next)>>

(* The captured environment of a compiled procedure.                      *)
CEnv(m, f) == Car(m, f)

(* Mutant: the value stack grows by one slot at most.                    *)
NewSizeNoGrow(s) == s

(* VSIZE(stack) = old_size * 1.8, converted to long.                       *)
NewSize(s) == (s * 18) \div 10

(* vector_push(stack, thing, top): grow the vector when it is full, the    *)
(* new slots set to the empty list, then store at top.                    *)
VectorPush(m, s, x, t) ==
  LET g == IF t = m.vsize[s.n]
           THEN [m EXCEPT !.vsize[s.n] = NewSize(t),
                          !.varray[s.n] = [i \in VecIdx |-> IF i >= t THEN Nil ELSE @[i]]]
           ELSE m
  IN  SetSlot(g, s, t, x)

(* vector_pop(stack, top): the slot below top is cleared to the empty list *)
VectorPop(m, s, t) == SetSlot(m, s, t - 1, Nil)

(* The frame d levels up the environment chain: cdr taken d times.        *)
RECURSIVE FrameCons(_, _, _)
FrameCons(m, e, d) == IF d = 0 THEN e ELSE FrameCons(m, Cdr(m, e), d - 1)

-----------------------------------------------------------------------------
(* Control                                                                 *)

(* Carry on at instruction p with the given registers.                    *)
Goto(m, f, e, p, n, t) ==
  /\ mem' = m /\ fn' = f /\ env' = e /\ pc' = p /\ nArgs' = n /\ stackTop' = t
  /\ UNCHANGED <<status, result>>

(* A VM_ASSERT failing: VM_RETURN(error_sym).                             *)
Fail(m, t) ==
  /\ mem' = m /\ stackTop' = t /\ status' = "error" /\ result' = ErrorSym
  /\ UNCHANGED <<fn, env, pc, nArgs>>

(* goto vm_fn_begin: VM_ASSERT that fn is a compiled procedure.            *)
EnterFn(m, f, e, p, n, t) ==
  IF IsCompiled(m, f) THEN Goto(m, f, e, p, n, t) ELSE Fail(m, t)

(* RETURN_OPCODE_INSTRUCTIONS: with one value above initial_top, return   *)
(* it; otherwise pop the value and the (pc fn . env) triple under it,     *)
(* restore the registers from the triple and push the value back.        *)
ReturnSeq(m, t) ==
  IF t = initialTop + 1
  THEN /\ mem' = VectorPop(m, stk, t) /\ stackTop' = t - 1
       /\ status' = "done" /\ result' = Slot(m, stk, t - 1)
       /\ UNCHANGED <<fn, env, pc, nArgs>>
  ELSE LET val == Slot(m, stk, t - 1)
           ret == Slot(m, stk, t - 2)
           m1 == VectorPop(VectorPop(m, stk, t), stk, t - 1)
       IN  EnterFn(VectorPush(m1, stk, val, t - 2), Car(m1, Cdr(m1, ret)),
                   Cdr(m1, Cdr(m1, ret)), Car(m1, ret).n, nArgs, t - 1)

(* The n arguments below stack_top, bottom first.                         *)
Window(m, n, t) == [j \in 1..n |-> Slot(m, stk, t - n + j - 1)]

RECURSIVE ListOf(_, _, _)
(* A list of the values of a sequence, consed from its end: <<m, list>>. *)
ListOf(m, pins, s) ==
  IF s = <<>> THEN <<m, Nil>>
  ELSE LET r == ListOf(m, pins, Tail(s)) IN AllocCons(r[1], pins, Head(s), r[2])

(* pfn->data.primitive_proc.fn(stack, n, stack_top): <<m, result>>.  The *)
(* primitives are those the scenarios call: "+" and "list" of the        *)
(* interpreter, and vm_tag_macro_proc, bound as "set-macro!" by vm_init. *)
(* pins: what the VM keeps pinned across the call, pfn included.         *)
PrimResult(m, pins, p, n, t) ==
  LET name == m.code[p.n]
      w == Window(m, n, t)
  IN  CASE name = "+" -> <<Collect(m, pins), Fix(FoldLeft(LAMBDA acc, x : acc + x.n, 0, w))>>
        [] name = "list" -> ListOf(m, pins, w)
        [] OTHER -> <<[m EXCEPT !.type[w[1].n] = "syntax"], w[1]>>

(* Mutant: the unwinding loop pops one value more than the call took.    *)
PopNOneMore(m, n, t) ==
  [m EXCEPT !.varray[stk.n] = [i \in VecIdx |-> IF t - n - 1 <= i /\ i < t THEN Nil ELSE @[i]]]

(* The VPOP loop unwinding a primitive's n arguments.                     *)
PopN(m, n, t) ==
  [m EXCEPT !.varray[stk.n] = [i \in VecIdx |-> IF t - n <= i /\ i < t THEN Nil ELSE @[i]]]

(* A call of a PRIMITIVE_PROC: call it, unwind its arguments, push its    *)
(* result and run the return sequence (primitives are tail-terminal).    *)
CallPrim(m, p, n, t) ==
  LET r == PrimResult(m, Pinned(fn, env) \cup {p}, p, n, t)
  IN  ReturnSeq(VectorPush(PopN(r[1], n, t), stk, r[2], t - n), t - n + 1)

(* is_meta(top): the METAPROC it wraps is called instead.                 *)
Unwrap(m, v) == IF TypeIn(m, v) = "meta" THEN Car(m, v) ELSE v

-----------------------------------------------------------------------------
(* The opcodes                                                              *)

Instr == Code[mem.code[fn.n]][pc + 1]

(* vm_begin: fetch the instruction at pc and dispatch on its opcode.      *)
At(op) ==
  /\ status = "run" /\ stk.k = "obj"
  /\ pc < Len(Code[mem.code[fn.n]])
  /\ Instr.op = op

Push(x) == Goto(VectorPush(mem, stk, x, stackTop), fn, env, pc + 1, nArgs, stackTop + 1)
Top == Slot(mem, stk, stackTop - 1)

(* if(pc >= num_codes) VM_ASSERT(false, "pc flew off the end of memory")  *)
PcOffEnd ==
  /\ status = "run" /\ stk.k = "obj"
  /\ pc >= Len(Code[mem.code[fn.n]])
  /\ Fail(mem, stackTop)
  /\ UNCHANGED <<stk, initialTop, globals, call>>

(* The cases of the dispatch switch: the opcodes of opcode_table.        *)
OpcodeNames == {"args", "argsdot", "return", "const", "fn", "fjump", "tjump", "jump",
                "fcallj", "callj", "lvar", "save", "gvar", "lset", "gset", "setcc",
                "cc", "pop"}

(* default: an opcode character outside the enum:                        *)
(* VM_ASSERT(0, "strange opcode").                                        *)
StrangeOpcode ==
  /\ status = "run" /\ stk.k = "obj"
  /\ pc < Len(Code[mem.code[fn.n]])
  /\ Instr.op \notin OpcodeNames
  /\ Fail(mem, stackTop)
  /\ UNCHANGED <<stk, initialTop, globals, call>>

(* set_car(env, make_vector(the_empty_list, n)) if the top frame is short *)
FrameAtLeast(m, n) ==
  IF n > VSize(m, Car(m, env))
  THEN LET r == AllocVector(m, Pinned(fn, env), Nil, n) IN [r[1] EXCEPT !.car[env.n] = r[2]]
  ELSE m

(* Mutant: the arguments land in the frame in pop order.                 *)
PopIntoFrameReversed(m, v, n, t) ==
  IF n = 0 THEN m
  ELSE [m EXCEPT !.varray[v.n] = [i \in VecIdx |-> IF i < n THEN Slot(m, stk, t - 1 - i) ELSE @[i]],
                 !.varray[stk.n] = [i \in VecIdx |-> IF t - n <= i /\ i < t THEN Nil ELSE @[i]]]

(* for(ii = n - 1; ii >= 0; --ii) { VPOP(top, ...); vdata[ii] = top; }     *)
PopIntoFrame(m, v, n, t) ==
  IF n = 0 THEN m
  ELSE [m EXCEPT !.varray[v.n] = [i \in VecIdx |-> IF i < n THEN Slot(m, stk, t - n + i) ELSE @[i]],
                 !.varray[stk.n] = [i \in VecIdx |-> IF t - n <= i /\ i < t THEN Nil ELSE @[i]]]

Args ==
  /\ At("args")
  /\ LET n == Instr.a
     IN  IF nArgs # n THEN Fail(mem, stackTop)
         ELSE LET m1 == FrameAtLeast(mem, n)
              IN  Goto(PopIntoFrame(m1, Car(m1, env), n, stackTop), fn, env, pc + 1,
                       nArgs, stackTop - n)
  /\ UNCHANGED <<stk, initialTop, globals, call>>

RECURSIVE ConsExcess(_, _, _, _, _)
(* The excess-argument loop: k times pop a value and cons it onto slot n. *)
ConsExcess(m, v, n, t, k) ==
  IF k = 0 THEN m
  ELSE LET r == AllocCons(VectorPop(m, stk, t), Pinned(fn, env), Slot(m, stk, t - 1), Slot(m, v, n))
       IN  ConsExcess([r[1] EXCEPT !.varray[v.n][n] = r[2]], v, n, t - 1, k - 1)

ArgsDot ==
  /\ At("argsdot")
  /\ LET n == Instr.a
     IN  IF nArgs < n THEN Fail(mem, stackTop)
         ELSE LET m1 == FrameAtLeast(mem, n + 1)
                  v == Car(m1, env)
                  m2 == ConsExcess(SetSlot(m1, v, n, Nil), v, n, stackTop, nArgs - n)
              IN  Goto(PopIntoFrame(m2, v, n, stackTop - nArgs + n), fn, env, pc + 1,
                       nArgs, stackTop - nArgs)
  /\ UNCHANGED <<stk, initialTop, globals, call>>

(* fjump / tjump: pop; jump if false-like (resp. not); only #f is.        *)
FJump ==
  /\ At("fjump")
  /\ Goto(VectorPop(mem, stk, stackTop), fn, env,
          IF Top = False THEN Instr.a ELSE pc + 1, nArgs, stackTop - 1)
  /\ UNCHANGED <<stk, initialTop, globals, call>>

TJump ==
  /\ At("tjump")
  /\ Goto(VectorPop(mem, stk, stackTop), fn, env,
          IF Top # False THEN Instr.a ELSE pc + 1, nArgs, stackTop - 1)
  /\ UNCHANGED <<stk, initialTop, globals, call>>

Jump ==
  /\ At("jump")
  /\ Goto(mem, fn, env, Instr.a, nArgs, stackTop)
  /\ UNCHANGED <<stk, initialTop, globals, call>>

(* fn: push make_compiled_proc(BYTECODE(proto), env).                     *)
Fn ==
  /\ At("fn")
  /\ LET r == AllocProc(mem, Pinned(fn, env), Instr.a, env)
     IN  Goto(VectorPush(r[1], stk, r[2], stackTop), fn, env, pc + 1, nArgs, stackTop + 1)
  /\ UNCHANGED <<stk, initialTop, globals, call>>

(* Mutant: the new frame itself becomes env, without the cons.           *)
FreshEnvNoCons(m, f, n) == AllocVector(m, Pinned(f, CEnv(m, f)), Nil, n + 1)

(* env = CENV(fn); newframe = make_vector(the_empty_list, n + 1), pinned; *)
(* env = cons(newframe, env): <<m, env>>.  fn is already the callee.      *)
FreshEnv(m, f, n) ==
  LET r == AllocVector(m, Pinned(f, CEnv(m, f)), Nil, n + 1)
  IN  AllocCons(r[1], Pinned(f, CEnv(m, f)) \cup {r[2]}, r[2], CEnv(r[1], f))

(* fcallj n: a compiled callee gets a fresh env; a primitive is called    *)
(* and returned from; anything else cannot be invoked.                    *)
FCallJ ==
  /\ At("fcallj")
  /\ LET m0 == VectorPop(mem, stk, stackTop)
         t == stackTop - 1
         top == Unwrap(m0, Top)
         n == Instr.a
     IN  CASE IsCompiled(m0, top) ->
                LET c == FreshEnv(m0, top, n) IN EnterFn(c[1], top, c[2], 0, n, t)
           [] TypeIn(m0, top) = "prim" -> CallPrim(m0, top, n, t)
           [] OTHER -> Fail(m0, t)
  /\ UNCHANGED <<stk, initialTop, globals, call>>

RECURSIVE Splat(_, _, _)
(* apply's loop: push each element of the list: <<m, stack_top>>.        *)
Splat(m, l, t) ==
  IF l = Nil THEN <<m, t>>
  ELSE Splat(VectorPush(m, stk, Car(m, l), t), Cdr(m, l), t + 1)

(* callj n: a tail call.  With n = -1 (apply) the argument list under the *)
(* callee is popped and splatted.  A compiled callee reuses the env cons: *)
(* set_cdr(env, CENV(fn)), the top frame left for its args to overwrite. *)
CallJ ==
  /\ At("callj")
  /\ LET m0 == VectorPop(mem, stk, stackTop)
         top == Unwrap(m0, Top)
         sp == IF Instr.a = -1
               THEN Splat(VectorPop(m0, stk, stackTop - 1), Slot(m0, stk, stackTop - 2),
                          stackTop - 2)
               ELSE <<m0, stackTop - 1>>
         m1 == sp[1]
         t == sp[2]
         n == IF Instr.a = -1 THEN t - (stackTop - 2) ELSE Instr.a
     IN  CASE IsCompiled(m1, top) ->
                EnterFn([m1 EXCEPT !.cdr[env.n] = CEnv(m1, top)], top, env, 0, n, t)
           [] TypeIn(m1, top) = "prim" -> CallPrim(m1, top, n, t)
           [] OTHER -> Fail(m1, t)
  /\ UNCHANGED <<stk, initialTop, globals, call>>

(* lvar d i: push VARRAY(car(frame d))[i].                                 *)
Lvar ==
  /\ At("lvar")
  /\ Push(Slot(mem, Car(mem, FrameCons(mem, env, Instr.a)), Instr.b))
  /\ UNCHANGED <<stk, initialTop, globals, call>>

(* lset d i: VARRAY(car(frame d))[i] = the top of the stack, not popped.  *)
Lset ==
  /\ At("lset")
  /\ Goto(SetSlot(mem, Car(mem, FrameCons(mem, env, Instr.a)), Instr.b, Top),
          fn, env, pc + 1, nArgs, stackTop)
  /\ UNCHANGED <<stk, initialTop, globals, call>>

(* gvar sym: push lookup_global_value(sym).                                *)
Gvar ==
  /\ At("gvar")
  /\ Push(globals[Instr.a])
  /\ UNCHANGED <<stk, initialTop, globals, call>>

(* gset sym: define_global_variable(sym, top), not popped.                *)
Gset ==
  /\ At("gset")
  /\ globals' = (Instr.a :> Top) @@ globals
  /\ Goto(mem, fn, env, pc + 1, nArgs, stackTop)
  /\ UNCHANGED <<stk, initialTop, call>>

(* setcc: pop new_stack and new_stack_top, then stack = car(stack) and    *)
(* stack_top = LONG(new_stack_top).  car of the VECTOR stack reads the    *)
(* first word of its payload, which is no object: new_stack is unused.    *)
SetCC ==
  /\ At("setcc")
  /\ Goto(VectorPop(VectorPop(mem, stk, stackTop), stk, stackTop - 1), fn, env, pc + 1,
          nArgs, Slot(mem, stk, stackTop - 2).n)
  /\ stk' = Junk
  /\ UNCHANGED <<initialTop, globals, call>>

(* The next VPUSH or VPOP through a stack that is not an object: a crash, *)
(* or a write into whatever the pointer addresses.                        *)
StackNotAnObject ==
  /\ status = "run" /\ stk.k # "obj"
  /\ status' = "crash"
  /\ UNCHANGED <<mem, fn, env, pc, nArgs, stk, stackTop, initialTop, globals, result, call>>

(* cc: copy the stack up to stack_top into a vector of the same size,     *)
(* wrap it with make_fixnum(stack_top) in a two-slot frame, and push a    *)
(* compiled procedure running cc_bytecode in the env (frame).             *)
CC ==
  /\ At("cc")
  /\ LET r1 == AllocVector(mem, Pinned(fn, env), Nil, 2)
         r2 == AllocVector(r1[1], Pinned(fn, env) \cup {r1[2]}, Nil, VSize(mem, stk))
         m3 == [r2[1] EXCEPT !.varray[r2[2].n] =
                  [i \in VecIdx |-> IF i < stackTop THEN Slot(mem, stk, i) ELSE @[i]]]
         m4 == SetSlot(Collect(SetSlot(m3, r1[2], 0, r2[2]),
                               Pinned(fn, env) \cup {r1[2], r2[2]}), r1[2], 1, Fix(stackTop))
         r5 == AllocCons(m4, Pinned(fn, env) \cup {r1[2]}, r1[2], Nil)
         r6 == AllocProc(r5[1], Pinned(fn, env) \cup {r5[2]}, "cc", r5[2])
     IN  Goto(VectorPush(r6[1], stk, r6[2], stackTop), fn, env, pc + 1, nArgs, stackTop + 1)
  /\ UNCHANGED <<stk, initialTop, globals, call>>

Pop ==
  /\ At("pop")
  /\ Goto(VectorPop(mem, stk, stackTop), fn, env, pc + 1, nArgs, stackTop - 1)
  /\ UNCHANGED <<stk, initialTop, globals, call>>

(* save k: push the continuation triple (k fn . env).                      *)
Save ==
  /\ At("save")
  /\ LET r1 == AllocCons(mem, Pinned(fn, env), fn, env)
         r2 == AllocCons(r1[1], Pinned(fn, env) \cup {r1[2]}, Fix(Instr.a), r1[2])
     IN  Goto(VectorPush(r2[1], stk, r2[2], stackTop), fn, env, pc + 1, nArgs, stackTop + 1)
  /\ UNCHANGED <<stk, initialTop, globals, call>>

Return ==
  /\ At("return")
  /\ ReturnSeq(mem, stackTop)
  /\ UNCHANGED <<stk, initialTop, globals, call>>

Const ==
  /\ At("const")
  /\ Push(Instr.a)
  /\ UNCHANGED <<stk, initialTop, globals, call>>

-----------------------------------------------------------------------------
(* The call: the caller's heap, stack and globals, then vm_execute's       *)
(* prologue env = cons(the_empty_vector, CENV(fn)), made before fn and   *)
(* env are pinned.  The value stack's first entries are the caller's    *)
(* and the arguments.                                                     *)

Heap0(c, size) ==
  LET entries == c.caller \o c.args
  IN  [type   |-> [i \in Objs |-> CASE i <= NP -> "prim"
                                    [] i <= NP + NG + 1 -> "proc"
                                    [] i = NP + NG + 2 -> "vector"
                                    [] OTHER -> "free"],
       car    |-> [i \in Objs |-> Nil],
       cdr    |-> [i \in Objs |-> Nil],
       vsize  |-> [i \in Objs |-> IF i = NP + NG + 2 THEN size ELSE 0],
       varray |-> [i \in Objs |-> [j \in VecIdx |->
                     IF i = NP + NG + 2 /\ j < Len(entries) THEN entries[j + 1] ELSE Nil]],
       code   |-> [i \in Objs |-> CASE i <= NP -> PrimNames[i]
                                    [] i <= NP + NG -> GlobalProcs[i - NP]
                                    [] i = NP + NG + 1 -> c.main
                                    [] OTHER -> "none"],
       next   |-> NP + NG + 3,
       freed  |-> {}]

Init ==
  \E c \in Calls, size \in StackSizes :
    LET h == Heap0(c, size)
        r == AllocCons(h, {}, EmptyVec, CEnv(h, MainObj))
    IN  /\ globals = [x \in ToSet(PrimNames) \cup ToSet(GlobalProcs) |->
                        IF x \in ToSet(PrimNames)
                        THEN Obj(SelectInSeq(PrimNames, LAMBDA y : y = x))
                        ELSE Obj(NP + SelectInSeq(GlobalProcs, LAMBDA y : y = x))]
        /\ mem = r[1] /\ env = r[2]
        /\ fn = MainObj /\ pc = 0 /\ nArgs = Len(c.args)
        /\ stk = StackObj
        /\ stackTop = Len(c.caller) + Len(c.args)
        /\ initialTop = Len(c.caller)
        /\ status = "run" /\ result = Nil
        /\ call = c

Next ==
  \/ PcOffEnd \/ StrangeOpcode \/ StackNotAnObject
  \/ Args \/ ArgsDot \/ FJump \/ TJump \/ Jump \/ Fn \/ FCallJ \/ CallJ
  \/ Lvar \/ Lset \/ Gvar \/ Gset \/ SetCC \/ CC \/ Pop \/ Save \/ Return \/ Const

Spec == Init /\ [][Next]_vars

-----------------------------------------------------------------------------
(* Properties                                                              *)

RECURSIVE Show(_, _), ShowList(_, _)
(* A value as the printer writes it: a fixnum, a proper list, or #<type>. *)
Show(m, v) ==
  CASE v.k = "fix" -> ToString(v.n)
    [] TypeIn(m, v) = "pair" -> "(" \o ShowList(m, v) \o ")"
    [] OTHER -> "#<" \o TypeIn(m, v) \o ">"
ShowList(m, l) ==
  Show(m, Car(m, l)) \o (IF Cdr(m, l) = Nil THEN "" ELSE " " \o ShowList(m, Cdr(m, l)))

TypeOK ==
  /\ status \in {"run", "done", "error", "crash"}
  /\ mem.next \in 1..MaxObjs + 1
  /\ fn \in {Obj(i) : i \in Objs}
  /\ env \in {Obj(i) : i \in Objs} /\ TypeIn(mem, env) = "pair"
  /\ stackTop \in 0..MaxVec /\ pc \in Nat
  /\ stk \in {StackObj, Junk}

(* Once vm_execute has returned, it returned what the program computes    *)
(* (the expectation of each call comes from the spec's scenarios), or    *)
(* error_sym for malformed bytecode.                                     *)
EvaluatesAsSpecified ==
  status # "run" =>
    call.expected = IF status = "done" THEN Show(mem, result) ELSE status

(* No step of the callee, primitives and the return sequence included,    *)
(* pops into the caller's part of the value stack or changes it.         *)
CallerStackIntact ==
  stk = StackObj =>
    /\ stackTop >= initialTop
    /\ \A i \in 0..initialTop - 1 : Slot(mem, stk, i) = call.caller[i + 1]

(* Every push stays inside the stack vector: for the stack sizes callers *)
(* pass (StackSizes), vector_push's growth by 1.8 leaves room for the    *)
(* slot it writes.  A size of 0 or 1 would not grow (1 * 1.8 truncates   *)
(* to 1); no run starts from one.                                        *)
StackInBounds ==
  stk = StackObj => stackTop <= VSize(mem, stk)

(* No object the interpreter still uses (what its registers and its value *)
(* stack reach while it runs, the value it returns once done) has been    *)
(* reclaimed by a collection at one of vm_execute's allocations: the pins *)
(* of fn, env and the temporaries (new frames, cc_env, ret_addr, pfn)     *)
(* cover every reference held across an allocation.                       *)
NoFreedInUse ==
  LET inUse == CASE status = "run" -> {fn, env, stk}
                 [] status = "done" -> {result}
                 [] OTHER -> {}
  IN  Reach(mem, inUse) \cap mem.freed = {}

=============================================================================
