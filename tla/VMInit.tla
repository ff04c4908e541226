------------------------------- MODULE VMInit -------------------------------
(***************************************************************************)
(* vm_init and vm_init_environment of src/vm.c, with the collections any  *)
(* of their allocations may run.  Each action is one statement of the two *)
(* routines; inside it every allocation may or may not collect, and C's   *)
(* unspecified order of evaluating a call's arguments is a choice too.    *)
(* A collection reclaims every object not reachable from the roots: the  *)
(* symbol table, the global environment, the addresses on the root stack *)
(* and whatever the allocating constructor itself keeps pinned.          *)
(***************************************************************************)
EXTENDS Naturals, Sequences, SequencesExt

CONSTANTS
  Opcodes,   \* opcode_table: the opcode names, in the order of the enum
  Nil,       \* the_empty_list, an immortal singleton outside the heap
  False      \* the false object, idem

(* vm_init: the make_instr calls that fill cc_bytecode (vm.c 573-578).    *)
CCCode == <<[op |-> "args", a |-> 1, b |-> Nil], [op |-> "lvar", a |-> 1, b |-> 1],
            [op |-> "lvar", a |-> 1, b |-> 0], [op |-> "setcc", a |-> Nil, b |-> Nil],
            [op |-> "lvar", a |-> 0, b |-> 0], [op |-> "return", a |-> Nil, b |-> Nil]>>

(* vm_init_environment: the two primitives it binds.                      *)
EnvPrims == <<[name |-> "symbol->bytecode", proc |-> "symbol_to_code_proc"],
              [name |-> "bytecode->symbol", proc |-> "code_to_symbol_proc"]>>

VARIABLES
  mem,         \* obj: the allocated objects by id; freed: the ids reclaimed
  symtab,      \* the symbol table: name -> interned symbol
  ops,         \* the opcode ## _op globals, in enum order
  bytecodes,   \* bytecodes[], in enum order
  pins,        \* objects whose (global) address is on the root stack
  errorSym,    \* error_sym
  ccBytecode,  \* cc_bytecode
  globalEnv,   \* vm_global_environment: name -> value
  pc, idx      \* the statement vm_init is at, and its opcode or code index

vars == <<mem, symtab, ops, bytecodes, pins, errorSym, ccBytecode, globalEnv, pc, idx>>

Obj(k, v, r) == [kind |-> k, val |-> v, refs |-> r]

Refs(m, i) == Range(m.obj[i].refs) \ {Nil, False}

RECURSIVE ReachIds(_, _, _)
ReachIds(m, seen, todo) ==
  IF todo = {} THEN seen
  ELSE ReachIds(m, seen \cup todo, UNION {Refs(m, i) : i \in todo} \ (seen \cup todo))

Reach(m, S) == ReachIds(m, {}, S \ {Nil, False})

(* The roots every collection starts from: the symbol table, the global  *)
(* environment and the pinned globals.                                   *)
GlobalRoots == Range(symtab) \cup Range(globalEnv) \cup pins

(* Mutant: the id returned is that of the last object already allocated. *)
AllocIdOffByOne(m, roots, gc, o) ==
  LET g == IF gc THEN [m EXCEPT !.freed = @ \cup (DOMAIN m.obj \ Reach(m, roots))]
           ELSE m
  IN  [m |-> [g EXCEPT !.obj = Append(@, o)], id |-> Len(g.obj)]

(* alloc_object, which runs a collection first when gc is TRUE; the new   *)
(* object takes the next id, ids are not reused.                          *)
Alloc(m, roots, gc, o) ==
  LET g == IF gc THEN [m EXCEPT !.freed = @ \cup (DOMAIN m.obj \ Reach(m, roots))]
           ELSE m
  IN  [m |-> [g EXCEPT !.obj = Append(@, o)], id |-> Len(g.obj) + 1]

(* make_symbol: the interned symbol, allocated (and entered in the table) *)
(* only the first time a name is seen.                                    *)
MakeSymbol(m, st, roots, gc, name) ==
  IF name \in DOMAIN st THEN [m |-> m, st |-> st, id |-> st[name]]
  ELSE LET a == Alloc(m, roots \cup Range(st), gc, Obj("symbol", name, <<>>))
       IN  [m |-> a.m, st |-> (name :> a.id) @@ st, id |-> a.id]

(* symbol_to_code: the first opcode whose _op symbol is sym, as its      *)
(* bytecode character; false for any other object.                       *)
SymbolToCode(sym) ==
  LET hits == {i \in DOMAIN ops : ops[i] = sym}
  IN  IF hits = {} THEN False ELSE bytecodes[Min(hits)]

(* make_fixnum(n) for an operand that is a number, the_empty_list as is. *)
Operand(m, roots, gc, v) ==
  IF v = Nil THEN [m |-> m, id |-> Nil] ELSE Alloc(m, roots, gc, Obj("fixnum", v, <<>>))

(* Mutant: make_instr conses arg1 before arg2.                            *)
MakeInstrSwapped(m, roots, g, name, arg1, arg2) ==
  LET s  == MakeSymbol(m, symtab, roots, g[1], name)
      sym == SymbolToCode(s.id)
      r1 == Alloc(s.m, roots \cup {arg1, Nil}, g[2], Obj("pair", arg1, <<arg1, Nil>>))
      r2 == Alloc(r1.m, roots \cup {arg2, r1.id}, g[3], Obj("pair", arg2, <<arg2, r1.id>>))
      r3 == Alloc(r2.m, roots \cup {sym, r2.id}, g[4], Obj("pair", sym, <<sym, r2.id>>))
  IN  [m |-> r3.m, st |-> s.st, id |-> r3.id]

(* make_instr: result is pinned, arg1 and arg2 are not; each cons keeps  *)
(* its own two arguments.  A pair's val is its car.                       *)
MakeInstr(m, roots, g, name, arg1, arg2) ==
  LET s  == MakeSymbol(m, symtab, roots, g[1], name)
      sym == SymbolToCode(s.id)
      r1 == Alloc(s.m, roots \cup {arg2, Nil}, g[2], Obj("pair", arg2, <<arg2, Nil>>))
      r2 == Alloc(r1.m, roots \cup {arg1, r1.id}, g[3], Obj("pair", arg1, <<arg1, r1.id>>))
      r3 == Alloc(r2.m, roots \cup {sym, r2.id}, g[4], Obj("pair", sym, <<sym, r2.id>>))
  IN  [m |-> r3.m, st |-> s.st, id |-> r3.id]

(* Mutant: vm_init_environment does not pin curr.                        *)
EnvPinsNone(curr) == {}

(* push_root(&curr) in vm_init_environment.                              *)
EnvPins(curr) == {curr}

(* Move to the next opcode or code index, or to statement next after n.   *)
Advance(n, next) ==
  /\ pc' = IF idx < n THEN pc ELSE next
  /\ idx' = IF idx < n THEN idx + 1 ELSE 1

Init ==
  /\ mem = [obj |-> <<>>, freed |-> {}]
  /\ symtab = <<>> /\ globalEnv = <<>>
  /\ ops = <<>> /\ bytecodes = <<>> /\ pins = {}
  /\ errorSym = Nil /\ ccBytecode = Nil
  /\ pc = "syminit" /\ idx = 1

(* generate_syminit: opcode ## _op = make_symbol("opcode").              *)
SymInit ==
  /\ pc = "syminit"
  /\ \E gc \in BOOLEAN :
       LET s == MakeSymbol(mem, symtab, GlobalRoots, gc, Opcodes[idx])
       IN  /\ mem' = s.m /\ symtab' = s.st
           /\ ops' = Append(ops, s.id)
  /\ Advance(Len(Opcodes), "bytecodes")
  /\ UNCHANGED <<bytecodes, pins, errorSym, ccBytecode, globalEnv>>

(* generate_bytecodes: bytecodes[x] = make_character(x), then            *)
(* push_root(&bytecodes[x]).  The enum counts from 0.                    *)
BytecodeInit ==
  /\ pc = "bytecodes"
  /\ \E gc \in BOOLEAN :
       LET a == Alloc(mem, GlobalRoots, gc, Obj("char", idx - 1, <<>>))
       IN  /\ mem' = a.m
           /\ bytecodes' = Append(bytecodes, a.id)
           /\ pins' = pins \cup {a.id}
  /\ Advance(Len(Opcodes), "error")
  /\ UNCHANGED <<symtab, ops, errorSym, ccBytecode, globalEnv>>

(* error_sym = make_symbol("error").                                     *)
ErrorSymInit ==
  /\ pc = "error"
  /\ \E gc \in BOOLEAN :
       LET s == MakeSymbol(mem, symtab, GlobalRoots, gc, "error")
       IN  /\ mem' = s.m /\ symtab' = s.st
           /\ errorSym' = s.id
  /\ pc' = "setmacro"
  /\ UNCHANGED <<ops, bytecodes, pins, ccBytecode, globalEnv, idx>>

(* curr = make_primitive_proc(vm_tag_macro_proc); push_root(&curr);      *)
(* define_global_variable(make_symbol("set-macro!"), curr, ...);         *)
(* pop_root(&curr).                                                       *)
SetMacro ==
  /\ pc = "setmacro"
  /\ \E g1, g2 \in BOOLEAN :
       LET p == Alloc(mem, GlobalRoots, g1, Obj("prim", "vm_tag_macro_proc", <<>>))
           s == MakeSymbol(p.m, symtab, GlobalRoots \cup {p.id}, g2, "set-macro!")
       IN  /\ mem' = s.m /\ symtab' = s.st
           /\ globalEnv' = ("set-macro!" :> p.id) @@ globalEnv
  /\ pc' = "ccvector"
  /\ UNCHANGED <<ops, bytecodes, pins, errorSym, ccBytecode, idx>>

(* cc_bytecode = make_vector(the_empty_list, 6); push_root(&cc_bytecode). *)
CCVector ==
  /\ pc = "ccvector"
  /\ \E gc \in BOOLEAN :
       LET a == Alloc(mem, GlobalRoots, gc, Obj("vector", Nil, [j \in 1..6 |-> Nil]))
       IN  /\ mem' = a.m
           /\ ccBytecode' = a.id
           /\ pins' = pins \cup {a.id}
  /\ pc' = "instr" /\ idx' = 1
  /\ UNCHANGED <<symtab, ops, bytecodes, errorSym, globalEnv>>

(* codes[idx - 1] = make_instr(op, make_fixnum(a), make_fixnum(b)): the  *)
(* two operands are made in either order, the first unpinned while the   *)
(* second is allocated.                                                   *)
Instr ==
  /\ pc = "instr"
  /\ \E aFirst \in BOOLEAN, g \in [1..6 -> BOOLEAN] :
       LET c  == CCCode[idx]
           x1 == Operand(mem, GlobalRoots, g[5], IF aFirst THEN c.a ELSE c.b)
           x2 == Operand(x1.m, GlobalRoots, g[6], IF aFirst THEN c.b ELSE c.a)
           a1 == IF aFirst THEN x1.id ELSE x2.id
           a2 == IF aFirst THEN x2.id ELSE x1.id
           r  == MakeInstr(x2.m, GlobalRoots, g, c.op, a1, a2)
       IN  /\ mem' = [r.m EXCEPT !.obj[ccBytecode].refs[idx] = r.id]
           /\ symtab' = r.st
  /\ Advance(Len(CCCode), "env")
  /\ UNCHANGED <<ops, bytecodes, pins, errorSym, ccBytecode, globalEnv>>

(* vm_init_environment: define_global_variable(make_symbol(name),        *)
(* curr = make_primitive_proc(proc), env), the symbol or the primitive   *)
(* made first; curr is pinned throughout.                                 *)
InitEnvironment ==
  /\ pc = "env"
  /\ \E symFirst, g1, g2 \in BOOLEAN :
       LET e  == EnvPrims[idx]
           prim == Obj("prim", e.proc, <<>>)
           s1 == MakeSymbol(mem, symtab, GlobalRoots, g1, e.name)
           p2 == Alloc(s1.m, GlobalRoots \cup Range(s1.st), g2, prim)
           p1 == Alloc(mem, GlobalRoots, g1, prim)
           s2 == MakeSymbol(p1.m, symtab, GlobalRoots \cup EnvPins(p1.id), g2, e.name)
           res == IF symFirst THEN [m |-> p2.m, st |-> s1.st, p |-> p2.id]
                  ELSE [m |-> s2.m, st |-> s2.st, p |-> p1.id]
       IN  /\ mem' = res.m /\ symtab' = res.st
           /\ globalEnv' = (e.name :> res.p) @@ globalEnv
  /\ Advance(Len(EnvPrims), "done")
  /\ UNCHANGED <<ops, bytecodes, pins, errorSym, ccBytecode>>

(* code_to_symbol_proc's chain: the name of the opcode whose enum value   *)
(* is the character code, or false.                                       *)
CodeToSymbol(code) ==
  IF code \in 0..Len(Opcodes) - 1 THEN Opcodes[code + 1] ELSE False

(* bytecode->symbol (code_to_symbol_proc) on x: CHAR(FIRST) compared   *)
(* with each enum value, then make_symbol of the name, which finds it    *)
(* interned.  CHAR of an object that is not a character reads another    *)
(* variant's payload: any code.  The set of the possible answers.        *)
CodeToSymbolProc(x) ==
  { IF CodeToSymbol(code) = False THEN False ELSE symtab[CodeToSymbol(code)] :
      code \in IF mem.obj[x].kind = "char" THEN {mem.obj[x].val} ELSE 0..Len(Opcodes) }

(* Initialisation is over; the interpreter goes on with other work.      *)
Terminated ==
  /\ pc = "done"
  /\ UNCHANGED vars

Next ==
  \/ SymInit \/ BytecodeInit \/ ErrorSymInit \/ SetMacro \/ CCVector
  \/ Instr \/ InitEnvironment \/ Terminated

Spec == Init /\ [][Next]_vars

-----------------------------------------------------------------------------

TypeOK ==
  /\ mem.freed \subseteq DOMAIN mem.obj
  /\ pc \in {"syminit", "bytecodes", "error", "setmacro", "ccvector", "instr", "env", "done"}
  /\ idx \in 1..Len(Opcodes)
  /\ Range(bytecodes) \cup Range(ops) \cup Range(symtab) \subseteq DOMAIN mem.obj

(* What vm_init and vm_init_environment publish for later use: the       *)
(* opcode characters, cc_bytecode and the primitives they bind.           *)
Published == Range(bytecodes) \cup Range(globalEnv) \cup ({ccBytecode} \ {Nil})

(* No object vm_init or vm_init_environment publishes is reclaimed by a  *)
(* collection run by one of their own allocations: each is pinned or    *)
(* bound from the moment it is made (push_root(&curr), push_root(&bytecodes[x]), *)
(* push_root(&cc_bytecode)), whichever order C evaluates arguments in.   *)
InitRootsLive == Published \cap mem.freed = {}

Car(x) == mem.obj[x].refs[1]
Cdr(x) == mem.obj[x].refs[2]
ValOf(x) == IF x = Nil THEN Nil ELSE mem.obj[x].val
Enum(name) == (CHOOSE k \in DOMAIN Opcodes : Opcodes[k] = name) - 1

(* Every instruction vm_init has stored in cc_bytecode decodes, through   *)
(* OPCODE, ARG1 and ARG2 as vm_execute reads them, to the opcode and      *)
(* operands vm_init wrote: make_symbol finds the _op symbol interned, so *)
(* symbol_to_code gives its character, and the list is (op arg1 arg2).   *)
CCBytecodeDecodes ==
  ccBytecode # Nil =>
    \A i \in 1..6 :
      LET ins == mem.obj[ccBytecode].refs[i]
      IN  ins # Nil =>
            /\ Car(ins) # False
            /\ ValOf(Car(ins)) = Enum(CCCode[i].op)
            /\ ValOf(Car(Cdr(ins))) = CCCode[i].a
            /\ ValOf(Car(Cdr(Cdr(ins)))) = CCCode[i].b

(* Nothing reachable from cc_bytecode, the operands of its instructions  *)
(* included, is ever reclaimed: the code every continuation runs stays   *)
(* intact (spec 4.3: a reference held across an allocation is pinned).   *)
CCBytecodeIntact == Reach(mem, {ccBytecode}) \cap mem.freed = {}

=============================================================================
