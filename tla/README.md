# TLA+ models of brianscheme's collector and bytecode VM

This directory holds the model-checking project for the two C files under
`src/`:

- `src/gc.c` is the heap, the allocator, the Baker-style non-moving collector,
  finalization and the root stack.
- `src/vm.c` is the bytecode interpreter `vm_execute`, its value stack, and
  the initialisation that builds the opcode tables and `cc_bytecode`.

Every module is translated from those sources. `PROJECT.json` maps each
definition to the lines it models. It also lists the runs, the mutants that
show each property can fail, the findings and the hazards.

## 1. The system

### Components and their state

| Component | Code | State |
|---|---|---|
| Heap lists | gc.c 107-167, 296-304 | `Active_Heap_Objects`, `Old_Heap_Objects` (doubly linked lists with head, tail and count); each object's `prev`, `next` and `color`; `current_color` |
| Allocator and growth | gc.c 306-378, 509-548 | `Next_Free_Object`, `Next_Heap_Extension`, the cells taken from the pool |
| Collector | gc.c 380-507 | the root loop index, `scan_iter`; Old doubles as the scan queue |
| Finalization | gc.c 449-507 | `Finalizable_Objects`, `Finalizable_Objects_Next` |
| Root stack | gc.c 246-294, 329-339 | `Root_Objects`: a `stack_set` with `objs`, `top` and `size` |
| Memory wrappers and fatal errors | gc.c 30-71 | none; `MALLOC` failure and `throw_gc` end the process |
| DEBUG_GC checks | gc.c 73-104, 169-244 | none; assertions over the lists |
| Interpreter | vm.c 106-529 | `fn`, `env`, `pc`, `n_args`, `stack`, `stack_top`, `initial_top`; globals; the heap objects it builds (env conses, frames, continuation triples, closures) |
| Value stack | vm.c 114-132 | the stack vector's `VSIZE` and `VARRAY` |
| Opcode tables and setup | vm.c 36-104, 531-594 | the symbol and character tables, `cc_bytecode`, the `set-macro!` primitive |
| Bytecode printer | vm.c 596-608 | none |

### How they interact

Native code pins the address of each local that holds an object with
`push_root` and unpins it with `pop_root`. `alloc_object` hands out the cell at
`Next_Free_Object`. When Active is used up, it runs `baker_collect`:

1. Old is appended to Active and the colour is advanced.
2. Every pinned root's object graph is moved to the head of Old. The scan
   walks Old through `prev`, so Old is also the queue of objects to scan.
3. Finalizable objects that were not reached are finalized.
4. The colour is advanced again.

If the collection freed too little, `extend_heap` prepends a new block.

`vm_execute` runs bytecode on a value stack vector that the caller passes in.
It allocates through `cons`, `make_vector` and `make_compiled_proc`, so any
instruction that allocates may start a collection. It pins `fn`, `env` and a
temporary `top` for that reason.

### What is hard

These behaviours are hard to test, and each one has a hazard in `PROJECT.json`:

- **List surgery.** Moves can hit either end of a list, an empty list, or the
  object that is the current scan position.
- **Growth while Active holds garbage.** `extend_heap` prepends a block while
  Active still holds unallocated garbage.
- **Colour arithmetic.** The char colour wraps around.
- **Scan order.** Objects added to Old during the scan must still be scanned.
- **Finalization.** Each object must be finalized exactly once. An object
  that is still reachable must never be finalized.
- **Root stack pops.** `stack_set_pop` handles out-of-order and empty pops.
- **Value stack growth.** `vector_push` grows the stack by a factor of 1.8,
  truncated.
- **VM stack discipline.** `stack_top` and `initial_top` must balance across
  nested calls, primitives, `apply` and continuations.
- **Environment reuse.** `callj` reuses the env cons.
- **Pinning in the VM.** Any allocation inside an opcode may collect, and
  every reference held across it must be pinned or reachable from a pin.

### What makes each component correct

- **Heap lists:** both lists are well formed and together partition the pool.
- **Allocator:**
  - no live object is ever handed out or left in the free part of Active;
  - an allocation that starts a collection completes or exits.
- **Collector:** after a collection, every reachable object is on Old with
  the stale colour.
- **Finalization:** `Finalizable_Objects` tracks exactly the allocated objects
  that own a payload, and no reachable object is finalized.
- **Root stack:** it behaves as a stack whose pop removes the topmost copy of
  the value.
- **Interpreter:**
  - the spec's programs evaluate to the specified values;
  - malformed calls return `error_sym`;
  - the caller's part of the value stack is never touched;
  - a push always has room;
  - no object it still uses is reclaimed by a collection at one of its
    allocations.
- **Collector, as native code sees it:** reachable objects never change
  under a collection, and allocation never reuses one of them.

## 2. Modules

| Module | Models | Notes |
|---|---|---|
| `GCHeap` | heap lists, allocator, growth, collector, finalization, `push_root`/`pop_root`, `debug_validate` | There is one action per mutator operation and per collector step. The root loop runs one root per step and the scan one object per step, so the lists are checked between every two moves. |
| `GCAbs` | what the collector promises native code | The heap as the graph the locals reach, each object with its kind and fields. There are no collections; `Alloc` takes any cell no reachable object holds, and `OutOfMemory` is the only failure. |
| `StackSetAbs` | the abstract root stack | `Push`, `Pop(v)` (removes the topmost `v`, or fails), and `Clear`. |
| `StackSet` | `stack_set` in gc.c | `objs`, `top` and `size` with `REALLOC` doubling and the rotating pop. It is shown to implement `StackSetAbs` through `Abs == INSTANCE StackSetAbs WITH stack <- ...`. |
| `VM` | `vm_execute`, `vector_push`/`vector_pop`, `make_instr`, `cc_bytecode`, `set-macro!` | There is one action per opcode case, plus the return sequence, `VM_ASSERT` failures and the bad-stack crash after `setcc`. |
| `VMInit` | `vm_init`, `vm_init_environment`, `make_instr`, `symbol_to_code`, the opcode enum and `bytecodes[]` | There is one action per statement (one per opcode for the generated ones). Inside an action, every allocation may or may not collect, and C's order of evaluating a call's arguments is a choice. |
| `MCGCHeap`, `MCGCHeapGrow`, `MCStackSet`, `MCVM`, `MCVMInit` | | Constants for TLC. `MCVM` also gives `CallerPins`, the pins the caller keeps. |

### GCHeap (`src/gc.c`)

**State.**
- `prev`, `next` and `color` are the object header fields.
- `active`, `old`, `nextFree`, `currentColor` and `nextHeapExtension` are the
  globals of the same names.
- `kind` and `field` hold the type and the two reference fields of a PAIR
  (`car`, `cdr`) or of a two-slot VECTOR. A STRING has no reference fields.
- `rootObjects` is `Root_Objects` seen as a sequence of pinned locals.
- `finalizable` is `Finalizable_Objects`.
- `freedPayload` records which payloads `finalize_object` released.

**Actions.**

- **Mutator.** `PushRoot`, `PopRoot`, `LoadField`, `StoreField`,
  `ClearLocal`, `AllocFast` and `AllocSlow` are the mutator; `LoadField`,
  `StoreField` and `ClearLocal` stand for native code outside `src/`.
  - `AllocFast` is `alloc_object` when `Next_Free_Object` is not NULL.
  - `AllocSlow` is the start of `baker_collect`.
- **Collector.**
  - `SkipRoot` and `MarkRoot` are one iteration of the root loop, through
    `move_reachable`'s early returns.
  - `ScanObject` is one iteration of the scan loop: `maybe_move` on each
    field.
  - `ScanDone` advances to the next root.
  - `CollectFinish` is the finalize loop, the swap of the finalizable
    stacks, and the second colour change.
- **Growth.**
  - `GrowHeap` is the `freed == 0 || Next_Heap_Extension / freed > 2` branch,
    with `extend_heap`.
  - `OutOfMemory` is `MALLOC` failing in it.
  - `ReuseFreed` is the other branch.
  - `TakeCell` is shared by both: it hands out the cell, initialises it and
    pushes finalizable objects.

**Refinement.** `Abs == INSTANCE GCAbs WITH heap <- ...` maps each state to
the kind and fields of the cells `ReachableFrom(Slots)`, with `running` being
`pc # "exit"`. Collector steps are stuttering steps of `GCAbs`, and
`TakeCell` is its `Alloc`. The property `CollectorTransparent == Abs!Spec`
says that no collection, extension or finalization changes what native code
can see.

**Contract assumed of native code.** The mutator holds objects only in pinned
locals. This is the contract stated for native code, and it is what makes
"reachable from a pinned local" the live set.

### StackSet (`src/gc.c` 246-294, 329-339)

- `Push` is `stack_set_push`. When `top == size` it grows with `REALLOC` to
  twice the size, and it exits if the pool cannot supply that.
- `Pop` is `pop_root`, over `stack_set_pop`:
  - `top` is pre-decremented;
  - on a mismatch, `Rotate` is the scan-back loop;
  - a return of 0 is the `throw_gc` abort.
- `Clear` is `clear_stack_set`.

**Refinement mapping.**
- The abstract `stack` is the in-use prefix of `objs` while the process runs.
- A `call` variable, present in both modules, records the operation and its
  argument, so that the refinement checks which value each pop removed.

### VM (`src/vm.c`)

**State.**
- `fn`, `env`, `pc`, `nArgs`, `stk`, `stackTop` and `initialTop` are the
  locals of `vm_execute`.
- `mem` is an abstract heap of typed objects with `car`/`cdr`, vector slots
  and procedure code.
- `globals` maps symbols to values.
- `status` and `result` are what `vm_execute` returns.
- `call` is the scenario being run.

**Actions.**
- There is one action per opcode case: `Args`, `ArgsDot`, `FJump`, `TJump`,
  `Jump`, `Fn`, `FCallJ`, `CallJ`, `Lvar`, `Lset`, `Gvar`, `Gset`, `SetCC`,
  `CC`, `Pop`, `Save`, `Return` and `Const`.
- `PcOffEnd` is running off the end of the bytecode.
- `StrangeOpcode` is the `default:` case of the dispatch switch, an opcode
  character outside the enum.
- `StackNotAnObject` is the push through the pointer that `setcc` leaves in
  `stack`.

**Helpers.**
- `ReturnSeq` is `RETURN_OPCODE_INSTRUCTIONS`.
- `Fail` is `VM_ASSERT`'s `error_sym` return.
- `CallPrim` and `PopN` are the primitive branch of `fcallj`/`callj`.
- `VectorPush` uses `NewSize(s) == (s * 18) \div 10`, which is the code's
  `(long)(old_size * 1.8)`.

**Collections at the VM's allocations.** `AllocCons`, `AllocVector` and
`AllocProc` (and the `make_fixnum` in `cc` and in `+`) first apply
`Collect(m, pins)`, which adds to `mem.freed` every allocated object that the
following cannot reach:

- the references pinned at that point;
- the constructor's arguments;
- the caller's pins (`CallerPins`);
- the global environment.

This is what `GCHeap` shows a collection does (`CollectedLiveOnOld`,
`CollectorTransparent`). The pins passed at each site are those of the code:

- `Pinned(fn, env)` after the prologue;
- nothing at the prologue cons;
- `newframe` in `fcallj`;
- `cc_env` and `new_stack` in `cc`;
- `ret_addr` in `save`;
- `pfn` around a primitive.

Reclaimed cells are not reused, and `mem.freed` only grows. So a collection
at every allocation is the worst case of every schedule of collections: an
object freed under some schedule is also freed here. The pin of `top` is left
out. At every allocation its value is also a constructor argument or `fn`,
so leaving it out only makes the check stricter.

### VMInit (`src/vm.c` 36-87, 536-594)

`mem.obj` is the sequence of allocated objects (`kind`, `val`, `refs`) and
`mem.freed` is the set of reclaimed ids. `Alloc` is `alloc_object`. When its
choice `gc` is TRUE, it first frees every object that the roots given do not
reach.

The roots are:

- the symbol table and the global environment (`GlobalRoots`, taken from the
  spec, because interning and the environment live outside `src/`);
- the globals whose address is on the root stack (`pins`);
- whatever the constructor keeps pinned: `cons` pins its two arguments, and
  `make_instr` pins `result`.

The actions follow `vm_init` in order:

- `SymInit` is `generate_syminit`.
- `BytecodeInit` is `make_character` then `push_root`.
- `ErrorSymInit`.
- `SetMacro`: `curr` is pinned across `make_symbol("set-macro!")`.
- `CCVector`.
- `Instr`, once per `codes[i] = make_instr(...)`. The two `make_fixnum`
  operands are made in either order, and the first one made is an unpinned
  temporary.

`InitEnvironment` is one `define_global_variable` of `vm_init_environment`,
with the symbol or the primitive made first. `MakeSymbol` returns the interned
symbol and allocates only for a new name. So `SymbolToCode`, a pointer
comparison with the `_op` globals as in the generated code, finds the opcode
that `make_instr` names.

The primitives that `vm_init_environment` binds are operators over the state
that initialisation leaves:

- `symbol->bytecode` is `SymbolToCode`.
- `bytecode->symbol` is `CodeToSymbolProc`: the `CHAR(FIRST)` chain, then
  `make_symbol` of the name, which finds the name already interned.

`CHAR` of an object that is not a character reads another variant's payload,
so for such an argument the code is any value. Given the fixnum 1,
`bytecode->symbol` answers `argsdot`. Spec §6 only defines it on opcode
characters. No property checks the two primitives. On the opcodes they
invert each other by construction, since all the tables are built from the
one `opcode_table`.

**Primitives.** Primitives live outside `src/`, so `+` and `list` are
modelled from the spec. `set-macro!` is `vm_tag_macro_proc`.

**Scenarios.** `Calls` gives the scenarios, each a main program, its
arguments, the caller's stack entries, and the printed value the spec says it
returns. The bytecode is written as `compile` emits it for the spec's
examples.

## 3. Runs

| Run | Config | Expect | What it shows |
|---|---|---|---|
| `gc_core` | `MCGCHeap.cfg` | pass | Every interleaving of pinning, field loads and stores, and allocation keeps the following: (1) the lists are a partition of well-formed lists; (2) no reachable object is ever in the free part of Active; (3) `Finalizable_Objects` is exact; (4) no reachable payload is freed; (5) each collection completes (`AllocationCompletes`, under weak fairness of the collector). |
| `gc_growth` | `MCGCHeapGrow.cfg` | pass | The heap grows from 2 to 5 cells, then runs out of memory (9 does not fit), with garbage still on Active when the block is prepended. The partition and no-live-free hold, and after every collection every reachable object is on Old with colour `current_color - 1`. That garbage has left Old is not checked. |
| `gc_debug_validate` | `MCGCHeapDebug.cfg` | violation | `debug_validate` rejects a well-formed two-cell list. |
| `stackset_refines` | `MCStackSet.cfg` | pass | `stack_set` with growth implements `StackSetAbs`: the rotation removes the topmost copy and keeps the order of the rest. |
| `vm_scenarios` | `MCVM.cfg` | pass | 16 spec scenarios return the specified printed value. Malformed calls return `error_sym`, and a push always finds a slot (`StackInBounds`). |
| `vm_caller_safety` | `MCVMPinning.cfg` | pass | For all scenarios, including the failing ones, with the caller pinning `fn` and the stack and a collection at every allocation: (1) no object reachable from `fn`, `env`, the value stack or the returned value is ever reclaimed (`NoFreedInUse`); (2) the caller's stack entries below `initial_top` are never popped or changed (`CallerStackIntact`). |
| `vm_unpinned_caller` | `MCVMUnpinnedCaller.cfg` | violation | If the caller does not pin `fn` and the stack, the prologue cons reclaims both. |
| `gc_refines` | `MCGCHeapAbs.cfg` | pass | `GCHeap` implements `GCAbs`: with the `gc_core` bounds, the objects native code can reach keep their type and fields through every collection, and allocation never reuses a reachable cell. |
| `vm_init` | `MCVMInit.cfg` | pass | Through all 18 opcodes of `vm_init` and `vm_init_environment`, with any collection schedule and either argument order: (1) no object they publish is reclaimed, whether a `bytecodes[]` character, `cc_bytecode`, or a bound primitive (`InitRootsLive`); (2) every `cc_bytecode` instruction decodes, through `OPCODE`, `ARG1` and `ARG2`, to the opcode and operands `vm_init` wrote (`CCBytecodeDecodes`). |
| `vm_init_operands` | `MCVMInitIntact.cfg` | violation | A collection at `make_instr`'s first `cons` reclaims the fixnum operand of `codes[0]`. |
| `vm_callcc` | `MCVMCallCC.cfg` | violation | `(call/cc (lambda (k) (k 42)))` does not return 42. |
| `vm_closure` | `MCVMClosure.cfg` | violation | A closure passed to a tail call loses its variable. |

Each property of a passing run has a mutant in `PROJECT.json`. The mutant is
a plausible bug in a mapped definition, and TLC finds the property violated
when the mutant is substituted. Examples:

- a `move_object_to_head` that does not relink Old's old head;
- an allocation that does not advance `Next_Free_Object`;
- a scan that walks `next` instead of `prev`;
- a pop without rotation;
- `vector_push` without growth;
- a primitive that pops one argument too many;
- a scan that follows only `car`, caught by `CollectorTransparent`;
- `vm_execute` not pinning `env`, caught by `NoFreedInUse`;
- `vm_init_environment` not pinning `curr`, caught by `InitRootsLive` (only
  when the primitive is made before the symbol);
- `make_instr` consing `arg1` before `arg2`, caught by `CCBytecodeDecodes`.


### Findings

1. **debug_validate (code bug).** `debug_validate` (gc.c 236) keeps `last`
   at NULL for a list of two cells, so its `iter->prev == last` assertion
   fails on a valid list. A DEBUG_GC build aborts whenever Active or Old has
   exactly two objects.
2. **setcc (code bug).** `setcc` (vm.c 470) sets `stack = car(stack)` on the
   live stack vector. It never uses the captured copy it popped. The next
   push writes through a word of the vector payload. In the model the
   spec's continuation example crashes instead of returning 42; with
   `stack = new_stack` it returns 42. In C the push and the later read go
   through a pointer to no vector, which is undefined behaviour: the build
   may crash, return garbage, or return 42 by accident.
3. **callj (spec gap).** `callj` (vm.c 395) reuses the env cons. A closure
   created by `fn` in the same frame has captured that cons. In
   `(define (f x) (h (lambda () x)))`, the tail call to `h` overwrites the
   closure's frame, so `(f 7)` returns the closure instead of 7. The spec
   describes the reuse, but not its effect on captured environments.
4. **vm_execute's arguments (spec gap).** `vm_execute` (vm.c 191) holds
   `fn` and `stack` across allocations. It conses the entry frame before
   `push_root(&fn)` and never pins `stack`. Spec §4.3 puts the pin on the
   native code that holds a reference across an allocation. §6 does not
   require the caller to pin them, so a caller that passes them without
   pinning them loses both to the first collection.
5. **stack_set_pop (spec/code divergence).** The spec says the
   `stack_set_pop` rotation reorders entries. The code keeps their order,
   and `stackset_refines` checks that it does.
6. **make_instr (code bug).** `make_instr` (vm.c 542-551) pins only
   `result`:
   - `arg1` is unpinned across `cons(arg2, result)`;
   - both arguments are unpinned across `make_symbol(name)`.

   `vm_init` passes it fresh `make_fixnum` results. In
   `make_instr("lvar", make_fixnum(1), make_fixnum(1))`, the fixnum C
   evaluates first is also unpinned while the second is allocated. A
   collection at the first `cons` of `codes[0]` reclaims its operand 1.
   `cc_bytecode`, which every reified continuation runs, then points at a
   free cell that the allocator will hand out again. This needs the heap to
   run dry during `vm_init`, which depends on how much the interpreter
   allocated before it.

## 4. Bounds and why they are enough

- **ColorBits 2.** The real `char` wraps at 256. Two bits give four colours,
  and each collection advances the colour by two, so the colour wraps every
  second collection. Only `cur - 1`, `cur` and `cur + 1` are ever compared,
  and those are distinct modulo 4, so the wrap is exercised.
- **MCGCHeap: 3-cell pool, `gc_init` takes 2, extension 2.**
  - Every collection runs with both cells allocated.
  - Each of two locals can pin a pair or a string, so cycles (a pair whose
    field is itself, or two pairs that point at each other), shared objects
    and unreached finalizable strings all occur.
  - A collection that frees nothing needs an extension of 2 that does not
    fit, so the run reaches out-of-memory.
- **MCGCHeapGrow: 5-cell pool, one local, pairs only.**
  - The heap grows 2 → 5. The `extend_heap(3)` block is prepended while
    Active still holds garbage.
  - The next extension, 9, fails.
  - Growth happens at all because a collection that freed one cell gives
    `3 / 1 > 2`.
- **VIEW.** Cells that no local can reach are never read again, except for
  whether they need finalization. The collector does not visit them, and
  `alloc_object` rewrites them on reuse. `View` therefore hides their kind,
  fields and colour, and keeps everything else.
- **StackSet: 3 values, initial size 1, pool cap 4.**
  - Growth happens twice (1 → 2 → 4), then out-of-memory.
  - Duplicate values and out-of-order pops occur with three values.
- **VM: value stacks of 2 and 3, `MaxVec` 9, heap of 16 objects.**
  - The stack grows 2 → 3 → 5 → 9 in the scenarios that push most.
  - The scenarios cover every opcode, the return through a saved triple, a
    primitive call from both `fcallj` and `callj`, `apply` with a list, rest
    arguments, and each `VM_ASSERT`.

- **VMInit: the 18 opcodes of `opcode_table`, the six `cc_bytecode`
  instructions and the two primitives of `vm_init_environment`.** These are
  the real values, so the whole of both routines runs. Each allocation has a
  free choice to collect, so every schedule of collections is covered.
  Ids are not reused, so a reclaimed object stays visible to the properties.

## 5. Fairness

- `GCHeap` assumes `WF_vars(Collector)`. `alloc_object` runs `baker_collect`
  and the growth decision to the end before it returns, and the runtime is
  single-threaded. Once a collection starts, only collector steps are
  enabled, so weak fairness is exactly "the call eventually returns". No
  fairness is assumed for the mutator.
- `StackSet`, `VM` and `VMInit` are checked for safety only, without
  fairness. A termination property for `vm_execute` under `WF_vars(Next)`
  was tried and dropped. To check it, TLC must evaluate ENABLED of the
  allocating opcodes, whose nested collections it then recomputes. That takes
  more than 20 seconds for `ArgsDot`, `FCallJ` or `CC` alone over 159
  states, and TLC fails with an exception on `CallJ`. Termination of the
  scenarios is therefore not checked. `EvaluatesAsSpecified` only
  constrains the calls that do end. `VMInit` ends in `Terminated`: initialisation is over and the
  interpreter goes on to other work.

## 6. What is not modelled, and the plan

**Not modelled:**

- **Other object types in the collector.** The COMPILED_PROC, META_PROC and
  HASH_TABLE cases of the scan call `maybe_move` on more fields, and are
  abstracted away.
- **Printing.** `wb` and the debug printers only print.
- **Allocator outside `src/`.** The pool allocator behind `MALLOC` is
  outside `src/`. It is modelled as a capacity.
- **bytecode_str.** This constant table of opcode names is read only by
  `wb`. `VM` names opcodes by symbol, and `VMInit` checks that `make_instr`
  maps each symbol to its character.
- **define_global_variable.** It lives outside `src/`. A binding is modelled
  as an entry of the rooted global environment, with no allocation of its
  own.
- **A late store to `curr`.** In `define_global_variable(make_symbol(...),
  curr = make_primitive_proc(...), env)` the store to `curr` is only
  sequenced before the call. C also allows the order primitive, then
  `make_symbol`, then the store. In that order the new primitive is unpinned
  while the symbol is allocated, and a collection there would free it.
  `InitEnvironment` models the two orders in which the store follows its own
  allocation, each argument completed before the next one starts. The
  third order is left out.
- **VM and GC together.** The VM sees the collector through its promise
  (`Collect`), not through `GCHeap`'s lists. A product of the two modules
  would need the VM's object shapes as `GCHeap` kinds, and its state space
  would be far beyond these bounds. `CollectorTransparent` is what links the
  two.

**Further work:**

1. `CollectorTransparent` on the growth bounds. Checked as a temporal
   property there, it runs past ten minutes. It needs either a smaller
   growth instance or an invariant form of the step relation.
2. More object types in `FieldsOf`, starting with procedures, whose `env`
   field is scanned.
3. Re-invocation of a continuation after its `call/cc` has returned, once
   a fixed `setcc` is modelled.
