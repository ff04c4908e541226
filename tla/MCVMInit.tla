------------------------------ MODULE MCVMInit ------------------------------
EXTENDS VMInit

(* opcode_table of vm.c, in its order.                                   *)
MCOpcodes == <<"args", "argsdot", "return", "const", "fn", "fjump", "tjump",
               "jump", "fcallj", "callj", "lvar", "save", "gvar", "lset",
               "gset", "setcc", "cc", "pop">>

=============================================================================
