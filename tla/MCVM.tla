-------------------------------- MODULE MCVM --------------------------------
(* The scenarios of the spec's testable properties, compiled the way the  *)
(* compiler emits them (tail calls with callj, non-tail calls with save   *)
(* and fcallj), plus malformed calls that must end in error_sym.  Every   *)
(* call starts with one caller entry under its arguments, on a stack of   *)
(* two or three slots so that vector_push grows it (2, 3, 5, 9).          *)
EXTENDS VM

C(n) == I("const", Fix(n), Nil)

MCPrograms ==
  [l \in {"add", "app", "id", "rest", "r", "if", "if2", "nest", "lx", "apply",
          "macro", "first", "fst", "off", "bad", "notproc", "callcc", "k42", "esc", "k5", "f", "g", "h"} |->
    CASE l = "add"   -> <<C(1), C(2), I("gvar", "+", Nil), I("callj", 2, Nil)>>
      [] l = "app"   -> <<C(7), I("fn", "id", Nil), I("callj", 1, Nil)>>
      [] l = "id"    -> <<I("args", 1, Nil), I("lvar", 0, 0), I("return", Nil, Nil)>>
      [] l = "rest"  -> <<C(1), C(2), C(3), C(4), I("fn", "r", Nil), I("callj", 4, Nil)>>
      [] l = "r"     -> <<I("argsdot", 2, Nil), I("lvar", 0, 2), I("return", Nil, Nil)>>
      [] l = "if"    -> <<I("const", False, Nil), I("fjump", 4, Nil), C(1), I("jump", 5, Nil),
                          C(2), I("return", Nil, Nil)>>
      [] l = "if2"   -> <<C(0), I("fjump", 4, Nil), C(1), I("jump", 5, Nil),
                          C(2), I("return", Nil, Nil)>>
      [] l = "nest"  -> <<C(1), I("save", 5, Nil), C(5), I("fn", "id", Nil),
                          I("fcallj", 1, Nil), I("gvar", "+", Nil), I("callj", 2, Nil)>>
      [] l = "lx"    -> <<I("args", 1, Nil), C(8), I("lset", 0, 0), I("pop", Nil, Nil), C(1),
                          I("tjump", 7, Nil), C(9), I("lvar", 0, 0), I("gset", "x", Nil),
                          I("pop", Nil, Nil), I("gvar", "x", Nil), I("return", Nil, Nil)>>
      [] l = "apply" -> <<I("save", 5, Nil), C(1), C(2), I("gvar", "list", Nil),
                          I("callj", 2, Nil), I("gvar", "+", Nil), I("callj", -1, Nil)>>
      [] l = "macro" -> <<C(3), I("save", 5, Nil), I("fn", "id", Nil),
                          I("gvar", "set-macro!", Nil), I("fcallj", 1, Nil), I("callj", 1, Nil)>>
      [] l = "first" -> <<C(1), C(2), I("fn", "fst", Nil), I("callj", 2, Nil)>>
      [] l = "fst"   -> <<I("args", 2, Nil), I("lvar", 0, 0), I("return", Nil, Nil)>>
      [] l = "off"   -> <<C(1)>>
      \* an instruction whose opcode character is outside the enum
      [] l = "bad"   -> <<C(1), I("strange", Nil, Nil)>>
      [] l = "notproc" -> <<C(1), C(2), I("callj", 1, Nil)>>
      \* (call/cc (lambda (k) (k 42)))
      [] l = "callcc" -> <<I("cc", Nil, Nil), I("fn", "k42", Nil), I("callj", 1, Nil)>>
      [] l = "k42"   -> <<I("args", 1, Nil), C(42), I("lvar", 0, 0), I("callj", 1, Nil)>>
      \* (call/cc (lambda (k) 5)): a continuation captured and not used
      [] l = "esc"   -> <<I("cc", Nil, Nil), I("fn", "k5", Nil), I("callj", 1, Nil)>>
      [] l = "k5"    -> <<I("args", 1, Nil), C(5), I("return", Nil, Nil)>>
      \* (define (f x) (h (lambda () x))) with (define (h g) (g))
      [] l = "f"     -> <<I("args", 1, Nil), I("fn", "g", Nil), I("gvar", "h", Nil),
                          I("callj", 1, Nil)>>
      [] l = "g"     -> <<I("args", 0, Nil), I("lvar", 1, 0), I("return", Nil, Nil)>>
      [] l = "h"     -> <<I("args", 1, Nil), I("lvar", 0, 0), I("callj", 0, Nil)>>]

MCPrimNames == <<"+", "list", "set-macro!">>
MCGlobalProcs == <<"h">>

Call(m, a, e) == [main |-> m, args |-> a, caller |-> <<Fix(99)>>, expected |-> e]

(* Well-formed calls and their results, and malformed ones.               *)
MCCalls ==
  {Call("add", <<>>, "3"), Call("app", <<>>, "7"), Call("rest", <<>>, "(3 4)"),
   Call("if", <<>>, "2"), Call("if2", <<>>, "1"), Call("nest", <<>>, "6"),
   Call("lx", <<Fix(5)>>, "8"), Call("apply", <<>>, "3"), Call("macro", <<>>, "3"),
   Call("first", <<>>, "1"), Call("esc", <<>>, "5"),
   Call("off", <<>>, "error"), Call("bad", <<>>, "error"), Call("id", <<>>, "error"), Call("r", <<Fix(1)>>, "error"),
   Call("notproc", <<>>, "error")}

(* The continuation round trip of the spec: evaluates to 42.              *)
MCCallsCC == {Call("callcc", <<>>, "42")}

(* A closure escaping through a tail call: evaluates to 7.                *)
MCCallsClosure == {Call("f", <<Fix(7)>>, "7")}

(* Every call, the ones that go wrong included.                          *)
MCCallsAll == MCCalls \cup MCCallsCC \cup MCCallsClosure

MCStackSizes == {2, 3}
MCMaxObjs == 16
MCMaxVec == 9

(* The caller keeps the procedure and the value stack it passes pinned;  *)
(* or it pins neither, holding them only to pass them to vm_execute.     *)
MCCallerPins == {"fn", "stack"}
MCCallerPinsNone == {}
=============================================================================
