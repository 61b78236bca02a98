--------------------------- MODULE CodeGeneration ---------------------------
(***************************************************************************)
(* The two code generators for the intermediate representation             *)
(* (crates/laminaria-ir: wasm_target.rs, native_aarch64.rs) with as much   *)
(* of the machines as the generated code uses.  Encodings of instructions, *)
(* sections and relocations are left out: an instruction is a record, a    *)
(* call names its callee.                                                  *)
(***************************************************************************)
EXTENDS OwnedIR
CONSTANT MaxFrame   \* bytes of the largest frame; 256 in the code

I(i, n) == [i |-> i, n |-> n]

-----------------------------------------------------------------------------
(* WebAssembly: a stack machine with structured branches.  Every let has a *)
(* local of its own; scope maps an identifier to the innermost.            *)

RECURSIVE Wasm(_, _, _)
WasmParts(es, scope, next) ==
  FoldLeft(LAMBDA r, e : LET one == Wasm(e, scope, r.next)
                         IN [code |-> r.code \o one.code, next |-> one.next],
           [code |-> <<>>, next |-> next], es)

Then(code, instructions) == [code EXCEPT !.code = @ \o instructions]

(* lower_expr, lower_stmt.                                                 *)
Wasm(e, scope, next) ==
  LET parts == WasmParts(e.args, scope, next)
      value == Wasm(e.args[1], scope, next)
      Alone(i, n) == [code |-> <<I(i, n)>>, next |-> next]
  IN CASE e.op = "lit"        -> Alone("const", e.value)
       [] e.op = "param"      -> Alone("get", e.index)
       [] e.op = "local"      -> Alone("get", scope[e.id])
       [] e.op \in Arithmetic -> Then(parts, <<I(e.op, 0)>>)
       [] e.op = "nonzero"    -> Then(parts, <<I("eqz", 0), I("eqz", 0)>>)
       [] e.op = "call"       -> Then(parts, <<[i |-> "call", fn |-> e.fn, n |-> Len(e.args)]>>)
       [] e.op = "return"     -> Then(parts, <<I("return", 0)>>)
       [] e.op = "let"        ->
            LET body == Wasm(e.args[2], (e.id :> value.next) @@ scope, value.next + 1)
            IN [body EXCEPT !.code = value.code \o <<I("set", value.next)>> \o @]
       [] e.op = "if"         ->
            LET yes == Wasm(e.args[2], scope, value.next)
                no  == Wasm(e.args[3], scope, yes.next)
            IN [no EXCEPT !.code = Append(value.code, [i |-> "if", yes |-> yes.code, no |-> no.code])]

(* generate_wasm_module, lower_function.                                   *)
WasmModule(program) ==
  [f \in DOMAIN program |-> Wasm(program[f].body, <<>>, program[f].params + 1).code]

(* The machine: the stack grows at the front.                              *)
RECURSIVE WasmRun(_, _, _)
WasmStep(module, s, x) ==
  LET top  == Head(s.stack)
      rest == Tail(s.stack)
      Push(v, stack) == [s EXCEPT !.stack = <<v>> \o stack]
  IN CASE s.done            -> s
       [] x.i = "const"     -> Push(Wrap(x.n), s.stack)
       [] x.i = "get"       -> Push(s.locals[x.n], s.stack)
       [] x.i = "set"       -> [s EXCEPT !.locals = (x.n :> top) @@ @, !.stack = rest]
       [] x.i = "eqz"       -> Push(IF top = 0 THEN 1 ELSE 0, rest)
       [] x.i \in Arithmetic -> Push(Compute(x.i, Head(rest), top), Tail(rest))
       [] x.i = "call"      ->
            LET args == Reverse(SubSeq(s.stack, 1, x.n))
                end  == WasmRun(module, [stack |-> <<>>, locals |-> args, done |-> FALSE],
                                module[x.fn])
            IN Push(Head(end.stack), SubSeq(s.stack, x.n + 1, Len(s.stack)))
       [] x.i = "if"        ->
            WasmRun(module, [s EXCEPT !.stack = rest], IF top # 0 THEN x.yes ELSE x.no)
       [] x.i = "return"    -> [s EXCEPT !.done = TRUE]

WasmRun(module, s, code) == FoldLeft(LAMBDA r, x : IF r.done THEN r ELSE WasmStep(module, r, x), s, code)

WasmResult(program, f, args) ==
  LET module == WasmModule(program)
  IN Head(WasmRun(module, [stack |-> <<>>, locals |-> args, done |-> FALSE], module[f]).stack)

-----------------------------------------------------------------------------
(* AArch64: values pass through register 0; a left operand, an argument    *)
(* and a local wait in a slot of the frame.                                *)

RECURSIVE Arm(_, _, _)

(* Mutant: a left operand waits in a register.                             *)
HeldInRegister(e, scope, next) ==
  LET left  == Arm(e.args[1], scope, next)
      right == Arm(e.args[2], scope, left.next)
  IN [code |-> left.code \o <<[i |-> "move", to |-> 9]>> \o right.code \o <<I(e.op, 0)>>,
      next |-> right.next]

Store(reg, slot) == [i |-> "store", reg |-> reg, slot |-> slot]
Load(reg, slot)  == [i |-> "load", reg |-> reg, slot |-> slot]

(* The slot of a left operand is taken before the right one is evaluated.  *)
Binary(e, scope, next) ==
  LET left  == Arm(e.args[1], scope, next)
      right == Arm(e.args[2], scope, left.next + 1)
  IN [code |-> left.code \o <<Store(0, left.next)>> \o right.code \o <<Load(9, left.next), I(e.op, 0)>>,
      next |-> right.next]

(* A literal is moved in two halves, the upper one unless it is zero.      *)
Literal(v) ==
  LET half == 2 ^ (Width \div 2)
      bits == v % (half * half)
  IN <<I("movz", bits % half)>>
     \o (IF bits \div half # 0 THEN <<I("movk", bits \div half)>> ELSE <<>>)

(* FunctionCode::expr, FunctionCode::stmt; a branch counts instructions.   *)
Arm(e, scope, next) ==
  LET value == Arm(e.args[1], scope, next)
      args  == FoldLeft(LAMBDA r, a : LET one == Arm(a, scope, r.next)
                                      IN [code  |-> r.code \o one.code \o <<Store(0, one.next)>>,
                                          slots |-> Append(r.slots, one.next),
                                          next  |-> one.next + 1],
                        [code |-> <<>>, slots |-> <<>>, next |-> next], e.args)
      Alone(code) == [code |-> code, next |-> next]
  IN CASE e.op = "lit"        -> Alone(Literal(e.value))
       [] e.op = "param"      -> Alone(<<Load(0, e.index - 1)>>)
       [] e.op = "local"      -> Alone(<<Load(0, scope[e.id])>>)
       [] e.op \in Arithmetic -> Binary(e, scope, next)
       [] e.op = "nonzero"    -> Then(value, <<I("cset", 0)>>)
       [] e.op = "return"     -> Then(value, <<I("ret", 0)>>)
       [] e.op = "call"       ->
            [code |-> args.code \o [k \in DOMAIN args.slots |-> Load(k - 1, args.slots[k])]
                      \o <<[i |-> "bl", fn |-> e.fn]>>,
             next |-> args.next]
       [] e.op = "let"        ->
            LET body == Arm(e.args[2], (e.id :> value.next) @@ scope, value.next + 1)
            IN [body EXCEPT !.code = value.code \o <<Store(0, value.next)>> \o @]
       [] e.op = "if"         ->
            LET yes == Arm(e.args[2], scope, value.next)
                no  == Arm(e.args[3], scope, yes.next)
            IN [no EXCEPT !.code = value.code \o <<I("cbz", Len(yes.code) + 2)>> \o yes.code
                                   \o <<I("b", Len(@) + 1)>> \o @]

(* count_expr_slots, count_stmt_slots.                                     *)
RECURSIVE Slots(_)
Slots(e) == (CASE e.op \in Arithmetic \cup {"let"} -> 1
               [] e.op = "call" -> Len(e.args)
               [] OTHER -> 0)
            + FoldLeft(LAMBDA n, a : n + Slots(a), 0, e.args)

(* FunctionCode::new: eight registers hold parameters, the frame is a      *)
(* multiple of sixteen bytes.                                              *)
FrameSlots(fact) == fact.params + Slots(fact.body)
FrameBytes(fact) == ((FrameSlots(fact) * 4 + 15) \div 16) * 16
Generates(program) ==
  \A f \in DOMAIN program : program[f].params <= 8 /\ FrameBytes(program[f]) <= MaxFrame

(* generate_macho_aarch64_object, with the prologue.                       *)
ArmObject(program) ==
  [f \in DOMAIN program |->
     [k \in 1 .. program[f].params |-> Store(k - 1, k - 1)]
     \o Arm(program[f].body, <<>>, program[f].params).code]

(* The machine.  A callee may leave anything in the registers it uses.     *)
RECURSIVE ArmRun(_, _, _, _, _)
ArmRun(object, code, pc, regs, slots) ==
  LET x == code[pc]
      Go(r, s) == ArmRun(object, code, pc + 1, r, s)
      Set(reg, v) == Go([regs EXCEPT ![reg] = v], slots)
  IN CASE x.i = "movz"  -> Set(0, Wrap(x.n))
       [] x.i = "movk"  -> Set(0, Wrap((regs[0] % 2 ^ (Width \div 2)) + x.n * 2 ^ (Width \div 2)))
       [] x.i = "move"  -> Set(x.to, regs[0])
       [] x.i = "load"  -> Set(x.reg, slots[x.slot])
       [] x.i = "store" -> Go(regs, (x.slot :> regs[x.reg]) @@ slots)
       [] x.i \in Arithmetic -> Set(0, Compute(x.i, regs[9], regs[0]))
       [] x.i = "cset"  -> Set(0, IF regs[0] # 0 THEN 1 ELSE 0)
       [] x.i = "cbz"   -> ArmRun(object, code, pc + (IF regs[0] = 0 THEN x.n ELSE 1), regs, slots)
       [] x.i = "b"     -> ArmRun(object, code, pc + x.n, regs, slots)
       [] x.i = "bl"    -> Go(ArmRun(object, object[x.fn], 1, regs, <<>>), slots)
       [] x.i = "ret"   -> regs

ArmResult(program, f, args) ==
  LET object == ArmObject(program)
      regs   == [r \in 0 .. 9 |-> IF r + 1 \in DOMAIN args THEN args[r + 1] ELSE 0]
  IN ArmRun(object, object[f], 1, regs, <<>>)[0]

(* The slots a function's code touches.                                    *)
Touched(code) == {code[k].slot : k \in {k \in DOMAIN code : code[k].i \in {"load", "store"}}}
=============================================================================
