------------------------------- MODULE OwnedIR -------------------------------
(***************************************************************************)
(* The compiler's intermediate representation, its validator and its       *)
(* interpreter (crates/laminaria-ir: types.rs, validate.rs, interpreter.rs)*)
(* A body is a tree; statements and expressions have one shape, a record   *)
(* with the parts in args.  Source positions are left out.                 *)
(***************************************************************************)
EXTENDS Integers, SequencesExt
CONSTANT Width   \* bits of an integer; 32 in the code

LOCAL Half == 2 ^ (Width - 1)
Wrap(v) == ((v + Half) % (2 * Half)) - Half
Fits(v) == v \in -Half .. Half - 1

Arithmetic == {"add", "sub", "mul"}
Compute(op, a, b) == Wrap(CASE op = "add" -> a + b [] op = "sub" -> a - b [] op = "mul" -> a * b)

(* Expr and Stmt.  A let binds an identifier around the rest of a block or *)
(* around an expression; a block ends in return.                           *)
Lit(v)             == [op |-> "lit", value |-> v, args |-> <<>>]
Param(i)           == [op |-> "param", index |-> i, args |-> <<>>]
Local(id)          == [op |-> "local", id |-> id, args |-> <<>>]
Op(op, args)       == [op |-> op, args |-> args]
NotEqZero(e)       == Op("nonzero", <<e>>)
Call(fn, args)     == [op |-> "call", fn |-> fn, args |-> args]
Let(id, v, body)   == [op |-> "let", id |-> id, args |-> <<v, body>>]
Return(e)          == Op("return", <<e>>)
If(cond, yes, no)  == Op("if", <<cond, yes, no>>)

RECURSIVE ContainsCall(_)
ContainsCall(e) == e.op = "call" \/ \E i \in DOMAIN e.args : ContainsCall(e.args[i])

(* The identifiers bound or read in a tree.                                *)
RECURSIVE LocalIds(_)
LocalIds(e) == (IF e.op \in {"local", "let"} THEN {e.id} ELSE {})
               \cup UNION {LocalIds(e.args[i]) : i \in DOMAIN e.args}

-----------------------------------------------------------------------------
(* validate_program: a program maps a name to its number of parameters and *)
(* its body.  Which of the errors is reported is left out.                 *)

RECURSIVE WellFormed(_, _, _, _, _)
WellFormed(program, n, e, bound, isCondition) ==
  LET Value(i) == WellFormed(program, n, e.args[i], bound, FALSE)
      Body(i)  == WellFormed(program, n, e.args[i],
                             IF e.op = "let" THEN bound \cup {e.id} ELSE bound, FALSE)
  IN CASE e.op = "lit"     -> Fits(e.value)
       [] e.op = "param"   -> e.index <= n
       [] e.op = "local"   -> e.id \in bound
       [] e.op = "nonzero" -> isCondition /\ Value(1)
       [] e.op = "call"    -> /\ e.fn \in DOMAIN program
                              /\ program[e.fn].params = Len(e.args)
                              /\ \A i \in DOMAIN e.args : Value(i)
       [] e.op = "let"     -> Value(1) /\ Body(2)
       [] e.op = "if"      -> /\ e.args[1].op = "nonzero"
                              /\ WellFormed(program, n, e.args[1], bound, TRUE)
                              /\ Body(2) /\ Body(3)
       [] OTHER            -> \A i \in DOMAIN e.args : Value(i)

Valid(program) ==
  \A f \in DOMAIN program : WellFormed(program, program[f].params, program[f].body, {}, FALSE)

-----------------------------------------------------------------------------
(* eval_function: a value, and the calls made, in order.  The errors of    *)
(* the interpreter do not occur in a valid program.                        *)

RECURSIVE Eval(_, _, _, _)
EvalEach(program, es, params, locals) ==
  FoldLeft(LAMBDA done, e : LET one == Eval(program, e, params, locals)
                            IN [values  |-> Append(done.values, one.value),
                                effects |-> done.effects \o one.effects],
           [values |-> <<>>, effects |-> <<>>], es)

After(effects, outcome) == [outcome EXCEPT !.effects = effects \o @]

Eval(program, e, params, locals) ==
  LET First == Eval(program, e.args[1], params, locals)
      Parts == EvalEach(program, e.args, params, locals)
      Pure(value, effects) == [value |-> value, effects |-> effects]
  IN CASE e.op = "lit"        -> Pure(e.value, <<>>)
       [] e.op = "param"      -> Pure(params[e.index], <<>>)
       [] e.op = "local"      -> Pure(locals[e.id], <<>>)
       [] e.op = "return"     -> First
       [] e.op = "nonzero"    -> Pure(IF First.value # 0 THEN 1 ELSE 0, First.effects)
       [] e.op \in Arithmetic -> Pure(Compute(e.op, Parts.values[1], Parts.values[2]), Parts.effects)
       [] e.op = "let"        ->
            After(First.effects, Eval(program, e.args[2], params, (e.id :> First.value) @@ locals))
       [] e.op = "if"         ->
            After(First.effects,
                  Eval(program, e.args[IF First.value # 0 THEN 2 ELSE 3], params, locals))
       [] e.op = "call"       ->
            After(Append(Parts.effects, [fn |-> e.fn, args |-> Parts.values]),
                  Eval(program, program[e.fn].body, Parts.values, <<>>))

EvalFunction(program, f, args) == Eval(program, program[f].body, args, <<>>)

(* observed_calls: the arguments of the calls of one function.             *)
ObservedCalls(effects, fn) ==
  LET seen == SelectSeq(effects, LAMBDA e : e.fn = fn) IN [i \in DOMAIN seen |-> seen[i].args]
=============================================================================
