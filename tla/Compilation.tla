----------------------------- MODULE Compilation -----------------------------
(***************************************************************************)
(* The work that the compiler does itself, composed: a source is lowered   *)
(* (ActionKind::LowerSource), calls are inlined, each time from the last   *)
(* result (TransformFunction, ValidateIr), and code is generated from      *)
(* whatever there is (GenerateNativeObject).  The order is the caller's.   *)
(*                                                                         *)
(* Two transforms replace the calls of one function in another             *)
(* (crates/laminaria-ir/src/transform): checked_inline substitutes the     *)
(* arguments as they stand and refuses where that would change an effect,  *)
(* anf_insert binds every argument first.                                  *)
(***************************************************************************)
EXTENDS SourceLowering, CodeGeneration, FiniteSetsExt
CONSTANTS Sources,    \* what may be compiled
          Values,     \* arguments the results are tried with
          MaxPasses   \* bound on the number of transforms

-----------------------------------------------------------------------------
(* Transforms *)

Kinds == {"anf", "checked"}

(* Mutant: the copies of a callee share their identifiers.                 *)
NotRenamed(e, s) == [tree |-> e, map |-> s.map, next |-> s.next]

(* alpha_rename_callee_body: every binder of a copy gets a fresh number.   *)
(* The map is carried from part to part and forgets nothing.               *)
RECURSIVE Renamed(_, _)
RenamedParts(es, s) ==
  FoldLeft(LAMBDA r, e : LET one == Renamed(e, r)
                         IN [trees |-> Append(r.trees, one.tree), map |-> one.map, next |-> one.next],
           [trees |-> <<>>, map |-> s.map, next |-> s.next], es)

Renamed(e, s) ==
  CASE e.op = "local" ->
         [tree |-> IF e.id \in DOMAIN s.map THEN Local(s.map[e.id]) ELSE e,
          map  |-> s.map, next |-> s.next]
    [] e.op = "let" ->
         LET value == Renamed(e.args[1], s)
             body  == Renamed(e.args[2], [map  |-> (e.id :> value.next) @@ value.map,
                                          next |-> value.next + 1])
         IN [tree |-> Let(value.next, value.tree, body.tree), map |-> body.map, next |-> body.next]
    [] OTHER ->
         LET parts == RenamedParts(e.args, s)
         IN [tree |-> [e EXCEPT !.args = parts.trees], map |-> parts.map, next |-> parts.next]

(* initial_next_local.                                                     *)
FirstFree(body) == Max(LocalIds(body) \cup {-1}) + 1

(* substitute_params_verbatim, substitute_params_with_locals.              *)
RECURSIVE Substituted(_, _)
Substituted(e, with) ==
  IF e.op = "param" THEN with[e.index]
  ELSE [e EXCEPT !.args = [i \in DOMAIN e.args |-> Substituted(e.args[i], with)]]

(* observed_event_order: what a callee's body evaluates, in order: its     *)
(* parameters, by number, and 0 for a call of its own.                     *)
CalleeCall == 0
RECURSIVE Events(_)
Events(e) == (IF e.op = "param" THEN <<e.index>> ELSE <<>>)
             \o FlattenSeq([i \in DOMAIN e.args |-> Events(e.args[i])])
             \o (IF e.op = "call" THEN <<CalleeCall>> ELSE <<>>)

Places(event, events) == {i \in DOMAIN events : events[i] = event}

(* Mutant: the calls of the callee's own body are not looked at.           *)
ArgumentsInOrder(callee, args) ==
  LET events    == Events(callee)
      effectful == {i \in DOMAIN args : ContainsCall(args[i])}
  IN /\ \A i \in effectful : Cardinality(Places(i, events)) = 1
     /\ \A i, j \in effectful : i < j => Min(Places(i, events)) < Min(Places(j, events))

(* What checked_inline demands of one call: an argument with a call in it  *)
(* is evaluated once, in the order of the arguments, and before any call   *)
(* of the callee's own.                                                    *)
KeepsEffects(callee, args) ==
  LET events    == Events(callee)
      effectful == {i \in DOMAIN args : ContainsCall(args[i])}
  IN /\ \A i \in effectful : Cardinality(Places(i, events)) = 1
     /\ \A i, j \in effectful : i < j => Min(Places(i, events)) < Min(Places(j, events))
     /\ \A i \in effectful, c \in Places(CalleeCall, events) : Min(Places(i, events)) < c

(* One call replaced: next is the first free number, ok whether the        *)
(* transform goes on.                                                      *)
Graft(kind, callee, args, next) ==
  LET copy  == Renamed(callee.body.args[1], [map |-> <<>>, next |-> next])
      fresh == [i \in DOMAIN args |-> copy.next + i - 1]
      bound == FoldRight(LAMBDA i, rest : Let(fresh[i], args[i], rest),
                         [i \in DOMAIN args |-> i],
                         Substituted(copy.tree, [i \in DOMAIN args |-> Local(fresh[i])]))
  IN IF kind = "anf"
     THEN [tree |-> bound, next |-> copy.next + Len(args), ok |-> TRUE]
     ELSE [tree |-> Substituted(copy.tree, args), next |-> copy.next,
           ok   |-> KeepsEffects(copy.tree, args)]

(* rewrite_calls_in_stmt, rewrite_calls_in_expr: arguments first.          *)
RECURSIVE Rewritten(_, _, _, _, _)
Rewritten(kind, e, name, callee, next) ==
  LET parts == FoldLeft(LAMBDA r, a :
                          IF ~r.ok THEN r
                          ELSE LET one == Rewritten(kind, a, name, callee, r.next)
                               IN [trees |-> Append(r.trees, one.tree), next |-> one.next, ok |-> one.ok],
                        [trees |-> <<>>, next |-> next, ok |-> TRUE], e.args)
  IN CASE ~parts.ok -> [tree |-> e, next |-> parts.next, ok |-> FALSE]
       [] parts.ok /\ e.op = "call" /\ e.fn = name ->
            IF Len(e.args) # callee.params THEN [tree |-> e, next |-> parts.next, ok |-> FALSE]
            ELSE Graft(kind, callee, parts.trees, parts.next)
       [] OTHER -> [tree |-> [e EXCEPT !.args = parts.trees], next |-> parts.next, ok |-> TRUE]

(* anf_insert, checked_inline: only a callee whose body is one return, and *)
(* the program is validated again.                                         *)
Transform(program, kind, caller, callee) ==
  IF ~({caller, callee} \subseteq DOMAIN program) \/ program[callee].body.op # "return"
  THEN [verdict |-> "refused", program |-> program]
  ELSE LET body   == program[caller].body
           new    == Rewritten(kind, body, callee, program[callee], FirstFree(body))
           result == [program EXCEPT ![caller].body = new.tree]
       IN CASE ~new.ok              -> [verdict |-> "refused", program |-> program]
            [] new.ok /\ Valid(result)  -> [verdict |-> "ir", program |-> result]
            [] new.ok /\ ~Valid(result) -> [verdict |-> "postcondition", program |-> program]

-----------------------------------------------------------------------------
(* Actions *)

VARIABLES source,
          lowered,    \* the program as LowerSource made it
          program,    \* the program after the transforms
          stage,      \* "source", "ir", or how the last action failed
          passes
vars == <<source, lowered, program, stage, passes>>

Init ==
  /\ source \in Sources
  /\ lowered = <<>> /\ program = <<>> /\ stage = "source" /\ passes = 0

(* dispatch_lower_source.                                                  *)
LowerSource ==
  /\ stage = "source"
  /\ LET result == Lower(source)
     IN /\ stage' = result.verdict
        /\ lowered' = result.program /\ program' = result.program
  /\ UNCHANGED <<source, passes>>

(* dispatch_transform_function and dispatch_validate_ir.  The function     *)
(* whose calls are observed stays.                                         *)
TransformFunction(kind, caller, callee) ==
  /\ stage = "ir" /\ passes < MaxPasses
  /\ callee # "mark"
  /\ LET result == Transform(program, kind, caller, callee)
     IN stage' = result.verdict /\ program' = result.program
  /\ passes' = passes + 1
  /\ UNCHANGED <<source, lowered>>

Next ==
  \/ LowerSource
  \/ \E kind \in Kinds, caller, callee \in source.request : TransformFunction(kind, caller, callee)

Spec == Init /\ [][Next]_vars

-----------------------------------------------------------------------------
(* Properties *)

Arguments(n) == [1 .. n -> Values]

(* A front end keeps the meaning of a source: what it accepts computes,    *)
(* with the calls in the same order, what the language says, under every   *)
(* nesting of names that hide each other; it accepts the whole subset it   *)
(* declares, and never makes a program that its validator refuses.  A file *)
(* with more than was asked for counts for Rust only.                      *)
LoweringKeepsMeaning ==
  Legal(source) =>
    /\ stage = "ir" => \A f \in DOMAIN lowered : \A args \in Arguments(lowered[f].params) :
                          EvalFunction(lowered, f, args) = Applied(source.file, f, args)
    /\ stage = "rejected" /\ Supported(source) =>
         source.language = "nim" /\ \E i \in DOMAIN source.file : source.file[i].name \notin source.request
    /\ passes = 0 => stage # "postcondition"

(* However transforms are put together, on callers already transformed, on *)
(* callees already transformed, on several calls of one callee, each       *)
(* result is valid, has the same values, and makes the observed calls with *)
(* the same arguments in the same order.                                   *)
InliningKeepsMeaning ==
  passes > 0 =>
    /\ stage # "postcondition"
    /\ \A f \in DOMAIN lowered : \A args \in Arguments(lowered[f].params) :
         LET before == EvalFunction(lowered, f, args)
             after  == EvalFunction(program, f, args)
         IN /\ before.value = after.value
            /\ ObservedCalls(before.effects, "mark") = ObservedCalls(after.effects, "mark")

(* Generated code computes what the interpreter says: no value is lost in  *)
(* a call, a let or a branch, and no function leaves the frame it reserved.*)
TargetsAgree ==
  stage = "ir" =>
    \A f \in DOMAIN program :
      /\ \A args \in Arguments(program[f].params) :
           LET value == EvalFunction(program, f, args).value
           IN /\ WasmResult(program, f, args) = value
              /\ Generates(program) => ArmResult(program, f, args) = value
      /\ Touched(ArmObject(program)[f]) \subseteq 0 .. FrameSlots(program[f]) - 1
=============================================================================
