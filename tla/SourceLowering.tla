--------------------------- MODULE SourceLowering ---------------------------
(***************************************************************************)
(* The two front ends (crates/laminaria-ir: rust_frontend.rs and           *)
(* nim_frontend.rs), from the syntax tree on: which names mean what, what  *)
(* is outside the subset, and the representation of the rest.  Reading     *)
(* characters and tokens is left out.                                      *)
(*                                                                         *)
(* A source is [language, file, request]: a file is a sequence of items    *)
(* [kind, name, params, body] of kind "fn", "odd" (a signature outside the *)
(* subset) or "macro", a block [op |-> "block", names, args] holds the     *)
(* values of its lets and then its tail, a condition compares two sides.   *)
(***************************************************************************)
EXTENDS OwnedIR, FiniteSets

Unsupported == Op("unsupported", <<>>)
RECURSIVE Clean(_)
Clean(e) == e.op # "unsupported" /\ \A i \in DOMAIN e.args : Clean(e.args[i])

IsZero(e) == e.op = "int" /\ e.value = 0

(* What a name alone means: a local hides a parameter.                     *)
NameMeans(c, locals, name) ==
  CASE name \in DOMAIN locals -> Local(locals[name])
    [] name \in DOMAIN c.params \ DOMAIN locals -> Param(c.params[name])
    [] OTHER -> Unsupported

(* lower_expr, parse_expr: the Rust front end refuses to call a name that  *)
(* a local or a parameter hides, the other calls the function.             *)
RECURSIVE Lowered(_, _, _)
Lowered(c, locals, e) ==
  LET Parts == [i \in DOMAIN e.args |-> Lowered(c, locals, e.args[i])]
      hidden == DOMAIN locals \cup DOMAIN c.params
  IN CASE e.op = "int" /\ Fits(e.value) -> Lit(e.value)
       [] e.op = "name" -> NameMeans(c, locals, e.name)
       [] e.op \in Arithmetic -> Op(e.op, Parts)
       [] /\ e.op = "call" /\ e.fn \in c.request
          /\ c.language = "rust" => e.fn \notin hidden -> Call(e.fn, Parts)
       [] OTHER -> Unsupported

(* lower_condition, parse_condition: a comparison with a literal zero, on  *)
(* either side; only Rust has ==, and exchanges the branches for it.       *)
Condition(c, locals, e) ==
  CASE ~(e.cmp \in IF c.language = "rust" THEN {"ne", "eq"} ELSE {"ne"}) -> Unsupported
    [] OTHER -> CASE IsZero(e.args[2]) -> NotEqZero(Lowered(c, locals, e.args[1]))
                  [] ~IsZero(e.args[2]) /\ IsZero(e.args[1]) -> NotEqZero(Lowered(c, locals, e.args[2]))
                  [] OTHER -> Unsupported

(* Mutant: a name is forgotten where its block ends.                       *)
Forgotten(locals, p) == [n \in DOMAIN locals \ {p.name} |-> locals[n]]

(* Where a block ends, a name means again what it meant before.            *)
Restored(locals, p) ==
  IF p.shadowed = {} THEN [n \in DOMAIN locals \ {p.name} |-> locals[n]]
  ELSE (p.name :> CHOOSE id \in p.shadowed : TRUE) @@ locals

(* The lets of a block, in order: each value sees the names bound before   *)
(* it, and what the name meant until then is kept for the end of the block.*)
LetsBound(c, s, block) ==
  FoldLeft(LAMBDA r, i :
             LET name == block.names[i] IN
             [locals  |-> (name :> r.next) @@ r.locals,
              next    |-> r.next + 1,
              pending |-> Append(r.pending,
                [name |-> name, id |-> r.next,
                 value |-> Lowered(c, r.locals, block.args[i]),
                 shadowed |-> IF name \in DOMAIN r.locals THEN {r.locals[name]} ELSE {}])],
           [locals |-> s.locals, next |-> s.next, pending |-> <<>>],
           [i \in DOMAIN block.names |-> i])

(* lower_block with lower_tail_stmt and lower_if, parse_body_block with    *)
(* parse_if: lets in order, the tail, and the names given back from the    *)
(* last let to the first.                                                  *)
RECURSIVE LoweredBlock(_, _, _)
LoweredTail(c, s, e) ==
  IF e.op # "if" THEN [tree |-> Return(Lowered(c, s.locals, e)), locals |-> s.locals, next |-> s.next]
  ELSE LET yes  == LoweredBlock(c, s, e.args[3])
           no   == LoweredBlock(c, yes, e.args[4])
           cond == Condition(c, s.locals, e)
       IN [no EXCEPT !.tree = IF e.cmp = "eq" THEN If(cond, no.tree, yes.tree)
                                              ELSE If(cond, yes.tree, no.tree)]

LoweredBlock(c, s, block) ==
  LET bound == LetsBound(c, s, block)
  IN FoldRight(LAMBDA p, r : [tree |-> Let(p.id, p.value, r.tree),
                              locals |-> Restored(r.locals, p), next |-> r.next],
               bound.pending, LoweredTail(c, bound, Last(block.args)))

(* lower_item_fn, parse_proc.                                              *)
LoweredFn(source, item) ==
  LET c == [language |-> source.language, request |-> source.request,
            params   |-> [n \in ToSet(item.params) |->
                           CHOOSE i \in DOMAIN item.params : item.params[i] = n]]
  IN [params |-> Len(item.params),
      body   |-> LoweredBlock(c, [locals |-> <<>>, next |-> 0], item.body).tree]

Items(file, kinds, name) == {i \in DOMAIN file : file[i].kind \in kinds /\ file[i].name = name}
Lowers(source, i) == source.file[i].kind = "fn" /\ Clean(LoweredFn(source, source.file[i]).body)

(* lower_rust_source lowers the functions asked for, and each must be      *)
(* declared once; lower_nim_source lowers every procedure of the file,     *)
(* keeps those asked for, the last of each name, and rejects a macro only  *)
(* if it is asked for.                                                     *)
Accepted(source) ==
  LET Fns(name) == Items(source.file, {"fn", "odd"}, name)
  IN IF source.language = "rust"
     THEN \A name \in source.request : /\ Cardinality(Fns(name)) = 1
                                       /\ \A i \in Fns(name) : Lowers(source, i)
     ELSE /\ \A i \in DOMAIN source.file : source.file[i].kind # "macro" => Lowers(source, i)
          /\ \A name \in source.request : /\ Fns(name) # {}
                                          /\ Items(source.file, {"macro"}, name) = {}

Lower(source) ==
  LET program == [name \in source.request |->
                   LoweredFn(source, source.file[CHOOSE i \in Items(source.file, {"fn"}, name) :
                                \A j \in Items(source.file, {"fn"}, name) : j <= i])]
  IN CASE ~Accepted(source) -> [verdict |-> "rejected", program |-> <<>>]
       [] Accepted(source) /\ Valid(program)  -> [verdict |-> "ir", program |-> program]
       [] Accepted(source) /\ ~Valid(program) -> [verdict |-> "postcondition", program |-> <<>>]

-----------------------------------------------------------------------------
(* What the languages say of such a source: the reference.                 *)

(* Every name is bound, and every call is of a function that is declared   *)
(* once, is not hidden and has as many parameters.                         *)
RECURSIVE Bound(_, _, _)
Bound(source, e, names) ==
  LET fns == Items(source.file, {"fn"}, e.fn)
      Part(i) == Bound(source, e.args[i],
                       IF e.op = "block" THEN names \cup {e.names[k] : k \in 1 .. i - 1} ELSE names)
  IN /\ \A i \in DOMAIN e.args : Part(i)
     /\ e.op = "int" => Fits(e.value)
     /\ e.op = "name" => e.name \in names
     /\ e.op = "call" => /\ Cardinality(Items(source.file, {"fn", "odd", "macro"}, e.fn)) = 1
                         /\ e.fn \notin names
                         /\ \A i \in fns : Len(source.file[i].params) = Len(e.args)
                         /\ fns # {}

Legal(source) ==
  \A i \in DOMAIN source.file :
    LET item == source.file[i] IN
    /\ item.kind = "fn" => Bound(source, item.body, ToSet(item.params))
    /\ item.kind # "macro" => Cardinality(Items(source.file, {"fn", "odd", "macro"}, item.name)) = 1

(* The subset both front ends declare.                                     *)
RECURSIVE InSubset(_, _)
InSubset(source, e) ==
  /\ \A i \in DOMAIN e.args : InSubset(source, e.args[i])
  /\ e.op = "call" => e.fn \in source.request
  /\ e.op = "if" => /\ e.cmp \in {"ne"} \cup (IF source.language = "rust" THEN {"eq"} ELSE {})
                    /\ IsZero(e.args[1]) \/ IsZero(e.args[2])

Supported(source) ==
  \A name \in source.request :
    LET items == {i \in DOMAIN source.file : source.file[i].name = name}
    IN items # {} /\ \A i \in items : source.file[i].kind = "fn" /\ InSubset(source, source.file[i].body)

(* The value of a tree where the names have these values, and the calls.   *)
RECURSIVE Meaning(_, _, _)
MeaningOfEach(file, es, env) ==
  FoldLeft(LAMBDA done, e : LET one == Meaning(file, e, env)
                            IN [values  |-> Append(done.values, one.value),
                                effects |-> done.effects \o one.effects],
           [values |-> <<>>, effects |-> <<>>], es)

Applied(file, fn, args) ==
  LET item == file[CHOOSE i \in Items(file, {"fn"}, fn) : TRUE]
  IN Meaning(file, item.body, [n \in ToSet(item.params) |->
                                args[CHOOSE i \in DOMAIN args : item.params[i] = n]])

Meaning(file, e, env) ==
  LET parts == MeaningOfEach(file, e.args, env) IN
  CASE e.op = "int"  -> [value |-> e.value, effects |-> <<>>]
    [] e.op = "name" -> [value |-> env[e.name], effects |-> <<>>]
    [] e.op \in Arithmetic ->
         [value |-> Compute(e.op, parts.values[1], parts.values[2]), effects |-> parts.effects]
    [] e.op = "call" -> After(Append(parts.effects, [fn |-> e.fn, args |-> parts.values]),
                              Applied(file, e.fn, parts.values))
    [] e.op = "if"   ->
         LET sides == MeaningOfEach(file, SubSeq(e.args, 1, 2), env)
             equal == sides.values[1] = sides.values[2]
         IN After(sides.effects, Meaning(file, e.args[IF equal = (e.cmp = "eq") THEN 3 ELSE 4], env))
    [] e.op = "block" ->
         LET bound == FoldLeft(LAMBDA r, i :
                                 LET one == Meaning(file, e.args[i], r.env)
                                 IN [env     |-> (e.names[i] :> one.value) @@ r.env,
                                     effects |-> r.effects \o one.effects],
                               [env |-> env, effects |-> <<>>], [i \in DOMAIN e.names |-> i])
         IN After(bound.effects, Meaning(file, Last(e.args), bound.env))
=============================================================================
