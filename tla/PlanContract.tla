----------------------------- MODULE PlanContract -----------------------------
(***************************************************************************)
(* What crosses the pipe between Rust and the planner written in Nim, and  *)
(* what the Rust side checks before it executes a plan                     *)
(* (crates/laminaria-plan/src/types.rs, compiler_work.rs, validate.rs).    *)
(*                                                                         *)
(* An action's work descriptor is what validate_compiler_work_action tells *)
(* apart: its schema version, the id recomputed from its content (None     *)
(* when a field is missing) and the artifacts it reads.                    *)
(***************************************************************************)
EXTENDS Naturals, Sequences, FiniteSets, Functions

CONSTANT None

CompilerWork == {"lower_source", "discover_source_dependencies", "validate_ir",
                 "transform_function", "evaluate_evidence", "generate_native_object"}
Kinds        == CompilerWork \cup {"nim_build", "cargo_build", "integrate", "physical_work"}

ActionsOf(list) == Range(list)                          \* PlanningInput.actions is a list
ById(list, id)  == list[CHOOSE i \in DOMAIN list :      \* collected into a map: the last wins
                          list[i].id = id /\ \A j \in DOMAIN list : list[j].id = id => j <= i]

Outputs(actions)     == UNION {Range(a.outputs) : a \in actions}
Clash(actions)       == \E a, b \in actions : a.id # b.id /\ Range(a.outputs) \cap Range(b.outputs) # {}
Producer(actions, x) == (CHOOSE a \in actions : x \in Range(a.outputs)).id

(* validate_compiler_work_action                                           *)
SoundWork(a) ==
  IF a.kind \notin CompilerWork THEN a.work = None
  ELSE /\ a.work # None
       /\ a.work.schemaIsOurs /\ a.work.recomputed = a.id
       /\ a.outputs = <<a.id>>
       /\ a.work.reads \subseteq a.inputs

(* demand_closure: the producers of what is demanded, and of what they     *)
(* read, as far as it goes.                                                *)
MakersOf(input, xs) ==
  LET as == ActionsOf(input.actions) IN {Producer(as, x) : x \in xs \cap Outputs(as)}

WithMakers(input, ids) ==
  ids \cup MakersOf(input, UNION {ById(input.actions, id).inputs : id \in ids})

DemandClosure(input) ==
  LET reach[n \in Nat] == IF n = 0 THEN MakersOf(input, input.demanded)
                          ELSE WithMakers(input, reach[n - 1])
  IN  reach[Len(input.actions)]

Answerable(input) ==
  LET as == ActionsOf(input.actions)
  IN  /\ ~Clash(as)
      /\ input.demanded \subseteq Outputs(as)
      /\ \A id \in DemandClosure(input) : ById(input.actions, id).inputs \subseteq Outputs(as)

(* The actions, their shape and their physical work are those of the input.*)
Corresponds(plan, input) ==
  /\ Answerable(input)
  /\ DOMAIN plan.actions = DemandClosure(input)
  /\ plan.physical = [id \in DOMAIN input.physical \cap DemandClosure(input) |-> input.physical[id]]
  /\ \A id \in DOMAIN plan.actions :
       LET a == plan.actions[id]
           asked == ById(input.actions, id)
       IN  /\ a.kind = asked.kind /\ a.inputs = asked.inputs
           /\ a.outputs = asked.outputs /\ a.work = asked.work
           /\ SoundWork(a)

Named(plan)     == {[id |-> id, outputs |-> plan.actions[id].outputs] : id \in DOMAIN plan.actions}
Place(plan, id) == CHOOSE i \in DOMAIN plan.ordered : plan.ordered[i] = id

(* Mutant: an action may stand where its producer stands.                  *)
OrderedLoosely(plan) ==
  /\ Range(plan.ordered) = DOMAIN plan.actions
  /\ Len(plan.ordered) = Cardinality(DOMAIN plan.actions)
  /\ \A id \in DOMAIN plan.actions : \A x \in plan.actions[id].inputs :
       x \in Outputs(Named(plan)) /\ Place(plan, Producer(Named(plan), x)) <= Place(plan, id)

(* ordered_actions is a permutation of the actions, each artifact has one  *)
(* producer, and it stands before whoever reads it.                        *)
Ordered(plan) ==
  /\ Range(plan.ordered) = DOMAIN plan.actions
  /\ Len(plan.ordered) = Cardinality(DOMAIN plan.actions)
  /\ ~Clash(Named(plan))
  /\ \A id \in DOMAIN plan.actions : \A x \in plan.actions[id].inputs :
       /\ x \in Outputs(Named(plan))
       /\ Producer(Named(plan), x) # id
       /\ Place(plan, Producer(Named(plan), x)) < Place(plan, id)

(* validate: what is executed is accepted here first.                      *)
Accepts(plan, input) ==
  /\ plan.genuine                                   \* schema_version, produced_by
  /\ Corresponds(plan, input)
  /\ input.demanded \subseteq Outputs(Named(plan))
  /\ Ordered(plan)

(* What acceptance promises: in the order of the plan every action once,   *)
(* each after all that it reads was made, every demand met, and every      *)
(* compiler work reading only what it waits for.                           *)
Made(plan, i) == UNION {Range(plan.actions[plan.ordered[j]].outputs) : j \in 1 .. i - 1}
Runs(plan, input) ==
  /\ IsInjective(plan.ordered)
  /\ \A i \in DOMAIN plan.ordered : plan.actions[plan.ordered[i]].inputs \subseteq Made(plan, i)
  /\ input.demanded \subseteq Made(plan, Len(plan.ordered) + 1)
  /\ \A id \in DOMAIN plan.actions :
       plan.actions[id].work # None => plan.actions[id].work.reads \subseteq plan.actions[id].inputs
=============================================================================
