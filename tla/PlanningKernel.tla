---------------------------- MODULE PlanningKernel ----------------------------
(***************************************************************************)
(* The planner process (nim-planner/src/planning_kernel.nim, plan) and the *)
(* caller that receives its answer (crates/laminaria-plan/src/             *)
(* nim_planner_client.rs, validate.rs).                                    *)
(*                                                                         *)
(* The kernel is the algorithm it is: a walk over a work list, a depth-    *)
(* first search with an explicit path and Kahn's loop over counters.       *)
(* Tables and lists whose order it does not fix are sets here, and any     *)
(* element may come first.  The answer may arrive damaged: the caller      *)
(* trusts nothing it can check.                                            *)
(***************************************************************************)
EXTENDS PlanContract

CONSTANTS Inputs,        \* planning inputs asked about
          Damaged(_),    \* plans that may arrive in the place of a plan
          Fabricated(_)  \* plans a planner that does not plan may answer with

(* The actions are a list, their ids are ordered.                          *)
WellFormed(in) ==
  /\ in.actions \in Seq(Range(in.actions))
  /\ \A a \in Range(in.actions) : a.id \in Nat /\ IsFiniteSet(a.inputs)

ASSUME InputsWellFormed == \A in \in Inputs : WellFormed(in)

ReasonKinds == {"cycle", "unsupported_input", "missing_producer", "duplicate_producer",
                "invalid_contract_version"}

ASSUME NoReason == None \notin ReasonKinds

VARIABLES
  input,
  at,          \* the step of the kernel, "planned" or "rejected"
  reason, cyclePath,
  producerOf,
  needed, queue,            \* neededIds and its work list
  visited, path,            \* the depth-first search
  remaining, ready, ordered,
  received     \* the plan as the caller gets it

search == <<visited, path>>
sort   == <<remaining, ready, ordered>>
walk   == <<needed, queue>>
answer == <<at, reason, cyclePath, received>>
vars   == <<input, producerOf, walk, search, sort, answer>>

StartsPlanning ==
  /\ at = "index" /\ reason = None /\ cyclePath = <<>> /\ received = None
  /\ producerOf = <<>> /\ needed = {} /\ queue = {}
  /\ visited = {} /\ path = <<>>
  /\ remaining = <<>> /\ ready = {} /\ ordered = <<>>

Init == input \in Inputs /\ StartsPlanning

Reject(kind, cycle) ==
  /\ at' = "rejected" /\ reason' = kind /\ cyclePath' = cycle
  /\ UNCHANGED <<input, producerOf, walk, search, sort, received>>

Goto(step) == at' = step /\ UNCHANGED <<input, reason, cyclePath, received>>

Act(id) == ById(input.actions, id)
Deps(id) == {producerOf[x] : x \in Act(id).inputs}

DeclaredTwice == \E i, j \in DOMAIN input.actions :
  \E m \in DOMAIN input.actions[i].outputs, n \in DOMAIN input.actions[j].outputs :
    <<i, m>> # <<j, n>> /\ input.actions[i].outputs[m] = input.actions[j].outputs[n]

(* The version gate, the producer index and the check for repeated ids.    *)
Index ==
  /\ at = "index"
  /\ IF ~input.versionIsOurs THEN Reject("invalid_contract_version", <<>>)
     ELSE IF DeclaredTwice THEN Reject("duplicate_producer", <<>>)
     ELSE IF ~IsInjective([i \in DOMAIN input.actions |-> input.actions[i].id])
          THEN Reject("unsupported_input", <<>>)
     ELSE /\ producerOf' = [x \in Outputs(ActionsOf(input.actions)) |->
                              Producer(ActionsOf(input.actions), x)]
          /\ Goto("demand") /\ UNCHANGED <<walk, search, sort>>

Demand ==
  /\ at = "demand"
  /\ IF ~(input.demanded \subseteq DOMAIN producerOf) THEN Reject("missing_producer", <<>>)
     ELSE /\ needed' = {producerOf[x] : x \in input.demanded} /\ queue' = needed'
          /\ Goto("walk") /\ UNCHANGED <<producerOf, search, sort>>

Walk(id) ==
  /\ at = "walk" /\ id \in queue
  /\ IF ~(Act(id).inputs \subseteq DOMAIN producerOf) THEN Reject("missing_producer", <<>>)
     ELSE /\ needed' = needed \cup Deps(id)
          /\ queue' = (queue \ {id}) \cup (Deps(id) \ needed)
          /\ Goto("walk") /\ UNCHANGED <<producerOf, search, sort>>

Walked == /\ at = "walk" /\ queue = {} /\ Goto("search")
          /\ UNCHANGED <<producerOf, walk, search, sort>>

Least(ids) == {id \in ids : \A other \in ids : id <= other}

(* findCycle starts at the least id not visited yet, ...                   *)
Root ==
  /\ at = "search" /\ path = <<>> /\ needed \ visited # {}
  /\ \E id \in Least(needed \ visited) : path' = <<id>> /\ visited' = visited \cup {id}
  /\ Goto("search") /\ UNCHANGED <<producerOf, walk, sort>>

Top == path[Len(path)]

(* ... descends into a dependency not visited before, ...                  *)
Descend(id) ==
  /\ at = "search" /\ path # <<>> /\ id \in Deps(Top) \ visited
  /\ path' = Append(path, id) /\ visited' = visited \cup {id}
  /\ Goto("search") /\ UNCHANGED <<producerOf, walk, sort>>

OnPath(id) == id \in Range(path)

(* ... ends at one that is on the path, ...                                *)
CloseCycle(id) ==
  /\ at = "search" /\ path # <<>> /\ id \in Deps(Top) /\ OnPath(id)
  /\ \E first \in Least({i \in DOMAIN path : path[i] = id} \cup {Len(path)}) :
       Reject("cycle", Append(SubSeq(path, first, Len(path)), id))

Popped == SubSeq(path, 1, Len(path) - 1)

(* ... and returns when there is none.                                     *)
Ascend ==
  /\ at = "search" /\ path # <<>>
  /\ Deps(Top) \subseteq visited \ Range(path)
  /\ path' = Popped
  /\ Goto("search") /\ UNCHANGED <<producerOf, walk, visited, sort>>

Awaited(id) == Cardinality(Deps(id))

Searched ==
  /\ at = "search" /\ path = <<>> /\ needed \subseteq visited
  /\ remaining' = [id \in needed |-> Awaited(id)]
  /\ ready' = {id \in needed : remaining'[id] = 0}
  /\ Goto("sort") /\ UNCHANGED <<producerOf, walk, search, ordered>>

(* Mutant: the list of ready actions is not sorted again.                  *)
Unsorted(ids) == ids

First(ids) == Least(ids)

(* topoSort emits the least ready action and counts its dependents down.   *)
Emit(id) ==
  /\ at = "sort" /\ ready # {} /\ id \in First(ready)
  /\ ordered' = Append(ordered, id)
  /\ remaining' = [d \in needed |-> IF id \in Deps(d) THEN remaining[d] - 1 ELSE remaining[d]]
  /\ ready' = (ready \ {id}) \cup {d \in needed : id \in Deps(d) /\ remaining'[d] = 0}
  /\ Goto("sort") /\ UNCHANGED <<producerOf, walk, search>>

Sorted == /\ at = "sort" /\ ready = {} /\ Goto("physical")
          /\ UNCHANGED <<producerOf, walk, search, sort>>

(* Physical work and physical actions belong together one to one, also the *)
(* ones nobody demands.                                                    *)
PhysicalWorkMatches ==
  LET ids == {a.id : a \in ActionsOf(input.actions)}
      physicalIds == {id \in ids : Act(id).kind = "physical_work"}
  IN  /\ DOMAIN input.physical = physicalIds
      /\ \A id \in DOMAIN input.physical : input.physical[id].instance_id = id

Plan == [genuine |-> TRUE, ordered |-> ordered,
         actions |-> [id \in needed |-> Act(id)],
         physical |-> [id \in DOMAIN input.physical \cap needed |-> input.physical[id]]]

(* What the caller can decode as a plan at all: its order is a list.       *)
Decodable(plans) == {p \in plans : p.ordered \in Seq(Range(p.ordered))}

Answer ==
  /\ at = "physical"
  /\ IF ~PhysicalWorkMatches THEN Reject("unsupported_input", <<>>)
     ELSE /\ at' = "planned" /\ received' \in Decodable({Plan} \cup Damaged(Plan))
          /\ UNCHANGED <<input, producerOf, walk, search, sort, reason, cyclePath>>

(* Another program stands in the place of the planner.                     *)
Impostor ==
  /\ at = "index" /\ at' = "fabricated" /\ received' \in Decodable(Fabricated(input))
  /\ UNCHANGED <<input, producerOf, walk, search, sort, reason, cyclePath>>

Next ==
  \/ Impostor \/ Index \/ Demand \/ Walked \/ Root \/ Ascend \/ Searched \/ Sorted \/ Answer
  \/ \E id \in needed : Walk(id) \/ Descend(id) \/ CloseCycle(id) \/ Emit(id)

Spec == Init /\ [][Next]_vars /\ WF_vars(Next)

-----------------------------------------------------------------------------
(* Properties *)

(* What can be had by running actions whose inputs are there, from nothing:*)
(* the meaning of a planning input, without indices, searches or orders.   *)
Supply(there) == Outputs({a \in ActionsOf(input.actions) : a.inputs \subseteq there})

Obtainable ==
  LET after[n \in Nat] == IF n = 0 THEN {} ELSE Supply(after[n - 1])
  IN  after[Len(input.actions)]

(* The kernel refuses a demand exactly when no order of the actions could  *)
(* meet it, and a reported cycle is one.                                   *)
RejectsTheImpossible ==
  /\ reason \in {"cycle", "missing_producer"} => ~(input.demanded \subseteq Obtainable)
  /\ at = "planned" => input.demanded \subseteq Obtainable
  /\ reason = "cycle" => /\ cyclePath[1] = cyclePath[Len(cyclePath)] /\ Len(cyclePath) > 1
                         /\ \A i \in 1..Len(cyclePath) - 1 : cyclePath[i + 1] \in Deps(cyclePath[i])

(* Whatever order tables and lists are read in, the plan is the same: among*)
(* the orders that respect the dependencies, the lexicographically least.  *)
PlanIsCanonical ==
  at = "planned" =>
    \A i \in DOMAIN ordered : \A later \in {ordered[j] : j \in i + 1 .. Len(ordered)} :
      Deps(later) \subseteq {ordered[j] : j \in 1 .. i - 1} => ordered[i] <= later

(* Every plan of the kernel passes the independent check of the caller,    *)
(* unless the input itself carries an unsound descriptor.                  *)
PlansAreAccepted ==
  at = "planned" /\ received = Plan /\ (\A id \in needed : SoundWork(Act(id)))
    => Accepts(received, input)

(* An accepted plan, damaged or made up, can be run, and nothing runs that *)
(* no demand needs: without it a demand or an action would go without.     *)
AcceptedRuns ==
  at \in {"planned", "fabricated"} /\ Accepts(received, input) => Runs(received, input)

(* Between the kernel and the check of its caller nothing falls: what can  *)
(* be met gets a plan, that plan is accepted, and what is accepted, from   *)
(* wherever it came, runs.                                                 *)
PlansRun == RejectsTheImpossible /\ PlansAreAccepted /\ AcceptedRuns

=============================================================================
