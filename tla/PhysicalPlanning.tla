--------------------------- MODULE PhysicalPlanning ---------------------------
(***************************************************************************)
(* The map of physical work units, what is checked of it, and instances of *)
(* units on their way through the planner                                  *)
(* (crates/laminaria-plan/src/physical_work.rs): physical_planning_input   *)
(* makes a planning input of them, the kernel plans it, and                *)
(* physical_work_from_execution_plan takes them back out of the plan for   *)
(* ResourceScheduler.                                                      *)
(*                                                                         *)
(* A unit is a kind of work: which data it reads, from which units (from   *)
(* is {} for an external authority), and which it makes.  The artifact of  *)
(* instance id and data kind k is <<id, k>>.                               *)
(***************************************************************************)
EXTENDS PlanningKernel

CONSTANTS Contracts,  \* contracts, by name
          Requests    \* instances as listed, and the demanded ids

VARIABLE request      \* with the name of its contract; None for other inputs

-----------------------------------------------------------------------------
(* The contract *)

External(kind)           == [kind |-> kind, from |-> {}, optional |-> FALSE]
In(kind, producer)       == [kind |-> kind, from |-> {producer}, optional |-> FALSE]
Optional(kind, producer) == [kind |-> kind, from |-> {producer}, optional |-> TRUE]
Either(kind, a, b)       == [kind |-> kind, from |-> {a, b}, optional |-> FALSE]

Unit(id, group, inputs, outputs) ==
  [id |-> id, group |-> group, inputs |-> inputs, outputs |-> outputs, terminal |-> {},
   barrier |-> FALSE,                   \* ready only after the demanded artifact closure
   cpu |-> 1, processes |-> 0, effect |-> "none", commit |-> "planner_value"]

Keyed(unit) == [unit EXCEPT !.effect = "keyed", !.commit = "keyed_state"]
Staged(unit, processes) ==
  [unit EXCEPT !.effect = "staged", !.commit = "handoff", !.processes = processes]
Final(unit) ==
  [unit EXCEPT !.effect = "final", !.commit = "final_handoff", !.processes = 1,
               !.barrier = TRUE, !.terminal = Range(unit.outputs)]

RustUnits == <<
  Unit("A2", "rust", {External("WorkspaceManifest")}, <<"MemberManifest">>),
  Unit("A3", "rust", {In("MemberManifest", "A2")}, <<"PackageResolution">>),
  Unit("A4", "rust", {In("MemberManifest", "A2")}, <<"SourceUnitGraph">>),
  Unit("A5", "rust", {In("PackageResolution", "A3"), In("SourceUnitGraph", "A4")}, <<"SelectedSourceUnit">>),
  Unit("A6", "rust", {In("SelectedSourceUnit", "A5")}, <<"SemanticFact", "ForeignDecl">>),
  Keyed(Unit("A7", "rust", {In("SemanticFact", "A6")}, <<"InstantiationKey">>)),
  Unit("A8", "rust", {In("InstantiationKey", "A7")}, <<"OptimizationDecision">>),
  Unit("A9", "rust", {In("InstantiationKey", "A7"), In("OptimizationDecision", "A8"),
                      External("BuildStrategyContext"), External("TargetParameters")}, <<"LoweredModule">>),
  Staged(Unit("A10", "rust", {In("LoweredModule", "A9")}, <<"NativeObject">>), 0),
  Keyed(Unit("A11", "rust", {In("NativeObject", "A10")}, <<"LinkSymbol">>)) >>

NimUnits == <<
  Unit("N2", "nim", {External("NimblePackageManifest")}, <<"NimPackageResolution">>),
  Unit("N3", "nim", {In("NimPackageResolution", "N2")}, <<"NimBuildInvocation">>),
  Unit("N4", "nim", {In("NimBuildInvocation", "N3")}, <<"ReachableNimModule">>),
  Unit("N5", "nim", {In("ReachableNimModule", "N4")},
       <<"GeneratedCModule", "NimGenericDeclaration", "ForeignDecl">>),
  Keyed(Unit("N6", "nim", {In("NimGenericDeclaration", "N5")}, <<"NimInstantiationKey">>)),
  Staged(Unit("N7", "nim", {In("GeneratedCModule", "N5"), Optional("NimInstantiationKey", "N6")},
              <<"CObjectFile">>), 1),
  Staged(Unit("N8", "nim", {In("CObjectFile", "N7")}, <<"NimLinkArtifact">>), 0),
  Unit("N9", "nim", {In("GeneratedCModule", "N5")}, <<"ExportedSymbol">>) >>

ForeignUnits == <<
  Unit("ForeignTarget", "resolver", {Either("ForeignDecl", "A6", "N5")}, <<"ForeignLibraryTarget">>),
  Unit("ForeignArtifact", "resolver", {In("ForeignLibraryTarget", "ForeignTarget")},
       <<"ResolvedForeignArtifact">>),
  Unit("ForeignAdapter", "cpp_adapter", {Either("ForeignDecl", "A6", "N5"),
       In("ResolvedForeignArtifact", "ForeignArtifact")}, <<"AdapterUnit">>),
  Unit("ForeignPreparation", "c_object", {In("ResolvedForeignArtifact", "ForeignArtifact"),
       Optional("AdapterUnit", "ForeignAdapter")}, <<"ForeignCompileUnit">>),
  Staged(Unit("ForeignObject", "c_object", {In("ForeignCompileUnit", "ForeignPreparation")},
              <<"ForeignNativeObject">>), 1) >>

LinkUnits == <<
  Staged(Unit("Archive", "archive", {In("ForeignNativeObject", "ForeignObject")}, <<"ForeignArchive">>), 1),
  Final(Unit("A12", "link", {In("LinkSymbol", "A11"), In("NimLinkArtifact", "N8"),
       In("ExportedSymbol", "N9"), In("ForeignArchive", "Archive")}, <<"LinkedArtifact">>)) >>

CanonicalContract ==
  [versionIsOurs |-> TRUE, units |-> RustUnits \o NimUnits \o ForeignUnits \o LinkUnits]

LogicalActivities == {u.id : u \in Range(CanonicalContract.units)} \ {"Archive"}

-----------------------------------------------------------------------------
(* validate_physical_work_contract                                         *)

UnitsOf(c)      == Range(c.units)
Known(c, id)    == \E n \in DOMAIN c.units : c.units[n].id = id
UnitOf(c, id)   == c.units[CHOOSE n \in DOMAIN c.units : c.units[n].id = id]
Makes(c, id, kind) == Known(c, id) /\ kind \in Range(UnitOf(c, id).outputs)

UnitSound(u) ==
  /\ u.cpu > 0
  /\ <<u.effect, u.commit>> \in {<<"none", "planner_value">>, <<"keyed", "keyed_state">>,
                                 <<"staged", "handoff">>, <<"final", "final_handoff">>}
  /\ u.barrier <=> u.id = "A12"

InputSound(c, i) ==
  /\ \A id \in i.from : Known(c, id)
  /\ i.from # {} => \E id \in i.from : Makes(c, id, i.kind)

OutputUsed(c, u, kind) ==
  \/ kind \in u.terminal
  \/ \E v \in UnitsOf(c) : \E i \in v.inputs : i.kind = kind /\ u.id \in i.from

(* Mutant: a cycle is looked for among the required inputs only.           *)
RequiredProducers(c, u) ==
  {UnitOf(c, id) : id \in {x \in UNION {i.from : i \in {j \in u.inputs : ~j.optional}} : Known(c, x)}}

Producers(c, u) == {UnitOf(c, id) : id \in {x \in UNION {i.from : i \in u.inputs} : Known(c, x)}}

(* No unit waits for itself: all can be laid out, producers first.         *)
Acyclic(c) ==
  LET laid[n \in Nat] == IF n = 0 THEN {}
                         ELSE LET before == laid[n - 1]
                              IN  {u \in UnitsOf(c) : Producers(c, u) \subseteq before}
  IN  laid[Len(c.units)] = UnitsOf(c)

ContractHolds(c) ==
  /\ c.versionIsOurs
  /\ IsInjective([i \in DOMAIN c.units |-> c.units[i].id])
  /\ \A id \in LogicalActivities : Known(c, id)
  /\ \A u \in UnitsOf(c) : /\ UnitSound(u)
                           /\ \A i \in u.inputs : InputSound(c, i)
                           /\ \A kind \in Range(u.outputs) : OutputUsed(c, u, kind)
  /\ Acyclic(c)

-----------------------------------------------------------------------------
(* Planning *)

SoundReservation(u, w) ==
  /\ w.memory > 0
  /\ w.cpu >= 1 + w.nested /\ w.cpu >= u.cpu
  /\ w.processes >= u.processes
  /\ w.processes > 0 => w.io > 0

(* validate_planned_instance                                               *)
SoundInstance(c, w) ==
  /\ Known(c, w.unit)
  /\ w.group = UnitOf(c, w.unit).group
  /\ SoundReservation(UnitOf(c, w.unit), w)

(* dependency_output_kinds: the kinds an instance takes from a dependency, *)
(* and what each dependency must give and each input must find.            *)
BoundKinds(c, w, d) ==
  {i.kind : i \in {j \in UnitOf(c, w.unit).inputs : d.unit \in j.from /\ Makes(c, d.unit, j.kind)}}

DependenciesBound(c, w, byId) ==
  /\ \A d \in w.deps : BoundKinds(c, w, byId[d]) # {}
  /\ \A i \in UnitOf(c, w.unit).inputs :
       ~i.optional /\ i.from # {} => \E d \in w.deps : i.kind \in BoundKinds(c, w, byId[d])

Reads(c, w, byId)   == UNION {{d} \X BoundKinds(c, w, byId[d]) : d \in w.deps}
MadeBy(c, w)        == LET kinds == UnitOf(c, w.unit).outputs
                         IN  [n \in DOMAIN kinds |-> <<w.instance_id, kinds[n]>>]

InstancesById(list) == [id \in {list[n].instance_id : n \in DOMAIN list} |->
                          CHOOSE w \in Range(list) : w.instance_id = id]

(* What the types of the code say of contracts and requests; and that every*)
(* unit makes something and nothing twice, which holds of the one contract *)
(* the code has and which its check does not ask.                          *)
IsContract(c) ==
  /\ c.units \in Seq(UnitsOf(c))
  /\ \A u \in UnitsOf(c) : /\ IsFiniteSet(u.inputs) /\ u.outputs \in Seq(Range(u.outputs))
                           /\ u.outputs # <<>> /\ IsInjective(u.outputs)

IsRequest(r) ==
  /\ r.instances \in Seq(Range(r.instances))
  /\ \A w \in Range(r.instances) : w.instance_id \in Nat /\ IsFiniteSet(w.deps)

ASSUME ContractsAssumption == \A n \in DOMAIN Contracts : IsContract(Contracts[n])
ASSUME RequestsAssumption  == \A r \in Requests : IsRequest(r)

BridgeAccepts(c, r) ==
  LET byId == InstancesById(r.instances)
  IN  /\ \A w \in Range(r.instances) : SoundInstance(c, w)
      /\ IsInjective([n \in DOMAIN r.instances |-> r.instances[n].instance_id])
      /\ \A w \in Range(r.instances) : /\ w.deps \subseteq DOMAIN byId
                                       /\ DependenciesBound(c, w, byId)
      /\ r.demanded \subseteq DOMAIN byId

(* physical_planning_input                                                 *)
Bridged(c, r) ==
  LET byId == InstancesById(r.instances)
      action(w) == [id |-> w.instance_id, kind |-> "physical_work", work |-> None,
                    inputs |-> Reads(c, w, byId), outputs |-> MadeBy(c, w)]
  IN  [versionIsOurs |-> TRUE,
       actions  |-> [n \in DOMAIN r.instances |-> action(r.instances[n])],
       demanded |-> UNION {Range(MadeBy(c, byId[id])) : id \in r.demanded},
       physical |-> byId]

BridgeInit ==
  /\ StartsPlanning
  /\ \/ request = None /\ input \in Inputs
     \/ \E name \in {n \in DOMAIN Contracts : ContractHolds(Contracts[n])} :
          \E r \in {q \in Requests : BridgeAccepts(Contracts[name], q)} :
            request = [contract |-> name, asked |-> r] /\ input = Bridged(Contracts[name], r)

BridgeNext == Next /\ UNCHANGED request

BridgeSpec == BridgeInit /\ [][BridgeNext]_<<vars, request>> /\ WF_vars(BridgeNext)

ActionsMatch(c, plan) == \A id \in DOMAIN plan.physical :
  LET w == plan.physical[id]
      a == plan.actions[id]
  IN  /\ a.kind = "physical_work" /\ w.instance_id = id
      /\ a.inputs = Reads(c, w, plan.physical) /\ a.outputs = MadeBy(c, w)

InstancesSound(c, plan) == \A id \in DOMAIN plan.physical :
  /\ SoundInstance(c, plan.physical[id])
  /\ plan.physical[id].deps \subseteq DOMAIN plan.physical      \* the code indexes, and panics
  /\ DependenciesBound(c, plan.physical[id], plan.physical)

(* physical_work_from_execution_plan.  What it asks physical_planning_input*)
(* in the end is that no instance is listed twice and the contract holds.  *)
Recovers(c, plan) ==
  /\ Range(plan.ordered) = DOMAIN plan.physical
  /\ DOMAIN plan.physical \subseteq DOMAIN plan.actions
  /\ InstancesSound(c, plan)
  /\ ActionsMatch(c, plan)
  /\ IsInjective(plan.ordered)
  /\ ContractHolds(c)

(* The scheduler gets the instances of the plan in its own types, nothing  *)
(* else of it: physical_instances_from_execution_plan.                     *)
Recovered(plan) == Range(plan.physical)

-----------------------------------------------------------------------------
(* Properties *)

(* What ResourceScheduler.Accepts asks, the budget apart: it must not meet *)
(* a dependency that is missing, gives nothing or waits in a circle.       *)
Executable(c, instances) ==
  LET byId == [id \in {w.instance_id : w \in instances} |-> CHOOSE w \in instances : w.instance_id = id]
  IN  /\ \A w \in instances : /\ w.deps \subseteq DOMAIN byId
                              /\ SoundInstance(c, w) /\ DependenciesBound(c, w, byId)
      /\ \A S \in SUBSET DOMAIN byId : S # {} => \E id \in S : byId[id].deps \cap S = {}

(* The instances some demanded one waits for, along the dependencies alone.*)
WithAwaited(byId, ids) == ids \cup UNION {byId[id].deps : id \in ids}

Wanted(r) ==
  LET byId == InstancesById(r.instances)
      reach[n \in Nat] == IF n = 0 THEN r.demanded ELSE WithAwaited(byId, reach[n - 1])
  IN  {byId[id] : id \in reach[Len(r.instances)]}

Contract == Contracts[request.contract]

(* What the bridge lets through is planned, never refused, and comes back  *)
(* as exactly the instances the demanded ones wait for: the detour over    *)
(* artifacts neither loses a dependency nor adds one.  And whatever comes  *)
(* back, from a plan that was damaged on the way and not validated         *)
(* included, can be executed.                                              *)
PhysicalWorkSurvives ==
  request # None =>
    /\ at # "rejected"
    /\ at = "planned" /\ received = Plan => /\ Recovers(Contract, received)
                                          /\ Recovered(received) = Wanted(request.asked)
    /\ received # None /\ Recovers(Contract, received) => Executable(Contract, Recovered(received))
=============================================================================
