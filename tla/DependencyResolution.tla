------------------------ MODULE DependencyResolution ------------------------
(***************************************************************************)
(* resolve, which turns the ingested facts of a build across ecosystems    *)
(* into a graph of obligations and the actions that discharge them, or     *)
(* rejects them; resolve_demand_driven, which prunes the facts first       *)
(* (crates/laminaria-plan/src/dependency_graph.rs); and                    *)
(* verify_plan_integrity (plan_integrity.rs).                              *)
(*                                                                         *)
(* The facts are resolved twice, whole and pruned, as g3_e0_vs_e1.rs does. *)
(* A step is a stage of resolve, and the feedback step is one step for     *)
(* each requirement: each works on the map that the earlier ones filled,   *)
(* and an insertion replaces what the map held under that id.              *)
(*                                                                         *)
(* An id is the tuple of the names it is formatted from, kind first.  Of   *)
(* an obligation only what is read again is kept: kind, state, edges and   *)
(* the set of its required action, if any; of a rejection its reason.      *)
(***************************************************************************)
EXTENDS Integers, SequencesExt, DischargeRules

CONSTANT Inputs   \* the facts that may be ingested

VARIABLES
  input,         \* DependencyResolutionInput, constant
  given,         \* the facts being resolved: all, or the pruned ones
  stage,         \* where resolve is
  next,          \* index of the next ffi requirement
  obligations,   \* id -> state, edges, required action
  registered,    \* providers with an artifact (provider_artifact_obligations)
  actions,       \* required_actions
  results        \* what the calls returned

vars == <<input, given, stage, next, obligations, registered, actions, results>>

(* canonical_c_abi_type: spellings of the same C type; others are compared *)
(* as they are.                                                            *)
Spellings ==
  [i32  |-> {"i32", "int", "cint", "c_int"},  void |-> {"()", "void", ""},
   i8   |-> {"i8", "int8_t", "cchar", "char"}, f32 |-> {"f32", "float", "cfloat"},
   i64  |-> {"i64", "long long", "clonglong", "int64_t"},
   f64  |-> {"f64", "double", "cdouble"}]
Canonical(type) ==
  IF \E t \in DOMAIN Spellings : type \in Spellings[t]
  THEN CHOOSE t \in DOMAIN Spellings : type \in Spellings[t]
  ELSE type

(* export_satisfies_requirement                                            *)
Meets(export, r) ==
  /\ export.symbol = r.symbol /\ export.call = r.call
  /\ Canonical(export.type) = Canonical(r.type)

Declares(c, r) == \E e \in c.exports : Meets(e, r)

-----------------------------------------------------------------------------
(* The facts, of which the wording is left out: `call` is the arity and    *)
(* the ABI of a function, a lowering is the source that LAMINARIA lowers,  *)
(* a constraint the target of a symbol.                                    *)

SourceModule(id, package) == [id |-> id, package |-> package]

FfiRequirement(source, symbol, type, call, provider) ==
  [source |-> source, symbol |-> symbol, type |-> type, call |-> call, provider |-> provider]

FfiExport(symbol, type, call) == [symbol |-> symbol, type |-> type, call |-> call]

PackageCandidate(package, version, ecosystem, role, triple, sources, exports) ==
  [package |-> package, version |-> version, ecosystem |-> ecosystem, role |-> role,
   triple |-> triple, sources |-> sources, exports |-> exports]

(* No sources: the output is made of all that its package has.             *)
ArtifactOutput(id, package, kind, sources) ==
  [id |-> id, package |-> package, kind |-> kind, sources |-> sources]

DependencyResolutionInput(demand, triple, sources, candidates, requirements, lowerings, constraints, outputs) ==
  [demand |-> demand, triple |-> triple, sources |-> sources, candidates |-> candidates,
   requirements |-> requirements, lowerings |-> lowerings, constraints |-> constraints,
   outputs |-> outputs]

Elements(s)        == {s[i] : i \in DOMAIN s}

(* SelectSeq, by a recursion that can be expanded.                         *)
Filtered(s, Test(_)) ==
  LET upTo[n \in 0 .. Len(s)] ==
        IF n = 0 THEN <<>>
        ELSE LET kept == upTo[n-1] IN IF Test(s[n]) THEN Append(kept, s[n]) ELSE kept
  IN upTo[Len(s)]

(* A loop over the indices I that inserts Value(i) under Key(i): the last  *)
(* insertion stays.                                                        *)
Inserted(I, Key(_), Value(_)) ==
  [k \in {Key(i) : i \in I} |-> Value(CHOOSE i \in I : Key(i) = k /\ \A j \in I : Key(j) = k => j <= i)]

(* All of them are lists, which end; and a Cargo package exports nothing:  *)
(* provider_artifact_kind relies on it.                                    *)
Facts(facts) ==
  /\ facts = DependencyResolutionInput(facts.demand, facts.triple, facts.sources, facts.candidates,
                facts.requirements, facts.lowerings, facts.constraints, facts.outputs)
  /\ IsFiniteSet(facts.sources) /\ IsFiniteSet(DOMAIN facts.lowerings)
  /\ facts.requirements \in Seq(Elements(facts.requirements))
  /\ facts.candidates \in Seq(Elements(facts.candidates))
  /\ \A c \in Elements(facts.candidates) : /\ c.ecosystem \in {"Cargo", "Nimble", "C", "Cpp"}
                                           /\ c.ecosystem = "Cargo" => c.exports = {}
  /\ facts.outputs \in Seq(Elements(facts.outputs))
  /\ \A o \in Elements(facts.outputs) : IsFiniteSet(o.sources)

ASSUME FactsAssumption == \A facts \in Inputs : Facts(facts)

Candidates(p)      == {i \in DOMAIN given.candidates : given.candidates[i].package = p}
Providers          == {r.provider : r \in Elements(given.requirements)}
OutputsOf(p, kind) == Filtered(given.outputs, LAMBDA o : o.package = p /\ o.kind = kind)

Source(s)       == <<"SourceModule", s>>
Selection(c)    == <<"PackageSelection", c.package, c.version>>
Lowering(p)     == <<"Lowering", p>>
Ffi(r)          == <<"SemanticFfi", r.symbol>>
Abi(r)          == <<"AbiTarget", r.symbol>>
Symbol(r)       == <<"Symbol", r.symbol>>
Artifact(o)     == <<"ArtifactProduction", o>>
Output(o)       == <<"Output", o>>
LinkOrder       == <<"LinkOrder">>
FinalLink       == <<"FinalLink">>
Runtime         == <<"Runtime">>
Provenance      == <<"Provenance">>
Demand          == <<"NativeExecutableDemand">>
KindOf(id)      == id[1]

Obligation(state, dependsOn, action) ==
  [state |-> state, dependsOn |-> dependsOn, action |-> action]
Satisfied(dependsOn) == Obligation("Satisfied", dependsOn, {})
SourcesOf(c)         == {Source(s) : s \in c.sources}

(* Insertions into the map: what is inserted replaces what was there.      *)
InsertAll(os, new) ==
  [id \in DOMAIN os \cup DOMAIN new |-> IF id \in DOMAIN new THEN new[id] ELSE os[id]]
Insert(os, id, o) == InsertAll(os, [i \in {id} |-> o])

Init ==
  /\ input \in Inputs
  /\ given = input
  /\ stage = "register"
  /\ next = 1
  /\ obligations = <<>>
  /\ registered = {}
  /\ actions = <<>>
  /\ results = <<>>

Goto(s) == stage' = s /\ UNCHANGED <<input, given, results>>

Result(verdict, os, as, violations) ==
  [verdict |-> verdict, obligations |-> os, actions |-> as, violations |-> violations]

-----------------------------------------------------------------------------
(* resolve_demand_driven *)

(* Mutant: one pass over the requirements, in their order.                 *)
ReachedInOnePass(facts) ==
  FoldLeft(LAMBDA ps, r : IF \E s \in facts.sources : s.id = r.source /\ s.package \in ps
                          THEN ps \cup {r.provider} ELSE ps,
           {facts.demand}, facts.requirements)

(* reachable_package_and_source_ids: a requirement counts when a reachable *)
(* package declares it.                                                    *)
Reached(facts) ==
  Closure({facts.demand},
          LAMBDA p : {r.provider : r \in {q \in Elements(facts.requirements) :
                        \E s \in facts.sources : s.id = q.source /\ s.package = p}},
          Len(facts.requirements))

Pruned(facts) ==
  LET reached == Reached(facts)
      kept    == {s \in facts.sources : s.package \in reached}
      Of(x)   == x.package \in reached
  IN [facts EXCEPT !.sources      = kept,
                   !.candidates   = Filtered(@, Of),
                   !.requirements = Filtered(@, LAMBDA r : \E s \in kept : s.id = r.source),
                   !.lowerings    = [p \in DOMAIN @ \cap reached |-> @[p]],
                   !.outputs      = Filtered(@, Of)]

(* A call returns; the second one gets the pruned facts.                   *)
Return(result) ==
  /\ results' = Append(results, result)
  /\ stage' = IF results = <<>> THEN "register" ELSE "resolved"
  /\ given' = IF results = <<>> THEN Pruned(input) ELSE given
  /\ next' = 1 /\ obligations' = <<>> /\ registered' = {} /\ actions' = <<>>
  /\ UNCHANGED input

Reject(reason) == Return(Result(reason, <<>>, <<>>, {}))

-----------------------------------------------------------------------------
(* The stages of resolve *)

(* register_source_obligations, register_lowering_obligations.             *)
Register ==
  /\ stage = "register"
  /\ obligations' = InsertAll([id \in {Source(s.id) : s \in given.sources} |-> Satisfied({})],
                              [id \in {Lowering(p) : p \in DOMAIN given.lowerings} |->
                                 Satisfied({Source(given.lowerings[id[2]])})])
  /\ Goto("roots")
  /\ UNCHANGED <<next, registered, actions>>

(* resolve_root_packages: only a package that nothing requires, and with   *)
(* one candidate, is selected without feedback.                            *)
Roots == {c.package : c \in Elements(given.candidates)} \ Providers

RootCandidates == {i \in DOMAIN given.candidates : given.candidates[i].package \in Roots}

RejectRoots ==
  /\ stage = "roots"
  /\ \E p \in Roots : Cardinality(Candidates(p)) > 1
  /\ Reject("VersionConflict")

SelectRoots ==
  /\ stage = "roots"
  /\ \A p \in Roots : Cardinality(Candidates(p)) = 1
  /\ obligations' =
       InsertAll(obligations,
                 Inserted(RootCandidates, LAMBDA i : Selection(given.candidates[i]),
                          LAMBDA i : Obligation("Selected", SourcesOf(given.candidates[i]), {})))
  /\ Goto("requirements")
  /\ UNCHANGED <<next, registered, actions>>

(* resolve_provider_for_requirement                                        *)

Matching(r, role) ==
  {i \in Candidates(r.provider) : given.candidates[i].role = role /\ Declares(given.candidates[i], r)}

ExpectedTriple(r) ==
  IF r.symbol \in DOMAIN given.constraints THEN given.constraints[r.symbol] ELSE given.triple

(* Several candidates declare the symbol, be it of one version.            *)
Ambiguous(r) == Cardinality(Matching(r, "Target")) > 1

Refusals(r) ==
  LET target == Matching(r, "Target")
      named  == \E i \in Candidates(r.provider), e \in UNION {c.exports : c \in Elements(given.candidates)} :
                  e \in given.candidates[i].exports /\ e.symbol = r.symbol
  IN CASE Ambiguous(r) -> {"VersionConflict"}
       [] target = {} /\ Matching(r, "Host") # {} -> {"HostTargetRoleMismatch"}
       [] target = {} /\ Matching(r, "Host") = {} -> {IF named THEN "IncompatibleAbi" ELSE "MissingSymbol"}
       [] OTHER -> {"IncompatibleAbi" : i \in {i \in target : given.candidates[i].triple # ExpectedTriple(r)}}

RejectRequirement ==
  /\ stage = "requirements" /\ next <= Len(given.requirements)
  /\ \E reason \in Refusals(given.requirements[next]) : Reject(reason)

(* provider_artifact_kind; a Cargo package never provides a symbol.        *)
ArchiveKind == [Nimble |-> "NimStaticLibrary", C |-> "CStaticArchive", Cpp |-> "CppStaticArchive"]

AfterLowering(p, selection, os) ==
  {selection} \cup ({Lowering(p)} \cap DOMAIN os)

(* Mutant: the alternatives of the selected version are not rejected.      *)
AlternativesKept(c, os) == os

(* Every other version is rejected, whatever it was before.                *)
AlternativesRejected(c, os) ==
  InsertAll(os, Inserted({i \in Candidates(c.package) : given.candidates[i].version # c.version},
                         LAMBDA i : Selection(given.candidates[i]),
                         LAMBDA i : Obligation("Rejected", SourcesOf(given.candidates[i]), {})))

Selected(r, c, os) ==
  LET required == Insert(os, Ffi(r), Satisfied({Source(r.source)}))
      chosen   == AlternativesRejected(c, Insert(required, Selection(c), Obligation("Selected", SourcesOf(c), {})))
      bound    == Insert(chosen, Abi(r), Satisfied({Ffi(r), Selection(c)}))
  IN Insert(bound, Symbol(r), Satisfied({Abi(r)}))

(* The artifact of a provider is registered for the first requirement that *)
(* selects a candidate of it.                                              *)
SelectProvider ==
  /\ stage = "requirements" /\ next <= Len(given.requirements)
  /\ LET r == given.requirements[next] IN
     /\ Refusals(r) = {}
     /\ \E i \in Matching(r, "Target") :
          LET c    == given.candidates[i]
              os   == Selected(r, c, obligations)
              outs == OutputsOf(c.package, ArchiveKind[c.ecosystem])
          IN IF outs # <<>> /\ c.package \notin registered
             THEN /\ registered' = registered \cup {c.package}
                  /\ obligations' =
                       Insert(os, Artifact(outs[1].id), Satisfied(AfterLowering(c.package, Selection(c), os)))
             ELSE obligations' = os /\ UNCHANGED registered
  /\ next' = next + 1
  /\ Goto("requirements")
  /\ UNCHANGED actions

(* The artifacts of the selected roots; the executable must be declared.   *)
RootKind == [Cargo |-> "RustObject", Nimble |-> "NimStaticLibrary"]

Executables == Filtered(given.outputs, LAMBDA o : o.kind = "NativeExecutable")

(* A C or C++ candidate that nothing requires is a root as well, and       *)
(* root_kind has no artifact for it: unreachable!() ends the process.      *)
ForeignRoots == {c \in Elements(given.candidates) : c.package \in Roots /\ c.ecosystem \notin DOMAIN RootKind}

Panic ==
  /\ stage = "requirements" /\ next > Len(given.requirements)
  /\ ForeignRoots # {}
  /\ Goto("panicked")
  /\ UNCHANGED <<next, obligations, registered, actions>>

RejectUndeclared ==
  /\ stage = "requirements" /\ next > Len(given.requirements)
  /\ ForeignRoots = {}
  /\ Executables = <<>>
  /\ Reject("UnsupportedConstruct")

RegisterRoots ==
  /\ stage = "requirements" /\ next > Len(given.requirements)
  /\ ForeignRoots = {}
  /\ Executables # <<>>
  /\ obligations' =
       LET Of(i)   == given.candidates[i]
           Outs(i) == OutputsOf(Of(i).package, RootKind[Of(i).ecosystem])
       IN InsertAll(obligations,
            Inserted({i \in RootCandidates : Outs(i) # <<>>}, LAMBDA i : Artifact(Outs(i)[1].id),
                     LAMBDA i : Satisfied(AfterLowering(Of(i).package, Selection(Of(i)), obligations))))
  /\ Goto("actions")
  /\ UNCHANGED <<next, registered, actions>>

-----------------------------------------------------------------------------
(* The action chain *)

Action(id, kind, inputs, outputs, discharges, dependsOn) ==
  [id |-> id, kind |-> kind, inputs |-> inputs, outputs |-> outputs,
   discharges |-> discharges, dependsOn |-> dependsOn]

(* All outputs, the first one if there is any, and its artifact.           *)
All(outputs)       == {Output(o.id) : o \in Elements(outputs)}
First(outputs)     == {Output(outputs[i].id) : i \in DOMAIN outputs \cap {1}}
Artifacts(outputs) == IF outputs = <<>> THEN <<>> ELSE <<Artifact(outputs[1].id)>>

(* Cargo, Nimble: one action, if LAMINARIA is to lower the package.        *)
Compile(c, kind, outputKind) ==
  IF c.package \notin DOMAIN given.lowerings THEN <<>>
  ELSE LET outs == OutputsOf(c.package, outputKind) IN
       <<Action(<<kind, c.package>>, kind, {Source(given.lowerings[c.package])},
                First(outs), Artifacts(outs), {})>>

(* C, C++: the objects, then the archive; one object per declared group of *)
(* sources, when a C package declares several and all name their sources.  *)
PerSource(c, objects) ==
  c.ecosystem = "C" /\ Len(objects) > 1 /\ \A o \in Elements(objects) : o.sources # {}

CompileObjects(c, kind, objects) ==
  IF PerSource(c, objects)
  THEN [i \in DOMAIN objects |->
          LET ids == {Source(s) : s \in objects[i].sources} IN
          Action(<<kind, c.package, c.version, objects[i].id>>, kind, ids, {Output(objects[i].id)}, SetToSeq(ids), {})]
  ELSE <<Action(<<kind, c.package, c.version>>, kind, SourcesOf(c), First(objects), <<>>, {})>>

(* Mutant: the archive does not wait for its objects.                      *)
ArchiveAtOnce(c, kind, compiles, objects) ==
  LET outs == OutputsOf(c.package, ArchiveKind[c.ecosystem]) IN
  Action(<<kind, c.package, c.version>>, kind,
         IF c.ecosystem = "C" THEN All(objects) ELSE First(objects),
         First(outs), Artifacts(outs), {})

Archive(c, kind, compiles, objects) ==
  LET outs == OutputsOf(c.package, ArchiveKind[c.ecosystem]) IN
  Action(<<kind, c.package, c.version>>, kind,
         IF c.ecosystem = "C" THEN All(objects) ELSE First(objects),
         First(outs), Artifacts(outs), {a.id : a \in Elements(compiles)})

CompileAndArchive(c, kind, objectKind) ==
  LET objects  == OutputsOf(c.package, objectKind)
      compiles == CompileObjects(c, kind, objects)
  IN Append(compiles, Archive(c, "ArchiveStaticLibrary", compiles, objects))

Chain(c) ==
  CASE c.ecosystem = "Cargo"  -> Compile(c, "CompileRustObject", "RustObject")
    [] c.ecosystem = "Nimble" -> Compile(c, "CompileNimStaticLibrary", "NimStaticLibrary")
    [] c.ecosystem = "C"      -> CompileAndArchive(c, "CompileCObject", "CObject")
    [] c.ecosystem = "Cpp"    -> CompileAndArchive(c, "CompileCppAdapterObject", "CppAdapterObject")

IsSelected(c) ==
  Selection(c) \in DOMAIN obligations /\ obligations[Selection(c)].state = "Selected"

(* required_action of what the actions discharge, if it exists: the last   *)
(* action that does.                                                       *)
Assigned(os, as) ==
  LET Discharging(id) == {k \in DOMAIN as : id \in Elements(as[k].discharges)}
      Latest(id)      == CHOOSE k \in Discharging(id) : \A j \in Discharging(id) : j <= k
  IN [id \in DOMAIN os |-> IF Discharging(id) = {} THEN os[id]
                           ELSE [os[id] EXCEPT !.action = {as[Latest(id)].id}]]

BuildActions ==
  /\ stage = "actions"
  /\ actions' = FlattenSeq([i \in DOMAIN given.candidates |->
                              IF IsSelected(given.candidates[i]) THEN Chain(given.candidates[i]) ELSE <<>>])
  /\ obligations' = Assigned(obligations, actions')
  /\ Goto("closing")
  /\ UNCHANGED <<next, registered>>

Of(os, kind) == {id \in DOMAIN os : KindOf(id) = kind}

Linked(os) == {id[2] : id \in {a \in Of(os, "ArtifactProduction") : os[a].state # "Rejected"}}

(* The link, the runtime preflight and the provenance end the chain.       *)
LinkAndPublish(os, as, exe) ==
  LET waitsFor == {a.id : a \in {b \in Elements(as) :
                     b.kind \in {"CompileRustObject", "CompileNimStaticLibrary", "ArchiveStaticLibrary"}}}
  IN <<Action(<<"link">>, "LinkNativeExecutable", {Output(o) : o \in Linked(os)}, {Output(exe)},
              <<FinalLink, LinkOrder, Artifact(exe)>>, waitsFor),
       Action(<<"preflight">>, "PreflightRuntimeContract", {Output(exe)}, {}, <<Runtime>>, {<<"link">>}),
       Action(<<"publish">>, "PublishProvenance", {Output(exe)}, {<<"provenance", exe>>},
              <<Provenance>>, {<<"preflight">>})>>

(* Their obligations, and the demand above them.                           *)
Closing(os, exe) ==
  LET artifacts == {Artifact(o) : o \in Linked(os)}
      By(dependsOn, action) == Obligation("Satisfied", dependsOn, action)
      ordered  == Insert(os, LinkOrder, By(artifacts, {<<"link">>}))
      linked   == Insert(ordered, FinalLink, By(artifacts \cup {LinkOrder} \cup Of(os, "Symbol"), {<<"link">>}))
      made     == Insert(linked, Artifact(exe), By({FinalLink}, {<<"link">>}))
      runs     == Insert(made, Runtime, By({Artifact(exe)}, {<<"preflight">>}))
      recorded == Insert(runs, Provenance, By({Runtime}, {<<"publish">>}))
  IN Insert(recorded, Demand, Satisfied({Provenance}))

-----------------------------------------------------------------------------
(* verify_plan_integrity: the kinds of violations found *)

(* transitive_action_dependencies; of two actions with one id the last.    *)
Upstream(id, as) ==
  LET Last1(i) == {as[k].dependsOn : k \in {k \in DOMAIN as : /\ as[k].id = i
                                            /\ \A j \in k + 1 .. Len(as) : as[j].id # i}}
  IN Closure(UNION Last1(id), LAMBDA i : UNION Last1(i), Len(as))

Violations(facts, os, as) ==
  LET acts        == Elements(as)
      Produced    == UNION {a.outputs : a \in acts}
      Identities  == {Source(s.id) : s \in facts.sources} \cup {Output(o.id) : o \in Elements(facts.outputs)}
      Executable  == {o.id : o \in {x \in Elements(facts.outputs) : x.kind = "NativeExecutable"}}
      found ==
        [DanglingObligationEdge |-> \E id \in DOMAIN os : ~(os[id].dependsOn \subseteq DOMAIN os),
         DuplicateProducer |-> \E i, j \in DOMAIN as : i # j /\ as[i].outputs \cap as[j].outputs # {},
         UnknownInputOrOutput |->
           \E a \in acts : ~(a.inputs \cup a.outputs \subseteq Identities \cup Produced),
         UnknownDischargeTarget |-> \E a \in acts : ~(Elements(a.discharges) \subseteq DOMAIN os),
         DischargeKindMismatch |->
           \E a \in acts : \E id \in Elements(a.discharges) \cap DOMAIN os :
             KindOf(id) \notin Dischargeable[a.kind],
         DanglingActionDependency |-> \E a \in acts : ~(a.dependsOn \subseteq {b.id : b \in acts}),
         ProducerConsumerOrder |->
           \E a, b \in acts : /\ a.inputs \cap b.outputs # {} /\ a.id # b.id
                              /\ b.id \notin Upstream(a.id, as),
         ActionDependencyCycle |-> \E a \in acts : a.id \in Upstream(a.id, as),
         FinalLinkInputMismatch |->
           \E a \in acts : /\ a.kind = "LinkNativeExecutable"
                           /\ a.inputs # {Output(o) : o \in Linked(os) \ Executable}]
  IN {v \in DOMAIN found : found[v]}

(* resolve returns, and its plan is verified.                              *)
Close ==
  /\ stage = "closing"
  /\ LET exe == Executables[1].id
         os  == Closing(obligations, exe)
         as  == actions \o LinkAndPublish(obligations, actions, exe)
     IN Return(Result("accepted", os, as, Violations(given, os, as)))

Resolve ==
  \/ Register
  \/ RejectRoots \/ SelectRoots
  \/ RejectRequirement \/ SelectProvider
  \/ Panic \/ RejectUndeclared \/ RegisterRoots
  \/ BuildActions \/ Close

=============================================================================
