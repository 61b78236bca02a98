----------------------------- MODULE RustDemand -----------------------------
(***************************************************************************)
(* From Rust sources to the objects one artifact needs, and no others:     *)
(* packages and generic instances are planned from what the sources demand *)
(* (crates/laminaria-plan/src/rust_cross_layer.rs), the planned instances  *)
(* are lowered and compiled                                                *)
(* (crates/laminaria-run/src/rust_generic_semantic_bridge.rs).  The plan   *)
(* is also tried out with Cargo, against a build of everything             *)
(* (crates/laminaria-experiment/src/rust_cross_layer_baseline.rs).         *)
(*                                                                         *)
(* What sources demand, the crates they name and the generic functions     *)
(* they call, is found by walks over the syntax                            *)
(* (crates/laminaria-ir/src/rust_dependency_discover.rs,                   *)
(* rust_generic_demand.rs).                                                *)
(* A file is the sequence of what a walk meets: uses, functions, lets,     *)
(* macros and calls, with nested ones after what they are in.  "test" says *)
(* that a site is in a #[cfg(test)] module, "macro" that a call is in the  *)
(* arguments of a macro.  A type is <<"i64">> or <<"Vec", "i64">>; a slice *)
(* or an array is <<"[]", "i64">>; None stands for no annotation.          *)
(***************************************************************************)
EXTENDS GenericFolds, FiniteSets

CONSTANTS None,
          CrateOf,   \* what sources call a package: `-` becomes `_`
          ByName     \* the packages in the order of their names

CONSTANTS RustWorkspaces,  \* [entry, lock, manifests, files]
          Fixtures,        \* those that the baseline is run on
          Slices,          \* what the objects are tried with, by scalar
          MaxBuilds        \* bound on the builds of each scenario

-----------------------------------------------------------------------------
(* Demand *)

Builtin == {"crate", "self", "super", "std", "core", "alloc"}

Sites(file, site) == SelectSeq(file, LAMBDA s : s.site = site)
Qualified(path)   == Len(path) >= 2

-----------------------------------------------------------------------------
(* rust_dependency_discover.rs                                             *)

Uses(file)          == {u \in Range(Sites(file, "use")) : u.path[1] \notin Builtin}
ImportedNames(file) == {IF u.as # None THEN u.as ELSE Last(u.path) : u \in Uses(file)} \ {"*"}

(* discover_external_crate_references: calls in macros are not looked at.  *)
References(file) ==
  {u.path[1] : u \in Uses(file)}
  \cup {c.path[1] : c \in {c \in Range(Sites(file, "call")) :
          ~c.macro /\ Qualified(c.path) /\ c.path[1] \notin Builtin \cup ImportedNames(file)}}

-----------------------------------------------------------------------------
(* rust_generic_demand.rs                                                  *)

GenericFunctions(file) == {f \in Range(Sites(file, "fn")) : f.generics # <<>>}

(* discover_generic_functions                                              *)
FunctionsReadable(file)   == \A f \in GenericFunctions(file) : f.generics = <<"type">>
GenericNames(package, file) == {[package |-> package, name |-> f.name] : f \in GenericFunctions(file)}

(* imported_functions: the first name is the provider and, of three names  *)
(* or more, the last is the local one and the one before it the function.  *)
Imports(file) ==
  LET full(u) == IF u.as # None THEN Append(u.path, u.as) ELSE u.path
      uses    == SelectSeq(Sites(file, "use"), LAMBDA u :
                   u.top /\ Last(u.path) # "*" /\ Len(full(u)) >= 2 /\ u.path[1] \notin Builtin)
      path(n) == full(uses[n])
  IN  [local \in {Last(path(n)) : n \in DOMAIN uses} |->
         LET n == CHOOSE n \in DOMAIN uses : /\ Last(path(n)) = local
                                             /\ \A m \in DOMAIN uses : Last(path(m)) = local => m <= n
         IN  <<path(n)[1], IF Len(path(n)) >= 3 THEN path(n)[Len(path(n)) - 1] ELSE path(n)[2]>>]

(* resolve_call with known_function: the functions a call may mean.        *)
Resolved(known, owner, file, path) ==
  LET name == IF Qualified(path) THEN <<path[1], Last(path)>>
              ELSE IF path[1] \in DOMAIN Imports(file) THEN Imports(file)[path[1]]
              ELSE <<CrateOf[owner], path[1]>>
  IN  {f \in known : f.name = name[2] /\ name[1] \in {f.package, CrateOf[f.package]}}

Place(package)   == CHOOSE n \in DOMAIN ByName : ByName[n] = package
First(functions) == CHOOSE f \in functions : \A g \in functions : Place(f.package) <= Place(g.package)

(* generic_type_argument, or the type itself.                              *)
TypeArgument(type) == IF type[1] = "Vec" THEN Tail(type) ELSE type

Fresh == [types |-> <<>>, twice |-> {}, instances |-> {}, failed |-> FALSE]

(* Mutant: the first declaration of a name counts for the whole file.      *)
RecordFirst(s, let) ==
  [s EXCEPT !.types = [n \in DOMAIN @ \cup {let.name} |-> IF n \in DOMAIN @ THEN @[n] ELSE let.type]]

(* record_local: a name that is declared twice in a file is not guessed.   *)
RecordLocal(s, let) ==
  [s EXCEPT !.twice = IF let.name \in DOMAIN s.types THEN @ \cup {let.name} ELSE @,
            !.types = [n \in DOMAIN @ \cup {let.name} |-> IF n = let.name THEN let.type ELSE @[n]]]

(* inferred_argument; the suffix of a literal is None when it has none.    *)
Inferred(s, arg) ==
  CASE arg.form = "local" ->
         IF arg.name \in DOMAIN s.types \ s.twice /\ s.types[arg.name] # None
         THEN {TypeArgument(s.types[arg.name])} ELSE {}
    [] arg.form = "ints" ->
         LET suffixes == {IF x = None THEN "i32" ELSE x : x \in Range(arg.suffixes)}
         IN  IF Cardinality(suffixes) = 1 THEN {<<x>> : x \in suffixes} ELSE {}
    [] arg.form = "cast" -> {arg.type}
    [] OTHER -> {}

(* visit_expr_call                                                         *)
VisitCall(s, call, callees) ==
  LET types == IF Len(call.explicit) = 1 THEN {call.explicit[1]}
               ELSE IF call.explicit = <<>> THEN Inferred(s, call.arg) ELSE {}
  IN  IF callees = {} \/ s.failed THEN s
      ELSE IF types = {} THEN [s EXCEPT !.failed = TRUE]
      ELSE LET f == First(callees)
           IN  [s EXCEPT !.instances = @ \cup {[package |-> f.package, function |-> f.name, types |-> t] : t \in types}]

Inspected == {"assert", "assert_eq", "assert_ne", "debug_assert", "debug_assert_eq", "debug_assert_ne",
              "format", "format_args", "print", "println", "eprint", "eprintln", "vec"}

(* visit_macro                                                             *)
VisitMacro(s, m) == IF m.name \in Inspected /\ m.parses THEN s ELSE [s EXCEPT !.failed = TRUE]

(* discover_generic_instances                                              *)
Instances(owner, file, known, includeTests) ==
  LET visit(s, x) == CASE x.site = "let"   -> RecordLocal(s, x)
                       [] x.site = "call"  -> VisitCall(s, x, Resolved(known, owner, file, x.path))
                       [] x.site = "macro" -> VisitMacro(s, x)
                       [] OTHER -> s
  IN  FoldLeft(visit, Fresh, SelectSeq(file, LAMBDA x : includeTests \/ ~x.test))

-----------------------------------------------------------------------------
VARIABLES
  crates,      \* the workspace: its entry, Cargo.lock, manifests and files
  phase,       \* "asked", "known", "demanded", "planned", "lowered", "compiled"; "measured"; "rejected"
  known,       \* the generic functions of the workspace
  requested, eager,
  plan,        \* the packages selected and pruned
  mode,        \* "feedback" when only what was requested is compiled
  folds, objects,   \* what was lowered and what was compiled
  targets,     \* what is in the target directory of each scenario
  builds       \* the Runs of each scenario that count

measured   == <<targets, builds>>
demandVars == <<crates, phase, known, requested, eager, plan, mode, folds, objects, measured>>

-----------------------------------------------------------------------------
(* Planning *)

(* declared_dependencies: the names in [dependencies] and no other section *)
Declared(w) == {d.name : d \in {e \in w.manifests[w.entry] : e.section = "dependencies"}}

Providers(w, reference) == {p \in w.lock \cap Declared(w) : CrateOf[p] = reference}

(* plan_rust_cross_layer *)
PackagesPlannable(w) ==
  /\ w.entry \in w.lock
  /\ \A r \in References(w.files[w.entry]) : Cardinality(Providers(w, r)) = 1
Selected(w) == {w.entry} \cup UNION {Providers(w, r) : r \in References(w.files[w.entry])}

GenericStages == {"semantic analysis", "lower to ir", "monomorphize", "codegen", "symbol liveness"}
GenericWork(instances) == instances \X GenericStages

(* plan_rust_generic_work, and the providers that                          *)
(* plan_rust_artifact_feedback asks for.                                   *)
GenericPlannable   == requested \subseteq eager
ProvidersPlannable == /\ \A i \in eager : i.package \in crates.lock
                      /\ \A i \in requested : i.package \in Selected(crates)

-----------------------------------------------------------------------------
DemandInit ==
  /\ crates \in RustWorkspaces
  /\ phase = "asked" /\ known = {} /\ requested = {} /\ eager = {} /\ mode = None
  /\ plan = [selected |-> {}, pruned |-> {}]
  /\ folds = <<>> /\ objects = <<>>
  /\ targets = [eager |-> {}, feedback |-> {}] /\ builds = [eager |-> <<>>, feedback |-> <<>>]

Unplanned == UNCHANGED <<plan, mode, folds, objects, measured>>
Reject    == phase' = "rejected" /\ UNCHANGED <<crates, known, requested, eager>> /\ Unplanned

Members == DOMAIN crates.files

FindFunctions ==
  /\ phase = "asked"
  /\ \/ /\ \A p \in Members : FunctionsReadable(crates.files[p])
        /\ known' = UNION {GenericNames(p, crates.files[p]) : p \in Members}
        /\ phase' = "known" /\ UNCHANGED <<crates, requested, eager>> /\ Unplanned
     \/ (\E p \in Members : ~FunctionsReadable(crates.files[p])) /\ Reject

(* What the entry requests, and what the sources of an inventory demand    *)
(* with their tests.                                                       *)
FindInstances(inventory) ==
  LET entry    == Instances(crates.entry, crates.files[crates.entry], known, FALSE)
      tests(p) == Instances(p, crates.files[p], known, TRUE)
  IN  /\ phase = "known"
      /\ \/ /\ ~entry.failed /\ \A p \in inventory : ~tests(p).failed
            /\ requested' = entry.instances
            /\ eager' = UNION {tests(p).instances : p \in inventory}
            /\ phase' = "demanded" /\ UNCHANGED <<crates, known>> /\ Unplanned
         \/ (entry.failed \/ \E p \in inventory : tests(p).failed) /\ Reject

(* plan_rust_artifact_feedback *)
PlanFeedback ==
  /\ phase = "demanded"
  /\ \/ /\ PackagesPlannable(crates) /\ GenericPlannable /\ ProvidersPlannable
        /\ plan' = [selected |-> Selected(crates), pruned |-> crates.lock \ Selected(crates)]
        /\ phase' = "planned"
        /\ UNCHANGED <<crates, known, requested, eager, mode, folds, objects, measured>>
     \/ ~(PackagesPlannable(crates) /\ GenericPlannable /\ ProvidersPlannable) /\ Reject

InstancesOf(stage, how) ==
  {w[1] : w \in {x \in GenericWork(IF how = "feedback" THEN requested ELSE eager) : x[2] = stage}}

(* lower_selected_generic_folds, from the sources the caller has: one that *)
(* cannot be lowered rejects all.                                          *)
LowerFolds(how, overflow, sources) ==
  LET instances == InstancesOf("lower to ir", how)
      ir(i)     == LowerGenericFold(crates.files[i.package], i, overflow)
  IN  /\ phase = "planned"
      /\ \/ /\ \A i \in instances : i.package \in sources /\ ir(i) # {}
            /\ folds' = [i \in instances |-> CHOOSE x \in ir(i) : TRUE]
            /\ phase' = "lowered" /\ mode' = how
         \/ /\ \E i \in instances : i.package \notin sources \/ ir(i) = {}
            /\ phase' = "rejected" /\ UNCHANGED <<mode, folds>>
      /\ UNCHANGED <<crates, known, requested, eager, plan, objects, measured>>

Consistent(i) ==
  /\ i \in DOMAIN folds
  /\ folds[i].package = i.package /\ folds[i].function = i.function /\ <<folds[i].scalar>> = i.types

Object(target, i) ==
  [symbol |-> <<i.package, i.function, i.types[1]>>, target |-> target, scalar |-> folds[i].scalar,
   code |-> IF target = "x86_64" THEN CodeX86(folds[i]) ELSE CodeAArch64(folds[i])]

(* generate_selected_generic_fold_objects: what was lowered may be for     *)
(* more than is asked for, not for less.                                   *)
GenerateFolds(how, target) ==
  LET instances == InstancesOf("codegen", how)
  IN  /\ phase = "lowered"
      /\ \/ /\ \A i \in instances : Consistent(i)
            /\ objects' = [i \in instances |-> Object(target, i)]
            /\ phase' = "compiled" /\ mode' = how
         \/ /\ \E i \in instances : ~Consistent(i)
            /\ phase' = "rejected" /\ UNCHANGED <<mode, objects>>
      /\ UNCHANGED <<crates, known, requested, eager, plan, folds, measured>>

-----------------------------------------------------------------------------
(* The baseline: `cargo build --workspace` against `-p` for each selected. *)

(* compute_plan *)
ComputePlan ==
  /\ phase = "asked" /\ crates \in Fixtures
  /\ IF PackagesPlannable(crates)
     THEN /\ plan' = [selected |-> Selected(crates), pruned |-> crates.lock \ Selected(crates)]
          /\ phase' = "measured"
     ELSE phase' = "rejected" /\ UNCHANGED plan
  /\ UNCHANGED <<crates, known, requested, eager, mode, folds, objects, measured>>

(* Cargo compiles what it is asked for and what that depends on.           *)
DependsOn(p) == {d.name : d \in {e \in crates.manifests[p] : e.section = "dependencies"}}
Needs(packages) ==
  LET after[n \in 0..Cardinality(Members)] ==
        IF n = 0 THEN packages ELSE after[n - 1] \cup UNION {DependsOn(p) : p \in after[n - 1]}
  IN  after[Cardinality(Members)]

(* Mutant: what `prepare` removes is not the scenario's own directory.     *)
RemovedOther(scenario) == "eager"

(* cargo_scenario: the target directory that `prepare` removes, ...        *)
Removed(scenario) == scenario
(* ... and what Cargo is told to build.                                    *)
Told(scenario) == IF scenario = "eager" THEN Members ELSE plan.selected

(* extract_compiled_package_names: none when the telemetry is missing, and *)
(* not those of a message that is not understood.                          *)
Extracted(compiled) == SUBSET compiled

(* A build compiles what is not in its target directory, or fails after a  *)
(* part of that.  A warm-up does not count.                                *)
Build(scenario, counts) ==
  LET there == [targets EXCEPT ![Removed(scenario)] = {}]
      todo  == Needs(Told(scenario)) \ there[scenario]
  IN  /\ phase = "measured"
      /\ \E success \in BOOLEAN, compiled \in SUBSET todo :
           /\ success => compiled = todo
           /\ targets' = [there EXCEPT ![scenario] = @ \cup compiled]
           /\ IF counts
              THEN /\ Len(builds[scenario]) < MaxBuilds
                   /\ \E named \in Extracted(compiled) :
                        builds' = [builds EXCEPT ![scenario] =
                          Append(@, [success |-> success, compiled |-> compiled, named |-> named])]
              ELSE targets[scenario] = {} /\ UNCHANGED builds
      /\ UNCHANGED <<crates, phase, known, requested, eager, plan, mode, folds, objects>>

(* build_report, feedback_pruning_is_supported_by_raw_evidence             *)
EagerCompiledPruned   == \E r \in Range(builds.eager) : r.named \cap plan.pruned # {}
FeedbackLeftPrunedOut == \A r \in Range(builds.feedback) : r.named \cap plan.pruned = {}
PruningSupported == plan.pruned # {} /\ EagerCompiledPruned /\ FeedbackLeftPrunedOut

-----------------------------------------------------------------------------
DemandNext ==
  \/ FindFunctions \/ PlanFeedback \/ ComputePlan
  \/ \E inventory \in SUBSET Members : FindInstances(inventory)
  \/ \E how \in {"eager", "feedback"}, overflow \in {"checked", "wrapping"}, sources \in {Members, {}} :
        LowerFolds(how, overflow, sources)
  \/ \E how \in {"eager", "feedback"}, target \in {"x86_64", "aarch64"} : GenerateFolds(how, target)
  \/ \E scenario \in {"eager", "feedback"}, counts \in BOOLEAN : Build(scenario, counts)

DemandSpec == DemandInit /\ [][DemandNext]_demandVars

-----------------------------------------------------------------------------
(* What Rust says *)

(* The function that a call is to, by its package and name.                *)
Meant(path) ==
  LET p    == crates.entry
      file == crates.files[p]
      uses == {u \in Range(Sites(file, "use")) : path[1] \in {u.as, Last(u.path)} /\ u.as \in {None, path[1]}}
      from == IF ~Qualified(path) /\ uses # {} THEN (CHOOSE u \in uses : TRUE).path
              ELSE IF Qualified(path) THEN path ELSE <<"crate", path[1]>>
      home == IF from[1] \in {"crate", "self"} THEN {p} ELSE {q \in Declared(crates) : CrateOf[q] = from[1]}
  IN  {[package |-> q, name |-> Last(from)] : q \in home} \cap
      UNION {GenericNames(q, crates.files[q]) : q \in Members}

(* The function a site is in, and the type of a name at that site.         *)
Around(file, n) == CHOOSE m \in 1..n : /\ file[m].site = "fn"
                                       /\ \A k \in (m + 1)..n : file[k].site # "fn"
TypeOf(file, n, name) ==
  LET lets == {m \in Around(file, n)..n : file[m].site = "let" /\ file[m].name = name}
  IN  IF lets # {} THEN file[CHOOSE m \in lets : \A k \in lets : k <= m].type
      ELSE file[Around(file, n)].params[name]

ElementType(file, n) ==
  LET arg == file[n].arg
  IN  IF file[n].explicit # <<>> THEN file[n].explicit[1]
      ELSE CASE arg.form = "local" -> Tail(TypeOf(file, n, arg.name))
             [] arg.form = "ints"  -> LET named == Range(arg.suffixes) \ {None}
                                      IN  IF named = {} THEN <<"i32">> ELSE <<CHOOSE x \in named : TRUE>>
             [] arg.form = "cast"  -> Tail(arg.type)

Demanded ==
  LET file == crates.files[crates.entry]
  IN  UNION {{[package |-> f.package, function |-> f.name, types |-> ElementType(file, n)] :
                f \in Meant(file[n].path)} :
             n \in {m \in DOMAIN file : file[m].site = "call" /\ ~file[m].test}}

Sum(fn, scalar, overflow, items) ==
  LET value(term, acc, element) == IF term = "acc" THEN acc ELSE element
      add(acc, element) ==
        IF acc = <<>> THEN <<>>
        ELSE LET total == value(fn.body.left, acc[1], element) + value(fn.body.right, acc[1], element)
             IN  IF overflow = "checked" /\ ~InRange(scalar, total) THEN <<>> ELSE <<Wrapped(scalar, total)>>
  IN  FoldLeft(add, <<0>>, items)

FunctionOf(i) == CHOOSE f \in Range(crates.files[i.package]) : f.site = "fn" /\ f.name = i.function

(* Sources whose generic functions are called by their names or through    *)
(* the crate that has them, and whose parameters and locals have names of  *)
(* their own.                                                              *)
Direct ==
  LET file == crates.files[crates.entry]
  IN  /\ \A n \in DOMAIN file : file[n].site = "call" => file[n].path[1] \notin {"crate", "self"}
      /\ \A u \in Range(Sites(file, "use")) : Len(u.path) = 2 /\ Last(u.path) # "*"
      /\ \A f \in Range(Sites(file, "fn")), l \in Range(Sites(file, "let")) : l.name \notin DOMAIN f.params

-----------------------------------------------------------------------------
(* Properties *)

(* The objects of a request are one for each function and element type     *)
(* that the entry's source really calls, none under the name of another,   *)
(* from packages that are built; and each computes, for every slice and on *)
(* both targets, what its source says, overflow included.  Objects for an  *)
(* inventory hold those of the request.                                    *)
ObjectsMeetDemand ==
  phase = "compiled" /\ Direct =>
    /\ Demanded \subseteq DOMAIN objects
    /\ mode = "feedback" => DOMAIN objects = Demanded
    /\ \A i \in Demanded : i.package \in plan.selected
    /\ \A i, j \in DOMAIN objects : objects[i].symbol = objects[j].symbol => i = j
    /\ \A i \in DOMAIN objects : \A items \in Slices[objects[i].scalar] :
         LET o == objects[i]
         IN  Execute(o.target, o.code, o.scalar, items)
               = Sum(FunctionOf(i), i.types[1], folds[i].overflow, items)

(* Where the evidence supports the pruning, and the telemetry of one       *)
(* feedback build that went well was read in full, no selected package     *)
(* needs a pruned one, however often either scenario was built before and  *)
(* whatever was lost of the other builds.                                  *)
SupportIsSound ==
  /\ PruningSupported
  /\ \E r \in Range(builds.feedback) : r.success /\ r.named = r.compiled
  => Needs(plan.selected) \cap plan.pruned = {}
=============================================================================
