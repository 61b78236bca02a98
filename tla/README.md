# A verification development for LAMINARIA

LAMINARIA plans and runs compiler work. Rust crates describe *actions* and the
*artifacts* they produce and consume, a planning kernel written in Nim orders
them, and Rust executors run them on threads and record what was produced. It
also carries out part of that work itself: it resolves the dependencies of a build
across Cargo, Nimble, C and C++, lowers small functions to a representation of its own
and generates code for them. The parts whose correctness lies in the order of
things (schedulers, thread pools, sessions, lifecycles, publication on disk) and
those whose correctness lies in two programs meaning the same (planner and
validator, sources and objects) are modelled here in TLA+, model-checked with TLC
on small instances, and, where it matters most, proved with TLAPS for every instance.

Paths below are relative to the repository.

- [1 Inventory](#1-inventory)
- [2 Modules](#2-modules)
- [3 How the modules correspond to the code](#3-how-the-modules-correspond-to-the-code)
- [4 Runs, bounds, and what they show](#4-runs-bounds-and-what-they-show)
- [5 Fairness](#5-fairness)
- [6 Proofs](#6-proofs)
- [7 Where code and documentation disagree](#7-where-code-and-documentation-disagree)
- [8 Not modelled, and why](#8-not-modelled-and-why)
- [9 Plan](#9-plan)

## 1 Inventory

Every component is listed in `PROJECT.json` with its source files. Those with
logic of their own that state, order or failure can break:

### Resource scheduler and commit store
`crates/laminaria-run/src/resource_scheduler.rs`

- **State.** `ResourceScheduler`: one `PhysicalWorkInstance` per work unit with
  its dependencies, reservation, lifecycle state and wait reason; the amounts
  `allocated` out of the budget. `CommitStore`: batches staged per writer, the
  committed targets with content and first writer, targets per writer.
- **Operations.** `new`, `admit_ready`, `stage_outputs`, `commit`, `fail`,
  `cancel`, and `execute_physical_work_graph`, the driver that calls them.
- **Interaction.** The driver is the only caller and is single-threaded; it
  calls a computation back between admission and staging. The computation
  decides outputs, failure and hence the order of everything else.
- **Hard.** A failure meets a consumer along several paths; reservations are
  released from two states; two writers stage the same target before either
  commits; a refused batch must leave nothing; a round that admits nothing
  while instances are alive would be a stall.
- **Correct when** the ledger is exact, nothing runs before its producers are
  committed, what was staged can be committed, publication is whole and
  permanent, nothing downstream of a failure survives, and the driver always
  returns with a report that accounts for every instance.

### Compiler-work executor
`crates/laminaria-run/src/compiler_work_executor.rs`, plan types in
`crates/laminaria-plan/src/compiler_work.rs`

- **State.** `PoolState` under one mutex (ready queue, remaining producers,
  dependents, resolved, successful, errors, outstanding), a Condvar, and
  `ArtifactStore` with one map per kind of artifact behind its own lock.
- **Operations.** Each worker pops, exits or waits; dispatches outside the lock;
  resolves a success or a failure under the lock and notifies after it. At the
  end the caller takes the first error, or makes a receipt.
- **Interaction.** Plan validation guards the pool; the store may already hold
  artifacts of an earlier execution; a receipt is checked by a later consumer.
- **Hard.** Notify after unlock; failure poisons dependents that another worker
  is about to make ready; a duplicated input; which error is returned.
- **Names.** The id of an action is a hash of its descriptor; it is the key of the
  store, which outlives plans and edits of the sources.
- **Correct when** each action is run once, after its producers; no worker sleeps for
  good; the outcome is a function of the plan; a receipt vouches only for what this
  execution did; an id never comes to mean another result.

### Incremental planner session
`nim-planner/src/incremental_kernel.nim`, `incremental_contract.nim`,
`laminaria_incremental_planner.nim`

- **State.** A process that keeps a session: action records with a lifecycle
  state, reference count and superseder; the producer of every artifact; event
  ids seen; planning generation; last command index.
- **Operations.** `startSession`, `applyDelta` with five events (dependencies
  discovered, producer completed, producer failed, demand requested, demand
  cancelled), `closeSession`, and an envelope check before each.
- **Interaction.** Line-delimited JSON, one answer to each command.
- **Hard.** The graph grows while its actions run; events are repeated, late or
  stale; supersession carries demand over; rejection must leave no trace.
- **Correct when** an action is ready exactly when all it reads is complete, no
  completion is lost and none wakes the wrong consumer, failure reaches exactly
  the undecided consumers, states only advance, demand is neither lost nor
  invented, and the live graph is acyclic.

### Incremental executor and its session client
`crates/laminaria-run/src/incremental_executor.rs`,
`incremental_session_client.rs`, `crates/laminaria-plan/src/incremental.rs`

- **State.** `WorkerPoolState` (queue, done) under a mutex with a Condvar, an
  mpsc channel of reports, an artifact store, and in the supervisor
  `known_actions` and `outstanding`.
- **Operations.** `run_to_completion`: workers take, dispatch and report; the
  supervisor turns a report into session events, pushes what became ready, and
  announces discoveries.
- **Interaction.** Composition of the pool and the session; the supervisor's
  calls to the session are synchronous.
- **Hard.** Three copies of the truth (session graph, artifact store, queue
  with its count) updated at different moments; termination when the count
  reaches zero; an error in the supervisor while workers sleep.
- **Correct when** the three agree, and the run returns whatever the schedule,
  with an outcome the schedule does not decide.

### Obligation lifecycle
`crates/laminaria-plan/src/obligation_lifecycle.rs`, tables in
`crates/laminaria-plan/src/dependency_graph.rs`

- **State.** A resolved graph; per obligation a status, a required action and a
  history of transitions; the records (resolutions, operations, contracts,
  irrelevance proofs), each with a sequence number.
- **Operations.** Record a resolution, an operation, an operation with a
  runtime contract; externalize a runtime obligation; prove one irrelevant;
  and the gate, `publication_manifest`.
- **Hard.** Records may fail half-way, in any order, with any sequence number.
- **Correct when** the gate opens for a whole run and for nothing else.

### Planning kernel and plan validation
`nim-planner/src/planning_kernel.nim`, `crates/laminaria-plan/src/validate.rs`,
`nim_planner_client.rs`

- **State.** None that lasts: tables of producers, of the demanded closure and of
  Kahn's counters, and the plan in the making.
- **Operations.** `plan`, from a list of actions and demands to an ordered plan or
  a rejection with its kind; `validate`, which trusts nothing of the answer.
- **Hard.** Tables without an order; duplicates in lists; the two languages
  agree on what a valid input is; an answer that was damaged on its way.
- **Correct when** what is refused could not be ordered, the order is canonical, and
  whatever the validator accepts can be run.

### Physical work contract
`crates/laminaria-plan/src/physical_work.rs`: which units of physical work exist, what
they read and make, the check of the contract, the bridge into the planner and
back. Correct when work passes through the planner unchanged and what comes
back can be scheduled.

### Ecosystem ingestion and dependency resolution
`crates/laminaria-run/src/cross_ecosystem_ingest.rs`,
`crates/laminaria-plan/src/dependency_graph.rs`, `plan_integrity.rs`, the readers
`*_discover.rs` of `crates/laminaria-ir`

- **State.** The facts ingested so far; the obligations, actions and rejections in
  the making, maps in which a later stage replaces what an earlier one put.
- **Operations.** Ingestion reads files in a fixed order and stops at the
  first it cannot use; `resolve` goes through its stages; the
  demand-driven variant prunes the facts first; the production driver records every
  action of the graph, in order, into the obligation lifecycle.
- **Hard.** Several requirements on one package; a stage that overwrites; a
  rejection that comes too late; what is left out because nothing demands it.
- **Correct when** what is published meets every requirement of the sources,
  complete facts always publish, and pruning changes nothing.

### Fixed production graph and its consumer
`crates/laminaria-run/src/g2_execute.rs`, `exact_artifact_harness.rs`

- **State.** One output directory: archives, the executable, provenance, manifest,
  staged files.
- **Operations.** Build in place, tool after tool; verify; stage provenance
  and manifest; the gate; two renames. The consumer reads manifest, executable
  and runtime at three different moments and runs what it found.
- **Hard.** A failure or a kill between any two steps; a tool that survives
  its driver; a rerun over what is left; edits; the consumer reading in between.
- **Correct when** a consumer never accepts a mixture of two runs, nothing is
  published that has not run as expected, and running again restores consistency.

### Generation drivers and run store
`crates/laminaria-run/src/self_build.rs`, `project_build.rs`, `lib.rs`, `store.rs`:
plan, verify toolchains, clear the staging area, run every action as a
recorded Run, put binaries together. Correct when a success delivers what it built
from the sources it started with and its records say what happened, also after a
failed write or a kill.

### Measurement and reuse
`crates/laminaria-run/src/scenario.rs`, `artifact_inventory.rs`, `reuse.rs`,
`crates/laminaria-fingerprint`: scenarios prepare the state their label promises, record a
build, and reports are compared. Correct when labels are true, a verdict compares
the same work, and equal identities stand for equal outputs.

### Compiler IR
`crates/laminaria-ir`: two front ends, a validator, an interpreter, two inlining
transforms, two code generators. Pure functions over trees; hard because
names hide each other, transforms move and copy expressions, and two targets
must agree. Correct when meaning is kept all the way.

### Rust demand
`crates/laminaria-plan/src/rust_cross_layer.rs`,
`crates/laminaria-ir/src/rust_generic_demand.rs`, `rust_dependency_discover.rs`, `rust_generic_fold.rs`,
`crates/laminaria-run/src/rust_generic_semantic_bridge.rs`,
`crates/laminaria-experiment/src/rust_cross_layer_baseline.rs`: find the generic
instances one artifact needs, plan and compile those and no others. Correct when
what is compiled is what the sources call, and the evidence for leaving the rest out
is sound.

### Fixture semantics and entry specialization
`rust_prime_semantics.rs`, `rust_point_semantics.rs`, `rust_cluster_semantics.rs`,
`rust_fixture_main_semantics.rs`, `native_aarch64_entry.rs`,
`rust_entry_semantic_bridge.rs`: a whole program without input is recognised,
computed and linked as what it prints. Correct when every source that is accepted
prints what Rust would have it print.

### The rest
Name scanners, experiments, command line, scripts and fixtures: section 8.

## 2 Modules

| Module | Extends / instantiates | Models |
| --- | --- | --- |
| `GraphExecution` | | *abstract:* an item finishes after what it depends on, or is given up with all that depends on it |
| `GraphPublication` | `GraphExecution` | *abstract:* and finishing publishes a whole batch, for good |
| `CommitStore` | | staging, commit and discard of write sets |
| `ResourceScheduler` | `CommitStore`; refines `GraphPublication` | admission, staging, commit, failure, cancellation |
| `PhysicalWorkGraph` | `ResourceScheduler` | the driver loop and its report |
| `CompilerWorkPool` | refines `GraphExecution` | the worker pool, artifact store and receipt |
| `WorkIdentity` | | the ids of actions and the store they key, over edits |
| `IncrementalSession` | | the planner's session and its handlers |
| `MCIncrementalClient` | `IncrementalSession` | the session under an arbitrary client, and constants for TLC |
| `IncrementalExecutor` | `IncrementalSession`; refines `GraphExecution` | supervisor, workers and store, composed with the session |
| `PlanContract` | | actions and plans as they cross the pipe, and `validate` |
| `PlanningKernel` | `PlanContract` | the kernel, step by step, and an answer that may be damaged |
| `PhysicalPlanning` | `PlanningKernel` | the contract of physical work, its check, and the way through the planner and back |
| `GenerationBuild` | `PlanContract` | generations of builds and their recorded Runs |
| `FixedGraphPublication` | | the production run over one directory and its consumer |
| `DischargeRules` | | kinds of obligations and actions, and which may discharge which |
| `ObligationLifecycle` | `DischargeRules` | records, their effects, the gate |
| `DependencyResolution` | `DischargeRules` | `resolve`, the demand-driven pruning, the integrity check |
| `EcosystemIngestion` | `DependencyResolution` | the facts, file by file |
| `ResolvedProduction` | `EcosystemIngestion`; an instance of `ObligationLifecycle` | ingestion, resolution, the driver's records and the gate; and other callers in any order |
| `Measurement` | | scenarios, recorded Runs, comparison, reuse |
| `OwnedIR` | | the representation, its validator and interpreter |
| `SourceLowering` | `OwnedIR` | both front ends and the meaning of the sources |
| `CodeGeneration` | `OwnedIR` | WebAssembly and AArch64 code and the machines it runs on |
| `Compilation` | the three above | both transforms, and the operations composed |
| `GenericFolds` | | the generic fold, its lowering and its objects |
| `RustDemand` | `GenericFolds` | demand in sources, the plan of packages and instances, the baseline |
| `InstantiationWorklist` | | the worklist of instances |
| `FixtureSemantics` | | the recognisers of the whole program and its evaluation |
| `EntrySpecialization` | `FixtureSemantics`, instance of `GenericFolds` | specialization and the entry object |
| `ResourceSchedulerProofs` | `PhysicalWorkGraph` | proofs: lifecycle and propagation; staging, publication, refinement, the ledger; the driver and its report |
| `CompilerWorkProofs` | `CompilerWorkPool`, `InstantiationWorklist` | proofs: outcome, receipt and refinement of the pool; what the worklist plans is needed |
| `IncrementalProofs` | `IncrementalExecutor` | proofs: the session under any client; outcome and refinement of the executor |
| `PlanningProofs` | `PhysicalPlanning` | proofs: accepted plans run, the order is canonical, the kernel refuses exactly what has no order, physical work survives |
| `ResolvedProductionProofs` | `ResolvedProduction` | proofs: the gate is honest, whoever records; what is published meets files and facts; pruning changes nothing |
| `PublicationProofs` | `ResolvedProductionProofs`, `FixedGraphPublication` | proofs: complete facts are published; what is published, also after faults |
| `GenerationBuildProofs` | `GenerationBuild` | proofs: what a generation delivers and records |
| `MeasurementProofs` | `Measurement` | proofs: labels, verdicts and reuse |
| other `MC*` | the module they are named after | constants for TLC, and the specifications that run several systems in one model |

The three executors of the program are held to one promise, `GraphExecution`, in
which there are no threads, resources, counts or sessions. The two producers of plans
(the kernel, the physical bridge) are held to one validator; the two code generators
to one interpreter; the two ways to resolve to one gate.

Three runs put several systems side by side in one state space (`MCCompilation`:
compilation, Rust demand, the worklist, the entry; `MCCompilerWorkPool`: pool and
names; `MCPlanning`: kernel and bridge). `Init` chooses which system a behaviour is
about and the rest stands still, so that each property speaks of its own.

In several modules a definition is preceded by a variant marked *Mutant*: the
same definition with a plausible slip. They are not used by any specification;
`PROJECT.json` names which property TLC finds violated when a variant takes
the definition's place, which shows the property has something to say.

## 3 How the modules correspond to the code

`PROJECT.json`, `map`, gives the lines of every definition. In outline:

**`CommitStore` / `ResourceScheduler`.** Work items are `1 .. N`, in the order of
the instance ids, the order in which the code iterates its `BTreeMap`. `plan`
holds what `ResourceScheduler::new` was given and accepted, so `Init` ranges over
the accepted elements of `Plans`: dependencies inside the graph, no cycle,
reservations that fit the budget and cover what their unit claims, and for each input
that is not optional a dependency on a unit its source names. Inputs from an external
authority are left out: no instance supplies them and none is waited for.
`AdmitReady` is one whole scan: instances in order, each reserving what the
earlier ones left, the rest given the deficit as wait reason. `StageOutputs` is
validation of the whole batch first, then staging, and its refusals are returns
that change nothing. `Commit` publishes, releases, completes, and rewrites the
wait reasons of the consumers. `Fail` and `Cancel` discard, release if the
reservation is owned, and end the descendants. Contents stand for hashes. Left
out: the transition log.

**`PhysicalWorkGraph`.** The loop of `execute_physical_work_graph` with a program
counter: `Round` (admit; return if nothing is alive, stall if nothing was
admitted), then for each admitted instance one of `ComputeOk` (outputs staged),
`ComputeRefused` (outputs refused: the error abandons the whole run, with the
instance still running) and `ComputeErr` (the instance is failed, the run goes on), then
`CommitHead` for those staged, then `Report`. The computation's answer is
chosen by `\E` over `Batches` or an error.

**`CompilerWorkPool`.** `pc` of each worker; a critical section of the code is one
step. `Pop`, `Exit`, `Wait` are the three ways out of the locked loop.
`Dispatch` reads its input from the store, `Compute` publishes or fails: two
steps, as the store has its own locks. `ResolveOk` / `ResolveErr` are the locked
updates, `Notify` the `notify_all` after the lock is dropped. `SpuriousWake` is
what `Condvar::wait` allows.

**`IncrementalSession`.** One action for each command. A handler's error paths
are disjuncts that reply `rejected` and leave what the code leaves, which is not
always everything unchanged. A failed table lookup raises `KeyError`, which
nothing catches: `Crash` moves `phase` to `"crashed"`. Since an artifact's
identifier is derived from the action that makes it, artifacts are named by their
producers; `inputs` fixes what each action reads. Cycle detection is by sets
that are closed under predecessors, which is when the code's ordering gets stuck.

**`IncrementalExecutor`.** `sup` is the supervisor's program counter: `Start`,
`Receive` one report and send its event, `Push` what became ready under the
lock, `Notify` after it, `Announce` a discovery, `Loop`, `Finish` when nothing is
outstanding, `Release` the sleeping workers. A step that calls the session has
the session's action as a conjunct. `?` in the supervisor is the
label `"error"`, a failed `expect` is `"panic"`.

**`ObligationLifecycle`.** One action per recording method; a method that
returns an error half-way leaves the changes made so far, as the code does.
`Publishable` is the gate, an operator, since it changes nothing.

**`WorkIdentity`.** Strings are sequences of letters, so that the names, lists and
separators of `compiler_work.rs` run into each other as they would in the code. The
hash is taken as one without collisions: the text itself in brackets. (FNV-1a with
64 bits, which the code uses, has collisions, out of reach of a model.) One store
lives over many calls and edits; an action that arrives may differ in a field or
a list from the one that was written (`Received` of `Authored`), and `Valid` recomputes its id. The path
carried in provenance, which only diagnostics show, is left out. What holds here
justifies that `CompilerWorkPool` lets an artifact be its producer.

**`PlanContract` / `PlanningKernel`.** The kernel as the loops it consists of: `Index`
(producers, with the clash it finds first), `Demand` and `Walk` (closure over a work
list), `Root`, `Descend`, `CloseCycle` and `Ascend` (the depth-first search, with the
path it reports a cycle from), `Unsorted`, `First` and `Emit` (Kahn's loop with
counters) and `PhysicalWorkMatches`. A table whose
order Nim does not fix is a set, and any element may come first. `Answer`
and `Impostor` are what the caller receives: a plan, perhaps damaged, or one that
another program made up; `validate` stands between it and its use.

**`PhysicalPlanning`.** The canonical contract, unit by unit, and damaged forms of it;
its validation; instances of units that become a planning input, pass through
`PlanningKernel`, and are taken back. What comes back is compared with what
`ResourceScheduler` accepts.

**`DischargeRules` / `DependencyResolution`.** A step is a stage of `resolve`, in the
order of the code; the feedback step is one step for each foreign requirement.
`obligations` and `actions` are maps, and an insertion replaces what was there, as the
code's `insert` does. An id is the tuple of names that it is formatted from.
The same facts are resolved whole and pruned, as `g3_e0_vs_e1.rs` does.

**`EcosystemIngestion`.** A step is a file (or two files of one package), in the
order of `ingest_fixture_input`; a file that is missing or refused ends the
ingestion. Texts are lists of the statements their readers tell apart.

**`ResolvedProduction`.** Composition: workspace or facts, resolver, integrity check,
then `execute_fixed_m1_graph`'s loop of records into `Lifecycle`, for any graph
that `resolve` returns. Other callers (`AnyRecord`) get one of `Closures` and make
records of the same `Lifecycle` in any order and with any numbers.

**`FixedGraphPublication`.** `file` maps each file of the directory to what it was
made from, `Torn` for one that was cut short. `tools` are processes, of
which at most one is waited for: after a kill of the driver one may still write. The
driver goes through its steps; `Fails` and `Killed` may end it at each. The consumer's three reads
are three steps.

**`GenerationBuild`.** `sources` is a version; a file is the version it was built
from. What the doctor finds for a selector may be anything (`Findings`); whether it is
verified is computed (`Verified`), version part by version part. `at` is the driver's position: `Determine` the requirements, `Plan`, `Resolve`
the toolchains, `Clear`, then for each action `Launch`, `ToolEnds` and the writes of
its record, and `Integrate` with a `Copy` of each binary. A write may fail or be cut
short by a kill, the store is written document by document, and `Regenerate`
makes a summary from the other document.

**`Measurement`.** `Prepare`, `Build` with its record, `Label` with the second write;
between two Runs the world changes (`Edit`, `RemoveOutputs`, `Install`,
`Select`, `Move`). Reports are taken over any of the recorded Runs, and every pair
is compared.

**`OwnedIR` / `SourceLowering` / `CodeGeneration` / `Compilation`.** Trees of records.
`Lowered` follows the front ends from the syntax tree on; `Meaning` is what the
language says and looks names up in scopes, which the code nowhere does.
`Wasm` and `Arm` generate code for small machines that run it. `Compilation` has
an action for each operation that makes a program (`LowerSource`, `TransformFunction`,
up to `MaxPasses` times); validation, evaluation and generation change nothing and are
operators over what it made.

**`GenericFolds` / `RustDemand` / `InstantiationWorklist`.** A file is the sequence of
what a walk over its syntax meets. `FindFunctions`, `FindInstances`, `PlanFeedback`, `LowerFolds`,
`GenerateFolds`, then the baseline's counted `Build`s with their verdict. The
worklist takes a key from its queue in any order, where the code has one.

**`FixtureSemantics` / `EntrySpecialization`.** A source file is a record of the
parts that the recognisers tell apart; `RustProgram` is the program's meaning by the
rules of Rust. Words have `WordBits` bits, casts wrap, and squares
overflow. The sources may change after the generic fold was selected and before
the entry is specialized.

## 4 Runs, bounds, and what they show

| Run | Instance | Distinct states | Properties |
| --- | --- | --- | --- |
| `scheduler` | 3 instances | 7,062 | `AccountingExact`, `CommitsDeliver`, `PropagationExact`, `ExecutesGraph` |
| `work_graph` | 4 instances | 75,320 | `ReportIsPlanned`, `RunReturns` |
| `worker_pool` | 3 workers, up to 5 actions; stores of up to 4 results | 523,168 | `OutcomeIsPlanned`, `ReceiptHonest`, `PoolReturns`, `ExecutesGraph`, `ANameIsOneResult` |
| `incremental_session` | 4 actions, 3 graphs, 5 commands | 172,477 | `GraphStaysOrdered`, `LifecycleAdvances`, `SettlingReachesConsumers`, `DemandFollowsSupersession` |
| `incremental_executor` | 6 actions, 2 workers | 30,361 | `OutcomeIsPlanned`, `RunReturns`, `ExecutesGraph` |
| `planning` | 3 actions, 3 artifacts, 4 demands, families of lists and of physical work | 294,368 | `PlansRun`, `PlanIsCanonical`, `PhysicalWorkSurvives` |
| `resolution` | families of facts and workspaces; other callers with 4 numbers | 63,315 | `PublishedMeetsSources`, `CompleteFactsPublish`, `DemandDrivenAgrees`, `GateIsHonest` |
| `publication` | 2 versions of the sources, 2 faults, 1 edit | 1,728,808 | `PublishedAnswers`, `PassIsExact`, `Recovers` |
| `generation` | 2 generations, 1 edit, projects of every shape | 2,043,709 | `DeliversItsOwn`, `EvidenceAgrees` |
| `measurement` | 3 Runs, 1 change, 1 failure | 198,040 | `LabelsAreTrue`, `VerdictsAreFair`, `ReuseIsSound` |
| `compilation` | families of sources, workspaces, call graphs and programs | 92,576 | `LoweringKeepsMeaning`, `InliningKeepsMeaning`, `TargetsAgree`, `ObjectsMeetDemand`, `SupportIsSound`, `WorkIsNeeded`, `EntryKeepsMeaning` |
| `error_never_returns` | 6 actions, 2 workers | 1,262 | violated: `RunAlwaysReturns`, section 7 |

**What they show.**

- *`scheduler`.* In any order of calls the ledger is the sum of what its owners
  reserved; what was staged is accepted at commit and delivers what the plan said
  (`CommitsDeliver`); a failure reaches exactly what is downstream of it, and a wait
  reason names exactly what is missing (`PropagationExact`).
- *`work_graph`.* The driver returns, and its report is a function of the plan and of
  which computations failed.
- *`worker_pool`.* No lost wakeup, the outcome is independent of the interleaving,
  and a receipt vouches only for artifacts made by this execution from validated
  inputs; an id never names two results, whatever was edited between two calls.
- *`incremental_session`.* Under any client the live graph has an order, states
  advance, a settled action tells every consumer and no other, and demand
  follows supersession.
- *`incremental_executor`.* Queue, count, store and session together do what one
  schedule-free outcome says; the run returns unless the supervisor errs.
- *`planning`.* `PlansRun`: a plan the validator accepts can be run, the kernel's
  plans are accepted, and it refuses only what no order can meet. `PlanIsCanonical`:
  of the possible orders it is the least one. `PhysicalWorkSurvives`: work passes
  through unchanged and what comes back is what the scheduler accepts.
- *`resolution`.* From files to the gate: what is published has what `main.rs` calls
  (where one declaration names the symbol), from one version; complete facts publish; pruning does not matter where what
  is out of reach is apart; and the gate
  does not open without a recorded cause, nor after a record that failed half-way.
- *`publication`.* Through failures, kills, surviving tools, reruns and edits:
  a published manifest names an executable that ran as expected, a consumer's verdict is
  about the bytes the manifest names, and a driver that is run again restores a
  consistent directory.
- *`generation`.* A success delivers what it made from the sources it began with; the
  two documents of a Run agree with it and with each other.
- *`measurement`.* A label is true of what was built; a verdict without a note compares
  the same work on machines and compilers that may be compared; equal identities
  mean equal outputs.
- *`compilation`.* What the front ends accept means what the language says; transforms
  keep values and the calls a program makes; both code generators agree with the
  interpreter; the planned instances are those the sources call and their objects
  compute what they say; a published entry prints what its sources say.

**Why the bounds suffice.**

*`scheduler`, `work_graph`.* All dependency relations on the items are in
`Plans`, cyclic ones included (the acceptance check must drop them). Three items
give chains, forks and joins, and four the diamond, on which a cancellation meets
a consumer along two paths. The reservations mix a small job, one with a nested thread and
an external process so that the budget admits one or two of them and each
resource is once the scarce one; one list reserves less than its units claim. The third
item reads one kind of one producer and another, optional, of the other. Two keys and two contents make two writers
agree, differ or miss each other at a target; the batches have several outputs,
none, one kind twice, and an empty key, so that each refusal happens.

*`worker_pool`.* Every acyclic graph on three actions, with an input named once
or twice, every set of failing actions, every selection closed under producers; and the
chains of five that the code builds (lower, validate, transform, validate, evaluate),
each with inputs of the wrong kind, with one failure, and with an empty or a full store
(a graph of lowerings reads no store, and starts with an empty one).
Three workers are needed for one to wait while a second resolves and a third
takes. For names: two files, two texts and four function names of which some are
the concatenation of others, so that a separator that can be confused is.

*`incremental_session`.* `MaxIndex = 4` allows a start and four further
commands. Three graphs (a chain with a transitive edge, a diamond, one with a cycle) and four
event ids: enough for a discovery below a completed, a failed or a superseded
action, followed by that action's late event and a repeated id. Each handler's
hazards need at most three events after the start.

*`incremental_executor`.* Scenarios with one discovery, two equal ones, two that
overlap, nested discoveries, an empty one, one that restates what is there, one
out of order, and an initial graph with a blocked action, each with the failures
that matter. Two workers: one runs while the other sleeps.

*`planning`.* Three actions are a cycle of two beside a third, a cycle of three, a
diamond's half, two producers of one artifact, a missing producer. Lists with
duplicates, kinds that are not known, descriptors that do not fit their kind, old
contract versions and damaged answers come in families beside those graphs.

*`resolution`.* A Rust application with C, C++ and Nim packages in up to two versions,
roles, triples and signatures, met or unmet by one or two requirements; workspaces
that lack or damage each file once. For the other callers: graphs with a demand, a link, its
product and a fact, one obligation out of reach; `MaxSeq = 4` lets every order of
four records occur, with lower and reused numbers.

*`publication`.* Two faults: the first leaves the directory in a state the second meets,
and a tool that survived the first may write during the rerun. One edit separates two
versions; more repeat what one does. One of the two versions does not answer as
expected.

*`generation`.* The second generation meets what the first left, in its success, its failure or
its death at any step, with an edit between or during them.

*`measurement`.* A baseline, a candidate and a third Run that tells whether what
agreed pairwise agrees; two declared compilers, an undeclared one, two machines.

*`compilation`.* Blocks nested and side by side with two names; callees whose parameters
are used once, twice, never and around calls of their own. Integers have four
bits, the largest frame 64 bytes, so that both overflow. Four packages, of which two
have one crate name; the baseline is run on those workspaces that differ in what is named,
declared or locked (`Fixtures`), with one counted build of each scenario, with or without
a warm-up before it: a verdict asks for any eager and all feedback builds, so more of them
only add to either side. Slices of up to two items; all call graphs of three instances,
some of four, with holes. Fixture programs with one part changed, or two
that meet; words of five bits, limits up to 31, whose squares overflow.

`CHECK_DEADLOCK FALSE` is set where the program ends (all workers exited, report
returned, session closed, numbers or generations used up). The runs `scheduler` and
`publication` leave deadlock checking on: `admit_ready` can always be called, and
a production can always be started again.

## 5 Fairness

- *Driver*: `WF(DriverNext)`. It is a single thread that never waits, and the
  computations it calls are functions that return.
- *Pool and executor*: weak fairness of each worker's `Step` and of the supervisor.
  These are OS threads, each with a step of its own while it is
  not waiting; weak fairness of a thread says that the operating system runs it. The
  mutexes are held for one step, so a thread at a lock is always enabled.
- A waiting worker is not enabled: only `Notify` or `SpuriousWake` wakes it. No
  fairness is given to `SpuriousWake`, so liveness never rests on it.
- `notify_all` wakes every waiter, so no fairness among waiters is needed.
- *Planning kernel and bridge*: `WF(Next)`: a process whose every step is its own.
- *Production run*: `WF` of the driver's and its tools' steps. `Recovers` says that a
  driver which is run again and no longer disturbed ends with a consistent directory:
  failures and kills are bounded and have no fairness, the caller starts again.
- The session, the obligation lifecycle and ingestion serve a caller that owes them
  nothing: no fairness, no liveness.

## 6 Proofs

| Theorem | Module | Property |
| --- | --- | --- |
| `PropagationExactHolds` | `ResourceSchedulerProofs` | `PropagationExact` (of `NothingSurvivesUpstream`, `WaitsForPending`) |
| `RunsAfterProducersHolds` | `ResourceSchedulerProofs` | nothing runs before its producers are committed |
| `CommitsDeliverHolds` | `ResourceSchedulerProofs` | `CommitsDeliver` (of `CommitNeverRejected`, `InputsDelivered`) |
| `PublicationPermanentHolds` | `ResourceSchedulerProofs` | what is published stays |
| `ExecutesGraphHolds` | `ResourceSchedulerProofs` | `ExecutesGraph`, the refinement of `GraphPublication` |
| `AccountingExactHolds` | `ResourceSchedulerProofs` | `AccountingExact` |
| `TypeOKHolds` | `ResourceSchedulerProofs` | the types of the scheduler |
| `DriverIsACaller` | `ResourceSchedulerProofs` | the driver's loop is a sequence of calls of the scheduler, so that all of the above holds of its runs |
| `ReportIsPlannedHolds` | `ResourceSchedulerProofs` | `ReportIsPlanned` |
| `NeverStalls` | `ResourceSchedulerProofs` | a round with work alive admits something: `run` never ends stalled |
| `OutcomeIsPlannedHolds` | `CompilerWorkProofs` | `OutcomeIsPlanned` of the pool |
| `ReceiptHonestHolds` | `CompilerWorkProofs` | `ReceiptHonest` |
| `ExecutesGraphHolds` | `CompilerWorkProofs` | `ExecutesGraph`, the refinement of `GraphExecution` |
| `WorkIsNeededHolds` | `CompilerWorkProofs` | `WorkIsNeeded` |
| `GraphStaysOrderedHolds` | `IncrementalProofs` | `GraphStaysOrdered` |
| `LifecycleAdvancesHolds` | `IncrementalProofs` | `LifecycleAdvances` |
| `SettlingReachesConsumersHolds` | `IncrementalProofs` | `SettlingReachesConsumers` |
| `DemandFollowsSupersessionHolds` | `IncrementalProofs` | `DemandFollowsSupersession` |
| `OutcomeIsPlannedHolds` | `IncrementalProofs` | `OutcomeIsPlanned` of the executor |
| `ExecutesGraphHolds` | `IncrementalProofs` | `ExecutesGraph`, the refinement of `GraphExecution` |
| `OrderIsCanonical` | `PlanningProofs` | `PlanIsCanonical` |
| `AcceptedPlansRun` | `PlanningProofs` | any plan the validator accepts can be run from its first action to its last |
| `PlansRunHolds` | `PlanningProofs` | `PlansRun` |
| `PhysicalWorkSurvivesHolds` | `PlanningProofs` | `PhysicalWorkSurvives`, and the two above of what crosses the bridge |
| `GateIsHonestHolds` | `ResolvedProductionProofs` | `GateIsHonest` |
| `PublishedMeetsSourcesHolds` | `ResolvedProductionProofs` | `PublishedMeetsSources` (of `PublishedMeetsRequirements`, `PublishedMeetsDeclarations`) |
| `DemandDrivenAgreesHolds` | `ResolvedProductionProofs` | `DemandDrivenAgrees` |
| `CompleteFactsPublishHolds` | `PublicationProofs` | `CompleteFactsPublish` |
| `PublicationIsSound` | `PublicationProofs` | `PublishedAnswers`, and that no manifest stands alone or past the gate |
| `PassIsExactHolds` | `PublicationProofs` | `PassIsExact` |
| `DeliversItsOwnHolds` | `GenerationBuildProofs` | `DeliversItsOwn` |
| `EvidenceAgreesHolds` | `GenerationBuildProofs` | `EvidenceAgrees` |
| `LabelsAreTrueHolds` | `MeasurementProofs` | `LabelsAreTrue` |
| `VerdictsAreFairHolds` | `MeasurementProofs` | `VerdictsAreFair` |
| `ReuseIsSoundHolds` | `MeasurementProofs` | `ReuseIsSound` |

**Scheduler.** For every number of instances, set of kinds, keys, contents, budget,
set of plans and set of batches. *Assumptions*: `StoreAssumption` (`N` is a
positive natural number: the code refuses an empty graph) and `SchedulerAssumption`
(the budget is a vector of natural numbers, plans and batches have their types).
Amounts are natural numbers: the code adds with `checked_add`, and `FitsWithin` the
budget keeps every sum within what the budget's width holds. None of the properties
is inductive on its own.

1. `LifecycleInv` is a conjunction:
   `LooseTypeOK`, the types, with the ledger left as integers (that subtraction does not underflow is
   a consequence of exactness, proved last); `ProducersDone`, what was admitted has completed
   producers; `WaitShape`, which wait reasons go with which state;
   `WaitAccurate`, what a wait reason names is what is uncompleted;
   `NothingSurvivesUpstream`; and `StagedWhileCommitting`. The last two are
   needed for the others: a commit makes consumers ready by their wait reason,
   so a stale one would admit too early, and cancelling the
   descendants is only right because none of them owns a reservation. The
   delicate lemma is `DescendantsClosed`: the code's worklist, defined in the
   model as the least closed set, is closed under consumers.
2. `PublicationInv` adds `StagedAgree` (any two batches staged or committed agree wherever
   they meet, which is what the check at staging buys), `StagedWhole`
   and `PublishedWhole` (a batch has each declared kind once), and `PlanBound`.
   `AgreementAccepts` turns agreement into "commit accepts", and
   `CommitEffect` says what a commit does to the store. `ExecutesGraph` maps
   `done` to the completed and `dead` to the failed and cancelled items;
   a commit is `Finish` with its batch, a failure or cancellation `GiveUp`, and
   admission and staging stutter.
3. `Ledger`: `allocated` is the sum of what owners reserved, and fits. The scan
   of `AdmitReady` and the sum are recursive functions over `0 .. N`; the first
   section of `ResourceSchedulerProofs` proves their equations from the library,
   and `SameOwnersSameSum` and `ReleasedSum` how the sum moves with the set of owners.

4. The driver. `DriverControl` ties the program counter to the round, with which every
   step of the loop is a call (`DriverIsACaller`). `DriverInv` says what a
   round knows: `RoundOwns` (between the steps exactly its members own what they
   reserved), `ExecutedEnds` (a computation that was started has reached an end of its
   own), `LostIsCaused` (every set that has the failures and is closed under consumers
   has all that is lost) and `ReportsAtEnd`. `KindsAssumption`: the kinds are finite.
   `NeverStalls` says that the error `run` has for a round that admits nothing is
   unreachable: between rounds nothing is owned, so the ledger is zero (`AccountingExact`)
   and whatever plan was accepted has only reservations that fit the whole budget; and
   if none of the live instances were ready, each would wait for a live one
   (`WaitsForPending`), which is a cycle that acceptance rules out.

**Worker pool.** For every number of threads and of actions, every set of plans and
every content of the store, at every interleaving. `PoolAssumption`: plans have their
type, and there is at least one worker (`cpu_budget` is a `NonZeroUsize`). `PoolInv`
is, besides types:

- `OnePlace`: what is queued or held by a worker is unsettled, has all its inputs, and
  is in one place, so no action is done twice;
- `CountersExact`: the counter of an unsettled action is the number of its input
  positions still to be made. It is why an action is queued once, at the moment its
  last input is made, and never at a second decrement;
- `FailureSpreads`: what is given up is closed under dependents and starts with an
  error. The worklist of the code is the least closed set (`PoisonedSpreads`), and
  what it reaches is neither queued nor held, because those have all their inputs;
- `StoreHolds`, `BrokenFail`: the store keeps the kinds apart and has what was made,
  so that a lookup fails exactly for the actions that are broken in the plan;
- `ExitsLast`: a worker leaves only when everything is settled. With at least one
  worker, `Returned` then means settled.

That a finite set of numbers has an ascending listing (the queue's order) is proved by
induction on a bound. `ExecutesGraph` maps `done` to the successful and `dead` to the
other resolved actions: `ResolveOk` is `Finish`, `ResolveErr` is `GiveUp` with all it
poisons, everything else stutters.

**Session.** For every set of actions, finite or not, every graph on them and every
client: `SessionNext(starts, deltas, ids)` is the command loop under whatever clients
send, and the theorems hold for all three sets, with no bound on the number of
commands. The specification TLC checks sends a part of that, so it is an instance.
*Assumptions*: `SessionAssumption`, and `ListsActions`, that lists are lists of actions.
The argument is in two halves. `EveryStep` shows that whatever arrives, the graph
rests, grows, or an action settles in one of four ways (`Steps`); what follows is about
those and no longer about messages. `SessionInv` joins `RecordsMatch` (a record and a state
are the same thing, so that what a discovery inserts was absent), `ReadyOnlyAfterProducers`
and `LiveGraphAcyclic`. The last is needed for the one before: an action that read its own
artifact would be made ready by its own completion, and not be completed.

`DemandFollowsSupersession`, for finitely many actions and clients that count with
natural numbers (`CountsDemands`). A demand is an element of its own in the model, so
that a sum of counts is a cardinality, and no sum over a set needs induction. A
replacement is new and what it replaces is not (`Supersedes`: duplicates are refused
before, and only live records can be superseded), so no chain of replacements runs
through one event. `MovedDemands` then numbers the demands on what one action replaces
behind its own, and puts the maps of all replacements together to one injection of the
demands before into the demands after.

**Executor.** For every finite set of actions, any number of workers, any set of scenarios
(`ExecutorAssumption`: a scenario has its shape), and every interleaving.
`ExecutorInv` adds to `SessionInv`, once the run is going:

- `Plain`, `KnownIsFound`: this client never supersedes nor cancels, and an action
  is known when it was there at the start or was found by what completed;
- `SentOnce`: an event is sent once, so that none is dropped as a duplicate;
- `OnePlace`, `Counted`: a ready action is in the queue, in the batch about to be pushed,
  with one worker or in a report, never in two of them, and the counter is the number
  of ready actions less the batch. It is why a count of zero means
  that nothing is left, and why nothing is run twice;
- `Truthful`, `Deserved`: the store has what was computed, what completed could
  succeed and so could all it read, what failed could not or reads what could not.

At the end nothing is ready; `Deserved` and the acyclic graph then leave only the
outcome that the scenario determines (a blocked action waits for a blocked one, in a
circle). `ExecutesGraph` maps `done` to the completed and `dead` to the failed: a report that
is received is `Finish` or `GiveUp`, everything else, also what is discovered,
stutters.

**Planning.** For every set of inputs of the right shape (`InputsWellFormed`: a listed
action has a number, an id and a finite set of inputs), of any size, and whatever
tables the kernel walks first. `AcceptedPlansRun` is about the validator alone: what
it accepts has every input made earlier in the list. `OrderIsCanonical` rests on
`IndexInv` (one producer for each artifact, a listed action) and `SortInv`: the
counters of Kahn's loop are the number of dependencies that are missing, the ready list holds all
whose counter is zero, and every action was, when it was emitted, the least that could be.
The counters are the heart: a dependency named twice would make one drift.

`PlansRunHolds` joins `KernelInv` to them: `WalkInv` (what is needed is part of the demand
closure and, with an empty work list, all of it), `SearchInv` (the path of the
depth-first search is one of dependencies; what it has left behind leads to nothing else
and holds no circle) and `AnswerInv` (a reason is true: a reported cycle is one,
and no order meets the demand). The closure and what can be obtained are defined by
iteration: `IterationSettles` shows that it stops at the least fixpoint within as many rounds as
there are elements, `Stages` that what cannot be obtained has a reason. `AnswerIsAccepted`
is the agreement of the two languages: what the kernel answers, the validator accepts.
`NoReason`: the mark for no reason is none of the reasons.

`PhysicalWorkSurvivesHolds`, for every set of contracts and of requests
(`ContractsAssumption`, `RequestsAssumption`: they have their shape, a unit makes something,
and no kind twice; section 7). Units in layers leave no circle among their
instances, artifacts and instances are one to one, so the input that crosses the bridge
is well formed and can be met (`NeverRefused`), the kernel's closure is the set
wanted (`NeededIsWanted`), and taking back undoes what bridging did.

**Publication on disk.** For every set of versions, any number of faults and edits
(`AnsweringVersions`: the versions that answer as expected are versions; `MarksAreNotStatements`: the marks for a
missing and for a torn file are no statement). `RunInv` ties where the run stands to
what it holds in memory and on disk; `ToolInv` says that a tool writes only what it
builds and that the run waits for at most one, and only while it builds;
`DiskInv` is what is wanted of the directory. `ToolInv` is what makes a surviving tool
harmless: it may change the executable, but never one of the published files.

**Lifecycle.** For all facts, workspaces, graphs, lists and numbers
(`CallersAssumption`: a caller's graph has its type, without which there is no such value in
the program; `FactsAssumption`: what is a `Vec` or a map in the program is a list or finite,
an ecosystem is one of four and a Cargo package exports nothing; `WorkspacesAssumption`: so
are the parts of the files). `GateIsHonest` speaks of a step, and is not inductive. Two notions carry it:

- `LifecycleInv`: `Booked` (every book has an entry for each obligation, histories are lists),
  `RecordsClose` (a recorded operation has closed all it discharges), `RequiredKept` (an action
  that was required is never forgotten) and `Justified` (whatever transition closed an
  obligation has its cause in the records, and its state is still there);
- `Lawful`, of a step: the graph stays, records are only added, an obligation in a final
  state is left alone, another is at most moved, with a transition whose cause is recorded
  unless the method failed, and an operation is recorded only with everything closed.

Each of the five methods is lawful. For the two that loop with `?`
over a list, `DischargeAll` and `DecideAll` state what every prefix of the loop has
done (`LoopExists`), also when it was left half-way. Lawful steps keep the invariant, and the
invariant with a lawful step is honest: `InvIsHonest` is about what the gate sees,
`LawfulIsHonest` about records that failed half-way. `DriverInv` connects
the driver: what `resolve` returns is a list of actions with lists of discharges, also
for facts that ingestion put together (`FlattenGood`, `ChainIsGood`, `ClosingIsGood`), and the
graph that is recorded is the one that was returned.

**From files to the gate.** For all facts and workspaces, under the same assumptions:
`PublishedMeetsSources`. The property speaks of the end, so the invariant follows what is
known on the way there:

- `FilesInv`: the requirements handed to `resolve` are those of the active blocks
  (`RequiredHolds`), under the features found by following implications for as many rounds
  as there are features. That this is the least closed set is `ActivatedIsBuilt`, from
  `SpreadSettles`: a search that can grow only inside a finite set has settled after
  as many steps as that set has elements;
- `ResolverInv`: `Unchosen` after registration, `Sound` from the roots on (one version of a
  package is selected, and every candidate looked at is selected or rejected), `Bound` for
  each requirement that was served: its symbol waits for its ABI obligation, and that one
  for a candidate that declares it. `Bound` does not say that this candidate is *still*
  selected: a later requirement may reject it, and `resolve` does not look back
  (section 7). That is why the invariant is about edges, and why `QuietKeeps` is enough for
  every later insertion. At the end `Chained` adds the edges from the demand to the final link and
  from there to all symbols;
- `GraphInv`: the graph in production is the one returned, edge by edge.

So the demand reaches every symbol, and behind it the selection (`ReachableIsClosed`).
The gate wants all of that closed; a rejected obligation is never closed (`RejectedStays`, from the
lifecycle). What looked like a gap in `resolve` is closed by the gate, and only there.

**Resolved whole and pruned.** For all facts and workspaces, under the same assumptions:
`DemandDrivenAgrees` compares two calls that never run side by side, so no step
relates them. `AgreeInv` says instead what one call has made, from its facts alone, and
does so for both (`MadeAt`, with one clause for each stage):

- `Built`, in the feedback loop: the map is the basis (sources, lowerings, roots), the
  selections of the packages served so far with all their other versions rejected, the
  bindings of each requirement (of several with one symbol, the last stays), and the artifacts
  registered. `Finished` is the same after the loop, `Decided` that nothing was left to
  refuse. `AcceptInv` keeps it for the results when the call has returned;
- pruning is a thinning: `Thinned` lists, with `Places` for where an element
  was (`ThinPlaces`); what decides a requirement (its matching candidates, its
  ambiguity) is the same in both lists for what is reached, because the reached packages are
  closed under what they require (`ReachedByKept`). So if all
  facts are `Decided`, the pruned ones are (`PrunedIsDecided`), and the second call
  accepts;
- `MapsAgree`: on what is reached, the two maps have the same selections, bindings, sources,
  lowerings and artifacts. `PlansAgree` and `AssignedAgree`: the action list of a call is
  a concatenation of blocks, one for each candidate, so the pruned list lacks whole blocks,
  and these discharge nothing that is reached (`Leaves`): each obligation keeps
  the last action that discharges it. `ResultsAgree` adds the closing obligations, of which
  the link and its order name all artifacts and may differ.

`Apart` is what the argument needs of the facts, found by it. Without it the property
is false: with `<<A, Requires("spare", "a", "lib")>>` among the requirements TLC shows
the FFI obligation of a reached symbol replaced by an unreached package's (section 7).

**Complete facts to an open gate.** For all facts and workspaces, under the same
assumptions: `CompleteFactsPublish`, that nothing can go wrong between an accepted
resolution and the published executable except in a tool. The argument has a half about
`resolve`, which goes on from `Accepted` above, and a half about the driver's loop.

- `Orderly`, of the plan: each action depends on earlier ones only, reads what is declared
  or what an earlier one makes that it waits for, directly or through one action between,
  and no two share an id, an output or a discharged obligation. Blocks of different packages
  are apart (`OwnersSeparate`); link, preflight and publication are put behind them. All nine
  checks of `verify_plan_integrity` follow (`NothingIsFound`);
- `Ready`, of the map: an obligation is chosen or rejected, its edges lead to chosen
  ones, and each chosen one is the resolver's own or has exactly one action that discharges
  it, which is the one `resolve` wrote into it. What each stage inserts is followed here
  (`Steady`, `Proper`), and where an artifact comes from: the one output of its package;
- so the recorded graph is `Driven` by the plan, a statement about the graph and the
  list of actions alone, from which the driver's half starts;
- `Underway`, while the driver records: what is recorded is the plan up to `next`, every
  number in use is below the next one, and of each obligation (`Attended`) the
  history runs without a gap from `Unresolved` to its state (`Chronicle`), which is
  closed if its action is recorded and otherwise as `resolve` left it. It is inductive
  because the two loops with `?` do not fail on it: `DecidesEach`, `DischargesEach`
  and, for the contract, `RuntimeGoesWell`. The next record is therefore accepted
  (`NextMayBeRecorded`), and when there is none left the gate opens (`GateIsOpened`).

The argument found two things that `Complete` must ask for: that an output id is declared
once (else one artifact obligation stands for two outputs, and only one action closes it),
and that a lowering names a declared source (else the graph has an edge to an obligation
that does not exist, which the gate ignores and the integrity check refuses).

**Generations.** With no bound on generations and edits; no assumption beyond those of
`PlanContract`. `GenerationInv` follows the steps: what was `Determined`, `Planned` (an
accepted plan does each action once, the assembly last) and `Equipped` (exactly the families
needed are verified); `Recording` and `RunsAreTrue` (of this generation there are the Runs
of the actions that are over, with both documents saying success, and the one under way);
`FilesAreOurs` (in a staging area that was cleared is what recorded tools of this
generation made, of the sources of their moment), `ReportsWhatItMade`, `ProjectFiles`, `Copied`
and `Integrated`, which carry that to the delivered binaries.

**Measurement.** For any number of Runs, edits and failures, any machines and compilers
(`PathsAssumption`, `NoneIsNoValue`: the mark for nothing is no path and no label). `FilesAreDated`:
a file younger than the last edit was made from it; `RunIsPrepared`: what was
observed before the build is so during it; `RunsAreTrue`: a record keeps saying what
happened in its Run, whatever came later. A verdict is fair because the numbers of created
and modified files of a successful Run add up to all files if it compiled, and to the
dep-info otherwise; the spread of at most two numbers determines both. With three Runs of
one side that no longer follows; `Lists` has reports of at most two.

**Worklist.** For every finite set of instances (`KeysAssumption`) and every call graph.
`Frontier`: what was mentioned was visited or waits, is needed, and contains what is
called by visited ones; `Verdicts`: which answers go with which state. With an
empty queue the visited set is closed, hence all that is needed.

**Only model-checked.** Liveness and everything under fairness, and `ENABLED`:
outside the proof system's reach. For
induction over data the library has only theorems that take an operator, which no
prover here can use. Where the recursion goes over numbers (`0 .. N`, or a loop over a list)
it is replaced by induction over sets: a set that has 0 and with each number the next
has them all. What remains:

- `ANameIsOneResult`: that nested bracketed strings have one reading needs induction over
  their nesting;
- everything in a module with `RECURSIVE` operators: the compiler IR, Rust demand and the
  entry define meanings by recursion over trees.

## 7 Where code and documentation disagree

`error_never_returns` is a run of its own, `PROJECT.json` quotes both sides: a `?` in
the supervisor leaves the scope without setting `done` or notifying, so joining the
waiting workers never ends. The others are modelled as the code has them; no
property rests on the words.

**Incremental session and executor** (`docs/03-work-items/design/issue-36-t0-incremental-contract.md`)

- `applyDelta` remembers an event's id before the handler may reject it: a corrected
  event with the same id is dropped as a duplicate, though a rejected delta is to
  leave "the live session completely untouched".
- A list that names a consumer before its producer raises an uncaught `KeyError` in
  `isReadyAgainst` and ends the planner.
- An action of the initial graph that starts blocked is not among
  `known_actions`, and the `expect` fails when it becomes ready.
- Cancelling a blocked action does not lower its producers' reference counts.
- An event that restates a known action beside a new one is rejected as a whole.
- An action discovered after its producer has failed, or whose producer is
  superseded before completing, stays blocked, without an answer saying so.
- A completion of a cancelled action wakes nobody, and a completion after a
  failure makes the action completed.
- Demand and failure events on superseded actions are not answered
  `stale_generation`; `sequence_number` is not used.

**Names of work** (`compiler_work.rs`)

- "no two distinct `test_inputs` values can canonicalize to the same string": `[]` and
  `[[]]` both give the empty one. Validation refuses the first, so no id is shared.
- `requested_functions.join(",")` cannot tell a name with a comma; such a name never lowers.

**Planning and validation**

- `validate` does not compare `command_identity`, nor the `id` inside a plan's actions.
- Nim rejects an action that names one output twice, Rust's index accepts it; Nim does
  not check that descriptors of compiler work are sound, Rust does.
- `physical_work_from_execution_plan` "rejects any descriptor, dependency, or output
  mutation before execution", but indexes, and panics, when a dependency is missing
  from `physical_work`.
- The check of a physical contract does not ask that a unit makes a kind only once; a
  unit that makes one twice would pass it, and be refused by the kernel as
  `duplicate_producer`. No unit of the canonical contract does; `ContractsAssumption`
  excludes it.

**Resolution and the lifecycle** (`dependency_graph.rs`, `obligation_lifecycle.rs`)

- Two requirements on one package that only different versions meet: the second
  selection rejects the first, yet `resolve` returns `Ok`, where the text says "Any
  requirement that cannot be satisfied this way rejects the whole resolution here,
  before a single [`RequiredAction`] exists".
- Two requirements that name one symbol: the ids of the FFI, ABI and symbol obligations
  carry the symbol alone, so the later one replaces the edges of the earlier. If another
  selection then rejects the first one's version, nothing waits for it any more, and the
  gate opens on an executable that does not meet it. `PublishedMeetsSources` is about
  requirements whose symbol no other one names (`Alone`); without that it fails.
- Pruning is to produce "exactly the same" closure "byte-for-byte", if "no candidate
  outside the reachable set was ever going to be selected anyway". It takes more: a
  package that is not reached may require a symbol that is required within reach
  (its edges stay in the unpruned closure, the last requirement wins), require the demand
  itself, or declare an executable or an object with a source or the id of another. `Apart`
  excludes these. The link of the unpruned closure also takes the archives of all
  selected packages, reached or not; `DemandDrivenAgrees` leaves the link and its order out.
- A C or C++ root that is not required reaches `unreachable!` in a function described
  as total over well-formed input; ingestion always offers `cadd` and `cppmax`.
- Per-source `CompileCObject` actions discharge `SourceModule`, which
  `discharge_kind_allowed` refuses.
- Candidates for host and target with one version give the same action twice; a
  missing lowering gives an `ArtifactProduction` without an action, which
  `record_resolution` refuses.
- Retained sources of rejected alternatives are not reachable, though `PositiveClosure`
  says that every retained obligation is; undemanded synthetic candidates stay
  selected where comments of `g3_e0_vs_e1.rs` expect `Rejected`; the last check for
  `Unresolved` cannot fire.
- A resolution that fails half-way leaves obligations discharged with a cause that names
  an unrecorded resolution; `externalize_runtime` can close a runtime obligation whose
  preflight is not recorded; an operation recorded before its resolution gives a
  history that stays invalid and blocks the gate for good; the gate ignores edges
  to obligations that do not exist; the driver never calls `verify_plan_integrity`.
  `GateIsHonest` states what the code does keep.
- `.nimble` requirements of a shape other than the expected (`"nim >=1.6"`,
  `"nim >= 1.6 & < 2"`) have no operator and count as satisfied, though such a shape
  "must not be silently treated as satisfied".
- `foreign_discover` looks only at top-level extern blocks and ignores `cfg` on single
  functions and enclosing modules ("Every declaration the file's own syntax contains
  is reported"); the Nim export scanner finds `proc` in comments.

**Drivers and measurement**

- `self_build.rs`: the result of removing the staging area is ignored ("genuine
  from-scratch rebuild"): a tool that exits well without making anything may then pass
  off what an earlier generation left. `DeliversItsOwn` is about generations that
  could clear the area.
- `--requires rust --nim-entry missing` ignores the entry, which the message
  calls "never silently treated as no Nim entry".
- A kill between the two rewrites of a record leaves a summary that disagrees until it
  is regenerated; `EvidenceAgrees` is about generations that came to their end.
- `environments_comparable` treats an unobserved field as agreeing, so it is not transitive.
- A build that fails in a no-op scenario and writes nothing keeps the label `TrueNoop`
  without a note; `LabelsAreTrue` is about successful Runs.

**Compiler IR**

- The Nim front end lowers or rejects *every* top-level proc ("Lowers exactly the named
  top-level `proc`s"); of duplicates it takes the last, Rust's rejects them; it accepts a
  call of a name that a local hides, Rust's rejects it.
- Neither front end checks the number of arguments of a call: such a source surfaces
  as `PostconditionViolated`.
- `is_zero_lit` ignores a suffix, so `x != 0i64` is accepted.

**Rust demand and the entry**

- `rust_generic_demand.rs`: "Anything outside that small, declared subset is rejected
  rather than guessed". The types of locals outlive their function and parameters,
  closures, `for` and `match` bindings are not recorded, so a parameter named like an
  earlier local gets its type; `crate::f`, `self::f`, glob imports and imports of three parts
  without a rename are missed; literals without a suffix are always `i32`.
  `ObjectsMeetDemand` is about sources where demand is written directly.
- `plan_rust_a7_worklist`: `ConflictingDefinition` cannot fire ("Its fingerprint makes an
  inconsistent duplicate an explicit rejection rather than a first-writer-wins race"): a
  map holds one definition for a key.
- `rust_cluster_semantics.rs`, `lower_centroid`: a count named like a sum
  (`let sx = self.points.len() as i64; Point::new(sx / sx, …)`) is accepted
  with another meaning than Rust's, while "unsupported edits fail before a native object
  can be published". `CountHidesSum` names these sources, and `EntryKeepsMeaning`
  leaves them out.
- `link_macos_aarch64_entry` does not check that the generic object was made from the IR
  that was specialized; a local `type i64`, a shadowed `Option`, traits and macros
  are not looked for.
- Primes are checked for overflow also under wrapping arithmetic, which only refuses more.
- `extract_compiled_package_names` reads telemetry that is missing or not understood as
  no packages, so a feedback build whose log was lost counts as one that "never compiled
  any package `plan_pruned_packages` names", while a lost eager log only denies support.
  `Build` may lose any names; `SupportIsSound` asks that one successful feedback build
  was read in full. That its packages are named like their directories is what the code
  says of its fixture, and is so in the model.

## 8 Not modelled, and why

- *Name scanners, FFI reachability reports*: one pass over a text each, without state;
  the readers that feed resolution are in `EcosystemIngestion`.
- *Lexers and parsers; encodings of instructions, sections, relocations; SHA-256 and
  FNV*: functions of bytes, with tests that compare bytes. Models start at the tree, end
  at the instruction, and take digests as what they digest.
- *Panics in compiler operations*: the operations return or fail. A panic would
  end a pool's worker without resolving its action; the code has no handler for it.
- *Bytes on pipes, JSON, process spawning*: a command and its reply are one step,
  or the planner is gone. The session's stderr is a pipe that nobody reads, so a
  planner that wrote more than it holds would block.
- *Tracer, telemetry, probes of toolchains*: they observe the machine. What they report
  is a choice; what is decided from it (is a toolchain verified, are two Runs
  comparable, what did a build compile) is in `GenerationBuild`, `Measurement` and
  `RustDemand`. Of what an identity could not observe only the compiler is modelled, so
  `ReuseIsSound` says nothing of environment, host or inputs that were not observed.
- *Wall times*: the statistics and the noise floor of a comparison.
- *Transition logs, slot traces, counters of reports*: written, never read by the run.
- *Physical work*: compute and memory classes, key spaces, idempotency, ownership:
  nothing reads them; the saturating sum at the top of 32 bits.
- *Concurrent writers where the code has no lock*: two generations in one root, sources that
  change while ingestion, Rust demand or a measured Run reads them. The code neither
  handles nor rules these out.
- *Experiments, command line, scripts, CI, fixtures*: drivers over the components above.

## 9 Plan

Done: every component of section 1, at the extent its entry in `PROJECT.json` says,
with the abstract specifications and the proofs of section 6.

Next, modules: the hashing of `reuse.rs` and what it covers; the expansion statistics of
`dependency_graph.rs`.

Next, proofs:

- `ANameIsOneResult`, with names as trees, where reading a name is unique by form.
