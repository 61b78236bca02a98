----------------------------- MODULE Measurement ------------------------------
(***************************************************************************)
(* Measured builds of the two fixture workspaces: a scenario prepares the  *)
(* state it is named after, runs the build once and records what it did    *)
(* (crates/laminaria-run/src/scenario.rs, run_and_record of lib.rs,        *)
(* artifact_inventory.rs); reports over the recorded Runs, returned or     *)
(* regenerated, are compared (compare_reports), and their identities       *)
(* decide what may be reused (reuse.rs).                                   *)
(*                                                                         *)
(* Between two Runs anybody edits or touches the sources, removes outputs, *)
(* installs and selects compilers, or moves the work to another machine;   *)
(* during a Run nobody does.  A modification time is the tick of a clock.  *)
(* Wall times are left out: what may be compared, and what the comparison  *)
(* says of the work, does not depend on them.                              *)
(***************************************************************************)
EXTENDS Integers, SequencesExt

CONSTANTS
  None,
  Paths,      \* where compilers are installed,
  Declared,   \* those that toolchains.lock.toml declares,
  Digests,    \* what may be installed there,
  Installed,  \* and what is at first, with the rustc selected then
  Machines,   \* EnvironmentFingerprints, the first and the others
  Scenarios,  \* workloads with labels
  MaxRuns, MaxChanges, MaxFailures   \* bounds

Workloads == {"rust-heavy-workspace", "nim-heavy-workspace"}
Labels    == {"Cold", "Warm", "TrueNoop"}

ASSUME PathsAssumption ==
  /\ Declared \subseteq Paths /\ "nim" \in Paths
  /\ Scenarios \subseteq Workloads \X Labels
  /\ \A first \in Installed : first.at \in [Paths -> Digests] /\ first.selected \in Paths \ {"nim"}

ASSUME NoneIsNoValue == None \notin Declared \cup Labels

VARIABLES
  trees,      \* sources and outputs of each workload
  clock,
  installed,  \* compiler at each path
  selected,   \* path of the rustc that RUSTC, RUSTUP_TOOLCHAIN or PATH name
  machine,
  wrapper,    \* the wrapper binaries are there, constant
  at, run,    \* the Run that is being made
  store,      \* <runs_root>: the Runs by their ids
  changes, failures

world == <<trees, clock, installed, selected, machine>>
vars  == <<world, wrapper, at, run, store, changes, failures>>

(* The observation roots, as the files below each: target, with the dep-   *)
(* info file; nimcache, and the linked program.                            *)
Roots(w) == IF w = "rust-heavy-workspace" THEN <<{"fixture", "fixture.d"}>>
                                          ELSE <<{"fixture.c"}, {"fixture"}>>
Files(w)    == UNION Range(Roots(w))
DepInfo     == {"fixture.d"}
Present(w)  == DOMAIN trees[w].files
Compiler(w) == IF w = "nim-heavy-workspace" THEN "nim" ELSE selected

Without(files, gone) == [f \in DOMAIN files \ gone |-> files[f]]

Init ==
  /\ trees = [w \in Workloads |-> [content |-> 0, edited |-> 0, files |-> <<>>]]
  /\ clock = 1
  /\ \E first \in Installed : installed = first.at /\ selected = first.selected
  /\ machine \in Machines.first
  /\ wrapper \in BOOLEAN
  /\ at = "idle" /\ run = None /\ store = <<>> /\ changes = 0 /\ failures = 0

-----------------------------------------------------------------------------
(* Between Runs *)

Edit(w) ==
  /\ trees' = [trees EXCEPT ![w].content = @ + 1, ![w].edited = clock]
  /\ UNCHANGED <<installed, selected, machine>>

RemoveOutputs(w) ==
  \E gone \in SUBSET Present(w) \ {{}} :
    /\ trees' = [trees EXCEPT ![w].files = Without(@, gone)]
    /\ UNCHANGED <<installed, selected, machine>>

Install(p, digest) ==
  /\ installed[p] # digest
  /\ installed' = [installed EXCEPT ![p] = digest]
  /\ UNCHANGED <<trees, selected, machine>>

Select(p) ==
  /\ p \notin {selected, "nim"}
  /\ selected' = p
  /\ UNCHANGED <<trees, installed, machine>>

Move(m) ==
  /\ m # machine
  /\ machine' = m
  /\ UNCHANGED <<trees, installed, selected>>

Change ==
  /\ at = "idle" /\ changes < MaxChanges /\ Len(store) < MaxRuns
  /\ \/ \E w \in Workloads : Edit(w) \/ RemoveOutputs(w)
     \/ \E p \in Paths : Select(p) \/ \E digest \in Digests : Install(p, digest)
     \/ \E m \in Machines.others : Move(m)
  /\ clock' = clock + 1 /\ changes' = changes + 1
  /\ UNCHANGED <<wrapper, at, run, store, failures>>

-----------------------------------------------------------------------------
(* One Run *)

(* verify_true_noop_precondition                                           *)
MayStart(w, label) ==
  label = "TrueNoop" => \A i \in DOMAIN Roots(w) : Roots(w)[i] \cap Present(w) # {}

(* The steps of Scenario::prepare; the first that fails ends it.           *)
Steps(w, label) == IF label = "Cold" THEN Len(Roots(w)) ELSE IF label = "Warm" THEN 1 ELSE 0

Prepared(w, label, done) ==
  CASE label = "Cold" /\ done > 0 ->
         [trees EXCEPT ![w].files = Without(@, UNION {Roots(w)[i] : i \in 1 .. done})]
    [] label = "Warm" /\ done > 0 -> [trees EXCEPT ![w].edited = clock]
    [] OTHER -> trees

(* doctor::build: the digest of every declared toolchain.                  *)
Captured == [p \in Declared |-> installed[p]]

(* prepare_cargo_wrapping: the rustc that the wrapper stands for.          *)
Wrapped(w) == IF wrapper /\ w = "rust-heavy-workspace" THEN Compiler(w) ELSE None

(* The preparation, then what run_and_record finds out before it starts    *)
(* the build.                                                              *)
Prepare(w, label) ==
  /\ at = "idle" /\ Len(store) < MaxRuns
  /\ MayStart(w, label)
  /\ trees' = Prepared(w, label, Steps(w, label))
  /\ run' = [workload |-> w, label |-> label, machine |-> machine,
             report |-> Captured, wrapped |-> Wrapped(w)]
  /\ at' = "prepared"
  /\ clock' = clock + 1
  /\ UNCHANGED <<installed, selected, machine, wrapper, store, changes, failures>>

PrepareFails(w, label) ==
  /\ at = "idle" /\ Len(store) < MaxRuns /\ failures < MaxFailures
  /\ \E done \in 0 .. Steps(w, label) - 1 : trees' = Prepared(w, label, done)
  /\ failures' = failures + 1
  /\ clock' = clock + 1
  /\ UNCHANGED <<installed, selected, machine, wrapper, at, run, store, changes>>

(* The build tool: it compiles when an output is missing, older than the   *)
(* sources or made by another compiler; Cargo rewrites its dep-info file   *)
(* every time.                                                             *)
UpToDate(w) ==
  \A f \in Files(w) \ DepInfo :
    /\ f \in Present(w)
    /\ trees[w].files[f].stamp > trees[w].edited
    /\ trees[w].files[f].by = installed[Compiler(w)]

Written(w, ok) ==
  IF UpToDate(w) THEN {DepInfo \cap Files(w)}
  ELSE IF ok THEN {Files(w)} ELSE SUBSET Files(w) \ {Files(w)}

(* artifact_inventory: the diff of two snapshots, by size and time; the    *)
(* size adds nothing to a clock that ticks.                                *)
Diff(pre, post) ==
  [f \in DOMAIN pre \cup DOMAIN post |->
     CASE f \notin DOMAIN pre -> "Created" [] f \notin DOMAIN post -> "Deleted"
       [] f \in DOMAIN pre \cap DOMAIN post ->
            IF pre[f].stamp = post[f].stamp THEN "Unchanged" ELSE "Modified"]

(* The Run as it is assembled and first written, and what really happened. *)
Recorded(w, ok, pre, post) ==
  [workload |-> w, machine |-> run.machine, report |-> run.report, wrapped |-> run.wrapped,
   root |-> Compiler(w), success |-> ok, delta |-> Diff(pre, post),
   processes |-> IF wrapper /\ ~UpToDate(w) THEN 2 ELSE 1,
   cacheState |-> None, violated |-> FALSE,
   compiled |-> ~UpToDate(w), by |-> installed[Compiler(w)], content |-> trees[w].content,
   made |-> {post[f] : f \in DOMAIN post \ DepInfo}]

(* observe_around the traced command, and write_run.                       *)
Build(ok) ==
  LET w    == run.workload
      pre  == trees[w].files
      made == [content |-> trees[w].content, by |-> installed[Compiler(w)], stamp |-> clock]
  IN
  /\ at = "prepared"
  /\ ~ok => failures < MaxFailures /\ ~UpToDate(w)
  /\ \E written \in Written(w, ok) :
       LET post == [f \in DOMAIN pre \cup written |-> IF f \in written THEN made ELSE pre[f]] IN
       /\ trees' = [trees EXCEPT ![w].files = post]
       /\ store' = Append(store, Recorded(w, ok, pre, post))
  /\ at' = "recorded"
  /\ clock' = clock + 1
  /\ failures' = IF ok THEN failures ELSE failures + 1
  /\ UNCHANGED <<installed, selected, machine, wrapper, run, changes>>

States(delta, state) == {f \in DOMAIN delta : delta[f] = state}

(* Mutant: a few changed files are tolerated, whatever they are.           *)
FewViolations(r) == Cardinality(States(r.delta, "Created") \cup States(r.delta, "Modified")) > 2

(* true_noop_postcondition_violation                                       *)
Violation(r) ==
  \/ States(r.delta, "Created") # {}
  \/ States(r.delta, "Modified") \ DepInfo # {}

(* The label is added and the Run written again; on a violation it is      *)
(* written with a note and then refused.                                   *)
Label ==
  /\ at = "recorded"
  /\ store' = [store EXCEPT ![Len(store)].cacheState = run.label,
                            ![Len(store)].violated = run.label = "TrueNoop" /\ Violation(store[Len(store)])]
  /\ at' = "idle" /\ run' = None
  /\ UNCHANGED <<world, wrapper, changes, failures>>

(* The process is killed, or the second write fails.                       *)
Abandon ==
  /\ at # "idle" /\ failures < MaxFailures
  /\ failures' = failures + 1
  /\ at' = "idle" /\ run' = None
  /\ UNCHANGED <<world, wrapper, store, changes>>

RunStep ==
  \/ \E s \in Scenarios : Prepare(s[1], s[2]) \/ PrepareFails(s[1], s[2])
  \/ \E ok \in BOOLEAN : Build(ok)
  \/ Label
  \/ Abandon

Next == Change \/ RunStep

Spec == Init /\ [][Next]_vars

-----------------------------------------------------------------------------
(* Reports *)

(* toolchain_identity_from_run: the path that was used, in the report.     *)
Toolchain(r) ==
  LET used == IF r.workload = "nim-heavy-workspace" THEN r.root ELSE r.wrapped
  IN  IF used \in DOMAIN r.report THEN r.report[used] ELSE None

(* environments_comparable: what either side did not observe agrees.       *)
SameMachine(r, q) == r.machine = q.machine \/ None \in {r.machine, q.machine}

(* Mutant: the first Run speaks for the others.                            *)
FirstSpeaks(runs) == \E i \in DOMAIN runs : runs[i].success

(* build_report, of what run_scenario_repeated returns or what             *)
(* regenerate_report_from_disk reads: a nonempty list of Runs.             *)
Reportable(runs) ==
  /\ \E i \in DOMAIN runs : runs[i].success
  /\ \A i \in DOMAIN runs : /\ runs[i].workload = runs[1].workload
                            /\ SameMachine(runs[1], runs[i])
                            /\ Toolchain(runs[i]) = Toolchain(runs[1])

(* range: the least and the greatest of the values.                        *)
Bounds(values) == <<Min(values), Max(values)>>

(* compare_reports                                                         *)
Comparable(baseline, candidate) ==
  /\ \A r \in Range(baseline) \cup Range(candidate) : r.success
  /\ baseline[1].workload = candidate[1].workload
  /\ SameMachine(baseline[1], candidate[1])
  /\ Toolchain(baseline[1]) = Toolchain(candidate[1])
  /\ Toolchain(baseline[1]) # None

Profile(runs) ==
  LET count(state) == Bounds({Cardinality(States(r.delta, state)) : r \in Range(runs)})
  IN  <<count("Created"), count("Modified"), count("Deleted")>>

Confounded(baseline, candidate) ==
  \/ Bounds({r.processes : r \in Range(baseline)}) # Bounds({r.processes : r \in Range(candidate)})
  \/ Profile(baseline) # Profile(candidate)

Lists    == {<<i>> : i \in DOMAIN store} \cup {<<i, j>> : i, j \in DOMAIN store}
Reports  == {runs \in {[k \in DOMAIN ids |-> store[ids[k]]] : ids \in Lists} : Reportable(runs)}
Verdicts == {v \in Reports \X Reports : Comparable(v[1], v[2])}

(* Mutant: toolchains that are both unresolved agree.                      *)
UnresolvedAgrees(r, q) ==
  r.content = q.content /\ Toolchain(r) = Toolchain(q) /\ r.workload = q.workload

(* decide_reuse on the identity keys of two Runs, each computed before the *)
(* sources change again; the command is that of the workload.              *)
Reusable(r, q) ==
  /\ r.content = q.content
  /\ Toolchain(r) = Toolchain(q) /\ Toolchain(r) # None
  /\ r.workload = q.workload

-----------------------------------------------------------------------------
(* Properties *)

(* A label is the truth: what succeeded and is kept as a true no-op        *)
(* compiled nothing, and what is kept as a cold build reused nothing.      *)
LabelsAreTrue ==
  \A r \in Range(store) :
    /\ r.cacheState = "TrueNoop" /\ r.success /\ ~r.violated => ~r.compiled
    /\ r.cacheState = "Cold" => r.compiled /\ States(r.delta, "Created") = DOMAIN r.delta

(* Reports are compared only if every Run behind them succeeded, on one    *)
(* workload, with one compiler (the one that ran, whatever is declared or  *)
(* selected at other times) and, if it was always observed, on one         *)
(* machine; and a verdict without a note compares the same work: both      *)
(* sides have Runs that compiled, or neither; Runs that did not, or        *)
(* neither.                                                                *)
VerdictsAreFair ==
  at = "idle" => \A v \in Verdicts :
    LET Compiled(side) == {r.compiled : r \in Range(side)}
        runs == Range(v[1]) \cup Range(v[2])
    IN /\ \A r, q \in runs :
            /\ r.success
            /\ r.workload = q.workload
            /\ r.by = q.by
            /\ None \notin {s.machine : s \in runs} => r.machine = q.machine
       /\ ~Confounded(v[1], v[2]) => Compiled(v[1]) = Compiled(v[2])

(* What may be reused is what would be built: two Runs that succeeded and  *)
(* whose identities agree left the same outputs behind.                    *)
ReuseIsSound ==
  LET Outcome(r) == {[content |-> m.content, by |-> m.by] : m \in r.made} IN
  \A r, q \in Range(store) :
    r.success /\ q.success /\ Reusable(r, q) => Outcome(r) = Outcome(q)

=============================================================================
