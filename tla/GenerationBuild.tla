---------------------------- MODULE GenerationBuild ----------------------------
(***************************************************************************)
(* A generation: plan, verify the toolchains, clear the staging area, run  *)
(* the actions in the order of the plan and, for LAMINARIA itself, put the *)
(* binaries together (crates/laminaria-run/src/project_build.rs and        *)
(* self_build.rs), every tool recorded as a Run (lib.rs, store.rs).        *)
(*                                                                         *)
(* Sources are a version number that edits raise; a file is the version it *)
(* was built from.  The process may be killed, and a write may fail, at    *)
(* every step.  A tool that is running ends with its driver.               *)
(***************************************************************************)
EXTENDS PlanContract, SequencesExt

CONSTANTS Torn,                     \* a file whose writer ended in the middle
          MaxGenerations, MaxEdits  \* bounds

VARIABLES
  sources,                  \* version of the sources
  staging, top,             \* files in <generation>/.build and in <generation>
  store,                    \* the Runs, in order
  request, needs, order,    \* what this generation is asked, needs, does
  toolchains,               \* the families resolved and verified for it
  at, result,
  position, exit, reported, \* the action, how its tool ended, what it named
  missing,                  \* binaries that were not there to copy
  generation, started, cleared

disk == <<staging, top>>
job  == <<request, needs, order, toolchains, generation, started>>
tool == <<exit, reported>>
vars == <<sources, disk, store, job, at, result, position, tool, missing, cleared>>

Makes == [nim |-> <<"planner">>, rust |-> <<"host", "wrapper">>]
Names == Makes.nim \o Makes.rust

(* LAMINARIA itself, or a project: what --requires and --nim-entry say and *)
(* what is found in its root.                                              *)
Requests ==
  {[kind |-> "self"]}
  \cup [kind : {"project"}, requires : {None} \cup SUBSET {"rust", "nim"}, cargoToml : BOOLEAN,
        byConvention : BOOLEAN, explicit : {None, "there", "missing"}]

(* resolve_nim_entry: an explicit entry, or the one convention names.      *)
EntryIsWrong(r) == r.explicit = "missing"
Entry(r)        == r.explicit = "there" \/ (r.explicit = None /\ r.byConvention)

(* determine_project_requirements: at most one answer.                     *)
Requirements(r) ==
  { n \in [rust : BOOLEAN, nim : BOOLEAN, entry : BOOLEAN] :
      IF r.kind = "self" THEN n.rust /\ n.nim /\ n.entry
      ELSE /\ n.rust \/ n.entry
           /\ n.nim => ~EntryIsWrong(r)
           /\ n.entry = (n.nim /\ Entry(r))
           /\ IF r.requires # None
              THEN n.rust = ("rust" \in r.requires) /\ n.nim = ("nim" \in r.requires)
              ELSE /\ n.rust = r.cargoToml /\ n.nim = Entry(r)
                   /\ ~(n.rust /\ n.nim) /\ ~EntryIsWrong(r) }

(* An action and what it makes have one name.                              *)
Work(id, kind, inputs) ==
  [id |-> id, kind |-> kind, inputs |-> inputs, outputs |-> <<id>>, work |-> None]

NimBuild   == Work("nim", "nim_build", {})
CargoBuild == Work("rust", "cargo_build", {})
Assembly   == Work("integrate", "integrate", {"nim", "rust"})

(* self_build_planning_input, project_planning_input: never an action for  *)
(* a language that is not needed.                                          *)
SelfInput ==
  [actions |-> <<NimBuild, CargoBuild, Assembly>>, demanded |-> {"integrate"}, physical |-> <<>>]

ProjectInput(n) ==
  LET actions == (IF n.rust THEN <<CargoBuild>> ELSE <<>>) \o (IF n.entry THEN <<NimBuild>> ELSE <<>>)
  IN  [actions |-> actions, demanded |-> {a.id : a \in Range(actions)}, physical |-> <<>>]

Input(r, n) == IF r.kind = "self" THEN SelfInput ELSE ProjectInput(n)

-----------------------------------------------------------------------------
(* The toolchains: the lock asks for a selector, the doctor answers with   *)
(* what it found.  A release is the parts of its version.                  *)

Families    == {"rust", "nim"}
Executables == [rust |-> {"cargo", "rustc"}, nim |-> {"nim"}]

(* selector_matches_resolved: a version part by part, a channel by its     *)
(* name, and nothing that cannot be verified.                              *)
Matches(selector, release, channel) ==
  \/ selector.kind = "any"
  \/ selector.kind = "version" /\ release # None /\ IsPrefix(selector.parts, release)
  \/ selector.kind = "channel" /\ channel # None /\ selector.name = channel

(* resolve_verified_rust, resolve_verified_nim: the first one declared.    *)
Verified(family, found) ==
  /\ found # None
  /\ Executables[family] \subseteq found.executables
  /\ Matches(found.selector, found.release, found.channel)

Selectors == [kind : {"any", "unverifiable"}]
             \cup [kind : {"version"}, parts : {<<2>>, <<2, 1>>, <<2, 1, 0>>}]
             \cup [kind : {"channel"}, name : {"stable", "nightly"}]

Releases == {None, <<2>>, <<2, 1>>, <<2, 10, 0>>}

(* A channel is derived from the release, Nim has none and is asked for its*)
(* release itself.                                                         *)
FoundRust == {f \in [selector : Selectors, release : Releases, channel : {None, "stable", "nightly"},
                     executables : SUBSET Executables.rust] : f.release = None <=> f.channel = None}
FoundNim  == {f \in [selector : Selectors, release : Releases, channel : {None},
                     executables : SUBSET Executables.nim] : f.release # None => f.executables # {}}
Findings  == [rust |-> {None} \cup FoundRust, nim |-> {None} \cup FoundNim]

Verdicts == [family \in Families |-> {Verified(family, f) : f \in Findings[family]}]

-----------------------------------------------------------------------------
(* The generation *)

Plans(input) ==
  LET actions == [id \in {a.id : a \in ActionsOf(input.actions)} |-> ById(input.actions, id)]
  IN  {[genuine |-> TRUE, ordered |-> o, actions |-> actions, physical |-> <<>>] :
         o \in [1..Cardinality(DOMAIN actions) -> DOMAIN actions]}

Init ==
  /\ sources = 0 /\ staging = <<>> /\ top = <<>> /\ store = <<>>
  /\ request = None /\ needs = None /\ order = <<>> /\ toolchains = {} /\ generation = 0 /\ started = 0
  /\ at = "idle" /\ result = "none" /\ position = 1
  /\ exit = FALSE /\ reported = {} /\ missing = {} /\ cleared = FALSE

Goto(step) == at' = step /\ UNCHANGED <<sources, generation, started>>
Ends(how)  == at' = "idle" /\ result' = how
              /\ UNCHANGED <<sources, job, position, tool, missing, cleared>>

Edit == /\ sources < MaxEdits /\ sources' = sources + 1
        /\ UNCHANGED <<disk, store, job, at, result, position, tool, missing, cleared>>

Ask(r) ==
  /\ at = "idle" /\ generation < MaxGenerations
  /\ generation' = generation + 1 /\ started' = sources /\ request' = r
  /\ at' = "asked" /\ result' = "none" /\ position' = 1 /\ missing' = {} /\ cleared' = FALSE
  /\ toolchains' = {}
  /\ UNCHANGED <<sources, disk, store, needs, order, tool>>

(* What is not read again of the request is forgotten.                     *)
Determine ==
  /\ at = "asked"
  /\ \/ \E n \in Requirements(request) :
          needs' = n /\ request' = [kind |-> request.kind] /\ Goto("determined")
          /\ UNCHANGED <<disk, store, order, toolchains, result, position, tool, missing, cleared>>
     \/ Requirements(request) = {} /\ Ends("refused") /\ UNCHANGED <<disk, store>>

(* The planner answers with a plan that passes validate, or the generation *)
(* is refused.                                                             *)
Plan ==
  /\ at = "determined"
  /\ \/ \E p \in Plans(Input(request, needs)) :
          /\ Accepts(p, Input(request, needs))
          /\ order' = p.ordered /\ Goto("planned")
          /\ UNCHANGED <<disk, store, request, needs, toolchains, result, position, tool, missing, cleared>>
     \/ Ends("refused") /\ UNCHANGED <<disk, store>>

Needed == {family \in Families : needs[family]}

(* The lock can be read and each family that is needed, no other, verified.*)
Resolve ==
  /\ at = "planned" /\ UNCHANGED <<disk, store>>
  /\ \E readable \in BOOLEAN, rust \in Verdicts.rust, nim \in Verdicts.nim :
       LET verified == (IF rust THEN {"rust"} ELSE {}) \cup (IF nim THEN {"nim"} ELSE {})
       IN  IF readable /\ Needed \subseteq verified
           THEN /\ toolchains' = Needed /\ Goto("resolved")
                /\ UNCHANGED <<request, needs, order, result, position, tool, missing, cleared>>
           ELSE Ends("refused")

(* `let _ = remove_dir_all`: whatever it could not remove stays.           *)
Clear ==
  /\ at = "resolved"
  /\ \E left \in SUBSET DOMAIN staging :
       /\ staging' = [f \in left |-> staging[f]] /\ cleared' = (left = {})
  /\ Goto("act") /\ UNCHANGED <<top, store, request, needs, order, toolchains, result, position, tool, missing>>

Action == order[position]

(* The verified families a command is made of: the program, and for a      *)
(* project of both languages the verified Nim on the PATH of Cargo.        *)
OnPath(id) == IF id = "rust" /\ request.kind = "project" /\ needs.rust /\ needs.nim THEN {"nim"} ELSE {}
Uses(id)   == {id} \cup OnPath(id)

Done ==
  /\ at = "act" /\ position > Len(order) /\ Ends("ok") /\ UNCHANGED <<disk, store>>

(* run_and_record_with_doctor: a Run of its own, its directory, the tool.  *)
Launch ==
  /\ at = "act" /\ position \in DOMAIN order /\ Action # "integrate"
  /\ store' = Append(store, [action |-> Action, generation |-> generation,
                             built |-> None, json |-> None, summary |-> None])
  /\ Goto("tool")
  /\ UNCHANGED <<disk, request, needs, order, toolchains, result, position, tool, missing, cleared>>

This == Len(store)
Expected == Range(Makes[Action])

(* A tool makes what it should, or exits well without making anything (a   *)
(* nim.cfg with --compileOnly, a package without targets), or fails and    *)
(* leaves some of it.  Only Cargo reports what it made or found fresh.     *)
ToolEnds ==
  /\ at = "tool"
  /\ \E ok \in BOOLEAN, made \in SUBSET Expected :
       /\ ok => made \in {{}, Expected}
       /\ exit' = ok
       /\ reported' = IF ok /\ Action = "rust" THEN made \cup (Expected \cap DOMAIN staging) ELSE {}
       /\ staging' = [f \in DOMAIN staging \cup made |-> IF f \in made THEN sources ELSE staging[f]]
  /\ store' = [store EXCEPT ![This].built = sources]
  /\ Goto("record") /\ UNCHANGED <<top, request, needs, order, toolchains, result, position, missing, cleared>>

(* Mutant: an exit status of zero is a success.                            *)
ExitsWell == exit

(* What was made must be there, for a project; integrate looks for itself. *)
Succeeded ==
  LET candidates == IF reported # {} THEN reported ELSE IF Action = "nim" THEN Expected ELSE {}
  IN  exit /\ (request.kind = "self" \/ (candidates # {} /\ candidates \subseteq DOMAIN staging))

Write(file, value, next) ==
  /\ store' = [store EXCEPT ![This][file] = value] /\ Goto(next)
  /\ UNCHANGED <<disk, request, needs, order, toolchains, result, position, tool, missing, cleared>>

(* write_run, and once more when the verdict is known, ...                 *)
RecordExit    == at = "record" /\ Write("json", [success |-> exit], "summarize")
SummarizeExit == at = "summarize" /\ Write("summary", [success |-> exit], "judged")

(* Mutant: the record keeps the exit status.                               *)
RecordAgain == at = "judged" /\ Write("json", [success |-> exit], "verdict")

RecordVerdict    == at = "judged" /\ Write("json", [success |-> Succeeded], "verdict")
SummarizeVerdict == at = "verdict" /\ Write("summary", store[This].json, "recorded")

(* ... and the first action that fails ends the generation.                *)
Proceed ==
  /\ at = "recorded" /\ UNCHANGED <<disk, store>>
  /\ \/ /\ Succeeded /\ position' = position + 1 /\ Goto("act")
        /\ UNCHANGED <<request, needs, order, toolchains, result, tool, missing, cleared>>
     \/ ~Succeeded /\ Ends("failed")

Integrate ==
  /\ at = "act" /\ position \in DOMAIN order /\ Action = "integrate"
  /\ Goto("copy 1") /\ missing' = {}
  /\ UNCHANGED <<disk, store, request, needs, order, toolchains, result, position, tool, cleared>>

CopyAt(i) == <<"copy 1", "copy 2", "copy 3", "assembled">>[i]

(* run_integrate_action copies over whatever is there, one after another.  *)
Copy(i) ==
  /\ at = CopyAt(i) /\ Goto(CopyAt(i + 1))
  /\ IF Names[i] \in DOMAIN staging
     THEN /\ top' = [f \in DOMAIN top \cup {Names[i]} |-> IF f = Names[i] THEN staging[f] ELSE top[f]]
          /\ UNCHANGED missing
     ELSE missing' = missing \cup {Names[i]} /\ UNCHANGED top
  /\ UNCHANGED <<staging, store, request, needs, order, toolchains, result, position, tool, cleared>>

Assembled ==
  /\ at = "assembled" /\ UNCHANGED <<disk, store>>
  /\ \/ /\ missing = {} /\ position' = position + 1 /\ Goto("act")
        /\ UNCHANGED <<request, needs, order, toolchains, result, tool, missing, cleared>>
     \/ missing # {} /\ Ends("failed")

Written == [record |-> "json", judged |-> "json", summarize |-> "summary", verdict |-> "summary"]

(* The process is killed, or a write fails and its error is returned.      *)
Abort ==
  /\ at # "idle" /\ Ends("aborted")
  /\ \/ UNCHANGED <<disk, store>>
     \/ at \in DOMAIN Written /\ store' = [store EXCEPT ![This][Written[at]] = Torn] /\ UNCHANGED disk
     \/ \E i \in DOMAIN Names : /\ at = CopyAt(i) /\ Names[i] \in DOMAIN staging
                                /\ top' = [f \in DOMAIN top \cup {Names[i]} |->
                                             IF f = Names[i] THEN Torn ELSE top[f]]
                                /\ UNCHANGED <<staging, store>>
     \/ /\ at = "tool" /\ UNCHANGED <<top, store>>
        /\ \E made \in SUBSET Expected :
             staging' = [f \in DOMAIN staging \cup made |-> IF f \in made THEN Torn ELSE staging[f]]

(* regenerate_summary_from_disk                                            *)
Regenerate(r) ==
  /\ at = "idle" /\ store[r].json \notin {None, Torn}
  /\ store' = [store EXCEPT ![r].summary = store[r].json]
  /\ UNCHANGED <<sources, disk, job, at, result, position, tool, missing, cleared>>

Next ==
  \/ Edit \/ Determine \/ Plan \/ Resolve \/ Clear \/ Done \/ Launch \/ ToolEnds
  \/ RecordExit \/ SummarizeExit \/ RecordVerdict \/ SummarizeVerdict \/ Proceed
  \/ Integrate \/ Assembled \/ Abort
  \/ \E i \in DOMAIN Names : Copy(i)
  \/ \E r \in Requests : Ask(r)
  \/ \E r \in DOMAIN store : Regenerate(r)

Spec == Init /\ [][Next]_vars

-----------------------------------------------------------------------------
(* Properties *)

Success == [success |-> TRUE]
RunsNow == {r \in Range(store) : r.generation = generation}

(* A generation that ended well, and could clear its staging area, has all *)
(* that it was to make, made from sources no older than its start by       *)
(* verified toolchains, and the record and the summary of each tool say    *)
(* that it made just that.                                                 *)
DeliversItsOwn ==
  result = "ok" /\ cleared =>
    \A id \in Range(order) \ {"integrate"} : \A f \in Range(Makes[id]) :
      LET delivered == IF request.kind = "self" THEN top ELSE staging
      IN  /\ Uses(id) \subseteq toolchains
          /\ f \in DOMAIN delivered /\ delivered[f] \in started..sources
          /\ \E r \in RunsNow : /\ r.action = id /\ r.json = Success /\ r.summary = Success
                                /\ r.built = delivered[f]

(* What a generation returns and what its Runs record is the same verdict. *)
EvidenceAgrees ==
  result \in {"ok", "failed"} =>
    \A r \in RunsNow : /\ r.json = r.summary
                       /\ r.json = Success <=> (result = "ok" \/ r.action # order[position])

=============================================================================
