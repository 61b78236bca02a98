------------------------ MODULE FixedGraphPublication ------------------------
(***************************************************************************)
(* The production run of the fixed Cargo/Nimble/C/C++ graph over one       *)
(* output directory (crates/laminaria-run/src/g2_execute.rs,               *)
(* execute_fixed_m1_graph) and the independent consumer of what it         *)
(* publishes (exact_artifact_harness.rs, qualify_published_artifact).      *)
(*                                                                         *)
(* The run builds in place, one tool after the other, and publishes by     *)
(* renaming two staged files.  It may fail or be killed anywhere and be    *)
(* started again; a tool of a killed run may go on and write its output    *)
(* during a later one.  Sources are edited and the consumer reads the      *)
(* directory at any time.  A file is what it was made from, which stands   *)
(* for its bytes and its digest; Torn is a file that was cut short.        *)
(*                                                                         *)
(* What the run records on the way is ObligationLifecycle; here the gate   *)
(* opens for a run that recorded all its actions, as that module shows.    *)
(***************************************************************************)
EXTENDS Naturals

CONSTANTS
  Versions,   \* contents of the sources
  Answering,  \* those whose program answers as the fixture expects
  Nothing, Torn,
  MaxFaults,  \* bound on failures, kills and runs with a seeded gap
  MaxEdits    \* bound on edits of the sources

ASSUME AnsweringVersions == Answering \subseteq Versions

NativeArchives == {"cadd", "cppmax"}
Archives == NativeArchives \cup {"doubler"}
OutputFiles == Archives \cup {"object", "app", "provenance", "manifest",
                             "stagedProvenance", "stagedManifest"}
After    == [cadd |-> "cppmax", cppmax |-> "doubler", doubler |-> "object", object |-> "app",
             app |-> "hash", hash |-> "preflight", preflight |-> "record", record |-> "gate",
             gate |-> "publishProvenance", publishProvenance |-> "publishManifest"]
Steps    == DOMAIN After \cup {"publishManifest"}
Gaps     == {Nothing, "build", "preflight", "provenance"}   \* SeededGap

(* An executable runs as expected when all it is made from is good.        *)
Program == [Archives \cup {"main"} -> Versions]
ProvenanceStatements == [subject : Program, omitted : Gaps]
Answers(x) == x \in [Archives \cup {"main"} -> Answering]

ASSUME MarksAreNotStatements == {Nothing, Torn} \cap (ProvenanceStatements \cup Program) = {}

VARIABLES
  source, edits,
  file,      \* content of each file, Nothing when absent
  step,      \* where the run stands, "idle" when there is none
  tool,      \* the tool it waits for: "none", "running", "exited"
  tools,     \* tools that run, also those of a killed run
  linked,    \* digest the link recorded
  omitted,   \* the action the run leaves out (tests seed such a gap)
  faults,
  at,        \* where the consumer stands
  seen, copy    \* the manifest it read, its isolated copy of the subject

producer == <<step, tool, tools, linked, omitted, faults>>
consumer == <<at, seen, copy>>
publicationVars == <<source, edits, file, producer, consumer>>

Consistent ==
  /\ file["manifest"] # Nothing /\ file["provenance"] # Nothing
  /\ file["manifest"].subject = file["app"]
  /\ file["provenance"].subject = file["app"]

PublicationInit ==
  /\ source \in Versions /\ edits = 0
  /\ file = [f \in OutputFiles |-> Nothing]
  /\ step = "idle" /\ tool = "none" /\ tools = {} /\ faults = 0
  /\ linked = Nothing /\ omitted = Nothing
  /\ at = "idle" /\ seen = Nothing /\ copy = Nothing

Advance == step' = After[step] /\ tool' = "none"
Forget  == step' = "idle" /\ tool' = "none" /\ linked' = Nothing /\ omitted' = Nothing
RunEnds == Forget /\ UNCHANGED <<tools, faults>>

-----------------------------------------------------------------------------
(* The production run *)

Start(gap) ==
  /\ step = "idle"
  /\ gap # Nothing => faults < MaxFaults
  /\ step' = "cadd" /\ omitted' = gap
  /\ faults' = IF gap = Nothing THEN faults ELSE faults + 1
  /\ UNCHANGED <<file, tool, tools, linked>>

Tool(f, content, open, waited) ==
  [file |-> f, content |-> content, open |-> open, waited |-> waited]

Spawn(f, content) ==
  /\ step = f /\ tool = "none" /\ tool' = "running"
  /\ tools' = tools \cup {Tool(f, content, FALSE, TRUE)}
  /\ UNCHANGED <<file, step, linked, omitted, faults>>

(* Mutant: an archive of an earlier run is not removed.                    *)
LeftInPlace(a) == file[a]

(* What `ar` finds: the archive of an earlier run was removed.             *)
Existing(a) == Nothing

(* compile_and_archive_native_source: `ar` refuses a malformed archive.    *)
CompileNative(a) ==
  IF Existing(a) = Torn THEN step = a /\ tool = "none" /\ RunEnds /\ UNCHANGED file
                        ELSE Spawn(a, source)

CompileNim  == Spawn("doubler", source)
CompileRust == Spawn("object", source)

(* The link compiles main.rs once more and takes the archives as they are. *)
Link ==
  IF \E a \in Archives : file[a] \in {Torn, Nothing}
  THEN step = "app" /\ tool = "none" /\ RunEnds /\ UNCHANGED file
  ELSE Spawn("app", [p \in Archives \cup {"main"} |-> IF p = "main" THEN source ELSE file[p]])

ToolOpens(t) ==
  /\ ~t.open
  /\ file' = [file EXCEPT ![t.file] = Torn]
  /\ tools' = (tools \ {t}) \cup {Tool(t.file, t.content, TRUE, t.waited)}
  /\ UNCHANGED <<step, tool, linked, omitted, faults>>

ToolExits(t) ==
  /\ t.open
  /\ file' = [file EXCEPT ![t.file] = t.content]
  /\ tools' = tools \ {t}
  /\ tool' = IF t.waited THEN "exited" ELSE tool
  /\ UNCHANGED <<step, linked, omitted, faults>>

(* verify_symbol_defined and the digest, or, for the link, the first run.  *)
Verify ==
  /\ tool = "exited"
  /\ IF IF step = "app" THEN Answers(file["app"]) ELSE file[step] \notin {Torn, Nothing}
     THEN Advance /\ UNCHANGED <<tools, linked, omitted, faults>>
     ELSE RunEnds
  /\ UNCHANGED file

HashExecutable ==
  /\ step = "hash" /\ linked' = file["app"] /\ Advance
  /\ UNCHANGED <<file, tools, omitted, faults>>

(* Mutant: the digest of the clean copy is not compared.                   *)
AnyBytes == Answers(file["app"])

(* preflight_runtime_contract: a copy in a clean directory has the digest  *)
(* that was linked, and runs there alone.                                  *)
ExactBytes == file["app"] = linked /\ Answers(file["app"])

Preflight ==
  /\ step = "preflight"
  /\ IF ExactBytes THEN Advance /\ UNCHANGED <<tools, linked, omitted, faults>> ELSE RunEnds
  /\ UNCHANGED file

Statement == [subject |-> linked, omitted |-> omitted]   \* provenance and manifest alike

(* The actions are recorded one after the other, and a record whose        *)
(* dependency is missing fails.  The provenance is staged before its own   *)
(* record is tried: without a preflight, the staged file stays.            *)
Record ==
  /\ step = "record"
  /\ file' = IF omitted \in {Nothing, "preflight"}
             THEN [file EXCEPT !["stagedProvenance"] = Statement] ELSE file
  /\ IF omitted \in {Nothing, "provenance"}
     THEN Advance /\ UNCHANGED <<tools, linked, omitted, faults>> ELSE RunEnds

GateOpens == omitted = Nothing

(* publication_manifest, then the staged manifest; a blocked publication   *)
(* removes the staged files.                                               *)
PublicationGate ==
  /\ step = "gate"
  /\ IF GateOpens
     THEN /\ file' = [file EXCEPT !["stagedManifest"] = Statement]
          /\ Advance /\ UNCHANGED <<tools, linked, omitted, faults>>
     ELSE /\ file' = [file EXCEPT !["stagedProvenance"] = Nothing, !["stagedManifest"] = Nothing]
          /\ RunEnds

(* publish_staged_file: one rename each.                                   *)
Rename(staged, published) == file' = [file EXCEPT ![published] = file[staged], ![staged] = Nothing]

PublishProvenance ==
  /\ step = "publishProvenance"
  /\ IF file["stagedProvenance"] = Nothing THEN RunEnds /\ UNCHANGED file
     ELSE Rename("stagedProvenance", "provenance") /\ Advance /\ UNCHANGED <<tools, linked, omitted, faults>>

PublishManifest == step = "publishManifest" /\ Rename("stagedManifest", "manifest") /\ RunEnds

(* Any other error returns where it occurs: nothing is undone.             *)
Fails ==
  /\ step # "idle" /\ faults < MaxFaults /\ faults' = faults + 1
  /\ Forget
  /\ tools' = {t \in tools : ~t.waited}
  /\ UNCHANGED file

(* The run is killed; the tool it waits for may survive, and a staged file *)
(* may be cut short.                                                       *)
Killed ==
  /\ step # "idle" /\ faults < MaxFaults /\ faults' = faults + 1
  /\ Forget
  /\ tools' = {Tool(t.file, t.content, t.open, FALSE) : t \in tools}
  /\ \/ UNCHANGED file
     \/ step = "record" /\ file' = [file EXCEPT !["stagedProvenance"] = Torn]
     \/ step = "gate" /\ file' = [file EXCEPT !["stagedManifest"] = Torn]

Proceed ==
  \/ Start(Nothing)
  \/ \E a \in NativeArchives : CompileNative(a)
  \/ CompileNim \/ CompileRust \/ Link
  \/ \E t \in tools : ToolOpens(t) \/ ToolExits(t)
  \/ Verify \/ HashExecutable \/ Preflight \/ Record \/ PublicationGate
  \/ PublishProvenance \/ PublishManifest

Produce == Proceed \/ Fails \/ Killed \/ \E gap \in Gaps \ {Nothing} : Start(gap)

-----------------------------------------------------------------------------
(* The consumer *)

Verdicts == {"Pass", "Fail", "DependencyMissing", "refused"}

Ends(verdict) == at' = verdict /\ seen' = Nothing /\ copy' = Nothing

ReadManifest ==
  /\ at \in {"idle"} \cup Verdicts
  /\ file["manifest"] # Nothing
  /\ at' = "hash" /\ seen' = file["manifest"] /\ copy' = Nothing

HashSubject ==
  /\ at = "hash"
  /\ IF file["app"] = seen.subject THEN at' = "inspect" /\ UNCHANGED <<seen, copy>>
                                  ELSE Ends("refused")

(* The manifest closes the runtime obligation by one contract of a         *)
(* preflight; its loader and providers are looked up under a root that the *)
(* consumer chose; readelf and nm read the subject.                        *)
Inspect(provided) ==
  /\ at = "inspect"
  /\ \/ seen.omitted = "preflight" /\ Ends("refused")
     \/ seen.omitted # "preflight" /\ ~provided /\ Ends("DependencyMissing")
     \/ seen.omitted # "preflight" /\ provided /\ file["app"] \in {Torn, Nothing} /\ Ends("refused")
     \/ seen.omitted # "preflight" /\ provided /\ file["app"] \notin {Torn, Nothing}
        /\ at' = "isolate" /\ UNCHANGED <<seen, copy>>

(* Mutant: the isolated subject is not hashed again.                       *)
Copied(bytes) == TRUE

SameBytes(bytes) == bytes = seen.subject

(* The subject is copied into a directory of the consumer's own, hashed    *)
(* again and executed there.                                               *)
Execute ==
  /\ at = "isolate"
  /\ IF SameBytes(file["app"])
     THEN /\ copy' = file["app"]
          /\ at' = IF Answers(copy') THEN "Pass" ELSE "Fail"
          /\ UNCHANGED seen
     ELSE Ends("refused")

Consume == \/ ReadManifest \/ HashSubject \/ Execute
           \/ \E provided \in BOOLEAN : Inspect(provided)

Edit ==
  /\ edits < MaxEdits /\ edits' = edits + 1
  /\ source' \in Versions \ {source}

PublicationNext ==
  \/ Produce /\ UNCHANGED <<source, edits, consumer>>
  \/ Consume /\ UNCHANGED <<source, edits, file, producer>>
  \/ Edit /\ UNCHANGED <<file, producer, consumer>>

PublicationSpec == PublicationInit /\ [][PublicationNext]_publicationVars

(* The run is started again whenever there is none, and nothing in it      *)
(* waits for ever.                                                         *)
FairSpec ==
  PublicationSpec /\ WF_publicationVars(Proceed /\ UNCHANGED <<source, edits, consumer>>)

-----------------------------------------------------------------------------
(* Properties *)

(* What a published manifest names has been run as exactly these bytes and *)
(* has answered as expected, whatever a left-over tool wrote meanwhile.    *)
PublishedAnswers ==
  file["manifest"] # Nothing => Answers(file["manifest"].subject)

(* Both published files come from runs that the gate let through, never    *)
(* from a staged file that an interrupted or blocked run left behind.      *)
PublishedPassedGate ==
  \A f \in {"manifest", "provenance"} :
    file[f] # Nothing => file[f] # Torn /\ file[f].omitted = Nothing

(* A kill between the two renames leaves no manifest without a provenance. *)
ManifestNeverAlone == file["manifest"] # Nothing => file["provenance"] # Nothing

(* A consumer that passes has executed the bytes that the manifest it read *)
(* names, although the directory changes under it.                         *)
PassIsExact == at \in {"Pass", "Fail"} => copy = seen.subject

(* Whatever state interrupted runs leave, running again restores a         *)
(* directory whose executable, provenance and manifest agree.              *)
Recovers == <>[](source \in Answering) => []<>(step = "idle" /\ Consistent)
=============================================================================
