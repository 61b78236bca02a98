------------------------- MODULE EcosystemIngestion -------------------------
(***************************************************************************)
(* ingest_fixture_input, which reads the manifests, the lock, the sources  *)
(* and the headers of a workspace, in a fixed order, and hands resolve the *)
(* facts they declare or stops at the first file it cannot use             *)
(* (crates/laminaria-run/src/cross_ecosystem_ingest.rs, with the readers   *)
(* of crates/laminaria-ir: *_discover.rs, cfg_predicate.rs).               *)
(*                                                                         *)
(* A step is one file, or two files of one package.  A text is the list of *)
(* the statements that its reader tells apart; a file that is missing, or  *)
(* that its reader refuses as a whole, is None.                            *)
(***************************************************************************)
EXTENDS DependencyResolution

CONSTANTS
  Workspaces,   \* the workspaces that may be ingested
  None          \* a missing file, or one that its reader refuses

VARIABLES
  workspace,   \* the files, constant
  found        \* what was read so far

ingestVars == <<workspace, found>>

(* The files are lists, which end; features are the keys of a table.       *)
ASSUME WorkspacesAssumption ==
  \A w \in Workspaces :
    /\ w.packages # None => /\ w.packages \in Seq(Elements(w.packages))
                            /\ \A p \in Elements(w.packages) :
                                 p.features # None => IsFiniteSet(DOMAIN p.features)
    /\ w.main # None => /\ w.main \in Seq(Elements(w.main))
                        /\ \A b \in Elements(w.main) : b.functions \in Seq(Elements(b.functions))

IngestInit ==
  /\ workspace \in Workspaces
  /\ found = <<>>
  /\ input = None /\ given = None
  /\ stage = "triple"
  /\ next = 1
  /\ obligations = <<>> /\ registered = {} /\ actions = <<>> /\ results = <<>>

-----------------------------------------------------------------------------
(* Cargo: the package whose manifest was asked for, and the features that  *)
(* a plain build activates.                                                *)

Asked == {i \in DOMAIN workspace.packages :
            /\ workspace.packages[i].manifest = "app"
            /\ \A j \in 1 .. i - 1 : workspace.packages[j].manifest # "app"}

CargoNamed == workspace.packages # None /\ \E i \in Asked : workspace.packages[i].features # None

(* resolve_default_active_features                                         *)
Activated(features) ==
  Closure({"default"}, LAMBDA f : IF f \in DOMAIN features THEN features[f] ELSE {},
          Cardinality(DOMAIN features) + 1)

-----------------------------------------------------------------------------
(* Nimble: one manifest, within the declared subset, that its lock meets.  *)

KnownKeys == {"version", "author", "description", "license", "srcDir", "binDir", "backend"}

(* A version is its numbers, none if it has another shape.                 *)
Numbered(version) == version # <<>>
Part(version, i)  == IF i <= Len(version) THEN version[i] ELSE 0
Before(v, w) ==
  \E i \in 1 .. Len(v) + Len(w) : /\ Part(v, i) < Part(w, i)
                                  /\ \A j \in 1 .. i - 1 : Part(v, j) = Part(w, j)

(* is_satisfied_by, Some(true); a requirement of another shape than a name *)
(* or a name, an operator and a version has no operator.                   *)
SatisfiedBy(requirement, pinned) ==
  LET wanted == requirement.version IN
  requirement.op # None =>
    /\ Numbered(wanted) /\ Numbered(pinned)
    /\ \/ requirement.op \in {"<", "<="} /\ Before(pinned, wanted)
       \/ requirement.op \in {"<=", "==", ">="} /\ ~Before(pinned, wanted) /\ ~Before(wanted, pinned)
       \/ requirement.op \in {">=", ">"} /\ Before(wanted, pinned)

Statements == workspace.nimble[1].statements

(* All statements of a manifest count.                                     *)
RequirementsOf(statements) ==
  UNION {Elements(s.list) : s \in {t \in Elements(statements) : t.key = "requires"}}

LockFits(requirements, lock) ==
  /\ \A q \in requirements : q.name \in DOMAIN lock => SatisfiedBy(q, lock[q.name])
  /\ \E q \in requirements : q.name = "nim" /\ "nim" \in DOMAIN lock

NimbleUsable ==
  /\ Len(workspace.nimble) = 1 /\ Statements # None /\ workspace.lock # None
  /\ \A s \in Elements(Statements) : s.key \in KnownKeys \cup {"requires"}
  /\ \E s \in Elements(Statements) : s.key = "version"
  /\ LockFits(RequirementsOf(Statements), workspace.lock)

(* The last one counts.                                                    *)
VersionOf(statements) == Last(SelectSeq(statements, LAMBDA s : s.key = "version")).value

-----------------------------------------------------------------------------
(* Rust: the functions of the foreign blocks that are active.              *)

(* CfgPredicate::evaluate; MaxNesting bounds the nesting of predicates.    *)
MaxNesting == 3

Operands(predicate) == IF predicate.op \in {"all", "any", "not"} THEN predicate.of ELSE {}

Holds(predicate, features, unix) ==
  LET holds[p \in Closure({predicate}, Operands, MaxNesting)] ==
        CASE p.op = "ident"   -> p.name = "unix" /\ unix
          [] p.op = "feature" -> p.name \in features
          [] p.op = "other"   -> FALSE
          [] p.op = "all"     -> \A q \in p.of : holds[q]
          [] p.op = "any"     -> \E q \in p.of : holds[q]
          [] p.op = "not"     -> \A q \in p.of : ~holds[q]
  IN holds[predicate]

Parsed(predicate) == predicate.op # "unparseable"

MainUsable ==
  workspace.main # None /\ \A b \in Elements(workspace.main) : \A p \in Elements(b.cfgs) : Parsed(p)

(* combined_cfg_predicate: stacked attributes are a conjunction.           *)
Active(block, features, unix) == \A p \in Elements(block.cfgs) : Holds(p, features, unix)

RequirementOf(block, f) ==
  FfiRequirement("main.rs", f.name, f.type, <<block.abi, f.params>>,
                 IF block.link = None THEN f.name ELSE block.link)

Required(main, features, unix) ==
  FlattenSeq([i \in DOMAIN main |->
                LET b == main[i] IN
                IF Active(b, features, unix)
                THEN [k \in DOMAIN b.functions |-> RequirementOf(b, b.functions[k])] ELSE <<>>])

-----------------------------------------------------------------------------
(* Declared exports: procs with an exportc pragma, under its argument or   *)
(* their own name; every prototype of a header.                            *)

ExportOf(symbol, f) == FfiExport(symbol, f.type, <<"C", f.params>>)

NimUsable == workspace.nim # None /\ \A p \in Elements(workspace.nim) : p.closed

NimExports(procs) ==
  {ExportOf(IF p.exportc = "" THEN p.name ELSE p.exportc, p) :
     p \in {q \in Elements(procs) : q.exportc # None}}

HeaderExports(path) == {ExportOf(f.name, f) : f \in Elements(workspace.headers[path])}

(* A C package: its header, then its source.                               *)
Usable(path) == path \in DOMAIN workspace.headers /\ path \in workspace.readable

CaddVersions == {"1.0.0", "2.0.0"}
CaddPath == [v \in CaddVersions |-> IF v = "1.0.0" THEN "cadd1" ELSE "cadd2"]

-----------------------------------------------------------------------------
(* The facts *)

Offer(package, version, ecosystem, sources, exports) ==
  PackageCandidate(package, version, ecosystem, "Target", found.triple, sources, exports)

Files(path) == {path, path \o ".h"}

Declaration(id, package, kind) == ArtifactOutput(id, package, kind, {})

NimFiles == {"doubler.nim", ".nimble", "nimble.lock"}

FixtureSources ==
  LET OfC(files, package) == {SourceModule(f, package) : f \in files}
  IN OfC({"main.rs"}, found.cargo.name) \cup OfC(NimFiles, found.nimble.name)
       \cup (UNION {OfC(c.sources, "cadd") : c \in Elements(found.cadd)})
       \cup OfC(Files("cppmax"), "cppmax")

FixtureCandidates ==
  <<Offer(found.cargo.name, found.cargo.version, "Cargo", {"main.rs"}, {}),
    Offer(found.nimble.name, found.nimble.version, "Nimble", NimFiles, found.exports)>>
  \o found.cadd \o <<found.cppmax>>

FixtureLowerings ==
  [p \in {found.cargo.name, found.nimble.name} |->
     IF p = found.cargo.name THEN "main.rs" ELSE "doubler.nim"]

FixtureOutputs ==
  <<Declaration("app.o", found.cargo.name, "RustObject"),
    Declaration("nim.a", found.nimble.name, "NimStaticLibrary"),
    Declaration("cadd.o", "cadd", "CObject"), Declaration("cadd.a", "cadd", "CStaticArchive"),
    Declaration("cppmax.o", "cppmax", "CppAdapterObject"),
    Declaration("cppmax.a", "cppmax", "CppStaticArchive"),
    Declaration("exe", found.cargo.name, "NativeExecutable")>>

FixtureInput ==
  DependencyResolutionInput(
    found.cargo.name, found.triple, FixtureSources, FixtureCandidates, found.required, FixtureLowerings,
    [s \in {r.symbol : r \in Elements(found.required)} |-> found.triple], FixtureOutputs)

-----------------------------------------------------------------------------
(* The steps of ingest_fixture_input *)

Found(facts, to) ==
  /\ found' = [k \in DOMAIN facts \cup DOMAIN found |->
                 IF k \in DOMAIN facts THEN facts[k] ELSE found[k]]
  /\ stage' = to
  /\ UNCHANGED <<workspace, input, given, obligations, registered, actions, results>>

(* host_target_triple: None without a `host:` line.                        *)
ReadTriple ==
  /\ stage = "triple" /\ workspace.triple # None
  /\ Found([triple |-> workspace.triple], "cargo")
  /\ UNCHANGED next

ReadCargo ==
  /\ stage = "cargo" /\ CargoNamed
  /\ \E i \in Asked :
       LET p == workspace.packages[i] IN
       Found([cargo |-> [name |-> p.name, version |-> p.version, active |-> Activated(p.features)]], "nimble")
  /\ UNCHANGED next

ReadNimble ==
  /\ stage = "nimble" /\ NimbleUsable
  /\ Found([nimble |-> [name |-> workspace.nimble[1].name, version |-> VersionOf(Statements)]], "main")
  /\ UNCHANGED next

ReadMain ==
  /\ stage = "main" /\ MainUsable
  /\ Found([required |-> Required(workspace.main, found.cargo.active, workspace.unix)], "exports")
  /\ UNCHANGED next

ReadExports ==
  /\ stage = "exports" /\ NimUsable
  /\ Found([exports |-> NimExports(workspace.nim), cadd |-> <<>>], "cadd")
  /\ UNCHANGED next

Wanted == workspace.wanted[next]

CaddUsable == Wanted \in DOMAIN CaddPath /\ Usable(CaddPath[Wanted])

ReadCadd ==
  /\ stage = "cadd" /\ next <= Len(workspace.wanted) /\ CaddUsable
  /\ LET path == CaddPath[Wanted] IN
     Found([cadd |-> Append(found.cadd, Offer("cadd", Wanted, "C", Files(path), HeaderExports(path)))], "cadd")
  /\ next' = next + 1

ReadCppmax ==
  /\ stage = "cadd" /\ next > Len(workspace.wanted) /\ Usable("cppmax")
  /\ Found([cppmax |-> Offer("cppmax", "1.0.0", "Cpp", Files("cppmax"), HeaderExports("cppmax"))], "facts")
  /\ next' = 1

(* Each of the reads may be the last one.                                  *)
Refuse ==
  /\ \/ stage = "triple"  /\ workspace.triple = None
     \/ stage = "cargo"   /\ ~CargoNamed
     \/ stage = "nimble"  /\ ~NimbleUsable
     \/ stage = "main"    /\ ~MainUsable
     \/ stage = "exports" /\ ~NimUsable
     \/ stage = "cadd"    /\ next <= Len(workspace.wanted) /\ ~CaddUsable
     \/ stage = "cadd"    /\ next > Len(workspace.wanted) /\ ~Usable("cppmax")
  /\ Found(<<>>, "refused")
  /\ UNCHANGED next

HandOver ==
  /\ stage = "facts"
  /\ input' = FixtureInput /\ given' = FixtureInput
  /\ stage' = "register"
  /\ UNCHANGED <<ingestVars, next, obligations, registered, actions, results>>

Ingest ==
  \/ ReadTriple \/ ReadCargo \/ ReadNimble \/ ReadMain \/ ReadExports
  \/ ReadCadd \/ ReadCppmax \/ Refuse \/ HandOver
=============================================================================
