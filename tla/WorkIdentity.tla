----------------------------- MODULE WorkIdentity -----------------------------
(***************************************************************************)
(* What an artifact of the compiler is called.  The id of an action is     *)
(* computed from what its descriptor says                                  *)
(* (crates/laminaria-plan/src/compiler_work.rs), travels with the plan,    *)
(* and is the key under which the executor keeps the result                *)
(* (crates/laminaria-run/src/compiler_work_executor.rs), in a store that   *)
(* outlives plans and edits of the sources.                                *)
(*                                                                         *)
(* A string is a sequence of letters.  The hash is one without collisions: *)
(* the text itself, in brackets.  The path that a program carries for its  *)
(* diagnostics is left out.                                                *)
(***************************************************************************)
EXTENDS Integers, Sequences, SequencesExt

CONSTANTS
  Files,        \* paths
  Texts,        \* what a file may hold: a set of function names for each
  Requests,     \* lists of the functions to lower
  Calls, Arity, \* which function calls which, and its parameters
  Tests,        \* lists of rows of arguments
  Versions,     \* versions of an operation
  Macho,        \* the one target contract with a code generator
  MaxResults    \* bound: results the store holds

VARIABLES disk,    \* path -> text
          results \* ArtifactStore: map -> id -> result
identityVars == <<disk, results>>

Functions == UNION {Texts[t] : t \in DOMAIN Texts}
Languages == {"rust", "nim"}
StoreMaps == {"candidates", "validated", "evidence", "native_objects"}

Hash(stream) == <<"(">> \o stream \o <<")">>

(* Fnv1a::write_str                                                        *)
WriteStrings(parts) == FlattenSeq([i \in DOMAIN parts |-> Append(parts[i], "NUL")])

(* compute_artifact_id                                                     *)
ComputeArtifactId(operation, version, parts) ==
  Hash(WriteStrings(<<<<operation>>, <<version>>>> \o parts))

Join(strings, separator) ==
  FlattenSeq([i \in DOMAIN strings |-> IF i = 1 THEN strings[i] ELSE <<separator>> \o strings[i]])

(* canonical_test_inputs                                                   *)
CanonicalTestInputs(rows) ==
  Join([i \in DOMAIN rows |-> Join([j \in DOMAIN rows[i] |-> <<ToString(rows[i][j])>>], ",")], ";")

(* compute_source_snapshot_id                                              *)
SnapshotOf(text) == Hash(<<text>>)

(* Mutant: the function that is evaluated is not part of the name.         *)
EvidenceOf(d) == <<d.input, CanonicalTestInputs(d.tests), <<d.contract>>>>

(* recompute_work_id: what each kind of work is named after.               *)
EvidenceParts(d) == <<d.input, d.functions[1], CanonicalTestInputs(d.tests), <<d.contract>>>>
Parts(kind, d) ==
  CASE kind \in {"lower_source", "discover_source_dependencies"} ->
         <<<<d.language>>, d.snapshot, Join(d.functions, ","), <<d.contract>>>>
    [] kind \in {"validate_ir", "generate_native_object"} -> <<d.input, <<d.contract>>>>
    [] kind = "transform_function" ->
         <<d.input, d.caller, d.callee, <<d.transform>>, <<d.contract>>>>
    [] kind = "evaluate_evidence" -> EvidenceParts(d)

WorkId(kind, d) == ComputeArtifactId(kind, d.version, Parts(kind, d))

(* What may be asked: of a text that a file has or had, and of what the    *)
(* store holds.                                                            *)
Ids(map) == DOMAIN results[map]
Lowerings ==
  [version : Versions, language : Languages \cup {"c"}, file : Files,
   snapshot : {SnapshotOf(t) : t \in DOMAIN Texts}, functions : Requests, contract : {"c1"}]
Descriptors ==
  [ lower_source |-> Lowerings, discover_source_dependencies |-> Lowerings,
    validate_ir |-> [version : Versions, input : Ids("candidates"), contract : {"c1"}],
    transform_function |->
      [version : Versions, input : Ids("validated"), caller : Functions, callee : Functions,
       transform : {"anf", "checked"}, contract : {"c1"}],
    evaluate_evidence |->
      [version : Versions, input : Ids("validated"), functions : {<<f>> : f \in Functions},
       tests : Tests, contract : {"c1"}],
    generate_native_object |->
      [version : Versions, input : Ids("validated"), contract : {"c1", Macho}] ]
WorkKinds == DOMAIN Descriptors

(* independent_chain_actions: an action reads the artifacts it names and   *)
(* publishes one, named after itself.                                      *)
Authored(kind, d) ==
  LET id == WorkId(kind, d)
  IN  [kind |-> kind, id |-> id, descriptor |-> d,
       inputs |-> IF "input" \in DOMAIN d THEN {d.input} ELSE {}, outputs |-> {id}]

(* An action as it comes back with the plan: a field of its descriptor, or *)
(* one of its lists, may have become another.                              *)
Received(a) ==
  {a, [a EXCEPT !.inputs = {}], [a EXCEPT !.outputs = {}]}
  \cup {[a EXCEPT !.descriptor = d] :
          d \in {x \in Descriptors[a.kind] :
                   Cardinality({f \in DOMAIN x : x[f] # a.descriptor[f]}) = 1}}

(* validate_compiler_work_action                                           *)
Valid(a) ==
  /\ a.kind = "evaluate_evidence" => a.descriptor.tests # <<>>
  /\ WorkId(a.kind, a.descriptor) = a.id
  /\ a.outputs = {a.id}
  /\ "input" \in DOMAIN a.descriptor => a.descriptor.input \in a.inputs

(* The file still is what the descriptor says it was.                      *)
SnapshotHolds(d) == SnapshotOf(disk[d.file]) = d.snapshot

(* What each kind of work makes of what is there, if it makes anything.    *)
(* The Rust front end takes the functions asked for, the Nim one all.      *)
Program(d) ==
  [text |-> disk[d.file], language |-> d.language, steps |-> <<>>,
   functions |-> IF d.language = "nim" THEN Texts[disk[d.file]] ELSE Range(d.functions)]
LowerSource(d) ==
  {p \in {Program(d)} : /\ SnapshotHolds(d) /\ d.language \in Languages
                        /\ Range(d.functions) \subseteq Texts[disk[d.file]]}
ValidateIr(d) == {results.candidates[d.input] : i \in {d.input} \cap Ids("candidates")}
ValidatedInput(d) == {results.validated[i] : i \in {d.input} \cap Ids("validated")}
TransformFunction(d) ==
  {[p EXCEPT !.steps = Append(@, <<d.transform, d.caller, d.callee>>)] :
     p \in {q \in ValidatedInput(d) : {d.caller, d.callee} \subseteq q.functions
                                     /\ <<d.caller, d.callee>> \in Calls}}
EvaluateEvidence(d) ==
  {[program |-> p, evaluated |-> [i \in DOMAIN d.tests |-> <<d.functions[1], d.tests[i]>>]] :
     p \in {q \in ValidatedInput(d) : /\ d.functions[1] \in q.functions
                                     /\ \A row \in Range(d.tests) : Len(row) = Arity[d.functions[1]]}}
GenerateNativeObject(d) == {[object |-> p] : p \in {q \in ValidatedInput(d) : d.contract = Macho}}

(* dispatch_action, by the kinds it knows.                                 *)
Dispatched(kind, d) ==
  CASE kind = "lower_source"           -> LowerSource(d)
    [] kind = "validate_ir"            -> ValidateIr(d)
    [] kind = "transform_function"     -> TransformFunction(d)
    [] kind = "evaluate_evidence"      -> EvaluateEvidence(d)
    [] kind = "generate_native_object" -> GenerateNativeObject(d)
    [] OTHER                           -> {}

(* The map of the store that each kind of work puts its result into.       *)
MapOf == [lower_source |-> "candidates", validate_ir |-> "validated",
          transform_function |-> "candidates", evaluate_evidence |-> "evidence",
          generate_native_object |-> "native_objects"]

IdentityInit ==
  /\ disk \in [Files -> DOMAIN Texts]
  /\ results = [m \in StoreMaps |-> <<>>]

Edit(file, text) ==
  /\ disk[file] # text
  /\ disk' = [disk EXCEPT ![file] = text]
  /\ UNCHANGED results

(* An action is authored, comes back, is accepted and run.                 *)
Run(kind) ==
  /\ \E d \in Descriptors[kind] : \E a \in Received(Authored(kind, d)) :
       /\ Valid(a)
       /\ \E result \in Dispatched(kind, a.descriptor) :
            results' = [results EXCEPT ![MapOf[kind]] =
                       [i \in DOMAIN @ \cup {a.id} |-> IF i = a.id THEN result ELSE @[i]]]
  /\ UNCHANGED disk

Held == Cardinality(UNION {{m} \X Ids(m) : m \in StoreMaps})

IdentityNext ==
  \/ \E kind \in WorkKinds : Held < MaxResults /\ Run(kind)
  \/ \E file \in Files, text \in DOMAIN Texts : Edit(file, text)

-----------------------------------------------------------------------------
(* Properties *)

(* A name means one result: whatever is edited, asked for again in other   *)
(* words or changed on its way, a result that the store holds under a name *)
(* is never replaced by another.                                           *)
ANameIsOneResult ==
  [][\A m \in StoreMaps : \A i \in Ids(m) :
       i \in DOMAIN results'[m] /\ results'[m][i] = results[m][i]]_identityVars
=============================================================================
