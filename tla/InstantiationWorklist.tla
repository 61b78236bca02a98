----------------------- MODULE InstantiationWorklist -----------------------
(***************************************************************************)
(* plan_rust_a7_worklist (crates/laminaria-plan/src/rust_cross_layer.rs):  *)
(* the generic instances that an artifact needs, from the requested ones   *)
(* along the calls of their definitions.  A key is an instance; the code   *)
(* takes keys in their order, the model in any order.                      *)
(***************************************************************************)
EXTENDS Naturals, Sequences, FiniteSets, Functions

CONSTANTS Keys,             \* RustInstantiationKey
          RequestSources,   \* RustA7RequestSource
          Fingerprints,     \* of definitions
          WorklistInputs    \* [roots, definitions]

Definition == [fingerprint : Fingerprints, dependencies : SUBSET Keys]

ASSUME KeysAssumption == IsFiniteSet(Keys)

ASSUME WorklistInputsAssumption ==
  \A i \in WorklistInputs : /\ i.roots \subseteq Keys \X RequestSources
                            /\ DOMAIN i.definitions \subseteq Keys
                            /\ \A k \in DOMAIN i.definitions : i.definitions[k] \in Definition

VARIABLES
  asked,       \* the input
  queue,
  mentioned,   \* keys that were put in the queue
  visited,     \* keys whose calls were followed
  items,       \* the committed work items
  verdict      \* "running", "planned", "missing definition", "missing dependency" or "conflict"

worklistVars == <<asked, queue, mentioned, visited, items, verdict>>

Roots        == {r[1] : r \in asked.roots}
SourcesOf(k) == {r[2] : r \in {s \in asked.roots : s[1] = k}}
Defined      == DOMAIN asked.definitions
Calls(k)     == asked.definitions[k].dependencies

(* The ways to put the elements of a set in a queue, each once.            *)
Orders(S) == {q \in [1..Cardinality(S) -> S] : Range(q) = S}

WorklistInit ==
  /\ asked \in WorklistInputs
  /\ queue \in Orders(Roots) /\ mentioned = Roots
  /\ visited = {} /\ items = <<>> /\ verdict = "running"

Item(k) == [fingerprint |-> asked.definitions[k].fingerprint,
            dependencies |-> Calls(k), usage |-> SourcesOf(k)]

Stop(how) == verdict' = how /\ UNCHANGED <<asked, queue, mentioned, visited, items>>

Skip ==
  /\ Head(queue) \in visited
  /\ queue' = Tail(queue)
  /\ UNCHANGED <<asked, mentioned, visited, items, verdict>>

MissingDefinition == Head(queue) \notin Defined /\ Stop("missing definition")

Conflicting(k) == k \in DOMAIN items /\ items[k].fingerprint # asked.definitions[k].fingerprint

MissingDependency ==
  /\ Head(queue) \in Defined /\ ~Conflicting(Head(queue))
  /\ ~(Calls(Head(queue)) \subseteq Defined)
  /\ Stop("missing dependency")

Conflict == Head(queue) \in Defined /\ Conflicting(Head(queue)) /\ Stop("conflict")

(* Mutant: a key is visited as soon as it is mentioned.                    *)
ExpandMentioned ==
  LET k   == Head(queue)
      new == Calls(k) \ mentioned
  IN  /\ k \in Defined /\ ~Conflicting(k) /\ Calls(k) \subseteq Defined
      /\ \E more \in Orders(new) : queue' = Tail(queue) \o more
      /\ mentioned' = mentioned \cup new
      /\ visited' = visited \cup {k} \cup new
      /\ items' = [x \in DOMAIN items \cup {k} |-> IF x = k THEN Item(k) ELSE items[x]]
      /\ UNCHANGED <<asked, verdict>>

(* A key is mentioned when it enters the queue and visited when it leaves. *)
Expand ==
  LET k   == Head(queue)
      new == Calls(k) \ mentioned
  IN  /\ k \in Defined /\ ~Conflicting(k) /\ Calls(k) \subseteq Defined
      /\ \E more \in Orders(new) : queue' = Tail(queue) \o more
      /\ mentioned' = mentioned \cup new
      /\ visited' = visited \cup {k}
      /\ items' = [x \in DOMAIN items \cup {k} |-> IF x = k THEN Item(k) ELSE items[x]]
      /\ UNCHANGED <<asked, verdict>>

Take ==
  /\ verdict = "running" /\ queue # <<>>
  /\ \/ Skip
     \/ /\ Head(queue) \notin visited
        /\ MissingDefinition \/ Conflict \/ MissingDependency \/ Expand

Finish == verdict = "running" /\ queue = <<>> /\ Stop("planned")

WorklistNext == Take \/ Finish

WorklistSpec == WorklistInit /\ [][WorklistNext]_worklistVars

-----------------------------------------------------------------------------
(* Properties *)

Closed(S) == Roots \subseteq S /\ \A k \in S \cap Defined : Calls(k) \subseteq S
Needed    == {k \in Keys : \A S \in SUBSET Keys : Closed(S) => k \in S}

(* The work is what the requested instances need and nothing else, along   *)
(* diamonds and cycles, in whatever order the keys are met, with all the   *)
(* requests for an instance at that instance; and there is a plan just     *)
(* when everything that is needed has a definition.                        *)
WorkIsNeeded ==
  /\ verdict = "planned" =>
       /\ DOMAIN items = Needed /\ visited = Needed /\ mentioned = Needed
       /\ Needed \subseteq Defined
       /\ \A k \in Needed : items[k] = Item(k)
  /\ verdict \in {"missing definition", "missing dependency"} => ~(Needed \subseteq Defined)
  /\ verdict # "conflict"
=============================================================================
