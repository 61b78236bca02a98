------------------------- MODULE ResolvedProduction -------------------------
(***************************************************************************)
(* A resolved graph and the production run that records its actions: the   *)
(* facts of EcosystemIngestion, or others that DependencyResolution must   *)
(* cope with, the resolver, the driver loop of                             *)
(* crates/laminaria-run/src/g2_execute.rs (execute_fixed_m1_graph, for any *)
(* graph that resolve returns), and the records and the gate of            *)
(* ObligationLifecycle.                                                    *)
(*                                                                         *)
(* The tools themselves succeed here: FixedGraphPublication is about those *)
(* that do not.  Apart from the driver, any other caller may make records  *)
(* in any order on a graph that resolve returned, one of Closures.         *)
(***************************************************************************)
EXTENDS EcosystemIngestion

CONSTANTS
  Closures,   \* graphs for the other callers,
  Lists,      \* the obligations they report as resolved,
  MaxSeq      \* and the sequence numbers they use

VARIABLES closure, status, required, history, operations, resolutions, contracts, proofs

productionVars == <<closure, status, required, history, operations, resolutions, contracts, proofs>>

Lifecycle == INSTANCE ObligationLifecycle

ASSUME CallersAssumption ==
  \A c \in Closures : c \in Lifecycle!ClosureType(DOMAIN c.kind, DOMAIN c.actionKind)

allVars == <<vars, ingestVars, productionVars>>

NoGraph == [kind |-> <<>>, depends |-> <<>>, status |-> <<>>, required |-> <<>>,
            actionKind |-> <<>>, discharges |-> <<>>, needs |-> <<>>]

(* PositiveClosure, as the functions ObligationLifecycle reads; an action  *)
(* is found by its id, the first of them.                                  *)
Graph(os, as) ==
  LET ids == {a.id : a \in Elements(as)}
      Find(id) == as[CHOOSE k \in DOMAIN as : as[k].id = id /\ \A j \in 1 .. k - 1 : as[j].id # id]
  IN [kind       |-> [id \in DOMAIN os |-> KindOf(id)],
      depends    |-> [id \in DOMAIN os |-> os[id].dependsOn],
      status     |-> [id \in DOMAIN os |-> os[id].state],
      required   |-> [id \in DOMAIN os |-> os[id].action],
      actionKind |-> [id \in ids |-> Find(id).kind],
      discharges |-> [id \in ids |-> Find(id).discharges],
      needs      |-> [id \in ids |-> Find(id).dependsOn]]

Elsewhere == workspace = None /\ found = <<>>

DriverInit ==
  /\ (Init /\ Elsewhere) \/ IngestInit
  /\ closure = NoGraph /\ status = <<>> /\ required = <<>> /\ history = <<>>
  /\ operations = {} /\ resolutions = {} /\ contracts = {} /\ proofs = {}

(* A graph in the hands of another caller.                                 *)
CallerInit ==
  /\ stage = "any order" /\ input = None /\ given = None /\ next = 1
  /\ obligations = <<>> /\ registered = {} /\ actions = <<>> /\ results = <<>>
  /\ Elsewhere
  /\ Lifecycle!Init

ProductionInit == DriverInit \/ CallerInit

AnyRecord == stage = "any order" /\ Lifecycle!Next /\ UNCHANGED vars

(* ProductionGraph::new, on what the first call returned.                  *)
NewGraph ==
  /\ stage = "resolved" /\ results[1].verdict = "accepted"
  /\ closure' = Graph(results[1].obligations, results[1].actions)
  /\ status' = closure'.status
  /\ required' = closure'.required
  /\ history' = [id \in DOMAIN closure'.kind |-> <<>>]
  /\ stage' = "resolution"
  /\ UNCHANGED <<input, given, next, obligations, registered, actions, results,
                 operations, resolutions, contracts, proofs>>

StageTo(s) == stage' = s /\ UNCHANGED <<input, given, obligations, registered, actions, results>>

(* A set as a list.                                                        *)
Listed(S) ==
  LET some[n \in 0 .. Cardinality(S)] ==
        IF n = 0 THEN <<>>
        ELSE LET list == some[n-1] IN Append(list, CHOOSE x \in S \ Range(list) : TRUE)
  IN some[Cardinality(S)]

(* All that resolve selected or satisfied is recorded as resolved.         *)
RecordDecisions ==
  LET list == Listed({id \in Lifecycle!Obligations : status[id] \in Chosen}) IN
  /\ stage = "resolution"
  /\ IF Lifecycle!Resolvable(list)
     THEN Lifecycle!RecordResolution(list, 1) /\ StageTo("operations")
     ELSE StageTo("failed") /\ UNCHANGED productionVars
  /\ UNCHANGED next

Plan     == results[1].actions
Sequence == Cardinality(resolutions) + Cardinality(operations) + Cardinality(contracts) + 1

MayRecord(a) == a.id \notin Lifecycle!Recorded /\ Lifecycle!Validated(a.id, Sequence)

(* The actions are recorded in the order of the plan; a record that is     *)
(* refused ends the run.                                                   *)
RecordAction ==
  /\ stage = "operations" /\ next <= Len(Plan)
  /\ LET a == Plan[next] IN
     /\ MayRecord(a)
     /\ IF a.kind = "PreflightRuntimeContract"
        THEN Lifecycle!RecordRuntimeOperation(a.id, Sequence, Sequence + 1)
        ELSE Lifecycle!RecordOperation(a.id, Sequence)
     /\ StageTo(IF a.id \in {op.action : op \in operations'} THEN "operations" ELSE "failed")
  /\ next' = next + 1

RefuseAction ==
  /\ stage = "operations" /\ next <= Len(Plan)
  /\ ~MayRecord(Plan[next])
  /\ StageTo("failed")
  /\ UNCHANGED <<next, productionVars>>

(* publication_manifest, for the output of the link.                       *)
Gate ==
  /\ stage = "operations" /\ next > Len(Plan)
  /\ StageTo(IF Lifecycle!Publishable(<<"link">>) THEN "published" ELSE "blocked")
  /\ UNCHANGED <<next, productionVars>>

Production == NewGraph \/ RecordDecisions \/ RecordAction \/ RefuseAction \/ Gate

ProductionNext ==
  \/ Ingest /\ UNCHANGED productionVars
  \/ Resolve /\ UNCHANGED <<ingestVars, productionVars>>
  \/ (Production \/ AnyRecord) /\ UNCHANGED ingestVars

ProductionSpec == ProductionInit /\ [][ProductionNext]_allVars

-----------------------------------------------------------------------------
(* Properties *)

(* Of ObligationLifecycle, for the driver and for every other caller:      *)
(* nothing is published on a promise, and a record that failed half-way    *)
(* leaves a graph that nothing is published from any more.                 *)
GateIsHonest == [][Lifecycle!HonestStep]_productionVars

Matchers(facts, r) ==
  {c \in Elements(facts.candidates) : c.package = r.provider /\ c.role = "Target" /\ Declares(c, r)}

(* Two requirements on one package that different candidates meet.         *)
Split(facts) ==
  \E r, q \in Elements(facts.requirements) :
    r.provider = q.provider /\ Matchers(facts, r) # Matchers(facts, q)

Chose(result, c) ==
  Selection(c) \in DOMAIN result.obligations /\ result.obligations[Selection(c)].state = "Selected"

(* The ids of a requirement are made from its symbol.                      *)
Alone(facts, r) == \A q \in Elements(facts.requirements) : q.symbol = r.symbol => q = r

Met(facts, result) ==
  \A r \in Elements(facts.requirements) : Alone(facts, r) =>
    \E c \in Matchers(facts, r) : Chose(result, c)

(* What is published was linked from one version of each provider, and     *)
(* that version declares every symbol required of it, unless two different *)
(* requirements name one symbol: where resolve lost a selection, the gate  *)
(* does not open.                                                          *)
PublishedMeetsRequirements ==
  stage = "published" =>
    /\ Met(input, results[1])
    /\ \A c, d \in Elements(input.candidates) :
         Chose(results[1], c) /\ Chose(results[1], d) /\ c.package = d.package => c.version = d.version

(* The features of a plain build: the least set with "default" that is     *)
(* closed under what each feature implies.                                 *)
BuiltWith(features) ==
  LET names == {"default"} \cup DOMAIN features \cup UNION {features[f] : f \in DOMAIN features}
      Closed(S) == "default" \in S /\ \A f \in S \cap DOMAIN features : features[f] \subseteq S
  IN {f \in names : \A S \in SUBSET names : Closed(S) => f \in S}

(* What is published from a workspace has, for every foreign function that *)
(* a plain build of main.rs compiles and declares only once, a linked      *)
(* package whose file declares it: ingestion leaves out no declaration     *)
(* that is active, and resolve and the gate pass none that nobody provides.*)
PublishedMeetsDeclarations ==
  stage = "published" /\ workspace # None => \A i \in Asked :
    LET features == BuiltWith(workspace.packages[i].features) IN
    \A b \in Elements(workspace.main) : Active(b, features, workspace.unix) =>
      \A f \in Elements(b.functions) :
        LET r == RequirementOf(b, f) IN
        Alone(input, r) => \E c \in Matchers(input, r) : Chose(results[1], c)

(* What is published meets what the sources ask for, as facts and as text. *)
PublishedMeetsSources == PublishedMeetsRequirements /\ PublishedMeetsDeclarations

(* Facts that name only what they declare, with one candidate per version, *)
(* outputs that are declared once, one object per package and a lowering   *)
(* for each package of ours.                                               *)
Complete(facts) ==
  LET ids == {s.id : s \in facts.sources} IN
  /\ \A c \in Elements(facts.candidates) :
       /\ c.sources \subseteq ids
       /\ c.ecosystem \in {"Cargo", "Nimble"} => c.package \in DOMAIN facts.lowerings
  /\ \A r \in Elements(facts.requirements) : r.source \in ids
  /\ \A p \in DOMAIN facts.lowerings : facts.lowerings[p] \in ids
  /\ \A i, j \in DOMAIN facts.candidates :
       Selection(facts.candidates[i]) = Selection(facts.candidates[j]) => i = j
  /\ \A i, j \in DOMAIN facts.outputs :
       \/ facts.outputs[i].id = facts.outputs[j].id
       \/ /\ facts.outputs[i].package = facts.outputs[j].package
          /\ facts.outputs[i].kind = facts.outputs[j].kind
       => i = j

(* Complete facts that resolve accepts, and where no package is split,     *)
(* give a plan that passes the integrity check and whose actions, recorded *)
(* in the order of the plan, open the gate: no obligation is left without  *)
(* an action, an edge or a kind that closes it.                            *)
CompleteFactsPublish ==
  results # <<>> /\ results[1].verdict = "accepted" /\ Complete(input) /\ ~Split(input) =>
    results[1].violations = {} /\ stage \notin {"failed", "blocked"}

(* What the demand does not reach has nothing in common with what it does: *)
(* it requires neither the demand nor a symbol that is required there, and *)
(* has no executable and no object of a source there; and an output is     *)
(* declared once.                                                          *)
Apart(facts) ==
  LET reached == Reached(facts)
      kept    == {s \in facts.sources : s.package \in reached}
      Kept(r) == \E s \in kept : s.id = r.source
  IN
  /\ \A i, j \in DOMAIN facts.outputs : facts.outputs[i].id = facts.outputs[j].id => i = j
  /\ \A q \in Elements(facts.requirements) : ~Kept(q) =>
       /\ q.provider # facts.demand
       /\ \A r \in Elements(facts.requirements) : Kept(r) => r.symbol # q.symbol
  /\ \A o \in Elements(facts.outputs) : o.package \notin reached =>
       o.kind # "NativeExecutable" /\ \A s \in kept : s.id \notin o.sources

(* "It must prune only candidates resolve would itself have rejected or    *)
(* ignored, never one it would have selected": whatever resolve makes of   *)
(* all the facts, on the packages that the demand reaches the pruned ones  *)
(* give the same candidates, edges and actions, if what it does not reach  *)
(* is apart.                                                               *)
DemandDrivenAgrees ==
  Len(results) = 2 /\ results[1].verdict = "accepted" /\ ~Split(input) /\ Apart(input) =>
    LET full   == results[1]
        pruned == results[2]
        joined == {FinalLink, LinkOrder}
        InReach(id) == KindOf(id) = "PackageSelection" /\ id[2] \in Reached(input)
    IN /\ pruned.verdict = "accepted"
       /\ \A id \in DOMAIN pruned.obligations :
            /\ id \in DOMAIN full.obligations
            /\ id \notin joined => full.obligations[id] = pruned.obligations[id]
       /\ \A id \in DOMAIN full.obligations : InReach(id) => id \in DOMAIN pruned.obligations
       /\ \A a \in Elements(pruned.actions) :
            a.kind # "LinkNativeExecutable" => a \in Elements(full.actions)
=============================================================================
