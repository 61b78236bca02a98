------------------------- MODULE IncrementalSession -------------------------
(***************************************************************************)
(* The session-scoped planner process: one growing action graph that a     *)
(* client starts, extends with events and closes                           *)
(* (nim-planner/src/incremental_kernel.nim and the command loop of         *)
(* laminaria_incremental_planner.nim).                                     *)
(*                                                                         *)
(* Commands are served one at a time, so a step is one command together    *)
(* with its reply.  Every action of this protocol declares one artifact,   *)
(* named after itself by a content-derived id: an artifact is its          *)
(* producer, and an id determines the action's declared inputs.  The       *)
(* kernel never assigns its `discovered` state: an inserted action is at   *)
(* once blocked or ready.                                                  *)
(*                                                                         *)
(* Nim's tables raise on a missing key and nothing catches it: such a      *)
(* lookup ends the process, here phase "crashed".                          *)
(***************************************************************************)
EXTENDS Integers, Sequences, FiniteSets, Functions

CONSTANTS
  Actions,   \* action ids
  Graphs,    \* for each graph, the declared inputs of every action, in order
  None       \* not superseded

ASSUME SessionAssumption ==
  /\ Graphs \subseteq [Actions -> Seq(Actions)]
  /\ None \notin Actions

VARIABLES
  inputs,      \* the declared inputs of every action, constant
  phase,       \* absent, open, closed or crashed
  lastIndex,   \* lastCommandIndex
  known,       \* the keys of `records`
  owned,       \* the keys of producerOf
  state,       \* each record's state, absent outside `known`
  refs,        \* each record's referenceCount
  retiredBy,   \* each record's retiredBy
  seen,        \* knownEventIds
  generation,  \* planningGeneration
  reply        \* the response to the last command

graph   == <<known, owned, state, refs, retiredBy, generation>>
session == <<inputs, phase, lastIndex, known, owned, state, refs, retiredBy, seen,
             generation, reply>>

Producers(a) == Range(inputs[a])
Active       == {a \in known : retiredBy[a] = None}
Dependents(p) == {c \in Active : p \in Producers(c)}

(* A reply, as far as a client acts on it: the actions inserted, those that *)
(* it reports as ready now, and its diagnostic or reason.                  *)
Delta(fresh, ready, note) ==
  reply' = [kind |-> "plan_delta", fresh |-> fresh, ready |-> ready, note |-> note]
Refuse(reason) ==
  reply' = [kind |-> "rejected", fresh |-> {}, ready |-> {}, note |-> reason]
NoChange == Delta({}, {}, "none")

NoReply == [kind |-> "none", fresh |-> {}, ready |-> {}, note |-> "none"]

SessionInit ==
  /\ inputs \in Graphs
  /\ phase = "absent"
  /\ lastIndex = 0
  /\ known = {} /\ owned = {} /\ seen = {}
  /\ state = [a \in Actions |-> "absent"]
  /\ refs = [a \in Actions |-> 0]
  /\ retiredBy = [a \in Actions |-> None]
  /\ generation = 0
  /\ reply = NoReply

(***************************************************************************)
(* Insertion: validateAgainstGraph, then one record after another.         *)
(***************************************************************************)
DuplicateIn(list) ==
  Range(list) \cap owned # {} \/ \E i, j \in DOMAIN list : i # j /\ list[i] = list[j]

MissingIn(list) == \E a \in Range(list) : ~(Producers(a) \subseteq owned \cup Range(list))

(* Some set of the vertices in which each has an input there.              *)
CyclicOn(V) == \E S \in SUBSET V : S # {} /\ \A a \in S : Producers(a) \cap S # {}

(* Mutant: only the new actions are searched for a cycle.                  *)
CyclicAlone(list) == \E a \in Range(list) : a \in Producers(a)

CyclicWith(list) == CyclicOn(Active \cup Range(list))

GraphErrors(list) ==
  IF DuplicateIn(list) THEN {"duplicate_producer"}
  ELSE IF MissingIn(list) THEN {"missing_producer"}
  ELSE IF CyclicWith(list) THEN {"cycle"} ELSE {}

(* isReadyAgainst stops at the first input that is not completed; that     *)
(* lookup raises when the producer has no record (yet).                    *)
Satisfied(a, st) == \A p \in Producers(a) : st[p] = "completed"
LookupRaises(a, st, records) ==
  \E k \in DOMAIN inputs[a] :
    /\ inputs[a][k] \notin records
    /\ \A j \in 1 .. k - 1 : st[inputs[a][j]] = "completed"

InsertRaises(list) ==
  \E i \in DOMAIN list :
    LookupRaises(list[i], state, known \cup {list[h] : h \in 1 .. i - 1})

InitialState(a) == IF Satisfied(a, state) THEN "ready" ELSE "blocked_dependency"
Inserted(list)  == [a \in Actions |-> IF a \in Range(list) THEN InitialState(a) ELSE state[a]]
ReadyAmong(list) == {a \in Range(list) : Satisfied(a, state)}

Crash ==
  /\ phase' = "crashed"
  /\ reply' = NoReply
  /\ UNCHANGED <<known, state, refs, retiredBy, generation>>

(***************************************************************************)
(* StartSession, always command 0.  demanded is demandedArtifacts, demands *)
(* counts the initial_demands per artifact; the former stand in when there *)
(* are none of the latter.                                                 *)
(***************************************************************************)
StartSession(list, demanded, demands) ==
  /\ phase = "absent"
  /\ UNCHANGED <<inputs, lastIndex, retiredBy, seen, generation>>
  /\ \/ /\ GraphErrors(list) # {}
        /\ \E reason \in GraphErrors(list) : Refuse(reason)
        /\ phase' = "open"
        /\ UNCHANGED <<known, owned, state, refs>>
     \/ /\ GraphErrors(list) = {}
        /\ owned' = Range(list)
        /\ \/ /\ ~(demanded \subseteq Range(list))
              /\ Refuse("missing_producer")
              /\ phase' = "open"
              /\ UNCHANGED <<known, state, refs>>
           \/ /\ demanded \subseteq Range(list)
              /\ InsertRaises(list)
              /\ Crash
           \/ /\ demanded \subseteq Range(list)
              /\ ~InsertRaises(list)
              /\ phase' = "open"
              /\ known' = Range(list)
              /\ state' = Inserted(list)
              /\ refs' = [a \in Actions |->
                    IF a \notin Range(list) THEN 0
                    ELSE IF \E d \in Actions : demands[d] > 0 THEN demands[a]
                    ELSE IF a \in demanded THEN 1 ELSE 0]
              /\ Delta(Range(list), ReadyAmong(list), "none")

(***************************************************************************)
(* ApplyDelta.  An event is received once per id; each handler below       *)
(* leaves phase "open" or raises.                                          *)
(***************************************************************************)
(* applyDependencyDiscovered.  sups maps superseded actions to their       *)
(* replacements, demands is new_demands, behind tells whether the sender   *)
(* had seen an older generation.                                           *)
Discovery(list, sups, demands, behind) ==
  [kind |-> "dependency_discovered", list |-> list, sups |-> sups, demands |-> demands,
   behind |-> behind]

Restated(ev) == Range(ev.list) \subseteq known

BadSupersession(ev) ==
  \E old \in DOMAIN ev.sups : old \notin Active \/ ev.sups[old] \notin Range(ev.list)

DiscoveryErrors(ev) ==
  IF ev.list = <<>> THEN {"unsupported_input"}
  ELSE IF Restated(ev) THEN {}
  ELSE IF BadSupersession(ev) THEN {"unsupported_input"}
  ELSE GraphErrors(ev.list)

(* The demands that r counts on the actions of S, each one for itself.     *)
Demands(r, S) == UNION {{a} \X (1 .. r[a]) : a \in S}

Inherited(ev, a) == Cardinality(Demands(refs, {old \in DOMAIN ev.sups : ev.sups[old] = a}))

(* Mutant: the replacement starts undemanded.                              *)
RefsDropped(ev) ==
  [a \in Actions |-> (IF a \in DOMAIN ev.sups THEN 0 ELSE refs[a])
                     + (IF a \in ev.demands \cap (known \cup Range(ev.list)) THEN 1 ELSE 0)]

RefsAfter(ev) ==
  [a \in Actions |-> (IF a \in DOMAIN ev.sups THEN 0 ELSE refs[a] + Inherited(ev, a))
                     + (IF a \in ev.demands \cap (known \cup Range(ev.list)) THEN 1 ELSE 0)]

Discovered(ev) ==
  /\ ev.kind = "dependency_discovered"
  /\ \/ /\ DiscoveryErrors(ev) # {}
        /\ \E reason \in DiscoveryErrors(ev) : Refuse(reason)
        /\ UNCHANGED <<phase, graph>>
     \/ /\ ev.list # <<>>
        /\ Restated(ev)
        /\ Delta({}, {}, IF ev.behind THEN "stale_generation" ELSE "none")
        /\ UNCHANGED <<phase, graph>>
     \/ /\ DiscoveryErrors(ev) = {}
        /\ ~Restated(ev)
        /\ owned' = owned \cup Range(ev.list)
        /\ \/ InsertRaises(ev.list) /\ Crash
           \/ /\ ~InsertRaises(ev.list)
              /\ known' = known \cup Range(ev.list)
              /\ state' = Inserted(ev.list)
              /\ retiredBy' = [a \in Actions |-> IF a \in DOMAIN ev.sups THEN ev.sups[a]
                                                 ELSE retiredBy[a]]
              /\ refs' = RefsAfter(ev)
              /\ generation' = generation + 1
              /\ Delta(Range(ev.list), ReadyAmong(ev.list), "none")
              /\ UNCHANGED phase

(* promoteNewlyReady: the dependents that are blocked no longer.           *)
Unblocked(p, st) == {c \in Dependents(p) : state[c] = "blocked_dependency" /\ Satisfied(c, st)}
PromoteRaises(p, st) ==
  \E c \in Dependents(p) : state[c] = "blocked_dependency" /\ LookupRaises(c, st, known)

(* Mutant: whatever waits for the producer is promoted.                    *)
CompleteAnyInput(p) ==
  LET ready == {c \in Dependents(p) : state[c] = "blocked_dependency"} IN
  /\ state' = [a \in Actions |-> IF a = p THEN "completed" ELSE IF a \in ready THEN "ready" ELSE state[a]]
  /\ Delta({}, ready, "none")

(* Mutant: every dependent is promoted, in whatever state it is.           *)
CompleteReviving(p) ==
  LET done  == [state EXCEPT ![p] = "completed"]
      ready == {c \in Dependents(p) : Satisfied(c, done)} IN
  /\ state' = [a \in Actions |-> IF a \in ready THEN "ready" ELSE done[a]]
  /\ Delta({}, ready, "none")

Complete(p) ==
  LET done  == [state EXCEPT ![p] = "completed"]
      ready == Unblocked(p, done) IN
  /\ state' = [a \in Actions |-> IF a \in ready THEN "ready" ELSE done[a]]
  /\ Delta({}, ready, "none")

(* applyProducerCompleted.                                                 *)
Completion(a) == [kind |-> "producer_completed", action |-> a]
ProducerCompleted(ev) ==
  /\ ev.kind = "producer_completed"
  /\ LET p == ev.action IN
     \/ /\ p \notin Active \/ state[p] = "completed"
        /\ Delta({}, {}, IF p \in known \ Active THEN "stale_generation" ELSE "none")
        /\ UNCHANGED <<phase, graph>>
     \/ /\ p \in Active /\ state[p] = "cancelled"
        /\ state' = [state EXCEPT ![p] = "completed"]
        /\ Delta({}, {}, "cancelled_result")
        /\ UNCHANGED <<phase, known, owned, refs, retiredBy, generation>>
     \/ /\ p \in Active /\ state[p] \notin {"completed", "cancelled"}
        /\ UNCHANGED owned
        /\ \/ PromoteRaises(p, [state EXCEPT ![p] = "completed"]) /\ Crash
           \/ /\ ~PromoteRaises(p, [state EXCEPT ![p] = "completed"])
              /\ Complete(p)
              /\ UNCHANGED <<phase, known, refs, retiredBy, generation>>

(* poisonDependents goes through actions that are still undecided.         *)
Undecided == {c \in Active : state[c] \in {"blocked_dependency", "ready"}}
(* Mutant: only the direct dependents.                                     *)
PoisonedDirectly(p) == {c \in Undecided : p \in Producers(c)}
Poisoned(p) ==
  {c \in Undecided : \A S \in SUBSET Undecided :
     (\A d \in Undecided : Producers(d) \cap (S \cup {p}) # {} => d \in S) => c \in S}

(* applyProducerFailed.                                                    *)
Failure(a) == [kind |-> "producer_failed", action |-> a]
ProducerFailed(ev) ==
  /\ ev.kind = "producer_failed"
  /\ LET p == ev.action IN
     \/ /\ p \notin Undecided
        /\ NoChange
        /\ UNCHANGED <<phase, graph>>
     \/ /\ p \in Undecided
        /\ state' = [a \in Actions |-> IF a \in {p} \cup Poisoned(p) THEN "failed" ELSE state[a]]
        /\ Delta({}, {}, "dependency_failed")
        /\ UNCHANGED <<phase, known, owned, refs, retiredBy, generation>>

(* applyDemandRequested.                                                   *)
Demand(a) == [kind |-> "demand_requested", action |-> a]
DemandRequested(ev) ==
  /\ ev.kind = "demand_requested"
  /\ refs' = [refs EXCEPT ![ev.action] = @ + (IF ev.action \in known THEN 1 ELSE 0)]
  /\ NoChange
  /\ UNCHANGED <<phase, known, owned, state, retiredBy, generation>>

Released(n) == IF n > 0 THEN n - 1 ELSE 0

(* applyDemandCancelled.                                                   *)
Cancellation(a) == [kind |-> "demand_cancelled", action |-> a]
DemandCancelled(ev) ==
  /\ ev.kind = "demand_cancelled"
  /\ LET a == ev.action IN
     /\ refs' = [refs EXCEPT ![a] = Released(@)]
     /\ state' = IF a \in Undecided /\ refs'[a] = 0 THEN [state EXCEPT ![a] = "cancelled"] ELSE state
  /\ NoChange
  /\ UNCHANGED <<phase, known, owned, retiredBy, generation>>

Handle(ev) ==
  \/ Discovered(ev)
  \/ ProducerCompleted(ev)
  \/ ProducerFailed(ev)
  \/ DemandRequested(ev)
  \/ DemandCancelled(ev)

ApplyDelta(id, ev) ==
  /\ phase = "open"
  /\ lastIndex' = lastIndex + 1
  /\ UNCHANGED inputs
  /\ seen' = seen \cup {id}
  /\ \/ id \in seen /\ NoChange /\ UNCHANGED <<phase, graph>>
     \/ id \notin seen /\ Handle(ev)

CloseSession ==
  /\ phase = "open"
  /\ phase' = "closed"
  /\ lastIndex' = lastIndex + 1
  /\ reply' = [kind |-> "session_closed", fresh |-> {}, ready |-> {}, note |-> "none"]
  /\ UNCHANGED <<inputs, graph, seen>>

(* checkEnvelope refuses a command of another schema version or session or *)
(* out of turn, and leaves the session be.                                 *)
RefuseEnvelope ==
  /\ phase \in {"absent", "open"}
  /\ \E reason \in {"unsupported_input", "invalid_contract_version"} : Refuse(reason)
  /\ UNCHANGED <<inputs, phase, lastIndex, graph, seen>>

(* The command loop, under clients that start sessions with one of starts  *)
(* and send events of deltas under ids.                                    *)
SessionNext(starts, deltas, ids) ==
  \/ \E s \in starts : StartSession(s.list, s.demanded, s.demands)
  \/ \E id \in ids, ev \in deltas : ApplyDelta(id, ev)
  \/ CloseSession
  \/ RefuseEnvelope

(***************************************************************************)
(* Properties of the session, whoever the client is.                       *)
(***************************************************************************)

(* An action is ready only when every producer it names has completed, in  *)
(* whatever order completions, discoveries and supersessions arrived.      *)
ReadyOnlyAfterProducers ==
  \A a \in known : state[a] = "ready" => \A p \in Producers(a) : state[p] = "completed"

(* validateAgainstGraph keeps the live graph free of cycles over any       *)
(* sequence of discoveries and supersessions.                              *)
LiveGraphAcyclic == ~CyclicOn(Active)

(* However the graph grows, it can be executed as it stands: no action     *)
(* waits for itself, and none is offered before what it reads is there.    *)
GraphStaysOrdered == ReadyOnlyAfterProducers /\ LiveGraphAcyclic

(* The lifecycle only advances: blocked, ready, failed or cancelled,       *)
(* completed.  Nothing that failed or was cancelled is revived, and a      *)
(* completion is final (the transition table of the incremental contract). *)
Advances ==
  {<<"absent", "blocked_dependency">>, <<"absent", "ready">>, <<"blocked_dependency", "ready">>}
  \cup {"blocked_dependency", "ready"} \X {"failed", "cancelled", "completed"}
  \cup {<<"failed", "completed">>, <<"cancelled", "completed">>}
LifecycleAdvances ==
  [][\A a \in Actions : state'[a] # state[a] => <<state[a], state'[a]>> \in Advances]_session

(* A completion that was still awaited leaves no live consumer blocked on  *)
(* completed producers only (promoteNewlyReady).                           *)
CompletionWakesConsumers(p) ==
  /\ phase' = "open"
  /\ state[p] \notin {"completed", "cancelled"}
  /\ state'[p] = "completed"
  => \A c \in Dependents(p) :
       state'[c] = "blocked_dependency" => \E q \in Producers(c) : state'[q] # "completed"

(* When an action fails, no live consumer of it, or of an action that      *)
(* failed with it, is left waiting (poisonDependents).                     *)
FailureReachesConsumers(p) ==
  state[p] # "failed" /\ state'[p] = "failed"
  => \A c \in Dependents(p) : state'[c] \notin {"blocked_dependency", "ready"}

(* The end of an action, good or bad, reaches its consumers in the step    *)
(* that reports it: nothing is left to wait for an action that is settled. *)
SettlingReachesConsumers ==
  [][\A p \in Actions : CompletionWakesConsumers(p) /\ FailureReachesConsumers(p)]_session

TotalDemand(r) == Cardinality(Demands(r, Actions))

(* A supersession moves the demands on an action to its replacement and    *)
(* loses none of them, however many actions are replaced by one.           *)
DemandFollowsSupersession ==
  [][\A a \in Actions :
       retiredBy[a] = None /\ retiredBy'[a] # None
       => /\ refs'[retiredBy'[a]] >= refs[a]
          /\ TotalDemand(refs') >= TotalDemand(refs)]_session
=============================================================================
