-------------------------- MODULE IncrementalProofs --------------------------
(***************************************************************************)
(* Proofs about IncrementalSession, for every set of actions and every     *)
(* graph on them, and for any client: whatever sessions it starts, and     *)
(* whatever events it sends, as often and in whatever order it likes; and  *)
(* about IncrementalExecutor, a client with any number of workers, any     *)
(* discoveries and any failures.                                           *)
(***************************************************************************)
EXTENDS IncrementalExecutor, FiniteSetTheorems, FunctionTheorems, TLAPS

(* The lists a client sends are lists of actions.                          *)
ListsActions(starts, deltas) ==
  /\ \A s \in starts : s.list \in Seq(Actions)
  /\ \A ev \in deltas : ev.kind = "dependency_discovered" => ev.list \in Seq(Actions)

States == {"absent", "blocked_dependency", "ready", "completed", "failed", "cancelled"}

-----------------------------------------------------------------------------
(* The inductive invariant *)

(* A record and a state other than absent are the same thing; what has a   *)
(* record has an owner, and a session that has not begun has neither.      *)
RecordsMatch ==
  /\ inputs \in Graphs
  /\ known \subseteq owned /\ owned \subseteq Actions
  /\ state \in [Actions -> States]
  /\ \A a \in Actions : a \in known <=> state[a] # "absent"
  /\ phase = "absent" => owned = {}

SessionInv == RecordsMatch /\ ReadyOnlyAfterProducers /\ LiveGraphAcyclic

(* Fewer vertices have no more cycles.                                     *)
LEMMA FewerCycles ==
  ASSUME NEW V, NEW W, W \subseteq V, ~CyclicOn(V)
  PROVE  ~CyclicOn(W)
BY DEF CyclicOn

(* A live action does not read its own artifact.                           *)
LEMMA NoSelfLoop ==
  ASSUME LiveGraphAcyclic, NEW a \in Active
  PROVE  a \notin Producers(a)
<1>1. ASSUME a \in Producers(a) PROVE CyclicOn(Active)
  <2>1. \A b \in {a} : Producers(b) \cap {a} # {}
    BY <1>1
  <2>2. {a} \in SUBSET Active /\ {a} # {}
    OBVIOUS
  <2>3. QED
    BY <2>1, <2>2, Zenon DEF CyclicOn
<1>2. QED
  BY <1>1 DEF LiveGraphAcyclic

-----------------------------------------------------------------------------
(* What a step does to the graph, in four ways *)

(* Nothing that matters here.                                              *)
Rests == UNCHANGED <<known, state, retiredBy>>

(* New actions, each ready if all it reads is completed.                   *)
Grows(list) ==
  /\ Range(list) \cap owned = {} /\ Range(list) \subseteq Actions
  /\ ~CyclicWith(list)
  /\ known' = known \cup Range(list)
  /\ state' = Inserted(list)
  /\ \A a \in Actions : retiredBy'[a] = None => retiredBy[a] = None

(* A result, awaited or late.                                              *)
Awaited(p) ==
  /\ p \in Active /\ state[p] \notin {"completed", "cancelled"}
  /\ Complete(p)
  /\ UNCHANGED <<known, retiredBy>>
Late(p) ==
  /\ p \in Active /\ state[p] = "cancelled"
  /\ state' = [state EXCEPT ![p] = "completed"]
  /\ UNCHANGED <<known, retiredBy>>

(* The end of undecided actions.                                           *)
Fails(p) ==
  /\ p \in Undecided
  /\ state' = [a \in Actions |-> IF a \in {p} \cup Poisoned(p) THEN "failed" ELSE state[a]]
  /\ UNCHANGED <<known, retiredBy>>
Cancels(p) ==
  /\ p \in Undecided
  /\ state' = [state EXCEPT ![p] = "cancelled"]
  /\ UNCHANGED <<known, retiredBy>>

(* One of them happens in every step, whatever the client sends.           *)
Steps ==
  /\ UNCHANGED inputs
  /\ known' \subseteq owned' /\ owned' \subseteq Actions
  /\ phase' # "absent" \/ (phase = "absent" /\ UNCHANGED owned)
  /\ \/ Rests
     \/ \E list \in Seq(Actions) : phase' # "absent" /\ Grows(list)
     \/ \E p \in Actions : Awaited(p) \/ Late(p) \/ Fails(p) \/ Cancels(p)

LEMMA RangeOfList ==
  ASSUME NEW list \in Seq(Actions)
  PROVE  Range(list) \subseteq Actions
BY DEF Range

LEMMA StartSteps ==
  ASSUME SessionInv, NEW list \in Seq(Actions), NEW demanded, NEW demands,
         StartSession(list, demanded, demands)
  PROVE  Steps
<1>1. Range(list) \subseteq Actions
  BY RangeOfList
<1>2. owned = {} /\ known = {} /\ phase = "absent" /\ UNCHANGED <<inputs, retiredBy>>
  BY DEF SessionInv, RecordsMatch, StartSession
<1>3. CASE GraphErrors(list) # {}
  BY <1>2, <1>3 DEF StartSession, Steps, Rests
<1>4. CASE GraphErrors(list) = {}
  <2>1. owned' = Range(list) /\ Range(list) \cap owned = {} /\ ~CyclicWith(list)
    BY <1>2, <1>4 DEF StartSession, GraphErrors, DuplicateIn
  <2>2. CASE ~(demanded \subseteq Range(list))
    BY <1>1, <1>2, <1>4, <2>1, <2>2 DEF StartSession, Steps, Rests
  <2>3. CASE demanded \subseteq Range(list) /\ InsertRaises(list)
    BY <1>1, <1>2, <1>4, <2>1, <2>3 DEF StartSession, Steps, Rests, Crash
  <2>4. CASE demanded \subseteq Range(list) /\ ~InsertRaises(list)
    <3>1. phase' = "open" /\ known' = Range(list) /\ state' = Inserted(list)
      BY <1>4, <2>4 DEF StartSession
    <3>2. Grows(list)
      BY <1>1, <1>2, <2>1, <3>1 DEF Grows
    <3>3. QED
      BY <1>1, <1>2, <2>1, <3>1, <3>2 DEF Steps
  <2>5. QED
    BY <2>2, <2>3, <2>4
<1>5. QED
  BY <1>3, <1>4

LEMMA DiscoverySteps ==
  ASSUME SessionInv, phase = "open", UNCHANGED inputs, NEW ev,
         ev.list \in Seq(Actions), Discovered(ev)
  PROVE  Steps
<1>1. Range(ev.list) \subseteq Actions
  BY RangeOfList
<1>2. known \subseteq owned /\ owned \subseteq Actions
  BY DEF SessionInv, RecordsMatch
<1>3. CASE UNCHANGED <<phase, graph>>
  BY <1>2, <1>3 DEF graph, Steps, Rests
<1>4. CASE DiscoveryErrors(ev) = {} /\ ~Restated(ev) /\ ~UNCHANGED <<phase, graph>>
  <2>1. owned' = owned \cup Range(ev.list)
    BY <1>4 DEF Discovered
  <2>2. GraphErrors(ev.list) = {} /\ ~BadSupersession(ev)
    BY <1>4 DEF DiscoveryErrors
  <2>3. Range(ev.list) \cap owned = {} /\ ~CyclicWith(ev.list)
    BY <2>2 DEF GraphErrors, DuplicateIn
  <2>4. CASE Crash
    BY <1>1, <1>2, <2>1, <2>4 DEF Crash, Steps, Rests
  <2>5. CASE ~Crash
    <3>1. /\ known' = known \cup Range(ev.list) /\ state' = Inserted(ev.list) /\ phase' = phase
          /\ retiredBy' = [a \in Actions |-> IF a \in DOMAIN ev.sups THEN ev.sups[a] ELSE retiredBy[a]]
      BY <1>4, <2>5 DEF Discovered
    <3>2. \A a \in DOMAIN ev.sups : ev.sups[a] # None
      BY <1>1, <2>2, SessionAssumption DEF BadSupersession
    <3>3. Grows(ev.list)
      BY <1>1, <2>3, <3>1, <3>2 DEF Grows
    <3>4. QED
      BY <1>1, <1>2, <2>1, <3>1, <3>3 DEF Steps
  <2>6. QED
    BY <2>4, <2>5
<1>5. QED
  BY <1>3, <1>4 DEF Discovered

LEMMA CompletionSteps ==
  ASSUME SessionInv, phase = "open", UNCHANGED inputs, NEW ev, ProducerCompleted(ev)
  PROVE  Steps
<1>1. known \subseteq owned /\ owned \subseteq Actions /\ Active \subseteq known
  BY DEF SessionInv, RecordsMatch, Active
<1> DEFINE p == ev.action
<1>2. CASE UNCHANGED <<phase, graph>>
  BY <1>1, <1>2 DEF graph, Steps, Rests
<1>3. CASE p \in Active /\ state[p] = "cancelled" /\ ~UNCHANGED <<phase, graph>>
  <2>1. Late(p) /\ UNCHANGED <<phase, known, owned>>
    BY <1>3 DEF ProducerCompleted, Late
  <2>2. QED
    BY <1>1, <1>3, <2>1 DEF Steps
<1>4. CASE p \in Active /\ state[p] \notin {"completed", "cancelled"} /\ ~UNCHANGED <<phase, graph>>
  <2>1. UNCHANGED owned
    BY <1>4 DEF ProducerCompleted
  <2>2. CASE Crash
    BY <1>1, <2>1, <2>2 DEF Crash, Steps, Rests
  <2>3. CASE ~Crash
    <3>1. Awaited(p) /\ UNCHANGED <<phase, known>>
      BY <1>4, <2>3 DEF ProducerCompleted, Awaited
    <3>2. QED
      BY <1>1, <1>4, <2>1, <3>1 DEF Steps
  <2>4. QED
    BY <2>2, <2>3
<1>5. QED
  BY <1>2, <1>3, <1>4 DEF ProducerCompleted

LEMMA EveryStep ==
  ASSUME NEW starts, NEW deltas, NEW ids, ListsActions(starts, deltas),
         SessionInv, [SessionNext(starts, deltas, ids)]_session
  PROVE  Steps
<1>1. known \subseteq owned /\ owned \subseteq Actions /\ Undecided \subseteq known
  BY DEF SessionInv, RecordsMatch, Undecided, Active
<1>2. ASSUME NEW s \in starts, StartSession(s.list, s.demanded, s.demands) PROVE Steps
  BY <1>2, StartSteps DEF ListsActions
<1>3. ASSUME NEW id \in ids, NEW ev \in deltas, ApplyDelta(id, ev) PROVE Steps
  <2>1. phase = "open" /\ UNCHANGED inputs
    BY <1>3 DEF ApplyDelta
  <2>2. CASE UNCHANGED <<phase, graph>>
    BY <1>1, <2>1, <2>2 DEF graph, Steps, Rests
  <2>3. CASE Discovered(ev)
    BY <2>1, <2>3, DiscoverySteps DEF ListsActions, Discovered
  <2>4. CASE ProducerCompleted(ev)
    BY <2>1, <2>4, CompletionSteps
  <2>5. CASE ProducerFailed(ev) /\ ~UNCHANGED <<phase, graph>>
    <3>1. Fails(ev.action) /\ UNCHANGED <<phase, known, owned>>
      BY <2>5 DEF ProducerFailed, Fails
    <3>2. QED
      BY <1>1, <2>1, <3>1 DEF Steps, Fails
  <2>6. CASE DemandRequested(ev)
    BY <1>1, <2>1, <2>6 DEF DemandRequested, Steps, Rests
  <2>7. CASE DemandCancelled(ev)
    <3>1. UNCHANGED <<phase, known, owned, retiredBy>>
      BY <2>7 DEF DemandCancelled
    <3>2. state' = state \/ Cancels(ev.action)
      BY <2>7 DEF DemandCancelled, Cancels
    <3>3. QED
      BY <1>1, <2>1, <3>1, <3>2 DEF Steps, Rests, Cancels
  <2>8. QED
    BY <1>3, <2>2, <2>3, <2>4, <2>5, <2>6, <2>7 DEF ApplyDelta, Handle
<1>4. CASE CloseSession
  BY <1>1, <1>4 DEF CloseSession, graph, Steps, Rests
<1>5. CASE RefuseEnvelope
  BY <1>1, <1>5 DEF RefuseEnvelope, graph, Steps, Rests
<1>6. CASE UNCHANGED session
  BY <1>1, <1>6 DEF session, Steps, Rests
<1>7. QED
  BY <1>2, <1>3, <1>4, <1>5, <1>6 DEF SessionNext

-----------------------------------------------------------------------------
(* The lifecycle *)

(* A step moves the state of an action only along the transition table.    *)
LEMMA StatesAdvance ==
  ASSUME RecordsMatch, Steps, NEW a \in Actions, state'[a] # state[a]
  PROVE  <<state[a], state'[a]>> \in Advances
<1>1. state[a] \in States /\ Undecided \subseteq Actions /\ Active \subseteq Actions
  BY DEF RecordsMatch, Undecided, Active
<1>2. ASSUME NEW list \in Seq(Actions), Grows(list) PROVE <<state[a], state'[a]>> \in Advances
  <2>1. a \in Range(list) /\ state'[a] \in {"ready", "blocked_dependency"}
    BY <1>2 DEF Grows, Inserted, InitialState
  <2>2. state[a] = "absent"
    BY <1>2, <2>1 DEF Grows, RecordsMatch
  <2>3. QED
    BY <2>1, <2>2 DEF Advances
<1>3. ASSUME NEW p \in Actions, Awaited(p) PROVE <<state[a], state'[a]>> \in Advances
  <2>1. CASE a = p /\ state'[a] = "completed"
    <3>1. state[p] \in {"blocked_dependency", "ready", "failed"}
      BY <1>3 DEF Awaited, Active, RecordsMatch, States
    <3>2. QED
      BY <2>1, <3>1 DEF Advances
  <2>2. CASE ~(a = p /\ state'[a] = "completed")
    <3>1. state[a] = "blocked_dependency" /\ state'[a] = "ready"
      BY <1>3, <2>2 DEF Awaited, Complete, Unblocked, RecordsMatch
    <3>2. QED
      BY <3>1 DEF Advances
  <2>3. QED
    BY <2>1, <2>2
<1>4. ASSUME NEW p \in Actions, Late(p) PROVE <<state[a], state'[a]>> \in Advances
  BY <1>4 DEF Late, Advances, RecordsMatch
<1>5. ASSUME NEW p \in Actions, Fails(p) PROVE <<state[a], state'[a]>> \in Advances
  <2>1. a \in Undecided /\ state'[a] = "failed"
    BY <1>5 DEF Fails, Poisoned
  <2>2. QED
    BY <2>1 DEF Undecided, Advances
<1>6. ASSUME NEW p \in Actions, Cancels(p) PROVE <<state[a], state'[a]>> \in Advances
  <2>1. a \in Undecided /\ state'[a] = "cancelled"
    BY <1>6 DEF Cancels, RecordsMatch
  <2>2. QED
    BY <2>1 DEF Undecided, Advances
<1>7. QED
  BY <1>2, <1>3, <1>4, <1>5, <1>6 DEF Steps, Rests

(* A completion is final, and so is having a record.                       *)
LEMMA CompletedStays ==
  ASSUME RecordsMatch, Steps, NEW a \in Actions
  PROVE  /\ state[a] = "completed" => state'[a] = "completed"
         /\ state[a] # "absent" => state'[a] # "absent"
BY StatesAdvance DEF Advances

-----------------------------------------------------------------------------
(* The invariant is kept *)

LEMMA RecordsMatchStays ==
  ASSUME SessionInv, Steps
  PROVE  RecordsMatch'
<1>1. known' \subseteq owned' /\ owned' \subseteq Actions
  BY DEF Steps
<1>2. phase' = "absent" => owned' = {}
  BY DEF Steps, SessionInv, RecordsMatch
<1>3. state' \in [Actions -> States] /\ \A a \in Actions : a \in known' <=> state'[a] # "absent"
  <2>1. CASE Rests
    BY <2>1 DEF Rests, SessionInv, RecordsMatch
  <2>2. ASSUME NEW list \in Seq(Actions), Grows(list)
        PROVE  state' \in [Actions -> States] /\ \A a \in Actions : a \in known' <=> state'[a] # "absent"
    BY <2>2 DEF Grows, Inserted, InitialState, States, SessionInv, RecordsMatch
  <2>3. ASSUME NEW p \in Actions, Awaited(p) \/ Late(p) \/ Fails(p) \/ Cancels(p)
        PROVE  state' \in [Actions -> States] /\ \A a \in Actions : a \in known' <=> state'[a] # "absent"
    <3>1. known' = known /\ state' \in [Actions -> States]
      BY <2>3 DEF Awaited, Complete, Late, Fails, Cancels, States, SessionInv, RecordsMatch
    <3>2. \A a \in Actions : state[a] = "absent" => state'[a] = "absent"
      BY <2>3 DEF Awaited, Complete, Unblocked, Late, Fails, Cancels, Poisoned, Undecided,
                  Active, SessionInv, RecordsMatch
    <3>3. \A a \in Actions : state[a] # "absent" => state'[a] # "absent"
      BY CompletedStays DEF SessionInv
    <3>4. QED
      BY <3>1, <3>2, <3>3 DEF SessionInv, RecordsMatch
  <2>4. QED
    BY <2>1, <2>2, <2>3 DEF Steps
<1>4. QED
  BY <1>1, <1>2, <1>3 DEF RecordsMatch, SessionInv, Steps

(* What becomes ready has everything it reads; what is ready keeps it, as  *)
(* completions are final.                                                  *)
LEMMA ReadyStays ==
  ASSUME SessionInv, Steps
  PROVE  ReadyOnlyAfterProducers'
<1> SUFFICES ASSUME NEW a \in known', state'[a] = "ready", NEW p \in Producers(a)
             PROVE  state'[p] = "completed"
  BY DEF ReadyOnlyAfterProducers, Producers, Steps
<1>1. a \in Actions /\ p \in Actions
  <2>1. inputs \in [Actions -> Seq(Actions)]
    BY SessionAssumption DEF SessionInv, RecordsMatch
  <2>2. a \in Actions
    BY DEF Steps
  <2>3. QED
    BY <2>1, <2>2 DEF Producers, Range
<1>2. CASE state[p] = "completed"
  BY <1>1, <1>2, CompletedStays DEF SessionInv
<1>3. CASE state[p] # "completed"
  <2>1. state[a] # "ready"
    <3>1. a \in known \/ state[a] = "absent"
      BY <1>1 DEF SessionInv, RecordsMatch
    <3>2. QED
      BY <1>3, <3>1 DEF SessionInv, ReadyOnlyAfterProducers
  <2>2. ASSUME NEW list \in Seq(Actions), Grows(list) PROVE FALSE
    BY <1>1, <1>3, <2>1, <2>2 DEF Grows, Inserted, InitialState, Satisfied
  <2>3. ASSUME NEW q \in Actions, Awaited(q) PROVE state'[p] = "completed"
    <3>1. a \in Unblocked(q, [state EXCEPT ![q] = "completed"])
      BY <1>1, <2>1, <2>3 DEF Awaited, Complete, SessionInv, RecordsMatch
    <3>2. [state EXCEPT ![q] = "completed"][p] = "completed"
      BY <3>1 DEF Unblocked, Satisfied
    <3>3. p = q
      BY <1>1, <1>3, <3>2 DEF SessionInv, RecordsMatch
    <3>4. p \notin Producers(p)
      BY <2>3, <3>3, NoSelfLoop DEF Awaited, SessionInv
    <3>5. QED
      BY <1>1, <2>3, <3>2, <3>3, <3>4 DEF Awaited, Complete, Unblocked, Dependents
  <2>4. ASSUME NEW q \in Actions, Late(q) \/ Fails(q) \/ Cancels(q) PROVE FALSE
    BY <1>1, <2>1, <2>4 DEF Late, Fails, Cancels, SessionInv, RecordsMatch
  <2>5. CASE Rests
    BY <2>1, <2>5 DEF Rests
  <2>6. QED
    BY <2>2, <2>3, <2>4, <2>5 DEF Steps
<1>4. QED
  BY <1>2, <1>3

(* The live actions are some of those that were searched for a cycle.      *)
LEMMA AcyclicStays ==
  ASSUME SessionInv, Steps
  PROVE  LiveGraphAcyclic'
<1>1. UNCHANGED inputs
  BY DEF Steps
<1>2. ASSUME NEW V, ~CyclicOn(V), Active' \subseteq V PROVE ~CyclicOn(Active')
  BY <1>2, FewerCycles
<1>3. ~CyclicOn(Active')
  <2>1. ASSUME NEW list \in Seq(Actions), Grows(list) PROVE ~CyclicOn(Active')
    <3>1. Active' \subseteq Active \cup Range(list) /\ ~CyclicOn(Active \cup Range(list))
      BY <2>1 DEF Grows, Active, CyclicWith, SessionInv, RecordsMatch
    <3>2. QED
      BY <1>2, <3>1
  <2>2. CASE Active' \subseteq Active
    BY <1>2, <2>2 DEF SessionInv, LiveGraphAcyclic
  <2>3. QED
    BY <2>1, <2>2 DEF Steps, Rests, Awaited, Late, Fails, Cancels, Active
<1>4. QED
  BY <1>1, <1>3 DEF LiveGraphAcyclic, CyclicOn, Producers

LEMMA InvariantStays ==
  ASSUME SessionInv, Steps
  PROVE  SessionInv'
BY RecordsMatchStays, ReadyStays, AcyclicStays DEF SessionInv

LEMMA InvariantHolds == SessionInit => SessionInv
<1> SUFFICES ASSUME SessionInit PROVE SessionInv
  OBVIOUS
<1>1. RecordsMatch
  BY DEF SessionInit, RecordsMatch, States
<1>2. Active = {} /\ known = {}
  BY DEF SessionInit, Active
<1>3. QED
  BY <1>1, <1>2 DEF SessionInv, ReadyOnlyAfterProducers, LiveGraphAcyclic, CyclicOn

-----------------------------------------------------------------------------
(* What settles *)

(* A result that was awaited leaves nobody blocked who has all it reads.   *)
LEMMA CompletionWakes ==
  ASSUME SessionInv, Steps, NEW p \in Actions
  PROVE  CompletionWakesConsumers(p)
<1> SUFFICES ASSUME state[p] \notin {"completed", "cancelled"}, state'[p] = "completed",
                    NEW c \in Dependents(p), state'[c] = "blocked_dependency"
             PROVE  \E q \in Producers(c) : state'[q] # "completed"
  BY DEF CompletionWakesConsumers
<1>1. state \in [Actions -> States] /\ c \in Actions
  BY DEF SessionInv, RecordsMatch, Dependents, Active
<1>2. Awaited(p)
  <2>1. ~Rests /\ \A list \in Seq(Actions) : ~Grows(list)
    BY <1>1 DEF Rests, Grows, Inserted, InitialState
  <2>2. ASSUME NEW q \in Actions, Late(q) \/ Fails(q) \/ Cancels(q) PROVE FALSE
    BY <1>1, <2>2 DEF Late, Fails, Cancels
  <2>3. ASSUME NEW q \in Actions, Awaited(q) PROVE q = p
    BY <1>1, <2>3 DEF Awaited, Complete
  <2>4. QED
    BY <2>1, <2>2, <2>3 DEF Steps
<1> DEFINE after == [state EXCEPT ![p] = "completed"]
<1>3. c \notin Unblocked(p, after) /\ state[c] = "blocked_dependency"
  BY <1>1, <1>2 DEF Awaited, Complete
<1>4. PICK q \in Producers(c) : after[q] # "completed"
  <2>1. ~Satisfied(c, after)
    BY <1>3 DEF Unblocked
  <2>2. QED
    BY <2>1 DEF Satisfied
<1>5. q \in Actions
  BY <1>1, SessionAssumption DEF SessionInv, RecordsMatch, Producers, Range
<1>6. QED
  BY <1>2, <1>4, <1>5 DEF Awaited, Complete

(* A failure leaves none of its consumers undecided.                       *)
LEMMA FailureReaches ==
  ASSUME SessionInv, Steps, NEW p \in Actions
  PROVE  FailureReachesConsumers(p)
<1> SUFFICES ASSUME state[p] # "failed", state'[p] = "failed", NEW c \in Dependents(p)
             PROVE  state'[c] \notin {"blocked_dependency", "ready"}
  BY DEF FailureReachesConsumers
<1>1. state \in [Actions -> States] /\ c \in Actions
  BY DEF SessionInv, RecordsMatch, Dependents, Active
<1>2. PICK f \in Actions : Fails(f)
  <2>1. ~Rests /\ \A list \in Seq(Actions) : ~Grows(list)
    BY <1>1 DEF Rests, Grows, Inserted, InitialState
  <2>2. ASSUME NEW q \in Actions, Late(q) \/ Awaited(q) \/ Cancels(q) PROVE FALSE
    BY <1>1, <2>2 DEF Late, Awaited, Complete, Cancels
  <2>3. QED
    BY <2>1, <2>2 DEF Steps
<1>3. p \in {f} \cup Poisoned(f)
  BY <1>1, <1>2 DEF Fails
<1>4. CASE c \in Undecided
  <2>1. c \in Poisoned(f)
    BY <1>3, <1>4 DEF Poisoned, Dependents
  <2>2. QED
    BY <1>1, <1>2, <2>1 DEF Fails
<1>5. CASE c \notin Undecided
  <2>1. state[c] \notin {"blocked_dependency", "ready"}
    BY <1>5 DEF Undecided, Dependents
  <2>2. QED
    BY <1>1, <1>2, <2>1 DEF Fails
<1>6. QED
  BY <1>4, <1>5

-----------------------------------------------------------------------------
(* Demands *)

(* Every record counts its demands with a natural number.                  *)
DemandInv == refs \in [Actions -> Nat]

(* So does a client that starts a session.                                 *)
CountsDemands(starts) == \A s \in starts : s.demands \in [Actions -> Nat]

(* A demand is an action with the number of the demand on it.            *)
LEMMA DemandsAre ==
  ASSUME NEW r, NEW S, NEW d
  PROVE  d \in Demands(r, S) <=> d = <<d[1], d[2]>> /\ d[1] \in S /\ d[2] \in 1 .. r[d[1]]
BY DEF Demands

(* Finitely many actions have finitely many demands.                     *)
LEMMA DemandsFinite ==
  ASSUME NEW r, NEW S, IsFiniteSet(S), \A a \in S : r[a] \in Nat
  PROVE  IsFiniteSet(Demands(r, S)) /\ Cardinality(Demands(r, S)) \in Nat
<1> DEFINE each == {{a} \X (1 .. r[a]) : a \in S}
           f    == [a \in S |-> {a} \X (1 .. r[a])]
<1>1. IsFiniteSet(each)
  <2>1. f \in Surjection(S, each)
    BY Fun_IsSurj
  <2>2. QED
    BY <2>1, FS_Surjection
<1>2. ASSUME NEW a \in S PROVE IsFiniteSet({a} \X (1 .. r[a]))
  <2>1. IsFiniteSet(1 .. r[a])
    BY FS_Interval
  <2>2. IsFiniteSet({a})
    BY FS_Singleton
  <2>3. QED
    BY <2>1, <2>2, FS_Product
<1>3. \A T \in each : IsFiniteSet(T)
  BY <1>2
<1>4. IsFiniteSet(UNION each)
  <2> HIDE DEF each
  <2>1. QED
    BY <1>1, <1>3, FS_UNION
<1>5. QED
  BY <1>4, FS_CardinalityType DEF Demands

(* The demands on one action of S are some of those on S.                  *)
LEMMA OneOfThem ==
  ASSUME NEW r, NEW S, IsFiniteSet(S), \A b \in S : r[b] \in Nat, NEW a \in S
  PROVE  r[a] <= Cardinality(Demands(r, S))
<1> DEFINE f == [k \in 1 .. r[a] |-> <<a, k>>]
<1>1. f \in Injection(1 .. r[a], Demands(r, S))
  <2>1. \A k \in 1 .. r[a] : <<a, k>> \in Demands(r, S)
    BY DEF Demands
  <2>2. f \in [1 .. r[a] -> Demands(r, S)]
    BY <2>1
  <2>3. \A i, j \in 1 .. r[a] : f[i] = f[j] => i = j
    OBVIOUS
  <2> HIDE DEF f
  <2>4. QED
    BY <2>2, <2>3, Fun_IsInj
<1>2. Cardinality(1 .. r[a]) = r[a]
  BY FS_Interval
<1>3. QED
  BY <1>1, <1>2, DemandsFinite, FS_Injection

(* The elements of a finite set can be numbered.                           *)
LEMMA Numbered ==
  ASSUME NEW S, IsFiniteSet(S)
  PROVE  \E f \in [S -> 1 .. Cardinality(S)] : \A x, y \in S : f[x] = f[y] => x = y
<1>1. ExistsBijection(S, 1 .. Cardinality(S))
  BY FS_CardinalityType, Fun_ExistsBijSymmetric
<1>2. PICK f : f \in Bijection(S, 1 .. Cardinality(S))
  BY <1>1, Fun_ExistsBij
<1>3. QED
  BY <1>2 DEF Bijection, Injection, IsInjective

(* If every demand on an action of D is passed on to an action outside,    *)
(* which keeps its own, none is lost.                                      *)
LEMMA MovedDemands ==
  ASSUME IsFiniteSet(Actions), NEW r \in [Actions -> Nat], NEW q \in [Actions -> Nat],
         NEW D \in SUBSET Actions, NEW into, \A a \in D : into[a] \in Actions \ D,
         \A a \in Actions \ D : q[a] >= r[a] + Cardinality(Demands(r, {o \in D : into[o] = a}))
  PROVE  /\ \A a \in D : q[into[a]] >= r[a]
         /\ Cardinality(Demands(q, Actions)) >= Cardinality(Demands(r, Actions))
<1> DEFINE Olds(a)  == {o \in D : into[o] = a}
           Moved(a) == Demands(r, Olds(a))
<1>1. \A a : IsFiniteSet(Olds(a)) /\ IsFiniteSet(Moved(a)) /\ Cardinality(Moved(a)) \in Nat
  <2> TAKE a
  <2>1. Olds(a) \in SUBSET Actions
    OBVIOUS
  <2>2. IsFiniteSet(Olds(a)) /\ \A o \in Olds(a) : r[o] \in Nat
    BY <2>1, FS_Subset
  <2> HIDE DEF Olds
  <2>3. QED
    BY <2>2, DemandsFinite
<1>2. ASSUME NEW a \in D PROVE q[into[a]] >= r[a]
  <2>1. a \in Olds(into[a]) /\ \A o \in Olds(into[a]) : r[o] \in Nat
    OBVIOUS
  <2>2. r[a] <= Cardinality(Moved(into[a]))
    <3> HIDE DEF Olds
    <3>1. QED
      BY <1>1, <2>1, OneOfThem
  <2>3. /\ q[into[a]] >= r[into[a]] + Cardinality(Moved(into[a]))
        /\ r[into[a]] \in Nat /\ r[a] \in Nat /\ q[into[a]] \in Nat
    OBVIOUS
  <2>4. Cardinality(Moved(into[a])) \in Nat
    BY <1>1
  <2> HIDE DEF Moved
  <2>5. QED
    BY <2>2, <2>3, <2>4
<1> DEFINE Good(a, f) == /\ f \in [Moved(a) -> 1 .. Cardinality(Moved(a))]
                         /\ \A x, y \in Moved(a) : f[x] = f[y] => x = y
<1>3. PICK g : \A a \in Actions : Good(a, g[a])
  <2> HIDE DEF Moved
  <2>1. \A a \in Actions : \E f : Good(a, f)
    BY <1>1, Numbered
  <2> DEFINE pick == [a \in Actions |-> CHOOSE f : Good(a, f)]
  <2> HIDE DEF Good
  <2>2. \A a \in Actions : Good(a, pick[a])
    BY <2>1
  <2>3. QED
    BY <2>2
<1>4. /\ \A a \in Actions \ D : /\ q[a] >= r[a] + Cardinality(Moved(a))
                                /\ q[a] \in Nat /\ r[a] \in Nat /\ Cardinality(Moved(a)) \in Nat
      /\ \A d \in Demands(r, Actions) : d[1] \in D => /\ into[d[1]] \in Actions \ D
                                                      /\ d \in Moved(into[d[1]])
  <2>1. \A a \in Actions \ D : q[a] >= r[a] + Cardinality(Moved(a))
    OBVIOUS
  <2>2. ASSUME NEW d \in Demands(r, Actions), d[1] \in D PROVE d \in Moved(into[d[1]])
    <3>1. d = <<d[1], d[2]>> /\ d[2] \in 1 .. r[d[1]] /\ d[1] \in Olds(into[d[1]])
      BY <2>2, DemandsAre
    <3> HIDE DEF Olds
    <3>2. QED
      BY <3>1, DemandsAre
  <2> HIDE DEF Moved
  <2>3. QED
    BY <1>1, <2>1, <2>2
<1> HIDE DEF Moved
<1> DEFINE to(d) == IF d[1] \in D THEN <<into[d[1]], r[into[d[1]]] + g[into[d[1]]][d]>> ELSE d
           h == [d \in Demands(r, Actions) |-> to(d)]
<1>5. ASSUME NEW d \in Demands(r, Actions) PROVE to(d) \in Demands(q, Actions)
  <2>1. d = <<d[1], d[2]>> /\ d[1] \in Actions /\ d[2] \in 1 .. r[d[1]]
    BY DemandsAre
  <2>2. CASE d[1] \in D
    <3> DEFINE a == into[d[1]]
    <3>1. /\ a \in Actions \ D /\ g[a][d] \in 1 .. Cardinality(Moved(a))
          /\ q[a] >= r[a] + Cardinality(Moved(a)) /\ Cardinality(Moved(a)) \in Nat
          /\ q[a] \in Nat /\ r[a] \in Nat
      BY <1>3, <1>4, <2>2
    <3>2. to(d) = <<a, r[a] + g[a][d]>>
      BY <2>2
    <3> HIDE DEF a, to
    <3>3. r[a] + g[a][d] \in 1 .. q[a]
      BY <3>1
    <3>4. QED
      BY <3>1, <3>2, <3>3, DemandsAre
  <2>3. CASE d[1] \notin D
    <3>1. /\ q[d[1]] >= r[d[1]] + Cardinality(Moved(d[1])) /\ Cardinality(Moved(d[1])) \in Nat
          /\ q[d[1]] \in Nat /\ r[d[1]] \in Nat
      BY <1>4, <2>1, <2>3
    <3>2. d[2] \in 1 .. q[d[1]]
      BY <2>1, <3>1
    <3>3. to(d) = d
      BY <2>3
    <3> HIDE DEF to
    <3>4. QED
      BY <2>1, <3>2, <3>3, DemandsAre
  <2>4. QED
    BY <2>2, <2>3
<1>6. ASSUME NEW d \in Demands(r, Actions), NEW e \in Demands(r, Actions), to(d) = to(e)
      PROVE  d = e
  <2>1. /\ d = <<d[1], d[2]>> /\ d[1] \in Actions /\ d[2] \in 1 .. r[d[1]]
        /\ e = <<e[1], e[2]>> /\ e[1] \in Actions /\ e[2] \in 1 .. r[e[1]]
    BY DemandsAre
  <2>2. CASE d[1] \in D /\ e[1] \in D
    <3> DEFINE a == into[d[1]]
    <3>1. a = into[e[1]] /\ r[a] + g[a][d] = r[a] + g[a][e]
      BY <1>6, <2>2
    <3>2. /\ a \in Actions /\ d \in Moved(a) /\ e \in Moved(a)
          /\ g[a][d] \in Nat /\ g[a][e] \in Nat /\ r[a] \in Nat
      BY <1>3, <1>4, <2>2, <3>1
    <3>3. Good(a, g[a])
      BY <1>3, <3>2
    <3> HIDE DEF a
    <3>4. g[a][d] = g[a][e]
      BY <3>1, <3>2
    <3>5. QED
      BY <3>2, <3>3, <3>4
  <2>3. ASSUME NEW x \in Demands(r, Actions), NEW y \in Demands(r, Actions),
               x[1] \in D, y[1] \notin D, to(x) = to(y)
        PROVE  FALSE
    <3> DEFINE a == into[x[1]]
    <3>1. y = <<a, r[a] + g[a][x]>>
      BY <2>3
    <3>2. a \in Actions /\ g[a][x] \in Nat /\ g[a][x] >= 1 /\ r[a] \in Nat
      BY <1>3, <1>4, <2>3
    <3>3. y[1] = a /\ y[2] = r[a] + g[a][x]
      <4> HIDE DEF a
      <4>1. QED
        BY <3>1
    <3>4. y[2] \in 1 .. r[y[1]]
      BY DemandsAre
    <3> HIDE DEF a
    <3>5. QED
      BY <3>2, <3>3, <3>4
  <2>4. CASE d[1] \notin D /\ e[1] \notin D
    BY <1>6, <2>4
  <2>5. QED
    <3> HIDE DEF to
    <3>1. QED
      BY <1>6, <2>2, <2>3, <2>4
<1>7. h \in Injection(Demands(r, Actions), Demands(q, Actions))
  <2> HIDE DEF to
  <2>1. h \in [Demands(r, Actions) -> Demands(q, Actions)]
    BY <1>5
  <2>2. \A d, e \in Demands(r, Actions) : h[d] = h[e] => d = e
    BY <1>6
  <2> HIDE DEF h
  <2>3. QED
    BY <2>1, <2>2, Fun_IsInj
<1>8. Cardinality(Demands(r, Actions)) <= Cardinality(Demands(q, Actions))
  <2> HIDE DEF h
  <2>1. QED
    BY <1>7, DemandsFinite, FS_Injection
<1>9. Cardinality(Demands(r, Actions)) \in Nat /\ Cardinality(Demands(q, Actions)) \in Nat
  BY DemandsFinite
<1>10. QED
  BY <1>2, <1>8, <1>9

(* Only a discovery supersedes: what it replaces had a record, what it     *)
(* replaces it by had none.                                                *)
Supersedes(ev) ==
  /\ \A old \in DOMAIN ev.sups : old \in known /\ ev.sups[old] \in Actions \ known
  /\ retiredBy' = [a \in Actions |-> IF a \in DOMAIN ev.sups THEN ev.sups[a] ELSE retiredBy[a]]
  /\ refs' = RefsAfter(ev)

(* A discovery supersedes, or leaves demands and supersessions alone.    *)
LEMMA DiscoverySupersedes ==
  ASSUME SessionInv, NEW ev, ev.list \in Seq(Actions), Discovered(ev)
  PROVE  UNCHANGED <<retiredBy, refs>> \/ Supersedes(ev)
<1>1. known \subseteq owned /\ Range(ev.list) \subseteq Actions /\ Active \subseteq known
  BY RangeOfList DEF SessionInv, RecordsMatch, Active
<1>2. CASE UNCHANGED graph
  BY <1>2 DEF graph
<1>3. CASE DiscoveryErrors(ev) = {} /\ ~Restated(ev) /\ ~UNCHANGED graph
  <2>1. GraphErrors(ev.list) = {} /\ ~BadSupersession(ev)
    BY <1>3 DEF DiscoveryErrors
  <2>2. Range(ev.list) \cap owned = {}
    BY <2>1 DEF GraphErrors, DuplicateIn
  <2>3. \A old \in DOMAIN ev.sups : old \in known /\ ev.sups[old] \in Actions \ known
    BY <1>1, <2>1, <2>2 DEF BadSupersession
  <2>4. CASE Crash
    BY <2>4 DEF Crash
  <2>5. CASE ~Crash
    BY <1>3, <2>3, <2>5 DEF Discovered, Supersedes
  <2>6. QED
    BY <2>4, <2>5
<1>4. QED
  BY <1>2, <1>3 DEF Discovered

(* A supersession counts with natural numbers too, and loses no demand.    *)
LEMMA SupersessionKeepsDemands ==
  ASSUME IsFiniteSet(Actions), SessionInv, DemandInv, NEW ev, Supersedes(ev)
  PROVE  /\ DemandInv'
         /\ \A a \in Actions : retiredBy[a] = None /\ retiredBy'[a] # None
              => /\ refs'[retiredBy'[a]] >= refs[a]
                 /\ TotalDemand(refs') >= TotalDemand(refs)
<1> DEFINE D == DOMAIN ev.sups
           into == ev.sups
<1>1. D \in SUBSET Actions /\ \A a \in D : into[a] \in Actions \ D
  BY DEF Supersedes, SessionInv, RecordsMatch
<1>2. \A a \in Actions : Inherited(ev, a) \in Nat
  <2> TAKE a \in Actions
  <2> DEFINE Olds == {o \in D : into[o] = a}
  <2>1. Olds \in SUBSET Actions
    BY <1>1
  <2>2. IsFiniteSet(Olds) /\ \A o \in Olds : refs[o] \in Nat
    BY <2>1, FS_Subset DEF DemandInv
  <2> HIDE DEF Olds
  <2>3. Cardinality(Demands(refs, Olds)) \in Nat
    BY <2>2, DemandsFinite
  <2>4. QED
    BY <2>3 DEF Inherited, Olds
<1>3. PICK r : r = refs
  OBVIOUS
<1>4. PICK q : q = RefsAfter(ev)
  OBVIOUS
<1>5. r \in [Actions -> Nat] /\ q \in [Actions -> Nat] /\ refs' = q
  BY <1>2, <1>3, <1>4 DEF DemandInv, RefsAfter, Supersedes
<1>6. \A a \in Actions \ D : q[a] >= r[a] + Cardinality(Demands(r, {o \in D : into[o] = a}))
  <2> TAKE a \in Actions \ D
  <2>1. Inherited(ev, a) = Cardinality(Demands(r, {o \in D : into[o] = a}))
    BY <1>3 DEF Inherited
  <2>2. q[a] = r[a] + Inherited(ev, a)
               + (IF a \in ev.demands \cap (known \cup Range(ev.list)) THEN 1 ELSE 0)
    BY <1>3, <1>4 DEF RefsAfter
  <2>3. r[a] \in Nat /\ Inherited(ev, a) \in Nat
    BY <1>2, <1>5
  <2>4. q[a] >= r[a] + Inherited(ev, a)
    <3> HIDE DEF D
    <3>1. QED
      BY <2>2, <2>3
  <2>5. QED
    BY <2>1, <2>4
<1>7. \A a \in D : retiredBy'[a] = into[a]
  BY <1>1 DEF Supersedes
<1>8. \A a \in Actions : retiredBy[a] = None /\ retiredBy'[a] # None => a \in D
  BY DEF Supersedes
<1> HIDE DEF D, into
<1>9. /\ \A a \in D : q[into[a]] >= r[a]
      /\ Cardinality(Demands(q, Actions)) >= Cardinality(Demands(r, Actions))
  BY <1>1, <1>5, <1>6, MovedDemands
<1>10. TotalDemand(refs') = Cardinality(Demands(q, Actions)) /\ TotalDemand(refs) = Cardinality(Demands(r, Actions))
  BY <1>3, <1>5 DEF TotalDemand
<1>11. QED
  BY <1>3, <1>5, <1>7, <1>8, <1>9, <1>10 DEF DemandInv

(* Setting one count, or none, to a natural number.                      *)
LEMMA OneCountChanges ==
  ASSUME DemandInv, NEW a, NEW n, a \in Actions => n \in Nat, refs' = [refs EXCEPT ![a] = n]
  PROVE  DemandInv'
BY DEF DemandInv

(* Every other step keeps what is superseded, and counts naturally.      *)
LEMMA DemandSteps ==
  ASSUME NEW starts, NEW deltas, NEW ids, ListsActions(starts, deltas), CountsDemands(starts),
         IsFiniteSet(Actions), SessionInv, DemandInv, [SessionNext(starts, deltas, ids)]_session
  PROVE  (UNCHANGED retiredBy /\ DemandInv') \/ \E ev \in deltas : Supersedes(ev)
<1>1. ASSUME UNCHANGED <<retiredBy, refs>> PROVE UNCHANGED retiredBy /\ DemandInv'
  BY <1>1 DEF DemandInv
<1>2. ASSUME NEW s \in starts, StartSession(s.list, s.demanded, s.demands)
      PROVE  UNCHANGED retiredBy /\ DemandInv'
  <2>1. s.demands \in [Actions -> Nat] /\ UNCHANGED retiredBy
    BY <1>2 DEF CountsDemands, StartSession
  <2>2. \/ UNCHANGED refs
        \/ refs' = [a \in Actions |-> IF a \notin Range(s.list) THEN 0
                                      ELSE IF \E d \in Actions : s.demands[d] > 0 THEN s.demands[a]
                                      ELSE IF a \in s.demanded THEN 1 ELSE 0]
    BY <1>2 DEF StartSession, Crash
  <2>3. QED
    BY <2>1, <2>2 DEF DemandInv
<1>3. ASSUME NEW id \in ids, NEW ev \in deltas, ApplyDelta(id, ev)
      PROVE  (UNCHANGED retiredBy /\ DemandInv') \/ Supersedes(ev)
  <2>1. CASE UNCHANGED <<phase, graph>>
    BY <1>1, <2>1 DEF graph
  <2>2. CASE Discovered(ev)
    BY <1>1, <2>2, DiscoverySupersedes DEF ListsActions, Discovered
  <2>3. CASE ProducerCompleted(ev)
    BY <1>1, <2>3 DEF ProducerCompleted, graph, Crash
  <2>4. CASE ProducerFailed(ev)
    BY <1>1, <2>4 DEF ProducerFailed, graph
  <2>5. CASE DemandRequested(ev)
    <3>1. UNCHANGED retiredBy
      BY <2>5 DEF DemandRequested
    <3>2. refs' = [refs EXCEPT ![ev.action] = @ + (IF ev.action \in known THEN 1 ELSE 0)]
      BY <2>5 DEF DemandRequested
    <3>3. DemandInv'
      <4> DEFINE n == refs[ev.action] + (IF ev.action \in known THEN 1 ELSE 0)
      <4>1. ev.action \in Actions => n \in Nat
        BY DEF DemandInv
      <4>2. refs' = [refs EXCEPT ![ev.action] = n]
        BY <3>2
      <4> HIDE DEF n
      <4>3. QED
        BY <4>1, <4>2, OneCountChanges
    <3>4. QED
      BY <3>1, <3>3
  <2>6. CASE DemandCancelled(ev)
    <3>1. UNCHANGED retiredBy
      BY <2>6 DEF DemandCancelled
    <3>2. refs' = [refs EXCEPT ![ev.action] = Released(@)]
      BY <2>6 DEF DemandCancelled
    <3>3. \A n \in Nat : Released(n) \in Nat
      BY DEF Released
    <3>4. DemandInv'
      <4> DEFINE n == Released(refs[ev.action])
      <4>1. ev.action \in Actions => n \in Nat
        BY <3>3 DEF DemandInv
      <4>2. refs' = [refs EXCEPT ![ev.action] = n]
        BY <3>2
      <4> HIDE DEF n
      <4>3. QED
        BY <4>1, <4>2, OneCountChanges
    <3>5. QED
      BY <3>1, <3>4
  <2>7. QED
    BY <1>3, <2>1, <2>2, <2>3, <2>4, <2>5, <2>6 DEF ApplyDelta, Handle
<1>4. CASE CloseSession \/ RefuseEnvelope \/ UNCHANGED session
  BY <1>1, <1>4 DEF CloseSession, RefuseEnvelope, graph, session
<1>5. QED
  BY <1>2, <1>3, <1>4 DEF SessionNext

-----------------------------------------------------------------------------
(* The theorems *)

(* The session of an arbitrary client.                                     *)
SessionOf(starts, deltas, ids) == SessionInit /\ [][SessionNext(starts, deltas, ids)]_session

(* The inductive invariant holds whatever the client does (startSession    *)
(* and applyDelta of incremental_kernel.nim).                              *)
THEOREM SessionInvariant ==
  ASSUME NEW CONSTANT starts, NEW CONSTANT deltas, NEW CONSTANT ids, ListsActions(starts, deltas)
  PROVE  SessionOf(starts, deltas, ids) => []SessionInv
<1>1. SessionInit => SessionInv
  BY InvariantHolds
<1>2. SessionInv /\ [SessionNext(starts, deltas, ids)]_session => SessionInv'
  BY EveryStep, InvariantStays
<1>3. QED
  BY <1>1, <1>2, PTL DEF SessionOf

(* Whatever a client sends, the graph can be executed as it stands: no     *)
(* live action waits for itself, and none is ready before its inputs are   *)
(* there (validateAgainstGraph, isReadyAgainst, promoteNewlyReady).        *)
THEOREM GraphStaysOrderedHolds ==
  ASSUME NEW CONSTANT starts, NEW CONSTANT deltas, NEW CONSTANT ids, ListsActions(starts, deltas)
  PROVE  SessionOf(starts, deltas, ids) => []GraphStaysOrdered
<1>1. SessionInv => GraphStaysOrdered
  BY DEF SessionInv, GraphStaysOrdered
<1>2. QED
  BY <1>1, SessionInvariant, PTL

(* Late, repeated, reordered and stale events never move an action back:   *)
(* what failed or was cancelled is not revived, a completion is final.     *)
THEOREM LifecycleAdvancesHolds ==
  ASSUME NEW CONSTANT starts, NEW CONSTANT deltas, NEW CONSTANT ids, ListsActions(starts, deltas)
  PROVE  SessionOf(starts, deltas, ids) => LifecycleAdvances
<1>1. SessionInv /\ [SessionNext(starts, deltas, ids)]_session
        => [\A a \in Actions : state'[a] # state[a] => <<state[a], state'[a]>> \in Advances]_session
  BY EveryStep, StatesAdvance DEF SessionInv
<1>2. QED
  BY <1>1, SessionInvariant, PTL DEF SessionOf, LifecycleAdvances

(* The step in which an action settles wakes or fails whoever waits for    *)
(* it (promoteNewlyReady, poisonDependents).                               *)
THEOREM SettlingReachesConsumersHolds ==
  ASSUME NEW CONSTANT starts, NEW CONSTANT deltas, NEW CONSTANT ids, ListsActions(starts, deltas)
  PROVE  SessionOf(starts, deltas, ids) => SettlingReachesConsumers
<1>1. SessionInv /\ [SessionNext(starts, deltas, ids)]_session
        => [\A p \in Actions : CompletionWakesConsumers(p) /\ FailureReachesConsumers(p)]_session
  BY EveryStep, CompletionWakes, FailureReaches
<1>2. QED
  BY <1>1, SessionInvariant, PTL DEF SessionOf, SettlingReachesConsumers

(* For every finite set of actions: a replacement takes over all demands   *)
(* on what it replaces, and a discovery that supersedes any number of      *)
(* actions loses none (applyDependencyDiscovered, referenceCount).         *)
THEOREM DemandFollowsSupersessionHolds ==
  ASSUME NEW CONSTANT starts, NEW CONSTANT deltas, NEW CONSTANT ids,
         ListsActions(starts, deltas), CountsDemands(starts), IsFiniteSet(Actions)
  PROVE  SessionOf(starts, deltas, ids) => DemandFollowsSupersession
<1>1. SessionInit => DemandInv
  BY DEF SessionInit, DemandInv
<1>2. SessionInv /\ DemandInv /\ [SessionNext(starts, deltas, ids)]_session => DemandInv'
  BY DemandSteps, SupersessionKeepsDemands
<1>3. SessionInv /\ DemandInv /\ [SessionNext(starts, deltas, ids)]_session
        => [\A a \in Actions :
              retiredBy[a] = None /\ retiredBy'[a] # None
              => /\ refs'[retiredBy'[a]] >= refs[a]
                 /\ TotalDemand(refs') >= TotalDemand(refs)]_session
  BY DemandSteps, SupersessionKeepsDemands
<1>4. QED
  BY <1>1, <1>2, <1>3, SessionInvariant, PTL DEF SessionOf, DemandFollowsSupersession

-----------------------------------------------------------------------------
(* The executor: its inductive invariant *)

Carrying     == {"dispatch", "report_ok", "report_failed"}
WorkerLabels == Carrying \cup {"idle", "waiting", "exited"}

(* Between the first reply and an error.                                   *)
Going == sup \in {"receive", "push", "notify", "next", "release", "ok"}

Ready    == {a \in Actions : state[a] = "ready"}
Finished == {a \in Actions : state[a] = "completed"}

(* Before the first command.                                               *)
Fresh ==
  /\ phase = "absent" /\ known = {} /\ seen = {}
  /\ retiredBy = [a \in Actions |-> None]
  /\ queue = <<>> /\ reports = <<>> /\ batch = <<>>
  /\ pc = [w \in Workers |-> "idle"] /\ job = [w \in Workers |-> None]
  /\ done = FALSE /\ store = {} /\ found = None

RunTypeOK ==
  /\ queue \in Seq(Actions) /\ batch \in Seq(Actions)
  /\ reports \in Seq([action : Actions, ok : BOOLEAN])
  /\ pc \in [Workers -> WorkerLabels]
  /\ job \in [Workers -> Actions \cup {None}]
  /\ store \in SUBSET Actions
  /\ outstanding \in Int

(* Where the supervisor stands.                                            *)
InStep ==
  /\ found = None \/ sup \in {"push", "notify", "next"}
  /\ batch = <<>> \/ sup = "push"
  /\ sup \in {"release", "ok"} => Ready = {}

(* The session of this client: nothing superseded or cancelled, and what   *)
(* an action reads is there with it.                                       *)
Plain ==
  /\ phase = "open" /\ owned = known
  /\ \A a \in Actions : retiredBy[a] = None /\ state[a] # "cancelled"
  /\ \A a \in known : Producers(a) \subseteq known

(* What is completed could succeed, and so could all it read; what failed  *)
(* could not, or reads what could not; what is blocked waits for somebody. *)
Deserved ==
  /\ \A a \in Finished : a \notin Failing /\ Producers(a) \subseteq Finished
  /\ \A a \in Actions : state[a] = "failed" => a \in Downstream(Failing)
  /\ \A a \in Actions : state[a] = "blocked_dependency" => ~(Producers(a) \subseteq Finished)

(* An event is sent once, so what is not settled has none yet.             *)
SentOnce ==
  /\ \A a \in Actions : /\ <<"completed", a>> \in seen => state[a] = "completed"
                        /\ <<"failed", a>> \in seen => state[a] = "failed"
                        /\ <<"discovered", a>> \in seen => state[a] = "completed" /\ a # found
  /\ found # None => found \in Finished /\ Discovers(found)

(* What is known was there at the start or was found by what completed.    *)
Found == UNION {Range(scenario.finds[d]) : d \in {e \in Finished : Discovers(e) /\ e # found}}
KnownIsFound == known = Range(scenario.start) \cup Found

(* A ready action is in one place at most, and only ready actions are.     *)
OnePlace ==
  /\ \A i \in DOMAIN queue   : queue[i] \in Ready
  /\ \A i \in DOMAIN batch   : batch[i] \in Ready
  /\ \A i \in DOMAIN reports : reports[i].action \in Ready
  /\ \A w \in Workers : IF pc[w] \in Carrying THEN job[w] \in Ready ELSE job[w] = None
  /\ \A i, j \in DOMAIN queue   : i # j => queue[i] # queue[j]
  /\ \A i, j \in DOMAIN batch   : i # j => batch[i] # batch[j]
  /\ \A i, j \in DOMAIN reports : i # j => reports[i].action # reports[j].action
  /\ \A w, u \in Workers : w # u /\ job[w] # None => job[w] # job[u]
  /\ \A i \in DOMAIN queue, j \in DOMAIN batch   : queue[i] # batch[j]
  /\ \A i \in DOMAIN queue, j \in DOMAIN reports : queue[i] # reports[j].action
  /\ \A i \in DOMAIN batch, j \in DOMAIN reports : batch[i] # reports[j].action
  /\ \A i \in DOMAIN queue,   w \in Workers : job[w] # queue[i]
  /\ \A i \in DOMAIN batch,   w \in Workers : job[w] # batch[i]
  /\ \A i \in DOMAIN reports, w \in Workers : job[w] # reports[i].action

(* The counter knows them all.                                             *)
Counted == outstanding + Len(batch) = Cardinality(Ready)

(* The store has what was computed, and a verdict is what it should be.    *)
Computed(a) == a \notin Failing /\ (Discovers(a) \/ a \in store)
Truthful ==
  /\ \A a \in store : ~Discovers(a)
  /\ \A a \in Finished : Computed(a)
  /\ \A i \in DOMAIN reports : IF reports[i].ok THEN Computed(reports[i].action)
                                                ELSE reports[i].action \in Failing
  /\ \A w \in Workers : /\ pc[w] = "report_ok" => Computed(job[w])
                        /\ pc[w] = "report_failed" => job[w] \in Failing

RunInv == /\ RunTypeOK /\ InStep /\ Plain /\ Deserved /\ SentOnce /\ KnownIsFound
          /\ OnePlace /\ Counted /\ Truthful

ExecutorInv ==
  /\ SessionInv
  /\ scenario \in Scenarios /\ inputs = scenario.inputs
  /\ sup = "start" => Fresh
  /\ Going => RunInv

LEMMA Facts ==
  ASSUME ExecutorInv
  PROVE  /\ None \notin Actions /\ IsScenario(scenario) /\ IsFiniteSet(Actions)
         /\ known \subseteq Actions /\ state \in [Actions -> States]
         /\ \A a \in Actions : a \in known <=> state[a] # "absent"
         /\ \A a \in Actions : Producers(a) \subseteq Actions
         /\ \A a \in Actions : inputs[a] # <<>> => inputs[a][1] \in Producers(a)
<1>1. inputs \in [Actions -> Seq(Actions)]
  BY SessionAssumption DEF ExecutorInv, SessionInv, RecordsMatch
<1>2. ASSUME NEW a \in Actions
      PROVE  Producers(a) \subseteq Actions /\ (inputs[a] # <<>> => inputs[a][1] \in Producers(a))
  <2>1. inputs[a] \in Seq(Actions)
    BY <1>1
  <2>2. inputs[a] # <<>> => 1 \in DOMAIN inputs[a]
    BY <2>1
  <2>3. QED
    BY <2>1, <2>2 DEF Producers, Range
<1>3. QED
  BY <1>2, SessionAssumption, ExecutorAssumption DEF ExecutorInv, SessionInv, RecordsMatch

-----------------------------------------------------------------------------
(* What depends on a set *)

LEMMA DownstreamHolds ==
  ASSUME NEW S \in SUBSET Actions
  PROVE  /\ S \subseteq Downstream(S) /\ Downstream(S) \subseteq Actions
         /\ \A b \in Actions : Producers(b) \cap Downstream(S) # {} => b \in Downstream(S)
<1>1. S \subseteq Downstream(S) /\ Downstream(S) \subseteq Actions
  BY DEF Downstream
<1>2. ASSUME NEW b \in Actions, NEW p \in Producers(b), p \in Downstream(S)
      PROVE  b \in Downstream(S)
  <2> SUFFICES ASSUME NEW T \in SUBSET Actions, S \subseteq T,
                      \A c \in Actions : Producers(c) \cap T # {} => c \in T
               PROVE  b \in T
    BY DEF Downstream
  <2>1. p \in T
    BY <1>2 DEF Downstream
  <2>2. QED
    BY <1>2, <2>1
<1>3. QED
  BY <1>1, <1>2

(* It is the least such set.                                               *)
LEMMA DownstreamLeast ==
  ASSUME NEW S, NEW T \in SUBSET Actions, S \subseteq T,
         \A b \in Actions : Producers(b) \cap T # {} => b \in T
  PROVE  Downstream(S) \subseteq T
BY DEF Downstream

LEMMA SameFailing ==
  ASSUME UNCHANGED <<inputs, scenario>>
  PROVE  /\ Failing' = Failing /\ Downstream(Failing)' = Downstream(Failing)
         /\ \A a : Producers(a)' = Producers(a) /\ Discovers(a)' = Discovers(a)
<1>1. Failing' = Failing /\ \A a : Producers(a)' = Producers(a) /\ Discovers(a)' = Discovers(a)
  BY DEF Failing, Discovers, Producers
<1>2. Downstream(Failing)' = Downstream(Failing)
  BY <1>1 DEF Downstream
<1>3. QED
  BY <1>1, <1>2

(* It stays apart from a set whose members read only members.              *)
LEMMA DownstreamApart ==
  ASSUME NEW S \in SUBSET Actions, NEW D \in SUBSET Actions, S \cap D = {},
         \A a \in D : Producers(a) \subseteq D
  PROVE  Downstream(S) \cap D = {}
<1> DEFINE T == Actions \ D
<1>1. S \subseteq T /\ \A b \in Actions : Producers(b) \cap T # {} => b \in T
  OBVIOUS
<1>2. Downstream(S) \subseteq T
  <2> HIDE DEF T
  <2>1. T \in SUBSET Actions
    BY DEF T
  <2>2. QED
    BY <1>1, <2>1, DownstreamLeast
<1>3. QED
  BY <1>2

(* Nothing downstream of what cannot succeed is completed.                 *)
LEMMA FinishedApart ==
  ASSUME ExecutorInv, Going
  PROVE  Downstream(Failing) \cap Finished = {}
<1>1. Deserved
  BY DEF ExecutorInv, RunInv
<1>2. Failing \subseteq Actions /\ Finished \subseteq Actions
  BY Facts DEF Failing, IsScenario, Finished
<1>3. QED
  BY <1>1, <1>2, DownstreamApart DEF Deserved

(* A ready action fails exactly if it cannot succeed: what it reads is     *)
(* completed, and in the store unless a discovery made it.                 *)
LEMMA VerdictIsDue ==
  ASSUME ExecutorInv, Going, NEW a \in Ready
  PROVE  Succeeds(a) <=> a \notin Failing
<1>1. a \in Actions /\ a \in known /\ state[a] = "ready"
  BY Facts DEF Ready
<1>2. Truthful
  BY DEF ExecutorInv, RunInv
<1>3. ASSUME inputs[a] # <<>> PROVE inputs[a][1] \in store <=> ~Discovers(inputs[a][1])
  <2>1. inputs[a][1] \in Producers(a) /\ inputs[a][1] \in Actions
    BY <1>1, <1>3, Facts
  <2>2. state[inputs[a][1]] = "completed"
    BY <1>1, <2>1 DEF ExecutorInv, SessionInv, ReadyOnlyAfterProducers
  <2>3. QED
    BY <1>2, <2>1, <2>2 DEF Truthful, Computed, Finished
<1>4. QED
  BY <1>1, <1>3 DEF Succeeds, HasInput, Failing

(* The members of a finite set, in some order.                             *)
LEMMA ListIs ==
  ASSUME NEW S \in SUBSET Actions, NEW s \in SetToSeqs(S)
  PROVE  /\ s \in Seq(Actions) /\ Len(s) = Cardinality(S) /\ DOMAIN s = 1 .. Len(s)
         /\ \A i \in DOMAIN s : s[i] \in S
         /\ \A i, j \in DOMAIN s : i # j => s[i] # s[j]
         /\ Cardinality(S) \in Nat /\ IsFiniteSet(S)
<1>1. IsFiniteSet(S) /\ Cardinality(S) \in Nat
  BY ExecutorAssumption, FS_Subset, FS_CardinalityType
<1>2. s \in [1 .. Cardinality(S) -> S] /\ \A i, j \in 1 .. Cardinality(S) : i # j => s[i] # s[j]
  BY DEF SetToSeqs
<1>3. s \in Seq(S) /\ Len(s) = Cardinality(S) /\ DOMAIN s = 1 .. Cardinality(S)
  BY <1>1, <1>2
<1>4. QED
  BY <1>1, <1>2, <1>3

-----------------------------------------------------------------------------
(* The workers *)

(* A step of a worker leaves session and supervisor be.                    *)
LEMMA WorkerStep ==
  ASSUME ExecutorInv, UNCHANGED Elsewhere, sup # "start",
         Going => RunTypeOK' /\ OnePlace' /\ Truthful'
  PROVE  ExecutorInv'
<1>1. /\ UNCHANGED <<inputs, phase, known, owned, state, retiredBy, seen, scenario>>
      /\ UNCHANGED <<sup, batch, found, outstanding>>
  BY DEF Elsewhere, session, supervisor
<1>2. SessionInv'
  BY <1>1 DEF ExecutorInv, SessionInv, RecordsMatch, ReadyOnlyAfterProducers, LiveGraphAcyclic,
              CyclicOn, Active, Producers
<1>3. ASSUME Going PROVE RunInv'
  <2>1. Ready' = Ready /\ Finished' = Finished
    BY <1>1 DEF Ready, Finished
  <2>2. InStep' /\ Plain' /\ Counted'
    BY <1>1, <1>3, <2>1 DEF ExecutorInv, RunInv, InStep, Plain, Counted, Producers
  <2>3. Deserved'
    BY <1>1, <1>3, <2>1, SameFailing DEF ExecutorInv, RunInv, Deserved
  <2>4. SentOnce' /\ KnownIsFound'
    BY <1>1, <1>3, <2>1 DEF ExecutorInv, RunInv, SentOnce, KnownIsFound, Found, Discovers
  <2>5. QED
    BY <1>3, <2>2, <2>3, <2>4 DEF RunInv
<1>4. QED
  BY <1>1, <1>2, <1>3 DEF ExecutorInv, Going

(* The workers wake, sleep and exit.                                       *)
LEMMA WalkKeeps ==
  ASSUME ExecutorInv, UNCHANGED <<Elsewhere, queue, done, job, reports, store>>,
         NEW w \in Workers, NEW label \in WorkerLabels \ Carrying,
         pc[w] \notin Carrying, GoTo(w, label), sup # "start"
  PROVE  ExecutorInv'
<1>1. /\ UNCHANGED <<inputs, state, scenario, queue, batch, job, reports, store, outstanding>>
      /\ pc' = [pc EXCEPT ![w] = label] /\ UNCHANGED Elsewhere
  BY DEF Elsewhere, session, supervisor, GoTo
<1>2. ASSUME Going PROVE RunTypeOK' /\ OnePlace' /\ Truthful'
  <2>1. RunTypeOK /\ OnePlace /\ Truthful
    BY <1>2 DEF ExecutorInv, RunInv
  <2>2. RunTypeOK'
    BY <1>1, <2>1 DEF RunTypeOK
  <2>3. \A u \in Workers : pc'[u] = IF u = w THEN label ELSE pc[u]
    BY <1>1, <2>1 DEF RunTypeOK
  <2>4. Ready' = Ready /\ Finished' = Finished /\ \A a : Computed(a)' = Computed(a)
    BY <1>1 DEF Ready, Finished, Computed, Failing, Discovers
  <2>5. OnePlace'
    BY <1>1, <2>1, <2>3, <2>4 DEF OnePlace
  <2>6. Truthful'
    BY <1>1, <2>1, <2>3, <2>4 DEF Truthful, Failing, Discovers, Carrying
  <2>7. QED
    BY <2>2, <2>5, <2>6
<1>3. QED
  BY <1>1, <1>2, WorkerStep

LEMMA TakeKeeps ==
  ASSUME ExecutorInv, NEW w \in Workers, Take(w)
  PROVE  ExecutorInv'
<1> DEFINE a == Head(queue)
<1>1. /\ UNCHANGED <<inputs, state, scenario, batch, reports, store, outstanding>>
      /\ pc' = [pc EXCEPT ![w] = "dispatch"] /\ job' = [job EXCEPT ![w] = a]
      /\ queue' = Tail(queue) /\ queue # <<>> /\ pc[w] = "idle"
      /\ UNCHANGED Elsewhere /\ sup # "start"
  BY DEF Take, Elsewhere, session, supervisor, GoTo
<1>2. ASSUME Going PROVE RunTypeOK' /\ OnePlace' /\ Truthful'
  <2>1. RunTypeOK /\ OnePlace /\ Truthful
    BY <1>2 DEF ExecutorInv, RunInv
  <2>2. /\ queue' \in Seq(Actions) /\ Len(queue) \in Nat /\ 1 \in DOMAIN queue /\ a = queue[1]
        /\ \A i \in DOMAIN queue' : i + 1 \in DOMAIN queue /\ queue'[i] = queue[i+1] /\ i + 1 # 1
        /\ \A i, j \in DOMAIN queue' : i # j => i + 1 # j + 1
    BY <1>1, <2>1 DEF RunTypeOK
  <2>3. /\ \A u \in Workers : pc'[u] = IF u = w THEN "dispatch" ELSE pc[u]
        /\ \A u \in Workers : job'[u] = IF u = w THEN a ELSE job[u]
        /\ a \in Actions /\ None \notin Actions
    BY <1>1, <2>1, <2>2, Facts DEF RunTypeOK
  <2>4. Ready' = Ready /\ Finished' = Finished /\ \A b : Computed(b)' = Computed(b)
    BY <1>1 DEF Ready, Finished, Computed, Failing, Discovers
  <2>5. RunTypeOK'
    BY <1>1, <2>1, <2>2, <2>3 DEF RunTypeOK, WorkerLabels, Carrying
  <2>6. /\ a \in Ready /\ \A u \in Workers : job[u] # a
        /\ \A i \in DOMAIN batch : batch[i] # a
        /\ \A i \in DOMAIN reports : reports[i].action # a
        /\ \A i \in DOMAIN queue' : queue'[i] # a
    BY <2>1, <2>2 DEF OnePlace
  <2> HIDE DEF a
  <2>7. OnePlace'
    <3>1. \A i \in DOMAIN queue' : /\ queue'[i] \in Ready
                                   /\ \A j \in DOMAIN queue' : i # j => queue'[i] # queue'[j]
                                   /\ \A j \in DOMAIN batch : queue'[i] # batch[j]
                                   /\ \A j \in DOMAIN reports : queue'[i] # reports[j].action
                                   /\ \A u \in Workers : job[u] # queue'[i]
      BY <2>1, <2>2 DEF OnePlace
    <3>2. \A u \in Workers : IF pc'[u] \in Carrying THEN job'[u] \in Ready ELSE job'[u] = None
      BY <2>1, <2>3, <2>6 DEF OnePlace, Carrying
    <3>3. \A u, v \in Workers : u # v /\ job'[u] # None => job'[u] # job'[v]
      BY <2>1, <2>3, <2>6 DEF OnePlace
    <3>4. \A i \in DOMAIN queue', u \in Workers : job'[u] # queue'[i]
      BY <2>3, <2>6, <3>1
    <3>5. \A i \in DOMAIN batch, u \in Workers : job'[u] # batch[i]
      BY <2>1, <2>3, <2>6 DEF OnePlace
    <3>6. \A i \in DOMAIN reports, u \in Workers : job'[u] # reports[i].action
      BY <2>1, <2>3, <2>6 DEF OnePlace
    <3>7. /\ \A i \in DOMAIN queue' : queue'[i] \in Ready
          /\ \A i, j \in DOMAIN queue' : i # j => queue'[i] # queue'[j]
          /\ \A i \in DOMAIN queue', j \in DOMAIN batch   : queue'[i] # batch[j]
          /\ \A i \in DOMAIN queue', j \in DOMAIN reports : queue'[i] # reports[j].action
      BY <3>1
    <3>8. QED
      BY <1>1, <2>1, <2>4, <3>2, <3>3, <3>4, <3>5, <3>6, <3>7 DEF OnePlace
  <2>8. Truthful'
    BY <1>1, <2>1, <2>3, <2>4 DEF Truthful, Failing, Discovers
  <2>9. QED
    BY <2>5, <2>7, <2>8
<1>3. QED
  BY <1>1, <1>2, WorkerStep

LEMMA DispatchKeeps ==
  ASSUME ExecutorInv, NEW w \in Workers, Dispatch(w), sup # "start"
  PROVE  ExecutorInv'
<1> DEFINE a == job[w]
<1>1. /\ UNCHANGED <<inputs, state, scenario, queue, batch, job, reports, outstanding>>
      /\ pc' = [pc EXCEPT ![w] = IF Succeeds(a) THEN "report_ok" ELSE "report_failed"]
      /\ store' = IF Succeeds(a) /\ ~Discovers(a) THEN store \cup {a} ELSE store
      /\ pc[w] = "dispatch" /\ UNCHANGED Elsewhere
  BY DEF Dispatch, Elsewhere, session, supervisor, GoTo
<1>2. ASSUME Going PROVE RunTypeOK' /\ OnePlace' /\ Truthful'
  <2>1. RunTypeOK /\ OnePlace /\ Truthful
    BY <1>2 DEF ExecutorInv, RunInv
  <2>2. a \in Ready /\ a \in Actions
    BY <1>1, <2>1 DEF OnePlace, Carrying, Ready
  <2>3. Succeeds(a) <=> a \notin Failing
    BY <1>2, <2>2, VerdictIsDue
  <2> HIDE DEF a
  <2>4. \A u \in Workers : pc'[u] = IF u = w THEN IF Succeeds(a) THEN "report_ok" ELSE "report_failed"
                                    ELSE pc[u]
    BY <1>1, <2>1 DEF RunTypeOK
  <2>5. RunTypeOK'
    BY <1>1, <2>1, <2>2 DEF RunTypeOK, WorkerLabels, Carrying
  <2>6. Ready' = Ready /\ Finished' = Finished /\ Failing' = Failing
        /\ \A b : Discovers(b)' = Discovers(b)
    BY <1>1 DEF Ready, Finished, Failing, Discovers
  <2>7. OnePlace'
    BY <1>1, <2>1, <2>2, <2>4, <2>6 DEF OnePlace, Carrying, a
  <2>8. /\ Succeeds(a) => a \notin Failing /\ (Discovers(a) \/ a \in store')
        /\ \A b : Computed(b) => b \notin Failing /\ (Discovers(b) \/ b \in store')
    BY <1>1, <2>3 DEF Computed
  <2>9. Truthful'
    <3>1. \A b \in store' : ~Discovers(b)
      BY <1>1, <2>1 DEF Truthful
    <3>2. \A b \in Finished : b \notin Failing /\ (Discovers(b) \/ b \in store')
      BY <2>1, <2>8 DEF Truthful
    <3>3. \A i \in DOMAIN reports : IF reports[i].ok
                                     THEN /\ reports[i].action \notin Failing
                                          /\ Discovers(reports[i].action) \/ reports[i].action \in store'
                                     ELSE reports[i].action \in Failing
      BY <2>1, <2>8 DEF Truthful
    <3>4. \A u \in Workers :
             /\ pc'[u] = "report_ok" => job[u] \notin Failing /\ (Discovers(job[u]) \/ job[u] \in store')
             /\ pc'[u] = "report_failed" => job[u] \in Failing
      BY <2>1, <2>3, <2>4, <2>8 DEF Truthful, a
    <3>5. QED
      BY <1>1, <2>6, <3>1, <3>2, <3>3, <3>4 DEF Truthful, Computed, Discovers
  <2>10. QED
    BY <2>5, <2>7, <2>9
<1>3. QED
  BY <1>1, <1>2, WorkerStep

LEMMA ReportKeeps ==
  ASSUME ExecutorInv, NEW w \in Workers, Report(w), sup # "start"
  PROVE  ExecutorInv'
<1> DEFINE a == job[w]
           r == [action |-> a, ok |-> pc[w] = "report_ok"]
<1>1. /\ UNCHANGED <<inputs, state, scenario, queue, batch, store, outstanding>>
      /\ pc' = [pc EXCEPT ![w] = "idle"] /\ job' = [job EXCEPT ![w] = None]
      /\ reports' = Append(reports, r)
      /\ pc[w] \in {"report_ok", "report_failed"} /\ UNCHANGED Elsewhere
  BY DEF Report, Elsewhere, session, supervisor, GoTo
<1>2. ASSUME Going PROVE RunTypeOK' /\ OnePlace' /\ Truthful'
  <2>1. RunTypeOK /\ OnePlace /\ Truthful
    BY <1>2 DEF ExecutorInv, RunInv
  <2>2. a \in Ready /\ a \in Actions /\ None \notin Actions
    BY <1>1, <2>1, Facts DEF OnePlace, Carrying, Ready
  <2>3. r \in [action : Actions, ok : BOOLEAN] /\ r.action = a /\ (r.ok <=> pc[w] = "report_ok")
    BY <2>2
  <2> HIDE DEF r
  <2>4. /\ reports' \in Seq([action : Actions, ok : BOOLEAN]) /\ Len(reports) \in Nat
        /\ DOMAIN reports' = 1 .. Len(reports) + 1 /\ DOMAIN reports = 1 .. Len(reports)
        /\ reports'[Len(reports) + 1] = r
        /\ \A i \in DOMAIN reports : reports'[i] = reports[i]
    BY <1>1, <2>1, <2>3 DEF RunTypeOK
  <2>5. \A i \in DOMAIN reports' : i \in DOMAIN reports \/ i = Len(reports) + 1
    BY <2>4
  <2>6. /\ \A u \in Workers : pc'[u] = IF u = w THEN "idle" ELSE pc[u]
        /\ \A u \in Workers : job'[u] = IF u = w THEN None ELSE job[u]
    BY <1>1, <2>1 DEF RunTypeOK
  <2>7. RunTypeOK'
    BY <1>1, <2>1, <2>4, <2>6 DEF RunTypeOK, WorkerLabels
  <2>8. Ready' = Ready /\ Finished' = Finished /\ \A b : Computed(b)' = Computed(b)
    BY <1>1 DEF Ready, Finished, Computed, Failing, Discovers
  <2>9. /\ \A u \in Workers : u # w => job[u] # a
        /\ \A i \in DOMAIN batch : batch[i] # a
        /\ \A i \in DOMAIN reports : reports[i].action # a
        /\ \A i \in DOMAIN queue : queue[i] # a
    BY <2>1, <2>2 DEF OnePlace
  <2> HIDE DEF a
  <2>10. \A i \in DOMAIN reports' : /\ reports'[i].action \in Ready
                                    /\ \A j \in DOMAIN queue : queue[j] # reports'[i].action
                                    /\ \A j \in DOMAIN batch : batch[j] # reports'[i].action
                                    /\ \A u \in Workers : job'[u] # reports'[i].action
    BY <2>1, <2>2, <2>3, <2>4, <2>5, <2>6, <2>9 DEF OnePlace, Ready
  <2>11. \A i, j \in DOMAIN reports' : i # j => reports'[i].action # reports'[j].action
    BY <2>1, <2>3, <2>4, <2>5, <2>9 DEF OnePlace
  <2>12. OnePlace'
    <3>1. \A u \in Workers : IF pc'[u] \in Carrying THEN job'[u] \in Ready ELSE job'[u] = None
      BY <2>1, <2>6 DEF OnePlace, Carrying
    <3>2. \A u \in Workers : /\ job'[u] # None => job'[u] = job[u]
                             /\ \A v \in Workers : u # v /\ job'[u] # None => job'[u] # job'[v]
      BY <2>1, <2>6 DEF OnePlace
    <3>3. /\ \A i \in DOMAIN queue, u \in Workers : job'[u] # queue[i]
          /\ \A i \in DOMAIN batch, u \in Workers : job'[u] # batch[i]
      BY <2>1, <2>2, <3>2 DEF OnePlace, Ready
    <3>4. QED
      BY <1>1, <2>1, <2>8, <2>10, <2>11, <3>1, <3>2, <3>3 DEF OnePlace
  <2>13. Truthful'
    <3>1. \A i \in DOMAIN reports' : IF reports'[i].ok THEN Computed(reports'[i].action)
                                                       ELSE reports'[i].action \in Failing
      <4>1. IF r.ok THEN Computed(a) ELSE a \in Failing
        BY <1>1, <2>1, <2>3 DEF Truthful, a
      <4>2. QED
        BY <2>1, <2>3, <2>4, <2>5, <4>1 DEF Truthful
    <3>2. QED
      BY <1>1, <2>1, <2>6, <2>8, <3>1 DEF Truthful, Failing, Discovers
  <2>14. QED
    BY <2>7, <2>12, <2>13
<1>3. QED
  BY <1>1, <1>2, WorkerStep

-----------------------------------------------------------------------------
(* The commands of the supervisor *)

(* The session serves what an executor sends.                              *)
LEMMA ServesDelta ==
  ASSUME ExecutorInv, NEW id, NEW ev, ApplyDelta(id, ev),
         ev.kind = "dependency_discovered" => ev.list \in Seq(Actions)
  PROVE  SessionInv'
<1> DEFINE starts == {}
           deltas == {ev}
           ids    == {id}
<1>1. SessionNext(starts, deltas, ids) /\ ListsActions(starts, deltas)
  BY DEF SessionNext, ListsActions
<1> HIDE DEF starts, deltas, ids
<1>2. Steps
  BY <1>1, EveryStep DEF ExecutorInv
<1>3. QED
  BY <1>2, InvariantStays DEF ExecutorInv

(* A result that is announced for the first time.                          *)
LEMMA CompletionEffect ==
  ASSUME ExecutorInv, Going, NEW p \in Ready, ApplyDelta(<<"completed", p>>, Completion(p))
  PROVE  /\ seen' = seen \cup {<<"completed", p>>} /\ UNCHANGED inputs
         /\ \/ phase' = "crashed" /\ UNCHANGED state
            \/ Complete(p) /\ UNCHANGED <<phase, known, owned, retiredBy>>
<1> DEFINE id == <<"completed", p>>
           ev == Completion(p)
<1>1. /\ Plain /\ SentOnce /\ p \in Actions /\ state[p] = "ready" /\ p \in known
  BY Facts DEF ExecutorInv, RunInv, Ready
<1>2. p \in Active /\ id \notin seen
  BY <1>1 DEF Plain, SentOnce, Active
<1>3. ev.kind = "producer_completed" /\ ev.action = p
  BY DEF Completion
<1>4. Handle(ev) /\ seen' = seen \cup {id} /\ UNCHANGED inputs
  BY <1>2 DEF ApplyDelta
<1>5. ProducerCompleted(ev)
  BY <1>3, <1>4 DEF Handle, Discovered, ProducerFailed, DemandRequested, DemandCancelled
<1>6. QED
  BY <1>1, <1>2, <1>3, <1>4, <1>5 DEF ProducerCompleted, Crash

(* An error that is announced for the first time.                          *)
LEMMA FailureEffect ==
  ASSUME ExecutorInv, Going, NEW p \in Ready, ApplyDelta(<<"failed", p>>, Failure(p))
  PROVE  /\ seen' = seen \cup {<<"failed", p>>} /\ UNCHANGED <<inputs, phase, known, owned, retiredBy>>
         /\ state' = [a \in Actions |-> IF a \in {p} \cup Poisoned(p) THEN "failed" ELSE state[a]]
         /\ reply'.ready = {} /\ p \in Undecided
<1> DEFINE id == <<"failed", p>>
           ev == Failure(p)
<1>1. /\ Plain /\ SentOnce /\ p \in Actions /\ state[p] = "ready" /\ p \in known
  BY Facts DEF ExecutorInv, RunInv, Ready
<1>2. p \in Undecided /\ id \notin seen
  BY <1>1 DEF Plain, SentOnce, Active, Undecided
<1>3. ev.kind = "producer_failed" /\ ev.action = p
  BY DEF Failure
<1>4. Handle(ev) /\ seen' = seen \cup {id} /\ UNCHANGED inputs
  BY <1>2 DEF ApplyDelta
<1>5. ProducerFailed(ev)
  BY <1>3, <1>4 DEF Handle, Discovered, ProducerCompleted, DemandRequested, DemandCancelled
<1>6. QED
  BY <1>2, <1>3, <1>4, <1>5 DEF ProducerFailed, Delta

(* The actions of list are new; those that have what they read are ready.  *)
Inserts(list) ==
  /\ Range(list) \subseteq Actions /\ Range(list) \cap known = {}
  /\ known' = known \cup Range(list) /\ owned' = known'
  /\ \A a \in Range(list) : Producers(a) \subseteq known'
  /\ state' = Inserted(list) /\ reply'.ready = ReadyAmong(list)
  /\ phase' = "open"
  /\ \A a \in Actions : retiredBy'[a] = None

(* A discovery that is announced and not refused.                          *)
LEMMA DiscoveryEffect ==
  ASSUME ExecutorInv, Going, found # None, NEW list \in Seq(Actions), NEW demands, NEW behind,
         ApplyDelta(<<"discovered", found>>, Discovery(list, <<>>, demands, behind))
  PROVE  /\ seen' = seen \cup {<<"discovered", found>>} /\ UNCHANGED inputs
         /\ \/ phase' = "crashed" /\ UNCHANGED state
            \/ reply'.kind = "rejected" /\ UNCHANGED state
            \/ /\ Range(list) \subseteq known /\ reply'.ready = {}
               /\ UNCHANGED <<phase, known, owned, state, retiredBy>>
            \/ Inserts(list)
<1> DEFINE id == <<"discovered", found>>
           ev == Discovery(list, <<>>, demands, behind)
<1>1. Plain /\ SentOnce /\ found \in Actions /\ id \notin seen
  BY DEF ExecutorInv, RunInv, SentOnce, Finished
<1>2. /\ ev.kind = "dependency_discovered" /\ ev.list = list /\ DOMAIN ev.sups = {}
  BY DEF Discovery
<1>3. Handle(ev) /\ seen' = seen \cup {id} /\ UNCHANGED inputs
  BY <1>1 DEF ApplyDelta
<1> HIDE DEF ev
<1>4. Discovered(ev)
  BY <1>2, <1>3 DEF Handle, ProducerFailed, ProducerCompleted, DemandRequested, DemandCancelled
<1>5. CASE DiscoveryErrors(ev) # {} /\ (\E reason \in DiscoveryErrors(ev) : Refuse(reason))
           /\ UNCHANGED <<phase, graph>>
  BY <1>3, <1>5 DEF Refuse, graph
<1>6. CASE Restated(ev) /\ UNCHANGED <<phase, graph>> /\ (\E note : Delta({}, {}, note))
  BY <1>2, <1>3, <1>6 DEF Delta, Restated, graph
<1>7. CASE /\ DiscoveryErrors(ev) = {} /\ ~Restated(ev)
           /\ owned' = owned \cup Range(list) /\ ~InsertRaises(list)
           /\ known' = known \cup Range(list) /\ state' = Inserted(list) /\ UNCHANGED phase
           /\ retiredBy' = [a \in Actions |-> IF a \in DOMAIN ev.sups THEN ev.sups[a] ELSE retiredBy[a]]
           /\ Delta(Range(list), ReadyAmong(list), "none")
  <2>1. GraphErrors(list) = {}
    BY <1>2, <1>7 DEF DiscoveryErrors
  <2>2. ~DuplicateIn(list) /\ ~MissingIn(list)
    BY <2>1 DEF GraphErrors
  <2>3. owned = known /\ phase = "open" /\ \A a \in known : Producers(a) \subseteq known
    BY <1>1 DEF Plain
  <2>4. Range(list) \cap known = {} /\ \A a \in Range(list) : Producers(a) \subseteq known \cup Range(list)
    BY <2>2, <2>3 DEF DuplicateIn, MissingIn
  <2>5. \A a \in Actions : retiredBy'[a] = None
    BY <1>1, <1>2, <1>7 DEF Plain
  <2>6. Inserts(list)
    BY <1>7, <2>3, <2>4, <2>5, RangeOfList DEF Inserts, Delta
  <2>7. QED
    BY <1>3, <2>6
<1>8. CASE Crash
  BY <1>3, <1>8 DEF Crash
<1>9. QED
  BY <1>2, <1>4, <1>5, <1>6, <1>7, <1>8 DEF Discovered

LEMMA StartEffect ==
  ASSUME ExecutorInv, Start
  PROVE  /\ UNCHANGED <<inputs, seen>> /\ Inserts(scenario.start) /\ known = {}
<1> DEFINE list == scenario.start
           demands == [a \in Actions |-> 0]
<1>1. /\ Fresh /\ list \in Seq(Actions) /\ StartSession(list, {}, demands)
      /\ reply'.kind = "plan_delta"
  BY Facts DEF ExecutorInv, Start, IsScenario
<1>2. UNCHANGED <<inputs, retiredBy, seen>>
  BY <1>1 DEF StartSession
<1> HIDE DEF demands
<1>3. GraphErrors(list) = {}
  BY <1>1 DEF StartSession, Refuse
<1>4. /\ owned' = Range(list) /\ phase' = "open" /\ known' = Range(list)
      /\ state' = Inserted(list) /\ reply'.ready = ReadyAmong(list)
  BY <1>1, <1>3 DEF StartSession, Refuse, Crash, NoReply, Delta
<1>5. known = {} /\ owned = {} /\ \A a \in Actions : retiredBy[a] = None
  BY <1>1 DEF Fresh, ExecutorInv, SessionInv, RecordsMatch
<1>6. \A a \in Range(list) : Producers(a) \subseteq Range(list)
  BY <1>3, <1>5 DEF GraphErrors, MissingIn
<1>7. QED
  BY <1>1, <1>2, <1>4, <1>5, <1>6, RangeOfList DEF Inserts

LEMMA ServesStart ==
  ASSUME ExecutorInv, Start
  PROVE  SessionInv'
<1>1. /\ scenario.start \in Seq(Actions) /\ StartSession(scenario.start, {}, [a \in Actions |-> 0])
  BY Facts DEF ExecutorInv, Start, IsScenario
<1>2. Steps
  BY <1>1, StartSteps DEF ExecutorInv
<1>3. QED
  BY <1>2, InvariantStays DEF ExecutorInv

(* Two sets of actions that share none.                                    *)
LEMMA Adds ==
  ASSUME NEW R \in SUBSET Actions, NEW N \in SUBSET Actions, R \cap N = {}
  PROVE  /\ Cardinality(R \cup N) = Cardinality(R) + Cardinality(N)
         /\ Cardinality(R) \in Nat /\ Cardinality(N) \in Nat
<1>1. IsFiniteSet(R) /\ IsFiniteSet(N)
  BY ExecutorAssumption, FS_Subset
<1>2. Cardinality(R) \in Nat /\ Cardinality(N) \in Nat
  BY <1>1, FS_CardinalityType
<1>3. Cardinality(R \cup N) = Cardinality(R) + Cardinality(N) - Cardinality(R \cap N)
  BY <1>1, FS_Union
<1>4. Cardinality(R \cap N) = 0
  BY FS_EmptySet
<1>5. QED
  BY <1>2, <1>3, <1>4

LEMMA OneLess ==
  ASSUME NEW R \in SUBSET Actions, NEW p \in R
  PROVE  Cardinality(R \ {p}) = Cardinality(R) - 1
BY ExecutorAssumption, FS_Subset, FS_RemoveElement

(* What an insertion does to the sets of actions.                          *)
LEMMA InsertionIs ==
  ASSUME ExecutorInv, UNCHANGED inputs, NEW list \in Seq(Actions), Inserts(list)
  PROVE  /\ Ready' = Ready \cup ReadyAmong(list) /\ Ready \cap ReadyAmong(list) = {}
         /\ ReadyAmong(list) \in SUBSET Actions /\ Finished' = Finished
         /\ \A a \in Actions : state'[a] \in {"failed", "cancelled"} => state'[a] = state[a]
         /\ \A a \in Actions : state[a] # "absent" => state'[a] = state[a]
         /\ \A a \in Actions : state'[a] = "blocked_dependency" /\ state[a] # "blocked_dependency"
                               => ~(Producers(a) \subseteq Finished)
<1>1. /\ state \in [Actions -> States] /\ \A a \in Actions : Producers(a) \subseteq Actions
      /\ \A a \in Range(list) : a \in Actions /\ state[a] = "absent"
  BY Facts DEF Inserts
<1>2. \A a \in Actions : state'[a] = IF a \in Range(list) THEN InitialState(a) ELSE state[a]
  BY DEF Inserts, Inserted
<1>3. \A a \in Actions : Satisfied(a, state) <=> Producers(a) \subseteq Finished
  BY <1>1 DEF Satisfied, Finished
<1>4. Finished' = Finished /\ \A a \in Actions : state'[a] \in {"failed", "cancelled"} => state'[a] = state[a]
  BY <1>1, <1>2 DEF Finished, InitialState
<1>5. Ready' = Ready \cup ReadyAmong(list) /\ Ready \cap ReadyAmong(list) = {}
  BY <1>1, <1>2 DEF Ready, ReadyAmong, InitialState
<1>6. QED
  BY <1>1, <1>2, <1>3, <1>4, <1>5 DEF ReadyAmong, InitialState

(* What a completion does.                                                 *)
LEMMA CompletionIs ==
  ASSUME ExecutorInv, Going, NEW p \in Ready, UNCHANGED inputs, Complete(p)
  PROVE  /\ Ready' = (Ready \ {p}) \cup reply'.ready /\ Ready \cap reply'.ready = {}
         /\ reply'.ready \in SUBSET Actions /\ Finished' = Finished \cup {p}
         /\ \A a \in Actions : state'[a] \in {"failed", "cancelled"} => state'[a] = state[a]
         /\ \A a \in Actions : state[a] = "failed" => state'[a] = "failed"
         /\ \A a \in Actions : state'[a] = "blocked_dependency"
                               => state[a] = "blocked_dependency" /\ ~(Producers(a) \subseteq Finished')
<1> DEFINE after == [state EXCEPT ![p] = "completed"]
           woken == Unblocked(p, after)
<1>1. /\ state \in [Actions -> States] /\ \A a \in Actions : Producers(a) \subseteq Actions
      /\ p \in Actions /\ state[p] = "ready" /\ known \subseteq Actions
      /\ \A a \in Actions : a \in known <=> state[a] # "absent"
  BY Facts DEF Ready
<1>2. Active = known /\ Deserved
  BY Facts DEF ExecutorInv, RunInv, Plain, Active
<1>3. reply'.ready = woken /\ state' = [a \in Actions |-> IF a \in woken THEN "ready" ELSE after[a]]
  BY DEF Complete, Delta
<1>4. \A a \in Actions : after[a] = IF a = p THEN "completed" ELSE state[a]
  BY <1>1
<1>5. woken \subseteq Actions /\ \A a \in woken : state[a] = "blocked_dependency"
  BY <1>1, <1>2 DEF Unblocked, Dependents
<1>6. \A a \in Actions : Satisfied(a, after) <=> Producers(a) \subseteq Finished \cup {p}
  BY <1>1, <1>4 DEF Satisfied, Finished
<1>7. ASSUME NEW a \in Actions, state[a] = "blocked_dependency", a \notin woken
      PROVE  ~(Producers(a) \subseteq Finished \cup {p})
  <2>1. CASE p \in Producers(a)
    <3>1. a \in Dependents(p)
      BY <1>1, <1>2, <1>7, <2>1 DEF Dependents
    <3>2. QED
      BY <1>6, <1>7, <3>1 DEF Unblocked
  <2>2. CASE p \notin Producers(a)
    BY <1>2, <1>7, <2>2 DEF Deserved
  <2>3. QED
    BY <2>1, <2>2
<1> HIDE DEF after, woken
<1>8. \A a \in Actions : state'[a] = IF a \in woken THEN "ready" ELSE IF a = p THEN "completed" ELSE state[a]
  BY <1>3, <1>4
<1>9. Finished' = Finished \cup {p}
  BY <1>1, <1>5, <1>8 DEF Finished
<1>10. Ready' = (Ready \ {p}) \cup woken /\ Ready \cap woken = {}
  BY <1>1, <1>5, <1>8 DEF Ready
<1>11. QED
  BY <1>1, <1>3, <1>5, <1>7, <1>8, <1>9, <1>10

(* What a failure does: only blocked actions fail with it.                 *)
LEMMA FailureIs ==
  ASSUME ExecutorInv, Going, NEW p \in Ready, p \in Failing, p \in Undecided, UNCHANGED inputs,
         state' = [a \in Actions |-> IF a \in {p} \cup Poisoned(p) THEN "failed" ELSE state[a]]
  PROVE  /\ Ready' = Ready \ {p} /\ Finished' = Finished /\ state'[p] = "failed"
         /\ \A a \in Actions : state[a] = "failed" => state'[a] = "failed"
         /\ \A a \in Actions : state'[a] = "failed" => state[a] = "failed" \/ a \in Downstream(Failing)
         /\ \A a \in Actions : state'[a] \in {"blocked_dependency", "cancelled"} => state'[a] = state[a]
<1> DEFINE S == {c \in Undecided : state[c] = "blocked_dependency" /\ c \in Downstream(Failing)}
<1>1. /\ state \in [Actions -> States] /\ known \subseteq Actions /\ Undecided \subseteq known
      /\ p \in Actions /\ state[p] = "ready" /\ Failing \in SUBSET Actions
  BY Facts DEF Ready, Undecided, Active, Failing, IsScenario
<1>2. ASSUME NEW d \in Undecided, NEW q \in Producers(d), q \in S \cup {p} PROVE d \in S
  <2>1. state[q] # "completed" /\ q \in Downstream(Failing)
    BY <1>1, <1>2, DownstreamHolds
  <2>2. state[d] # "ready"
    BY <1>1, <1>2, <2>1 DEF ExecutorInv, SessionInv, ReadyOnlyAfterProducers
  <2>3. state[d] = "blocked_dependency"
    BY <1>2, <2>2 DEF Undecided
  <2>4. d \in Downstream(Failing)
    BY <1>1, <1>2, <2>1, DownstreamHolds
  <2>5. QED
    BY <1>2, <2>3, <2>4
<1>3. Poisoned(p) \subseteq S
  <2>1. S \in SUBSET Undecided /\ \A d \in Undecided : Producers(d) \cap (S \cup {p}) # {} => d \in S
    BY <1>2
  <2> HIDE DEF S
  <2>2. QED
    BY <2>1 DEF Poisoned
<1>4. \A a \in Poisoned(p) : state[a] = "blocked_dependency" /\ a \in Downstream(Failing)
  BY <1>3
<1>5. p \in Downstream(Failing)
  BY <1>1, DownstreamHolds
<1>6. \A a \in Actions : state'[a] = IF a = p \/ a \in Poisoned(p) THEN "failed" ELSE state[a]
  OBVIOUS
<1>7. Ready' = Ready \ {p} /\ Finished' = Finished
  BY <1>1, <1>4, <1>6 DEF Ready, Finished
<1>8. QED
  BY <1>1, <1>4, <1>5, <1>6, <1>7

(* The places, when some ready actions go and others come in a batch.      *)
LEMMA PlacesChange ==
  ASSUME RunTypeOK, OnePlace, batch = <<>>, UNCHANGED <<queue, pc, job>>,
         NEW k \in Nat,
         \A i \in DOMAIN reports' : i + k \in DOMAIN reports /\ reports'[i] = reports[i+k],
         reports' \in Seq([action : Actions, ok : BOOLEAN]),
         NEW G, Ready \ G \subseteq Ready',
         \A i \in DOMAIN queue : queue[i] \notin G,
         \A i \in DOMAIN reports' : reports'[i].action \notin G,
         \A w \in Workers : pc[w] \in Carrying => job[w] \notin G,
         \A i \in DOMAIN batch' : batch'[i] \in Ready' \ Ready /\ batch'[i] # None,
         \A i, j \in DOMAIN batch' : i # j => batch'[i] # batch'[j]
  PROVE  OnePlace'
<1>1. \A i \in DOMAIN reports' : i \in Nat
  OBVIOUS
<1>2. \A i \in DOMAIN reports' : /\ reports'[i].action \in Ready
                                 /\ \A j \in DOMAIN queue : queue[j] # reports'[i].action
                                 /\ \A u \in Workers : job[u] # reports'[i].action
  BY DEF OnePlace
<1>3. \A i, j \in DOMAIN reports' : i # j => reports'[i].action # reports'[j].action
  BY <1>1 DEF OnePlace
<1>4. /\ \A i \in DOMAIN queue' : queue'[i] \in Ready'
      /\ \A i \in DOMAIN batch' : batch'[i] \in Ready'
      /\ \A i \in DOMAIN reports' : reports'[i].action \in Ready'
  BY <1>2 DEF OnePlace
<1>5. \A w \in Workers : IF pc'[w] \in Carrying THEN job'[w] \in Ready' ELSE job'[w] = None
  BY DEF OnePlace
<1>6. /\ \A i \in DOMAIN queue', j \in DOMAIN batch' : queue'[i] # batch'[j]
      /\ \A i \in DOMAIN batch', j \in DOMAIN reports' : batch'[i] # reports'[j].action
  BY <1>2 DEF OnePlace
<1>7. \A i \in DOMAIN batch', w \in Workers : job'[w] # batch'[i]
  BY DEF OnePlace
<1>8. QED
  BY <1>2, <1>3, <1>4, <1>5, <1>6, <1>7 DEF OnePlace

-----------------------------------------------------------------------------
(* The supervisor *)

(* A step of the supervisor that sends no command.                         *)
LEMMA QuietStep ==
  ASSUME ExecutorInv, UNCHANGED <<session, scenario, job, reports, store, found>>, Going,
         sup' # "start",
         pc' \in [Workers -> WorkerLabels],
         \A w \in Workers : pc'[w] \in Carrying \/ pc[w] \in Carrying => pc'[w] = pc[w],
         Going' => RunTypeOK' /\ InStep' /\ OnePlace' /\ Counted'
  PROVE  ExecutorInv'
<1>1. UNCHANGED <<inputs, phase, known, owned, state, retiredBy, seen>>
  BY DEF session
<1>2. SessionInv'
  BY <1>1 DEF ExecutorInv, SessionInv, RecordsMatch, ReadyOnlyAfterProducers, LiveGraphAcyclic,
              CyclicOn, Active, Producers
<1>3. ASSUME Going' PROVE RunInv'
  <2>1. RunInv
    BY DEF ExecutorInv
  <2>2. Ready' = Ready /\ Finished' = Finished
    BY <1>1 DEF Ready, Finished
  <2>3. Plain'
    BY <1>1, <2>1 DEF RunInv, Plain, Producers
  <2>4. Deserved'
    BY <1>1, <2>1, <2>2, SameFailing DEF RunInv, Deserved
  <2>5. SentOnce' /\ KnownIsFound'
    BY <1>1, <2>1, <2>2 DEF RunInv, SentOnce, KnownIsFound, Found, Discovers
  <2>6. Truthful'
    BY <1>1, <2>1, <2>2 DEF RunInv, Truthful, Computed, Failing, Discovers, Carrying
  <2>7. QED
    BY <1>3, <2>3, <2>4, <2>5, <2>6 DEF RunInv
<1>4. QED
  BY <1>1, <1>2, <1>3 DEF ExecutorInv

LEMMA NotifyKeeps ==
  ASSUME ExecutorInv, UNCHANGED <<session, scenario, queue, job, reports, store, batch, found, outstanding>>,
         NotifyAll \/ UNCHANGED pc,
         \/ sup = "notify" /\ sup' = "next"
         \/ sup = "next" /\ found = None /\ sup' = "receive"
         \/ sup = "receive" /\ Ready = {} /\ sup' = "release"
         \/ sup = "release" /\ sup' = "ok"
  PROVE  ExecutorInv'
<1>1. RunTypeOK /\ InStep /\ OnePlace /\ Counted /\ Going
  BY DEF ExecutorInv, Going, RunInv
<1>2. /\ pc' \in [Workers -> WorkerLabels]
      /\ \A w \in Workers : pc'[w] \in Carrying \/ pc[w] \in Carrying => pc'[w] = pc[w]
  <2>1. CASE UNCHANGED pc
    BY <1>1, <2>1 DEF RunTypeOK
  <2>2. CASE NotifyAll
    <3>1. \A w \in Workers : pc'[w] = IF pc[w] = "waiting" THEN "idle" ELSE pc[w]
      BY <2>2 DEF NotifyAll
    <3>2. pc' \in [Workers -> WorkerLabels]
      BY <1>1, <2>2 DEF NotifyAll, RunTypeOK, WorkerLabels
    <3>3. QED
      BY <3>1, <3>2 DEF Carrying
  <2>3. QED
    BY <2>1, <2>2
<1>3. Ready' = Ready
  BY DEF Ready, session
<1>4. RunTypeOK'
  BY <1>1, <1>2 DEF RunTypeOK
<1>5. InStep'
  BY <1>1, <1>3 DEF InStep
<1>6. OnePlace'
  BY <1>1, <1>2, <1>3 DEF OnePlace
<1>7. Counted'
  BY <1>1, <1>3 DEF Counted
<1>8. QED
  BY <1>1, <1>2, <1>4, <1>5, <1>6, <1>7, QuietStep DEF Going

(* Nothing is outstanding only when nothing is ready.                      *)
LEMMA IdleMeansNoneReady ==
  ASSUME ExecutorInv, Finish
  PROVE  Ready = {}
<1>1. InStep /\ Counted /\ sup = "receive" /\ outstanding = 0
  BY DEF ExecutorInv, Going, RunInv, Finish
<1>2. batch = <<>>
  BY <1>1 DEF InStep
<1>3. Cardinality(Ready) = 0
  BY <1>1, <1>2 DEF Counted
<1>4. IsFiniteSet(Ready)
  BY ExecutorAssumption, FS_Subset DEF Ready
<1>5. QED
  BY <1>3, <1>4, FS_EmptySet

LEMMA PushKeeps ==
  ASSUME ExecutorInv, Push
  PROVE  ExecutorInv'
<1>1. /\ UNCHANGED <<session, scenario, pc, job, reports, store, found>>
      /\ queue' = queue \o batch /\ outstanding' = outstanding + Len(batch)
      /\ batch' = <<>> /\ sup = "push" /\ sup' \in {"next", "notify"}
  BY DEF Push
<1>2. RunTypeOK /\ InStep /\ OnePlace /\ Counted /\ Going
  BY <1>1 DEF ExecutorInv, Going, RunInv
<1>3. /\ queue' \in Seq(Actions) /\ Len(queue) \in Nat /\ Len(batch) \in Nat
      /\ DOMAIN queue' = 1 .. Len(queue) + Len(batch)
      /\ \A i \in DOMAIN queue' : \/ i \in DOMAIN queue /\ queue'[i] = queue[i]
                                  \/ i - Len(queue) \in DOMAIN batch /\ queue'[i] = batch[i - Len(queue)]
  BY <1>1, <1>2 DEF RunTypeOK
<1>4. Ready' = Ready
  BY <1>1 DEF Ready, session
<1>5. RunTypeOK'
  BY <1>1, <1>2, <1>3 DEF RunTypeOK
<1>6. InStep'
  BY <1>1, <1>2 DEF InStep
<1>7. Counted'
  BY <1>1, <1>2, <1>3, <1>4 DEF Counted, RunTypeOK
<1>8. OnePlace'
  <2>1. \A i \in DOMAIN queue' : queue'[i] \in Ready
    BY <1>2, <1>3 DEF OnePlace
  <2>2. ASSUME NEW i \in DOMAIN queue', NEW j \in DOMAIN queue', i # j
        PROVE  queue'[i] # queue'[j]
    <3>1. CASE i \in DOMAIN queue /\ queue'[i] = queue[i]
      BY <1>2, <1>3, <2>2, <3>1 DEF OnePlace
    <3>2. CASE i - Len(queue) \in DOMAIN batch /\ queue'[i] = batch[i - Len(queue)]
      <4>1. CASE j \in DOMAIN queue /\ queue'[j] = queue[j]
        BY <1>2, <3>2, <4>1 DEF OnePlace
      <4>2. CASE j - Len(queue) \in DOMAIN batch /\ queue'[j] = batch[j - Len(queue)]
        <5>1. i - Len(queue) # j - Len(queue)
          BY <1>3, <2>2
        <5>2. QED
          BY <1>2, <3>2, <4>2, <5>1 DEF OnePlace
      <4>3. QED
        BY <1>3, <4>1, <4>2
    <3>3. QED
      BY <1>3, <3>1, <3>2
  <2>3. \A i \in DOMAIN queue', j \in DOMAIN reports : queue'[i] # reports[j].action
    BY <1>2, <1>3 DEF OnePlace
  <2>4. \A i \in DOMAIN queue', w \in Workers : job[w] # queue'[i]
    BY <1>2, <1>3 DEF OnePlace
  <2>5. QED
    BY <1>1, <1>2, <1>4, <2>1, <2>2, <2>3, <2>4 DEF OnePlace
<1>9. QED
  <2>1. \A w \in Workers : pc'[w] \in Carrying \/ pc[w] \in Carrying => pc'[w] = pc[w]
    BY <1>1
  <2>2. pc' \in [Workers -> WorkerLabels] /\ sup' # "start"
    BY <1>1, <1>2 DEF RunTypeOK
  <2>3. QED
    BY <1>1, <1>2, <1>5, <1>6, <1>7, <1>8, <2>1, <2>2, QuietStep

(* Once absorbed, a reply is an error or a batch to push.                  *)
LEMMA AbsorbedReply ==
  ASSUME Absorb, reply'.ready \in SUBSET Actions
  PROVE  \/ sup' \in {"error", "panic"}
         \/ /\ sup' = "push" /\ phase' = "open" /\ reply'.kind = "plan_delta"
            /\ batch' \in Seq(Actions) /\ Len(batch') = Cardinality(reply'.ready)
            /\ DOMAIN batch' = 1 .. Len(batch')
            /\ \A i \in DOMAIN batch' : batch'[i] \in reply'.ready
            /\ \A i, j \in DOMAIN batch' : i # j => batch'[i] # batch'[j]
<1>1. CASE sup' = "push" /\ phase' = "open" /\ reply'.kind = "plan_delta" /\ batch' \in SetToSeqs(reply'.ready)
  BY <1>1, ListIs
<1>2. QED
  BY <1>1 DEF Absorb, NewlyReady

-----------------------------------------------------------------------------
(* A report is received *)

LEMMA ReceivedReport ==
  ASSUME ExecutorInv, Receive
  PROVE  LET r == Head(reports) IN
         /\ Going /\ batch = <<>> /\ found = None /\ r.action \in Ready
         /\ IF r.ok THEN Computed(r.action) ELSE r.action \in Failing
         /\ reports' \in Seq([action : Actions, ok : BOOLEAN])
         /\ \A i \in DOMAIN reports' : /\ i + 1 \in DOMAIN reports
                                       /\ reports'[i] = reports[i+1]
                                       /\ reports'[i].action # r.action
         /\ \A i \in DOMAIN queue : queue[i] # r.action
         /\ \A w \in Workers : job[w] # r.action
<1>1. sup = "receive" /\ reports # <<>> /\ reports' = Tail(reports)
  BY DEF Receive
<1>2. RunTypeOK /\ InStep /\ OnePlace /\ Truthful /\ Going
  BY <1>1 DEF ExecutorInv, Going, RunInv
<1>3. /\ reports' \in Seq([action : Actions, ok : BOOLEAN])
      /\ 1 \in DOMAIN reports /\ Head(reports) = reports[1] /\ Len(reports) \in Nat
      /\ \A i \in DOMAIN reports' : i + 1 \in DOMAIN reports /\ reports'[i] = reports[i+1] /\ i + 1 # 1
  BY <1>1, <1>2 DEF RunTypeOK
<1>4. batch = <<>> /\ found = None
  BY <1>1, <1>2 DEF InStep
<1>5. reports[1].action \in Ready /\ IF reports[1].ok THEN Computed(reports[1].action)
                                                     ELSE reports[1].action \in Failing
  BY <1>2, <1>3 DEF OnePlace, Truthful
<1>6. \A i \in DOMAIN reports' : reports'[i].action # reports[1].action
  BY <1>2, <1>3 DEF OnePlace
<1>7. /\ \A i \in DOMAIN queue : queue[i] # reports[1].action
      /\ \A w \in Workers : job[w] # reports[1].action
  BY <1>2, <1>3 DEF OnePlace
<1>8. QED
  BY <1>2, <1>3, <1>4, <1>5, <1>6, <1>7

LEMMA ReceivedPlaces ==
  ASSUME ExecutorInv, Receive, sup' = "push", NEW p, p = Head(reports).action,
         NEW N \in SUBSET Actions, Ready' = (Ready \ {p}) \cup N, Ready \cap N = {},
         batch' \in Seq(Actions), Len(batch') = Cardinality(N), DOMAIN batch' = 1 .. Len(batch'),
         \A i \in DOMAIN batch' : batch'[i] \in N,
         \A i, j \in DOMAIN batch' : i # j => batch'[i] # batch'[j]
  PROVE  RunTypeOK' /\ InStep' /\ OnePlace' /\ Counted'
<1>1. /\ UNCHANGED <<queue, pc, job, store>> /\ outstanding' = outstanding - 1
  BY DEF Receive, pool
<1>2. /\ Going /\ batch = <<>> /\ found = None /\ p \in Ready
      /\ reports' \in Seq([action : Actions, ok : BOOLEAN])
      /\ \A i \in DOMAIN reports' : i + 1 \in DOMAIN reports /\ reports'[i] = reports[i+1]
      /\ \A i \in DOMAIN reports' : reports'[i].action # p
      /\ \A i \in DOMAIN queue : queue[i] # p
      /\ \A w \in Workers : job[w] # p
  BY ReceivedReport
<1>3. RunTypeOK /\ OnePlace /\ Counted /\ None \notin Actions
  BY <1>2, Facts DEF ExecutorInv, RunInv
<1>4. RunTypeOK'
  BY <1>1, <1>2, <1>3 DEF RunTypeOK
<1>5. InStep'
  BY DEF InStep
<1>6. OnePlace'
  <2> DEFINE G == {p}
  <2>1. \A i \in DOMAIN batch' : batch'[i] \in Ready' \ Ready /\ batch'[i] # None
    BY <1>3
  <2>2. /\ Ready \ G \subseteq Ready' /\ \A i \in DOMAIN queue : queue[i] \notin G
        /\ \A i \in DOMAIN reports' : reports'[i].action \notin G
        /\ \A w \in Workers : pc[w] \in Carrying => job[w] \notin G
    BY <1>2
  <2>3. 1 \in Nat
    OBVIOUS
  <2> HIDE DEF G
  <2>4. QED
    BY <1>1, <1>2, <1>3, <2>1, <2>2, <2>3, PlacesChange
<1>7. Counted'
  <2>1. Cardinality(Ready) = outstanding /\ outstanding \in Int
    BY <1>2, <1>3 DEF Counted, RunTypeOK
  <2>2. Ready \in SUBSET Actions /\ (Ready \ {p}) \in SUBSET Actions /\ (Ready \ {p}) \cap N = {}
    BY DEF Ready
  <2>3. Cardinality(Ready \ {p}) = Cardinality(Ready) - 1
    BY <1>2, <2>2, OneLess
  <2>4. /\ Cardinality((Ready \ {p}) \cup N) = Cardinality(Ready \ {p}) + Cardinality(N)
        /\ Cardinality(N) \in Nat
    BY <2>2, Adds
  <2>5. QED
    BY <1>1, <2>1, <2>3, <2>4 DEF Counted
<1>8. QED
  BY <1>4, <1>5, <1>6, <1>7

(* What is known is found by what completed before and after.              *)
LEMMA SameFound ==
  ASSUME ExecutorInv, Going, found = None, NEW p \in Ready, UNCHANGED scenario,
         Finished' = Finished \cup {p},
         found' = IF Discovers(p) /\ scenario.finds[p] # <<>> THEN p ELSE None
  PROVE  Found' = Found
<1> DEFINE D  == {e \in Finished : Discovers(e)}
           D2 == {e \in Finished \cup {p} : Discovers(e) /\ e # found'}
<1>1. None \notin Actions /\ p \in Actions /\ p \notin Finished /\ Finished \subseteq Actions
  BY Facts DEF Ready, Finished
<1>2. Found = UNION {Range(scenario.finds[d]) : d \in D}
  <2>1. {e \in Finished : Discovers(e) /\ e # found} = D
    BY <1>1
  <2>2. QED
    BY <2>1 DEF Found
<1>3. Found' = UNION {Range(scenario.finds[d]) : d \in D2}
  BY DEF Found, Discovers
<1>4. CASE found' = p \/ ~Discovers(p)
  <2>1. D2 = D
    BY <1>1, <1>4
  <2>2. QED
    BY <1>2, <1>3, <2>1
<1>5. CASE found' = None /\ Discovers(p) /\ scenario.finds[p] = <<>>
  <2>1. D2 = D \cup {p}
    BY <1>1, <1>5
  <2>2. Range(scenario.finds[p]) = {}
    BY <1>5 DEF Range
  <2> HIDE DEF D, D2
  <2>3. QED
    BY <1>2, <1>3, <2>1, <2>2
<1>6. QED
  BY <1>4, <1>5

LEMMA ReceiveOkKeeps ==
  ASSUME ExecutorInv, Receive, Head(reports).ok, SessionInv'
  PROVE  ExecutorInv'
<1> DEFINE p == Head(reports).action
<1>1. /\ ApplyDelta(<<"completed", p>>, Completion(p)) /\ Absorb
      /\ found' = IF Discovers(p) /\ scenario.finds[p] # <<>> THEN p ELSE None
      /\ UNCHANGED <<scenario, queue, pc, job, store>>
  BY DEF Receive, pool
<1>2. Going /\ found = None /\ p \in Ready /\ Computed(p)
  BY ReceivedReport
<1> HIDE DEF p
<1>3. /\ seen' = seen \cup {<<"completed", p>>} /\ UNCHANGED inputs
      /\ \/ phase' = "crashed" /\ UNCHANGED state
         \/ Complete(p) /\ UNCHANGED <<phase, known, owned, retiredBy>>
  BY <1>1, <1>2, CompletionEffect
<1>4. CASE phase' = "crashed"
  <2>1. sup' = "error"
    BY <1>1, <1>4 DEF Absorb
  <2>2. QED
    BY <1>1, <1>3, <2>1 DEF ExecutorInv, Going
<1>5. CASE Complete(p) /\ UNCHANGED <<phase, known, owned, retiredBy>>
  <2>1. /\ Ready' = (Ready \ {p}) \cup reply'.ready /\ Ready \cap reply'.ready = {}
        /\ reply'.ready \in SUBSET Actions /\ Finished' = Finished \cup {p}
        /\ \A a \in Actions : state'[a] \in {"failed", "cancelled"} => state'[a] = state[a]
        /\ \A a \in Actions : state[a] = "failed" => state'[a] = "failed"
        /\ \A a \in Actions : state'[a] = "blocked_dependency" => ~(Producers(a) \subseteq Finished')
    BY <1>2, <1>3, <1>5, CompletionIs
  <2>2. CASE sup' \in {"error", "panic"}
    BY <1>1, <1>3, <2>2 DEF ExecutorInv, Going
  <2>3. CASE sup' = "push"
    <3>1. RunTypeOK' /\ InStep' /\ OnePlace' /\ Counted'
      BY <1>1, <2>1, <2>3, AbsorbedReply, ReceivedPlaces DEF p
    <3>2. RunInv
      BY <1>2 DEF ExecutorInv
    <3>3. Plain'
      BY <1>3, <1>5, <2>1, <3>2 DEF RunInv, Plain, Producers
    <3>4. p \in Actions /\ p \in known /\ state[p] = "ready" /\ p \notin Finished /\ p # None
      BY <1>2, Facts DEF Ready, Finished
    <3>5. Producers(p) \subseteq Finished
      BY <3>4, Facts DEF ExecutorInv, SessionInv, ReadyOnlyAfterProducers, Finished
    <3>6. Deserved'
      <4>1. /\ \A a \in Finished' : a \notin Failing /\ Producers(a) \subseteq Finished'
            /\ \A a \in Actions : state'[a] = "failed" => a \in Downstream(Failing)
        BY <1>2, <2>1, <3>2, <3>5 DEF RunInv, Deserved, Computed
      <4>2. QED
        BY <1>1, <1>3, <2>1, <4>1, SameFailing DEF Deserved
    <3>7. SentOnce'
      <4>1. found' = None \/ (found' = p /\ Discovers(p))
        BY <1>1
      <4>2. \A a \in Actions : /\ <<"completed", a>> \in seen' => a \in Finished'
                               /\ <<"failed", a>> \in seen' => state'[a] = "failed"
                               /\ <<"discovered", a>> \in seen' => a \in Finished /\ a # found'
        BY <1>3, <2>1, <3>2, <3>4, <4>1, Facts DEF RunInv, SentOnce, Finished
      <4>3. QED
        BY <1>1, <2>1, <4>1, <4>2 DEF SentOnce, Discovers, Finished
    <3>8. KnownIsFound'
      <4>1. Found' = Found
        BY <1>1, <1>2, <2>1, SameFound
      <4>2. QED
        BY <1>1, <1>5, <3>2, <4>1 DEF RunInv, KnownIsFound
    <3>9. Truthful'
      <4>1. \A i \in DOMAIN reports' : i + 1 \in DOMAIN reports /\ reports'[i] = reports[i+1]
        BY ReceivedReport
      <4>2. \A a \in Finished' : Computed(a)
        BY <1>2, <2>1, <3>2 DEF RunInv, Truthful
      <4>3. \A i \in DOMAIN reports' : IF reports'[i].ok THEN Computed(reports'[i].action)
                                                         ELSE reports'[i].action \in Failing
        BY <3>2, <4>1 DEF RunInv, Truthful
      <4>4. Failing' = Failing
        BY <1>1, <1>3 DEF Failing, Discovers
      <4>5. QED
        BY <1>1, <3>2, <4>2, <4>3, <4>4 DEF RunInv, Truthful, Computed, Discovers
    <3>10. RunInv'
      BY <3>1, <3>3, <3>6, <3>7, <3>8, <3>9 DEF RunInv
    <3>11. QED
      BY <1>1, <1>3, <2>3, <3>10 DEF ExecutorInv
  <2>4. QED
    BY <1>1, <2>1, <2>2, <2>3, AbsorbedReply
<1>6. QED
  BY <1>3, <1>4, <1>5

LEMMA ReceiveFailedKeeps ==
  ASSUME ExecutorInv, Receive, ~Head(reports).ok, SessionInv'
  PROVE  ExecutorInv'
<1> DEFINE p == Head(reports).action
<1>1. /\ ApplyDelta(<<"failed", p>>, Failure(p)) /\ Absorb /\ found' = None
      /\ UNCHANGED <<scenario, queue, pc, job, store>>
  BY DEF Receive, pool
<1>2. Going /\ found = None /\ p \in Ready /\ p \in Failing
  BY ReceivedReport
<1> HIDE DEF p
<1>3. /\ seen' = seen \cup {<<"failed", p>>} /\ UNCHANGED <<inputs, phase, known, owned, retiredBy>>
      /\ state' = [a \in Actions |-> IF a \in {p} \cup Poisoned(p) THEN "failed" ELSE state[a]]
      /\ reply'.ready = {} /\ p \in Undecided
  BY <1>1, <1>2, FailureEffect
<1>4. /\ Ready' = Ready \ {p} /\ Finished' = Finished /\ state'[p] = "failed"
      /\ \A a \in Actions : state[a] = "failed" => state'[a] = "failed"
      /\ \A a \in Actions : state'[a] = "failed" => state[a] = "failed" \/ a \in Downstream(Failing)
      /\ \A a \in Actions : state'[a] \in {"blocked_dependency", "cancelled"} => state'[a] = state[a]
  BY <1>2, <1>3, FailureIs
<1>5. CASE sup' \in {"error", "panic"}
  BY <1>1, <1>3, <1>5 DEF ExecutorInv, Going
<1>6. CASE sup' = "push"
  <2> DEFINE N == {}
  <2>1. /\ batch' \in Seq(Actions) /\ Len(batch') = Cardinality(N) /\ DOMAIN batch' = 1 .. Len(batch')
        /\ \A i \in DOMAIN batch' : batch'[i] \in N
        /\ \A i, j \in DOMAIN batch' : i # j => batch'[i] # batch'[j]
    BY <1>1, <1>3, <1>6, AbsorbedReply
  <2>2. RunTypeOK' /\ InStep' /\ OnePlace' /\ Counted'
    <3>1. Ready' = (Ready \ {p}) \cup N /\ Ready \cap N = {} /\ N \in SUBSET Actions
      BY <1>4
    <3> HIDE DEF N
    <3>2. QED
      BY <1>6, <2>1, <3>1, ReceivedPlaces DEF p
  <2>3. RunInv
    BY <1>2 DEF ExecutorInv
  <2>4. Plain'
    BY <1>3, <1>4, <2>3 DEF RunInv, Plain, Producers
  <2>5. Deserved'
    BY <1>1, <1>3, <1>4, <2>3, SameFailing DEF RunInv, Deserved
  <2>6. SentOnce'
    <3>1. \A a \in Actions : /\ <<"completed", a>> \in seen' => a \in Finished
                             /\ <<"failed", a>> \in seen' => state'[a] = "failed"
                             /\ <<"discovered", a>> \in seen' => a \in Finished
      BY <1>3, <1>4, <2>3 DEF RunInv, SentOnce, Finished
    <3>2. None \notin Actions
      BY Facts
    <3>3. QED
      BY <1>1, <1>4, <3>1, <3>2 DEF SentOnce, Finished
  <2>7. KnownIsFound'
    <3>1. Found' = Found
      BY <1>1, <1>2, <1>4 DEF Found, Discovers
    <3>2. QED
      BY <1>1, <1>3, <2>3, <3>1 DEF RunInv, KnownIsFound
  <2>8. Truthful'
    <3>1. \A i \in DOMAIN reports' : i + 1 \in DOMAIN reports /\ reports'[i] = reports[i+1]
      BY ReceivedReport
    <3>2. \A i \in DOMAIN reports' : IF reports'[i].ok THEN Computed(reports'[i].action)
                                                       ELSE reports'[i].action \in Failing
      BY <2>3, <3>1 DEF RunInv, Truthful
    <3>3. Failing' = Failing
      BY <1>1, <1>3 DEF Failing, Discovers
    <3>4. QED
      BY <1>1, <1>4, <2>3, <3>2, <3>3 DEF RunInv, Truthful, Computed, Discovers
  <2>9. RunInv'
    BY <2>2, <2>4, <2>5, <2>6, <2>7, <2>8 DEF RunInv
  <2>10. QED
    BY <1>1, <1>3, <1>6, <2>9 DEF ExecutorInv
<1>7. QED
  BY <1>1, <1>3, <1>5, <1>6, AbsorbedReply

LEMMA ReceiveKeeps ==
  ASSUME ExecutorInv, Receive
  PROVE  ExecutorInv'
<1> DEFINE r == Head(reports)
<1>1. CASE r.ok
  <2>1. SessionInv'
    <3>1. ApplyDelta(<<"completed", r.action>>, Completion(r.action))
      BY <1>1 DEF Receive
    <3>2. Completion(r.action).kind = "producer_completed"
      BY DEF Completion
    <3> HIDE DEF r
    <3>3. QED
      BY <3>1, <3>2, ServesDelta
  <2>2. QED
    BY <1>1, <2>1, ReceiveOkKeeps
<1>2. CASE ~r.ok
  <2>1. SessionInv'
    <3>1. ApplyDelta(<<"failed", r.action>>, Failure(r.action))
      BY <1>2 DEF Receive
    <3>2. Failure(r.action).kind = "producer_failed"
      BY DEF Failure
    <3> HIDE DEF r
    <3>3. QED
      BY <3>1, <3>2, ServesDelta
  <2>2. QED
    BY <1>2, <2>1, ReceiveFailedKeeps
<1>3. QED
  BY <1>1, <1>2

-----------------------------------------------------------------------------
(* A discovery is announced, the session is started *)

(* What holds of the graph when new actions have come.                     *)
LEMMA InsertionKeeps ==
  ASSUME ExecutorInv, Deserved, UNCHANGED <<inputs, scenario>>, NEW list \in Seq(Actions), Inserts(list),
         \A a \in Actions : state[a] # "cancelled",
         \A a \in known : Producers(a) \subseteq known
  PROVE  Plain' /\ Deserved'
<1>1. /\ Finished' = Finished
      /\ \A a \in Actions : state'[a] \in {"failed", "cancelled"} => state'[a] = state[a]
      /\ \A a \in Actions : state'[a] = "blocked_dependency" /\ state[a] # "blocked_dependency"
                            => ~(Producers(a) \subseteq Finished)
  BY InsertionIs
<1>2. Plain'
  <2>1. \A a \in known' : Producers(a) \subseteq known'
    BY DEF Inserts
  <2>2. QED
    BY <1>1, <2>1 DEF Plain, Inserts, Producers
<1>3. Deserved'
  BY <1>1, SameFailing DEF Deserved
<1>4. QED
  BY <1>2, <1>3

(* The places and the counter, when a batch of new ready actions comes.    *)
LEMMA AnnouncedPlaces ==
  ASSUME ExecutorInv, Announce, sup' = "push",
         NEW N \in SUBSET Actions, Ready' = Ready \cup N, Ready \cap N = {},
         batch' \in Seq(Actions), Len(batch') = Cardinality(N), DOMAIN batch' = 1 .. Len(batch'),
         \A i \in DOMAIN batch' : batch'[i] \in N,
         \A i, j \in DOMAIN batch' : i # j => batch'[i] # batch'[j]
  PROVE  RunTypeOK' /\ InStep' /\ OnePlace' /\ Counted'
<1>1. UNCHANGED <<queue, pc, job, store, reports, outstanding>> /\ sup = "next"
  BY DEF Announce, pool
<1>2. RunTypeOK /\ OnePlace /\ Counted /\ InStep /\ None \notin Actions
  BY <1>1, Facts DEF ExecutorInv, RunInv, Going
<1>3. batch = <<>>
  BY <1>1, <1>2 DEF InStep
<1>4. RunTypeOK'
  BY <1>1, <1>2 DEF RunTypeOK
<1>5. InStep'
  BY DEF InStep
<1>6. OnePlace'
  <2> DEFINE G == {}
  <2>1. \A i \in DOMAIN batch' : batch'[i] \in Ready' \ Ready /\ batch'[i] # None
    BY <1>2
  <2>2. reports' \in Seq([action : Actions, ok : BOOLEAN])
    BY <1>1, <1>2 DEF RunTypeOK
  <2>3. 0 \in Nat /\ \A i \in DOMAIN reports' : i + 0 \in DOMAIN reports /\ reports'[i] = reports[i+0]
    BY <1>1, <1>2 DEF RunTypeOK
  <2>4. /\ Ready \ G \subseteq Ready' /\ \A i \in DOMAIN queue : queue[i] \notin G
        /\ \A i \in DOMAIN reports' : reports'[i].action \notin G
        /\ \A w \in Workers : pc[w] \in Carrying => job[w] \notin G
    OBVIOUS
  <2> HIDE DEF G
  <2>5. QED
    BY <1>1, <1>2, <1>3, <2>1, <2>2, <2>3, <2>4, PlacesChange
<1>7. Counted'
  <2>1. Cardinality(Ready) = outstanding /\ outstanding \in Int
    BY <1>2, <1>3 DEF Counted, RunTypeOK
  <2>2. Cardinality(Ready \cup N) = Cardinality(Ready) + Cardinality(N) /\ Cardinality(N) \in Nat
    <3>1. Ready \in SUBSET Actions
      BY DEF Ready
    <3>2. QED
      BY <3>1, Adds
  <2>3. QED
    BY <1>1, <2>1, <2>2 DEF Counted
<1>8. QED
  BY <1>4, <1>5, <1>6, <1>7

LEMMA AnnounceKeeps ==
  ASSUME ExecutorInv, Announce
  PROVE  ExecutorInv'
<1> DEFINE list == scenario.finds[found]
           ev   == Discovery(list, <<>>, {Last(list)}, generation > 0)
<1>1. /\ ApplyDelta(<<"discovered", found>>, ev) /\ Absorb /\ found' = None
      /\ sup = "next" /\ found # None
      /\ UNCHANGED <<scenario, queue, pc, job, store, reports, outstanding>>
  BY DEF Announce, pool
<1>2. Going /\ RunInv
  BY <1>1 DEF ExecutorInv, Going
<1>3. found \in Finished /\ Discovers(found) /\ list \in Seq(Actions) /\ found \in Actions
  BY <1>1, <1>2, Facts DEF RunInv, SentOnce, Discovers, IsScenario, Finished
<1>4. SessionInv'
  <2>1. ev.list = list
    BY DEF Discovery
  <2> HIDE DEF ev
  <2>2. QED
    BY <1>1, <1>3, <2>1, ServesDelta
<1> HIDE DEF list
<1>5. /\ seen' = seen \cup {<<"discovered", found>>} /\ UNCHANGED inputs
      /\ \/ phase' = "crashed" /\ UNCHANGED state
         \/ reply'.kind = "rejected" /\ UNCHANGED state
         \/ /\ Range(list) \subseteq known /\ reply'.ready = {}
            /\ UNCHANGED <<phase, known, owned, state, retiredBy>>
         \/ Inserts(list)
  BY <1>1, <1>2, <1>3, DiscoveryEffect
<1>6. CASE sup' \in {"error", "panic"}
  BY <1>1, <1>4, <1>5, <1>6 DEF ExecutorInv, Going
<1>7. ASSUME sup' = "push", RunTypeOK', InStep', OnePlace', Counted', Plain', Deserved',
             Finished' = Finished, known' = known \cup Range(list),
             \A a \in Actions : state[a] = "failed" => state'[a] = "failed"
      PROVE  ExecutorInv'
  <2>1. SentOnce'
    <3>1. \A a \in Actions : /\ <<"completed", a>> \in seen' => a \in Finished
                             /\ <<"failed", a>> \in seen' => state'[a] = "failed"
                             /\ <<"discovered", a>> \in seen' => a \in Finished
      BY <1>2, <1>3, <1>5, <1>7 DEF RunInv, SentOnce, Finished
    <3>2. None \notin Actions
      BY Facts
    <3>3. QED
      BY <1>1, <1>7, <3>1, <3>2 DEF SentOnce, Finished
  <2>2. KnownIsFound'
    <3> DEFINE D  == {e \in Finished : Discovers(e) /\ e # found}
               D2 == {e \in Finished : Discovers(e) /\ e # found'}
    <3>1. D2 = D \cup {found}
      BY <1>1, <1>3, Facts DEF Finished
    <3>2. Found = UNION {Range(scenario.finds[d]) : d \in D}
      BY DEF Found
    <3>3. Found' = UNION {Range(scenario.finds[d]) : d \in D2}
      BY <1>1, <1>7 DEF Found, Discovers
    <3> HIDE DEF D, D2
    <3>4. Found' = Found \cup Range(list)
      BY <3>1, <3>2, <3>3 DEF list
    <3>5. QED
      BY <1>1, <1>2, <1>7, <3>4 DEF RunInv, KnownIsFound
  <2>3. Truthful'
    <3>1. Failing' = Failing
      BY <1>1, <1>5 DEF Failing, Discovers
    <3>2. QED
      BY <1>1, <1>2, <1>7, <3>1 DEF RunInv, Truthful, Computed, Discovers
  <2>4. RunInv'
    BY <1>7, <2>1, <2>2, <2>3 DEF RunInv
  <2>5. QED
    BY <1>1, <1>4, <1>5, <1>7, <2>4 DEF ExecutorInv
<1>8. CASE sup' = "push" /\ reply'.ready = {} /\ Range(list) \subseteq known
           /\ UNCHANGED <<phase, known, owned, state, retiredBy>>
  <2> DEFINE N == {}
  <2>1. /\ batch' \in Seq(Actions) /\ Len(batch') = Cardinality(N) /\ DOMAIN batch' = 1 .. Len(batch')
        /\ \A i \in DOMAIN batch' : batch'[i] \in N
        /\ \A i, j \in DOMAIN batch' : i # j => batch'[i] # batch'[j]
    BY <1>1, <1>8, AbsorbedReply
  <2>2. Ready' = Ready \cup N /\ Ready \cap N = {} /\ N \in SUBSET Actions /\ Finished' = Finished
    BY <1>8 DEF Ready, Finished
  <2> HIDE DEF N
  <2>3. RunTypeOK' /\ InStep' /\ OnePlace' /\ Counted'
    BY <1>8, <2>1, <2>2, AnnouncedPlaces
  <2>4. Plain'
    BY <1>2, <1>5, <1>8 DEF RunInv, Plain, Producers
  <2>5. Deserved'
    BY <1>1, <1>2, <1>5, <1>8, <2>2, SameFailing DEF RunInv, Deserved
  <2>6. QED
    BY <1>7, <1>8, <2>2, <2>3, <2>4, <2>5
<1>9. CASE sup' = "push" /\ Inserts(list)
  <2> DEFINE N == ReadyAmong(list)
  <2>1. /\ Ready' = Ready \cup N /\ Ready \cap N = {} /\ N \in SUBSET Actions /\ Finished' = Finished
        /\ \A a \in Actions : state[a] # "absent" => state'[a] = state[a]
    BY <1>3, <1>5, <1>9, InsertionIs
  <2>2. reply'.ready = N /\ known' = known \cup Range(list)
    BY <1>9 DEF Inserts
  <2> HIDE DEF N
  <2>3. /\ batch' \in Seq(Actions) /\ Len(batch') = Cardinality(N) /\ DOMAIN batch' = 1 .. Len(batch')
        /\ \A i \in DOMAIN batch' : batch'[i] \in N
        /\ \A i, j \in DOMAIN batch' : i # j => batch'[i] # batch'[j]
    BY <1>1, <1>9, <2>1, <2>2, AbsorbedReply
  <2>4. RunTypeOK' /\ InStep' /\ OnePlace' /\ Counted'
    BY <1>9, <2>1, <2>3, AnnouncedPlaces
  <2>5. Plain' /\ Deserved'
    BY <1>1, <1>2, <1>3, <1>5, <1>9, InsertionKeeps DEF RunInv, Plain
  <2>6. QED
    BY <1>7, <1>9, <2>1, <2>2, <2>4, <2>5
<1>10. QED
  <2>1. phase' = "crashed" \/ reply'.kind = "rejected" => sup' \in {"error", "panic"}
    BY <1>1 DEF Absorb
  <2>2. sup' \in {"error", "panic", "push"}
    BY <1>1 DEF Absorb
  <2>3. QED
    BY <1>5, <1>6, <1>8, <1>9, <2>1, <2>2

LEMMA StartKeeps ==
  ASSUME ExecutorInv, Start
  PROVE  ExecutorInv'
<1> DEFINE list == scenario.start
           N    == ReadyAmong(list)
<1>1. /\ queue' \in SetToSeqs(reply'.ready) /\ outstanding' = Len(queue')
      /\ sup = "start" /\ sup' = "receive"
      /\ UNCHANGED <<scenario, done, pc, job, reports, store, batch, found>>
  BY DEF Start
<1>2. UNCHANGED <<inputs, seen>> /\ Inserts(list) /\ known = {}
  BY StartEffect
<1>3. Fresh /\ list \in Seq(Actions) /\ None \notin Actions
  BY <1>1, Facts DEF ExecutorInv, IsScenario
<1>4. \A a \in Actions : state[a] = "absent"
  BY <1>2, Facts
<1>5. /\ Ready' = N /\ N \in SUBSET Actions /\ Finished' = {} /\ reply'.ready = N
      /\ known' = Range(list)
  <2>1. Ready = {} /\ Finished = {}
    BY <1>4 DEF Ready, Finished
  <2>2. QED
    BY <1>2, <1>3, <2>1, InsertionIs DEF Inserts
<1>6. Plain' /\ Deserved'
  <2>1. Deserved
    BY <1>4 DEF Deserved, Finished
  <2>2. QED
    BY <1>1, <1>2, <1>3, <1>4, <2>1, InsertionKeeps
<1>7. /\ queue' \in Seq(Actions) /\ Len(queue') = Cardinality(N)
      /\ \A i \in DOMAIN queue' : queue'[i] \in N
      /\ \A i, j \in DOMAIN queue' : i # j => queue'[i] # queue'[j]
  BY <1>1, <1>5, ListIs
<1>8. Cardinality(N) \in Nat
  BY <1>5, ExecutorAssumption, FS_Subset, FS_CardinalityType
<1> HIDE DEF N
<1>9. /\ batch' = <<>> /\ reports' = <<>> /\ store' = {} /\ found' = None
      /\ pc' = [w \in Workers |-> "idle"] /\ job' = [w \in Workers |-> None]
  BY <1>1, <1>3 DEF Fresh
<1>10. RunTypeOK'
  BY <1>1, <1>7, <1>8, <1>9 DEF RunTypeOK, WorkerLabels
<1>11. InStep'
  BY <1>1, <1>9 DEF InStep
<1>12. OnePlace'
  <2>1. \A w \in Workers : pc'[w] = "idle" /\ job'[w] = None
    BY <1>9
  <2>2. \A i \in DOMAIN queue', w \in Workers : job'[w] # queue'[i]
    BY <1>3, <1>5, <1>7, <2>1
  <2>3. DOMAIN batch' = {} /\ DOMAIN reports' = {}
    BY <1>9
  <2>4. QED
    BY <1>5, <1>7, <2>1, <2>2, <2>3 DEF OnePlace, Carrying
<1>13. Counted'
  BY <1>1, <1>5, <1>7, <1>8, <1>9 DEF Counted
<1>14. SentOnce' /\ Truthful'
  <2>1. seen' = {}
    BY <1>2, <1>3 DEF Fresh
  <2>2. SentOnce'
    BY <1>9, <2>1 DEF SentOnce
  <2>3. DOMAIN reports' = {} /\ \A w \in Workers : pc'[w] = "idle"
    BY <1>9
  <2>4. Truthful'
    BY <1>5, <1>9, <2>3 DEF Truthful
  <2>5. QED
    BY <2>2, <2>4
<1>15. KnownIsFound'
  <2>1. Found' = {}
    BY <1>5 DEF Found
  <2>2. QED
    BY <1>1, <1>5, <2>1 DEF KnownIsFound
<1>16. RunInv'
  BY <1>6, <1>10, <1>11, <1>12, <1>13, <1>14, <1>15 DEF RunInv
<1>17. QED
  BY <1>1, <1>2, <1>16, ServesStart DEF ExecutorInv

-----------------------------------------------------------------------------
(* The run *)

LEMMA InitialRun == Init => ExecutorInv
<1> SUFFICES ASSUME Init PROVE ExecutorInv
  OBVIOUS
<1>1. SessionInv
  BY InvariantHolds DEF Init
<1>2. Fresh /\ ~Going
  BY DEF Init, SessionInit, Fresh, Going
<1>3. QED
  BY <1>1, <1>2 DEF Init, ExecutorInv

LEMMA WorkerKeeps ==
  ASSUME ExecutorInv, NEW w \in Workers, Worker(w) \/ SpuriousWake(w)
  PROVE  ExecutorInv'
<1>1. sup = "start" => done = FALSE /\ pc[w] = "idle"
  BY DEF ExecutorInv, Fresh
<1>2. CASE Take(w)
  BY <1>2, TakeKeeps
<1>3. CASE Leave(w)
  <2>1. sup # "start" /\ pc[w] \notin Carrying /\ "exited" \in WorkerLabels \ Carrying
    BY <1>1, <1>3 DEF Leave, Carrying, WorkerLabels
  <2>2. QED
    BY <1>3, <2>1, WalkKeeps DEF Leave
<1>4. CASE Sleep(w)
  <2>1. sup # "start" /\ pc[w] \notin Carrying /\ "waiting" \in WorkerLabels \ Carrying
    BY <1>4 DEF Sleep, Carrying, WorkerLabels
  <2>2. QED
    BY <1>4, <2>1, WalkKeeps DEF Sleep
<1>5. CASE SpuriousWake(w)
  <2>1. sup # "start" /\ pc[w] \notin Carrying /\ "idle" \in WorkerLabels \ Carrying
    BY <1>1, <1>5 DEF SpuriousWake, Carrying, WorkerLabels
  <2>2. QED
    BY <1>5, <2>1, WalkKeeps DEF SpuriousWake
<1>6. CASE Dispatch(w)
  <2>1. sup # "start"
    BY <1>1, <1>6 DEF Dispatch
  <2>2. QED
    BY <1>6, <2>1, DispatchKeeps
<1>7. CASE Report(w)
  <2>1. sup # "start"
    BY <1>1, <1>7 DEF Report
  <2>2. QED
    BY <1>7, <2>1, ReportKeeps
<1>8. QED
  BY <1>2, <1>3, <1>4, <1>5, <1>6, <1>7 DEF Worker

LEMMA SupervisorKeeps ==
  ASSUME ExecutorInv, Supervisor
  PROVE  ExecutorInv'
<1>1. CASE Start
  BY <1>1, StartKeeps
<1>2. CASE Receive
  BY <1>2, ReceiveKeeps
<1>3. CASE Push
  BY <1>3, PushKeeps
<1>4. CASE Announce
  BY <1>4, AnnounceKeeps
<1>5. CASE Notify
  BY <1>5, NotifyKeeps DEF Notify
<1>6. CASE Loop
  BY <1>6, NotifyKeeps DEF Loop, pool
<1>7. CASE Finish
  BY <1>7, NotifyKeeps, IdleMeansNoneReady DEF Finish
<1>8. CASE Release
  BY <1>8, NotifyKeeps DEF Release
<1>9. QED
  BY <1>1, <1>2, <1>3, <1>4, <1>5, <1>6, <1>7, <1>8 DEF Supervisor

LEMMA StutterKeeps ==
  ASSUME ExecutorInv, UNCHANGED vars
  PROVE  ExecutorInv'
<1>1. /\ UNCHANGED <<session, scenario, queue, done, pc, job, reports, store>>
      /\ UNCHANGED <<sup, batch, found, defs, outstanding>>
  BY DEF vars, pool, supervisor
<1>2. CASE sup = "start"
  <2>1. UNCHANGED <<inputs, phase, known, owned, state, retiredBy, seen>>
    BY <1>1 DEF session
  <2>2. SessionInv'
    BY <2>1 DEF ExecutorInv, SessionInv, RecordsMatch, ReadyOnlyAfterProducers, LiveGraphAcyclic,
                CyclicOn, Active, Producers
  <2>3. Fresh' /\ ~Going'
    BY <1>1, <1>2, <2>1 DEF ExecutorInv, Fresh, Going
  <2>4. QED
    BY <1>1, <2>1, <2>2, <2>3 DEF ExecutorInv
<1>3. CASE sup # "start"
  <2>1. UNCHANGED Elsewhere
    BY <1>1 DEF Elsewhere, supervisor
  <2>2. UNCHANGED <<inputs, state>>
    BY <1>1 DEF session
  <2>3. Ready' = Ready /\ Finished' = Finished /\ Failing' = Failing
    BY <1>1, <2>2 DEF Ready, Finished, Failing, Discovers
  <2>4. Going => RunTypeOK' /\ OnePlace' /\ Truthful'
    BY <1>1, <2>3 DEF ExecutorInv, RunInv, RunTypeOK, OnePlace, Truthful, Computed, Discovers
  <2>5. QED
    BY <1>3, <2>1, <2>4, WorkerStep
<1>4. QED
  BY <1>2, <1>3

(* The inductive invariant of session and executor together.               *)
THEOREM ExecutorInvariant == Spec => []ExecutorInv
<1>1. Init => ExecutorInv
  BY InitialRun
<1>2. ExecutorInv /\ [Next]_vars => ExecutorInv'
  BY WorkerKeeps, SupervisorKeeps, StutterKeeps DEF Next
<1>3. QED
  BY <1>1, <1>2, PTL DEF Spec

(* When nothing is ready any more, what is not completed is exactly what   *)
(* cannot succeed and what reads it: of other actions each would wait for  *)
(* another, and the graph has no cycle.                                    *)
LEMMA AllIsSettled ==
  ASSUME ExecutorInv, Going, Ready = {}
  PROVE  known \cap Finished = known \ Downstream(Failing)
<1> DEFINE S == {a \in known : a \notin Finished /\ a \notin Downstream(Failing)}
<1>1. Plain /\ Deserved /\ Downstream(Failing) \cap Finished = {}
  BY FinishedApart DEF ExecutorInv, RunInv
<1>2. /\ state \in [Actions -> States] /\ known \subseteq Actions
      /\ \A a \in Actions : a \in known <=> state[a] # "absent"
      /\ Failing \in SUBSET Actions
  BY Facts DEF Failing, IsScenario
<1>3. ASSUME NEW a \in S PROVE Producers(a) \cap S # {}
  <2>1. a \in Actions /\ state[a] = "blocked_dependency"
    BY <1>1, <1>2 DEF States, Plain, Deserved, Ready, Finished
  <2>2. PICK p \in Producers(a) : p \notin Finished
    BY <1>1, <2>1 DEF Deserved
  <2>3. p \in known
    BY <1>1, <2>2 DEF Plain
  <2>4. p \notin Downstream(Failing)
    BY <1>2, <2>1, <2>2, DownstreamHolds
  <2>5. QED
    BY <2>2, <2>3, <2>4
<1>4. S = {}
  <2>1. S \subseteq Active
    BY <1>1, <1>2 DEF Active, Plain
  <2> HIDE DEF S
  <2>2. S # {} => CyclicOn(Active)
    BY <1>3, <2>1 DEF CyclicOn
  <2>3. QED
    BY <2>2 DEF ExecutorInv, SessionInv, LiveGraphAcyclic
<1>5. QED
  BY <1>1, <1>4

(* For every graph, every number of workers, whatever the actions discover *)
(* and whichever fail: the outcome does not depend on the schedule         *)
(* (run_to_completion).                                                    *)
THEOREM OutcomeIsPlannedHolds == Spec => []OutcomeIsPlanned
<1>1. ExecutorInv => OutcomeIsPlanned
  <2> SUFFICES ASSUME ExecutorInv, sup = "ok" PROVE OutcomeIsPlanned
    BY DEF OutcomeIsPlanned
  <2>1. Going /\ Ready = {} /\ found = None /\ KnownIsFound
    BY DEF Going, ExecutorInv, RunInv, InStep
  <2> DEFINE good == {a \in known : state[a] = "completed"}
  <2>2. good = known \cap Finished /\ good = Finished /\ None \notin Finished
    BY Facts DEF Finished
  <2>3. good = known \ Downstream(Failing)
    BY <2>1, <2>2, AllIsSettled
  <2>4. good \cap DOMAIN scenario.finds = {e \in Finished : Discovers(e) /\ e # found}
    BY <2>1, <2>2 DEF Discovers
  <2>5. known = Range(scenario.start) \cup
                UNION {Range(scenario.finds[d]) : d \in good \cap DOMAIN scenario.finds}
    <3> HIDE DEF good
    <3>1. QED
      BY <2>1, <2>4 DEF KnownIsFound, Found
  <2>6. QED
    BY <2>3, <2>5 DEF OutcomeIsPlanned
<1>2. QED
  BY <1>1, ExecutorInvariant, PTL

-----------------------------------------------------------------------------
(* The run executes the graph *)

Failed == {a \in Actions : state[a] = "failed"}
Edges  == [a \in Actions |-> Producers(a)]

(* A step that settles nothing is invisible.                               *)
LEMMA NothingSettled ==
  ASSUME UNCHANGED inputs, Finished' = Finished, Failed' = Failed
  PROVE  UNCHANGED <<Edges, Finished, Downstream(Failed)>>
<1>1. \A a : Producers(a)' = Producers(a)
  BY DEF Producers
<1>2. QED
  BY <1>1 DEF Edges, Downstream

LEMMA SameStates ==
  ASSUME UNCHANGED <<inputs, state>>
  PROVE  UNCHANGED <<Edges, Finished, Downstream(Failed)>>
BY NothingSettled DEF Finished, Failed

LEMMA CompletionFinishes ==
  ASSUME ExecutorInv, Going, NEW p \in Ready, UNCHANGED inputs, Complete(p)
  PROVE  p \in Actions /\ /\ p \notin Finished \cup Downstream(Failed)
                         /\ Edges[p] \subseteq Finished /\ Finished' = Finished \cup {p}
                         /\ UNCHANGED <<Edges, Downstream(Failed)>>
<1>1. /\ Finished' = Finished \cup {p}
      /\ \A a \in Actions : state'[a] = "failed" <=> state[a] = "failed"
  BY CompletionIs
<1>2. /\ p \in Actions /\ p \in known /\ state[p] = "ready" /\ p \notin Finished
      /\ Producers(p) \subseteq Actions
  BY Facts DEF Ready, Finished
<1>3. Producers(p) \subseteq Finished
  BY <1>2 DEF ExecutorInv, SessionInv, ReadyOnlyAfterProducers, Finished
<1>4. p \notin Downstream(Failed)
  <2> DEFINE D == Finished \cup {p}
  <2>1. D \in SUBSET Actions /\ Failed \in SUBSET Actions /\ Failed \cap D = {}
    BY <1>2 DEF Finished, Failed
  <2>2. \A a \in D : Producers(a) \subseteq D
    BY <1>3 DEF ExecutorInv, RunInv, Deserved
  <2>3. p \in D
    OBVIOUS
  <2> HIDE DEF D
  <2>4. QED
    BY <2>1, <2>2, <2>3, DownstreamApart
<1>5. UNCHANGED <<Edges, Downstream(Failed)>>
  <2>1. Failed' = Failed /\ \A a : Producers(a)' = Producers(a)
    BY <1>1 DEF Failed, Producers
  <2>2. QED
    BY <2>1 DEF Edges, Downstream
<1>6. QED
  BY <1>1, <1>2, <1>3, <1>4, <1>5 DEF Edges

LEMMA FailureGivesUp ==
  ASSUME ExecutorInv, Going, UNCHANGED inputs, Finished' = Finished, Failed \subseteq Failed'
  PROVE  /\ Downstream(Failed) \subseteq Downstream(Failed)'
         /\ Downstream(Failed)' \subseteq Actions \ Finished
         /\ \A a \in Actions : Edges[a] \cap Downstream(Failed)' # {} => a \in Downstream(Failed)'
         /\ UNCHANGED <<Edges, Finished>>
<1> DEFINE F == Failed'
<1>1. \A a : Producers(a)' = Producers(a)
  BY DEF Producers
<1>2. Downstream(Failed)' = Downstream(F) /\ Edges' = Edges
  BY <1>1 DEF Downstream, Edges
<1>3. /\ F \in SUBSET Actions /\ F \cap Finished = {} /\ Failed \subseteq F
      /\ Finished \in SUBSET Actions
  BY DEF Failed, Finished
<1>4. \A a \in Finished : Producers(a) \subseteq Finished
  BY DEF ExecutorInv, RunInv, Deserved
<1> HIDE DEF F
<1>5. Downstream(F) \cap Finished = {}
  BY <1>3, <1>4, DownstreamApart
<1>6. /\ F \subseteq Downstream(F) /\ Downstream(F) \in SUBSET Actions
      /\ \A b \in Actions : Producers(b) \cap Downstream(F) # {} => b \in Downstream(F)
  BY <1>3, DownstreamHolds
<1>7. Downstream(Failed) \subseteq Downstream(F)
  BY <1>3, <1>6, DownstreamLeast
<1>8. QED
  BY <1>2, <1>5, <1>6, <1>7 DEF Edges

(* Session and executor together execute the graph, although it grows: a   *)
(* report of success finishes an action after all it reads, a report of    *)
(* failure gives up all that depends on it, and nothing else is visible.   *)
THEOREM ExecutesGraphHolds == Spec => ExecutesGraph
<1>1. Init => Execution!ExecutionInit
  <2> SUFFICES ASSUME Init PROVE Execution!ExecutionInit
    OBVIOUS
  <2>1. Finished = {} /\ Failed = {}
    BY DEF Init, SessionInit, Finished, Failed
  <2>2. Downstream({}) = {}
    <3> DEFINE T == {}
    <3>1. {} \subseteq T /\ T \in SUBSET Actions /\ \A b \in Actions : Producers(b) \cap T # {} => b \in T
      OBVIOUS
    <3> HIDE DEF T
    <3>2. Downstream({}) \subseteq T
      BY <3>1, DownstreamLeast
    <3>3. QED
      BY <3>2 DEF T
  <2>3. QED
    BY <2>1, <2>2 DEF Execution!ExecutionInit, Finished, Failed
<1>2. ExecutorInv /\ [Next]_vars => [Execution!ExecutionNext]_<<Edges, Finished, Downstream(Failed)>>
  <2> SUFFICES ASSUME ExecutorInv, [Next]_vars
               PROVE  [Execution!ExecutionNext]_<<Edges, Finished, Downstream(Failed)>>
    OBVIOUS
  <2>1. ASSUME NEW w \in Workers, Worker(w) \/ SpuriousWake(w) PROVE UNCHANGED <<inputs, state>>
    BY <2>1 DEF Worker, Take, Leave, Sleep, SpuriousWake, Dispatch, Report, Elsewhere, session
  <2>2. ASSUME Push \/ Notify \/ Loop \/ Finish \/ Release \/ UNCHANGED vars
        PROVE  UNCHANGED <<inputs, state>>
    BY <2>2 DEF Push, Notify, Loop, Finish, Release, vars, session
  <2>3. ASSUME Start PROVE UNCHANGED <<Edges, Finished, Downstream(Failed)>>
    <3>1. scenario.start \in Seq(Actions)
      BY Facts DEF IsScenario
    <3>2. UNCHANGED inputs /\ Inserts(scenario.start) /\ \A a \in Actions : state[a] = "absent"
      BY <2>3, StartEffect, Facts
    <3>3. Finished' = Finished /\ Failed' = Failed
      BY <3>1, <3>2, InsertionIs DEF Failed
    <3>4. QED
      BY <3>2, <3>3, NothingSettled
  <2>4. ASSUME Announce PROVE UNCHANGED <<Edges, Finished, Downstream(Failed)>>
    <3> DEFINE list == scenario.finds[found]
    <3>1. Going /\ found # None /\ ApplyDelta(<<"discovered", found>>, Discovery(list, <<>>, {Last(list)}, generation > 0))
      BY <2>4 DEF Announce, Going
    <3>2. list \in Seq(Actions)
      BY <3>1, Facts DEF ExecutorInv, RunInv, SentOnce, Discovers, IsScenario
    <3> HIDE DEF list
    <3>3. UNCHANGED inputs /\ (UNCHANGED state \/ Inserts(list))
      BY <3>1, <3>2, DiscoveryEffect
    <3>4. CASE Inserts(list)
      <4>1. Finished' = Finished /\ Failed' = Failed
        BY <3>2, <3>3, <3>4, InsertionIs, Facts DEF Failed
      <4>2. QED
        BY <3>3, <4>1, NothingSettled
    <3>5. QED
      BY <3>3, <3>4, SameStates
  <2>5. ASSUME Receive
        PROVE  \/ UNCHANGED <<Edges, Finished, Downstream(Failed)>>
               \/ Execution!GiveUp
               \/ \E a \in Actions : Execution!Finish(a)
    <3> DEFINE r == Head(reports)
    <3>1. Going /\ r.action \in Ready /\ (~r.ok => r.action \in Failing)
      BY <2>5, ReceivedReport
    <3>2. CASE r.ok
      <4>1. ApplyDelta(<<"completed", r.action>>, Completion(r.action))
        BY <2>5, <3>2 DEF Receive
      <4> DEFINE p == r.action
      <4> HIDE DEF r, p
      <4>2. UNCHANGED inputs /\ (UNCHANGED state \/ Complete(p))
        BY <3>1, <4>1, CompletionEffect DEF p
      <4>3. CASE Complete(p)
        <5>1. p \in Actions /\ /\ p \notin Finished \cup Downstream(Failed)
                              /\ Edges[p] \subseteq Finished /\ Finished' = Finished \cup {p}
                              /\ UNCHANGED <<Edges, Downstream(Failed)>>
          BY <3>1, <4>2, <4>3, CompletionFinishes DEF p
        <5>2. PICK a \in Actions : a = p
          BY <5>1
        <5>3. Execution!Finish(a)
          BY <5>1, <5>2 DEF Execution!Finish, Edges, Finished, Failed
        <5>4. QED
          BY <5>3
      <4>4. QED
        BY <4>2, <4>3, SameStates
    <3>3. CASE ~r.ok
      <4>1. ApplyDelta(<<"failed", r.action>>, Failure(r.action))
        BY <2>5, <3>3 DEF Receive
      <4> DEFINE p == r.action
      <4> HIDE DEF r, p
      <4>2. /\ UNCHANGED inputs /\ p \in Undecided /\ p \in Ready /\ p \in Failing
            /\ state' = [a \in Actions |-> IF a \in {p} \cup Poisoned(p) THEN "failed" ELSE state[a]]
        BY <3>1, <3>3, <4>1, FailureEffect DEF p
      <4>3. Finished' = Finished /\ Failed \subseteq Failed'
        BY <3>1, <4>2, FailureIs DEF Failed
      <4>4. Execution!GiveUp
        BY <3>1, <4>2, <4>3, FailureGivesUp DEF Execution!GiveUp, Edges, Finished, Failed
      <4>5. QED
        BY <4>4
    <3>4. QED
      BY <3>2, <3>3
  <2>6. QED
    BY <2>1, <2>2, <2>3, <2>4, <2>5, SameStates DEF Next, Supervisor, Execution!ExecutionNext
<1>3. QED
  BY <1>1, <1>2, ExecutorInvariant, PTL
     DEF Spec, ExecutesGraph, Execution!ExecutionSpec, Edges, Finished, Failed
=============================================================================
