------------------------ MODULE ObligationLifecycle -------------------------
(***************************************************************************)
(* What a production run records about the obligations of a resolved       *)
(* dependency graph, and the gate that lets its artifact be published      *)
(* (crates/laminaria-plan/src/obligation_lifecycle.rs, ProductionGraph).   *)
(*                                                                         *)
(* Any method may be called at any time, in any order.  A method that      *)
(* fails returns an error, but keeps what it changed before it failed;     *)
(* only record_runtime_operation works on a copy.                          *)
(*                                                                         *)
(* One number stands for the operation id and the sequence of a piece of   *)
(* evidence: neither may be used twice.  Evidence that is empty, failed,   *)
(* unverified or does not fit its action is refused before anything        *)
(* changes and is left out; so are the texts that describe it.             *)
(***************************************************************************)
EXTENDS Integers, Sequences, FiniteSets, Functions, DischargeRules

CONSTANTS
  Closures,   \* the resolved graphs a run may start from
  Lists,      \* the obligation lists a resolver may report
  MaxSeq      \* bound on the sequence numbers of the evidence

Closed == {"Discharged", "Externalized"}
Final  == Closed \cup {"ProvenIrrelevant"}

(* The closures over these obligations and actions; the action required    *)
(* for an obligation, if there is one, is the element of a set.            *)
ClosureType(O, A) == [kind       : [O -> Kinds],
                      depends    : [O -> SUBSET O],
                      status     : [O -> States],
                      required   : [O -> {{}} \cup {{a} : a \in A}],
                      actionKind : [A -> ActionKinds],
                      discharges : [A -> Seq(O)],
                      needs      : [A -> SUBSET A]]

VARIABLES
  closure,      \* kinds, edges and required actions, constant
  status,       \* state of each obligation
  required,     \* its required_action
  history,      \* its transitions, <<>> when there is no entry
  operations,   \* recorded operations
  resolutions, contracts, proofs   \* sequence numbers of the other evidence

obligationVars == <<status, required, history>>
evidenceVars   == <<operations, resolutions, contracts, proofs>>
vars           == <<closure, obligationVars, evidenceVars>>

Obligations == DOMAIN closure.kind
Actions     == DOMAIN closure.actionKind

Recorded == {op.action : op \in operations}
Used     == resolutions \cup contracts \cup proofs \cup {op.seq : op \in operations}

(* reachable_obligations.                                                  *)
Reachable ==
  Closure({o \in Obligations : closure.kind[o] = "NativeExecutableDemand"},
          LAMBDA o : closure.depends[o] \cap Obligations, Cardinality(Obligations))

Init ==
  /\ closure \in Closures
  /\ status = closure.status
  /\ required = closure.required
  /\ history = [o \in Obligations |-> <<>>]
  /\ operations = {} /\ resolutions = {} /\ contracts = {} /\ proofs = {}

(* append_transition succeeds.                                             *)
Follows(transitions, from, seq) ==
  transitions # <<>> => LET last == transitions[Len(transitions)] IN last.to = from /\ last.seq < seq

Transition(seq, from, to, cause) == [seq |-> seq, from |-> from, to |-> to, cause |-> cause]

(* A loop over obligations with `?` inside: once an obligation fails, the  *)
(* rest is not visited; what was changed before stays.                     *)
Progress == [status |-> status, required |-> required, history |-> history, error |-> "none"]

Loop(p, list, Step(_, _)) ==
  LET after[n \in 0 .. Len(list)] ==
        IF n = 0 THEN p
        ELSE LET q == after[n-1] IN IF q.error = "none" THEN Step(q, list[n]) ELSE q
  IN after[Len(list)]

Moved(p, o, seq, from, to, cause) ==
  LET moved == [p EXCEPT !.status[o] = to] IN
  IF Follows(p.history[o], from, seq)
  THEN [moved EXCEPT !.history[o] = Append(@, Transition(seq, from, to, cause))]
  ELSE [moved EXCEPT !.error = "transition"]

Keep(p) == /\ status' = p.status /\ required' = p.required /\ history' = p.history
           /\ UNCHANGED closure

(* A fact of the resolver closes, the others stay as they were chosen.     *)
Decide(p, o, seq) ==
  Moved(p, o, seq, "Unresolved",
        IF p.required[o] # {} THEN p.status[o] ELSE "Discharged", <<"resolution">>)

(* Nothing is closed unless everything on the list may be.                 *)
Resolvable(list) ==
  /\ list # <<>> /\ list \in Seq(Obligations) /\ IsInjective(list)
  /\ \A o \in Range(list) : /\ status[o] \in Chosen
                            /\ required[o] # {} \/ closure.kind[o] \in ResolverOwned

Decided(list, seq) == Loop(Progress, list, LAMBDA p, o : Decide(p, o, seq))

RecordResolution(list, seq) ==
  /\ seq \notin Used
  /\ Resolvable(list)
  /\ LET end == Decided(list, seq)
     IN /\ Keep(end)
        /\ resolutions' = IF end.error = "none" THEN resolutions \cup {seq} ELSE resolutions
  /\ UNCHANGED <<operations, contracts, proofs>>

(* validate_operation.                                                     *)
Validated(a, seq) == seq \notin Used /\ closure.needs[a] \subseteq Recorded

(* discharge_obligation, then append_transition.                           *)
Discharge(p, o, a, seq) ==
  IF o \notin Obligations
  THEN [p EXCEPT !.error = "unknown"]
  ELSE IF closure.kind[o] \notin Dischargeable[closure.actionKind[a]]
  THEN [p EXCEPT !.error = "kind"]
  ELSE IF p.status[o] \notin Chosen
  THEN [p EXCEPT !.error = "state"]
  ELSE Moved([p EXCEPT !.required[o] = {a}], o, seq, p.status[o], "Discharged", <<"action", a>>)

Discharged(a, seq) == Loop(Progress, closure.discharges[a], LAMBDA p, o : Discharge(p, o, a, seq))

RecordOperation(a, seq) ==
  /\ Validated(a, seq)
  /\ LET end == Discharged(a, seq)
     IN /\ Keep(end)
        /\ operations' = IF end.error = "none"
                         THEN operations \cup {[action |-> a, seq |-> seq]} ELSE operations
  /\ UNCHANGED <<resolutions, contracts, proofs>>

(* An obligation without history closes straight from Unresolved.          *)
Before(o) == IF history[o] # <<>> THEN status[o] ELSE "Unresolved"

Externalized(o, seq) == Moved(Progress, o, seq, Before(o), "Externalized", <<"contract">>)

ExternalizeRuntime(o, seq) ==
  /\ seq \notin Used
  /\ closure.kind[o] = "Runtime" /\ status[o] \in Chosen
  /\ LET end == Externalized(o, seq)
     IN /\ Keep(end)
        /\ contracts' = IF end.error = "none" THEN contracts \cup {seq} ELSE contracts
  /\ UNCHANGED <<operations, resolutions, proofs>>

(* The operation and its contract are recorded together or not at all.     *)
RecordRuntimeOperation(a, seq, contractSeq) ==
  /\ Validated(a, seq)
  /\ closure.actionKind[a] = "PreflightRuntimeContract"
  /\ Len(closure.discharges[a]) = 1
  /\ contractSeq \notin Used /\ contractSeq > seq
  /\ LET o   == closure.discharges[a][1]
         end == Externalized(o, contractSeq)
     IN /\ o \in Obligations /\ closure.kind[o] = "Runtime" /\ status[o] \in Chosen
        /\ end.error = "none"
        /\ Keep(end)
  /\ operations' = operations \cup {[action |-> a, seq |-> seq]}
  /\ contracts' = contracts \cup {contractSeq}
  /\ UNCHANGED <<resolutions, proofs>>

ProveIrrelevant(o, seq) ==
  /\ seq \notin Used
  /\ o \notin Reachable
  /\ status[o] \in Chosen \cup {"Unresolved"}
  /\ LET end == Moved(Progress, o, seq, Before(o), "ProvenIrrelevant", <<"proof">>)
     IN /\ Keep(end)
        /\ proofs' = IF end.error = "none" THEN proofs \cup {seq} ELSE proofs
  /\ UNCHANGED <<operations, resolutions, contracts>>

Next ==
  \E seq \in 1 .. MaxSeq :
    \/ \E list \in Lists : RecordResolution(list, seq)
    \/ \E a \in Actions : \/ RecordOperation(a, seq)
                          \/ \E later \in 1 .. MaxSeq : RecordRuntimeOperation(a, seq, later)
    \/ \E o \in Obligations : ExternalizeRuntime(o, seq) \/ ProveIrrelevant(o, seq)

Spec == Init /\ [][Next]_vars

-----------------------------------------------------------------------------
(* publication_manifest *)

(* Mutant: an operation is not asked for.                                  *)
NotAskedFor(o) == o \notin Obligations

(* PublicationBlocker::MissingCausalOperation.                             *)
MissingCause(o) ==
  required[o] # {} /\ status[o] = "Discharged" /\ ~(required[o] \subseteq Recorded)

(* PublicationBlocker::InvalidHistory.                                     *)
InvalidHistory(o) ==
  LET h == history[o] IN
  IF h = <<>> THEN status[o] \in Final
  ELSE \/ h[1].from # "Unresolved"
       \/ \E i \in 1 .. Len(h) - 1 : h[i].to # h[i+1].from \/ h[i].seq >= h[i+1].seq
       \/ h[Len(h)].to # status[o]

(* The gate for an output of action a.                                     *)
Publishable(a) ==
  /\ Reachable # {}
  /\ \A o \in Obligations : /\ o \in Reachable => status[o] \in Closed
                            /\ ~MissingCause(o) /\ ~InvalidHistory(o)
  /\ a \in Recorded

-----------------------------------------------------------------------------
(* Properties *)

(* Nothing is published on a promise: behind a published artifact, every   *)
(* obligation that the demand reaches was closed by evidence that is       *)
(* recorded and is about it: an operation of an action that discharges it, *)
(* a runtime contract, or, if no action is required, a decision of the     *)
(* resolver.  (The record of that decision is a matter of its own.)        *)
PublishedIsCaused ==
  (\E a \in Actions : Publishable(a)) =>
    \A o \in Obligations \cap Reachable :
      LET last == history[o][Len(history[o])] IN
      \/ \E op \in operations : /\ o \in Range(closure.discharges[op.action])
                                /\ last.cause = <<"action", op.action>> /\ last.seq = op.seq
      \/ last.cause = <<"contract">> /\ last.seq \in contracts
      \/ last.cause = <<"resolution">> /\ closure.required[o] = {}

(* A record that failed half-way: an obligation has closed, but no         *)
(* transition, or no operation, says why.                                  *)
Torn(o) ==
  /\ status[o] \in Final
  /\ \/ history[o] = <<>> \/ history[o][Len(history[o])].to # status[o]
     \/ MissingCause(o)

(* Such a record can neither be completed nor be passed over: nothing is   *)
(* published from this graph any more.                                     *)
HonestStep ==
  /\ PublishedIsCaused'
  /\ \A o \in Obligations : Torn(o) => Torn(o)' /\ \A a \in Actions : ~Publishable(a)

=============================================================================
