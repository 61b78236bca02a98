-------------------------- MODULE CompilerWorkPool --------------------------
(***************************************************************************)
(* The owned compiler-work executor: a pool of cpu_budget worker threads   *)
(* that run the actions of a validated plan as their producers succeed     *)
(* (crates/laminaria-run/src/compiler_work_executor.rs).                   *)
(*                                                                         *)
(* The workers share a schedule (one Mutex, one Condvar) and an artifact   *)
(* store (another Mutex).  A step here is a critical section, the Condvar  *)
(* wait, or the computation between two critical sections.                 *)
(*                                                                         *)
(* An action is its rank in id order.  validate_compiler_work_action makes *)
(* every compiler-work action publish exactly one artifact, named after    *)
(* itself, so an artifact is its producer.  Lowering, validating,          *)
(* transforming, evaluating and generating are functions of their inputs:  *)
(* `fails` holds the actions for which they return an error.               *)
(***************************************************************************)
EXTENDS Integers, Sequences, SequencesExt

CONSTANTS
  N,        \* number of action ids
  Workers,  \* the cpu_budget worker threads
  Plans,    \* the validated plans
  Stores,   \* the artifacts a caller's store may already hold
  None      \* no semantic input

Work  == 1 .. N
Kinds == {"LowerSource", "ValidateIr", "TransformFunction", "EvaluateEvidence",
          "GenerateNativeObject", "delegated"}

(* inputs lists the producers of the declared inputs, with repetition;     *)
(* semantic is the first semantic input.  `delegated` is every kind that   *)
(* this executor does not run.  What is not among actions has no inputs.   *)
PlanType == [actions  : SUBSET Work,
             kind     : [Work -> Kinds],
             inputs   : [Work -> Seq(Work)],
             semantic : [Work -> Work \cup {None}],
             fails    : SUBSET Work]

Producers(p, w) == {p.inputs[w][i] : i \in DOMAIN p.inputs[w]}

(* What laminaria_plan::validate leaves: an acyclic order over declared    *)
(* producers, semantic inputs among the declared ones.                     *)
Validated(p) ==
  /\ \A S \in SUBSET Work : S # {} => \E w \in S : Producers(p, w) \cap S = {}
  /\ \A w \in Work : p.semantic[w] # None => p.semantic[w] \in Producers(p, w)
  /\ \A w \in Work : Producers(p, w) \subseteq p.actions
  /\ \A w \in Work \ p.actions : p.inputs[w] = <<>>

ASSUME PoolAssumption ==
  /\ N \in Nat
  /\ Workers # {}
  /\ None \notin Work
  /\ \A p \in Plans : p \in PlanType /\ Validated(p)
  /\ Stores \subseteq SUBSET Work

VARIABLES
  plan,        \* the plan, constant
  selected,    \* the actions restrict_execution_plan kept, constant
  kept,        \* artifacts the store held before the call, constant
  \* SchedulerState
  ready, remaining, resolved, successful, errors,
  \* ArtifactStore, as the ids each of its maps holds
  store,
  \* each worker's program counter and the action it holds
  pc, job

constants == <<plan, selected, kept>>
schedule  == <<ready, remaining, resolved, successful, errors>>
vars      == <<plan, selected, kept, ready, remaining, resolved, successful, errors,
               store, pc, job>>

(* restrict_execution_plan keeps an action only together with its          *)
(* producers.                                                              *)
Selectable(p, S) == \A w \in S : Producers(p, w) \subseteq S

(* dependency_graph: the inputs of v that w produces.                      *)
Edges(w, v) == {i \in DOMAIN plan.inputs[v] : plan.inputs[v][i] = w}

Dependents(w) == {v \in selected : Edges(w, v) # {}}

(* The order of a BTreeMap.                                                *)
Ascending(S) ==
  CHOOSE s \in SetToSeqs(S) : \A i, j \in DOMAIN s : i < j => s[i] < s[j]

(* The map of the store a kind publishes to, and the one it reads.         *)
Publishes == [LowerSource |-> "candidates", ValidateIr |-> "validated",
              TransformFunction |-> "candidates", EvaluateEvidence |-> "evidence",
              GenerateNativeObject |-> "native_objects"]
Reads     == [ValidateIr |-> "candidates", TransformFunction |-> "validated",
              EvaluateEvidence |-> "validated", GenerateNativeObject |-> "validated"]
Maps      == {"candidates", "validated", "evidence", "native_objects"}

HasInput(w, m) == plan.semantic[w] # None /\ plan.semantic[w] \in store[m]

Holding(p, S) == [m \in Maps |-> {w \in S : p.kind[w] # "delegated" /\ Publishes[p.kind[w]] = m}]

Init ==
  /\ plan \in Plans
  /\ selected \in {S \in SUBSET plan.actions : Selectable(plan, S)}
  /\ kept \in Stores
  /\ remaining = [w \in Work |-> Len(plan.inputs[w])]
  /\ ready \in SetToSeqs({w \in selected : remaining[w] = 0})
  /\ resolved = {}
  /\ successful = {}
  /\ errors = {}
  /\ store = Holding(plan, kept)
  /\ pc = [t \in Workers |-> "idle"]
  /\ job = [t \in Workers |-> None]

GoTo(t, label) == pc' = [pc EXCEPT ![t] = label]

(* The head of worker_loop, with the schedule locked.                      *)
Pop(t) ==
  /\ pc[t] = "idle"
  /\ ready # <<>>
  /\ job' = [job EXCEPT ![t] = Head(ready)]
  /\ ready' = Tail(ready)
  /\ GoTo(t, "dispatch")
  /\ UNCHANGED <<constants, remaining, resolved, successful, errors, store>>

Exit(t) ==
  /\ pc[t] = "idle"
  /\ ready = <<>>
  /\ resolved = selected
  /\ GoTo(t, "exited")
  /\ UNCHANGED <<constants, schedule, store, job>>

Wait(t) ==
  /\ pc[t] = "idle"
  /\ ready = <<>>
  /\ resolved # selected
  /\ GoTo(t, "waiting")
  /\ UNCHANGED <<constants, schedule, store, job>>

(* A Condvar may wake a waiter that nobody notified.                       *)
SpuriousWake(t) ==
  /\ pc[t] = "waiting"
  /\ GoTo(t, "idle")
  /\ UNCHANGED <<constants, schedule, store, job>>

(* dispatch_action up to the clone of its input out of the store.          *)
Dispatch(t) ==
  LET w    == job[t]
      kind == plan.kind[w]
  IN /\ pc[t] = "dispatch"
     /\ GoTo(t, IF kind = "LowerSource" THEN "compute"
                ELSE IF kind \in DOMAIN Reads /\ HasInput(w, Reads[kind]) THEN "compute"
                ELSE "err")
     /\ UNCHANGED <<constants, schedule, store, job>>

(* The computation, and the insertion of its result.                       *)
Compute(t) ==
  LET w == job[t] IN
  /\ pc[t] = "compute"
  /\ IF w \in plan.fails
     THEN GoTo(t, "err") /\ UNCHANGED store
     ELSE GoTo(t, "ok") /\ store' = [store EXCEPT ![Publishes[plan.kind[w]]] = @ \cup {w}]
  /\ UNCHANGED <<constants, schedule, job>>

(* Mutant: an edge is counted per input but discharged per producer.       *)
ResolveOkOncePerProducer(t) ==
  LET w     == job[t]
      fresh == {v \in Dependents(w) \ resolved : remaining[v] = 1}
  IN /\ pc[t] = "ok"
     /\ resolved' = resolved \cup {w}
     /\ successful' = successful \cup {w}
     /\ remaining' = [v \in Work |-> IF v \in Dependents(w) \ resolved
                                     THEN remaining[v] - 1 ELSE remaining[v]]
     /\ ready' = ready \o Ascending(fresh)
     /\ GoTo(t, "notify")
     /\ job' = [job EXCEPT ![t] = None]
     /\ UNCHANGED <<constants, errors, store>>

(* Ok(()): one decrement per edge; a dependent that reaches zero is queued.*)
ResolveOk(t) ==
  LET w     == job[t]
      left  == [v \in Work |-> IF v \in Dependents(w) \ (resolved \cup {w})
                               THEN remaining[v] - Cardinality(Edges(w, v))
                               ELSE remaining[v]]
      fresh == {v \in Dependents(w) \ (resolved \cup {w}) : left[v] = 0}
  IN /\ pc[t] = "ok"
     /\ resolved' = resolved \cup {w}
     /\ successful' = successful \cup {w}
     /\ remaining' = left
     /\ ready' = ready \o Ascending(fresh)
     /\ GoTo(t, "notify")
     /\ job' = [job EXCEPT ![t] = None]
     /\ UNCHANGED <<constants, errors, store>>

(* Mutant: only direct dependents of a failure are poisoned.               *)
DirectDependents(w) == Dependents(w) \ resolved

(* Mutant: the first failure ends everything.                              *)
FailFast(w) == selected \ (resolved \cup {w})

(* The transitive dependents of w, not looking past a resolved one.        *)
Poisoned(w) ==
  LET settled == resolved \cup {w}
      Closed(S) == \A v \in S \cup {w} : Dependents(v) \ settled \subseteq S
  IN {v \in selected : \A S \in SUBSET selected : Closed(S) => v \in S}

(* Err(e): the action and everything that depends on it is resolved.       *)
ResolveErr(t) ==
  LET w == job[t] IN
  /\ pc[t] = "err"
  /\ errors' = errors \cup {w}
  /\ resolved' = resolved \cup {w} \cup Poisoned(w)
  /\ GoTo(t, "notify")
  /\ job' = [job EXCEPT ![t] = None]
  /\ UNCHANGED <<constants, ready, remaining, successful, store>>

(* notify_all, after the lock is dropped.                                  *)
Notify(t) ==
  /\ pc[t] = "notify"
  /\ pc' = [u \in Workers |-> IF u = t \/ pc[u] = "waiting" THEN "idle" ELSE pc[u]]
  /\ UNCHANGED <<constants, schedule, store, job>>

Step(t) ==
  \/ Pop(t) \/ Exit(t) \/ Wait(t)
  \/ Dispatch(t) \/ Compute(t) \/ ResolveOk(t) \/ ResolveErr(t) \/ Notify(t)

Next == \E t \in Workers : Step(t) \/ SpuriousWake(t)

Spec == Init /\ [][Next]_vars

(* Every thread that can run eventually does.  A critical section ends     *)
(* without waiting, so a lock is never held for good; a wakeup that nobody *)
(* caused is not counted on.                                               *)
FairSpec == Spec /\ \A t \in Workers : WF_vars(Step(t))

-----------------------------------------------------------------------------
(* What the call returns *)

Returned == \A t \in Workers : pc[t] = "exited"

(* The smallest failing id's error, or Ok(()).                             *)
Result == IF errors = {} THEN None ELSE CHOOSE w \in errors : \A v \in errors : w <= v

(* build_execution_receipt, for the full plan and the selection it ran.    *)
Receipt == [selected |-> selected, successful |-> successful, evidence |-> store["evidence"]]

(* Mutant: the store is taken as evidence of this execution.               *)
AcceptsStored(receipt, requested) ==
  receipt.successful \subseteq receipt.selected /\ requested \in receipt.evidence

(* validate_execution_receipt.                                             *)
ReceiptAccepted(receipt, requested) ==
  /\ receipt.selected \cup receipt.successful \subseteq plan.actions
  /\ receipt.successful \subseteq receipt.selected
  /\ requested \in receipt.evidence
  /\ requested \in receipt.successful

-----------------------------------------------------------------------------
(* Properties *)

(* Refused at dispatch, whatever else runs.                                *)
IllKinded(v) ==
  \/ plan.kind[v] = "delegated"
  \/ /\ plan.kind[v] # "LowerSource"
     /\ \/ plan.semantic[v] = None
        \/ plan.kind[plan.semantic[v]] = "delegated"
        \/ Publishes[plan.kind[plan.semantic[v]]] # Reads[plan.kind[v]]

Broken == {v \in selected : IllKinded(v) \/ v \in plan.fails}

(* The outcome is a function of the plan: at every budget and under every  *)
(* interleaving the actions that succeed are those with nothing broken     *)
(* upstream, every first broken action reports its error, and the error    *)
(* returned is the one of the smallest id.                                 *)
OutcomeIsPlanned ==
  Returned =>
    /\ \A v \in selected : v \in successful <=> v \notin Broken /\ Producers(plan, v) \subseteq successful
    /\ \A v \in selected : v \in errors <=> v \in Broken /\ Producers(plan, v) \subseteq successful
    /\ Result = None <=> successful = selected

(* A receipt convinces an independent consumer exactly of the evaluations  *)
(* that this execution completed, whatever the store held before.          *)
ReceiptHonest ==
  Returned =>
    \A v \in Work : ReceiptAccepted(Receipt, v)
                      <=> v \in successful /\ plan.kind[v] = "EvaluateEvidence"

(* All workers exit.                                                       *)
PoolReturns == <>Returned

(* The pool implements the abstract execution of the restricted plan.      *)
Execution == INSTANCE GraphExecution WITH
  deps <- [v \in Work |-> IF v \in selected THEN Producers(plan, v) ELSE {}],
  done <- successful, dead <- resolved \ successful

ExecutesGraph == Execution!ExecutionSpec
=============================================================================
