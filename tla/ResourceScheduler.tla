------------------------- MODULE ResourceScheduler -------------------------
(***************************************************************************)
(* Admission, lifecycle and publication of physical work instances         *)
(* (crates/laminaria-run/src/resource_scheduler.rs, ResourceScheduler).    *)
(*                                                                         *)
(* The scheduler owns states, not computation: a caller runs the instances *)
(* AdmitReady returns and reports back with StageOutputs, Commit, Fail or  *)
(* Cancel, in any order.  Every call holds &mut self, so it is one step.   *)
(* A refused call returns an error and changes nothing: it is not a step.  *)
(***************************************************************************)
EXTENDS CommitStore

CONSTANTS
  Budget,   \* the global resource budget
  Plans,    \* the instance lists a caller may submit
  Batches   \* the write batches a computation may offer

Resources == {"cpu_slots", "memory_bytes", "io_slots", "external_process_slots"}
Amount    == [Resources -> Nat]

(* What a work unit reads: "from" holds the instances of the units that    *)
(* its source names.  Inputs from an external authority are left out, as   *)
(* no instance supplies them and none is waited for.                       *)
WorkInput == [kind : Kinds, from : SUBSET Work, optional : BOOLEAN]

(* dependencies, reservation and nested_parallelism come with an instance; *)
(* the minimum, the inputs and the outputs are those its work unit claims. *)
PlanType == [deps        : [Work -> SUBSET Work],
             reservation : [Work -> Amount],
             nested      : [Work -> Nat],
             minimum     : [Work -> Amount],
             inputs      : [Work -> SUBSET WorkInput],
             outputs     : [Work -> SUBSET Kinds]]

ASSUME SchedulerAssumption ==
  /\ Budget \in Amount
  /\ Plans \subseteq PlanType
  /\ Batches \subseteq SUBSET Write

VARIABLES
  plan,       \* the accepted instances, constant after new
  state,      \* lifecycle state of each instance
  wait,       \* its wait_reason
  allocated   \* reservations currently owned

lifecycleVars == <<plan, state, wait, allocated>>
vars == <<plan, state, wait, allocated, staged, committed, committedTargets>>

Lifecycle == {"Ready", "Running", "Blocked", "Committing",
              "Completed", "Failed", "Cancelled"}
Terminal  == {"Completed", "Failed", "Cancelled"}
Owning    == {"Running", "Committing"}

NoWait             == [on |-> "nothing"]
WaitFor(pending)   == [on |-> "dependencies", pending |-> pending]
WaitFree(deficit)  == [on |-> "resources", deficit |-> deficit]

Plus(a, b)  == [r \in Resources |-> a[r] + b[r]]
Minus(a, b) == [r \in Resources |-> a[r] - b[r]]
FitsWithin(a, limit) == \A r \in Resources : a[r] <= limit[r]
Deficit(request, available) ==
  [r \in Resources |-> IF request[r] > available[r] THEN request[r] - available[r] ELSE 0]

(* Mutant: only a direct dependency on oneself is noticed.                 *)
HasSelfDependency(p) == \E w \in Work : w \in p.deps[w]

(***************************************************************************)
(* What `new` accepts.  A dependency cycle is a nonempty set in which      *)
(* every instance depends on another of the set.                           *)
(***************************************************************************)
HasDependencyCycle(p) ==
  \E S \in SUBSET Work : S # {} /\ \A w \in S : p.deps[w] \cap S # {}

Required(p, w) == {i \in p.inputs[w] : ~i.optional}

BoundKinds(p, w, d) == {i.kind : i \in {j \in p.inputs[w] : d \in j.from}} \cap p.outputs[d]

ReservationAccepted(p, w) ==
  LET amount == p.reservation[w] IN
  /\ amount["cpu_slots"] >= 1 + p.nested[w]
  /\ amount["memory_bytes"] > 0
  /\ amount["external_process_slots"] > 0 => amount["io_slots"] > 0
  /\ \A r \in {"cpu_slots", "external_process_slots"} : amount[r] >= p.minimum[w][r]
  /\ FitsWithin(amount, Budget)

DependenciesBound(p, w) ==
  /\ \A d \in p.deps[w] : BoundKinds(p, w, d) # {}
  /\ \A i \in Required(p, w) : \E d \in p.deps[w] \cap i.from : i.kind \in BoundKinds(p, w, d)

Accepts(p) ==
  /\ \A w \in Work : ReservationAccepted(p, w) /\ DependenciesBound(p, w)
  /\ ~HasDependencyCycle(p)

Pending(st, w) == {d \in plan.deps[w] : st[d] # "Completed"}

Init ==
  /\ plan \in {p \in Plans : Accepts(p)}
  /\ state = [w \in Work |-> IF plan.deps[w] = {} THEN "Ready" ELSE "Blocked"]
  /\ wait  = [w \in Work |-> IF plan.deps[w] = {} THEN NoWait ELSE WaitFor(plan.deps[w])]
  /\ allocated = [r \in Resources |-> 0]
  /\ StoreInit

(***************************************************************************)
(* admit_ready scans the instances in id order.  ScanAllocated[i] is the   *)
(* allocation once the first i have been visited.                          *)
(***************************************************************************)
Candidate(w) ==
  \/ state[w] = "Ready"
  \/ state[w] = "Blocked" /\ wait[w].on = "resources"

ScanAllocated[i \in 0 .. N] ==
  IF i = 0 THEN allocated
  ELSE IF /\ Candidate(i)
          /\ FitsWithin(plan.reservation[i], Minus(Budget, ScanAllocated[i-1]))
       THEN Plus(ScanAllocated[i-1], plan.reservation[i])
       ELSE ScanAllocated[i-1]

Available(w) == Minus(Budget, ScanAllocated[w-1])
Admitted     == {w \in Work : Candidate(w) /\ FitsWithin(plan.reservation[w], Available(w))}

AdmitReady ==
  /\ state' = [w \in Work |-> IF w \in Admitted THEN "Running"
                              ELSE IF Candidate(w) THEN "Blocked" ELSE state[w]]
  /\ wait'  = [w \in Work |-> IF w \in Admitted THEN NoWait
                              ELSE IF Candidate(w)
                                   THEN WaitFree(Deficit(plan.reservation[w], Available(w)))
                                   ELSE wait[w]]
  /\ allocated' = ScanAllocated[N]
  /\ UNCHANGED plan
  /\ UNCHANGED storeVars

StageOutputs(w) ==
  /\ state[w] = "Running"
  /\ \E batch \in Batches : StageAccepts(plan.outputs[w], batch) /\ Stage(w, batch)
  /\ state' = [state EXCEPT ![w] = "Committing"]
  /\ UNCHANGED <<plan, wait, allocated>>

(* release: checked_sub never underflows, which is AccountingExact.        *)
Release(w) == allocated' = Minus(allocated, plan.reservation[w])

(* commit ends with refresh_dependency_waiters over w's consumers.         *)
Commit(w) ==
  LET completed == [state EXCEPT ![w] = "Completed"]
      waiters   == {v \in Work : /\ w \in plan.deps[v]
                                 /\ state[v] = "Blocked"
                                 /\ wait[v].on = "dependencies"}
      woken     == {v \in waiters : Pending(completed, v) = {}}
  IN /\ state[w] = "Committing"
     /\ CommitAccepts(w)
     /\ Publish(w)
     /\ Release(w)
     /\ state' = [v \in Work |-> IF v \in woken THEN "Ready" ELSE completed[v]]
     /\ wait'  = [v \in Work |-> IF v \in woken THEN NoWait
                                 ELSE IF v \in waiters THEN WaitFor(Pending(completed, v))
                                 ELSE wait[v]]
     /\ UNCHANGED plan

(* Mutant: only direct consumers are cancelled.                            *)
DirectConsumers(root) == {v \in Work : root \in plan.deps[v] /\ state[v] \notin Terminal}

(* Mutant: independent siblings are cancelled as well.                     *)
AllIdleWork(root) == {v \in Work \ {root} : state[v] \notin Terminal \cup Owning}

(* What cancel_descendants reaches: the least set that holds every live    *)
(* consumer of root and every live consumer of one of its members.         *)
LiveDescendants(root) ==
  LET Closed(S) == \A v \in Work :
                     (state[v] \notin Terminal /\ plan.deps[v] \cap (S \cup {root}) # {})
                       => v \in S
  IN {v \in Work : \A S \in SUBSET Work : Closed(S) => v \in S}

(* set_state on w, then cancel_descendants.                                *)
EndWith(w, to) ==
  LET cancelled == LiveDescendants(w) IN
  /\ state' = [v \in Work |-> IF v = w THEN to
                              ELSE IF v \in cancelled THEN "Cancelled" ELSE state[v]]
  /\ wait'  = [v \in Work |-> IF v = w \/ v \in cancelled THEN NoWait ELSE wait[v]]
  /\ UNCHANGED plan

Fail(w) ==
  /\ state[w] \in Owning
  /\ Discard(w)
  /\ Release(w)
  /\ EndWith(w, "Failed")

(* Mutant: cancelling forgets the reservation of a Committing instance.    *)
CancelReleasesRunningOnly(w) ==
  /\ state[w] \notin Terminal
  /\ Discard(w)
  /\ IF state[w] = "Running" THEN Release(w) ELSE UNCHANGED allocated
  /\ EndWith(w, "Cancelled")

Cancel(w) ==
  /\ state[w] \notin Terminal
  /\ IF state[w] \in Owning
     THEN Discard(w) /\ Release(w)
     ELSE UNCHANGED storeVars /\ UNCHANGED allocated
  /\ EndWith(w, "Cancelled")

Next ==
  \/ AdmitReady
  \/ \E w \in Work : StageOutputs(w) \/ Commit(w) \/ Fail(w) \/ Cancel(w)

Spec == Init /\ [][Next]_vars

-----------------------------------------------------------------------------
(* Properties *)

LiveWork   == {w \in Work : state[w] \notin Terminal}
Done       == {w \in Work : state[w] = "Completed"}
Dead       == {w \in Work : state[w] \in {"Failed", "Cancelled"}}

WaitReason == {NoWait} \cup {WaitFor(pending) : pending \in SUBSET Work}
                       \cup [on : {"resources"}, deficit : Amount]

TypeOK ==
  /\ plan \in PlanType
  /\ state \in [Work -> Lifecycle]
  /\ wait \in [Work -> WaitReason]
  /\ allocated \in Amount
  /\ StoreTypeOK

(* Sum of the reservations of the first i instances that own theirs.       *)
OwnedUpTo[i \in 0 .. N] ==
  IF i = 0 THEN [r \in Resources |-> 0]
  ELSE IF state[i] \in Owning
       THEN Plus(OwnedUpTo[i-1], plan.reservation[i])
       ELSE OwnedUpTo[i-1]

(* The budget ledger is exact: what is allocated is the sum of what the    *)
(* Running and Committing instances reserved, through every admission,     *)
(* commit, failure and cancellation, and stays within the budget.  So      *)
(* ResourceAccountingOverflow cannot be returned.                          *)
AccountingExact == allocated = OwnedUpTo[N] /\ FitsWithin(allocated, Budget)

(* No instance computes before everything it depends on is committed: the  *)
(* debug_assert in cancel_descendants ("a consumer cannot run before       *)
(* commit"), and what lets a cancelled consumer own nothing.               *)
RunsAfterProducers ==
  \A w \in Work : state[w] \in Owning \cup {"Completed"} => plan.deps[w] \subseteq Done

StagedWhileCommitting == \A w \in Work : staged[w] # {} <=> state[w] = "Committing"

(* A batch is staged exactly while its writer is Committing: no failure,   *)
(* cancellation or commit leaves staging behind.  And it can always be     *)
(* published: no other writer can stage or publish different content at    *)
(* one of its targets in between, so commit never returns MissingStaging   *)
(* or ConflictingContent.                                                  *)
CommitNeverRejected ==
  /\ StagedWhileCommitting
  /\ \A w \in Work : state[w] = "Committing" => CommitAccepts(w)

(* dependency_outputs(w): what the callback is handed as inputs.           *)
DependencyOutputs(w) ==
  UNION {{o \in OutputsForWriter(d) : o.target.kind \in BoundKinds(plan, w, d)} :
           d \in plan.deps[w]}

(* A computation that runs is handed every input its work unit requires,   *)
(* and from every producer each bound kind, an optional one too, exactly   *)
(* once.                                                                   *)
InputsDelivered ==
  \A w \in Work : state[w] = "Running" =>
    /\ {i.kind : i \in Required(plan, w)} \subseteq {o.target.kind : o \in DependencyOutputs(w)}
    /\ \A d \in plan.deps[w] : \A k \in BoundKinds(plan, w, d) :
         \E o \in OutputsForWriter(d) :
           o.target.kind = k /\ \A p \in OutputsForWriter(d) : p.target.kind = k => p = o

(* What is staged can be committed, and what was committed arrives: no     *)
(* writer is refused after its batch was taken, and every consumer that    *)
(* runs finds its whole declared input among what earlier commits left.    *)
CommitsDeliver == CommitNeverRejected /\ InputsDelivered

(* No wakeup is lost: an instance waits for dependencies exactly while     *)
(* some of them are uncompleted, its wait reason names exactly those, and  *)
(* all of them can still complete.                                         *)
WaitsForPending ==
  \A w \in LiveWork :
    /\ wait[w].on = "dependencies" <=> Pending(state, w) # {}
    /\ wait[w].on = "dependencies" =>
         state[w] = "Blocked" /\ wait[w].pending = Pending(state, w) /\ wait[w].pending \subseteq LiveWork

(* Failure and cancellation take the whole downstream with them: no        *)
(* consumer of a Failed or Cancelled instance is left alive or completed.  *)
NothingSurvivesUpstream ==
  \A w \in Work : plan.deps[w] \cap Dead # {} => state[w] = "Cancelled"

(* The end of an instance reaches exactly whom it concerns: a completion   *)
(* leaves no consumer waiting for it, a failure or a cancellation none     *)
(* that could still wait for it or run.                                    *)
PropagationExact == WaitsForPending /\ NothingSurvivesUpstream

(* What is published stays: content and first writer of a committed target *)
(* never change, nor do the targets recorded for a writer that committed.  *)
(* ("later same-content writers ... cannot rewrite lineage")               *)
PublicationPermanent ==
  [][/\ \A t \in DOMAIN committed : t \in DOMAIN committed' /\ committed'[t] = committed[t]
     /\ \A w \in Done : w \in Done' /\ committedTargets'[w] = committedTargets[w]]_vars

(* The scheduler implements the abstract execution.                        *)
Execution == INSTANCE GraphPublication WITH
  deps <- plan.deps, outputs <- plan.outputs, done <- Done, dead <- Dead,
  published <- [t \in DOMAIN committed |-> committed[t].content]

ExecutesGraph == Execution!PublicationSpec
=============================================================================
