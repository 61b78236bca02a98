---------------------- MODULE ResourceSchedulerProofs ----------------------
(***************************************************************************)
(* Proofs about ResourceScheduler, for every number of instances, every    *)
(* budget, every set of plans and every set of write batches: its          *)
(* lifecycle and how a failure spreads; what it publishes (commit is never *)
(* refused, a computation is handed all its inputs, what is published      *)
(* stays), and that it implements the abstract execution GraphPublication; *)
(* its budget ledger, which is exact; and its driver, PhysicalWorkGraph,   *)
(* whose report accounts for every instance.                               *)
(***************************************************************************)
EXTENDS PhysicalWorkGraph, FiniteSetTheorems, WellFoundedInduction, NaturalsInduction, TLAPS

-----------------------------------------------------------------------------
(* Facts about functions defined by recursion over 0 .. n, in a form that  *)
(* speaks of sets and functions only, so that they can be cited for the    *)
(* scans and the sums of the models.                                       *)

(* Induction over 0 .. n: a set that holds 0 and is closed under           *)
(* successor up to n holds all of 0 .. n.                                  *)
LEMMA UpToInduction ==
  ASSUME NEW n \in Nat, NEW S,
         0 \in S,
         \A i \in 1 .. n : i - 1 \in S => i \in S
  PROVE  0 .. n \subseteq S
<1> DEFINE R == {ss \in Nat \X Nat : ss[1] < ss[2]}
           T == {i \in 0 .. n : i \notin S}
<1>1. SUFFICES ASSUME T # {} PROVE FALSE
  OBVIOUS
<1>2. IsWellFoundedOn(R, Nat)
  BY NatLessThanWellFounded DEF OpToRel
<1>3. \E m \in T : \A k \in T : ~(<<k, m>> \in R)
  <2> HIDE DEF R
  <2>1. T \subseteq Nat
    OBVIOUS
  <2>2. QED
    BY <1>1, <1>2, <2>1, WFMin
<1>4. PICK m \in T : \A k \in T : ~(<<k, m>> \in R)
  BY <1>3
<1>5. m \in 1 .. n /\ m - 1 \in 0 .. n /\ <<m - 1, m>> \in R
  OBVIOUS
<1>6. m - 1 \in S
  BY <1>4, <1>5
<1>7. QED
  BY <1>5, <1>6

(* f is the recursion over 0 .. n that starts at a and takes step G[i].    *)
Solves(f, n, A, a, G) ==
  /\ f \in [0 .. n -> A]
  /\ f[0] = a
  /\ \A i \in 1 .. n : f[i] = G[i][f[i-1]]

StepsWithin(n, A, G) == \A i \in 1 .. n : G[i] \in [A -> A]

(* A recursion over 0 .. n that starts in A and steps within A has a       *)
(* solution with values in A.                                              *)
LEMMA RecursionExists ==
  ASSUME NEW n \in Nat, NEW A, NEW a \in A, NEW G, StepsWithin(n, A, G)
  PROVE  \E f : Solves(f, n, A, a, G)
<1> DEFINE S == {m \in 0 .. n : \E f : Solves(f, m, A, a, G)}
<1>1. 0 \in S
  <2>1. Solves([i \in 0 .. 0 |-> a], 0, A, a, G)
    BY DEF Solves
  <2>2. QED
    BY <2>1
<1>2. ASSUME NEW m \in 1 .. n, m - 1 \in S
      PROVE  m \in S
  <2>1. PICK f : Solves(f, m - 1, A, a, G)
    BY <1>2
  <2> DEFINE g == [i \in 0 .. m |-> IF i = m THEN G[m][f[m-1]] ELSE f[i]]
  <2>2. g \in [0 .. m -> A]
    BY <2>1 DEF Solves, StepsWithin
  <2>3. g[0] = a
    BY <2>1 DEF Solves
  <2>4. ASSUME NEW i \in 1 .. m PROVE g[i] = G[i][g[i-1]]
    BY <2>1 DEF Solves
  <2>5. Solves(g, m, A, a, G)
    BY <2>2, <2>3, <2>4 DEF Solves
  <2>6. QED
    <3> HIDE DEF g
    <3>1. QED
      BY <2>5
<1>3. QED
  <2> HIDE DEF S
  <2>1. 0 .. n \subseteq S
    BY <1>1, <1>2, UpToInduction
  <2>2. n \in S
    BY <2>1
  <2>3. QED
    BY <2>2 DEF S


IntAmount == [Resources -> Int]

(* TypeOK, with an allocation that is not yet known to be nonnegative.     *)
LooseTypeOK ==
  /\ plan \in PlanType
  /\ state \in [Work -> Lifecycle]
  /\ wait \in [Work -> WaitReason]
  /\ allocated \in IntAmount
  /\ StoreTypeOK

-----------------------------------------------------------------------------
(* The scan of admit_ready *)

ScanStep(i, a) ==
  IF Candidate(i) /\ FitsWithin(plan.reservation[i], Minus(Budget, a))
  THEN Plus(a, plan.reservation[i])
  ELSE a

(* The scan of admit_ready is the recursion it is written as, and its      *)
(* partial allocations are amounts.                                        *)
LEMMA ScanEquation ==
  ASSUME LooseTypeOK
  PROVE  /\ ScanAllocated \in [0 .. N -> IntAmount]
         /\ ScanAllocated[0] = allocated
         /\ \A i \in Work : ScanAllocated[i] = ScanStep(i, ScanAllocated[i-1])
<1> DEFINE G == [i \in Work |-> [a \in IntAmount |-> ScanStep(i, a)]]
           Body(f) == [i \in 0 .. N |-> IF i = 0 THEN allocated ELSE ScanStep(i, f[i-1])]
<1>1. ASSUME NEW i \in Work, NEW a \in IntAmount PROVE ScanStep(i, a) \in IntAmount
  <2>1. plan.reservation[i] \in [Resources -> Nat]
    BY DEF LooseTypeOK, PlanType, Amount
  <2>2. Plus(a, plan.reservation[i]) \in IntAmount
    BY <2>1 DEF Plus, IntAmount
  <2>3. QED
    BY <2>2 DEF ScanStep
<1>2. StepsWithin(N, IntAmount, G)
  BY <1>1 DEF Work, StepsWithin
<1>3. N \in Nat /\ allocated \in IntAmount
  BY StoreAssumption DEF LooseTypeOK
<1>4. \E f : Solves(f, N, IntAmount, allocated, G)
  <2> HIDE DEF G, Body
  <2>1. QED
    BY <1>2, <1>3, RecursionExists
<1>5. \E f : f = Body(f)
  <2>1. PICK f : Solves(f, N, IntAmount, allocated, G)
    BY <1>4
  <2>2. ASSUME NEW i \in 1 .. N PROVE f[i] = ScanStep(i, f[i-1])
    <3>1. f[i] = G[i][f[i-1]] /\ f[i-1] \in IntAmount /\ i \in Work
      <4> HIDE DEF G
      <4>1. QED
        BY <1>3, <2>1 DEF Work, Solves
    <3>2. QED
      BY <3>1
  <2>3. f = Body(f)
    <3> HIDE DEF G
    <3>1. QED
      BY <2>1, <2>2 DEF Solves
  <2>4. QED
    <3> HIDE DEF Body
    <3>1. QED
      BY <2>3
<1>6. ScanAllocated = Body(ScanAllocated)
  BY <1>5 DEF ScanAllocated, ScanStep
<1>7. /\ ScanAllocated[0] = allocated
      /\ \A i \in Work : ScanAllocated[i] = ScanStep(i, ScanAllocated[i-1])
  <2>1. ASSUME NEW f PROVE Body(f)[0] = allocated
    BY <1>3
  <2>2. ASSUME NEW f, NEW i \in 1 .. N PROVE Body(f)[i] = ScanStep(i, f[i-1])
    BY <1>3
  <2>3. QED
    <3> HIDE DEF Body
    <3>1. QED
      BY <1>6, <2>1, <2>2 DEF Work
<1>8. \A i \in 0 .. N : ScanAllocated[i] \in IntAmount
  <2> DEFINE S == {i \in 0 .. N : ScanAllocated[i] \in IntAmount}
  <2>1. 0 \in S
    BY <1>3, <1>7
  <2>2. \A i \in 1 .. N : i - 1 \in S => i \in S
    BY <1>1, <1>7 DEF Work
  <2> HIDE DEF S
  <2>3. 0 .. N \subseteq S
    BY <1>3, <2>1, <2>2, UpToInduction
  <2>4. QED
    BY <2>3 DEF S
<1>9. ScanAllocated \in [0 .. N -> IntAmount]
  BY <1>6, <1>8
<1>10. QED
  BY <1>7, <1>9

-----------------------------------------------------------------------------
(* What cancel_descendants reaches *)

(* Every instance cancel_descendants reaches is live, and every live       *)
(* consumer of the root or of an instance it reaches is reached; nothing   *)
(* else is.                                                                *)
LEMMA DescendantsClosed ==
  ASSUME NEW root \in Work
  PROVE  /\ LiveDescendants(root) \subseteq LiveWork
         /\ \A v \in LiveWork :
              plan.deps[v] \cap (LiveDescendants(root) \cup {root}) # {}
                => v \in LiveDescendants(root)
         /\ \A v \in LiveDescendants(root) :
              plan.deps[v] \cap (LiveDescendants(root) \cup {root}) # {}
<1> DEFINE Closed(S) == \A v \in Work :
                          (state[v] \notin Terminal /\ plan.deps[v] \cap (S \cup {root}) # {})
                            => v \in S
<1>1. LiveDescendants(root) = {v \in Work : \A S \in SUBSET Work : Closed(S) => v \in S}
  BY DEF LiveDescendants
<1>2. Closed(LiveWork) /\ LiveWork \in SUBSET Work
  BY DEF LiveWork
<1>3. LiveDescendants(root) \subseteq LiveWork
  <2> HIDE DEF Closed
  <2>1. QED
    BY <1>1, <1>2
<1>4. ASSUME NEW v \in LiveWork,
             plan.deps[v] \cap (LiveDescendants(root) \cup {root}) # {}
      PROVE  v \in LiveDescendants(root)
  <2>1. v \in Work /\ state[v] \notin Terminal
    BY DEF LiveWork
  <2>2. ASSUME NEW S \in SUBSET Work, Closed(S) PROVE v \in S
    <3>1. LiveDescendants(root) \subseteq S
      <4> HIDE DEF Closed
      <4>1. QED
        BY <1>1, <2>2
    <3>2. plan.deps[v] \cap (S \cup {root}) # {}
      BY <1>4, <3>1
    <3>3. QED
      BY <2>1, <2>2, <3>2
  <2>3. QED
    <3> HIDE DEF Closed
    <3>1. QED
      BY <1>1, <2>1, <2>2
<1>5. ASSUME NEW v \in LiveDescendants(root),
             plan.deps[v] \cap (LiveDescendants(root) \cup {root}) = {}
      PROVE  FALSE
  <2> DEFINE S == LiveDescendants(root) \ {v}
  <2>1. Closed(S)
    <3> SUFFICES ASSUME NEW u \in Work, state[u] \notin Terminal,
                        plan.deps[u] \cap (S \cup {root}) # {}
                 PROVE  u \in S
      OBVIOUS
    <3>1. u \in LiveDescendants(root)
      BY <1>4 DEF LiveWork
    <3>2. u # v
      BY <1>5
    <3>3. QED
      BY <3>1, <3>2
  <2>2. S \in SUBSET Work
    BY <1>3 DEF LiveWork
  <2>3. v \in S
    <3> HIDE DEF S, Closed
    <3>1. QED
      BY <1>1, <2>1, <2>2
  <2>4. QED
    BY <2>3
<1>6. QED
  BY <1>3, <1>4, <1>5

-----------------------------------------------------------------------------
(* The inductive invariant of the lifecycle *)

(* An instance that has left the dependency wait, or ended by itself, has  *)
(* only completed producers.  Ready instances are what RunsAfterProducers  *)
(* lacks to be inductive, and Failed ones what NothingSurvivesUpstream     *)
(* lacks.                                                                  *)
PastDependencies(w) ==
  \/ state[w] \in {"Ready", "Running", "Committing", "Completed", "Failed"}
  \/ state[w] = "Blocked" /\ wait[w].on = "resources"

ProducersDone == \A w \in Work : PastDependencies(w) => plan.deps[w] \subseteq Done

(* Only a Blocked instance has a wait reason, and it has one.              *)
WaitShape ==
  \A w \in Work : state[w] = "Blocked" <=> wait[w].on \in {"dependencies", "resources"}

(* A dependency wait names exactly the uncompleted producers, all live.    *)
WaitAccurate ==
  \A w \in Work :
    wait[w].on = "dependencies" =>
      wait[w].pending = Pending(state, w) /\ wait[w].pending # {}
                                          /\ wait[w].pending \subseteq LiveWork

LifecycleInv ==
  /\ LooseTypeOK
  /\ ProducersDone
  /\ WaitShape
  /\ WaitAccurate
  /\ NothingSurvivesUpstream
  /\ StagedWhileCommitting

(* The three forms of wait reason are distinguished by their field on.     *)
LEMMA WaitForms ==
  /\ NoWait \in WaitReason /\ NoWait.on = "nothing"
  /\ \A p : WaitFor(p).on = "dependencies" /\ WaitFor(p).pending = p
  /\ \A p \in SUBSET Work : WaitFor(p) \in WaitReason
  /\ \A d : WaitFree(d).on = "resources"
  /\ \A d \in Amount : WaitFree(d) \in WaitReason
<1>1. NoWait.on = "nothing"
  BY DEF NoWait
<1>2. ASSUME NEW p PROVE WaitFor(p).on = "dependencies" /\ WaitFor(p).pending = p
  BY DEF WaitFor
<1>3. ASSUME NEW d PROVE WaitFree(d).on = "resources"
  BY DEF WaitFree
<1>4. ASSUME NEW d \in Amount PROVE WaitFree(d) \in [on : {"resources"}, deficit : Amount]
  BY DEF WaitFree
<1>5. NoWait \in WaitReason /\ \A p \in SUBSET Work : WaitFor(p) \in WaitReason
  BY DEF WaitReason
<1>6. \A d \in Amount : WaitFree(d) \in WaitReason
  BY <1>4 DEF WaitReason
<1>7. QED
  BY <1>1, <1>2, <1>3, <1>5, <1>6

(* The instances that new() makes are consistent with their graph: ready if *)
(* they have no producers, else waiting for all of them.                   *)
LEMMA LifecycleInit == Init => LifecycleInv
<1> SUFFICES ASSUME Init PROVE LifecycleInv
  OBVIOUS
<1>1. plan \in PlanType
  BY SchedulerAssumption DEF Init
<1>2. plan.deps \in [Work -> SUBSET Work]
  BY <1>1 DEF PlanType
<1>3. state \in [Work -> {"Ready", "Blocked"}]
  BY DEF Init
<1>4. wait \in [Work -> WaitReason]
  BY <1>2, WaitForms DEF Init
<1>5. StoreTypeOK
  BY DEF Init, StoreInit, StoreTypeOK
<1>6. LooseTypeOK
  BY <1>1, <1>3, <1>4, <1>5 DEF Init, LooseTypeOK, IntAmount, Lifecycle
<1>7. ASSUME NEW w \in Work
      PROVE  \/ state[w] = "Ready" /\ plan.deps[w] = {} /\ wait[w] = NoWait
             \/ state[w] = "Blocked" /\ plan.deps[w] # {} /\ wait[w] = WaitFor(plan.deps[w])
  BY DEF Init
<1>8. Done = {} /\ LiveWork = Work /\ Dead = {}
  BY <1>3 DEF Done, LiveWork, Dead, Terminal
<1>9. ProducersDone
  BY <1>7, WaitForms DEF ProducersDone, PastDependencies
<1>10. WaitShape
  BY <1>7, WaitForms DEF WaitShape
<1>11. WaitAccurate
  <2>1. ASSUME NEW w \in Work PROVE Pending(state, w) = plan.deps[w]
    BY <1>2, <1>3 DEF Pending
  <2>2. QED
    BY <1>2, <1>7, <1>8, <2>1, WaitForms DEF WaitAccurate
<1>12. NothingSurvivesUpstream /\ StagedWhileCommitting
  BY <1>3, <1>8 DEF NothingSurvivesUpstream, StagedWhileCommitting, Init, StoreInit
<1>13. QED
  BY <1>6, <1>9, <1>10, <1>11, <1>12 DEF LifecycleInv

(* admit_ready moves only instances whose producers are all completed, and *)
(* only between the live states.                                           *)
LEMMA LifecycleAdmit == LifecycleInv /\ AdmitReady => LifecycleInv'
<1> SUFFICES ASSUME LifecycleInv, AdmitReady PROVE LifecycleInv'
  OBVIOUS
<1> USE DEF LifecycleInv
<1>1. plan \in PlanType /\ plan' = plan
  BY DEF LooseTypeOK, AdmitReady
<1>2. state \in [Work -> Lifecycle]
  BY DEF LooseTypeOK
<1>3. Admitted \subseteq {w \in Work : Candidate(w)}
  BY DEF Admitted
<1>4. ASSUME NEW w \in Work
      PROVE  \/ w \in Admitted /\ Candidate(w) /\ state'[w] = "Running" /\ wait'[w] = NoWait
             \/ /\ w \notin Admitted /\ Candidate(w) /\ state'[w] = "Blocked"
                /\ wait'[w] = WaitFree(Deficit(plan.reservation[w], Available(w)))
             \/ ~Candidate(w) /\ state'[w] = state[w] /\ wait'[w] = wait[w]
  BY <1>3 DEF AdmitReady
<1>5. /\ ScanAllocated \in [0 .. N -> IntAmount]
      /\ \A w \in Work : Available(w) \in IntAmount
      /\ allocated' \in IntAmount
  <2>1. ScanAllocated \in [0 .. N -> IntAmount]
    BY ScanEquation
  <2>2. ASSUME NEW w \in Work PROVE Available(w) \in IntAmount
    <3>1. w - 1 \in 0 .. N
      BY StoreAssumption DEF Work
    <3>2. ScanAllocated[w-1] \in [Resources -> Int]
      BY <2>1, <3>1 DEF IntAmount
    <3>3. QED
      BY <3>2, SchedulerAssumption DEF Available, Minus, IntAmount, Amount
  <2>3. allocated' \in IntAmount
    BY <2>1, StoreAssumption DEF AdmitReady
  <2>4. QED
    BY <2>1, <2>2, <2>3
<1>6. ASSUME NEW w \in Work
      PROVE  Deficit(plan.reservation[w], Available(w)) \in Amount
  <2>1. plan.reservation[w] \in [Resources -> Nat]
    BY <1>1 DEF PlanType, Amount
  <2>2. Available(w) \in [Resources -> Int]
    BY <1>5 DEF IntAmount
  <2>3. QED
    BY <2>1, <2>2 DEF Deficit, Amount
<1>7. state' \in [Work -> Lifecycle]
  BY <1>2 DEF AdmitReady, Lifecycle
<1>8. wait' \in [Work -> WaitReason]
  <2>1. ASSUME NEW w \in Work PROVE wait'[w] \in WaitReason
    BY <1>4, <1>6, WaitForms DEF LooseTypeOK
  <2>2. QED
    BY <2>1 DEF AdmitReady
<1>9. StoreTypeOK'
  BY DEF LooseTypeOK, StoreTypeOK, AdmitReady, storeVars
<1>10. LooseTypeOK'
  BY <1>1, <1>5, <1>7, <1>8, <1>9 DEF LooseTypeOK
<1>11. Done' = Done /\ LiveWork' = LiveWork /\ Dead' = Dead
  BY <1>4 DEF Done, LiveWork, Dead, Candidate, Terminal
<1>12. ASSUME NEW w \in Work PROVE Pending(state, w)' = Pending(state, w)
  BY <1>1, <1>4 DEF Pending, PlanType, Candidate
<1>13. ASSUME NEW w \in Work, PastDependencies(w)' PROVE PastDependencies(w)
  BY <1>4, <1>13 DEF PastDependencies, Candidate
<1>14. ProducersDone'
  BY <1>1, <1>11, <1>13 DEF ProducersDone
<1>15. WaitShape'
  BY <1>4, WaitForms DEF WaitShape, Candidate
<1>16. WaitAccurate'
  BY <1>4, <1>11, <1>12, WaitForms DEF WaitAccurate, Candidate
<1>17. NothingSurvivesUpstream'
  BY <1>1, <1>4, <1>11 DEF NothingSurvivesUpstream, Candidate
<1>18. StagedWhileCommitting'
  BY <1>4 DEF StagedWhileCommitting, Candidate, AdmitReady, storeVars
<1>19. QED
  BY <1>10, <1>14, <1>15, <1>16, <1>17, <1>18

(* stage_outputs moves one Running instance to Committing, with its batch. *)
LEMMA LifecycleStage ==
  ASSUME LifecycleInv, NEW w \in Work, StageOutputs(w)
  PROVE  LifecycleInv'
<1> USE DEF LifecycleInv
<1>1. /\ plan \in PlanType /\ plan' = plan
      /\ state \in [Work -> Lifecycle] /\ state[w] = "Running"
      /\ state' = [state EXCEPT ![w] = "Committing"]
      /\ wait' = wait /\ allocated' = allocated
      /\ committed' = committed /\ committedTargets' = committedTargets
  BY DEF LooseTypeOK, StageOutputs, Stage
<1>2. PICK batch \in SUBSET Write : batch # {} /\ staged' = [staged EXCEPT ![w] = batch]
  BY SchedulerAssumption DEF StageOutputs, Stage, StageAccepts
<1>3. staged \in [Work -> SUBSET Write]
  BY DEF LooseTypeOK, StoreTypeOK
<1>4. LooseTypeOK'
  <2>1. state' \in [Work -> Lifecycle]
    BY <1>1 DEF Lifecycle
  <2>2. staged' \in [Work -> SUBSET Write]
    BY <1>2, <1>3
  <2>3. StoreTypeOK'
    BY <1>1, <2>2 DEF LooseTypeOK, StoreTypeOK
  <2>4. QED
    BY <1>1, <2>1, <2>3 DEF LooseTypeOK
<1>5. Done' = Done /\ LiveWork' = LiveWork /\ Dead' = Dead
  BY <1>1 DEF Done, LiveWork, Dead, Terminal
<1>6. ASSUME NEW v \in Work PROVE Pending(state, v)' = Pending(state, v)
  BY <1>1 DEF Pending, PlanType
<1>7. ProducersDone'
  BY <1>1, <1>5 DEF ProducersDone, PastDependencies
<1>8. WaitShape' /\ WaitAccurate'
  BY <1>1, <1>5, <1>6 DEF WaitShape, WaitAccurate
<1>9. NothingSurvivesUpstream'
  BY <1>1, <1>5 DEF NothingSurvivesUpstream
<1>10. StagedWhileCommitting'
  BY <1>1, <1>2, <1>3 DEF StagedWhileCommitting
<1>11. QED
  BY <1>4, <1>7, <1>8, <1>9, <1>10

(* A staged target has a content, the one of some write of the batch.      *)
LEMMA ContentForType ==
  ASSUME NEW batch \in SUBSET Write, NEW t \in TargetsOf(batch)
  PROVE  /\ t \in Target
         /\ ContentFor(t, batch) \in Contents
         /\ \E o \in batch : TargetOf(o) = t /\ ContentFor(t, batch) = o.content
<1>1. PICK o \in batch : TargetOf(o) = t
  BY DEF TargetsOf
<1>2. t \in Target
  BY <1>1 DEF TargetOf, Write, Target
<1>3. \E p \in batch : TargetOf(p) = t /\ ContentFor(t, batch) = p.content
  BY <1>1 DEF ContentFor
<1>4. QED
  BY <1>2, <1>3 DEF Write

(* The published batch keeps the store well typed.                         *)
LEMMA PublishType ==
  ASSUME StoreTypeOK, NEW w \in Work, Publish(w)
  PROVE  StoreTypeOK'
<1> DEFINE targets == TargetsOf(staged[w])
<1>1. /\ staged \in [Work -> SUBSET Write]
      /\ committedTargets \in [Work -> SUBSET Target]
  BY DEF StoreTypeOK
<1>2. staged[w] \in SUBSET Write
  BY <1>1
<1>3. \A t \in targets : t \in Target /\ ContentFor(t, staged[w]) \in Contents
  BY <1>2, ContentForType
<1>4. committed' = [t \in DOMAIN committed \cup targets |->
                      IF t \in DOMAIN committed
                      THEN committed[t]
                      ELSE [content |-> ContentFor(t, staged[w]), writer |-> w]]
  BY DEF Publish
<1>5. DOMAIN committed' = DOMAIN committed \cup targets
  BY <1>4
<1>6. ASSUME NEW t \in DOMAIN committed'
      PROVE  committed'[t] \in [content : Contents, writer : Work]
  <2> HIDE DEF targets
  <2>1. CASE t \in DOMAIN committed
    BY <1>4, <2>1 DEF StoreTypeOK
  <2>2. CASE t \notin DOMAIN committed
    <3>1. t \in targets
      BY <1>5, <2>2
    <3>2. committed'[t] = [content |-> ContentFor(t, staged[w]), writer |-> w]
      BY <1>4, <2>2, <3>1
    <3>3. QED
      BY <1>3, <3>1, <3>2
  <2>3. QED
    BY <2>1, <2>2
<1>7. committed' = [t \in DOMAIN committed' |-> committed'[t]]
  <2> HIDE DEF targets
  <2>1. QED
    BY <1>4
<1>8. staged' \in [Work -> SUBSET Write] /\ committedTargets' \in [Work -> SUBSET Target]
  BY <1>1, <1>3 DEF Publish
<1>9. DOMAIN committed' \subseteq Target
  BY <1>3, <1>5 DEF StoreTypeOK
<1>10. QED
  BY <1>6, <1>7, <1>8, <1>9 DEF StoreTypeOK

(* commit completes one Committing instance, wakes the consumers that have *)
(* no other uncompleted producer and refreshes the waits of the others.    *)
LEMMA LifecycleCommit ==
  ASSUME LifecycleInv, NEW w \in Work, Commit(w)
  PROVE  LifecycleInv'
<1> USE DEF LifecycleInv
<1> DEFINE completed == [state EXCEPT ![w] = "Completed"]
           waiters   == {v \in Work : /\ w \in plan.deps[v]
                                      /\ state[v] = "Blocked"
                                      /\ wait[v].on = "dependencies"}
           woken     == {v \in waiters : Pending(completed, v) = {}}
<1>1. /\ plan \in PlanType /\ plan' = plan
      /\ state \in [Work -> Lifecycle] /\ state[w] = "Committing"
      /\ wait \in [Work -> WaitReason]
      /\ staged \in [Work -> SUBSET Write]
  BY DEF LooseTypeOK, StoreTypeOK, Commit
<1>2. /\ state' = [v \in Work |-> IF v \in woken THEN "Ready" ELSE completed[v]]
      /\ wait'  = [v \in Work |-> IF v \in woken THEN NoWait
                                  ELSE IF v \in waiters THEN WaitFor(Pending(completed, v))
                                  ELSE wait[v]]
  BY DEF Commit
<1>3. woken \subseteq waiters /\ waiters \subseteq Work /\ w \notin waiters
  BY <1>1
<1>4. ASSUME NEW v \in Work
      PROVE  state'[v] = IF v \in woken THEN "Ready" ELSE IF v = w THEN "Completed" ELSE state[v]
  <2> HIDE DEF woken
  <2>1. QED
    BY <1>1, <1>2
<1>5. plan.deps \in [Work -> SUBSET Work]
  BY <1>1 DEF PlanType
<1>6. ASSUME NEW v \in waiters PROVE v \in Work /\ state[v] = "Blocked"
                                     /\ wait[v].on = "dependencies" /\ w \in plan.deps[v]
  OBVIOUS
<1>7. Done' = Done \cup {w} /\ LiveWork' = LiveWork \ {w} /\ Dead' = Dead
  <2> HIDE DEF woken, waiters, completed
  <2>1. QED
    BY <1>1, <1>3, <1>4, <1>6 DEF Done, LiveWork, Dead, Terminal
<1>8. ASSUME NEW v \in Work
      PROVE  /\ Pending(state, v)' = Pending(completed, v)
             /\ Pending(completed, v) = Pending(state, v) \ {w}
  <2>1. Pending(completed, v) = Pending(state, v) \ {w}
    BY <1>1, <1>5 DEF Pending
  <2>2. Pending(state, v)' = {d \in plan.deps[v] : state'[d] # "Completed"}
    BY <1>1 DEF Pending
  <2>3. \A d \in plan.deps[v] : state'[d] # "Completed" <=> completed[d] # "Completed"
    <3> HIDE DEF woken, waiters
    <3>1. QED
      BY <1>1, <1>3, <1>4, <1>5, <1>6
  <2>4. QED
    <3> HIDE DEF completed
    <3>1. QED
      BY <2>1, <2>2, <2>3 DEF Pending
<1>9. ASSUME NEW v \in Work
      PROVE  \/ v \in woken /\ v \in waiters /\ wait'[v] = NoWait
             \/ v \notin woken /\ v \in waiters /\ wait'[v] = WaitFor(Pending(state, v)')
             \/ v \notin woken /\ v \notin waiters /\ wait'[v] = wait[v]
  <2> HIDE DEF woken, waiters, completed
  <2>1. QED
    BY <1>2, <1>3, <1>8
<1>10. LooseTypeOK'
  <2>1. state' \in [Work -> Lifecycle]
    <3> HIDE DEF woken
    <3>1. QED
      BY <1>1, <1>2 DEF Lifecycle
  <2>2. wait' \in [Work -> WaitReason]
    <3>1. \A v \in Work : Pending(completed, v) \in SUBSET Work
      BY <1>5 DEF Pending
    <3>2. QED
      <4> HIDE DEF woken, waiters, completed
      <4>1. QED
        BY <1>1, <1>2, <3>1, WaitForms
  <2>3. allocated' \in IntAmount
    <3>1. plan.reservation[w] \in [Resources -> Nat]
      BY <1>1 DEF PlanType, Amount
    <3>2. QED
      BY <3>1 DEF Commit, Release, Minus, LooseTypeOK, IntAmount
  <2>4. StoreTypeOK'
    BY PublishType DEF Commit, LooseTypeOK
  <2>5. QED
    BY <1>1, <2>1, <2>2, <2>3, <2>4 DEF LooseTypeOK
<1>11. ProducersDone'
  <2> SUFFICES ASSUME NEW v \in Work, PastDependencies(v)' PROVE plan.deps[v] \subseteq Done'
    BY <1>1 DEF ProducersDone
  <2>1. CASE v \in woken
    <3>1. Pending(completed, v) = {} /\ plan.deps[v] \subseteq Work
      BY <1>5, <2>1
    <3>2. \A d \in plan.deps[v] : d = w \/ state[d] = "Completed"
      BY <1>1, <3>1 DEF Pending
    <3>3. QED
      BY <1>7, <3>1, <3>2 DEF Done
  <2>2. CASE v \notin woken
    <3>1. PastDependencies(v)
      <4> HIDE DEF woken, waiters, completed
      <4>1. QED
        BY <1>1, <1>4, <1>9, <2>2, WaitForms DEF PastDependencies
    <3>2. QED
      BY <1>7, <3>1 DEF ProducersDone
  <2>3. QED
    BY <2>1, <2>2
<1>12. WaitShape'
  <2> HIDE DEF woken, waiters, completed
  <2>1. QED
    BY <1>1, <1>3, <1>4, <1>6, <1>9, WaitForms DEF WaitShape
<1>13. WaitAccurate'
  <2> SUFFICES ASSUME NEW v \in Work, wait'[v].on = "dependencies"
               PROVE  /\ wait'[v].pending = Pending(state, v)'
                      /\ wait'[v].pending # {}
                      /\ wait'[v].pending \subseteq LiveWork'
    BY DEF WaitAccurate
  <2>1. v \notin woken
    <3> HIDE DEF woken, waiters, completed
    <3>1. QED
      BY <1>9, WaitForms
  <2>2. Pending(state, v)' = Pending(state, v) \ {w}
    BY <1>8
  <2>3. CASE v \in waiters
    <3>1. Pending(state, v)' # {}
      BY <1>8, <2>1, <2>3
    <3>2. Pending(state, v) \subseteq LiveWork
      BY <2>3 DEF WaitAccurate
    <3>3. wait'[v] = WaitFor(Pending(state, v)')
      <4> HIDE DEF woken, waiters, completed
      <4>1. QED
        BY <1>9, <2>1, <2>3
    <3>4. QED
      <4> HIDE DEF woken, waiters, completed
      <4>1. QED
        BY <1>7, <2>2, <3>1, <3>2, <3>3, WaitForms
  <2>4. CASE v \notin waiters
    <3>1. wait'[v] = wait[v]
      <4> HIDE DEF woken, waiters, completed
      <4>1. QED
        BY <1>9, <2>1, <2>4
    <3>2. state[v] = "Blocked" /\ wait[v].pending = Pending(state, v)
          /\ wait[v].pending # {} /\ wait[v].pending \subseteq LiveWork
      BY <3>1 DEF WaitAccurate, WaitShape
    <3>3. w \notin plan.deps[v]
      BY <2>4, <3>1, <3>2
    <3>4. w \notin Pending(state, v)
      BY <3>3 DEF Pending
    <3>5. QED
      <4> HIDE DEF woken, waiters, completed
      <4>1. QED
        BY <1>7, <2>2, <3>1, <3>2, <3>4
  <2>5. QED
    BY <2>3, <2>4
<1>14. NothingSurvivesUpstream'
  <2> SUFFICES ASSUME NEW v \in Work, plan.deps[v] \cap Dead # {} PROVE state'[v] = "Cancelled"
    BY <1>1, <1>7 DEF NothingSurvivesUpstream
  <2>1. state[v] = "Cancelled"
    BY DEF NothingSurvivesUpstream
  <2>2. QED
    <3> HIDE DEF woken, waiters, completed
    <3>1. QED
      BY <1>1, <1>3, <1>4, <1>6, <2>1
<1>15. StagedWhileCommitting'
  <2>1. staged' = [staged EXCEPT ![w] = {}]
    BY DEF Commit, Publish
  <2>2. QED
    <3> HIDE DEF woken, waiters, completed
    <3>1. QED
      BY <1>1, <1>3, <1>4, <1>6, <2>1 DEF StagedWhileCommitting
<1>16. QED
  BY <1>10, <1>11, <1>12, <1>13, <1>14, <1>15

(* Ending an instance by failure or cancellation, and cancelling what lies *)
(* downstream of it, keeps the lifecycle consistent.  Its staging is gone  *)
(* and only an instance that ran can fail.                                 *)
LEMMA LifecycleEnd ==
  ASSUME LifecycleInv, NEW w \in Work, NEW to \in {"Failed", "Cancelled"},
         state[w] \notin Terminal, to = "Failed" => state[w] \in Owning,
         EndWith(w, to), staged' = [staged EXCEPT ![w] = {}],
         committed' = committed, committedTargets' = committedTargets,
         allocated' \in IntAmount
  PROVE  LifecycleInv'
<1> USE DEF LifecycleInv
<1> DEFINE D == LiveDescendants(w)
<1>1. /\ plan \in PlanType /\ plan' = plan
      /\ state \in [Work -> Lifecycle]
      /\ wait \in [Work -> WaitReason]
      /\ staged \in [Work -> SUBSET Write]
      /\ plan.deps \in [Work -> SUBSET Work]
  BY DEF LooseTypeOK, StoreTypeOK, EndWith, PlanType
<1>2. /\ D \subseteq LiveWork
      /\ \A v \in LiveWork : plan.deps[v] \cap (D \cup {w}) # {} => v \in D
      /\ \A v \in D : plan.deps[v] \cap (D \cup {w}) # {}
  BY DescendantsClosed
<1>3. /\ state' = [v \in Work |-> IF v = w THEN to
                                  ELSE IF v \in D THEN "Cancelled" ELSE state[v]]
      /\ wait'  = [v \in Work |-> IF v = w \/ v \in D THEN NoWait ELSE wait[v]]
  BY DEF EndWith
<1> HIDE DEF D
<1>4. w \in LiveWork
  BY DEF LiveWork
<1>5. Done' = Done /\ LiveWork' = LiveWork \ (D \cup {w}) /\ Dead' = Dead \cup D \cup {w}
  <2>1. Done' = Done
    BY <1>1, <1>2, <1>3, <1>4 DEF Done, LiveWork, Terminal
  <2>2. LiveWork' = LiveWork \ (D \cup {w})
    BY <1>1, <1>2, <1>3, <1>4 DEF LiveWork, Terminal
  <2>3. Dead' = Dead \cup D \cup {w}
    BY <1>1, <1>2, <1>3, <1>4 DEF Dead, LiveWork
  <2>4. QED
    BY <2>1, <2>2, <2>3
<1>6. ASSUME NEW v \in LiveWork, v \notin D
      PROVE  plan.deps[v] \cap (D \cup {w}) = {}
  BY <1>2, <1>6
<1>7. ASSUME NEW v \in Work PROVE Pending(state, v)' = Pending(state, v)
  BY <1>1, <1>2, <1>3, <1>4 DEF Pending, LiveWork, Terminal
<1>8. LooseTypeOK'
  <2>1. state' \in [Work -> Lifecycle]
    BY <1>1, <1>3 DEF Lifecycle
  <2>2. wait' \in [Work -> WaitReason]
    BY <1>1, <1>3, WaitForms
  <2>3. staged' \in [Work -> SUBSET Write]
    BY <1>1
  <2>4. StoreTypeOK'
    BY <2>3 DEF LooseTypeOK, StoreTypeOK
  <2>5. QED
    BY <1>1, <2>1, <2>2, <2>4 DEF LooseTypeOK
<1>9. ProducersDone'
  <2> SUFFICES ASSUME NEW v \in Work, PastDependencies(v)' PROVE plan.deps[v] \subseteq Done
    BY <1>1, <1>5 DEF ProducersDone
  <2>1. PastDependencies(v)
    <3>1. CASE v = w
      BY <1>1, <1>3, <3>1 DEF PastDependencies, Owning
    <3>2. CASE v # w
      BY <1>3, <3>2 DEF PastDependencies
    <3>3. QED
      BY <3>1, <3>2
  <2>2. QED
    BY <2>1 DEF ProducersDone
<1>10. WaitShape'
  BY <1>3, WaitForms DEF WaitShape
<1>11. WaitAccurate'
  <2> SUFFICES ASSUME NEW v \in Work, wait'[v].on = "dependencies"
               PROVE  /\ wait'[v].pending = Pending(state, v)'
                      /\ wait'[v].pending # {}
                      /\ wait'[v].pending \subseteq LiveWork'
    BY DEF WaitAccurate
  <2>1. v # w /\ v \notin D /\ wait'[v] = wait[v]
    BY <1>3, WaitForms
  <2>2. state[v] = "Blocked" /\ wait[v].pending = Pending(state, v)
        /\ wait[v].pending # {} /\ wait[v].pending \subseteq LiveWork
    BY <2>1 DEF WaitAccurate, WaitShape
  <2>3. v \in LiveWork
    BY <2>2 DEF LiveWork, Terminal
  <2>4. Pending(state, v) \cap (D \cup {w}) = {}
    BY <1>6, <2>1, <2>3 DEF Pending
  <2>5. QED
    BY <1>5, <1>7, <2>1, <2>2, <2>4
<1>12. NothingSurvivesUpstream'
  <2> SUFFICES ASSUME NEW v \in Work, plan.deps[v] \cap (Dead \cup D \cup {w}) # {}
               PROVE  state'[v] = "Cancelled"
    BY <1>1, <1>5 DEF NothingSurvivesUpstream
  <2>1. CASE plan.deps[v] \cap Dead # {}
    BY <1>3, <1>4, <2>1 DEF NothingSurvivesUpstream, LiveWork, Terminal
  <2>2. CASE plan.deps[v] \cap (D \cup {w}) # {}
    <3>1. ~(plan.deps[v] \subseteq Done)
      BY <1>2, <1>4, <2>2 DEF Done, LiveWork, Terminal
    <3>2. ~PastDependencies(v)
      BY <3>1 DEF ProducersDone
    <3>3. CASE v \in LiveWork
      <4>1. v \in D
        BY <1>2, <2>2, <3>3
      <4>2. v = w => to = "Cancelled"
        BY <3>2 DEF PastDependencies, Owning
      <4>3. QED
        BY <1>3, <4>1, <4>2
    <3>4. CASE v \notin LiveWork
      BY <1>1, <1>3, <1>4, <3>2, <3>4 DEF LiveWork, Terminal, PastDependencies
    <3>5. QED
      BY <3>3, <3>4
  <2>3. QED
    BY <2>1, <2>2
<1>13. StagedWhileCommitting'
  <2>1. ASSUME NEW v \in D PROVE state[v] # "Committing"
    <3>1. v \in Work /\ ~(plan.deps[v] \subseteq Done)
      BY <1>2, <1>4 DEF Done, LiveWork, Terminal
    <3>2. QED
      BY <3>1 DEF ProducersDone, PastDependencies
  <2>2. QED
    BY <1>1, <1>3, <2>1 DEF StagedWhileCommitting
<1>14. QED
  BY <1>8, <1>9, <1>10, <1>11, <1>12, <1>13

(* fail ends an owner as Failed, with its descendants.                     *)
LEMMA LifecycleFail ==
  ASSUME LifecycleInv, NEW w \in Work, Fail(w)
  PROVE  LifecycleInv'
<1>1. plan.reservation[w] \in [Resources -> Nat] /\ allocated \in [Resources -> Int]
  BY DEF LifecycleInv, LooseTypeOK, PlanType, Amount, IntAmount
<1>2. allocated' \in IntAmount
  BY <1>1 DEF Fail, Release, Minus, IntAmount
<1>3. QED
  BY <1>2, LifecycleEnd DEF Fail, Discard, Owning, Terminal

(* cancel ends any live instance as Cancelled, with its descendants.       *)
LEMMA LifecycleCancel ==
  ASSUME LifecycleInv, NEW w \in Work, Cancel(w)
  PROVE  LifecycleInv'
<1>1. plan.reservation[w] \in [Resources -> Nat] /\ allocated \in [Resources -> Int]
  BY DEF LifecycleInv, LooseTypeOK, PlanType, Amount, IntAmount
<1>2. allocated' \in IntAmount
  BY <1>1 DEF Cancel, Release, Minus, IntAmount
<1>3. /\ staged' = [staged EXCEPT ![w] = {}]
      /\ committed' = committed /\ committedTargets' = committedTargets
  <2>1. CASE state[w] \in Owning
    BY <2>1 DEF Cancel, Discard
  <2>2. CASE state[w] \notin Owning
    <3>1. staged[w] = {}
      BY <2>2 DEF LifecycleInv, StagedWhileCommitting, Owning
    <3>2. staged \in [Work -> SUBSET Write]
      BY DEF LifecycleInv, LooseTypeOK, StoreTypeOK
    <3>3. QED
      BY <2>2, <3>1, <3>2 DEF Cancel, storeVars
  <2>3. QED
    BY <2>1, <2>2
<1>4. QED
  BY <1>2, <1>3, LifecycleEnd DEF Cancel, Terminal

-----------------------------------------------------------------------------
(* The theorems *)

(* The lifecycle invariant holds in every reachable state.                 *)
THEOREM LifecycleInvariant == Spec => []LifecycleInv
<1>1. LifecycleInv /\ [Next]_vars => LifecycleInv'
  <2> SUFFICES ASSUME LifecycleInv, [Next]_vars PROVE LifecycleInv'
    OBVIOUS
  <2>1. CASE AdmitReady
    BY <2>1, LifecycleAdmit
  <2>2. ASSUME NEW w \in Work, StageOutputs(w) PROVE LifecycleInv'
    BY <2>2, LifecycleStage
  <2>3. ASSUME NEW w \in Work, Commit(w) PROVE LifecycleInv'
    BY <2>3, LifecycleCommit
  <2>4. ASSUME NEW w \in Work, Fail(w) PROVE LifecycleInv'
    BY <2>4, LifecycleFail
  <2>5. ASSUME NEW w \in Work, Cancel(w) PROVE LifecycleInv'
    BY <2>5, LifecycleCancel
  <2>6. CASE UNCHANGED vars
    <3>1. /\ plan' = plan /\ state' = state /\ wait' = wait /\ allocated' = allocated
          /\ staged' = staged /\ committed' = committed
          /\ committedTargets' = committedTargets
      BY <2>6 DEF vars
    <3>2. LooseTypeOK'
      BY <3>1 DEF LifecycleInv, LooseTypeOK, StoreTypeOK
    <3>3. ProducersDone' /\ WaitShape' /\ NothingSurvivesUpstream' /\ StagedWhileCommitting'
      BY <3>1 DEF LifecycleInv, ProducersDone, PastDependencies, Done, Dead,
                  WaitShape, NothingSurvivesUpstream, StagedWhileCommitting
    <3>4. WaitAccurate'
      BY <3>1 DEF LifecycleInv, WaitAccurate, Pending, LiveWork
    <3>5. QED
      BY <3>2, <3>3, <3>4 DEF LifecycleInv
  <2>7. QED
    BY <2>1, <2>2, <2>3, <2>4, <2>5, <2>6 DEF Next
<1>2. QED
  BY <1>1, LifecycleInit, PTL DEF Spec

(* No instance computes before its producers are committed: the assertion  *)
(* in cancel_descendants can never fail, whatever the calls.               *)
THEOREM RunsAfterProducersHolds == Spec => []RunsAfterProducers
<1>1. LifecycleInv => RunsAfterProducers
  BY DEF LifecycleInv, ProducersDone, PastDependencies, RunsAfterProducers, Owning
<1>2. QED
  BY <1>1, LifecycleInvariant, PTL

(* Failure and cancellation take the whole downstream with them.           *)
THEOREM NothingSurvivesUpstreamHolds == Spec => []NothingSurvivesUpstream
<1>1. LifecycleInv => NothingSurvivesUpstream
  BY DEF LifecycleInv
<1>2. QED
  BY <1>1, LifecycleInvariant, PTL

(* Staging exists exactly while its writer is Committing.                  *)
THEOREM StagedWhileCommittingHolds == Spec => []StagedWhileCommitting
<1>1. LifecycleInv => StagedWhileCommitting
  BY DEF LifecycleInv
<1>2. QED
  BY <1>1, LifecycleInvariant, PTL

(* No wakeup is lost: an instance waits for dependencies exactly while it  *)
(* has uncompleted ones, all of which can still complete.                  *)
THEOREM WaitsForPendingHolds == Spec => []WaitsForPending
<1>1. LifecycleInv => WaitsForPending
  <2> SUFFICES ASSUME LifecycleInv, NEW w \in LiveWork
               PROVE  /\ wait[w].on = "dependencies" <=> Pending(state, w) # {}
                      /\ wait[w].on = "dependencies" =>
                           /\ state[w] = "Blocked"
                           /\ wait[w].pending = Pending(state, w)
                           /\ wait[w].pending \subseteq LiveWork
    BY DEF WaitsForPending
  <2>1. w \in Work /\ state[w] \in {"Ready", "Running", "Blocked", "Committing"}
    BY DEF LifecycleInv, LooseTypeOK, LiveWork, Lifecycle, Terminal
  <2>2. CASE wait[w].on = "dependencies"
    BY <2>1, <2>2 DEF LifecycleInv, WaitAccurate, WaitShape
  <2>3. CASE wait[w].on # "dependencies"
    <3>1. PastDependencies(w)
      BY <2>1, <2>3 DEF LifecycleInv, WaitShape, PastDependencies
    <3>2. Pending(state, w) = {}
      BY <2>1, <3>1 DEF LifecycleInv, ProducersDone, Pending, Done
    <3>3. QED
      BY <2>3, <3>2
  <2>4. QED
    BY <2>2, <2>3
<1>2. QED
  BY <1>1, LifecycleInvariant, PTL

(* The end of an instance reaches exactly whom it concerns.                *)
THEOREM PropagationExactHolds == Spec => []PropagationExact
<1>1. WaitsForPending /\ NothingSurvivesUpstream => PropagationExact
  BY DEF PropagationExact
<1>2. QED
  BY <1>1, WaitsForPendingHolds, NothingSurvivesUpstreamHolds, PTL

-----------------------------------------------------------------------------
(* The inductive invariant of the store *)

(* Whatever is staged at a target has the content published there, if any, *)
(* and the content every other writer has staged there.                    *)
StagedAgree ==
  \A v \in Work : \A o \in staged[v] :
    /\ TargetOf(o) \in DOMAIN committed => committed[TargetOf(o)].content = o.content
    /\ \A w \in Work : \A p \in staged[w] : TargetOf(p) = TargetOf(o) => p.content = o.content

(* A set of targets or writes that carries exactly the given kinds, one    *)
(* each.                                                                   *)
Whole(items, kinds) ==
  /\ kinds = {i.kind : i \in items}
  /\ \A i, j \in items : i.kind = j.kind => i = j

StagedWhole == \A w \in Work : state[w] = "Committing" => Whole(staged[w], plan.outputs[w])

PublishedWhole ==
  \A w \in Done : /\ committedTargets[w] \subseteq DOMAIN committed
                  /\ Whole(committedTargets[w], plan.outputs[w])

PlanBound == \A w \in Work : DependenciesBound(plan, w)

PublicationInv == StagedAgree /\ StagedWhole /\ PublishedWhole /\ PlanBound

(* A staged batch is well typed, and its targets are targets.              *)
LEMMA BatchTypes ==
  ASSUME StoreTypeOK, NEW w \in Work
  PROVE  /\ staged[w] \in SUBSET Write
         /\ \A o \in staged[w] : /\ TargetOf(o) \in Target
                                 /\ TargetOf(o).kind = o.kind
                                 /\ o.kind \in Kinds
                                 /\ o.content \in Contents
<1>1. staged[w] \in SUBSET Write
  BY DEF StoreTypeOK
<1>2. QED
  BY <1>1 DEF Write, Target, TargetOf

(* The targets of a whole batch are whole, and hold its contents.          *)
LEMMA WholeTargets ==
  ASSUME NEW batch \in SUBSET Write, NEW kinds, Whole(batch, kinds)
  PROVE  /\ Whole(TargetsOf(batch), kinds)
         /\ \A o \in batch : TargetOf(o) \in TargetsOf(batch) /\ ContentFor(TargetOf(o), batch) = o.content
<1>1. \A o \in batch : TargetOf(o).kind = o.kind
  BY DEF TargetOf
<1>2. kinds = {t.kind : t \in TargetsOf(batch)}
  BY <1>1 DEF TargetsOf, Whole
<1>3. \A s, t \in TargetsOf(batch) : s.kind = t.kind => s = t
  BY <1>1 DEF TargetsOf, Whole
<1>4. ASSUME NEW o \in batch PROVE ContentFor(TargetOf(o), batch) = o.content
  <2>1. \A p \in batch : TargetOf(p) = TargetOf(o) => p = o
    BY <1>1 DEF Whole
  <2>2. QED
    BY <2>1 DEF ContentFor
<1>5. QED
  BY <1>2, <1>3, <1>4 DEF Whole, TargetsOf

(* Nothing that is staged conflicts.                                       *)
LEMMA AgreementAccepts ==
  ASSUME StagedAgree, NEW w \in Work
  PROVE  \A o \in staged[w] : ~Conflicts(o)
<1> SUFFICES ASSUME NEW o \in staged[w], NEW c \in ExistingContents(TargetOf(o))
             PROVE  c = o.content
  BY DEF Conflicts
<1>1. CASE TargetOf(o) \in DOMAIN committed
  BY <1>1 DEF ExistingContents, StagedAgree
<1>2. CASE TargetOf(o) \notin DOMAIN committed
  BY <1>2 DEF ExistingContents, StagedAgree
<1>3. QED
  BY <1>1, <1>2

(* The store of new() is empty.                                            *)
LEMMA PublicationInit == Init => PublicationInv
<1> SUFFICES ASSUME Init PROVE PublicationInv
  OBVIOUS
<1>1. StagedAgree
  BY DEF Init, StoreInit, StagedAgree
<1>2. \A w \in Work : state[w] \in {"Ready", "Blocked"}
  BY DEF Init
<1>3. StagedWhole /\ PublishedWhole
  BY <1>2 DEF StagedWhole, PublishedWhole, Done
<1>4. PlanBound
  BY DEF Init, Accepts, PlanBound
<1>5. QED
  BY <1>1, <1>3, <1>4 DEF PublicationInv

(* A batch that stage accepts agrees with the store: a published target    *)
(* already has the content that is staged there, and otherwise the batch   *)
(* has been compared with all that is staged.                              *)
LEMMA PublicationStage ==
  ASSUME LifecycleInv, PublicationInv, NEW w \in Work, StageOutputs(w)
  PROVE  PublicationInv'
<1>1. PICK batch \in Batches : StageAccepts(plan.outputs[w], batch) /\ Stage(w, batch)
  BY DEF StageOutputs
<1>2. /\ plan' = plan /\ committed' = committed /\ committedTargets' = committedTargets
      /\ state' = [state EXCEPT ![w] = "Committing"] /\ state[w] = "Running"
      /\ staged' = [staged EXCEPT ![w] = batch]
  BY <1>1 DEF StageOutputs, Stage
<1>3. staged \in [Work -> SUBSET Write] /\ state \in [Work -> Lifecycle] /\ batch \in SUBSET Write
  BY SchedulerAssumption DEF LifecycleInv, LooseTypeOK, StoreTypeOK
<1>4. StagedAgree'
  <2>1. staged[w] = {}
    BY <1>2 DEF LifecycleInv, StagedWhileCommitting
  <2>2. \A v \in Work : staged'[v] = IF v = w THEN batch ELSE staged[v]
    BY <1>2, <1>3
  <2>3. \A o \in batch : TargetOf(o) \in DOMAIN committed => committed[TargetOf(o)].content = o.content
    BY <1>1 DEF StageAccepts, Conflicts, ExistingContents
  <2>4. ASSUME NEW o \in batch, NEW v \in Work, NEW p \in staged[v], TargetOf(p) = TargetOf(o)
        PROVE  p.content = o.content
    <3>1. CASE TargetOf(o) \in DOMAIN committed
      BY <2>3, <2>4, <3>1 DEF PublicationInv, StagedAgree
    <3>2. CASE TargetOf(o) \notin DOMAIN committed
      <4>1. p \in {s \in UNION {staged[u] : u \in Work} : TargetOf(s) = TargetOf(o)}
        BY <2>4
      <4>2. p.content \in ExistingContents(TargetOf(o))
        BY <3>2, <4>1 DEF ExistingContents
      <4>3. ~Conflicts(o)
        BY <1>1 DEF StageAccepts
      <4>4. QED
        BY <4>2, <4>3 DEF Conflicts
    <3>3. QED
      BY <3>1, <3>2
  <2>5. \A o, p \in batch : TargetOf(p) = TargetOf(o) => p.content = o.content
    BY <1>1 DEF StageAccepts, TargetOf
  <2>6. ASSUME NEW v \in Work, NEW o \in staged'[v]
        PROVE  /\ TargetOf(o) \in DOMAIN committed => committed[TargetOf(o)].content = o.content
               /\ \A u \in Work : \A p \in staged'[u] :
                    TargetOf(p) = TargetOf(o) => p.content = o.content
    BY <2>2, <2>3, <2>4, <2>5 DEF PublicationInv, StagedAgree
  <2>7. QED
    BY <1>2, <2>6 DEF StagedAgree
<1>5. StagedWhole'
  <2>1. Whole(batch, plan.outputs[w])
    BY <1>1 DEF StageAccepts, Whole
  <2>2. QED
    BY <1>2, <1>3, <2>1 DEF PublicationInv, StagedWhole
<1>6. Done' = Done
  BY <1>2, <1>3 DEF Done
<1>7. PublishedWhole' /\ PlanBound'
  BY <1>2, <1>6 DEF PublicationInv, PublishedWhole, PlanBound
<1>8. QED
  BY <1>4, <1>5, <1>7 DEF PublicationInv

(* What commit changes: one instance becomes Completed, its targets are    *)
(* published, and each of them then holds its staged content.              *)
LEMMA CommitEffect ==
  ASSUME LifecycleInv, PublicationInv, NEW w \in Work, Commit(w)
  PROVE  /\ plan' = plan
         /\ state[w] = "Committing" /\ w \notin Done
         /\ Done' = Done \cup {w}
         /\ \A v \in Work : state'[v] = "Committing" => v # w /\ state[v] = "Committing"
         /\ staged' = [staged EXCEPT ![w] = {}]
         /\ committedTargets' = [committedTargets EXCEPT ![w] = TargetsOf(staged[w])]
         /\ DOMAIN committed' = DOMAIN committed \cup TargetsOf(staged[w])
         /\ \A t \in DOMAIN committed : committed'[t] = committed[t]
         /\ \A o \in staged[w] : committed'[TargetOf(o)].content = o.content
<1>1. /\ plan' = plan /\ state[w] = "Committing" /\ Publish(w)
      /\ \E woken \in SUBSET Work :
           /\ \A v \in woken : state[v] = "Blocked"
           /\ state' = [v \in Work |-> IF v \in woken THEN "Ready"
                                       ELSE [state EXCEPT ![w] = "Completed"][v]]
  <2> DEFINE completed == [state EXCEPT ![w] = "Completed"]
             waiters   == {v \in Work : /\ w \in plan.deps[v]
                                        /\ state[v] = "Blocked"
                                        /\ wait[v].on = "dependencies"}
             woken     == {v \in waiters : Pending(completed, v) = {}}
  <2>1. state' = [v \in Work |-> IF v \in woken THEN "Ready" ELSE completed[v]]
    BY DEF Commit
  <2>2. woken \in SUBSET Work /\ \A v \in woken : state[v] = "Blocked"
    OBVIOUS
  <2>3. plan' = plan /\ state[w] = "Committing" /\ Publish(w)
    BY DEF Commit
  <2> HIDE DEF woken
  <2>4. QED
    BY <2>1, <2>2, <2>3
<1>2. state \in [Work -> Lifecycle]
  BY DEF LifecycleInv, LooseTypeOK
<1>3. \A v \in Work : /\ state'[v] = "Completed" <=> v = w \/ state[v] = "Completed"
                      /\ state'[v] = "Committing" => v # w /\ state[v] = "Committing"
  BY <1>1, <1>2
<1>4. Done' = Done \cup {w} /\ w \notin Done
  BY <1>1, <1>3 DEF Done
<1> DEFINE targets == TargetsOf(staged[w])
<1>5. /\ staged' = [staged EXCEPT ![w] = {}]
      /\ committedTargets' = [committedTargets EXCEPT ![w] = targets]
      /\ committed' = [t \in DOMAIN committed \cup targets |->
                        IF t \in DOMAIN committed
                        THEN committed[t]
                        ELSE [content |-> ContentFor(t, staged[w]), writer |-> w]]
  BY <1>1 DEF Publish
<1>6. /\ Whole(staged[w], plan.outputs[w])
      /\ staged[w] \in SUBSET Write
  BY <1>1 DEF PublicationInv, StagedWhole, LifecycleInv, LooseTypeOK, StoreTypeOK
<1>7. ASSUME NEW o \in staged[w] PROVE committed'[TargetOf(o)].content = o.content
  <2>1. TargetOf(o) \in targets /\ ContentFor(TargetOf(o), staged[w]) = o.content
    BY <1>6, WholeTargets
  <2> HIDE DEF targets
  <2>2. CASE TargetOf(o) \in DOMAIN committed
    <3>1. committed'[TargetOf(o)] = committed[TargetOf(o)]
      BY <1>5, <2>2
    <3>2. QED
      BY <2>2, <3>1 DEF PublicationInv, StagedAgree
  <2>3. CASE TargetOf(o) \notin DOMAIN committed
    <3>1. committed'[TargetOf(o)] = [content |-> ContentFor(TargetOf(o), staged[w]), writer |-> w]
      BY <1>5, <2>1, <2>3
    <3>2. QED
      BY <2>1, <3>1
  <2>4. QED
    BY <2>2, <2>3
<1> HIDE DEF targets
<1>8. /\ DOMAIN committed' = DOMAIN committed \cup targets
      /\ \A t \in DOMAIN committed : committed'[t] = committed[t]
  BY <1>5
<1>9. QED
  BY <1>1, <1>3, <1>4, <1>5, <1>7, <1>8 DEF targets

(* commit turns agreement among the staged into agreement with what is     *)
(* published.                                                              *)
LEMMA PublicationCommit ==
  ASSUME LifecycleInv, PublicationInv, NEW w \in Work, Commit(w)
  PROVE  PublicationInv'
<1>1. staged \in [Work -> SUBSET Write] /\ committedTargets \in [Work -> SUBSET Target]
  BY DEF LifecycleInv, LooseTypeOK, StoreTypeOK
<1>2. \A v \in Work : staged'[v] = IF v = w THEN {} ELSE staged[v]
  BY <1>1, CommitEffect
<1>3. StagedAgree'
  <2>1. ASSUME NEW v \in Work, NEW o \in staged'[v], TargetOf(o) \in DOMAIN committed'
        PROVE  committed'[TargetOf(o)].content = o.content
    <3>1. o \in staged[v] /\ v # w
      BY <1>2, <2>1
    <3>2. CASE TargetOf(o) \in DOMAIN committed
      BY <3>1, <3>2, CommitEffect DEF PublicationInv, StagedAgree
    <3>3. CASE TargetOf(o) \notin DOMAIN committed
      <4>1. TargetOf(o) \in TargetsOf(staged[w])
        BY <2>1, <3>3, CommitEffect
      <4>2. PICK p \in staged[w] : TargetOf(p) = TargetOf(o)
        BY <4>1 DEF TargetsOf
      <4>3. committed'[TargetOf(o)].content = p.content
        BY <4>2, CommitEffect
      <4>4. p.content = o.content
        BY <3>1, <4>2 DEF PublicationInv, StagedAgree
      <4>5. QED
        BY <4>3, <4>4
    <3>4. QED
      BY <3>2, <3>3
  <2>2. ASSUME NEW v \in Work, NEW o \in staged'[v], NEW u \in Work, NEW p \in staged'[u],
               TargetOf(p) = TargetOf(o)
        PROVE  p.content = o.content
    BY <1>2, <2>2 DEF PublicationInv, StagedAgree
  <2>3. QED
    BY <2>1, <2>2 DEF StagedAgree
<1>4. StagedWhole'
  BY <1>2, CommitEffect DEF PublicationInv, StagedWhole
<1>5. PublishedWhole'
  <2>1. \A v \in Work : committedTargets'[v] = IF v = w THEN TargetsOf(staged[w]) ELSE committedTargets[v]
    BY <1>1, CommitEffect
  <2>2. Whole(TargetsOf(staged[w]), plan.outputs[w])
    <3>1. Whole(staged[w], plan.outputs[w])
      BY CommitEffect DEF PublicationInv, StagedWhole
    <3>2. QED
      BY <1>1, <3>1, WholeTargets
  <2>3. ASSUME NEW v \in Done'
        PROVE  /\ committedTargets'[v] \subseteq DOMAIN committed'
               /\ Whole(committedTargets'[v], plan.outputs[v])
    <3>0. /\ Done' = Done \cup {w} /\ plan' = plan
          /\ DOMAIN committed' = DOMAIN committed \cup TargetsOf(staged[w])
      BY CommitEffect
    <3>1. CASE v = w
      <4>1. committedTargets'[v] = TargetsOf(staged[w])
        BY <2>1, <3>1
      <4>2. QED
        BY <2>2, <3>0, <3>1, <4>1
    <3>2. CASE v # w
      <4>0. v \in Done
        BY <2>3, <3>0, <3>2
      <4>1. v \in Done /\ v \in Work
        BY <4>0 DEF Done
      <4>2. QED
        BY <2>1, <3>0, <3>2, <4>1 DEF PublicationInv, PublishedWhole
    <3>3. QED
      BY <3>1, <3>2
  <2>4. QED
    BY <2>3, CommitEffect DEF PublishedWhole
<1>6. PlanBound'
  BY CommitEffect DEF PublicationInv, PlanBound
<1>7. QED
  BY <1>3, <1>4, <1>5, <1>6 DEF PublicationInv

(* A step that publishes nothing, completes nothing and stages nothing     *)
(* more keeps the invariant.                                               *)
LEMMA PublicationFrame ==
  ASSUME PublicationInv, plan' = plan, Done' = Done,
         committed' = committed, committedTargets' = committedTargets,
         \A v \in Work : staged'[v] = staged[v] \/ staged'[v] = {},
         \A v \in Work : state'[v] = "Committing" => state[v] = "Committing" /\ staged'[v] = staged[v]
  PROVE  PublicationInv'
<1>1. StagedAgree'
  <2>1. \A v \in Work : staged'[v] \subseteq staged[v]
    OBVIOUS
  <2>2. QED
    BY <2>1 DEF PublicationInv, StagedAgree
<1>2. StagedWhole'
  BY DEF PublicationInv, StagedWhole
<1>3. PublishedWhole' /\ PlanBound'
  BY DEF PublicationInv, PublishedWhole, PlanBound
<1>4. QED
  BY <1>1, <1>2, <1>3 DEF PublicationInv

(* admit_ready does not touch the store, and completes nothing.            *)
LEMMA AdmitFrame ==
  ASSUME LifecycleInv, AdmitReady
  PROVE  /\ plan' = plan /\ UNCHANGED storeVars
         /\ Done' = Done /\ Dead' = Dead
         /\ \A v \in Work : state'[v] = "Committing" => state[v] = "Committing"
<1>1. /\ plan' = plan /\ UNCHANGED storeVars
      /\ \A v \in Work : state'[v] = IF v \in Admitted THEN "Running"
                                     ELSE IF Candidate(v) THEN "Blocked" ELSE state[v]
  BY DEF AdmitReady
<1>2. \A v \in Work : v \in Admitted \/ Candidate(v) => state[v] \in {"Ready", "Blocked"}
  BY DEF Admitted, Candidate
<1>3. \A v \in Work : /\ state'[v] \in {"Completed", "Failed", "Cancelled", "Committing"}
                           => state'[v] = state[v]
                      /\ state[v] \in {"Completed", "Failed", "Cancelled"} => state'[v] = state[v]
  BY <1>1, <1>2
<1>4. QED
  BY <1>1, <1>3 DEF Done, Dead

(* What failure and cancellation change.                                   *)
LEMMA EndFrame ==
  ASSUME LifecycleInv, NEW w \in Work, Fail(w) \/ Cancel(w)
  PROVE  /\ plan' = plan
         /\ committed' = committed /\ committedTargets' = committedTargets
         /\ Done' = Done /\ Dead \subseteq Dead'
         /\ \A v \in Work : staged'[v] = staged[v] \/ staged'[v] = {}
         /\ \A v \in Work : state'[v] = "Committing" => state[v] = "Committing" /\ staged'[v] = staged[v]
<1>1. PICK to \in {"Failed", "Cancelled"} : EndWith(w, to) /\ state[w] \notin Terminal
  BY DEF Fail, Cancel, Owning, Terminal
<1>2. /\ plan' = plan
      /\ \A v \in Work : state'[v] = IF v = w THEN to
                                     ELSE IF v \in LiveDescendants(w) THEN "Cancelled" ELSE state[v]
  BY <1>1 DEF EndWith
<1>3. LiveDescendants(w) \subseteq LiveWork
  BY DescendantsClosed
<1>4. \A v \in LiveWork \cup {w} : state[v] \notin Terminal
  BY <1>1 DEF LiveWork
<1>5. Done' = Done /\ Dead \subseteq Dead'
  BY <1>1, <1>2, <1>3, <1>4 DEF Done, Dead, Terminal
<1>6. /\ committed' = committed /\ committedTargets' = committedTargets
      /\ staged' = [staged EXCEPT ![w] = {}] \/ staged' = staged
  BY DEF Fail, Cancel, Discard, storeVars
<1>7. staged \in [Work -> SUBSET Write]
  BY DEF LifecycleInv, LooseTypeOK, StoreTypeOK
<1>8. \A v \in Work : staged'[v] = staged[v] \/ (v = w /\ staged'[v] = {})
  BY <1>6, <1>7
<1>9. \A v \in Work : state'[v] = "Committing" => v # w /\ state[v] = "Committing"
  BY <1>1, <1>2
<1>10. QED
  BY <1>2, <1>5, <1>6, <1>8, <1>9

-----------------------------------------------------------------------------
(* The theorems *)

(* The store stays in agreement with itself and with what is declared, in  *)
(* every reachable state.                                                  *)
THEOREM PublicationInvariant == Spec => [](LifecycleInv /\ PublicationInv)
<1>1. LifecycleInv /\ PublicationInv /\ [Next]_vars => PublicationInv'
  <2> SUFFICES ASSUME LifecycleInv, PublicationInv, [Next]_vars PROVE PublicationInv'
    OBVIOUS
  <2>1. CASE AdmitReady
    BY <2>1, AdmitFrame, PublicationFrame DEF storeVars
  <2>2. ASSUME NEW w \in Work, StageOutputs(w) PROVE PublicationInv'
    BY <2>2, PublicationStage
  <2>3. ASSUME NEW w \in Work, Commit(w) PROVE PublicationInv'
    BY <2>3, PublicationCommit
  <2>4. ASSUME NEW w \in Work, Fail(w) \/ Cancel(w) PROVE PublicationInv'
    BY <2>4, EndFrame, PublicationFrame
  <2>5. CASE UNCHANGED vars
    BY <2>5, PublicationFrame DEF vars, Done
  <2>6. QED
    BY <2>1, <2>2, <2>3, <2>4, <2>5 DEF Next
<1>2. QED
  BY <1>1, LifecycleInvariant, LifecycleInit, PublicationInit, PTL DEF Spec

(* commit is never refused: a batch is staged exactly while its writer is  *)
(* Committing, and no conflicting content can come in between.             *)
THEOREM CommitNeverRejectedHolds == Spec => []CommitNeverRejected
<1>1. LifecycleInv /\ PublicationInv => CommitNeverRejected
  <2> SUFFICES ASSUME LifecycleInv, PublicationInv PROVE CommitNeverRejected
    OBVIOUS
  <2>1. StagedWhileCommitting
    BY DEF LifecycleInv
  <2>2. ASSUME NEW w \in Work, state[w] = "Committing" PROVE CommitAccepts(w)
    <3>1. staged[w] # {}
      BY <2>1, <2>2 DEF StagedWhileCommitting
    <3>2. \A o \in staged[w] : ~Conflicts(o)
      BY AgreementAccepts DEF PublicationInv
    <3>3. QED
      BY <3>1, <3>2 DEF CommitAccepts
  <2>3. QED
    BY <2>1, <2>2 DEF CommitNeverRejected
<1>2. QED
  BY <1>1, PublicationInvariant, PTL

(* What the store hands to a reader of a completed instance: every kind it *)
(* declares, exactly once.                                                 *)
LEMMA ReaderOutputs ==
  ASSUME PublicationInv, NEW d \in Done
  PROVE  /\ \A k \in plan.outputs[d] : \E o \in OutputsForWriter(d) : o.target.kind = k
         /\ \A o, p \in OutputsForWriter(d) : o.target.kind = p.target.kind => o = p
<1>1. /\ committedTargets[d] \cap DOMAIN committed = committedTargets[d]
      /\ Whole(committedTargets[d], plan.outputs[d])
  BY DEF PublicationInv, PublishedWhole
<1>2. OutputsForWriter(d) =
        {[target |-> t, content |-> committed[t].content] : t \in committedTargets[d]}
  BY <1>1 DEF OutputsForWriter
<1>3. ASSUME NEW k \in plan.outputs[d] PROVE \E o \in OutputsForWriter(d) : o.target.kind = k
  <2>1. PICK t \in committedTargets[d] : t.kind = k
    BY <1>1 DEF Whole
  <2>2. [target |-> t, content |-> committed[t].content] \in OutputsForWriter(d)
    BY <1>2, <2>1
  <2>3. QED
    BY <2>1, <2>2
<1>4. ASSUME NEW o \in OutputsForWriter(d), NEW p \in OutputsForWriter(d),
             o.target.kind = p.target.kind
      PROVE  o = p
  <2>1. PICK s \in committedTargets[d] : o = [target |-> s, content |-> committed[s].content]
    BY <1>2
  <2>2. PICK t \in committedTargets[d] : p = [target |-> t, content |-> committed[t].content]
    BY <1>2
  <2>3. s = t
    BY <1>1, <1>4, <2>1, <2>2 DEF Whole
  <2>4. QED
    BY <2>1, <2>2, <2>3
<1>5. QED
  BY <1>3, <1>4

(* A computation that runs is handed every input it requires, and each     *)
(* bound kind of each producer exactly once.                               *)
THEOREM InputsDeliveredHolds == Spec => []InputsDelivered
<1>1. LifecycleInv /\ PublicationInv => InputsDelivered
  <2> SUFFICES ASSUME LifecycleInv, PublicationInv, NEW w \in Work, state[w] = "Running"
               PROVE  /\ {i.kind : i \in Required(plan, w)} \subseteq {o.target.kind : o \in DependencyOutputs(w)}
                      /\ \A d \in plan.deps[w] : \A k \in BoundKinds(plan, w, d) :
                           \E o \in OutputsForWriter(d) :
                             /\ o.target.kind = k
                             /\ \A p \in OutputsForWriter(d) : p.target.kind = k => p = o
    BY DEF InputsDelivered
  <2>1. plan.deps[w] \subseteq Done
    BY DEF LifecycleInv, ProducersDone, PastDependencies
  <2>2. ASSUME NEW d \in plan.deps[w], NEW k \in BoundKinds(plan, w, d)
        PROVE  \E o \in OutputsForWriter(d) :
                 /\ o.target.kind = k
                 /\ \A p \in OutputsForWriter(d) : p.target.kind = k => p = o
    <3>1. d \in Done /\ k \in plan.outputs[d]
      BY <2>1 DEF BoundKinds
    <3>2. PICK o \in OutputsForWriter(d) : o.target.kind = k
      BY <3>1, ReaderOutputs
    <3>3. \A p \in OutputsForWriter(d) : p.target.kind = k => p = o
      BY <3>1, <3>2, ReaderOutputs
    <3>4. QED
      BY <3>2, <3>3
  <2>3. ASSUME NEW i \in Required(plan, w) PROVE i.kind \in {o.target.kind : o \in DependencyOutputs(w)}
    <3>1. PICK d \in plan.deps[w] : i.kind \in BoundKinds(plan, w, d)
      BY DEF PublicationInv, PlanBound, DependenciesBound
    <3>2. PICK o \in OutputsForWriter(d) : o.target.kind = i.kind
      BY <2>2, <3>1
    <3>3. o \in DependencyOutputs(w)
      BY <3>1, <3>2 DEF DependencyOutputs
    <3>4. QED
      BY <3>2, <3>3
  <2>4. QED
    BY <2>2, <2>3
<1>2. QED
  BY <1>1, PublicationInvariant, PTL

(* What is staged can be committed, and what was committed arrives at      *)
(* every consumer that runs.                                               *)
THEOREM CommitsDeliverHolds == Spec => []CommitsDeliver
<1>1. CommitNeverRejected /\ InputsDelivered => CommitsDeliver
  BY DEF CommitsDeliver
<1>2. QED
  BY <1>1, CommitNeverRejectedHolds, InputsDeliveredHolds, PTL

(* Content and first writer of a published target never change, nor do     *)
(* the targets recorded for a writer that committed.                       *)
THEOREM PublicationPermanentHolds == Spec => PublicationPermanent
<1> DEFINE Kept == /\ \A t \in DOMAIN committed :
                        t \in DOMAIN committed' /\ committed'[t] = committed[t]
                   /\ \A w \in Done : w \in Done' /\ committedTargets'[w] = committedTargets[w]
<1>1. LifecycleInv /\ PublicationInv /\ [Next]_vars => Kept
  <2> SUFFICES ASSUME LifecycleInv, PublicationInv, [Next]_vars PROVE Kept
    OBVIOUS
  <2>1. ASSUME committed' = committed, committedTargets' = committedTargets, Done' = Done
        PROVE  Kept
    BY <2>1
  <2>2. CASE AdmitReady
    BY <2>1, <2>2, AdmitFrame DEF storeVars
  <2>3. ASSUME NEW w \in Work, StageOutputs(w) PROVE Kept
    <3>1. /\ committed' = committed /\ committedTargets' = committedTargets
          /\ state' = [state EXCEPT ![w] = "Committing"] /\ state[w] = "Running"
      BY <2>3 DEF StageOutputs, Stage
    <3>2. Done' = Done
      BY <3>1 DEF LifecycleInv, LooseTypeOK, Done
    <3>3. QED
      BY <2>1, <3>1, <3>2
  <2>4. ASSUME NEW w \in Work, Commit(w) PROVE Kept
    <3>1. /\ \A t \in DOMAIN committed : committed'[t] = committed[t]
          /\ DOMAIN committed' = DOMAIN committed \cup TargetsOf(staged[w])
          /\ Done' = Done \cup {w} /\ w \notin Done
          /\ committedTargets' = [committedTargets EXCEPT ![w] = TargetsOf(staged[w])]
      BY <2>4, CommitEffect
    <3>2. \A v \in Done : committedTargets'[v] = committedTargets[v]
      <4>1. \A v \in Done : v \in Work
        BY DEF Done
      <4>2. QED
        BY <3>1, <4>1 DEF LifecycleInv, LooseTypeOK, StoreTypeOK
    <3>3. QED
      BY <3>1, <3>2
  <2>5. ASSUME NEW w \in Work, Fail(w) \/ Cancel(w) PROVE Kept
    BY <2>1, <2>5, EndFrame
  <2>6. CASE UNCHANGED vars
    BY <2>1, <2>6 DEF vars, Done
  <2>7. QED
    BY <2>2, <2>3, <2>4, <2>5, <2>6 DEF Next
<1>2. QED
  BY <1>1, PublicationInvariant, PTL DEF Spec, PublicationPermanent

-----------------------------------------------------------------------------
(* The refinement *)

(* A commit finishes an item whose producers are done and publishes its    *)
(* whole batch.                                                            *)
LEMMA CommitFinishes ==
  ASSUME LifecycleInv, PublicationInv, NEW w \in Work, Commit(w)
  PROVE  Execution!Finish(w) /\ Execution!Publishes(w) /\ plan' = plan
<1>1. /\ plan' = plan /\ state[w] = "Committing" /\ w \notin Done
      /\ Done' = Done \cup {w}
      /\ DOMAIN committed' = DOMAIN committed \cup TargetsOf(staged[w])
      /\ \A t \in DOMAIN committed : committed'[t] = committed[t]
  BY CommitEffect
<1>2. plan.deps[w] \subseteq Done
  BY <1>1 DEF LifecycleInv, ProducersDone, PastDependencies
<1>3. w \notin Dead
  BY <1>1 DEF Dead
<1>4. Dead' = Dead
  <2>1. PICK woken \in SUBSET Work :
          /\ \A v \in woken : state[v] = "Blocked"
          /\ state' = [v \in Work |-> IF v \in woken THEN "Ready"
                                      ELSE [state EXCEPT ![w] = "Completed"][v]]
    <3> DEFINE completed == [state EXCEPT ![w] = "Completed"]
               woken == {v \in Work : /\ w \in plan.deps[v] /\ state[v] = "Blocked"
                                      /\ wait[v].on = "dependencies"
                                      /\ Pending(completed, v) = {}}
    <3>1. state' = [v \in Work |-> IF v \in woken THEN "Ready" ELSE completed[v]]
      BY DEF Commit
    <3>2. woken \in SUBSET Work /\ \A v \in woken : state[v] = "Blocked"
      OBVIOUS
    <3> HIDE DEF woken
    <3>3. QED
      BY <3>1, <3>2
  <2>2. state \in [Work -> Lifecycle]
    BY DEF LifecycleInv, LooseTypeOK
  <2>3. \A v \in Work : state'[v] \in {"Failed", "Cancelled"} <=> state[v] \in {"Failed", "Cancelled"}
    BY <1>1, <2>1, <2>2
  <2>4. QED
    BY <2>3 DEF Dead
<1>5. Execution!Finish(w)
  BY <1>1, <1>2, <1>3, <1>4 DEF Execution!Finish
<1>6. StoreTypeOK'
  BY PublishType DEF Commit, LifecycleInv, LooseTypeOK
<1>7. /\ staged[w] \in SUBSET Write /\ Whole(staged[w], plan.outputs[w])
  BY <1>1 DEF LifecycleInv, LooseTypeOK, StoreTypeOK, PublicationInv, StagedWhole
<1>8. /\ TargetsOf(staged[w]) \in SUBSET Target
      /\ Whole(TargetsOf(staged[w]), plan.outputs[w])
  <2>1. Whole(TargetsOf(staged[w]), plan.outputs[w])
    BY <1>7, WholeTargets
  <2>2. TargetsOf(staged[w]) \subseteq Target
    BY BatchTypes DEF TargetsOf, LifecycleInv, LooseTypeOK
  <2>3. QED
    BY <2>1, <2>2
<1>9. Execution!WholeBatch(w, TargetsOf(staged[w]))
  BY <1>8 DEF Execution!WholeBatch, Whole
<1>10. \A t \in DOMAIN committed' : committed'[t].content \in Contents
  BY <1>6 DEF StoreTypeOK
<1> DEFINE before == [t \in DOMAIN committed |-> committed[t].content]
           after  == [t \in DOMAIN committed' |-> committed'[t].content]
<1>11. /\ DOMAIN before = DOMAIN committed /\ DOMAIN after = DOMAIN committed'
       /\ DOMAIN committed \subseteq DOMAIN committed'
       /\ \A t \in DOMAIN committed : after[t] = before[t]
       /\ \A t \in DOMAIN committed' : after[t] \in Contents
  BY <1>1, <1>10
<1>12. Execution!Publishes(w)
  BY <1>1, <1>8, <1>9, <1>11 DEF Execution!Publishes
<1>13. QED
  BY <1>1, <1>5, <1>12

(* The scheduler implements the abstract execution: a commit finishes an   *)
(* item and publishes its whole batch, a failure or a cancellation gives   *)
(* up the item with all that depends on it, and every other step changes   *)
(* nothing the abstraction sees.                                           *)
THEOREM ExecutesGraphHolds == Spec => ExecutesGraph
<1>1. Init => Execution!PublicationInit
  <2> SUFFICES ASSUME Init PROVE Execution!PublicationInit
    OBVIOUS
  <2>1. \A w \in Work : state[w] \in {"Ready", "Blocked"}
    BY DEF Init
  <2>2. Done = {} /\ Dead = {}
    BY <2>1 DEF Done, Dead
  <2>3. [t \in DOMAIN committed |-> committed[t].content] = [t \in {} |-> {}]
    BY DEF Init, StoreInit
  <2>4. QED
    BY <2>2, <2>3 DEF Execution!PublicationInit, Execution!ExecutionInit
<1>2. LifecycleInv /\ PublicationInv /\ LifecycleInv' /\ [Next]_vars
        => [Execution!PublicationNext]_(Execution!publicationVars)
  <2> SUFFICES ASSUME LifecycleInv, PublicationInv, LifecycleInv', [Next]_vars
               PROVE  [Execution!PublicationNext]_(Execution!publicationVars)
    OBVIOUS
  <2>1. ASSUME plan' = plan, Done' = Done, Dead' = Dead, committed' = committed
        PROVE  UNCHANGED Execution!publicationVars
    BY <2>1 DEF Execution!publicationVars
  <2>2. CASE AdmitReady
    BY <2>1, <2>2, AdmitFrame DEF storeVars
  <2>3. ASSUME NEW w \in Work, StageOutputs(w) PROVE UNCHANGED Execution!publicationVars
    <3>1. /\ plan' = plan /\ committed' = committed
          /\ state' = [state EXCEPT ![w] = "Committing"] /\ state[w] = "Running"
      BY <2>3 DEF StageOutputs, Stage
    <3>2. Done' = Done /\ Dead' = Dead
      BY <3>1 DEF LifecycleInv, LooseTypeOK, Done, Dead
    <3>3. QED
      BY <2>1, <3>1, <3>2
  <2>4. ASSUME NEW w \in Work, Commit(w) PROVE Execution!PublicationNext
    BY <2>4, CommitFinishes DEF Execution!PublicationNext
  <2>5. ASSUME NEW w \in Work, Fail(w) \/ Cancel(w) PROVE Execution!PublicationNext
    <3>1. /\ plan' = plan /\ committed' = committed
          /\ Done' = Done /\ Dead \subseteq Dead'
      BY <2>5, EndFrame
    <3>2. Dead' \subseteq Work \ Done
      <4>1. Dead' \subseteq Work \ Done'
        BY DEF Dead, Done
      <4>2. QED
        BY <3>1, <4>1
    <3>3. \A v \in Work : plan.deps[v] \cap Dead' # {} => v \in Dead'
      <4>1. \A v \in Work : plan'.deps[v] \cap Dead' # {} => state'[v] = "Cancelled"
        BY DEF LifecycleInv, NothingSurvivesUpstream
      <4>2. QED
        BY <3>1, <4>1 DEF Dead
    <3>4. Execution!GiveUp
      BY <3>1, <3>2, <3>3 DEF Execution!GiveUp
    <3>5. QED
      BY <3>1, <3>4 DEF Execution!PublicationNext
  <2>6. CASE UNCHANGED vars
    BY <2>1, <2>6 DEF vars, Done, Dead
  <2>7. QED
    BY <2>2, <2>3, <2>4, <2>5, <2>6 DEF Next
<1>3. QED
  BY <1>1, <1>2, PublicationInvariant, PTL DEF Spec, ExecutesGraph, Execution!PublicationSpec

-----------------------------------------------------------------------------
(* The sum of the owned reservations *)

Zero == [r \in Resources |-> 0]

Owns(st, i) == st[i] \in Owning

SumStep(p, st, i, a) == IF Owns(st, i) THEN Plus(a, p.reservation[i]) ELSE a

(* OwnedUpTo, as a function of the plan and the states.                    *)
SumOf(p, st) == CHOOSE f : f = [i \in 0 .. N |-> IF i = 0 THEN Zero ELSE SumStep(p, st, i, f[i-1])]

(* OwnedUpTo is the sum over the owners of the current state.              *)
LEMMA OwnedIsSum == OwnedUpTo = SumOf(plan, state) /\ OwnedUpTo' = SumOf(plan', state')
<1>1. OwnedUpTo = SumOf(plan, state)
  BY DEF OwnedUpTo, SumOf, SumStep, Owns, Zero
<1>2. OwnedUpTo' = SumOf(plan', state')
  BY DEF OwnedUpTo, SumOf, SumStep, Owns, Zero
<1>3. QED
  BY <1>1, <1>2

(* Amounts are closed under addition, and an addition is pointwise.        *)
LEMMA PlusAmounts ==
  ASSUME NEW a \in Amount, NEW b \in Amount
  PROVE  Plus(a, b) \in Amount
BY DEF Plus, Amount

(* The sum is the recursion it is written as, and an amount at each point. *)
LEMMA SumEquation ==
  ASSUME NEW p \in PlanType, NEW st
  PROVE  /\ SumOf(p, st)[0] = Zero
         /\ \A i \in Work : SumOf(p, st)[i] = SumStep(p, st, i, SumOf(p, st)[i-1])
         /\ \A i \in 0 .. N : SumOf(p, st)[i] \in Amount
<1> DEFINE G == [i \in Work |-> [a \in Amount |-> SumStep(p, st, i, a)]]
           Body(f) == [i \in 0 .. N |-> IF i = 0 THEN Zero ELSE SumStep(p, st, i, f[i-1])]
<1>1. ASSUME NEW i \in Work, NEW a \in Amount PROVE SumStep(p, st, i, a) \in Amount
  <2>1. p.reservation[i] \in Amount
    BY DEF PlanType
  <2>2. QED
    BY <2>1, PlusAmounts DEF SumStep
<1>2. StepsWithin(N, Amount, G)
  BY <1>1 DEF Work, StepsWithin
<1>3. N \in Nat /\ Zero \in Amount
  BY StoreAssumption DEF Zero, Amount
<1>4. \E f : Solves(f, N, Amount, Zero, G)
  <2> HIDE DEF G, Body
  <2>1. QED
    BY <1>2, <1>3, RecursionExists
<1>5. \E f : f = Body(f)
  <2>1. PICK f : Solves(f, N, Amount, Zero, G)
    BY <1>4
  <2>2. ASSUME NEW i \in 1 .. N PROVE f[i] = SumStep(p, st, i, f[i-1])
    <3>1. f[i] = G[i][f[i-1]] /\ f[i-1] \in Amount /\ i \in Work
      <4> HIDE DEF G
      <4>1. QED
        BY <1>3, <2>1 DEF Work, Solves
    <3>2. QED
      BY <3>1
  <2>3. f = Body(f)
    <3> HIDE DEF G
    <3>1. QED
      BY <2>1, <2>2 DEF Solves
  <2>4. QED
    <3> HIDE DEF Body
    <3>1. QED
      BY <2>3
<1>6. SumOf(p, st) = Body(SumOf(p, st))
  BY <1>5 DEF SumOf
<1>7. /\ SumOf(p, st)[0] = Zero
      /\ \A i \in Work : SumOf(p, st)[i] = SumStep(p, st, i, SumOf(p, st)[i-1])
  <2>1. ASSUME NEW f PROVE Body(f)[0] = Zero
    BY <1>3
  <2>2. ASSUME NEW f, NEW i \in 1 .. N PROVE Body(f)[i] = SumStep(p, st, i, f[i-1])
    BY <1>3
  <2>3. QED
    <3> HIDE DEF Body
    <3>1. QED
      BY <1>6, <2>1, <2>2 DEF Work
<1>8. \A i \in 0 .. N : SumOf(p, st)[i] \in Amount
  <2> DEFINE S == {i \in 0 .. N : SumOf(p, st)[i] \in Amount}
  <2>1. 0 \in S
    BY <1>3, <1>7
  <2>2. \A i \in 1 .. N : i - 1 \in S => i \in S
    BY <1>1, <1>7 DEF Work
  <2> HIDE DEF S
  <2>3. 0 .. N \subseteq S
    BY <1>3, <2>1, <2>2, UpToInduction
  <2>4. QED
    BY <2>3 DEF S
<1>9. QED
  BY <1>7, <1>8

(* Two states in which the same instances own have the same sum.           *)
LEMMA SameOwnersSameSum ==
  ASSUME NEW p \in PlanType, NEW st, NEW su, \A i \in Work : Owns(st, i) <=> Owns(su, i)
  PROVE  SumOf(p, st)[N] = SumOf(p, su)[N]
<1> DEFINE S == {i \in 0 .. N : SumOf(p, st)[i] = SumOf(p, su)[i]}
<1>1. 0 \in S
  BY SumEquation, StoreAssumption
<1>2. ASSUME NEW i \in 1 .. N, i - 1 \in S PROVE i \in S
  <2>1. SumOf(p, st)[i] = SumStep(p, st, i, SumOf(p, st)[i-1])
    BY SumEquation DEF Work
  <2>2. SumOf(p, su)[i] = SumStep(p, su, i, SumOf(p, su)[i-1])
    BY SumEquation DEF Work
  <2>3. QED
    BY <1>2, <2>1, <2>2 DEF SumStep, Work
<1> HIDE DEF S
<1>3. 0 .. N \subseteq S
  BY <1>1, <1>2, UpToInduction, StoreAssumption
<1>4. QED
  BY <1>3, StoreAssumption DEF S

(* Once one owner gives up its reservation, the sum is less by it.         *)
LEMMA ReleasedSum ==
  ASSUME NEW p \in PlanType, NEW st, NEW su, NEW w \in Work,
         Owns(st, w), ~Owns(su, w),
         \A i \in Work \ {w} : Owns(st, i) <=> Owns(su, i)
  PROVE  SumOf(p, su)[N] = Minus(SumOf(p, st)[N], p.reservation[w])
<1>0. w \in 1 .. N /\ N \in Nat
  BY StoreAssumption DEF Work
<1>1. p.reservation[w] \in Amount
  BY DEF PlanType
<1> DEFINE Before(i) == SumOf(p, st)[i] = SumOf(p, su)[i]
           After(i)  == SumOf(p, su)[i] = Minus(SumOf(p, st)[i], p.reservation[w])
           S == {i \in 0 .. N : IF i < w THEN Before(i) ELSE After(i)}
<1>2. 0 \in S
  BY SumEquation, StoreAssumption DEF Work
<1>3. ASSUME NEW i \in 1 .. N, i - 1 \in S PROVE i \in S
  <2>1. /\ SumOf(p, st)[i] = SumStep(p, st, i, SumOf(p, st)[i-1])
        /\ SumOf(p, su)[i] = SumStep(p, su, i, SumOf(p, su)[i-1])
    BY SumEquation DEF Work
  <2>2. /\ SumOf(p, st)[i-1] \in Amount
        /\ SumOf(p, su)[i-1] \in Amount
        /\ p.reservation[i] \in Amount
    <3>1. i \in Work /\ i - 1 \in 0 .. N
      BY <1>0 DEF Work
    <3>2. SumOf(p, st)[i-1] \in Amount /\ SumOf(p, su)[i-1] \in Amount
      BY <3>1, SumEquation
    <3>3. p.reservation[i] \in Amount
      BY <3>1 DEF PlanType
    <3>4. QED
      BY <3>2, <3>3
  <2>3. CASE i < w
    <3>1. Before(i - 1)
      BY <1>0, <1>3, <2>3
    <3>2. i \in Work \ {w}
      BY <1>0, <2>3 DEF Work
    <3>3. Before(i)
      BY <2>1, <3>1, <3>2 DEF SumStep
    <3>4. QED
      BY <1>0, <2>3, <3>3
  <2>4. CASE i = w
    <3>1. Before(i - 1)
      BY <1>0, <1>3, <2>4
    <3>2. SumOf(p, st)[i] = Plus(SumOf(p, st)[i-1], p.reservation[w])
      BY <2>1, <2>4 DEF SumStep
    <3>3. SumOf(p, su)[i] = SumOf(p, su)[i-1]
      BY <2>1, <2>4 DEF SumStep
    <3>4. After(i)
      BY <1>1, <2>2, <3>1, <3>2, <3>3 DEF Plus, Minus, Amount
    <3>5. QED
      BY <1>0, <2>4, <3>4
  <2>5. CASE i > w
    <3>1. After(i - 1)
      BY <1>0, <1>3, <2>5
    <3>2. Owns(st, i) <=> Owns(su, i)
      BY <1>0, <2>5 DEF Work
    <3>3. After(i)
      <4>1. CASE Owns(st, i)
        BY <1>1, <2>1, <2>2, <3>1, <3>2, <4>1 DEF SumStep, Plus, Minus, Amount
      <4>2. CASE ~Owns(st, i)
        BY <2>1, <3>1, <3>2, <4>2 DEF SumStep
      <4>3. QED
        BY <4>1, <4>2
    <3>4. QED
      BY <1>0, <2>5, <3>3
  <2>6. QED
    BY <1>0, <2>3, <2>4, <2>5
<1> HIDE DEF S
<1>4. 0 .. N \subseteq S
  BY <1>2, <1>3, UpToInduction, StoreAssumption
<1>5. N \in S /\ ~(N < w)
  BY <1>4, StoreAssumption DEF Work
<1>6. QED
  BY <1>5 DEF S

(* Nothing is owned, nothing is summed up.                                 *)
LEMMA NoOwnersZero ==
  ASSUME NEW p \in PlanType, NEW st, \A i \in Work : ~Owns(st, i)
  PROVE  SumOf(p, st)[N] = Zero
<1> DEFINE S == {i \in 0 .. N : SumOf(p, st)[i] = Zero}
<1>1. 0 \in S
  BY SumEquation, StoreAssumption
<1>2. ASSUME NEW i \in 1 .. N, i - 1 \in S PROVE i \in S
  <2>1. i \in Work /\ SumOf(p, st)[i] = SumStep(p, st, i, SumOf(p, st)[i-1])
    BY SumEquation DEF Work
  <2>2. QED
    BY <1>2, <2>1 DEF SumStep
<1> HIDE DEF S
<1>3. 0 .. N \subseteq S
  BY <1>1, <1>2, UpToInduction, StoreAssumption
<1>4. QED
  BY <1>3, StoreAssumption DEF S

-----------------------------------------------------------------------------
(* The ledger *)

Ledger == allocated = SumOf(plan, state)[N] /\ FitsWithin(allocated, Budget)

(* new() allocates nothing, and nothing owns.                              *)
LEMMA LedgerInit == Init => Ledger
<1> SUFFICES ASSUME Init PROVE Ledger
  OBVIOUS
<1>1. plan \in PlanType /\ allocated = Zero
  BY SchedulerAssumption DEF Init, Zero
<1>2. \A i \in Work : ~Owns(state, i)
  BY DEF Init, Owns, Owning
<1>3. FitsWithin(Zero, Budget)
  BY SchedulerAssumption DEF FitsWithin, Zero, Amount
<1>4. QED
  BY <1>1, <1>2, <1>3, NoOwnersZero DEF Ledger

(* A step that changes no owner and no allocation.                         *)
LEMMA LedgerFrame ==
  ASSUME LifecycleInv, Ledger, plan' = plan, allocated' = allocated,
         \A i \in Work : Owns(state', i) <=> Owns(state, i)
  PROVE  Ledger'
<1>1. plan \in PlanType
  BY DEF LifecycleInv, LooseTypeOK
<1>2. SumOf(plan, state)[N] = SumOf(plan, state')[N]
  BY <1>1, SameOwnersSameSum
<1>3. QED
  BY <1>2 DEF Ledger

(* A step by which exactly one owner gives its reservation up.             *)
LEMMA LedgerRelease ==
  ASSUME LifecycleInv, Ledger, NEW w \in Work, plan' = plan, Release(w),
         Owns(state, w), ~Owns(state', w),
         \A i \in Work \ {w} : Owns(state, i) <=> Owns(state', i)
  PROVE  Ledger'
<1>1. plan \in PlanType
  BY DEF LifecycleInv, LooseTypeOK
<1>2. SumOf(plan, state')[N] = Minus(SumOf(plan, state)[N], plan.reservation[w])
  BY <1>1, ReleasedSum
<1>3. allocated' = Minus(allocated, plan.reservation[w])
  BY DEF Release
<1>4. /\ plan.reservation[w] \in [Resources -> Nat]
      /\ allocated \in [Resources -> Int] /\ Budget \in [Resources -> Nat]
  BY <1>1, SchedulerAssumption DEF PlanType, Amount, LifecycleInv, LooseTypeOK, IntAmount
<1>5. FitsWithin(allocated', Budget)
  BY <1>3, <1>4 DEF Ledger, FitsWithin, Minus
<1>6. allocated' = SumOf(plan', state')[N]
  BY <1>2, <1>3 DEF Ledger
<1>7. QED
  BY <1>5, <1>6 DEF Ledger

(* The scan of admit_ready never goes over the budget.                     *)
LEMMA ScanFits ==
  ASSUME LifecycleInv, Ledger
  PROVE  FitsWithin(ScanAllocated[N], Budget)
<1>1. LooseTypeOK /\ N \in Nat
  BY StoreAssumption DEF LifecycleInv
<1> DEFINE S == {i \in 0 .. N : FitsWithin(ScanAllocated[i], Budget)}
<1>2. 0 \in S
  BY <1>1, ScanEquation DEF Ledger
<1>3. ASSUME NEW i \in 1 .. N, i - 1 \in S PROVE i \in S
  <2>1. i \in Work /\ i - 1 \in 0 .. N
    BY <1>1 DEF Work
  <2>2. /\ ScanAllocated[i] = ScanStep(i, ScanAllocated[i-1])
        /\ ScanAllocated[i-1] \in [Resources -> Int]
    BY <1>1, <2>1, ScanEquation DEF IntAmount
  <2>3. /\ plan.reservation[i] \in [Resources -> Nat] /\ Budget \in [Resources -> Nat]
    BY <1>1, <2>1, SchedulerAssumption DEF LooseTypeOK, PlanType, Amount
  <2>4. CASE Candidate(i) /\ FitsWithin(plan.reservation[i], Minus(Budget, ScanAllocated[i-1]))
    <3>1. ScanAllocated[i] = Plus(ScanAllocated[i-1], plan.reservation[i])
      BY <2>2, <2>4 DEF ScanStep
    <3>2. FitsWithin(ScanAllocated[i], Budget)
      BY <2>2, <2>3, <2>4, <3>1 DEF FitsWithin, Plus, Minus
    <3>3. QED
      BY <3>2
  <2>5. CASE ~(Candidate(i) /\ FitsWithin(plan.reservation[i], Minus(Budget, ScanAllocated[i-1])))
    BY <1>3, <2>2, <2>5 DEF ScanStep
  <2>6. QED
    BY <2>4, <2>5
<1> HIDE DEF S
<1>4. 0 .. N \subseteq S
  BY <1>1, <1>2, <1>3, UpToInduction
<1>5. QED
  BY <1>1, <1>4 DEF S

(* The scan adds to the ledger exactly what the admitted instances own.    *)
LEMMA LedgerAdmit ==
  ASSUME LifecycleInv, Ledger, AdmitReady
  PROVE  Ledger'
<1>1. /\ LooseTypeOK /\ plan \in PlanType /\ plan' = plan /\ N \in Nat
      /\ allocated' = ScanAllocated[N]
      /\ \A v \in Work : state'[v] = IF v \in Admitted THEN "Running"
                                     ELSE IF Candidate(v) THEN "Blocked" ELSE state[v]
  BY StoreAssumption DEF AdmitReady, LifecycleInv, LooseTypeOK
<1> DEFINE before(i) == SumOf(plan, state)[i]
           after(i)  == SumOf(plan, state')[i]
           S == {i \in 0 .. N :
                   \A r \in Resources : after(i)[r] = before(i)[r] + ScanAllocated[i][r] - allocated[r]}
<1>2. \A i \in 0 .. N : /\ before(i) \in [Resources -> Nat] /\ after(i) \in [Resources -> Nat]
                        /\ ScanAllocated[i] \in [Resources -> Int]
  BY <1>1, SumEquation, ScanEquation DEF Amount, IntAmount
<1>3. allocated \in [Resources -> Int]
  BY <1>1 DEF LooseTypeOK, IntAmount
<1>4. 0 \in S
  <2>1. before(0) = Zero /\ after(0) = Zero /\ ScanAllocated[0] = allocated
    BY <1>1, SumEquation, ScanEquation
  <2> HIDE DEF before, after
  <2>2. QED
    BY <1>1, <1>3, <2>1 DEF Zero
<1>5. ASSUME NEW i \in 1 .. N, i - 1 \in S PROVE i \in S
  <2>1. i \in Work /\ i - 1 \in 0 .. N /\ i \in 0 .. N
    BY <1>1 DEF Work
  <2>2. /\ before(i) = SumStep(plan, state, i, before(i-1))
        /\ after(i) = SumStep(plan, state', i, after(i-1))
        /\ ScanAllocated[i] = ScanStep(i, ScanAllocated[i-1])
    BY <1>1, <2>1, SumEquation, ScanEquation
  <2>3. plan.reservation[i] \in [Resources -> Nat]
    BY <1>1, <2>1 DEF PlanType, Amount
  <2>4. i \in Admitted <=>
          Candidate(i) /\ FitsWithin(plan.reservation[i], Minus(Budget, ScanAllocated[i-1]))
    BY <2>1 DEF Admitted, Available
  <2>5. \A r \in Resources : after(i-1)[r] = before(i-1)[r] + ScanAllocated[i-1][r] - allocated[r]
    BY <1>5
  <2>6. /\ before(i-1) \in [Resources -> Nat] /\ after(i-1) \in [Resources -> Nat]
        /\ ScanAllocated[i-1] \in [Resources -> Int]
    BY <1>2, <2>1
  <2> HIDE DEF before, after
  <2>7. CASE i \in Admitted
    <3>1. Owns(state', i) /\ ~Owns(state, i)
      BY <1>1, <2>1, <2>4, <2>7 DEF Owns, Owning, Candidate
    <3>2. /\ before(i) = before(i-1)
          /\ after(i) = Plus(after(i-1), plan.reservation[i])
          /\ ScanAllocated[i] = Plus(ScanAllocated[i-1], plan.reservation[i])
      BY <2>2, <2>4, <2>7, <3>1 DEF SumStep, ScanStep
    <3>3. \A r \in Resources : after(i)[r] = before(i)[r] + ScanAllocated[i][r] - allocated[r]
      <4> SUFFICES ASSUME NEW r \in Resources
                   PROVE  after(i)[r] = before(i)[r] + ScanAllocated[i][r] - allocated[r]
        OBVIOUS
      <4>1. /\ before(i-1)[r] \in Int /\ after(i-1)[r] \in Int
            /\ ScanAllocated[i-1][r] \in Int /\ allocated[r] \in Int
            /\ plan.reservation[i][r] \in Int
        BY <1>3, <2>3, <2>6
      <4>2. /\ before(i)[r] = before(i-1)[r]
            /\ after(i)[r] = after(i-1)[r] + plan.reservation[i][r]
            /\ ScanAllocated[i][r] = ScanAllocated[i-1][r] + plan.reservation[i][r]
        BY <3>2 DEF Plus
      <4>3. after(i-1)[r] = before(i-1)[r] + ScanAllocated[i-1][r] - allocated[r]
        BY <2>5
      <4>4. QED
        BY <4>1, <4>2, <4>3
    <3>4. QED
      BY <2>1, <3>3
  <2>8. CASE i \notin Admitted
    <3>1. Owns(state', i) <=> Owns(state, i)
      BY <1>1, <2>1, <2>8 DEF Owns, Owning, Candidate
    <3>2. ScanAllocated[i] = ScanAllocated[i-1]
      BY <2>2, <2>4, <2>8 DEF ScanStep
    <3>3. CASE Owns(state, i)
      <4>1. /\ before(i) = Plus(before(i-1), plan.reservation[i])
            /\ after(i) = Plus(after(i-1), plan.reservation[i])
        BY <2>2, <3>1, <3>3 DEF SumStep
      <4>2. \A r \in Resources : after(i)[r] = before(i)[r] + ScanAllocated[i][r] - allocated[r]
        <5> SUFFICES ASSUME NEW r \in Resources
                     PROVE  after(i)[r] = before(i)[r] + ScanAllocated[i][r] - allocated[r]
          OBVIOUS
        <5>1. /\ before(i-1)[r] \in Int /\ after(i-1)[r] \in Int
              /\ ScanAllocated[i-1][r] \in Int /\ allocated[r] \in Int
              /\ plan.reservation[i][r] \in Int
          BY <1>3, <2>3, <2>6
        <5>2. /\ before(i)[r] = before(i-1)[r] + plan.reservation[i][r]
              /\ after(i)[r] = after(i-1)[r] + plan.reservation[i][r]
          BY <4>1 DEF Plus
        <5>3. after(i-1)[r] = before(i-1)[r] + ScanAllocated[i-1][r] - allocated[r]
          BY <2>5
        <5>4. ScanAllocated[i][r] = ScanAllocated[i-1][r]
          BY <3>2
        <5>5. QED
          BY <5>1, <5>2, <5>3, <5>4
      <4>3. QED
        BY <2>1, <4>2
    <3>4. CASE ~Owns(state, i)
      <4>1. before(i) = before(i-1) /\ after(i) = after(i-1)
        BY <2>2, <3>1, <3>4 DEF SumStep
      <4>2. QED
        BY <2>1, <2>5, <3>2, <4>1
    <3>5. QED
      BY <3>3, <3>4
  <2>9. QED
    BY <2>7, <2>8
<1>6. \A r \in Resources : after(N)[r] = before(N)[r] + ScanAllocated[N][r] - allocated[r]
  <2> HIDE DEF S
  <2>1. 0 .. N \subseteq S
    BY <1>1, <1>4, <1>5, UpToInduction
  <2>2. N \in S
    BY <1>1, <2>1
  <2>3. QED
    BY <2>2 DEF S
<1>7. /\ before(N) = allocated /\ after(N) \in [Resources -> Nat]
      /\ ScanAllocated[N] \in [Resources -> Int]
  BY <1>1, <1>2 DEF Ledger
<1>8. \A r \in Resources : after(N)[r] = ScanAllocated[N][r]
  <2> HIDE DEF before, after
  <2>1. QED
    BY <1>3, <1>6, <1>7
<1>9. after(N) = ScanAllocated[N]
  <2> HIDE DEF before, after
  <2>1. QED
    BY <1>7, <1>8
<1>10. FitsWithin(allocated', Budget)
  BY <1>1, ScanFits
<1>11. QED
  BY <1>1, <1>9, <1>10 DEF Ledger

(* A descendant that is cancelled owns nothing: one of its producers is    *)
(* not completed.                                                          *)
LEMMA DescendantsOwnNothing ==
  ASSUME LifecycleInv, NEW w \in Work, state[w] \notin Terminal
  PROVE  \A v \in LiveDescendants(w) : v \in Work /\ ~Owns(state, v)
<1> SUFFICES ASSUME NEW v \in LiveDescendants(w) PROVE v \in Work /\ ~Owns(state, v)
  OBVIOUS
<1>1. v \in Work /\ ~(plan.deps[v] \subseteq Done)
  BY DescendantsClosed DEF Done, LiveWork, Terminal
<1>2. QED
  BY <1>1 DEF LifecycleInv, ProducersDone, PastDependencies, Owns, Owning

(* Ending an owner and its descendants changes no other owner.             *)
LEMMA EndOwners ==
  ASSUME LifecycleInv, NEW w \in Work, NEW to \in {"Failed", "Cancelled"},
         state[w] \notin Terminal, EndWith(w, to)
  PROVE  /\ plan' = plan
         /\ ~Owns(state', w)
         /\ \A i \in Work \ {w} : Owns(state, i) <=> Owns(state', i)
<1>1. /\ plan' = plan
      /\ \A v \in Work : state'[v] = IF v = w THEN to
                                     ELSE IF v \in LiveDescendants(w) THEN "Cancelled" ELSE state[v]
  BY DEF EndWith
<1>2. \A v \in LiveDescendants(w) : ~Owns(state, v)
  BY DescendantsOwnNothing
<1>3. QED
  BY <1>1, <1>2 DEF Owns, Owning

(* fail releases what the failing instance owns, once.                     *)
LEMMA LedgerFail ==
  ASSUME LifecycleInv, Ledger, NEW w \in Work, Fail(w)
  PROVE  Ledger'
<1>1. state[w] \in Owning /\ state[w] \notin Terminal /\ EndWith(w, "Failed") /\ Release(w)
  BY DEF Fail, Owning, Terminal
<1>2. QED
  BY <1>1, EndOwners, LedgerRelease DEF Owns

(* cancel releases only if the instance owns.                              *)
LEMMA LedgerCancel ==
  ASSUME LifecycleInv, Ledger, NEW w \in Work, Cancel(w)
  PROVE  Ledger'
<1>1. state[w] \notin Terminal /\ EndWith(w, "Cancelled")
  BY DEF Cancel
<1>2. CASE state[w] \in Owning
  <2>1. Release(w)
    BY <1>2 DEF Cancel
  <2>2. QED
    BY <1>1, <1>2, <2>1, EndOwners, LedgerRelease DEF Owns
<1>3. CASE state[w] \notin Owning
  <2>1. allocated' = allocated
    BY <1>3 DEF Cancel
  <2>2. \A i \in Work : Owns(state', i) <=> Owns(state, i)
    BY <1>1, <1>3, EndOwners DEF Owns
  <2>3. QED
    BY <1>1, <2>1, <2>2, EndOwners, LedgerFrame
<1>4. QED
  BY <1>2, <1>3

(* stage_outputs moves an owner to another owning state.                   *)
LEMMA LedgerStage ==
  ASSUME LifecycleInv, Ledger, NEW w \in Work, StageOutputs(w)
  PROVE  Ledger'
<1>1. /\ plan' = plan /\ allocated' = allocated
      /\ state' = [state EXCEPT ![w] = "Committing"] /\ state[w] = "Running"
      /\ state \in [Work -> Lifecycle]
  BY DEF StageOutputs, LifecycleInv, LooseTypeOK
<1>2. \A i \in Work : Owns(state', i) <=> Owns(state, i)
  BY <1>1 DEF Owns, Owning
<1>3. QED
  BY <1>1, <1>2, LedgerFrame

(* commit releases what the committing instance owns; who it wakes owns    *)
(* nothing yet.                                                            *)
LEMMA LedgerCommit ==
  ASSUME LifecycleInv, Ledger, NEW w \in Work, Commit(w)
  PROVE  Ledger'
<1> DEFINE completed == [state EXCEPT ![w] = "Completed"]
           woken == {v \in Work : /\ w \in plan.deps[v] /\ state[v] = "Blocked"
                                  /\ wait[v].on = "dependencies"
                                  /\ Pending(completed, v) = {}}
<1>1. /\ plan' = plan /\ Release(w) /\ state[w] = "Committing"
      /\ state' = [v \in Work |-> IF v \in woken THEN "Ready" ELSE completed[v]]
  BY DEF Commit
<1>2. \A v \in woken : state[v] = "Blocked"
  OBVIOUS
<1>3. state \in [Work -> Lifecycle]
  BY DEF LifecycleInv, LooseTypeOK
<1> HIDE DEF woken
<1>4. /\ Owns(state, w) /\ ~Owns(state', w)
      /\ \A i \in Work \ {w} : Owns(state, i) <=> Owns(state', i)
  BY <1>1, <1>2, <1>3 DEF Owns, Owning
<1>5. QED
  BY <1>1, <1>4, LedgerRelease

-----------------------------------------------------------------------------
(* The theorems *)

(* In every reachable state the allocation is the sum of what is owned.    *)
THEOREM LedgerInvariant == Spec => [](LifecycleInv /\ Ledger)
<1>1. LifecycleInv /\ Ledger /\ [Next]_vars => Ledger'
  <2> SUFFICES ASSUME LifecycleInv, Ledger, [Next]_vars PROVE Ledger'
    OBVIOUS
  <2>1. CASE AdmitReady
    BY <2>1, LedgerAdmit
  <2>2. ASSUME NEW w \in Work, StageOutputs(w) PROVE Ledger'
    BY <2>2, LedgerStage
  <2>3. ASSUME NEW w \in Work, Commit(w) PROVE Ledger'
    BY <2>3, LedgerCommit
  <2>4. ASSUME NEW w \in Work, Fail(w) PROVE Ledger'
    BY <2>4, LedgerFail
  <2>5. ASSUME NEW w \in Work, Cancel(w) PROVE Ledger'
    BY <2>5, LedgerCancel
  <2>6. CASE UNCHANGED vars
    BY <2>6 DEF vars, Ledger
  <2>7. QED
    BY <2>1, <2>2, <2>3, <2>4, <2>5, <2>6 DEF Next
<1>2. QED
  BY <1>1, LifecycleInvariant, LedgerInit, PTL DEF Spec

(* What is allocated is the sum of what the Running and Committing         *)
(* instances reserved, and within the budget, whatever the calls.          *)
THEOREM AccountingExactHolds == Spec => []AccountingExact
<1>1. LifecycleInv /\ Ledger => AccountingExact
  BY OwnedIsSum DEF Ledger, AccountingExact
<1>2. QED
  BY <1>1, LedgerInvariant, PTL

(* The variables have their types; that no allocation is ever negative is  *)
(* what release needs and what rests on the ledger.                        *)
THEOREM TypeOKHolds == Spec => []TypeOK
<1>1. LifecycleInv /\ Ledger => TypeOK
  <2> SUFFICES ASSUME LifecycleInv, Ledger PROVE TypeOK
    OBVIOUS
  <2>1. plan \in PlanType /\ N \in 0 .. N
    BY StoreAssumption DEF LifecycleInv, LooseTypeOK
  <2>2. SumOf(plan, state)[N] \in Amount
    BY <2>1, SumEquation
  <2>3. allocated \in Amount
    BY <2>2 DEF Ledger
  <2>4. QED
    BY <2>3 DEF LifecycleInv, LooseTypeOK, TypeOK
<1>2. QED
  BY <1>1, LedgerInvariant, PTL

-----------------------------------------------------------------------------
(* The driver *)

(* The control of the loop: it is inside a round exactly while the round   *)
(* has members left.                                                       *)
DriverControl ==
  /\ round \subseteq Work
  /\ pc \in {"admit", "compute", "commit", "returned"}
  /\ outcome = "none" <=> pc # "returned"
  /\ pc \in {"compute", "commit"} => round # {}
  /\ pc = "admit" => round = {}

(* The head of a round is one of its members.                              *)
LEMMA CurrentInRound ==
  ASSUME round \subseteq Work, round # {}
  PROVE  Current \in round
<1> DEFINE S == {i \in 0 .. N : \A j \in 1 .. i : j \notin round}
<1>1. SUFFICES ASSUME ~\E w \in round : \A v \in round : w <= v PROVE FALSE
  BY DEF Current
<1>2. 0 \in S
  BY StoreAssumption
<1>3. ASSUME NEW i \in 1 .. N, i - 1 \in S PROVE i \in S
  <2>1. \A v \in round : v \in Int /\ v >= i
    BY <1>3 DEF Work
  <2>2. i \notin round
    BY <1>1, <2>1
  <2>3. QED
    BY <1>3, <2>2
<1> HIDE DEF S
<1>4. 0 .. N \subseteq S
  BY <1>2, <1>3, UpToInduction, StoreAssumption
<1>5. N \in S
  BY <1>4, StoreAssumption
<1>6. QED
  BY <1>5 DEF S, Work

LEMMA ControlStep == DriverControl /\ [DriverNext]_driverVars => DriverControl'
<1> SUFFICES ASSUME DriverControl, [DriverNext]_driverVars PROVE DriverControl'
  OBVIOUS
<1> USE DEF DriverControl
<1>1. CASE Round
  BY <1>1 DEF Round, Return, Admitted
<1>2. CASE Report
  BY <1>2 DEF Report, Return
<1>3. CASE ComputeOk
  BY <1>3 DEF ComputeOk, Compute
<1>4. CASE ComputeRefused
  BY <1>4 DEF ComputeRefused, Compute, Return
<1>5. CASE ComputeErr
  BY <1>5, CurrentInRound DEF ComputeErr, Compute, Proceed
<1>6. CASE CommitHead
  BY <1>6, CurrentInRound DEF CommitHead, Proceed
<1>7. CASE UNCHANGED driverVars
  BY <1>7 DEF driverVars
<1>8. QED
  BY <1>1, <1>2, <1>3, <1>4, <1>5, <1>6, <1>7 DEF DriverNext

(* Every step of the driver is a call of the scheduler, or none.           *)
LEMMA DriverCalls == DriverControl /\ [DriverNext]_driverVars => [Next]_vars
<1> SUFFICES ASSUME DriverControl, [DriverNext]_driverVars PROVE [Next]_vars
  OBVIOUS
<1>1. CASE Round
  BY <1>1 DEF Round, Next
<1>2. CASE Report
  BY <1>2 DEF Report
<1>3. ASSUME pc \in {"compute", "commit"} PROVE Current \in Work
  BY <1>3, CurrentInRound DEF DriverControl
<1>4. CASE ComputeOk
  BY <1>3, <1>4 DEF ComputeOk, Compute, Next
<1>5. CASE ComputeRefused
  BY <1>5 DEF ComputeRefused
<1>6. CASE ComputeErr
  BY <1>3, <1>6 DEF ComputeErr, Compute, Next
<1>7. CASE CommitHead
  BY <1>3, <1>7 DEF CommitHead, Next
<1>8. CASE UNCHANGED driverVars
  BY <1>8 DEF driverVars
<1>9. QED
  BY <1>1, <1>2, <1>4, <1>5, <1>6, <1>7, <1>8 DEF DriverNext

(* The loop uses the scheduler as any caller may: what holds of every      *)
(* sequence of calls holds of its runs.                                    *)
THEOREM DriverIsACaller == DriverSpec => Spec /\ []DriverControl
<1>1. DriverInit => Init /\ DriverControl
  BY DEF DriverInit, DriverControl
<1>2. QED
  BY <1>1, ControlStep, DriverCalls, PTL DEF DriverSpec, Spec

(* The instance between staging and commit, if there is one.               *)
Committer == IF pc = "commit" THEN {Current} ELSE {}

(* Between the steps of the loop exactly the members of the round own what *)
(* they reserved.                                                          *)
RoundOwns ==
  \A w \in Work : /\ state[w] = "Running" <=> w \in round \ Committer
                  /\ state[w] = "Committing" <=> w \in Committer

(* An instance whose computation was started has reached an end of its own *)
(* or is being committed, unless its batch was refused; and no other has.  *)
ExecutedEnds ==
  outcome # "refused" =>
    executed = {w \in Work : state[w] \in {"Completed", "Failed", "Committing"}}

(* Nothing is lost without a failure upstream.                             *)
LostIsCaused ==
  \A S \in SUBSET Work :
    (Invalid \subseteq S /\ \A w \in Work : plan.deps[w] \cap S # {} => w \in S)
      => Rerun \subseteq S

ReportsAtEnd == outcome = "report" => LiveWork = {}

DriverInv == RoundOwns /\ ExecutedEnds /\ LostIsCaused /\ ReportsAtEnd

LEMMA DriverInvInit == DriverInit => DriverInv
<1> SUFFICES ASSUME DriverInit PROVE DriverInv
  OBVIOUS
<1>1. state \in [Work -> {"Ready", "Blocked"}]
  BY DEF DriverInit, Init
<1>2. RoundOwns /\ ExecutedEnds /\ ReportsAtEnd
  BY <1>1 DEF DriverInit, RoundOwns, Committer, ExecutedEnds, ReportsAtEnd
<1>3. Rerun = {}
  BY <1>1 DEF Rerun
<1>4. QED
  BY <1>2, <1>3 DEF DriverInv, LostIsCaused

(* A round starts whom admit_ready admits, and ends nobody.                *)
LEMMA DriverRound ==
  ASSUME LifecycleInv, DriverControl, DriverInv, Round
  PROVE  DriverInv'
<1> USE DEF DriverInv
<1>1. /\ pc = "admit" /\ round = {} /\ round' = Admitted /\ plan' = plan
      /\ executed' = executed /\ outcome = "none"
      /\ \/ outcome' = "stalled" /\ pc' = "returned" /\ Admitted = {}
         \/ outcome' = "none" /\ pc' = "compute"
  BY DEF Round, AdmitReady, DriverControl, Return
<1>2. \A w \in Work : state[w] \notin {"Running", "Committing"}
  BY <1>1 DEF RoundOwns, Committer
<1>3. \A w \in Work :
        /\ Candidate(w) => state[w] \in {"Ready", "Blocked"}
        /\ state'[w] = IF w \in Admitted THEN "Running"
                       ELSE IF Candidate(w) THEN "Blocked" ELSE state[w]
  BY DEF Round, AdmitReady, Candidate
<1>4. \A w \in Admitted : w \in Work /\ Candidate(w)
  BY DEF Admitted
<1>5. RoundOwns'
  <2>1. Committer' = {}
    BY <1>1 DEF Committer
  <2>2. QED
    BY <1>1, <1>2, <1>3, <1>4, <2>1 DEF RoundOwns
<1>6. ExecutedEnds'
  <2>1. \A w \in Work : state'[w] \in {"Completed", "Failed", "Committing"}
                        <=> state[w] \in {"Completed", "Failed", "Committing"}
    BY <1>3, <1>4
  <2>2. QED
    BY <1>1, <2>1 DEF ExecutedEnds
<1>7. LostIsCaused'
  <2>1. Invalid' = Invalid /\ Rerun' = Rerun
    BY <1>3, <1>4 DEF Invalid, Rerun
  <2>2. QED
    BY <1>1, <2>1 DEF LostIsCaused
<1>8. QED
  BY <1>1, <1>5, <1>6, <1>7 DEF ReportsAtEnd

(* A computation that succeeds leaves its instance Committing, at the head *)
(* of the round.                                                           *)
LEMMA DriverComputeOk ==
  ASSUME LifecycleInv, DriverControl, DriverInv, ComputeOk
  PROVE  DriverInv'
<1> USE DEF DriverInv
<1>1. Current \in round /\ Current \in Work
  BY CurrentInRound DEF ComputeOk, Compute, DriverControl
<1>2. /\ pc = "compute" /\ pc' = "commit" /\ round' = round /\ Current' = Current
      /\ executed' = executed \cup {Current} /\ outcome = "none" /\ outcome' = "none"
      /\ plan' = plan
      /\ state' = [state EXCEPT ![Current] = "Committing"]
      /\ state \in [Work -> Lifecycle] /\ state[Current] = "Running"
  BY DEF ComputeOk, Compute, StageOutputs, Current, DriverControl, LifecycleInv, LooseTypeOK
<1>3. \A w \in Work : state'[w] = IF w = Current THEN "Committing" ELSE state[w]
  BY <1>2
<1>4. RoundOwns'
  <2>1. Committer = {} /\ Committer' = {Current}
    BY <1>2 DEF Committer
  <2>2. QED
    BY <1>1, <1>2, <1>3, <2>1 DEF RoundOwns
<1>5. ExecutedEnds'
  BY <1>1, <1>2, <1>3 DEF ExecutedEnds
<1>6. LostIsCaused'
  <2>1. Invalid' = Invalid /\ Rerun' = Rerun
    BY <1>2, <1>3 DEF Invalid, Rerun
  <2>2. QED
    BY <1>2, <2>1 DEF LostIsCaused
<1>7. QED
  BY <1>2, <1>4, <1>5, <1>6 DEF ReportsAtEnd

(* A refused batch abandons the loop and leaves the scheduler as it is.    *)
LEMMA DriverComputeRefused ==
  ASSUME DriverInv, ComputeRefused
  PROVE  DriverInv'
<1>1. /\ pc = "compute" /\ pc' = "returned" /\ round' = round /\ outcome' = "refused"
      /\ plan' = plan /\ state' = state
  BY DEF ComputeRefused, Compute, Return, vars
<1>2. RoundOwns'
  BY <1>1 DEF DriverInv, RoundOwns, Committer
<1>3. LostIsCaused'
  <2>1. Invalid' = Invalid /\ Rerun' = Rerun
    BY <1>1 DEF Invalid, Rerun
  <2>2. QED
    BY <1>1, <2>1 DEF DriverInv, LostIsCaused
<1>4. QED
  BY <1>1, <1>2, <1>3 DEF DriverInv, ExecutedEnds, ReportsAtEnd

(* A computation that fails takes its own consumers with it, and no other  *)
(* instance: what has run owns nothing downstream.                         *)
LEMMA DriverComputeErr ==
  ASSUME LifecycleInv, DriverControl, DriverInv, ComputeErr
  PROVE  DriverInv'
<1> USE DEF DriverInv
<1> DEFINE lost == LiveDescendants(Current)
<1>1. Current \in round /\ Current \in Work
  BY CurrentInRound DEF ComputeErr, Compute, DriverControl
<1>2. /\ pc = "compute" /\ pc' \in {"admit", "compute"} /\ round' = round \ {Current}
      /\ executed' = executed \cup {Current} /\ outcome = "none" /\ outcome' = "none"
      /\ state[Current] \in Owning
      /\ EndWith(Current, "Failed")
  BY DEF ComputeErr, Compute, Proceed, Fail, DriverControl
<1>3. /\ plan' = plan
      /\ \A w \in Work : state'[w] = IF w = Current THEN "Failed"
                                     ELSE IF w \in lost THEN "Cancelled" ELSE state[w]
  BY <1>2 DEF EndWith
<1>4. \A v \in lost : v \in Work /\ state[v] \notin Terminal \cup Owning
  <2>1. lost \subseteq LiveWork
    BY <1>1, DescendantsClosed
  <2>2. \A v \in lost : v \in Work /\ ~Owns(state, v)
    BY <1>1, <1>2, DescendantsOwnNothing DEF Owning, Terminal
  <2>3. QED
    BY <2>1, <2>2 DEF LiveWork, Owns
<1>5. RoundOwns'
  <2>1. Committer = {} /\ Committer' = {}
    BY <1>2 DEF Committer
  <2>2. \A w \in Work : state[w] = "Running" <=> w \in round
    BY <2>1 DEF RoundOwns
  <2>3. \A w \in Work : state[w] # "Committing"
    BY <2>1 DEF RoundOwns
  <2>4. QED
    BY <1>2, <1>3, <1>4, <2>1, <2>2, <2>3 DEF RoundOwns, Owning
<1>6. ExecutedEnds'
  <2>1. \A w \in Work : state'[w] \in {"Completed", "Failed", "Committing"}
                        <=> w = Current \/ state[w] \in {"Completed", "Failed", "Committing"}
    BY <1>3, <1>4 DEF Terminal, Owning
  <2>2. QED
    BY <1>1, <1>2, <2>1 DEF ExecutedEnds
<1>7. LostIsCaused'
  <2> SUFFICES ASSUME NEW S \in SUBSET Work, Invalid' \subseteq S,
                      \A w \in Work : plan.deps[w] \cap S # {} => w \in S
               PROVE  Rerun' \subseteq S
    BY <1>3 DEF LostIsCaused
  <2>1. Current \in S /\ Invalid \subseteq S
    BY <1>1, <1>3, <1>4 DEF Invalid, Terminal
  <2>2. Rerun \subseteq S
    BY <2>1 DEF LostIsCaused
  <2>3. lost \subseteq S
    <3>1. \A v \in Work : (state[v] \notin Terminal /\ plan.deps[v] \cap (S \cup {Current}) # {}) => v \in S
      BY <2>1
    <3>2. QED
      BY <3>1 DEF LiveDescendants
  <2>4. QED
    BY <1>3, <2>1, <2>2, <2>3 DEF Rerun
<1>8. QED
  BY <1>2, <1>5, <1>6, <1>7 DEF ReportsAtEnd

(* A commit completes the head of the round, and makes consumers ready.    *)
LEMMA DriverCommit ==
  ASSUME LifecycleInv, DriverControl, DriverInv, CommitHead
  PROVE  DriverInv'
<1> USE DEF DriverInv
<1> DEFINE completed == [state EXCEPT ![Current] = "Completed"]
           woken == {v \in Work : /\ Current \in plan.deps[v] /\ state[v] = "Blocked"
                                  /\ wait[v].on = "dependencies"
                                  /\ Pending(completed, v) = {}}
<1>1. Current \in round /\ Current \in Work
  BY CurrentInRound DEF CommitHead, DriverControl
<1>2. /\ pc = "commit" /\ pc' \in {"admit", "compute"} /\ round' = round \ {Current}
      /\ executed' = executed /\ outcome = "none" /\ outcome' = "none"
      /\ plan' = plan /\ state[Current] = "Committing"
      /\ state' = [v \in Work |-> IF v \in woken THEN "Ready" ELSE completed[v]]
      /\ state \in [Work -> Lifecycle]
  BY DEF CommitHead, Proceed, Commit, DriverControl, LifecycleInv, LooseTypeOK
<1>3. \A v \in woken : state[v] = "Blocked"
  OBVIOUS
<1> HIDE DEF woken
<1>4. \A w \in Work : state'[w] = IF w \in woken THEN "Ready"
                                  ELSE IF w = Current THEN "Completed" ELSE state[w]
  BY <1>2
<1>5. RoundOwns'
  <2>1. Committer = {Current} /\ Committer' = {}
    BY <1>2 DEF Committer
  <2>2. QED
    BY <1>2, <1>3, <1>4, <2>1 DEF RoundOwns
<1>6. ExecutedEnds'
  BY <1>2, <1>3, <1>4 DEF ExecutedEnds
<1>7. LostIsCaused'
  <2>1. Invalid' = Invalid /\ Rerun' = Rerun
    BY <1>2, <1>3, <1>4 DEF Invalid, Rerun
  <2>2. QED
    BY <1>2, <2>1 DEF LostIsCaused
<1>8. QED
  BY <1>2, <1>5, <1>6, <1>7 DEF ReportsAtEnd

LEMMA DriverInvStep ==
  ASSUME LifecycleInv, DriverControl, DriverInv, [DriverNext]_driverVars
  PROVE  DriverInv'
<1>1. CASE Report
  <2>1. /\ pc = "admit" /\ pc' = "returned" /\ outcome = "none" /\ outcome' = "report"
        /\ LiveWork = {} /\ round' = round /\ executed' = executed
        /\ plan' = plan /\ state' = state
    BY <1>1 DEF Report, Return, vars, DriverControl
  <2>2. RoundOwns'
    BY <2>1 DEF DriverInv, RoundOwns, Committer
  <2>3. Invalid' = Invalid /\ Rerun' = Rerun /\ LiveWork' = LiveWork
    BY <2>1 DEF Invalid, Rerun, LiveWork
  <2>4. QED
    BY <2>1, <2>2, <2>3 DEF DriverInv, ExecutedEnds, LostIsCaused, ReportsAtEnd
<1>2. CASE UNCHANGED driverVars
  <2>1. /\ pc' = pc /\ outcome' = outcome /\ round' = round /\ executed' = executed
        /\ plan' = plan /\ state' = state
    BY <1>2 DEF driverVars, vars
  <2>2. Committer' = Committer
    BY <2>1 DEF Committer, Current
  <2>3. Invalid' = Invalid /\ Rerun' = Rerun /\ LiveWork' = LiveWork
    BY <2>1 DEF Invalid, Rerun, LiveWork
  <2>4. QED
    BY <2>1, <2>2, <2>3 DEF DriverInv, RoundOwns, ExecutedEnds, LostIsCaused, ReportsAtEnd
<1>3. QED
  BY <1>1, <1>2, DriverRound, DriverComputeOk, DriverComputeRefused, DriverComputeErr,
     DriverCommit DEF DriverNext

(* What a completed instance published counts as many outputs as it        *)
(* declares.                                                               *)
LEMMA WholeIsReusable ==
  ASSUME LifecycleInv, PublicationInv, NEW w \in Done
  PROVE  Cardinality(OutputsForWriter(w)) = Cardinality(plan.outputs[w])
<1> DEFINE kinds == plan.outputs[w]
           outs  == OutputsForWriter(w)
           f     == [k \in kinds |-> CHOOSE o \in outs : o.target.kind = k]
<1>1. /\ \A k \in kinds : \E o \in outs : o.target.kind = k
      /\ \A o, p \in outs : o.target.kind = p.target.kind => o = p
  BY ReaderOutputs
<1>2. \A o \in outs : o.target.kind \in kinds
  BY DEF PublicationInv, PublishedWhole, Whole, OutputsForWriter
<1>3. kinds \in SUBSET Kinds
  BY DEF LifecycleInv, LooseTypeOK, PlanType, Done
<1>4. IsFiniteSet(kinds)
  BY <1>3, KindsAssumption, FS_Subset
<1> HIDE DEF kinds, outs
<1>5. \A k \in kinds : f[k] \in outs /\ f[k].target.kind = k
  BY <1>1
<1>6. f \in Bijection(kinds, outs)
  BY <1>1, <1>2, <1>5 DEF Bijection, Injection, Surjection, IsInjective
<1>7. Cardinality(outs) = Cardinality(kinds)
  BY <1>4, <1>6, FS_Bijection DEF ExistsBijection
<1>8. QED
  BY <1>7 DEF kinds, outs

(* A returned report accounts for every instance, whatever the plan, the   *)
(* budget, the batches and the failures.                                   *)
THEOREM ReportIsPlannedHolds == DriverSpec => []ReportIsPlanned
<1>1. DriverSpec => [](LifecycleInv /\ PublicationInv /\ Ledger /\ DriverControl)
  BY DriverIsACaller, PublicationInvariant, LedgerInvariant, PTL
<1>2. DriverSpec => []DriverInv
  BY <1>1, DriverInvInit, DriverInvStep, PTL DEF DriverSpec
<1>3. LifecycleInv /\ PublicationInv /\ Ledger /\ DriverInv => ReportIsPlanned
  <2> SUFFICES ASSUME LifecycleInv, PublicationInv, Ledger, DriverInv, outcome = "report"
               PROVE  /\ Done \cup Rerun = Work
                      /\ Reusable = Done
                      /\ NeverStarted = Rerun \ Invalid
                      /\ executed = Done \cup Invalid
                      /\ \A r \in Resources : allocated[r] = 0
                      /\ \A w \in Work : staged[w] = {}
                      /\ LostIsCaused
    BY DEF ReportIsPlanned, LostIsCaused
  <2>1. \A w \in Work : state[w] \in {"Completed", "Failed", "Cancelled"}
    BY DEF DriverInv, ReportsAtEnd, LiveWork, Terminal
  <2>2. Done \cup Rerun = Work
    BY <2>1 DEF Done, Rerun
  <2>3. Reusable = Done
    BY WholeIsReusable DEF Reusable
  <2>4. executed = Done \cup Invalid
    BY <2>1 DEF DriverInv, ExecutedEnds, Done, Invalid
  <2>5. NeverStarted = Rerun \ Invalid
    BY <2>4 DEF NeverStarted, Rerun, Invalid, Done
  <2>6. \A r \in Resources : allocated[r] = 0
    <3>1. plan \in PlanType /\ \A i \in Work : ~Owns(state, i)
      BY <2>1 DEF LifecycleInv, LooseTypeOK, Owns, Owning
    <3>2. allocated = Zero
      BY <3>1, NoOwnersZero DEF Ledger
    <3>3. QED
      BY <3>2 DEF Zero
  <2>7. \A w \in Work : staged[w] = {}
    BY <2>1 DEF LifecycleInv, StagedWhileCommitting
  <2>8. QED
    BY <2>2, <2>3, <2>4, <2>5, <2>6, <2>7 DEF DriverInv
<1>4. QED
  BY <1>1, <1>2, <1>3, PTL

-----------------------------------------------------------------------------
(* A round with work alive admits something *)

(* Between rounds nothing is owned and the whole budget is free.           *)
LEMMA AllFreeBetweenRounds ==
  ASSUME LifecycleInv, Ledger, DriverControl, DriverInv, pc = "admit"
  PROVE  allocated = Zero /\ \A w \in Work : ~Owns(state, w)
<1>1. round = {} /\ Committer = {}
  BY DEF DriverControl, Committer
<1>2. \A w \in Work : ~Owns(state, w)
  BY <1>1 DEF DriverInv, RoundOwns, Owns, Owning
<1>3. plan \in PlanType
  BY DEF LifecycleInv, LooseTypeOK
<1> QED BY <1>2, <1>3, NoOwnersZero DEF Ledger

(* The instances that live wait for each other in a circle, unless one of  *)
(* them waits for resources only, or for nothing.                          *)
LEMMA SomeCandidate ==
  ASSUME LifecycleInv, Accepts(plan), LiveWork # {}, \A w \in Work : ~Owns(state, w)
  PROVE  \E w \in Work : Candidate(w)
<1> SUFFICES ASSUME \A w \in Work : ~Candidate(w) PROVE FALSE
  OBVIOUS
<1>1. ASSUME NEW w \in LiveWork PROVE plan.deps[w] \cap LiveWork # {}
  <2>1. w \in Work /\ state[w] \in Lifecycle \ (Terminal \cup Owning)
    BY DEF LiveWork, LifecycleInv, LooseTypeOK, Owns
  <2>2. state[w] = "Blocked" /\ wait[w].on # "resources"
    BY <2>1 DEF Lifecycle, Terminal, Owning, Candidate
  <2>3. wait[w].on = "dependencies"
    BY <2>1, <2>2 DEF LifecycleInv, WaitShape
  <2>4. /\ wait[w].pending # {} /\ wait[w].pending \subseteq LiveWork
        /\ wait[w].pending = Pending(state, w)
    BY <2>1, <2>3 DEF LifecycleInv, WaitAccurate
  <2> QED BY <2>4 DEF Pending
<1>2. LiveWork \in SUBSET Work
  BY DEF LiveWork
<1> QED BY <1>1, <1>2 DEF Accepts, HasDependencyCycle

(* As long as nothing is admitted the scan has the whole budget to give.   *)
LEMMA FirstIsAdmitted ==
  ASSUME LifecycleInv, Accepts(plan), allocated = Zero, NEW w \in Work, Candidate(w)
  PROVE  Admitted # {}
<1> SUFFICES ASSUME Admitted = {} PROVE FALSE
  OBVIOUS
<1>0. N \in Nat /\ Work = 1 .. N /\ Budget \in Amount
  BY StoreAssumption, SchedulerAssumption DEF Work
<1> DEFINE S == {i \in 0 .. N : ScanAllocated[i] = Zero}
<1>1. 0 \in S
  BY <1>0, ScanEquation DEF LifecycleInv
<1>2. ASSUME NEW i \in 1 .. N, i - 1 \in S PROVE i \in S
  <2>1. ScanAllocated[i] = ScanStep(i, ScanAllocated[i-1])
    BY <1>0, ScanEquation DEF LifecycleInv
  <2>2. ~(Candidate(i) /\ FitsWithin(plan.reservation[i], Minus(Budget, ScanAllocated[i-1])))
    BY <1>0 DEF Admitted, Available
  <2> QED BY <1>2, <2>1, <2>2 DEF ScanStep
<1>3. ScanAllocated[w-1] = Zero
  <2> HIDE DEF S
  <2>1. 0 .. N \subseteq S
    BY <1>0, <1>1, <1>2, UpToInduction
  <2>2. w - 1 \in 0 .. N
    BY <1>0
  <2> QED BY <2>1, <2>2 DEF S
<1>4. FitsWithin(plan.reservation[w], Available(w))
  <2>1. Available(w) = Minus(Budget, Zero)
    BY <1>3 DEF Available
  <2>2. \A r \in Resources : Minus(Budget, Zero)[r] = Budget[r]
    BY <1>0 DEF Minus, Zero, Amount
  <2>3. FitsWithin(plan.reservation[w], Budget)
    BY DEF Accepts, ReservationAccepted
  <2> QED BY <2>1, <2>2, <2>3 DEF FitsWithin
<1> QED BY <1>4 DEF Admitted

(* The loop never finds live work that it cannot admit: between rounds the *)
(* whole budget is free, every reservation fits it, and of the live        *)
(* instances one waits for no other.  PhysicalWorkExecutionError::Stalled  *)
(* is never returned, whatever the plan and the computations.              *)
THEOREM NeverStalls == DriverSpec => [](outcome # "stalled")
<1>1. DriverSpec => [](LifecycleInv /\ PublicationInv /\ Ledger /\ DriverControl)
  BY DriverIsACaller, PublicationInvariant, LedgerInvariant, PTL
<1>2. DriverSpec => []DriverInv
  BY <1>1, DriverInvInit, DriverInvStep, PTL DEF DriverSpec
<1>3. DriverInit => Accepts(plan) /\ outcome # "stalled"
  BY DEF DriverInit, Init
<1>4. /\ LifecycleInv /\ Ledger /\ DriverControl /\ DriverInv
      /\ Accepts(plan) /\ outcome # "stalled" /\ [DriverNext]_driverVars
      => (Accepts(plan) /\ outcome # "stalled")'
  <2> SUFFICES ASSUME LifecycleInv, Ledger, DriverControl, DriverInv,
                      Accepts(plan), outcome # "stalled", [DriverNext]_driverVars
               PROVE  Accepts(plan') /\ outcome' # "stalled"
    BY DEF Accepts, ReservationAccepted, DependenciesBound, BoundKinds, HasDependencyCycle
  <2>1. plan' = plan
    <3>1. [Next]_vars
      BY DriverCalls
    <3> QED BY <3>1 DEF Next, vars, AdmitReady, StageOutputs, Commit, Fail, Cancel, EndWith
  <2>2. CASE Round
    <3>1. pc = "admit" /\ LiveWork # {}
      BY <2>2 DEF Round
    <3>2. allocated = Zero /\ \A w \in Work : ~Owns(state, w)
      BY <3>1, AllFreeBetweenRounds
    <3>3. Admitted # {}
      BY <3>1, <3>2, SomeCandidate, FirstIsAdmitted
    <3>4. outcome' = outcome
      BY <2>2, <3>3 DEF Round
    <3> QED BY <2>1, <3>4
  <2>3. CASE ~Round
    <3>1. outcome' # "stalled"
      BY <2>3 DEF DriverNext, driverVars, Report, Return, ComputeOk, ComputeRefused, ComputeErr, CommitHead
    <3> QED BY <2>1, <3>1
  <2> QED BY <2>2, <2>3
<1> QED BY <1>1, <1>2, <1>3, <1>4, PTL DEF DriverSpec
=============================================================================
