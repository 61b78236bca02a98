------------------------ MODULE CompilerWorkProofs ------------------------
(***************************************************************************)
(* Proofs about CompilerWorkPool, for every number of actions and of       *)
(* worker threads, every set of validated plans and every content of the   *)
(* store; and about InstantiationWorklist, for every set of definitions:   *)
(* it plans the least set of instances that holds the requested ones and   *)
(* is closed under calls.                                                  *)
(***************************************************************************)
EXTENDS CompilerWorkPool, InstantiationWorklist, FiniteSetTheorems, WellFoundedInduction, NaturalsInduction, TLAPS

-----------------------------------------------------------------------------
(* Sequences in ascending order *)

(* Every nonempty set of numbers has a least element.                      *)
LEMMA Smallest ==
  ASSUME NEW S \in SUBSET Nat, S # {}
  PROVE  \E m \in S : \A k \in S : m <= k
<1> DEFINE R == {ss \in Nat \X Nat : ss[1] < ss[2]}
<1>1. IsWellFoundedOn(R, Nat)
  BY NatLessThanWellFounded DEF OpToRel
<1>2. \E m \in S : \A k \in S : ~(<<k, m>> \in R)
  <2> HIDE DEF R
  <2>1. QED
    BY <1>1, WFMin
<1>3. PICK m \in S : \A k \in S : ~(<<k, m>> \in R)
  BY <1>2
<1>4. ASSUME NEW k \in S PROVE m <= k
  <2>1. k \in Nat /\ m \in Nat /\ ~(<<k, m>> \in R)
    BY <1>3
  <2>2. QED
    BY <2>1
<1>5. QED
  BY <1>4

(* Induction over 0 .. n: a set that holds 0 and is closed under           *)
(* successor up to n holds n.                                              *)
LEMMA ReachesBound ==
  ASSUME NEW n \in Nat, NEW S,
         0 \in S,
         \A i \in 1 .. n : i - 1 \in S => i \in S
  PROVE  n \in S
<1> DEFINE T == {i \in 0 .. n : i \notin S}
<1>1. SUFFICES ASSUME T # {} PROVE FALSE
  OBVIOUS
<1>2. PICK m \in T : \A k \in T : m <= k
  <2> HIDE DEF T
  <2>1. T \in SUBSET Nat
    BY DEF T
  <2>2. QED
    BY <1>1, <2>1, Smallest
<1>3. m \in 1 .. n /\ m - 1 \in 0 .. n
  OBVIOUS
<1>4. m - 1 \in S
  BY <1>2, <1>3
<1>5. QED
  BY <1>3, <1>4

(* s lists S in ascending order.                                           *)
InOrder(s, S) ==
  /\ s \in Seq(Nat)
  /\ \A i \in DOMAIN s : s[i] \in S
  /\ \A x \in S : \E i \in DOMAIN s : s[i] = x
  /\ \A i, j \in DOMAIN s : i < j => s[i] < s[j]

(* The numbers up to a bound can be listed: by induction on the bound, the *)
(* largest is appended.                                                    *)
LEMMA ListExists ==
  ASSUME NEW n \in Nat, NEW S \in SUBSET (1 .. n)
  PROVE  \E s : InOrder(s, S)
<1> DEFINE UpTo(m) == S \cap (1 .. m)
           T == {m \in 0 .. n : \E s : InOrder(s, UpTo(m))}
<1>1. 0 \in T
  <2>1. InOrder(<<>>, UpTo(0))
    BY DEF InOrder
  <2>2. QED
    BY <2>1
<1>2. ASSUME NEW m \in 1 .. n, m - 1 \in T PROVE m \in T
  <2>1. PICK s : InOrder(s, UpTo(m - 1))
    BY <1>2
  <2>2. CASE m \notin S
    <3>1. UpTo(m) = UpTo(m - 1)
      BY <2>2
    <3>2. InOrder(s, UpTo(m))
      <4> HIDE DEF UpTo
      <4>1. QED
        BY <2>1, <3>1
    <3>3. \E r : InOrder(r, UpTo(m))
      BY <3>2, Zenon
    <3>4. QED
      BY <3>3
  <2>3. CASE m \in S
    <3> DEFINE t == Append(s, m)
    <3>1. UpTo(m) = UpTo(m - 1) \cup {m}
      BY <2>3
    <3>2. /\ t \in Seq(Nat) /\ Len(t) = Len(s) + 1 /\ t[Len(t)] = m
          /\ \A i \in 1 .. Len(s) : t[i] = s[i]
      BY <2>1 DEF InOrder
    <3>3. DOMAIN t = 1 .. Len(s) + 1 /\ DOMAIN s = 1 .. Len(s) /\ Len(s) \in Nat
      BY <2>1 DEF InOrder
    <3>4. \A i \in DOMAIN t : t[i] \in UpTo(m)
      BY <2>1, <3>1, <3>2, <3>3 DEF InOrder
    <3>5. \A x \in UpTo(m) : \E i \in DOMAIN t : t[i] = x
      <4>1. ASSUME NEW x \in UpTo(m - 1) PROVE \E i \in DOMAIN t : t[i] = x
        BY <2>1, <3>2, <3>3 DEF InOrder
      <4>2. t[Len(s) + 1] = m /\ Len(s) + 1 \in DOMAIN t
        BY <3>2, <3>3
      <4>3. QED
        BY <3>1, <4>1, <4>2
    <3>6. ASSUME NEW i \in DOMAIN t, NEW j \in DOMAIN t, i < j PROVE t[i] < t[j]
      <4>1. CASE j = Len(s) + 1
        <5>1. i \in DOMAIN s /\ t[i] = s[i] /\ s[i] \in UpTo(m - 1)
          BY <2>1, <3>2, <3>3, <3>6, <4>1 DEF InOrder
        <5>2. QED
          BY <3>2, <4>1, <5>1
      <4>2. CASE j # Len(s) + 1
        <5>1. i \in DOMAIN s /\ j \in DOMAIN s
          BY <3>3, <3>6, <4>2
        <5>2. QED
          BY <2>1, <3>2, <3>3, <3>6, <5>1 DEF InOrder
      <4>3. QED
        BY <4>1, <4>2
    <3>7. InOrder(t, UpTo(m))
      <4> HIDE DEF t
      <4>1. QED
        BY <3>2, <3>4, <3>5, <3>6 DEF InOrder
    <3>8. \E r : InOrder(r, UpTo(m))
      BY <3>7, Zenon
    <3>9. QED
      BY <3>8
  <2>4. QED
    BY <2>2, <2>3
<1>3. n \in T
  <2> HIDE DEF T
  <2>1. QED
    BY <1>1, <1>2, ReachesBound
<1>4. UpTo(n) = S
  OBVIOUS
<1>5. QED
  BY <1>3, <1>4

(* Ascending is such a list, hence a sequence of S without repetition.     *)
LEMMA AscendingLists ==
  ASSUME NEW n \in Nat, NEW S \in SUBSET (1 .. n)
  PROVE  /\ Ascending(S) \in Seq(S)
         /\ \A x \in S : \E i \in DOMAIN Ascending(S) : Ascending(S)[i] = x
         /\ \A i, j \in DOMAIN Ascending(S) : i # j => Ascending(S)[i] # Ascending(S)[j]
<1>1. PICK s : InOrder(s, S)
  BY ListExists
<1>2. s \in Bijection(1 .. Len(s), S) /\ Len(s) \in Nat /\ DOMAIN s = 1 .. Len(s)
  <2>1. /\ Len(s) \in Nat /\ DOMAIN s = 1 .. Len(s)
        /\ s \in [1 .. Len(s) -> S]
    BY <1>1 DEF InOrder
  <2>2. \A i, j \in 1 .. Len(s) : s[i] = s[j] => i = j
    BY <1>1, <2>1 DEF InOrder
  <2>3. QED
    BY <1>1, <2>1, <2>2 DEF InOrder, Bijection, Injection, IsInjective, Surjection
<1>3. IsFiniteSet(S) /\ Cardinality(S) = Len(s)
  BY <1>2, FS_NatBijection, FS_CountingElements DEF ExistsBijection
<1>4. s \in SetToSeqs(S) /\ \A i, j \in DOMAIN s : i < j => s[i] < s[j]
  BY <1>1, <1>2, <1>3 DEF SetToSeqs, Bijection, Injection, IsInjective, InOrder
<1> DEFINE a == Ascending(S)
<1>5. a \in SetToSeqs(S) /\ \A i, j \in DOMAIN a : i < j => a[i] < a[j]
  BY <1>4 DEF Ascending
<1>6. a \in [1 .. Len(s) -> S] /\ \A i, j \in 1 .. Len(s) : i # j => a[i] # a[j]
  BY <1>3, <1>5 DEF SetToSeqs
<1>7. a \in Surjection(1 .. Len(s), S)
  <2>1. a \in Injection(1 .. Len(s), S)
    BY <1>6 DEF Injection, IsInjective
  <2>2. Cardinality(1 .. Len(s)) = Len(s)
    <3>1. 1 \in Int /\ Len(s) \in Int
      BY <1>2
    <3>2. Cardinality(1 .. Len(s)) = IF 1 > Len(s) THEN 0 ELSE Len(s) - 1 + 1
      BY <3>1, FS_Interval
    <3>3. QED
      BY <1>2, <3>2
  <2>3. QED
    BY <1>3, <2>1, <2>2, FS_Injection
<1>8. QED
  <2>1. a \in Seq(S) /\ DOMAIN a = 1 .. Len(s)
    BY <1>2, <1>6
  <2>2. QED
    BY <1>6, <1>7, <2>1 DEF Surjection

-----------------------------------------------------------------------------
(* The inductive invariant *)

Holders == {"dispatch", "compute", "ok", "err"}
Labels  == Holders \cup {"idle", "waiting", "notify", "exited"}

PoolTypeOK ==
  /\ plan \in Plans
  /\ selected \in SUBSET plan.actions /\ Selectable(plan, selected)
  /\ ready \in Seq(Work)
  /\ remaining \in [Work -> Int]
  /\ resolved \subseteq selected
  /\ successful \subseteq resolved
  /\ errors \subseteq resolved \ successful
  /\ store \in [Maps -> SUBSET Work]
  /\ pc \in [Workers -> Labels]
  /\ job \in [Workers -> Work \cup {None}]

(* What may run: not settled, and everything it reads was made.            *)
Runnable(v) == v \in selected \ resolved /\ Producers(plan, v) \subseteq successful

(* What is queued or held may run, and is in one place.                    *)
OnePlace ==
  /\ \A i \in DOMAIN ready : Runnable(ready[i])
  /\ \A i, j \in DOMAIN ready : i # j => ready[i] # ready[j]
  /\ \A t \in Workers : IF pc[t] \in Holders THEN Runnable(job[t]) ELSE job[t] = None
  /\ \A t \in Workers : \A i \in DOMAIN ready : job[t] # ready[i]
  /\ \A t, u \in Workers : t # u /\ job[t] # None => job[t] # job[u]

(* The counter of an action that is not settled is the number of its       *)
(* inputs that are still to be made.                                       *)
Pending(v) == {i \in DOMAIN plan.inputs[v] : plan.inputs[v][i] \notin successful}

CountersExact == \A v \in selected \ resolved : remaining[v] = Cardinality(Pending(v))

(* What is given up is closed under dependents, and begins with an error.  *)
GivenUp == resolved \ successful

FailureSpreads ==
  /\ \A v \in selected : Producers(plan, v) \cap GivenUp # {} => v \in GivenUp
  /\ \A v \in GivenUp \ errors : Producers(plan, v) \cap GivenUp # {}

(* The store tells the kinds apart, and has what has been made.            *)
StoreHolds ==
  /\ \A m \in Maps : \A w \in store[m] : plan.kind[w] # "delegated" /\ Publishes[plan.kind[w]] = m
  /\ \A w \in successful : w \in store[Publishes[plan.kind[w]]]
  /\ \A t \in Workers : pc[t] = "ok" => job[t] \in store[Publishes[plan.kind[job[t]]]]

(* What failed is broken, what succeeded is not, also on its way.          *)
BrokenFail ==
  /\ successful \cap Broken = {}
  /\ errors \subseteq Broken
  /\ \A w \in successful \cup errors : Producers(plan, w) \subseteq successful
  /\ \A t \in Workers : /\ pc[t] = "compute" => ~IllKinded(job[t])
                        /\ pc[t] = "ok" => job[t] \notin Broken
                        /\ pc[t] = "err" => job[t] \in Broken

ExitsLast == \A t \in Workers : pc[t] = "exited" => resolved = selected

PoolInv == /\ PoolTypeOK /\ OnePlace /\ CountersExact /\ FailureSpreads
           /\ StoreHolds /\ BrokenFail /\ ExitsLast

LEMMA PlanFacts ==
  ASSUME PoolTypeOK
  PROVE  /\ selected \subseteq Work /\ None \notin Work
         /\ plan.kind \in [Work -> Kinds]
         /\ plan.semantic \in [Work -> Work \cup {None}]
         /\ \A v \in Work : /\ plan.inputs[v] \in Seq(Work)
                            /\ IsFiniteSet(DOMAIN plan.inputs[v])
                            /\ Producers(plan, v) \subseteq Work
                            /\ plan.semantic[v] # None => plan.semantic[v] \in Producers(plan, v)
         /\ \A v \in selected : Producers(plan, v) \subseteq selected
         /\ \A S \in SUBSET Work : S # {} => \E w \in S : Producers(plan, w) \cap S = {}
<1>1. plan \in PlanType /\ Validated(plan) /\ None \notin Work
  BY PoolAssumption DEF PoolTypeOK
<1>2. selected \subseteq Work
  BY <1>1 DEF PoolTypeOK, PlanType
<1>3. ASSUME NEW v \in Work
      PROVE  plan.inputs[v] \in Seq(Work) /\ IsFiniteSet(DOMAIN plan.inputs[v])
  <2>1. plan.inputs[v] \in Seq(Work)
    BY <1>1 DEF PlanType
  <2>2. DOMAIN plan.inputs[v] = 1 .. Len(plan.inputs[v]) /\ Len(plan.inputs[v]) \in Int /\ 1 \in Int
    BY <2>1
  <2>3. IsFiniteSet(1 .. Len(plan.inputs[v]))
    BY <2>2, FS_Interval
  <2>4. QED
    BY <2>1, <2>2, <2>3
<1>4. \A v \in Work : Producers(plan, v) \subseteq Work
  BY <1>3 DEF Producers
<1>5. QED
  BY <1>1, <1>2, <1>3, <1>4 DEF Validated, Selectable, PoolTypeOK, PlanType

(* The workers wake, sleep and exit; nobody touches the schedule.          *)
LEMMA WorkersOnly ==
  ASSUME PoolInv, UNCHANGED <<constants, schedule, store, job>>,
         pc' \in [Workers -> Labels],
         \A t \in Workers : /\ pc'[t] \in Holders \/ pc[t] \in Holders => pc'[t] = pc[t]
                            /\ pc'[t] = "exited" => pc[t] = "exited" \/ resolved = selected
  PROVE  PoolInv'
<1> USE DEF constants, schedule
<1>1. PoolTypeOK'
  BY DEF PoolInv, PoolTypeOK, Selectable
<1>2. OnePlace'
  BY DEF PoolInv, OnePlace, Runnable
<1>3. CountersExact' /\ FailureSpreads'
  BY DEF PoolInv, CountersExact, Pending, FailureSpreads, GivenUp
<1>4. StoreHolds'
  BY DEF PoolInv, StoreHolds, Holders
<1>5. BrokenFail'
  <2>1. Broken' = Broken /\ \A v : IllKinded(v)' = IllKinded(v)
    BY DEF Broken, IllKinded
  <2>2. QED
    BY <2>1 DEF PoolInv, BrokenFail, Holders
<1>6. ExitsLast'
  BY DEF PoolInv, ExitsLast
<1>7. QED
  BY <1>1, <1>2, <1>3, <1>4, <1>5, <1>6 DEF PoolInv

LEMMA PopKeeps ==
  ASSUME PoolInv, NEW t \in Workers, Pop(t)
  PROVE  PoolInv'
<1> USE DEF constants
<1> DEFINE w == ready[1]
<1>1. /\ pc[t] = "idle" /\ pc' = [pc EXCEPT ![t] = "dispatch"]
      /\ ready # <<>> /\ job' = [job EXCEPT ![t] = w] /\ ready' = Tail(ready)
      /\ UNCHANGED <<constants, remaining, resolved, successful, errors, store>>
  BY DEF Pop, GoTo
<1>2. /\ ready \in Seq(Work) /\ pc \in [Workers -> Labels] /\ job \in [Workers -> Work \cup {None}]
      /\ None \notin Work
  BY PlanFacts DEF PoolInv, PoolTypeOK
<1>3. /\ ready' \in Seq(Work) /\ 1 \in DOMAIN ready /\ w \in Work /\ Len(ready) \in Nat
      /\ DOMAIN ready = 1 .. Len(ready) /\ DOMAIN ready' = 1 .. Len(ready) - 1
      /\ \A i \in DOMAIN ready' : i + 1 \in DOMAIN ready /\ ready'[i] = ready[i+1] /\ i + 1 # 1
  BY <1>1, <1>2
<1>4. PoolTypeOK'
  BY <1>1, <1>2, <1>3 DEF PoolInv, PoolTypeOK, Selectable, Labels, Holders
<1>5. OnePlace'
  <2>1. \A v : Runnable(v)' = Runnable(v)
    BY <1>1 DEF Runnable
  <2>2. Runnable(w) /\ \A u \in Workers : job[u] # w
    BY <1>3 DEF PoolInv, OnePlace
  <2>3. \A i \in DOMAIN ready' : Runnable(ready'[i]) /\ ready'[i] # w
    BY <1>3 DEF PoolInv, OnePlace
  <2>4. \A i, j \in DOMAIN ready' : i # j => ready'[i] # ready'[j]
    BY <1>3 DEF PoolInv, OnePlace
  <2>5. \A u \in Workers : IF pc'[u] \in Holders THEN Runnable(job'[u]) ELSE job'[u] = None
    BY <1>1, <1>2, <2>2 DEF PoolInv, OnePlace, Holders
  <2>6. \A u \in Workers : \A i \in DOMAIN ready' : job'[u] # ready'[i]
    BY <1>1, <1>2, <1>3, <2>3 DEF PoolInv, OnePlace
  <2>7. \A u, v \in Workers : u # v /\ job'[u] # None => job'[u] # job'[v]
    <3>1. \A u \in Workers : job'[u] = IF u = t THEN w ELSE job[u]
      BY <1>1, <1>2
    <3> HIDE DEF w
    <3>2. QED
      BY <2>2, <3>1 DEF PoolInv, OnePlace
  <2>8. QED
    BY <2>1, <2>3, <2>4, <2>5, <2>6, <2>7 DEF OnePlace
<1>6. CountersExact' /\ FailureSpreads'
  BY <1>1 DEF PoolInv, CountersExact, Pending, FailureSpreads, GivenUp
<1>7. StoreHolds'
  BY <1>1, <1>2 DEF PoolInv, StoreHolds
<1>8. BrokenFail'
  <2>1. Broken' = Broken /\ \A v : IllKinded(v)' = IllKinded(v)
    BY <1>1 DEF Broken, IllKinded
  <2>2. QED
    BY <1>1, <1>2, <2>1 DEF PoolInv, BrokenFail
<1>9. ExitsLast'
  BY <1>1, <1>2 DEF PoolInv, ExitsLast
<1>10. QED
  BY <1>4, <1>5, <1>6, <1>7, <1>8, <1>9 DEF PoolInv

(* The input of an action that may run was made, so it is found in the     *)
(* store exactly if it is of a kind that the action can read.              *)
LEMMA DispatchKeeps ==
  ASSUME PoolInv, NEW t \in Workers, Dispatch(t)
  PROVE  PoolInv'
<1> USE DEF constants, schedule
<1> DEFINE w == job[t]
<1>1. /\ pc[t] = "dispatch" /\ UNCHANGED <<constants, schedule, store, job>>
      /\ pc' = [pc EXCEPT ![t] =
                  IF plan.kind[w] = "LowerSource" THEN "compute"
                  ELSE IF plan.kind[w] \in DOMAIN Reads /\ HasInput(w, Reads[plan.kind[w]])
                       THEN "compute" ELSE "err"]
  BY DEF Dispatch, GoTo
<1>2. pc \in [Workers -> Labels] /\ store \in [Maps -> SUBSET Work]
  BY DEF PoolInv, PoolTypeOK
<1>3. Runnable(w) /\ w \in selected /\ w \in Work /\ plan.kind[w] \in Kinds
  BY <1>1, PlanFacts DEF PoolInv, OnePlace, Holders, Runnable
<1>4. pc'[t] \in {"compute", "err"} /\ \A u \in Workers : u # t => pc'[u] = pc[u]
  BY <1>1, <1>2
<1>5. pc' \in [Workers -> Labels]
  BY <1>1, <1>2 DEF Labels, Holders
<1>6. ASSUME plan.semantic[w] # None
      PROVE  plan.semantic[w] \in store[Publishes[plan.kind[plan.semantic[w]]]]
  <2>1. plan.semantic[w] \in Producers(plan, w)
    BY <1>3, <1>6, PlanFacts DEF PoolInv
  <2>2. plan.semantic[w] \in successful
    BY <1>3, <2>1 DEF Runnable
  <2>3. QED
    BY <2>2 DEF PoolInv, StoreHolds
<1>7. pc'[t] = "compute" => ~IllKinded(w)
  <2>1. CASE plan.kind[w] = "LowerSource"
    BY <2>1 DEF IllKinded
  <2>2. CASE plan.kind[w] # "LowerSource" /\ plan.kind[w] \in DOMAIN Reads /\ HasInput(w, Reads[plan.kind[w]])
    <3>1. Reads[plan.kind[w]] \in Maps /\ plan.kind[w] # "delegated"
      BY <2>2 DEF Reads, Maps
    <3>2. QED
      BY <2>2, <3>1 DEF PoolInv, StoreHolds, HasInput, IllKinded
  <2>3. QED
    BY <1>1, <1>2, <2>1, <2>2
<1>8. pc'[t] = "err" => IllKinded(w)
  <2> SUFFICES ASSUME pc'[t] = "err" PROVE IllKinded(w)
    OBVIOUS
  <2>1. plan.kind[w] # "LowerSource" /\ ~(plan.kind[w] \in DOMAIN Reads /\ HasInput(w, Reads[plan.kind[w]]))
    BY <1>1, <1>2
  <2>2. plan.kind[w] \in DOMAIN Reads \/ plan.kind[w] = "delegated"
    BY <1>3, <2>1 DEF Kinds, Reads
  <2>3. QED
    BY <1>6, <2>1, <2>2 DEF HasInput, IllKinded
<1>9. Broken' = Broken /\ \A v : IllKinded(v)' = IllKinded(v)
  BY <1>1 DEF Broken, IllKinded
<1>10. BrokenFail'
  <2> HIDE DEF w
  <2>1. job'[t] = w /\ job' = job
    BY <1>1 DEF w
  <2>2. IllKinded(w) => w \in Broken
    BY <1>3 DEF Broken
  <2>3. QED
    BY <1>1, <1>4, <1>7, <1>8, <1>9, <2>1, <2>2 DEF PoolInv, BrokenFail
<1>11. PoolTypeOK'
  BY <1>1, <1>5 DEF PoolInv, PoolTypeOK, Selectable
<1>12. OnePlace'
  BY <1>1, <1>2, <1>4 DEF PoolInv, OnePlace, Runnable, Holders
<1>13. CountersExact' /\ FailureSpreads'
  BY <1>1 DEF PoolInv, CountersExact, Pending, FailureSpreads, GivenUp
<1>14. StoreHolds' /\ ExitsLast'
  BY <1>1, <1>4 DEF PoolInv, StoreHolds, ExitsLast
<1>15. QED
  BY <1>10, <1>11, <1>12, <1>13, <1>14 DEF PoolInv

LEMMA ComputeKeeps ==
  ASSUME PoolInv, NEW t \in Workers, Compute(t)
  PROVE  PoolInv'
<1> USE DEF constants, schedule
<1> DEFINE w == job[t]
           m == Publishes[plan.kind[w]]
<1>1. pc[t] = "compute" /\ UNCHANGED <<constants, schedule, job>>
  BY DEF Compute
<1>2. /\ pc \in [Workers -> Labels] /\ store \in [Maps -> SUBSET Work]
      /\ Runnable(w) /\ w \in selected /\ w \in Work /\ plan.kind[w] \in Kinds
  BY <1>1, PlanFacts DEF PoolInv, PoolTypeOK, OnePlace, Holders, Runnable
<1>3. ~IllKinded(w) /\ plan.kind[w] # "delegated" /\ m \in Maps
  <2>1. ~IllKinded(w)
    BY <1>1 DEF PoolInv, BrokenFail
  <2>2. plan.kind[w] # "delegated"
    BY <2>1 DEF IllKinded
  <2>3. m \in Maps
    BY <1>2, <2>2 DEF Kinds, Publishes, Maps
  <2>4. QED
    BY <2>1, <2>2, <2>3
<1>4. \/ w \in plan.fails /\ pc' = [pc EXCEPT ![t] = "err"] /\ store' = store
      \/ w \notin plan.fails /\ pc' = [pc EXCEPT ![t] = "ok"]
         /\ store' = [store EXCEPT ![m] = @ \cup {w}]
  BY DEF Compute, GoTo
<1>5. pc' \in [Workers -> Labels] /\ pc'[t] \in {"ok", "err"} /\ \A u \in Workers : u # t => pc'[u] = pc[u]
  BY <1>2, <1>4 DEF Labels, Holders
<1>6. /\ store' \in [Maps -> SUBSET Work]
      /\ \A n \in Maps : /\ store[n] \subseteq store'[n]
                         /\ \A v \in store'[n] : v \in store[n] \/ (v = w /\ n = m)
  BY <1>2, <1>3, <1>4
<1>7. pc'[t] = "ok" => w \in store'[m] /\ w \notin Broken
  <2>1. pc'[t] = "ok" => w \notin plan.fails /\ w \in store'[m]
    BY <1>2, <1>3, <1>4
  <2>2. QED
    BY <1>3, <2>1 DEF Broken
<1>8. pc'[t] = "err" => w \in Broken
  <2>1. pc'[t] = "err" => w \in plan.fails
    BY <1>2, <1>4
  <2>2. QED
    BY <1>2, <2>1 DEF Broken
<1>9. Broken' = Broken /\ \A v : IllKinded(v)' = IllKinded(v)
  BY <1>1 DEF Broken, IllKinded
<1>10. BrokenFail'
  <2>1. \A u \in Workers : job'[u] = job[u]
    BY <1>1
  <2>2. job'[t] = w
    BY <2>1
  <2> HIDE DEF w, m
  <2>3. QED
    BY <1>1, <1>5, <1>7, <1>8, <1>9, <2>1, <2>2 DEF PoolInv, BrokenFail
<1>11. PoolTypeOK'
  BY <1>1, <1>5, <1>6 DEF PoolInv, PoolTypeOK, Selectable
<1>12. OnePlace'
  BY <1>1, <1>5 DEF PoolInv, OnePlace, Runnable, Holders
<1>13. CountersExact' /\ FailureSpreads'
  BY <1>1 DEF PoolInv, CountersExact, Pending, FailureSpreads, GivenUp
<1>14. StoreHolds'
  <2>1. \A n \in Maps : \A v \in store'[n] : plan.kind[v] # "delegated" /\ Publishes[plan.kind[v]] = n
    BY <1>3, <1>6 DEF PoolInv, StoreHolds
  <2>2. ASSUME NEW v \in Work, v \in store[Publishes[plan.kind[v]]], plan.kind[v] # "delegated"
        PROVE  v \in store'[Publishes[plan.kind[v]]]
    <3>1. plan.kind[v] \in Kinds
      BY PlanFacts DEF PoolInv
    <3>2. Publishes[plan.kind[v]] \in Maps
      BY <2>2, <3>1 DEF Kinds, Publishes, Maps
    <3>3. QED
      BY <1>6, <2>2, <3>2
  <2>3. ASSUME NEW v \in successful PROVE v \in store'[Publishes[plan.kind[v]]]
    <3>1. v \in Work /\ v \in selected /\ v \in store[Publishes[plan.kind[v]]]
      BY PlanFacts DEF PoolInv, PoolTypeOK, StoreHolds
    <3>2. plan.kind[v] # "delegated"
      <4>1. v \notin Broken
        BY DEF PoolInv, BrokenFail
      <4>2. QED
        BY <3>1, <4>1 DEF Broken, IllKinded
    <3>3. QED
      BY <2>2, <3>1, <3>2
  <2>4. ASSUME NEW u \in Workers, pc'[u] = "ok" PROVE job[u] \in store'[Publishes[plan.kind[job[u]]]]
    <3>1. CASE u = t
      BY <1>7, <2>4, <3>1
    <3>2. CASE u # t
      <4>1. pc[u] = "ok"
        BY <1>5, <2>4, <3>2
      <4>2. job[u] \in selected /\ job[u] \in Work /\ job[u] \in store[Publishes[plan.kind[job[u]]]]
        BY <4>1, PlanFacts DEF PoolInv, OnePlace, Holders, Runnable, StoreHolds
      <4>3. job[u] \notin Broken
        BY <4>1 DEF PoolInv, BrokenFail
      <4>4. plan.kind[job[u]] # "delegated"
        BY <4>2, <4>3 DEF Broken, IllKinded
      <4>5. QED
        BY <2>2, <4>2, <4>4
    <3>3. QED
      BY <3>1, <3>2
  <2>5. QED
    BY <1>1, <2>1, <2>3, <2>4 DEF StoreHolds
<1>15. ExitsLast'
  BY <1>1, <1>5 DEF PoolInv, ExitsLast
<1>16. QED
  BY <1>10, <1>11, <1>12, <1>13, <1>14, <1>15 DEF PoolInv

(* Settled actions are neither queued nor held by anybody else, and what   *)
(* is not settled reads nothing that was given up.                         *)
LEMMA HeldAlone ==
  ASSUME PoolInv, NEW t \in Workers, pc[t] \in Holders
  PROVE  /\ Runnable(job[t]) /\ job[t] \in Work /\ job[t] \in selected
         /\ job[t] \notin resolved /\ Producers(plan, job[t]) \subseteq successful
         /\ \A u \in Workers : u # t => job[u] # job[t]
         /\ \A i \in DOMAIN ready : ready[i] # job[t]
<1>1. Runnable(job[t])
  BY DEF PoolInv, OnePlace
<1>2. job[t] \in selected /\ job[t] \notin resolved /\ Producers(plan, job[t]) \subseteq successful
  BY <1>1 DEF Runnable
<1>3. job[t] \in Work /\ job[t] # None
  BY <1>2, PlanFacts DEF PoolInv
<1>4. QED
  BY <1>1, <1>2, <1>3 DEF PoolInv, OnePlace

(* A success takes its edges off the counters of its dependents.           *)
LEMMA CountersFall ==
  ASSUME PoolInv, NEW w \in selected \ resolved, NEW v \in selected \ (resolved \cup {w})
  PROVE  LET after == {i \in DOMAIN plan.inputs[v] : plan.inputs[v][i] \notin successful \cup {w}}
             left  == IF v \in Dependents(w) THEN remaining[v] - Cardinality(Edges(w, v))
                                             ELSE remaining[v]
         IN  /\ left = Cardinality(after)
             /\ left = 0 <=> Producers(plan, v) \subseteq successful \cup {w}
<1> DEFINE after == {i \in DOMAIN plan.inputs[v] : plan.inputs[v][i] \notin successful \cup {w}}
           left  == IF v \in Dependents(w) THEN remaining[v] - Cardinality(Edges(w, v))
                                           ELSE remaining[v]
<1>1. v \in Work /\ IsFiniteSet(DOMAIN plan.inputs[v]) /\ w \notin successful
  BY PlanFacts DEF PoolInv, PoolTypeOK
<1>2. /\ IsFiniteSet(Pending(v)) /\ IsFiniteSet(after) /\ IsFiniteSet(Edges(w, v))
  <2>1. /\ Pending(v) \in SUBSET DOMAIN plan.inputs[v] /\ after \in SUBSET DOMAIN plan.inputs[v]
        /\ Edges(w, v) \in SUBSET DOMAIN plan.inputs[v]
    BY DEF Pending, Edges
  <2> HIDE DEF after
  <2>2. QED
    BY <1>1, <2>1, FS_Subset
<1>3. after = Pending(v) \ Edges(w, v) /\ Pending(v) \cap Edges(w, v) = Edges(w, v)
  BY <1>1 DEF Pending, Edges
<1>4. Cardinality(after) = Cardinality(Pending(v)) - Cardinality(Edges(w, v))
  <2>1. Cardinality(Pending(v) \ Edges(w, v))
          = Cardinality(Pending(v)) - Cardinality(Pending(v) \cap Edges(w, v))
    BY <1>2, FS_Difference
  <2>2. QED
    BY <1>3, <2>1
<1>5. remaining[v] = Cardinality(Pending(v)) /\ Cardinality(Pending(v)) \in Nat
  BY <1>2, FS_CardinalityType DEF PoolInv, CountersExact
<1>6. v \notin Dependents(w) => Cardinality(Edges(w, v)) = 0
  BY FS_EmptySet DEF Dependents
<1>7. left = Cardinality(after)
  BY <1>4, <1>5, <1>6
<1>8. Cardinality(after) = 0 <=> after = {}
  BY <1>2, FS_EmptySet
<1>9. after = {} <=> Producers(plan, v) \subseteq successful \cup {w}
  BY DEF Producers
<1>10. QED
  BY <1>7, <1>8, <1>9

LEMMA ResolveOkKeeps ==
  ASSUME PoolInv, NEW t \in Workers, ResolveOk(t)
  PROVE  PoolInv'
<1> USE DEF constants
<1> DEFINE w     == job[t]
           over  == resolved \cup {w}
           left  == [v \in Work |-> IF v \in Dependents(w) \ over
                                    THEN remaining[v] - Cardinality(Edges(w, v)) ELSE remaining[v]]
           fresh == {v \in Dependents(w) \ over : left[v] = 0}
           new   == Ascending(fresh)
<1>1. /\ pc[t] = "ok" /\ pc' = [pc EXCEPT ![t] = "notify"] /\ job' = [job EXCEPT ![t] = None]
      /\ resolved' = over /\ successful' = successful \cup {w}
      /\ remaining' = left /\ ready' = ready \o new
      /\ UNCHANGED <<constants, errors, store>>
  BY DEF ResolveOk, GoTo
<1>2. /\ w \in Work /\ w \in selected /\ w \notin resolved /\ w \notin successful
      /\ Producers(plan, w) \subseteq successful /\ w # None
      /\ \A u \in Workers : u # t => job[u] # w
      /\ \A i \in DOMAIN ready : ready[i] # w
  BY <1>1, HeldAlone, PlanFacts DEF Holders, PoolInv, PoolTypeOK
<1>3. /\ ready \in Seq(Work) /\ pc \in [Workers -> Labels] /\ job \in [Workers -> Work \cup {None}]
      /\ remaining \in [Work -> Int] /\ selected \subseteq Work /\ None \notin Work
  BY PlanFacts DEF PoolInv, PoolTypeOK
<1>4. \A v \in selected \ over : /\ left[v] = Cardinality(Pending(v))'
                                 /\ left[v] = 0 <=> Producers(plan, v) \subseteq successful \cup {w}
  <2> SUFFICES ASSUME NEW v \in selected \ over
               PROVE  /\ left[v] = Cardinality(Pending(v))'
                      /\ left[v] = 0 <=> Producers(plan, v) \subseteq successful \cup {w}
    OBVIOUS
  <2>1. left[v] = IF v \in Dependents(w) THEN remaining[v] - Cardinality(Edges(w, v)) ELSE remaining[v]
    BY <1>3
  <2>2. Cardinality(Pending(v))'
          = Cardinality({i \in DOMAIN plan.inputs[v] : plan.inputs[v][i] \notin successful \cup {w}})
    BY <1>1 DEF Pending
  <2>3. w \in selected \ resolved /\ v \in selected \ (resolved \cup {w})
    BY <1>2
  <2> HIDE DEF left, w
  <2>4. QED
    BY <2>1, <2>2, <2>3, CountersFall
<1>5. /\ fresh \subseteq selected \ over
      /\ \A v \in fresh : /\ Producers(plan, v) \subseteq successful \cup {w}
                          /\ ~(Producers(plan, v) \subseteq successful)
  <2>1. \A v \in fresh : v \in selected \ over /\ left[v] = 0 /\ w \in Producers(plan, v)
    BY DEF Dependents, Edges, Producers
  <2>2. QED
    BY <1>2, <1>4, <2>1
<1>6. /\ new \in Seq(fresh)
      /\ \A i, j \in DOMAIN new : i # j => new[i] # new[j]
  <2>1. fresh \in SUBSET (1 .. N) /\ N \in Nat
    BY <1>3, <1>5, PoolAssumption DEF Work
  <2> HIDE DEF fresh
  <2>2. QED
    BY <2>1, AscendingLists
<1>7. remaining' \in [Work -> Int]
  <2>1. ASSUME NEW v \in Work PROVE Cardinality(Edges(w, v)) \in Int
    <3>1. Edges(w, v) \in SUBSET DOMAIN plan.inputs[v] /\ IsFiniteSet(DOMAIN plan.inputs[v])
      BY PlanFacts DEF PoolInv, Edges
    <3>2. IsFiniteSet(Edges(w, v))
      BY <3>1, FS_Subset
    <3>3. QED
      BY <3>2, FS_CardinalityType
  <2>2. QED
    BY <1>1, <1>3, <2>1
<1> HIDE DEF w, over, left, fresh, new
<1>8. /\ new \in Seq(Work) /\ ready' \in Seq(Work)
      /\ \A i \in DOMAIN ready' : \/ i \in DOMAIN ready /\ ready'[i] = ready[i]
                                  \/ i \notin DOMAIN ready /\ i - Len(ready) \in DOMAIN new
                                     /\ ready'[i] = new[i - Len(ready)]
      /\ \A i \in DOMAIN new : new[i] \in fresh
      /\ Len(ready) \in Nat /\ DOMAIN ready' \subseteq Nat
  BY <1>1, <1>3, <1>5, <1>6
<1>9. PoolTypeOK'
  <2>1. job' \in [Workers -> Work \cup {None}] /\ pc' \in [Workers -> Labels]
    BY <1>1, <1>3 DEF Labels
  <2>2. over \subseteq selected /\ successful' \subseteq over /\ errors \subseteq over \ successful'
    BY <1>1, <1>2 DEF PoolInv, PoolTypeOK, over
  <2>3. QED
    BY <1>1, <1>7, <1>8, <2>1, <2>2 DEF PoolInv, PoolTypeOK, Selectable
<1> DEFINE RunnableNext(v) == v \in selected' \ resolved' /\ Producers(plan', v) \subseteq successful'
<1>10. /\ \A v : Runnable(v) /\ v # w => RunnableNext(v)
       /\ \A v \in fresh : RunnableNext(v) /\ ~Runnable(v)
  BY <1>1, <1>5 DEF Runnable, over
<1> HIDE DEF RunnableNext
<1>11. OnePlace'
  <2>1. \A i \in DOMAIN ready' : RunnableNext(ready'[i])
    BY <1>2, <1>8, <1>10 DEF PoolInv, OnePlace
  <2>2. ASSUME NEW i \in DOMAIN ready', NEW j \in DOMAIN ready', i # j PROVE ready'[i] # ready'[j]
    <3>1. \A k \in DOMAIN ready : ready[k] \notin fresh
      BY <1>10 DEF PoolInv, OnePlace
    <3>2. CASE i \in DOMAIN ready /\ j \in DOMAIN ready
      BY <1>8, <2>2, <3>2 DEF PoolInv, OnePlace
    <3>3. CASE i \notin DOMAIN ready /\ j \notin DOMAIN ready
      <4>1. i - Len(ready) # j - Len(ready)
        BY <1>8, <2>2
      <4>2. QED
        BY <1>6, <1>8, <3>3, <4>1
    <3>4. QED
      BY <1>8, <3>1, <3>2, <3>3
  <2>3. \A u \in Workers : /\ u # t => job'[u] = job[u] /\ pc'[u] = pc[u]
                           /\ job'[t] = None /\ pc'[t] = "notify"
    BY <1>1, <1>3
  <2>4. \A u \in Workers : IF pc'[u] \in Holders THEN RunnableNext(job'[u]) ELSE job'[u] = None
    BY <1>2, <1>10, <2>3 DEF PoolInv, OnePlace, Holders
  <2>5. ASSUME NEW u \in Workers, NEW i \in DOMAIN ready' PROVE job'[u] # ready'[i]
    <3>1. CASE u = t
      BY <1>3, <1>8, <1>9, <2>3, <3>1 DEF PoolTypeOK
    <3>2. CASE u # t
      <4>1. job[u] \notin fresh
        <5>1. Runnable(job[u]) \/ job[u] = None
          BY DEF PoolInv, OnePlace
        <5>2. None \notin fresh
          BY <1>3, <1>5
        <5>3. QED
          BY <1>10, <5>1, <5>2
      <4>2. QED
        BY <1>8, <2>3, <3>2, <4>1 DEF PoolInv, OnePlace
    <3>3. QED
      BY <3>1, <3>2
  <2>6. \A u, v \in Workers : u # v /\ job'[u] # None => job'[u] # job'[v]
    BY <2>3 DEF PoolInv, OnePlace
  <2>7. QED
    BY <2>1, <2>2, <2>4, <2>5, <2>6 DEF OnePlace, RunnableNext, Runnable
<1>12. CountersExact'
  BY <1>1, <1>4 DEF CountersExact
<1>13. GivenUp' = GivenUp
  BY <1>1, <1>2 DEF GivenUp, over
<1>14. FailureSpreads'
  BY <1>1, <1>13 DEF PoolInv, FailureSpreads
<1>15. \A u \in Workers : /\ u # t => job'[u] = job[u] /\ pc'[u] = pc[u]
                          /\ pc'[t] = "notify"
  BY <1>1, <1>3
<1>16. w = job[t]
  BY DEF w
<1>17. StoreHolds'
  <2>1. plan' = plan /\ store' = store /\ successful' = successful \cup {w}
    BY <1>1
  <2>2. w \in store[Publishes[plan.kind[w]]]
    BY <1>1, <1>16 DEF PoolInv, StoreHolds
  <2>3. \A v \in successful' : v \in store'[Publishes[plan'.kind[v]]]
    BY <2>1, <2>2 DEF PoolInv, StoreHolds
  <2>4. \A u \in Workers : pc'[u] = "ok" => job'[u] \in store'[Publishes[plan'.kind[job'[u]]]]
    BY <1>15, <2>1 DEF PoolInv, StoreHolds
  <2>5. QED
    BY <2>1, <2>3, <2>4 DEF PoolInv, StoreHolds
<1>18. BrokenFail'
  <2>1. Broken' = Broken /\ \A v : IllKinded(v)' = IllKinded(v)
    BY <1>1 DEF Broken, IllKinded
  <2>2. w \notin Broken
    BY <1>1, <1>16 DEF PoolInv, BrokenFail
  <2>3. QED
    BY <1>1, <1>2, <1>15, <2>1, <2>2 DEF PoolInv, BrokenFail
<1>19. ExitsLast'
  <2>1. ASSUME NEW u \in Workers, pc'[u] = "exited" PROVE FALSE
    <3>1. pc[u] = "exited"
      BY <1>15, <2>1
    <3>2. resolved = selected
      BY <3>1 DEF PoolInv, ExitsLast
    <3>3. QED
      BY <1>2, <3>2
  <2>2. QED
    BY <2>1 DEF ExitsLast
<1>20. QED
  BY <1>9, <1>11, <1>12, <1>14, <1>17, <1>18, <1>19 DEF PoolInv

LEMMA DependentsRead ==
  ASSUME NEW w, NEW v
  PROVE  v \in Dependents(w) <=> v \in selected /\ w \in Producers(plan, v)
BY DEF Dependents, Edges, Producers

(* The worklist of a failure reaches all dependents, none but through      *)
(* dependents, and nothing that has succeeded or may run.                  *)
LEMMA PoisonedSpreads ==
  ASSUME PoolInv, NEW w, Runnable(w)
  PROVE  LET settled == resolved \cup {w} IN
         /\ Poisoned(w) \subseteq selected
         /\ \A v \in Poisoned(w) \cup {w} : Dependents(v) \ settled \subseteq Poisoned(w)
         /\ \A v \in Poisoned(w) : v \notin successful /\ ~Runnable(v)
         /\ \A v \in Poisoned(w) : Producers(plan, v) \cap (Poisoned(w) \cup {w}) # {}
<1> DEFINE settled     == resolved \cup {w}
           Downward(S) == \A v \in S \cup {w} : Dependents(v) \ settled \subseteq S
           P           == {v \in selected : \A S \in SUBSET selected : Downward(S) => v \in S}
<1>1. Poisoned(w) = P
  BY DEF Poisoned
<1>2. \A v \in P \cup {w} : Dependents(v) \ settled \subseteq P
  <2> SUFFICES ASSUME NEW v \in P \cup {w}, NEW u \in Dependents(v) \ settled,
                      NEW S \in SUBSET selected, Downward(S)
               PROVE  u \in S
    BY DependentsRead
  <2>1. v \in S \cup {w}
    OBVIOUS
  <2>2. QED
    BY <2>1
<1>3. \A v \in P : v \notin successful /\ ~Runnable(v)
  <2> DEFINE S == {v \in selected : v \notin successful /\ ~Runnable(v)}
  <2>1. ASSUME NEW v \in S \cup {w}, NEW u \in Dependents(v) \ settled PROVE u \in S
    <3>1. v \notin successful
      BY DEF Runnable, PoolInv, PoolTypeOK
    <3>2. u \in selected /\ v \in Producers(plan, u) /\ u \notin successful
      BY DependentsRead DEF PoolInv, PoolTypeOK
    <3>3. ~Runnable(u)
      BY <3>1, <3>2 DEF Runnable
    <3>4. QED
      BY <3>2, <3>3
  <2>2. S \in SUBSET selected /\ Downward(S)
    BY <2>1
  <2>3. P \subseteq S
    <3> HIDE DEF S, Downward
    <3>1. QED
      BY <2>2
  <2>4. QED
    BY <2>3
<1>4. \A v \in P : Producers(plan, v) \cap (P \cup {w}) # {}
  <2> SUFFICES ASSUME NEW v \in P, Producers(plan, v) \cap (P \cup {w}) = {} PROVE FALSE
    OBVIOUS
  <2> DEFINE S == P \ {v}
  <2>1. ASSUME NEW x \in S \cup {w}, NEW u \in Dependents(x) \ settled PROVE u \in S
    <3>1. u \in P /\ x \in Producers(plan, u) /\ x \in P \cup {w}
      BY <1>2, DependentsRead
    <3>2. u # v
      BY <3>1
    <3>3. QED
      BY <3>1, <3>2
  <2>2. S \in SUBSET selected /\ Downward(S)
    BY <2>1
  <2>3. v \in S
    <3> HIDE DEF S, Downward
    <3>1. QED
      BY <2>2
  <2>4. QED
    BY <2>3
<1>5. QED
  <2> HIDE DEF Downward
  <2>1. P \subseteq selected
    OBVIOUS
  <2> HIDE DEF P
  <2>2. QED
    BY <1>1, <1>2, <1>3, <1>4, <2>1

LEMMA ResolveErrKeeps ==
  ASSUME PoolInv, NEW t \in Workers, ResolveErr(t)
  PROVE  PoolInv'
<1> USE DEF constants
<1> DEFINE w == job[t]
           P == Poisoned(w)
<1>1. /\ pc[t] = "err" /\ pc' = [pc EXCEPT ![t] = "notify"] /\ job' = [job EXCEPT ![t] = None]
      /\ errors' = errors \cup {w} /\ resolved' = resolved \cup {w} \cup P
      /\ UNCHANGED <<constants, ready, remaining, successful, store>>
  BY DEF ResolveErr, GoTo
<1>2. /\ Runnable(w) /\ w \in selected /\ w \notin resolved /\ w \notin successful
      /\ Producers(plan, w) \subseteq successful
      /\ \A u \in Workers : u # t => job[u] # w
      /\ \A i \in DOMAIN ready : ready[i] # w
  BY <1>1, HeldAlone DEF Holders, PoolInv, PoolTypeOK
<1>3. pc \in [Workers -> Labels] /\ job \in [Workers -> Work \cup {None}]
  BY DEF PoolInv, PoolTypeOK
<1>4. /\ P \subseteq selected
      /\ \A v \in P \cup {w} : Dependents(v) \ (resolved \cup {w}) \subseteq P
      /\ \A v \in P : v \notin successful /\ ~Runnable(v)
      /\ \A v \in P : Producers(plan, v) \cap (P \cup {w}) # {}
  BY <1>2, PoisonedSpreads
<1>5. w = job[t]
  OBVIOUS
<1> HIDE DEF w, P
<1>6. \A u \in Workers : /\ u # t => job'[u] = job[u] /\ pc'[u] = pc[u]
                         /\ job'[t] = None /\ pc'[t] = "notify"
  BY <1>1, <1>3
<1>7. PoolTypeOK'
  <2>1. job' \in [Workers -> Work \cup {None}] /\ pc' \in [Workers -> Labels]
    BY <1>1, <1>3 DEF Labels
  <2>2. resolved' \subseteq selected /\ successful \subseteq resolved' /\ errors' \subseteq resolved' \ successful
    BY <1>1, <1>2, <1>4 DEF PoolInv, PoolTypeOK
  <2>3. QED
    BY <1>1, <2>1, <2>2 DEF PoolInv, PoolTypeOK, Selectable
<1> DEFINE RunnableNext(v) == v \in selected' \ resolved' /\ Producers(plan', v) \subseteq successful'
<1>8. \A v : Runnable(v) /\ v # w => RunnableNext(v)
  BY <1>1, <1>4 DEF Runnable
<1> HIDE DEF RunnableNext
<1>9. OnePlace'
  <2>1. \A i \in DOMAIN ready' : RunnableNext(ready'[i])
    BY <1>1, <1>2, <1>8 DEF PoolInv, OnePlace
  <2>2. \A u \in Workers : IF pc'[u] \in Holders THEN RunnableNext(job'[u]) ELSE job'[u] = None
    BY <1>2, <1>6, <1>8 DEF PoolInv, OnePlace, Holders
  <2>3. \A u \in Workers : \A i \in DOMAIN ready' : job'[u] # ready'[i]
    <3>1. \A i \in DOMAIN ready : ready[i] # None
      BY PlanFacts DEF PoolInv, PoolTypeOK, OnePlace, Runnable
    <3>2. QED
      BY <1>1, <1>6, <3>1 DEF PoolInv, OnePlace
  <2>4. \A u, v \in Workers : u # v /\ job'[u] # None => job'[u] # job'[v]
    BY <1>6 DEF PoolInv, OnePlace
  <2>5. \A i, j \in DOMAIN ready' : i # j => ready'[i] # ready'[j]
    BY <1>1 DEF PoolInv, OnePlace
  <2>6. QED
    BY <2>1, <2>2, <2>3, <2>4, <2>5 DEF OnePlace, RunnableNext, Runnable
<1>10. CountersExact'
  BY <1>1 DEF PoolInv, CountersExact, Pending
<1>11. GivenUp' = GivenUp \cup {w} \cup P
  BY <1>1, <1>2, <1>4 DEF GivenUp
<1>12. FailureSpreads'
  <2>1. ASSUME NEW v \in selected, NEW u \in Producers(plan, v), u \in GivenUp' PROVE v \in GivenUp'
    <3>1. CASE u \in GivenUp
      BY <1>11, <3>1 DEF PoolInv, FailureSpreads
    <3>2. CASE u \in P \cup {w}
      <4>1. v \in Dependents(u) /\ u \notin successful
        BY <1>2, <1>4, <3>2, DependentsRead
      <4>2. v \notin successful
        BY <4>1 DEF PoolInv, BrokenFail
      <4>3. v \in resolved \/ v \in P \cup {w}
        BY <1>4, <3>2, <4>1
      <4>4. QED
        BY <1>11, <4>2, <4>3 DEF GivenUp
    <3>3. QED
      BY <1>11, <2>1, <3>1, <3>2
  <2>2. ASSUME NEW v \in GivenUp', v \notin errors' PROVE Producers(plan, v) \cap GivenUp' # {}
    <3>1. CASE v \in P
      BY <1>4, <1>11, <3>1
    <3>2. CASE v \in GivenUp \ errors
      BY <1>11, <3>2 DEF PoolInv, FailureSpreads
    <3>3. QED
      BY <1>1, <1>11, <2>2, <3>1, <3>2
  <2>3. QED
    BY <1>1, <2>1, <2>2 DEF FailureSpreads
<1>13. StoreHolds'
  BY <1>1, <1>6 DEF PoolInv, StoreHolds
<1>14. BrokenFail'
  <2>1. Broken' = Broken /\ \A v : IllKinded(v)' = IllKinded(v)
    BY <1>1 DEF Broken, IllKinded
  <2>2. w \in Broken
    BY <1>1, <1>5 DEF PoolInv, BrokenFail
  <2>3. QED
    BY <1>1, <1>2, <1>6, <2>1, <2>2 DEF PoolInv, BrokenFail
<1>15. ExitsLast'
  <2>1. ASSUME NEW u \in Workers, pc'[u] = "exited" PROVE FALSE
    <3>1. pc[u] = "exited"
      BY <1>6, <2>1
    <3>2. resolved = selected
      BY <3>1 DEF PoolInv, ExitsLast
    <3>3. QED
      BY <1>2, <3>2
  <2>2. QED
    BY <2>1 DEF ExitsLast
<1>16. QED
  BY <1>7, <1>9, <1>10, <1>12, <1>13, <1>14, <1>15 DEF PoolInv

LEMMA InitEstablishes ==
  ASSUME Init
  PROVE  PoolInv
<1> DEFINE S == {w \in selected : remaining[w] = 0}
<1>1. /\ plan \in Plans /\ selected \in SUBSET plan.actions /\ Selectable(plan, selected)
      /\ kept \in Stores
      /\ remaining = [w \in Work |-> Len(plan.inputs[w])]
      /\ ready \in SetToSeqs(S)
      /\ resolved = {} /\ successful = {} /\ errors = {}
      /\ store = Holding(plan, kept)
      /\ pc = [t \in Workers |-> "idle"] /\ job = [t \in Workers |-> None]
  BY DEF Init
<1>2. /\ plan \in PlanType /\ selected \subseteq Work /\ kept \subseteq Work
      /\ IsFiniteSet(selected) /\ S \subseteq Work /\ None \notin Work
  <2>1. plan \in PlanType /\ selected \subseteq Work /\ kept \subseteq Work /\ None \notin Work
    BY <1>1, PoolAssumption DEF PlanType
  <2>2. IsFiniteSet(Work)
    BY PoolAssumption, FS_Interval DEF Work
  <2>3. QED
    BY <2>1, <2>2, FS_Subset
<1>3. \A w \in Work : plan.inputs[w] \in Seq(Work) /\ remaining[w] \in Nat /\ remaining[w] = Len(plan.inputs[w])
  BY <1>1, <1>2 DEF PlanType
<1>4. /\ ready \in Seq(Work)
      /\ \A i \in DOMAIN ready : ready[i] \in S
      /\ \A i, j \in DOMAIN ready : i # j => ready[i] # ready[j]
  <2>1. IsFiniteSet(S)
    BY <1>2, FS_Subset
  <2>2. Cardinality(S) \in Nat
    BY <2>1, FS_CardinalityType
  <2>3. /\ ready \in [1 .. Cardinality(S) -> S]
        /\ \A i, j \in 1 .. Cardinality(S) : i # j => ready[i] # ready[j]
    BY <1>1 DEF SetToSeqs
  <2> HIDE DEF S
  <2>4. QED
    BY <1>2, <2>2, <2>3
<1>5. PoolTypeOK
  <2>1. store \in [Maps -> SUBSET Work]
    BY <1>1, <1>2 DEF Holding
  <2>2. QED
    BY <1>1, <1>3, <1>4, <2>1 DEF PoolTypeOK, Labels
<1>6. OnePlace
  <2>1. \A v \in S : Runnable(v)
    <3> SUFFICES ASSUME NEW v \in S PROVE Runnable(v)
      OBVIOUS
    <3>1. Len(plan.inputs[v]) = 0 /\ plan.inputs[v] \in Seq(Work)
      BY <1>2, <1>3
    <3>2. Producers(plan, v) = {}
      BY <3>1 DEF Producers
    <3>3. QED
      BY <1>1, <3>2 DEF Runnable
  <2>2. \A i \in DOMAIN ready : ready[i] # None
    BY <1>2, <1>4
  <2>3. QED
    BY <1>1, <1>4, <2>1, <2>2 DEF OnePlace, Holders
<1>7. CountersExact
  <2> SUFFICES ASSUME NEW v \in selected PROVE remaining[v] = Cardinality(Pending(v))
    BY DEF CountersExact
  <2>1. plan.inputs[v] \in Seq(Work) /\ remaining[v] = Len(plan.inputs[v])
    BY <1>2, <1>3
  <2>2. Pending(v) = 1 .. Len(plan.inputs[v]) /\ Len(plan.inputs[v]) \in Nat
    BY <1>1, <2>1 DEF Pending
  <2>3. 1 \in Int /\ Len(plan.inputs[v]) \in Int
    BY <2>2
  <2>4. Cardinality(1 .. Len(plan.inputs[v]))
          = IF 1 > Len(plan.inputs[v]) THEN 0 ELSE Len(plan.inputs[v]) - 1 + 1
    BY <2>3, FS_Interval
  <2>5. QED
    BY <2>1, <2>2, <2>4
<1>8. FailureSpreads
  BY <1>1 DEF FailureSpreads, GivenUp
<1>9. StoreHolds
  BY <1>1 DEF StoreHolds, Holding
<1>10. BrokenFail /\ ExitsLast
  BY <1>1 DEF BrokenFail, ExitsLast
<1>11. QED
  BY <1>5, <1>6, <1>7, <1>8, <1>9, <1>10 DEF PoolInv

LEMMA NextPreserves ==
  ASSUME PoolInv, [Next]_vars
  PROVE  PoolInv'
<1>1. pc \in [Workers -> Labels]
  BY DEF PoolInv, PoolTypeOK
<1>2. ASSUME UNCHANGED vars PROVE PoolInv'
  BY <1>1, <1>2, WorkersOnly DEF vars, constants, schedule
<1>3. ASSUME NEW t \in Workers, Step(t) \/ SpuriousWake(t) PROVE PoolInv'
  <2>1. CASE Pop(t)
    BY <2>1, PopKeeps
  <2>2. CASE Exit(t)
    <3>1. pc[t] = "idle" /\ pc' = [pc EXCEPT ![t] = "exited"] /\ resolved = selected
          /\ UNCHANGED <<constants, schedule, store, job>>
      BY <2>2 DEF Exit, GoTo
    <3>2. QED
      BY <1>1, <3>1, WorkersOnly DEF Labels, Holders
  <2>3. CASE Wait(t)
    <3>1. pc[t] = "idle" /\ pc' = [pc EXCEPT ![t] = "waiting"]
          /\ UNCHANGED <<constants, schedule, store, job>>
      BY <2>3 DEF Wait, GoTo
    <3>2. QED
      BY <1>1, <3>1, WorkersOnly DEF Labels, Holders
  <2>4. CASE SpuriousWake(t)
    <3>1. pc[t] = "waiting" /\ pc' = [pc EXCEPT ![t] = "idle"]
          /\ UNCHANGED <<constants, schedule, store, job>>
      BY <2>4 DEF SpuriousWake, GoTo
    <3>2. QED
      BY <1>1, <3>1, WorkersOnly DEF Labels, Holders
  <2>5. CASE Notify(t)
    <3>1. /\ pc[t] = "notify" /\ UNCHANGED <<constants, schedule, store, job>>
          /\ pc' = [u \in Workers |-> IF u = t \/ pc[u] = "waiting" THEN "idle" ELSE pc[u]]
      BY <2>5 DEF Notify
    <3>2. QED
      BY <1>1, <3>1, WorkersOnly DEF Labels, Holders
  <2>6. CASE Dispatch(t)
    BY <2>6, DispatchKeeps
  <2>7. CASE Compute(t)
    BY <2>7, ComputeKeeps
  <2>8. CASE ResolveOk(t)
    BY <2>8, ResolveOkKeeps
  <2>9. CASE ResolveErr(t)
    BY <2>9, ResolveErrKeeps
  <2>10. QED
    BY <1>3, <2>1, <2>2, <2>3, <2>4, <2>5, <2>6, <2>7, <2>8, <2>9 DEF Step
<1>4. QED
  BY <1>2, <1>3 DEF Next

(* The invariant holds for every number of threads, actions and inputs.    *)
THEOREM PoolInvariant == Spec => []PoolInv
<1>1. Init => PoolInv
  BY InitEstablishes
<1>2. PoolInv /\ [Next]_vars => PoolInv'
  BY NextPreserves
<1>3. QED
  BY <1>1, <1>2, PTL DEF Spec

-----------------------------------------------------------------------------
(* The properties *)

(* When all workers have returned, what succeeded, what failed and which   *)
(* error is returned follow from the plan: the budget and the interleaving *)
(* of worker_loop have no part in it.                                      *)
THEOREM OutcomeIsPlannedHolds == Spec => []OutcomeIsPlanned
<1>1. PoolInv => OutcomeIsPlanned
  <2> SUFFICES ASSUME PoolInv, Returned PROVE
        /\ \A v \in selected : v \in successful <=> v \notin Broken /\ Producers(plan, v) \subseteq successful
        /\ \A v \in selected : v \in errors <=> v \in Broken /\ Producers(plan, v) \subseteq successful
        /\ Result = None <=> successful = selected
    BY DEF OutcomeIsPlanned
  <2>1. resolved = selected
    <3>1. PICK t \in Workers : TRUE
      BY PoolAssumption
    <3>2. QED
      BY <3>1 DEF PoolInv, ExitsLast, Returned
  <2>2. GivenUp = selected \ successful /\ successful \subseteq selected /\ errors \subseteq GivenUp
    BY <2>1 DEF GivenUp, PoolInv, PoolTypeOK
  <2>3. \A v \in selected : Producers(plan, v) \subseteq selected
    BY PlanFacts DEF PoolInv
  <2>4. \A v \in selected : v \notin successful => v \in errors \/ ~(Producers(plan, v) \subseteq successful)
    BY <2>2 DEF PoolInv, FailureSpreads, GivenUp
  <2>5. /\ \A v \in successful : v \notin Broken /\ Producers(plan, v) \subseteq successful
        /\ \A v \in errors : v \in Broken /\ Producers(plan, v) \subseteq successful
    BY DEF PoolInv, BrokenFail
  <2>6. ASSUME NEW v \in selected
        PROVE  v \in successful <=> v \notin Broken /\ Producers(plan, v) \subseteq successful
    BY <2>4, <2>5
  <2>7. ASSUME NEW v \in selected
        PROVE  v \in errors <=> v \in Broken /\ Producers(plan, v) \subseteq successful
    BY <2>4, <2>5
  <2>8. errors = {} <=> successful = selected
    <3>1. ASSUME errors = {}, successful # selected PROVE FALSE
      <4>1. GivenUp # {} /\ GivenUp \in SUBSET Work
        BY <2>2, <3>1, PlanFacts DEF PoolInv
      <4>2. PICK v \in GivenUp : Producers(plan, v) \cap GivenUp = {}
        BY <4>1, PlanFacts DEF PoolInv
      <4>3. QED
        BY <3>1, <4>2 DEF PoolInv, FailureSpreads
    <3>2. QED
      BY <2>2, <3>1
  <2>9. errors # {} => Result # None
    <3> SUFFICES ASSUME errors # {} PROVE Result # None
      OBVIOUS
    <3>1. errors \in SUBSET Nat /\ errors \subseteq Work
      BY <2>2, PlanFacts DEF Work, PoolInv
    <3>2. \E w \in errors : \A v \in errors : w <= v
      BY <3>1, Smallest
    <3>3. Result \in errors
      BY <3>2 DEF Result
    <3>4. QED
      BY <3>1, <3>3, PoolAssumption
  <2>10. Result = None <=> successful = selected
    <3>1. errors = {} => Result = None
      BY DEF Result
    <3>2. QED
      BY <2>8, <2>9, <3>1
  <2>11. QED
    BY <2>6, <2>7, <2>10
<1>2. QED
  BY <1>1, PoolInvariant, PTL

(* validate_execution_receipt accepts exactly the evaluations that this    *)
(* execution has done, whatever the caller's store held before it.         *)
THEOREM ReceiptHonestHolds == Spec => []ReceiptHonest
<1>1. PoolInv => ReceiptHonest
  <2> SUFFICES ASSUME PoolInv, NEW v \in Work
               PROVE  ReceiptAccepted(Receipt, v) <=> v \in successful /\ plan.kind[v] = "EvaluateEvidence"
    BY DEF ReceiptHonest
  <2>1. plan.kind[v] \in Kinds /\ successful \subseteq selected /\ selected \subseteq plan.actions
    BY PlanFacts DEF PoolInv, PoolTypeOK
  <2>2. ReceiptAccepted(Receipt, v) <=> v \in store["evidence"] /\ v \in successful
    BY <2>1 DEF ReceiptAccepted, Receipt
  <2>3. v \in store["evidence"] => plan.kind[v] # "delegated" /\ Publishes[plan.kind[v]] = "evidence"
    BY DEF PoolInv, StoreHolds, Maps
  <2>4. plan.kind[v] # "delegated" => (Publishes[plan.kind[v]] = "evidence" <=> plan.kind[v] = "EvaluateEvidence")
    BY <2>1 DEF Publishes, Kinds
  <2>5. v \in successful => v \in store[Publishes[plan.kind[v]]]
    BY DEF PoolInv, StoreHolds
  <2>6. QED
    BY <2>2, <2>3, <2>4, <2>5
<1>2. QED
  BY <1>1, PoolInvariant, PTL

(* The pool implements the abstract execution: a success finishes an       *)
(* action, a failure gives it up with all that depends on it, and nothing  *)
(* else that a worker does is visible.                                     *)
THEOREM ExecutesGraphHolds == Spec => ExecutesGraph
<1>1. Init => Execution!ExecutionInit
  BY DEF Init, Execution!ExecutionInit
<1>2. PoolInv /\ PoolInv' /\ [Next]_vars
        => [Execution!ExecutionNext]_<<[v \in Work |-> IF v \in selected THEN Producers(plan, v) ELSE {}],
                                       successful, resolved \ successful>>
  <2> DEFINE deps == [v \in Work |-> IF v \in selected THEN Producers(plan, v) ELSE {}]
  <2> SUFFICES ASSUME PoolInv, PoolInv', [Next]_vars
               PROVE  [Execution!ExecutionNext]_<<deps, successful, resolved \ successful>>
    OBVIOUS
  <2>1. ASSUME UNCHANGED <<constants, resolved, successful>>
        PROVE  UNCHANGED <<deps, successful, resolved \ successful>>
    BY <2>1 DEF constants
  <2>2. ASSUME NEW t \in Workers, ResolveOk(t) PROVE Execution!Finish(job[t])
    <3>1. /\ UNCHANGED constants /\ pc[t] = "ok"
          /\ resolved' = resolved \cup {job[t]} /\ successful' = successful \cup {job[t]}
      BY <2>2 DEF ResolveOk
    <3>2. /\ job[t] \in Work /\ job[t] \in selected /\ job[t] \notin resolved
          /\ Producers(plan, job[t]) \subseteq successful /\ successful \subseteq resolved
      BY <3>1, HeldAlone DEF Holders, PoolInv, PoolTypeOK
    <3>3. deps' = deps
      BY <3>1 DEF constants
    <3>4. resolved' \ successful' = resolved \ successful
      BY <3>1, <3>2
    <3>5. deps[job[t]] \subseteq successful /\ job[t] \notin successful \cup (resolved \ successful)
      BY <3>2
    <3>6. QED
      BY <3>1, <3>3, <3>4, <3>5 DEF Execution!Finish
  <2>3. ASSUME NEW t \in Workers, ResolveErr(t) PROVE Execution!GiveUp
    <3>1. /\ UNCHANGED constants /\ successful' = successful /\ resolved \subseteq resolved'
      BY <2>3 DEF ResolveErr
    <3>2. deps' = deps
      BY <3>1 DEF constants
    <3>3. /\ resolved \ successful \subseteq resolved' \ successful'
          /\ resolved' \ successful' \subseteq Work \ successful
      <4>1. resolved' \subseteq selected' /\ selected' = selected /\ selected \subseteq Work
        BY <3>1, PlanFacts DEF PoolInv, PoolTypeOK, constants
      <4>2. QED
        BY <3>1, <4>1
    <3>4. \A v \in Work : deps[v] \cap (resolved' \ successful') # {} => v \in resolved' \ successful'
      <4>1. \A v \in selected : Producers(plan, v) \cap (resolved' \ successful') # {}
                                  => v \in resolved' \ successful'
        BY <3>1 DEF PoolInv, FailureSpreads, GivenUp, constants
      <4>2. QED
        BY <4>1
    <3>5. QED
      BY <3>1, <3>2, <3>3, <3>4 DEF Execution!GiveUp
  <2>4. ASSUME NEW t \in Workers, Step(t) \/ SpuriousWake(t)
        PROVE  \/ ResolveOk(t) \/ ResolveErr(t)
               \/ UNCHANGED <<constants, resolved, successful>>
    BY <2>4 DEF Step, Pop, Exit, Wait, SpuriousWake, Dispatch, Compute, Notify, schedule
  <2>5. ASSUME UNCHANGED vars PROVE UNCHANGED <<constants, resolved, successful>>
    BY <2>5 DEF vars, constants
  <2>6. \A t \in Workers : ResolveOk(t) => job[t] \in Work
    BY HeldAlone DEF ResolveOk, Holders
  <2> HIDE DEF deps
  <2>7. QED
    BY <2>1, <2>2, <2>3, <2>4, <2>5, <2>6 DEF Next, Execution!ExecutionNext
<1>3. QED
  BY <1>1, <1>2, PoolInvariant, PTL DEF Spec, ExecutesGraph, Execution!ExecutionSpec

-----------------------------------------------------------------------------
(* The worklist of instances *)

WorklistTypeOK ==
  /\ asked \in WorklistInputs
  /\ queue \in Seq(Keys)
  /\ mentioned \subseteq Keys
  /\ visited \subseteq Keys

(* What was mentioned is visited or waits in the queue, is needed, and is  *)
(* never fewer than the requested instances and what visited ones call.    *)
Frontier ==
  /\ mentioned = visited \cup Range(queue)
  /\ Roots \subseteq mentioned
  /\ mentioned \subseteq Needed
  /\ visited \subseteq Defined
  /\ \A k \in visited : Calls(k) \subseteq mentioned
  /\ DOMAIN items = visited
  /\ \A k \in visited : items[k] = Item(k)

Verdicts ==
  /\ verdict = "planned" => queue = <<>>
  /\ verdict \in {"missing definition", "missing dependency"} => ~(Needed \subseteq Defined)
  /\ verdict # "conflict"

WorklistInv == WorklistTypeOK /\ Frontier /\ Verdicts

-----------------------------------------------------------------------------
(* A queue holds its head and its tail, ...                                *)
LEMMA HeadAndTail ==
  ASSUME NEW q \in Seq(Keys), q # <<>>
  PROVE  /\ Head(q) \in Keys /\ Tail(q) \in Seq(Keys)
         /\ Range(q) = {Head(q)} \cup Range(Tail(q))
<1>1. Len(q) \in Nat \ {0} /\ DOMAIN q = 1..Len(q)
  OBVIOUS
<1>2. /\ Head(q) = q[1] /\ Tail(q) \in Seq(Keys) /\ DOMAIN Tail(q) = 1..(Len(q) - 1)
      /\ \A i \in 1..(Len(q) - 1) : Tail(q)[i] = q[i + 1]
  BY <1>1
<1>3. \A i \in 2..Len(q) : i - 1 \in 1..(Len(q) - 1) /\ q[i] = Tail(q)[i - 1]
  BY <1>1, <1>2
<1>4. Range(q) \subseteq {Head(q)} \cup Range(Tail(q))
  <2>1. ASSUME NEW i \in DOMAIN q PROVE q[i] \in {Head(q)} \cup Range(Tail(q))
    <3>1. CASE i = 1
      BY <1>2, <3>1
    <3>2. CASE i \in 2..Len(q)
      BY <1>2, <1>3, <3>2 DEF Range
    <3>3. QED
      BY <1>1, <2>1, <3>1, <3>2
  <2>2. QED
    BY <2>1 DEF Range
<1>5. {Head(q)} \cup Range(Tail(q)) \subseteq Range(q)
  <2>1. 1 \in DOMAIN q /\ \A i \in 1..(Len(q) - 1) : i + 1 \in DOMAIN q
    BY <1>1
  <2>2. QED
    BY <1>2, <2>1 DEF Range
<1>6. QED
  BY <1>1, <1>2, <1>4, <1>5

(* ... and two queues in a row hold what both hold.                        *)
LEMMA InARow ==
  ASSUME NEW p \in Seq(Keys), NEW q \in Seq(Keys)
  PROVE  p \o q \in Seq(Keys) /\ Range(p \o q) = Range(p) \cup Range(q)
<1>1. /\ Len(p) \in Nat /\ Len(q) \in Nat
      /\ DOMAIN p = 1..Len(p) /\ DOMAIN q = 1..Len(q)
      /\ DOMAIN (p \o q) = 1..(Len(p) + Len(q))
      /\ \A i \in 1..Len(p) : (p \o q)[i] = p[i]
      /\ \A i \in (Len(p) + 1)..(Len(p) + Len(q)) : (p \o q)[i] = q[i - Len(p)]
  OBVIOUS
<1>2. Range(p \o q) \subseteq Range(p) \cup Range(q)
  <2>1. ASSUME NEW i \in 1..(Len(p) + Len(q)) PROVE (p \o q)[i] \in Range(p) \cup Range(q)
    <3>1. CASE i \in 1..Len(p)
      BY <1>1, <3>1 DEF Range
    <3>2. CASE i \in (Len(p) + 1)..(Len(p) + Len(q))
      <4>1. i - Len(p) \in 1..Len(q) /\ (p \o q)[i] = q[i - Len(p)]
        BY <1>1, <3>2
      <4>2. QED
        BY <1>1, <4>1 DEF Range
    <3>3. QED
      BY <1>1, <2>1, <3>1, <3>2
  <2>2. QED
    BY <1>1, <2>1 DEF Range
<1>3. Range(p) \subseteq Range(p \o q)
  BY <1>1 DEF Range
<1>4. Range(q) \subseteq Range(p \o q)
  <2>1. ASSUME NEW i \in 1..Len(q) PROVE q[i] \in Range(p \o q)
    <3>1. /\ i + Len(p) \in (Len(p) + 1)..(Len(p) + Len(q))
          /\ (i + Len(p)) - Len(p) = i
          /\ i + Len(p) \in 1..(Len(p) + Len(q))
      BY <1>1
    <3>2. (p \o q)[i + Len(p)] = q[i]
      BY <1>1, <3>1
    <3>3. QED
      BY <1>1, <3>1, <3>2 DEF Range
  <2>2. QED
    BY <1>1, <2>1 DEF Range
<1>5. QED
  BY <1>2, <1>3, <1>4

(* A set of keys put in a queue.                                           *)
LEMMA OrdersHold ==
  ASSUME NEW S \in SUBSET Keys, NEW q \in Orders(S)
  PROVE  q \in Seq(Keys) /\ Range(q) = S
<1>1. Cardinality(S) \in Nat
  BY KeysAssumption, FS_Subset, FS_CardinalityType
<1>2. QED
  BY <1>1 DEF Orders

(* What the requested instances need is a closed set, ...                  *)
LEMMA NeededIsClosed ==
  ASSUME asked \in WorklistInputs
  PROVE  Closed(Needed)
<1>1. Roots \subseteq Keys /\ Defined \subseteq Keys
  BY WorklistInputsAssumption DEF Roots, Defined
<1>2. ASSUME NEW k \in Defined PROVE Calls(k) \subseteq Keys
  BY <1>2, WorklistInputsAssumption DEF Defined, Calls, Definition
<1>3. QED
  BY <1>1, <1>2 DEF Needed, Closed

(* ... and the least.                                                      *)
LEMMA NeededIsLeast ==
  ASSUME NEW S \in SUBSET Keys, Closed(S)
  PROVE  Needed \subseteq S
BY DEF Needed

-----------------------------------------------------------------------------
LEMMA FrontierAtFirst == WorklistInit => WorklistInv
<1> SUFFICES ASSUME WorklistInit PROVE WorklistInv
  OBVIOUS
<1>1. asked \in WorklistInputs /\ Roots \subseteq Keys
  BY WorklistInputsAssumption DEF WorklistInit, Roots
<1>2. queue \in Seq(Keys) /\ Range(queue) = Roots
  BY <1>1, OrdersHold DEF WorklistInit
<1>3. Roots \subseteq Needed
  BY <1>1, NeededIsClosed DEF Closed
<1>4. QED
  BY <1>1, <1>2, <1>3 DEF WorklistInit, WorklistInv, WorklistTypeOK, Frontier, Verdicts

LEMMA ExpandKeepsFrontier ==
  ASSUME WorklistInv, verdict = "running", queue # <<>>, Head(queue) \notin visited, Expand
  PROVE  WorklistInv'
<1> DEFINE k == Head(queue)
           new == Calls(k) \ mentioned
<1> USE DEF WorklistInv, WorklistTypeOK
<1>1. k \in Keys /\ Tail(queue) \in Seq(Keys) /\ Range(queue) = {k} \cup Range(Tail(queue))
  BY HeadAndTail
<1>2. k \in mentioned /\ k \in Needed /\ k \in Defined /\ Calls(k) \subseteq Defined
  BY <1>1 DEF Frontier, Expand
<1>3. Calls(k) \subseteq Keys /\ Calls(k) \subseteq Needed
  <2>1. Calls(k) \subseteq Needed
    BY <1>2, NeededIsClosed DEF Closed
  <2>2. QED
    BY <2>1 DEF Needed
<1>4. PICK more \in Orders(new) : queue' = Tail(queue) \o more
  BY DEF Expand
<1>5. more \in Seq(Keys) /\ Range(more) = new
  BY <1>3, <1>4, OrdersHold
<1>6. queue' \in Seq(Keys) /\ Range(queue') = Range(Tail(queue)) \cup new
  <2>1. /\ Tail(queue) \o more \in Seq(Keys)
        /\ Range(Tail(queue) \o more) = Range(Tail(queue)) \cup Range(more)
    BY <1>1, <1>5, InARow
  <2>2. QED
    BY <1>4, <1>5, <2>1
<1>7. /\ asked' = asked /\ verdict' = verdict
      /\ mentioned' = mentioned \cup new /\ visited' = visited \cup {k}
      /\ items' = [x \in DOMAIN items \cup {k} |-> IF x = k THEN Item(k) ELSE items[x]]
  BY DEF Expand
<1>8. WorklistTypeOK'
  BY <1>1, <1>3, <1>6, <1>7
<1>9. /\ Roots' = Roots /\ Defined' = Defined /\ Needed' = Needed
      /\ \A x : Calls(x)' = Calls(x) /\ Item(x)' = Item(x)
  BY <1>7 DEF Roots, Defined, Needed, Closed, Calls, Item, SourcesOf
<1>10. Frontier'
  <2>1. (mentioned = visited \cup Range(queue))'
    BY <1>1, <1>6, <1>7 DEF Frontier
  <2>2. (Roots \subseteq mentioned /\ mentioned \subseteq Needed /\ visited \subseteq Defined)'
    BY <1>2, <1>3, <1>7, <1>9 DEF Frontier
  <2>3. (\A x \in visited : Calls(x) \subseteq mentioned)'
    BY <1>7, <1>9 DEF Frontier
  <2>4. (DOMAIN items = visited /\ \A x \in visited : items[x] = Item(x))'
    BY <1>7, <1>9 DEF Frontier
  <2>5. QED
    BY <2>1, <2>2, <2>3, <2>4 DEF Frontier
<1>11. Verdicts'
  BY <1>7 DEF Verdicts
<1>12. QED
  BY <1>8, <1>10, <1>11

LEMMA FrontierKept == WorklistInv /\ [WorklistNext]_worklistVars => WorklistInv'
<1> SUFFICES ASSUME WorklistInv, [WorklistNext]_worklistVars PROVE WorklistInv'
  OBVIOUS
<1> DEFINE still == asked' = asked /\ mentioned' = mentioned /\ visited' = visited /\ items' = items
<1>1. ASSUME still, queue' \in Seq(Keys), Range(queue') \subseteq Range(queue),
             Range(queue) \subseteq Range(queue') \cup visited
      PROVE  WorklistTypeOK' /\ Frontier' /\ Needed' = Needed /\ Defined' = Defined
  <2>1. /\ Roots' = Roots /\ Defined' = Defined /\ Needed' = Needed
        /\ \A x : Calls(x)' = Calls(x) /\ Item(x)' = Item(x)
    BY <1>1 DEF Roots, Defined, Needed, Closed, Calls, Item, SourcesOf
  <2>2. WorklistTypeOK'
    BY <1>1 DEF WorklistInv, WorklistTypeOK
  <2>3. (mentioned = visited \cup Range(queue))'
    BY <1>1 DEF WorklistInv, Frontier
  <2>4. Frontier'
    BY <1>1, <2>1, <2>3 DEF WorklistInv, Frontier
  <2>5. QED
    BY <2>1, <2>2, <2>4
<1>2. ASSUME NEW how, Stop(how), how = "planned" => queue = <<>>, how # "conflict",
             how \in {"missing definition", "missing dependency"} => ~(Needed \subseteq Defined)
      PROVE  WorklistInv'
  <2>1. still /\ queue' = queue /\ verdict' = how
    BY <1>2 DEF Stop
  <2>2. WorklistTypeOK' /\ Frontier' /\ Needed' = Needed /\ Defined' = Defined
    BY <1>1, <2>1 DEF WorklistInv, WorklistTypeOK
  <2>3. Verdicts'
    BY <1>2, <2>1, <2>2 DEF Verdicts
  <2>4. QED
    BY <2>2, <2>3 DEF WorklistInv
<1>3. CASE Take
  <2>1. /\ queue \in Seq(Keys) /\ queue # <<>> /\ verdict = "running"
        /\ Head(queue) \in Keys /\ Tail(queue) \in Seq(Keys)
        /\ Range(queue) = {Head(queue)} \cup Range(Tail(queue))
    BY <1>3, HeadAndTail DEF Take, WorklistInv, WorklistTypeOK
  <2>2. Head(queue) \in Needed
    BY <2>1 DEF WorklistInv, Frontier
  <2>3. CASE Skip
    <3>1. still /\ queue' = Tail(queue) /\ verdict' = "running"
      BY <2>1, <2>3 DEF Skip
    <3>2. WorklistTypeOK' /\ Frontier'
      BY <1>1, <2>1, <2>3, <3>1 DEF Skip
    <3>3. QED
      BY <3>1, <3>2 DEF WorklistInv, Verdicts
  <2>4. CASE Head(queue) \notin visited /\ MissingDefinition
    BY <1>2, <2>2, <2>4 DEF MissingDefinition
  <2>5. CASE Head(queue) \notin visited /\ MissingDependency
    <3>1. Calls(Head(queue)) \subseteq Needed
      BY <2>2, <2>5, NeededIsClosed DEF MissingDependency, Closed, WorklistInv, WorklistTypeOK
    <3>2. QED
      BY <1>2, <2>5, <3>1 DEF MissingDependency
  <2>6. CASE Head(queue) \notin visited /\ Conflict
    BY <2>6 DEF Conflict, Conflicting, WorklistInv, Frontier
  <2>7. CASE Head(queue) \notin visited /\ Expand
    BY <2>1, <2>7, ExpandKeepsFrontier
  <2>8. QED
    BY <1>3, <2>3, <2>4, <2>5, <2>6, <2>7 DEF Take
<1>4. CASE Finish
  BY <1>2, <1>4 DEF Finish
<1>5. CASE UNCHANGED worklistVars
  <2>1. still /\ queue' = queue /\ verdict' = verdict
    BY <1>5 DEF worklistVars
  <2>2. WorklistTypeOK' /\ Frontier' /\ Needed' = Needed /\ Defined' = Defined
    BY <1>1, <2>1 DEF WorklistInv, WorklistTypeOK
  <2>3. QED
    BY <2>1, <2>2 DEF WorklistInv, Verdicts
<1>6. QED
  BY <1>3, <1>4, <1>5 DEF WorklistNext

(* The work that plan_rust_a7_worklist plans is the least set of instances *)
(* that holds the requested ones and is closed under calls, it is planned  *)
(* just when all of it is defined, and no definition is ever in conflict.  *)
THEOREM WorkIsNeededHolds == WorklistSpec => []WorkIsNeeded
<1>1. WorklistInv => WorkIsNeeded
  <2> SUFFICES ASSUME WorklistInv PROVE WorkIsNeeded
    OBVIOUS
  <2>1. ASSUME verdict = "planned" PROVE visited = mentioned /\ visited = Needed
    <3>1. queue = <<>> /\ Range(queue) = {}
      BY <2>1 DEF WorklistInv, Verdicts, Range
    <3>2. visited = mentioned /\ visited \subseteq Needed
      BY <3>1 DEF WorklistInv, Frontier
    <3>3. Closed(visited)
      BY <3>2 DEF WorklistInv, Frontier, Closed
    <3>4. QED
      BY <3>2, <3>3, NeededIsLeast DEF WorklistInv, WorklistTypeOK
  <2>2. QED
    BY <2>1 DEF WorklistInv, Frontier, Verdicts, WorkIsNeeded
<1>2. QED
  BY <1>1, FrontierAtFirst, FrontierKept, PTL DEF WorklistSpec
=============================================================================
