---------------------------- MODULE PlanningProofs ----------------------------
(***************************************************************************)
(* The planner and its validator, for every planning input and every       *)
(* answer, however it was come by.                                         *)
(***************************************************************************)
EXTENDS PhysicalPlanning, FiniteSetTheorems, WellFoundedInduction, NaturalsInduction, TLAPS

-----------------------------------------------------------------------------
(* Iteration *)

(* Induction over the naturals, for sets.                                  *)
LEMMA Induction ==
  ASSUME NEW S, 0 \in S, \A n \in Nat : n \in S => n + 1 \in S
  PROVE  Nat \subseteq S
<1> DEFINE R == {ss \in Nat \X Nat : ss[1] < ss[2]}
           T == Nat \ S
<1>1. SUFFICES ASSUME T # {} PROVE FALSE
  OBVIOUS
<1>2. IsWellFoundedOn(R, Nat)
  BY NatLessThanWellFounded DEF OpToRel
<1>3. PICK m \in T : \A k \in T : <<k, m>> \notin R
  <2> HIDE DEF R, T
  <2>1. T \subseteq Nat
    BY DEF T
  <2> QED BY <1>1, <1>2, <2>1, WFMin
<1>4. m - 1 \in Nat /\ <<m - 1, m>> \in R /\ m = (m - 1) + 1
  OBVIOUS
<1>5. m - 1 \in S
  BY <1>3, <1>4
<1> QED BY <1>4, <1>5

(* f is the first n values of the iteration of G from a.                   *)
Iterates(f, n, A, a, G) ==
  /\ f \in [0 .. n -> A]
  /\ f[0] = a
  /\ \A i \in 0 .. n - 1 : f[i + 1] = G[f[i]]

Recurs(f, a, G) == f = [n \in Nat |-> IF n = 0 THEN a ELSE G[f[n - 1]]]

(* The function that iterates G from a exists.                             *)
LEMMA IterationExists ==
  ASSUME NEW A, NEW a \in A, NEW G \in [A -> A]
  PROVE  \E f : Recurs(f, a, G)
<1>1. \A n \in Nat : \E f : Iterates(f, n, A, a, G)
  <2> DEFINE S == {n \in Nat : \E f : Iterates(f, n, A, a, G)}
  <2>1. 0 \in S
    <3>1. Iterates([i \in 0 .. 0 |-> a], 0, A, a, G)
      BY DEF Iterates
    <3> QED BY <3>1
  <2>2. ASSUME NEW n \in Nat, n \in S PROVE n + 1 \in S
    <3>1. PICK f : Iterates(f, n, A, a, G)
      BY <2>2
    <3> DEFINE g == [i \in 0 .. n + 1 |-> IF i = n + 1 THEN G[f[n]] ELSE f[i]]
    <3>2. f[n] \in A /\ f[0] = a /\ \A i \in 0 .. n : f[i] \in A
      BY <3>1 DEF Iterates
    <3>3. g \in [0 .. n + 1 -> A] /\ g[0] = a
      BY <3>2
    <3>4. ASSUME NEW i \in 0 .. (n + 1) - 1 PROVE g[i + 1] = G[g[i]]
      <4>1. CASE i = n
        BY <4>1
      <4>2. CASE i \in 0 .. n - 1
        BY <3>1, <4>2 DEF Iterates
      <4> QED BY <4>1, <4>2
    <3> HIDE DEF g
    <3>5. Iterates(g, n + 1, A, a, G)
      BY <3>3, <3>4 DEF Iterates
    <3> QED BY <3>5
  <2> HIDE DEF S
  <2>3. Nat \subseteq S
    BY <2>1, <2>2, Induction
  <2> QED BY <2>3 DEF S
<1>2. ASSUME NEW n \in Nat, NEW m \in Nat, NEW f, NEW g, n <= m,
             Iterates(f, n, A, a, G), Iterates(g, m, A, a, G)
      PROVE  f[n] = g[n]
  <2> DEFINE S == {i \in Nat : i <= n => f[i] = g[i]}
  <2>1. 0 \in S
    BY <1>2 DEF Iterates
  <2>2. ASSUME NEW i \in Nat, i \in S PROVE i + 1 \in S
    BY <1>2, <2>2 DEF Iterates
  <2> HIDE DEF S
  <2>3. Nat \subseteq S
    BY <2>1, <2>2, Induction
  <2> QED BY <2>3 DEF S
<1> DEFINE F == [n \in Nat |-> CHOOSE f : Iterates(f, n, A, a, G)]
           h == [n \in Nat |-> F[n][n]]
<1>3. ASSUME NEW n \in Nat PROVE Iterates(F[n], n, A, a, G)
  BY <1>1
<1>4. h \in [Nat -> A]
  <2>1. ASSUME NEW n \in Nat PROVE F[n][n] \in A
    <3> HIDE DEF F
    <3> QED BY <1>3 DEF Iterates
  <2> HIDE DEF F
  <2> QED BY <2>1
<1>5. h[0] = a
  <2> HIDE DEF F
  <2> QED BY <1>3 DEF Iterates
<1>6. ASSUME NEW n \in Nat \ {0} PROVE h[n] = G[h[n - 1]]
  <2> HIDE DEF F
  <2>1. n - 1 \in Nat /\ n - 1 <= n /\ (n - 1) + 1 = n /\ n - 1 \in 0 .. n - 1
    OBVIOUS
  <2>2. F[n - 1][n - 1] = F[n][n - 1]
    BY <1>2, <1>3, <2>1
  <2>3. F[n][n] = G[F[n][n - 1]]
    BY <1>3, <2>1 DEF Iterates
  <2> QED BY <2>1, <2>2, <2>3
<1>7. h = [n \in Nat |-> IF n = 0 THEN a ELSE G[h[n - 1]]]
  <2> HIDE DEF h
  <2>1. \A n \in Nat : h[n] = IF n = 0 THEN a ELSE G[h[n - 1]]
    BY <1>5, <1>6
  <2> QED BY <1>4, <2>1
<1> HIDE DEF h
<1> QED BY <1>7 DEF Recurs

LEMMA RecursValues ==
  ASSUME NEW A, NEW a \in A, NEW G \in [A -> A], NEW f, Recurs(f, a, G)
  PROVE  /\ f[0] = a
         /\ \A n \in Nat : f[n + 1] = G[f[n]]
         /\ \A n \in Nat : f[n] \in A
<1>1. f[0] = a
  BY DEF Recurs
<1>2. ASSUME NEW n \in Nat PROVE f[n + 1] = G[f[n]]
  <2>1. n + 1 \in Nat /\ n + 1 # 0 /\ (n + 1) - 1 = n
    OBVIOUS
  <2>2. \A m \in Nat : f[m] = IF m = 0 THEN a ELSE G[f[m - 1]]
    BY DEF Recurs
  <2> QED BY ONLY <2>1, <2>2
<1>3. Nat \subseteq {n \in Nat : f[n] \in A}
  <2> DEFINE S == {n \in Nat : f[n] \in A}
  <2>1. 0 \in S
    BY <1>1
  <2>2. ASSUME NEW n \in Nat, n \in S PROVE n + 1 \in S
    BY <1>2, <2>2
  <2> HIDE DEF S
  <2>3. Nat \subseteq S
    BY <2>1, <2>2, Induction
  <2> QED BY <2>3 DEF S
<1> QED BY <1>1, <1>2, <1>3

(* x holds a and is the least set that does and is closed under G.         *)
LeastClosed(x, U, a, G) ==
  /\ x \in SUBSET U
  /\ a \subseteq x
  /\ G[x] = x
  /\ \A S : a \subseteq S /\ (\A X \in SUBSET U : X \subseteq S => G[X] \subseteq S) => x \subseteq S

(* An iteration that only adds, within a finite set, has come to rest      *)
(* after as many steps as the set has elements: it is then closed, and no  *)
(* closed set that holds the start is smaller.                             *)
LEMMA IterationSettles ==
  ASSUME NEW U, IsFiniteSet(U), NEW a \in SUBSET U, NEW G \in [SUBSET U -> SUBSET U],
         \A S \in SUBSET U : S \subseteq G[S],
         NEW f, Recurs(f, a, G), NEW k \in Nat, Cardinality(U) <= k
  PROVE  LeastClosed(f[k], U, a, G)
<1>1. /\ f[0] = a
      /\ \A n \in Nat : f[n + 1] = G[f[n]]
      /\ \A n \in Nat : f[n] \in SUBSET U
  BY RecursValues
<1>2. \A n \in Nat : a \subseteq f[n]
  <2> DEFINE S == {n \in Nat : a \subseteq f[n]}
  <2>1. 0 \in S
    BY <1>1
  <2>2. ASSUME NEW n \in Nat, n \in S PROVE n + 1 \in S
    BY <1>1, <2>2
  <2> HIDE DEF S
  <2>3. Nat \subseteq S
    BY <2>1, <2>2, Induction
  <2> QED BY <2>3 DEF S
<1>3. ASSUME NEW S, a \subseteq S, \A X \in SUBSET U : X \subseteq S => G[X] \subseteq S
      PROVE  f[k] \subseteq S
  <2> DEFINE T == {n \in Nat : f[n] \subseteq S}
  <2>1. 0 \in T
    BY <1>1, <1>3
  <2>2. ASSUME NEW n \in Nat, n \in T PROVE n + 1 \in T
    BY <1>1, <1>3, <2>2
  <2> HIDE DEF T
  <2>3. Nat \subseteq T
    BY <2>1, <2>2, Induction
  <2> QED BY <2>3 DEF T
<1>4. \A n \in Nat : IsFiniteSet(f[n]) /\ Cardinality(f[n]) \in Nat /\ Cardinality(f[n]) <= Cardinality(U)
  BY <1>1, FS_Subset, FS_CardinalityType
<1>5. ASSUME NEW n \in Nat, f[n + 1] # f[n] PROVE Cardinality(f[n + 1]) >= Cardinality(f[n]) + 1
  <2>1. f[n] \subseteq f[n + 1]
    BY <1>1
  <2>2. Cardinality(f[n]) <= Cardinality(f[n + 1]) /\ Cardinality(f[n]) # Cardinality(f[n + 1])
    BY <1>4, <1>5, <2>1, FS_Subset
  <2> QED BY <1>4, <2>2
<1>6. ASSUME NEW n \in Nat, f[n + 1] = f[n] PROVE f[n + 2] = f[n + 1]
  <2>1. f[(n + 1) + 1] = G[f[n + 1]] /\ f[n + 1] = G[f[n]] /\ (n + 1) + 1 = n + 2
    BY <1>1
  <2> QED BY <1>6, <2>1
<1>7. \A n \in Nat : f[n + 1] = f[n] \/ Cardinality(f[n]) >= n
  <2> DEFINE S == {n \in Nat : f[n + 1] = f[n] \/ Cardinality(f[n]) >= n}
  <2>1. 0 \in S
    BY <1>4
  <2>2. ASSUME NEW n \in Nat, n \in S PROVE n + 1 \in S
    <3>1. CASE f[n + 1] = f[n]
      BY <1>6, <3>1
    <3>2. CASE f[n + 1] # f[n]
      <4>1. Cardinality(f[n + 1]) >= n + 1
        BY <1>4, <1>5, <2>2, <3>2
      <4> QED BY <4>1
    <3> QED BY <3>1, <3>2
  <2> HIDE DEF S
  <2>3. Nat \subseteq S
    BY <2>1, <2>2, Induction
  <2> QED BY <2>3 DEF S
<1>8. f[k + 1] = f[k]
  <2> SUFFICES ASSUME f[k + 1] # f[k] PROVE FALSE
    OBVIOUS
  <2>1. Cardinality(f[k]) >= k /\ Cardinality(f[k + 1]) >= Cardinality(f[k]) + 1
    BY <1>5, <1>7
  <2>2. Cardinality(f[k]) \in Nat /\ Cardinality(f[k + 1]) \in Nat /\ Cardinality(f[k + 1]) <= Cardinality(U)
    BY <1>4
  <2>3. Cardinality(U) \in Nat
    BY FS_CardinalityType
  <2> QED BY <2>1, <2>2, <2>3
<1> QED BY <1>1, <1>2, <1>3, <1>8 DEF LeastClosed
-----------------------------------------------------------------------------
(* The check of the caller *)

LEMMA UpTo == ASSUME NEW n \in Nat PROVE IsFiniteSet(1 .. n) /\ Cardinality(1 .. n) = n
  BY FS_Interval

(* Every plan the caller accepts can be run in the order it states, be it  *)
(* the kernel's, a damaged one or one that another program made up.        *)
THEOREM AcceptedPlansRun ==
  ASSUME NEW plan, NEW asked, IsFiniteSet(DOMAIN plan.actions),
         plan.ordered \in Seq(DOMAIN plan.actions),
         Accepts(plan, asked)
  PROVE  Runs(plan, asked)
<1> DEFINE ids == DOMAIN plan.actions
           n   == Len(plan.ordered)
<1>1. /\ Range(plan.ordered) = ids /\ n = Cardinality(ids)
      /\ \A id \in ids : \A x \in plan.actions[id].inputs :
           /\ x \in Outputs(Named(plan))
           /\ Place(plan, Producer(Named(plan), x)) < Place(plan, id)
  BY DEF Accepts, Ordered
<1>2. n \in Nat /\ DOMAIN plan.ordered = 1..n /\ plan.ordered \in [1..n -> ids]
  OBVIOUS
<1>3. plan.ordered \in Injection(1..n, ids)
  <2>1. plan.ordered \in Surjection(1..n, ids)
    BY <1>1, <1>2 DEF Surjection, Range
  <2>2. IsFiniteSet(1..n) /\ Cardinality(1..n) = n
    <3>1. n \in Nat BY <1>2
    <3> HIDE DEF n, ids
    <3> QED BY <3>1, UpTo
  <2> QED BY <1>1, <2>1, <2>2, FS_SurjSameCardinalityImpliesInj
<1>4. IsInjective(plan.ordered)
  BY <1>2, <1>3 DEF Injection, IsInjective
<1>5. ASSUME NEW id \in ids PROVE Place(plan, id) \in 1..n /\ plan.ordered[Place(plan, id)] = id
  BY <1>1, <1>2 DEF Range, Place
<1>6. ASSUME NEW i \in 1..n PROVE Place(plan, plan.ordered[i]) = i
  BY <1>2, <1>4, <1>5 DEF IsInjective
<1>7. ASSUME NEW x \in Outputs(Named(plan))
      PROVE  /\ Producer(Named(plan), x) \in ids
             /\ x \in Range(plan.actions[Producer(Named(plan), x)].outputs)
  <2>1. \E a \in Named(plan) : x \in Range(a.outputs) BY DEF Outputs
  <2>2. PICK a \in Named(plan) : x \in Range(a.outputs) /\ Producer(Named(plan), x) = a.id
    BY <2>1 DEF Producer
  <2>3. PICK id \in ids : a = [id |-> id, outputs |-> plan.actions[id].outputs]
    BY DEF Named
  <2> QED BY <2>2, <2>3
<1>8. ASSUME NEW i \in 1..n, NEW x \in plan.actions[plan.ordered[i]].inputs
      PROVE  x \in Made(plan, i)
  <2> DEFINE p == Producer(Named(plan), x)
  <2>1. plan.ordered[i] \in ids BY <1>2
  <2>2. x \in Outputs(Named(plan)) /\ Place(plan, p) < i BY <1>1, <1>6, <2>1
  <2>3. p \in ids /\ x \in Range(plan.actions[p].outputs) BY <1>7, <2>2
  <2>4. Place(plan, p) \in 1 .. i - 1 /\ plan.ordered[Place(plan, p)] = p BY <1>2, <1>5, <2>2, <2>3
  <2> QED BY <2>3, <2>4 DEF Made
<1>9. asked.demanded \subseteq Made(plan, n + 1)
  <2> SUFFICES ASSUME NEW x \in asked.demanded PROVE x \in Made(plan, n + 1)
    OBVIOUS
  <2> DEFINE p == Producer(Named(plan), x)
  <2>1. p \in ids /\ x \in Range(plan.actions[p].outputs) BY <1>7 DEF Accepts
  <2>2. Place(plan, p) \in 1 .. (n + 1) - 1 /\ plan.ordered[Place(plan, p)] = p BY <1>2, <1>5, <2>1
  <2> QED BY <2>1, <2>2 DEF Made
<1>10. ASSUME NEW id \in ids, plan.actions[id].work # None
       PROVE  plan.actions[id].work.reads \subseteq plan.actions[id].inputs
  <2>1. SoundWork(plan.actions[id]) BY DEF Accepts, Corresponds
  <2> QED BY <1>10, <2>1 DEF SoundWork
<1> QED BY <1>2, <1>4, <1>8, <1>9, <1>10 DEF Runs

-----------------------------------------------------------------------------
(* The demand closure *)

Listed(in) == {a.id : a \in ActionsOf(in.actions)}

(* There are no more ids than actions in the list.                         *)
LEMMA ListedFinite ==
  ASSUME NEW in, WellFormed(in)
  PROVE  /\ IsFiniteSet(Listed(in)) /\ Cardinality(Listed(in)) <= Len(in.actions)
         /\ Len(in.actions) \in Nat /\ DOMAIN in.actions = 1 .. Len(in.actions)
<1> DEFINE n == Len(in.actions)
           f == [i \in 1 .. n |-> in.actions[i].id]
<1>1. n \in Nat /\ DOMAIN in.actions = 1 .. n
  BY DEF WellFormed
<1>2. f \in Surjection(1 .. n, Listed(in))
  BY <1>1 DEF Surjection, Listed, ActionsOf, Range
<1> HIDE DEF f, n
<1>3. IsFiniteSet(1 .. n) /\ Cardinality(1 .. n) = n
  BY <1>1, UpTo
<1>4. IsFiniteSet(Listed(in)) /\ Cardinality(Listed(in)) <= n
  BY <1>2, <1>3, FS_Surjection
<1> QED BY <1>1, <1>4 DEF n

(* Producers are listed actions.                                           *)
LEMMA MakersListed ==
  ASSUME NEW in
  PROVE  /\ \A x \in Outputs(ActionsOf(in.actions)) :
              \E a \in ActionsOf(in.actions) :
                x \in Range(a.outputs) /\ Producer(ActionsOf(in.actions), x) = a.id
         /\ \A x \in Outputs(ActionsOf(in.actions)) : Producer(ActionsOf(in.actions), x) \in Listed(in)
         /\ \A xs : MakersOf(in, xs) \subseteq Listed(in)
<1>1. ASSUME NEW x \in Outputs(ActionsOf(in.actions))
      PROVE  \E a \in ActionsOf(in.actions) :
               x \in Range(a.outputs) /\ Producer(ActionsOf(in.actions), x) = a.id
  <2>1. \E a \in ActionsOf(in.actions) : x \in Range(a.outputs) BY DEF Outputs
  <2> QED BY <2>1 DEF Producer
<1>2. \A x \in Outputs(ActionsOf(in.actions)) : Producer(ActionsOf(in.actions), x) \in Listed(in)
  BY <1>1 DEF Listed
<1> QED BY <1>1, <1>2 DEF MakersOf

(* demand_closure returns the producers of what is demanded and of what    *)
(* any of them reads, and nothing else.                                    *)
LEMMA ClosureIsLeast ==
  ASSUME NEW in, WellFormed(in)
  PROVE  /\ DemandClosure(in) \subseteq Listed(in)
         /\ MakersOf(in, in.demanded) \subseteq DemandClosure(in)
         /\ WithMakers(in, DemandClosure(in)) = DemandClosure(in)
         /\ \A S : MakersOf(in, in.demanded) \subseteq S /\ WithMakers(in, S) \subseteq S
                     => DemandClosure(in) \subseteq S
<1> DEFINE U == Listed(in)
           a == MakersOf(in, in.demanded)
           G == [S \in SUBSET U |-> WithMakers(in, S)]
           k == Len(in.actions)
           Body(f) == [n \in Nat |-> IF n = 0 THEN a ELSE WithMakers(in, f[n - 1])]
           reach == CHOOSE f : f = Body(f)
<1>1. a \in SUBSET U /\ \A S \in SUBSET U : WithMakers(in, S) \in SUBSET U
  BY MakersListed DEF WithMakers
<1>2. G \in [SUBSET U -> SUBSET U]
  BY <1>1
<1>3. \E f : f = Body(f)
  <2>1. PICK f : Recurs(f, a, G)
    <3> HIDE DEF a, G, U
    <3> QED BY <1>1, <1>2, IterationExists
  <2>2. \A n \in Nat : f[n] \in SUBSET U
    <3> HIDE DEF a, G, U
    <3> QED BY <1>1, <1>2, <2>1, RecursValues
  <2>3. ASSUME NEW n \in Nat PROVE f[n] = IF n = 0 THEN a ELSE WithMakers(in, f[n - 1])
    <3>1. f[n] = IF n = 0 THEN a ELSE G[f[n - 1]]
      <4> HIDE DEF a, G
      <4> QED BY <2>1 DEF Recurs
    <3>2. n # 0 => n - 1 \in Nat
      OBVIOUS
    <3> HIDE DEF a, U
    <3> QED BY <2>2, <3>1, <3>2
  <2>4. \E g : f = [n \in Nat |-> g[n]]
    <3> DEFINE g == [n \in Nat |-> IF n = 0 THEN a ELSE G[f[n - 1]]]
    <3>1. f = [n \in Nat |-> g[n]]
      <4> HIDE DEF a, G
      <4> QED BY <2>1 DEF Recurs
    <3> QED BY <3>1
  <2>5. f = Body(f)
    <3> HIDE DEF a, G, U
    <3> QED BY <2>3, <2>4
  <2> QED BY <2>5
<1>4. reach = Body(reach)
  <2> HIDE DEF Body
  <2> QED BY <1>3
<1>5. DemandClosure(in) = reach[k]
  BY DEF DemandClosure
<1>6. Recurs(reach, a, G)
  <2> HIDE DEF reach
  <2>1. \A n \in Nat : reach[n] = IF n = 0 THEN a ELSE WithMakers(in, reach[n - 1])
    <3> HIDE DEF a
    <3> QED BY <1>4
  <2>2. \A n \in Nat : reach[n] \in SUBSET U
    <3> DEFINE T == {n \in Nat : reach[n] \in SUBSET U}
    <3>1. 0 \in T
      BY <1>1, <2>1
    <3>2. ASSUME NEW n \in Nat, n \in T PROVE n + 1 \in T
      <4>1. n + 1 \in Nat /\ n + 1 # 0 /\ (n + 1) - 1 = n
        OBVIOUS
      <4>2. reach[n + 1] = WithMakers(in, reach[n])
        <5> HIDE DEF a, U
        <5> QED BY <2>1, <4>1
      <4> HIDE DEF U
      <4> QED BY <1>1, <3>2, <4>2
    <3> HIDE DEF T
    <3>3. Nat \subseteq T
      BY <3>1, <3>2, Induction
    <3> QED BY <3>3 DEF T
  <2>3. ASSUME NEW n \in Nat PROVE reach[n] = IF n = 0 THEN a ELSE G[reach[n - 1]]
    <3>1. n # 0 => n - 1 \in Nat /\ G[reach[n - 1]] = WithMakers(in, reach[n - 1])
      <4> HIDE DEF U, a
      <4> QED BY <2>2
    <3> HIDE DEF G, a
    <3> QED BY <2>1, <3>1
  <2>4. reach = [n \in Nat |-> IF n = 0 THEN a ELSE G[reach[n - 1]]]
    <3>1. \E g : reach = [n \in Nat |-> g[n]]
      <4> DEFINE g == [n \in Nat |-> IF n = 0 THEN a ELSE WithMakers(in, reach[n - 1])]
      <4>1. reach = [n \in Nat |-> g[n]]
        <5> HIDE DEF a
        <5> QED BY <1>4
      <4> QED BY <4>1
    <3> HIDE DEF a, G
    <3> QED BY <2>3, <3>1
  <2> HIDE DEF a, G
  <2> QED BY <2>4 DEF Recurs
<1>7. LeastClosed(reach[k], U, a, G)
  <2>1. \A S \in SUBSET U : S \subseteq G[S]
    BY DEF WithMakers
  <2>2. IsFiniteSet(U) /\ k \in Nat /\ Cardinality(U) <= k
    BY ListedFinite
  <2> HIDE DEF U, a, G, reach, k
  <2> QED BY <1>1, <1>2, <1>6, <2>1, <2>2, IterationSettles
<1>8. ASSUME NEW S, a \subseteq S, WithMakers(in, S) \subseteq S PROVE reach[k] \subseteq S
  <2>1. \A X : X \subseteq S => WithMakers(in, X) \subseteq WithMakers(in, S)
    BY DEF WithMakers, MakersOf
  <2> HIDE DEF a, U, reach, k
  <2> QED BY <1>7, <1>8, <2>1 DEF LeastClosed
<1>9. WithMakers(in, reach[k]) = reach[k]
  <2> HIDE DEF U, a, reach, k
  <2> QED BY <1>7 DEF LeastClosed
<1> HIDE DEF reach, k
<1> QED BY <1>5, <1>7, <1>8, <1>9 DEF LeastClosed

-----------------------------------------------------------------------------
(* The kernel *)

ListedIds  == Listed(input)
Indexed   == {"demand", "walk", "search", "sort", "physical", "planned"}
Sorting   == {"sort", "physical", "planned"}

(* After the index every artifact has one producer, a listed action.       *)
IndexInv ==
  /\ WellFormed(input)
  /\ at \in Indexed =>
       /\ IsInjective([i \in DOMAIN input.actions |-> input.actions[i].id])
       /\ ~DeclaredTwice
       /\ producerOf = [x \in Outputs(ActionsOf(input.actions)) |-> Producer(ActionsOf(input.actions), x)]
       /\ needed \subseteq ListedIds

Before(i) == {ordered[j] : j \in 1 .. i - 1}
Emitted   == Range(ordered)

(* The counters of Kahn's loop say what is missing, the ready list is      *)
(* complete, and every action was the least one that could be emitted.     *)
SortInv ==
  /\ at \in Indexed \ Sorting => ordered = <<>>
  /\ at \in Sorting =>
       /\ ordered \in Seq(needed) /\ IsInjective(ordered)
       /\ remaining \in [needed -> Nat]
       /\ \A d \in needed : remaining[d] = Cardinality(Deps(d) \ Emitted)
       /\ ready = {d \in needed \ Emitted : Deps(d) \subseteq Emitted}
       /\ \A i \in DOMAIN ordered : Deps(ordered[i]) \subseteq Before(i)
       /\ \A i \in DOMAIN ordered : \A d \in needed :
            d \notin Before(i) /\ Deps(d) \subseteq Before(i) => ordered[i] <= d

IInv == IndexInv /\ SortInv /\ (at = "index" => ordered = <<>> /\ needed = {})

LEMMA ActionListed ==
  ASSUME IndexInv, at \in Indexed, NEW id \in ListedIds
  PROVE  /\ Act(id) \in ActionsOf(input.actions) /\ Act(id).id = id
         /\ id \in Nat /\ IsFiniteSet(Act(id).inputs)
<1>1. PICK i \in DOMAIN input.actions : input.actions[i].id = id
  BY DEF ListedIds, Listed, ActionsOf, Range
<1>2. \A j \in DOMAIN input.actions : input.actions[j].id = id => j = i
  BY <1>1 DEF IndexInv, IsInjective
<1>3. Act(id) = input.actions[i]
  <2>1. \A k \in DOMAIN input.actions :
          (input.actions[k].id = id /\ \A j \in DOMAIN input.actions : input.actions[j].id = id => j <= k)
            => k = i
    BY <1>2
  <2>2. i \in Nat
    BY DEF IndexInv, WellFormed
  <2> QED BY <1>1, <1>2, <2>1, <2>2 DEF Act, ById
<1> QED BY <1>1, <1>3 DEF IndexInv, WellFormed, ActionsOf, Range

LEMMA ProducersListed ==
  ASSUME IndexInv, at \in Indexed
  PROVE  \A x \in DOMAIN producerOf : producerOf[x] \in ListedIds
BY MakersListed DEF IndexInv, ListedIds

LEMMA DepsFinite ==
  ASSUME IndexInv, at \in Indexed, NEW id \in needed
  PROVE  IsFiniteSet(Deps(id))
<1> DEFINE f == [x \in Act(id).inputs |-> producerOf[x]]
<1>1. IsFiniteSet(Act(id).inputs) BY ActionListed DEF IndexInv
<1>2. f \in Surjection(Act(id).inputs, Deps(id)) BY DEF Surjection, Deps
<1> QED BY <1>1, <1>2, FS_Surjection

-----------------------------------------------------------------------------
(* What can be obtained *)

Needs(id) == Act(id).inputs

(* Each artifact has one producer.                                         *)
LEMMA OneProducer ==
  ASSUME IndexInv, at \in Indexed, NEW x \in Outputs(ActionsOf(input.actions))
  PROVE  /\ producerOf[x] \in ListedIds
         /\ x \in Range(Act(producerOf[x]).outputs)
         /\ \A a \in ActionsOf(input.actions) : x \in Range(a.outputs) => a = Act(producerOf[x])
<1>1. PICK a \in ActionsOf(input.actions) : x \in Range(a.outputs) /\ producerOf[x] = a.id
  BY MakersListed DEF IndexInv
<1>2. a.id \in ListedIds
  BY DEF ListedIds, Listed
<1>3. Act(a.id) \in ActionsOf(input.actions) /\ Act(a.id).id = a.id
  BY <1>2, ActionListed
<1>4. \A b, c \in ActionsOf(input.actions) : b.id = c.id => b = c
  BY DEF IndexInv, IsInjective, ActionsOf, Range
<1>5. \A b, c \in ActionsOf(input.actions) : x \in Range(b.outputs) /\ x \in Range(c.outputs) => b = c
  <2>1. SUFFICES ASSUME NEW i \in DOMAIN input.actions, NEW j \in DOMAIN input.actions,
                        NEW m \in DOMAIN input.actions[i].outputs, NEW n \in DOMAIN input.actions[j].outputs,
                        input.actions[i].outputs[m] = x, input.actions[j].outputs[n] = x
                 PROVE  i = j
    BY DEF ActionsOf, Range
  <2>2. <<i, m>> = <<j, n>>
    BY <2>1 DEF IndexInv, DeclaredTwice
  <2> QED BY <2>2
<1> QED BY <1>1, <1>2, <1>3, <1>4, <1>5

(* Artifacts become obtainable in stages, each made from the one before.   *)
LEMMA Stages ==
  ASSUME WellFormed(input)
  PROVE  \E f : /\ Obtainable = f[Len(input.actions)]
                /\ f[0] = {}
                /\ \A n \in Nat : f[n + 1] = Supply(f[n])
                /\ \A n \in Nat : f[n] \subseteq f[n + 1]
                /\ \A m, n \in Nat : m <= n => f[m] \subseteq f[n]
<1> DEFINE U == Outputs(ActionsOf(input.actions))
           G == [S \in SUBSET U |-> Supply(S)]
           Body(f) == [n \in Nat |-> IF n = 0 THEN {} ELSE Supply(f[n - 1])]
           after == CHOOSE f : f = Body(f)
<1>1. \A S : Supply(S) \in SUBSET U
  BY DEF Supply, Outputs
<1>2. G \in [SUBSET U -> SUBSET U] /\ {} \in SUBSET U
  BY <1>1
<1>3. \E f : f = Body(f)
  <2>1. PICK f : Recurs(f, {}, G)
    <3> HIDE DEF G, U
    <3> QED BY <1>2, IterationExists
  <2>2. \A n \in Nat : f[n] \in SUBSET U
    <3> HIDE DEF G, U
    <3> QED BY <1>2, <2>1, RecursValues
  <2>3. ASSUME NEW n \in Nat PROVE f[n] = IF n = 0 THEN {} ELSE Supply(f[n - 1])
    <3>1. f[n] = IF n = 0 THEN {} ELSE G[f[n - 1]]
      <4> HIDE DEF G
      <4> QED BY <2>1 DEF Recurs
    <3>2. n # 0 => n - 1 \in Nat
      OBVIOUS
    <3> HIDE DEF U
    <3> QED BY <2>2, <3>1, <3>2
  <2>4. \E g : f = [n \in Nat |-> g[n]]
    <3> DEFINE g == [n \in Nat |-> IF n = 0 THEN {} ELSE G[f[n - 1]]]
    <3>1. f = [n \in Nat |-> g[n]]
      <4> HIDE DEF G
      <4> QED BY <2>1 DEF Recurs
    <3> QED BY <3>1
  <2>5. f = Body(f)
    <3> HIDE DEF G, U
    <3> QED BY <2>3, <2>4
  <2> QED BY <2>5
<1>4. after = Body(after)
  <2> HIDE DEF Body
  <2> QED BY <1>3
<1>5. Obtainable = after[Len(input.actions)]
  BY DEF Obtainable
<1> HIDE DEF after
<1>6. after[0] = {} /\ \A n \in Nat : after[n + 1] = Supply(after[n])
  <2>1. \A n \in Nat : after[n] = IF n = 0 THEN {} ELSE Supply(after[n - 1])
    BY <1>4
  <2>2. \A n \in Nat : n + 1 \in Nat /\ n + 1 # 0 /\ (n + 1) - 1 = n
    OBVIOUS
  <2> QED BY ONLY <2>1, <2>2
<1>7. \A n \in Nat : after[n] \subseteq after[n + 1]
  <2> DEFINE T == {n \in Nat : after[n] \subseteq after[n + 1]}
  <2>1. 0 \in T
    BY <1>6
  <2>2. ASSUME NEW n \in Nat, n \in T PROVE n + 1 \in T
    <3>1. Supply(after[n]) \subseteq Supply(after[n + 1])
      BY <2>2 DEF Supply, Outputs
    <3> QED BY <1>6, <3>1
  <2> HIDE DEF T
  <2>3. Nat \subseteq T
    BY <2>1, <2>2, Induction
  <2> QED BY <2>3 DEF T
<1>8. ASSUME NEW m \in Nat, NEW n \in Nat, m <= n PROVE after[m] \subseteq after[n]
  <2> DEFINE T == {i \in Nat : after[m] \subseteq after[m + i]}
  <2>1. 0 \in T
    OBVIOUS
  <2>2. ASSUME NEW i \in Nat, i \in T PROVE i + 1 \in T
    <3>1. m + (i + 1) = (m + i) + 1 /\ m + i \in Nat
      OBVIOUS
    <3>2. after[m + i] \subseteq after[(m + i) + 1]
      BY <1>7, <3>1
    <3> QED BY <2>2, <3>1, <3>2
  <2> HIDE DEF T
  <2>3. Nat \subseteq T
    BY <2>1, <2>2, Induction
  <2>4. n - m \in Nat /\ m + (n - m) = n
    BY <1>8
  <2>5. after[m] \subseteq after[m + (n - m)]
    BY <2>3, <2>4 DEF T
  <2> QED BY <2>4, <2>5
<1> QED BY <1>5, <1>6, <1>7, <1>8

(* What is obtainable has a producer, and so is all that one reads, from   *)
(* an earlier stage.                                                       *)
LEMMA ObtainableHasProducer ==
  ASSUME IndexInv, at \in Indexed, NEW f,
         f[0] = {}, \A n \in Nat : f[n + 1] = Supply(f[n]),
         NEW n \in Nat, NEW x \in f[n]
  PROVE  /\ n # 0 /\ x \in DOMAIN producerOf
         /\ Needs(producerOf[x]) \subseteq f[n - 1]
<1>1. n # 0 /\ n - 1 \in Nat /\ (n - 1) + 1 = n
  OBVIOUS
<1>2. x \in Supply(f[n - 1])
  BY <1>1
<1>3. PICK a \in ActionsOf(input.actions) : a.inputs \subseteq f[n - 1] /\ x \in Range(a.outputs)
  BY <1>2 DEF Supply, Outputs
<1>4. x \in Outputs(ActionsOf(input.actions))
  BY <1>3 DEF Outputs
<1>5. a = Act(producerOf[x])
  BY <1>3, <1>4, OneProducer
<1>6. x \in DOMAIN producerOf
  BY <1>4 DEF IndexInv
<1> QED BY <1>1, <1>3, <1>5, <1>6 DEF Needs

LEMMA ObtainableNeeds ==
  ASSUME IndexInv, at \in Indexed
  PROVE  /\ Obtainable \subseteq DOMAIN producerOf
         /\ \A x \in Obtainable : Needs(producerOf[x]) \subseteq Obtainable
<1>1. PICK f : /\ Obtainable = f[Len(input.actions)]
              /\ f[0] = {}
              /\ \A n \in Nat : f[n + 1] = Supply(f[n])
              /\ \A i \in Nat : f[i] \subseteq f[i + 1]
  BY Stages DEF IndexInv
<1>2. Len(input.actions) \in Nat
  BY ListedFinite DEF IndexInv
<1>3. ASSUME NEW x \in Obtainable
      PROVE  x \in DOMAIN producerOf /\ Needs(producerOf[x]) \subseteq Obtainable
  <2> DEFINE n == Len(input.actions)
  <2>1. n # 0 /\ x \in DOMAIN producerOf /\ Needs(producerOf[x]) \subseteq f[n - 1]
    <3> HIDE DEF n
    <3>1. n \in Nat /\ x \in f[n]
      BY <1>1, <1>2 DEF n
    <3> QED BY <1>1, <3>1, ObtainableHasProducer
  <2>2. n - 1 \in Nat /\ (n - 1) + 1 = n
    BY <1>2, <2>1
  <2>3. f[n - 1] \subseteq f[n]
    BY <1>1, <2>2
  <2> QED BY <1>1, <2>1, <2>3
<1> QED BY <1>3

(* Where each of some actions reads from another of them, none can run.    *)
LEMMA NoneOfACircle ==
  ASSUME IndexInv, at \in Indexed, NEW C \in SUBSET ListedIds, C # {},
         \A id \in C : \E x \in Needs(id) : producerOf[x] \in C
  PROVE  \E id \in C : ~(Needs(id) \subseteq Obtainable)
<1> SUFFICES ASSUME \A id \in C : Needs(id) \subseteq Obtainable PROVE FALSE
  OBVIOUS
<1>1. PICK f : /\ Obtainable = f[Len(input.actions)]
              /\ f[0] = {}
              /\ \A n \in Nat : f[n + 1] = Supply(f[n])
  BY Stages DEF IndexInv
<1> DEFINE k == Len(input.actions)
           S == {n \in Nat : \A id \in C : ~(Needs(id) \subseteq f[n])}
<1>2. k \in Nat
  BY ListedFinite DEF IndexInv
<1> HIDE DEF k
<1>3. 0 \in S
  BY <1>1
<1>4. ASSUME NEW n \in Nat, n \in S PROVE n + 1 \in S
  <2> SUFFICES ASSUME NEW id \in C, Needs(id) \subseteq f[n + 1] PROVE FALSE
    OBVIOUS
  <2>1. PICK x \in Needs(id) : producerOf[x] \in C
    OBVIOUS
  <2>2. n + 1 \in Nat /\ (n + 1) - 1 = n /\ x \in f[n + 1]
    BY <2>1
  <2>3. Needs(producerOf[x]) \subseteq f[(n + 1) - 1]
    BY <1>1, <2>2, ObtainableHasProducer
  <2> QED BY <1>4, <2>1, <2>2, <2>3
<1> HIDE DEF S
<1>5. Nat \subseteq S
  BY <1>3, <1>4, Induction
<1>6. k \in S
  BY <1>2, <1>5
<1> QED BY <1>1, <1>6 DEF S, k

-----------------------------------------------------------------------------
(* The order *)

LEMMA Initially == StartsPlanning /\ WellFormed(input) => IInv
BY DEF StartsPlanning, IInv, IndexInv, SortInv, Indexed, Sorting

(* What the steps before and after the loop leave alone.                   *)
LEMMA SameDeps ==
  ASSUME UNCHANGED <<input, producerOf>>
  PROVE  /\ \A id : Act(id)' = Act(id) /\ Deps(id)' = Deps(id)
         /\ ListedIds' = ListedIds /\ DeclaredTwice' = DeclaredTwice
BY DEF Act, Deps, ListedIds, DeclaredTwice

LEMMA SortKept ==
  ASSUME SortInv, UNCHANGED <<input, producerOf, needed, sort>>,
         at \in Sorting, at' \in Sorting
  PROVE  SortInv'
<1>1. \A id : Deps(id)' = Deps(id) BY SameDeps
<1>2. UNCHANGED <<remaining, ready, ordered>> BY DEF sort
<1>3. Emitted' = Emitted /\ \A i : Before(i)' = Before(i) BY <1>2 DEF Emitted, Before
<1> QED BY <1>1, <1>2, <1>3 DEF SortInv, Indexed, Sorting

LEMMA RejectKeeps ==
  ASSUME IInv, NEW kind, NEW cycle, Reject(kind, cycle)
  PROVE  IInv'
BY DEF IInv, IndexInv, SortInv, Reject, Indexed, Sorting

(* The steps before the loop.                                              *)
LEMMA EarlyKeeps ==
  ASSUME IInv, at \in {"demand", "walk", "search"}, at' \in {"walk", "search"},
         UNCHANGED <<input, producerOf, sort>>, needed' \subseteq ListedIds
  PROVE  IInv'
<1>1. ListedIds' = ListedIds /\ DeclaredTwice' = DeclaredTwice BY SameDeps
<1>2. IndexInv' BY <1>1 DEF IInv, IndexInv, Indexed
<1>3. SortInv' BY DEF IInv, SortInv, Indexed, Sorting, sort
<1> QED BY <1>2, <1>3 DEF IInv

LEMMA EmitKeeps ==
  ASSUME IInv, NEW id \in needed, Emit(id)
  PROVE  IInv'
<1>0. /\ at = "sort" /\ at' = "sort" /\ UNCHANGED <<input, producerOf, needed>>
      /\ id \in ready /\ \A other \in ready : id <= other
      /\ ordered' = Append(ordered, id)
      /\ remaining' = [d \in needed |-> IF id \in Deps(d) THEN remaining[d] - 1 ELSE remaining[d]]
      /\ ready' = (ready \ {id}) \cup {d \in needed : id \in Deps(d) /\ remaining'[d] = 0}
  BY DEF Emit, First, Least, Goto, walk
<1>1. \A d : Deps(d)' = Deps(d) BY <1>0, SameDeps
<1>i. IndexInv /\ IndexInv'
  <2>1. ListedIds' = ListedIds /\ DeclaredTwice' = DeclaredTwice BY <1>0, SameDeps
  <2> QED BY <1>0, <2>1 DEF IInv, IndexInv, Indexed
<1>s. /\ ordered \in Seq(needed) /\ IsInjective(ordered)
      /\ remaining \in [needed -> Nat]
      /\ \A d \in needed : remaining[d] = Cardinality(Deps(d) \ Emitted)
      /\ ready = {d \in needed \ Emitted : Deps(d) \subseteq Emitted}
      /\ \A i \in DOMAIN ordered : Deps(ordered[i]) \subseteq Before(i)
      /\ \A i \in DOMAIN ordered : \A d \in needed :
            d \notin Before(i) /\ Deps(d) \subseteq Before(i) => ordered[i] <= d
  BY <1>0 DEF IInv, SortInv, Sorting
<1>2. PICK n \in Nat : n = Len(ordered) /\ DOMAIN ordered = 1..n BY <1>s
<1>3. /\ ordered' \in Seq(needed) /\ Len(ordered') = n + 1 /\ DOMAIN ordered' = 1..(n + 1)
      /\ ordered'[n + 1] = id /\ \A i \in 1..n : ordered'[i] = ordered[i]
  BY <1>0, <1>2, <1>s
<1>4. Emitted' = Emitted \cup {id} BY <1>2, <1>3 DEF Emitted, Range
<1>5. /\ \A i \in 1..n : Before(i)' = Before(i)
      /\ Before(n + 1)' = Emitted
  <2>1. \A i \in 1..n : Before(i)' = Before(i) BY <1>2, <1>3 DEF Before
  <2>2. Before(n + 1)' = {ordered'[j] : j \in 1..n} BY <1>2 DEF Before
  <2> QED BY <1>2, <1>3, <2>1, <2>2 DEF Emitted, Range
<1>6. id \notin Emitted /\ Deps(id) \subseteq Emitted BY <1>0, <1>s
<1>7. IsInjective(ordered')
  <2>1. \A i \in 1..n : ordered[i] # id BY <1>2, <1>6 DEF Emitted, Range
  <2>2. ASSUME NEW a \in 1 .. n + 1, NEW b \in 1 .. n + 1, ordered'[a] = ordered'[b]
        PROVE  a = b
    <3>1. CASE a \in 1..n /\ b \in 1..n BY <2>2, <3>1, <1>2, <1>3, <1>s DEF IsInjective
    <3>2. CASE a = n + 1 \/ b = n + 1 BY <2>2, <3>2, <1>2, <1>3, <2>1
    <3> QED BY <3>1, <3>2, <1>2
  <2> QED BY <1>3, <2>2 DEF IsInjective
<1>8. ASSUME NEW d \in needed
      PROVE  /\ remaining'[d] \in Nat
             /\ remaining'[d] = Cardinality(Deps(d) \ Emitted')
             /\ remaining'[d] = 0 <=> Deps(d) \subseteq Emitted'
  <2>1. IsFiniteSet(Deps(d)) BY <1>0, <1>i, DepsFinite DEF Indexed
  <2>2. IsFiniteSet(Deps(d) \ Emitted)
    BY <2>1, FS_Subset
  <2>3. Deps(d) \ Emitted' = (Deps(d) \ Emitted) \ {id} BY <1>4
  <2>4. /\ IsFiniteSet(Deps(d) \ Emitted')
        /\ Cardinality(Deps(d) \ Emitted') =
             IF id \in Deps(d) \ Emitted THEN Cardinality(Deps(d) \ Emitted) - 1
                                         ELSE Cardinality(Deps(d) \ Emitted)
    <3>1. ASSUME NEW S, IsFiniteSet(S)
          PROVE  /\ IsFiniteSet(S \ {id})
                 /\ Cardinality(S \ {id}) = IF id \in S THEN Cardinality(S) - 1 ELSE Cardinality(S)
      BY <3>1, FS_RemoveElement
    <3> QED BY ONLY <2>2, <2>3, <3>1
  <2>5. remaining'[d] = Cardinality(Deps(d) \ Emitted') BY <1>0, <1>6, <1>s, <2>4
  <2>6. Cardinality(Deps(d) \ Emitted') \in Nat BY <2>4, FS_CardinalityType
  <2>7. Cardinality(Deps(d) \ Emitted') = 0 <=> Deps(d) \ Emitted' = {} BY <2>4, FS_EmptySet
  <2> QED BY <2>5, <2>6, <2>7
<1>9. ready' = {d \in needed \ Emitted' : Deps(d) \subseteq Emitted'}
  <2>1. ASSUME NEW d \in ready' PROVE d \in needed \ Emitted' /\ Deps(d) \subseteq Emitted'
    <3>1. CASE d \in ready \ {id} BY <3>1, <1>4, <1>s
    <3>2. CASE d \in needed /\ id \in Deps(d) /\ remaining'[d] = 0
      <4>1. Deps(d) \subseteq Emitted' BY <3>2, <1>8
      <4>2. d # id BY <3>2, <1>6
      <4>3. d \notin Emitted
        <5>1. SUFFICES ASSUME d \in Emitted PROVE FALSE OBVIOUS
        <5>2. PICK i \in 1..n : ordered[i] = d BY <5>1, <1>2 DEF Emitted, Range
        <5>3. Before(i) \subseteq Emitted BY <1>2 DEF Before, Emitted, Range
        <5> QED BY <5>2, <5>3, <3>2, <1>2, <1>6, <1>s
      <4> QED BY <3>2, <4>1, <4>2, <4>3, <1>4
    <3> QED BY <2>1, <3>1, <3>2, <1>0
  <2>2. ASSUME NEW d \in needed \ Emitted', Deps(d) \subseteq Emitted' PROVE d \in ready'
    <3>1. CASE id \in Deps(d) BY <3>1, <2>2, <1>0, <1>8
    <3>2. CASE id \notin Deps(d) BY <3>2, <2>2, <1>0, <1>4, <1>s
    <3> QED BY <3>1, <3>2
  <2> QED BY <2>1, <2>2
<1>10. \A i \in DOMAIN ordered' : Deps(ordered'[i]) \subseteq Before(i)'
  BY <1>2, <1>3, <1>5, <1>6, <1>s
<1>11. ASSUME NEW i \in DOMAIN ordered', NEW d \in needed,
              d \notin Before(i)', Deps(d) \subseteq Before(i)'
       PROVE  ordered'[i] <= d
  <2>1. CASE i \in 1..n BY <2>1, <1>11, <1>2, <1>3, <1>5, <1>s
  <2>2. CASE i = n + 1
    <3>1. d \in ready BY <2>2, <1>11, <1>5, <1>s
    <3> QED BY <3>1, <2>2, <1>0, <1>3
  <2> QED BY <2>1, <2>2, <1>2, <1>3
<1>12. remaining' \in [needed -> Nat] BY <1>0, <1>8
<1>13. SortInv'
  BY <1>0, <1>1, <1>3, <1>7, <1>8, <1>9, <1>10, <1>11, <1>12 DEF SortInv, Indexed, Sorting
<1> QED BY <1>0, <1>i, <1>13 DEF IInv

(* The index knows listed actions only.                                    *)
LEMMA IndexKeeps ==
  ASSUME IInv, Index
  PROVE  IInv'
<1>1. CASE \E kind, cycle : Reject(kind, cycle) BY <1>1, RejectKeeps
<1>2. CASE /\ at = "index" /\ at' = "demand" /\ UNCHANGED <<input, walk, search, sort>>
           /\ IsInjective([i \in DOMAIN input.actions |-> input.actions[i].id])
           /\ ~DeclaredTwice
           /\ producerOf' = [x \in Outputs(ActionsOf(input.actions)) |->
                               Producer(ActionsOf(input.actions), x)]
  <2>2. ListedIds' = ListedIds /\ DeclaredTwice' = DeclaredTwice
    BY <1>2 DEF ListedIds, DeclaredTwice
  <2>3. IndexInv' BY <1>2, <2>2 DEF IInv, IndexInv, walk
  <2>4. SortInv' BY <1>2 DEF IInv, SortInv, Indexed, Sorting, sort
  <2> QED BY <1>2, <2>3, <2>4 DEF IInv
<1> QED BY <1>1, <1>2 DEF Index, Goto

(* What is needed is listed.                                               *)
LEMMA DemandKeeps ==
  ASSUME IInv, Demand
  PROVE  IInv'
<1>1. CASE \E kind, cycle : Reject(kind, cycle) BY <1>1, RejectKeeps
<1>2. CASE /\ input.demanded \subseteq DOMAIN producerOf /\ at = "demand" /\ at' = "walk"
           /\ needed' = {producerOf[x] : x \in input.demanded}
           /\ UNCHANGED <<input, producerOf, search, sort>>
  <2>1. needed' \subseteq ListedIds BY <1>2, ProducersListed DEF IInv, Indexed
  <2> QED BY <1>2, <2>1, EarlyKeeps
<1> QED BY <1>1, <1>2 DEF Demand, Goto

LEMMA WalkKeeps ==
  ASSUME IInv, NEW id, Walk(id)
  PROVE  IInv'
<1>1. CASE \E kind, cycle : Reject(kind, cycle) BY <1>1, RejectKeeps
<1>2. CASE /\ Act(id).inputs \subseteq DOMAIN producerOf /\ at = "walk" /\ at' = "walk"
           /\ needed' = needed \cup Deps(id)
           /\ UNCHANGED <<input, producerOf, search, sort>>
  <2>1. needed' \subseteq ListedIds BY <1>2, ProducersListed DEF IInv, IndexInv, Indexed, Deps
  <2> QED BY <1>2, <2>1, EarlyKeeps
<1> QED BY <1>1, <1>2 DEF Walk, Goto

(* The loop starts with nothing emitted and everything counted.            *)
LEMMA SearchedKeeps ==
  ASSUME IInv, Searched
  PROVE  IInv'
<1>0. /\ at = "search" /\ at' = "sort" /\ UNCHANGED <<input, producerOf, needed, ordered>>
      /\ remaining' = [id \in needed |-> Cardinality(Deps(id))]
      /\ ready' = {id \in needed : remaining'[id] = 0}
  BY DEF Searched, Goto, walk, Awaited
<1>1. \A d : Deps(d)' = Deps(d) BY <1>0, SameDeps
<1>i. IndexInv /\ IndexInv'
  <2>1. ListedIds' = ListedIds /\ DeclaredTwice' = DeclaredTwice BY <1>0, SameDeps
  <2> QED BY <1>0, <2>1 DEF IInv, IndexInv, Indexed
<1>2. ordered' = <<>> BY <1>0 DEF IInv, SortInv, Indexed, Sorting
<1>3. Emitted' = {} BY <1>2 DEF Emitted, Range
<1>4. ASSUME NEW d \in needed
      PROVE  /\ remaining'[d] \in Nat
             /\ remaining'[d] = Cardinality(Deps(d) \ Emitted')
             /\ remaining'[d] = 0 <=> Deps(d) = {}
  <2>1. IsFiniteSet(Deps(d)) BY <1>0, <1>i, DepsFinite DEF Indexed
  <2>2. Cardinality(Deps(d)) \in Nat BY <2>1, FS_CardinalityType
  <2>3. Cardinality(Deps(d)) = 0 <=> Deps(d) = {} BY <2>1, FS_EmptySet
  <2>4. Deps(d) \ Emitted' = Deps(d) BY <1>3
  <2> QED BY <1>0, <2>2, <2>3, <2>4
<1>5. ready' = {d \in needed \ Emitted' : Deps(d) \subseteq Emitted'}
  BY <1>0, <1>3, <1>4
<1>6. remaining' \in [needed -> Nat] BY <1>0, <1>4
<1>7. ordered' \in Seq(needed) /\ IsInjective(ordered') /\ DOMAIN ordered' = {}
  BY <1>2 DEF IsInjective
<1>8. SortInv' BY <1>0, <1>1, <1>4, <1>5, <1>6, <1>7 DEF SortInv, Indexed, Sorting
<1> QED BY <1>0, <1>i, <1>8 DEF IInv

(* The steps after the loop, and a planner that does not plan.             *)
LEMMA LateKeeps ==
  ASSUME IInv, at \in Sorting, at' \in Sorting,
         UNCHANGED <<input, producerOf, needed, sort>>
  PROVE  IInv'
<1>1. SortInv' BY SortKept DEF IInv
<1>2. ListedIds' = ListedIds /\ DeclaredTwice' = DeclaredTwice BY SameDeps
<1>3. IndexInv' BY <1>2 DEF IInv, IndexInv, Indexed, Sorting
<1> QED BY <1>1, <1>3 DEF IInv, Sorting

LEMMA StepKeeps == IInv /\ [Next]_vars => IInv'
<1> SUFFICES ASSUME IInv, [Next]_vars PROVE IInv'
  OBVIOUS
<1>1. CASE Index BY <1>1, IndexKeeps
<1>2. CASE Demand BY <1>2, DemandKeeps
<1>3. CASE Walked
  <2>1. at = "walk" /\ at' = "search" /\ UNCHANGED <<input, producerOf, needed, sort>>
    BY <1>3 DEF Walked, Goto, walk
  <2>2. needed' \subseteq ListedIds BY <2>1 DEF IInv, IndexInv, Indexed
  <2> QED BY <2>1, <2>2, EarlyKeeps
<1>4. ASSUME Root \/ Ascend \/ \E id \in needed : Descend(id) PROVE IInv'
  <2>1. at = "search" /\ at' = "search" /\ UNCHANGED <<input, producerOf, needed, sort>>
    BY <1>4 DEF Root, Ascend, Descend, Goto, walk
  <2>2. needed' \subseteq ListedIds BY <2>1 DEF IInv, IndexInv, Indexed
  <2> QED BY <2>1, <2>2, EarlyKeeps
<1>5. CASE Searched BY <1>5, SearchedKeeps
<1>6. CASE Sorted
  <2>1. at = "sort" /\ at' = "physical" /\ UNCHANGED <<input, producerOf, needed, sort>>
    BY <1>6 DEF Sorted, Goto, walk
  <2> QED BY <2>1, LateKeeps DEF Sorting
<1>7. CASE Answer
  <2>1. CASE \E kind, cycle : Reject(kind, cycle) BY <2>1, RejectKeeps
  <2>2. CASE at' = "planned"
    BY <1>7, <2>2, LateKeeps DEF Answer, Reject, Sorting, walk
  <2> QED BY <1>7, <2>1, <2>2 DEF Answer
<1>8. CASE Impostor
  BY <1>8 DEF Impostor, IInv, IndexInv, SortInv, Indexed, Sorting
<1>9. ASSUME NEW id \in needed, Walk(id) \/ CloseCycle(id) \/ Emit(id) PROVE IInv'
  <2>1. CASE Walk(id) BY <2>1, WalkKeeps
  <2>2. CASE CloseCycle(id) BY <2>2, RejectKeeps DEF CloseCycle
  <2>3. CASE Emit(id) BY <2>3, EmitKeeps
  <2> QED BY <1>9, <2>1, <2>2, <2>3
<1>10. CASE UNCHANGED vars
  <2>1. UNCHANGED <<input, at, producerOf, needed, sort, ordered>>
            /\ ListedIds' = ListedIds /\ DeclaredTwice' = DeclaredTwice
    BY <1>10, SameDeps DEF vars, walk, sort, answer
  <2>2. CASE at \in Sorting BY <2>1, <2>2, LateKeeps
  <2>3. CASE at \notin Sorting
    <3>1. IndexInv' BY <2>1 DEF IInv, IndexInv
    <3>2. SortInv' BY <2>1, <2>3 DEF IInv, SortInv
    <3> QED BY <2>1, <3>1, <3>2 DEF IInv
  <2> QED BY <2>2, <2>3
<1> QED BY <1>1, <1>2, <1>3, <1>4, <1>5, <1>6, <1>7, <1>8, <1>9, <1>10 DEF Next

(* Each place of the plan holds the least action that could stand there.   *)
LEMMA LeastAtEachPlace == IInv => PlanIsCanonical
<1> SUFFICES ASSUME IInv, at = "planned",
                    NEW i \in DOMAIN ordered, NEW j \in i + 1 .. Len(ordered),
                    Deps(ordered[j]) \subseteq Before(i)
             PROVE  ordered[i] <= ordered[j]
  BY DEF PlanIsCanonical, Before
<1>1. /\ ordered \in Seq(needed) /\ IsInjective(ordered)
      /\ \A d \in needed : d \notin Before(i) /\ Deps(d) \subseteq Before(i) => ordered[i] <= d
  BY DEF IInv, SortInv, Sorting
<1>2. i \in 1..Len(ordered) /\ j \in 1..Len(ordered) /\ ordered[j] \in needed BY <1>1
<1>3. ordered[j] \notin Before(i) BY <1>1, <1>2 DEF Before, IsInjective
<1> QED BY <1>1, <1>2, <1>3

(* The plan of the kernel is the lexicographically least order, for every  *)
(* planning input, in whatever order the kernel meets its tables.          *)
THEOREM OrderIsCanonical == Spec => []PlanIsCanonical
<1>1. Init => IInv BY Initially, InputsWellFormed DEF Init
<1>2. Spec => []IInv BY <1>1, StepKeeps, PTL DEF Spec
<1> QED BY <1>2, LeastAtEachPlace, PTL

-----------------------------------------------------------------------------
(* The whole kernel *)

PastWalk   == {"search", "sort", "physical", "planned"}
PastDemand == {"walk"} \cup PastWalk

Meetable == input.demanded \subseteq Obtainable

(* What is needed is part of the demand closure, and all of it once the    *)
(* work list is empty; if the demand can be met at all, each needed action *)
(* can run.                                                                *)
WalkInv ==
  /\ at \in PastDemand =>
       /\ input.demanded \subseteq DOMAIN producerOf
       /\ {producerOf[x] : x \in input.demanded} \subseteq needed
       /\ needed \subseteq DemandClosure(input)
       /\ \A id \in needed \ queue : Needs(id) \subseteq DOMAIN producerOf /\ Deps(id) \subseteq needed
       /\ Meetable => \A id \in needed : Needs(id) \subseteq Obtainable
  /\ at \in PastWalk => queue = {}

Finished == visited \ Range(path)

NoCircle(ids) == \A S \in SUBSET ids : S # {} => \E d \in S : Deps(d) \cap S = {}

(* The path is one of dependencies; what the search has left behind leads  *)
(* to nothing else, and nothing of it waits in a circle.                   *)
SearchInv ==
  /\ at \in {"index", "demand", "walk"} => visited = {} /\ path = <<>>
  /\ at = "search" =>
       /\ path \in Seq(needed) /\ visited \subseteq needed /\ Range(path) \subseteq visited
       /\ \A i \in 1 .. Len(path) - 1 : path[i + 1] \in Deps(path[i])
       /\ \A d \in Finished : Deps(d) \subseteq Finished
       /\ NoCircle(Finished)
  /\ at \in Sorting => NoCircle(needed)
  /\ at \in {"physical", "planned"} => Emitted = needed

Circle(ids) ==
  /\ ids[1] = ids[Len(ids)] /\ Len(ids) > 1
  /\ \A i \in 1 .. Len(ids) - 1 : ids[i + 1] \in Deps(ids[i])

(* A reason is true.                                                       *)
AnswerInv ==
  /\ at # "rejected" => reason = None
  /\ reason \in {"cycle", "missing_producer"} => ~Meetable
  /\ reason = "cycle" => Circle(cyclePath)
  /\ at \in {"planned", "fabricated"} => received.ordered \in Seq(Range(received.ordered))

KernelInv == IInv /\ WalkInv /\ SearchInv /\ AnswerInv

LEMMA KernelInit == StartsPlanning /\ WellFormed(input) => KernelInv
<1> SUFFICES ASSUME StartsPlanning, WellFormed(input) PROVE KernelInv
  OBVIOUS
<1>1. IInv
  BY Initially
<1>2. at = "index" /\ reason = None /\ visited = {} /\ path = <<>>
  BY DEF StartsPlanning
<1>3. WalkInv /\ SearchInv
  BY <1>2 DEF WalkInv, SearchInv, PastDemand, PastWalk, Sorting
<1>4. AnswerInv
  BY <1>2, NoReason DEF AnswerInv, ReasonKinds
<1> QED BY <1>1, <1>3, <1>4 DEF KernelInv

LEMMA SameMeaning ==
  ASSUME UNCHANGED <<input, producerOf>>
  PROVE  /\ \A id : Needs(id)' = Needs(id) /\ Deps(id)' = Deps(id)
         /\ Meetable' = Meetable /\ Obtainable' = Obtainable
         /\ DemandClosure(input)' = DemandClosure(input)
<1>1. \A id : Needs(id)' = Needs(id) /\ Deps(id)' = Deps(id)
  BY DEF Needs, Act, Deps
<1>2. Obtainable' = Obtainable
  BY DEF Obtainable, Supply
<1>3. Meetable' = Meetable
  BY <1>2 DEF Meetable
<1> QED BY <1>1, <1>2, <1>3

LEMMA WalkFrame ==
  ASSUME WalkInv, at \in PastDemand, UNCHANGED <<input, producerOf, needed, queue>>,
         at' \in PastWalk => queue = {}
  PROVE  WalkInv'
<1>1. \A id : Needs(id)' = Needs(id) /\ Deps(id)' = Deps(id)
  BY SameMeaning
<1>2. Meetable' = Meetable /\ Obtainable' = Obtainable /\ DemandClosure(input)' = DemandClosure(input)
  BY SameMeaning
<1> QED BY <1>1, <1>2 DEF WalkInv

LEMMA AnswerFrame ==
  ASSUME AnswerInv, at # "rejected", UNCHANGED reason, at' \notin {"planned", "fabricated"}
  PROVE  AnswerInv'
BY NoReason DEF AnswerInv, ReasonKinds

(* A refusal keeps the invariant if its reason is true.                    *)
LEMMA RefusalKeeps ==
  ASSUME KernelInv, NEW kind, NEW cycle, Reject(kind, cycle),
         kind \in {"cycle", "missing_producer"} => ~Meetable,
         kind = "cycle" => Circle(cycle)
  PROVE  KernelInv'
<1>1. IInv'
  BY RejectKeeps DEF KernelInv
<1>2. at' = "rejected" /\ reason' = kind /\ cyclePath' = cycle /\ UNCHANGED <<input, producerOf>>
  BY DEF Reject
<1>3. WalkInv' /\ SearchInv'
  BY <1>2 DEF WalkInv, SearchInv, PastDemand, PastWalk, Sorting
<1>4. Meetable' = Meetable /\ Circle(cycle)' = Circle(cycle)
  <2>1. \A id : Deps(id)' = Deps(id)
    BY <1>2, SameMeaning
  <2>2. Circle(cycle)' = Circle(cycle)
    BY <2>1 DEF Circle
  <2> QED BY <1>2, <2>2, SameMeaning
<1>5. AnswerInv'
  <2>1. reason' \in {"cycle", "missing_producer"} => ~Meetable'
    BY <1>2, <1>4
  <2>2. reason' = "cycle" => Circle(cyclePath)'
    <3>1. Circle(cyclePath)' <=> Circle(cycle)'
      BY <1>2 DEF Circle
    <3> QED BY <1>2, <1>4, <3>1
  <2> QED BY <1>2, <2>1, <2>2 DEF AnswerInv
<1> QED BY <1>1, <1>3, <1>5 DEF KernelInv

-----------------------------------------------------------------------------
(* The demand *)

LEMMA IndexStep ==
  ASSUME KernelInv, Index
  PROVE  KernelInv'
<1>1. CASE \E kind \in ReasonKinds \ {"cycle", "missing_producer"} : Reject(kind, <<>>)
  BY <1>1, RefusalKeeps
<1>2. CASE at = "index" /\ at' = "demand" /\ UNCHANGED <<reason, search>>
  <2>1. IInv'
    BY IndexKeeps DEF KernelInv
  <2>2. visited' = {} /\ path' = <<>>
    BY <1>2 DEF KernelInv, SearchInv, search
  <2>3. WalkInv' /\ SearchInv'
    BY <1>2, <2>2 DEF WalkInv, SearchInv, PastDemand, PastWalk, Sorting
  <2>4. AnswerInv'
    BY <1>2, AnswerFrame DEF KernelInv
  <2> QED BY <2>1, <2>3, <2>4 DEF KernelInv
<1> QED BY <1>1, <1>2 DEF Index, Goto, ReasonKinds

LEMMA DemandStep ==
  ASSUME KernelInv, Demand
  PROVE  KernelInv'
<1>0. at = "demand" /\ IndexInv /\ IInv /\ at \in Indexed
  BY DEF Demand, KernelInv, IInv, Indexed
<1>1. CASE ~(input.demanded \subseteq DOMAIN producerOf) /\ Reject("missing_producer", <<>>)
  <2>1. ~Meetable
    BY <1>0, <1>1, ObtainableNeeds DEF Meetable
  <2> QED BY <1>1, <2>1, RefusalKeeps
<1>2. CASE /\ input.demanded \subseteq DOMAIN producerOf /\ at' = "walk"
           /\ needed' = {producerOf[x] : x \in input.demanded} /\ queue' = needed'
           /\ UNCHANGED <<input, producerOf, reason, search>>
  <2>1. IInv'
    BY <1>0, DemandKeeps
  <2>2. SearchInv'
    BY <1>0, <1>2 DEF KernelInv, SearchInv, search, Sorting
  <2>3. AnswerInv'
    BY <1>0, <1>2, AnswerFrame DEF KernelInv
  <2>4. needed' \subseteq DemandClosure(input)
    <3>1. \A x \in DOMAIN producerOf :
            x \in Outputs(ActionsOf(input.actions)) /\ producerOf[x] = Producer(ActionsOf(input.actions), x)
      BY <1>0 DEF IndexInv
    <3>2. needed' \subseteq MakersOf(input, input.demanded)
      BY <1>2, <3>1 DEF MakersOf
    <3>3. WellFormed(input)
      BY <1>0 DEF IndexInv
    <3> QED BY <3>2, <3>3, ClosureIsLeast
  <2>5. Meetable => \A id \in needed' : Needs(id) \subseteq Obtainable
    BY <1>0, <1>2, ObtainableNeeds DEF Meetable
  <2>6. WalkInv'
    <3>1. \A id : Needs(id)' = Needs(id) /\ Deps(id)' = Deps(id)
      BY <1>2, SameMeaning
    <3>2. Meetable' = Meetable /\ Obtainable' = Obtainable /\ DemandClosure(input)' = DemandClosure(input)
      BY <1>2, SameMeaning
    <3> QED BY <1>2, <2>4, <2>5, <3>1, <3>2 DEF WalkInv, PastDemand, PastWalk
  <2> QED BY <2>1, <2>2, <2>3, <2>6 DEF KernelInv
<1> QED BY <1>1, <1>2 DEF Demand, Goto

(* The dependencies of an action are the producers of what it reads.       *)
LEMMA DepsAreMakers ==
  ASSUME IndexInv, at \in Indexed, NEW id, Needs(id) \subseteq DOMAIN producerOf
  PROVE  Deps(id) = MakersOf(input, Needs(id))
<1>1. /\ DOMAIN producerOf = Outputs(ActionsOf(input.actions))
      /\ \A x \in DOMAIN producerOf : producerOf[x] = Producer(ActionsOf(input.actions), x)
  BY DEF IndexInv
<1> QED BY <1>1 DEF Deps, Needs, MakersOf

LEMMA WalkStep ==
  ASSUME KernelInv, NEW id \in needed, Walk(id)
  PROVE  KernelInv'
<1>0. at = "walk" /\ IndexInv /\ IInv /\ at \in Indexed /\ id \in queue
  BY DEF Walk, KernelInv, IInv, Indexed
<1>w. /\ input.demanded \subseteq DOMAIN producerOf
      /\ {producerOf[x] : x \in input.demanded} \subseteq needed
      /\ needed \subseteq DemandClosure(input)
      /\ \A d \in needed \ queue : Needs(d) \subseteq DOMAIN producerOf /\ Deps(d) \subseteq needed
      /\ Meetable => \A d \in needed : Needs(d) \subseteq Obtainable
  BY <1>0 DEF KernelInv, WalkInv, PastDemand
<1>1. CASE ~(Needs(id) \subseteq DOMAIN producerOf) /\ Reject("missing_producer", <<>>)
  <2>1. ~Meetable
    BY <1>0, <1>w, <1>1, ObtainableNeeds
  <2> QED BY <1>1, <2>1, RefusalKeeps
<1>2. CASE /\ Needs(id) \subseteq DOMAIN producerOf /\ at' = "walk"
           /\ needed' = needed \cup Deps(id)
           /\ queue' = (queue \ {id}) \cup (Deps(id) \ needed)
           /\ UNCHANGED <<input, producerOf, reason, search>>
  <2>1. IInv'
    BY <1>0, WalkKeeps
  <2>2. SearchInv'
    BY <1>0, <1>2 DEF KernelInv, SearchInv, search, Sorting
  <2>3. AnswerInv'
    BY <1>0, <1>2, AnswerFrame DEF KernelInv
  <2>4. needed' \subseteq DemandClosure(input)
    <3>1. WithMakers(input, DemandClosure(input)) = DemandClosure(input)
      BY <1>0, ClosureIsLeast DEF IndexInv
    <3>2. MakersOf(input, Needs(id)) \subseteq WithMakers(input, DemandClosure(input))
      BY <1>w DEF WithMakers, MakersOf, Needs, Act
    <3>3. Deps(id) = MakersOf(input, Needs(id))
      BY <1>0, <1>2, DepsAreMakers
    <3> QED BY <1>w, <1>2, <3>1, <3>2, <3>3
  <2>5. Meetable => \A d \in needed' : Needs(d) \subseteq Obtainable
    <3> SUFFICES ASSUME Meetable, NEW d \in Deps(id) PROVE Needs(d) \subseteq Obtainable
      BY <1>w, <1>2
    <3>1. PICK x \in Needs(id) : d = producerOf[x]
      BY DEF Deps, Needs
    <3>2. x \in Obtainable
      BY <1>w, <3>1
    <3> QED BY <1>0, <3>1, <3>2, ObtainableNeeds
  <2>6. \A d \in needed' \ queue' : Needs(d) \subseteq DOMAIN producerOf /\ Deps(d) \subseteq needed'
    BY <1>w, <1>2
  <2>7. WalkInv'
    <3>1. \A d : Needs(d)' = Needs(d) /\ Deps(d)' = Deps(d)
      BY <1>2, SameMeaning
    <3>2. Meetable' = Meetable /\ Obtainable' = Obtainable /\ DemandClosure(input)' = DemandClosure(input)
      BY <1>2, SameMeaning
    <3>3. {producerOf[x] : x \in input.demanded} \subseteq needed'
      BY <1>w, <1>2
    <3> QED BY <1>w, <1>2, <2>4, <2>5, <2>6, <3>1, <3>2, <3>3 DEF WalkInv, PastDemand, PastWalk
  <2> QED BY <2>1, <2>2, <2>3, <2>7 DEF KernelInv
<1> QED BY <1>1, <1>2 DEF Walk, Goto, Needs

LEMMA WalkedStep ==
  ASSUME KernelInv, Walked
  PROVE  KernelInv'
<1>1. /\ at = "walk" /\ at' = "search" /\ queue = {}
      /\ UNCHANGED <<input, producerOf, needed, queue, visited, path, reason>>
  BY DEF Walked, Goto, walk, search
<1>2. IInv'
  <2>1. IInv /\ Next
    BY DEF KernelInv, Next
  <2> QED BY <2>1, StepKeeps
<1>3. WalkInv'
  BY <1>1, WalkFrame DEF KernelInv, PastDemand
<1>4. visited' = {} /\ path' = <<>>
  BY <1>1 DEF KernelInv, SearchInv
<1>5. SearchInv'
  <2>1. Finished' = {} /\ Len(path') = 0 /\ Range(path') = {} /\ path' \in Seq(needed')
    BY <1>4 DEF Finished, Range
  <2>2. NoCircle(Finished)'
    BY <2>1 DEF NoCircle
  <2> QED BY <1>1, <1>4, <2>1, <2>2 DEF SearchInv, Sorting
<1>6. AnswerInv'
  BY <1>1, AnswerFrame DEF KernelInv
<1> QED BY <1>2, <1>3, <1>5, <1>6 DEF KernelInv

-----------------------------------------------------------------------------
(* The search *)

SearchFrame ==
  /\ at = "search" /\ at' = "search"
  /\ UNCHANGED <<input, producerOf, needed, queue, reason>>

(* What every step of the search leaves as it is.                          *)
LEMMA SearchFrameKeeps ==
  ASSUME KernelInv, Next, SearchFrame
  PROVE  IInv' /\ WalkInv' /\ AnswerInv' /\ \A id : Deps(id)' = Deps(id)
<1>1. IInv'
  BY StepKeeps DEF KernelInv
<1>2. WalkInv'
  BY WalkFrame DEF KernelInv, SearchFrame, PastDemand, PastWalk, WalkInv
<1>3. AnswerInv'
  BY AnswerFrame DEF KernelInv, SearchFrame
<1> QED BY <1>1, <1>2, <1>3, SameMeaning DEF SearchFrame

Searching ==
  /\ path \in Seq(needed) /\ visited \subseteq needed /\ Range(path) \subseteq visited
  /\ \A i \in 1 .. Len(path) - 1 : path[i + 1] \in Deps(path[i])
  /\ \A d \in Finished : Deps(d) \subseteq Finished
  /\ NoCircle(Finished)

LEMMA SearchingHolds == KernelInv /\ at = "search" => Searching
BY DEF KernelInv, SearchInv, Searching

LEMMA SearchStepHolds ==
  ASSUME KernelInv, Next, SearchFrame,
         path' \in Seq(needed), visited' \subseteq needed, Range(path') \subseteq visited',
         \A i \in 1 .. Len(path') - 1 : path'[i + 1] \in Deps(path'[i]),
         \A d \in Finished' : Deps(d) \subseteq Finished',
         NoCircle(Finished')
  PROVE  KernelInv'
<1>1. IInv' /\ WalkInv' /\ AnswerInv' /\ \A id : Deps(id)' = Deps(id)
  BY SearchFrameKeeps
<1>2. NoCircle(Finished)'
  BY <1>1 DEF NoCircle
<1>3. SearchInv'
  BY <1>1, <1>2 DEF SearchInv, SearchFrame, Sorting
<1> QED BY <1>1, <1>3 DEF KernelInv

LEMMA RootStep ==
  ASSUME KernelInv, Root
  PROVE  KernelInv'
<1>1. PICK id \in needed \ visited : path' = <<id>> /\ visited' = visited \cup {id}
  BY DEF Root, Least
<1>2. SearchFrame /\ path = <<>> /\ Next
  BY DEF Root, SearchFrame, Goto, walk, Next
<1>3. Searching
  BY <1>2, SearchingHolds DEF SearchFrame
<1>4. path' \in Seq(needed) /\ Len(path') = 1 /\ Range(path') = {id} /\ Range(path) = {}
  BY <1>1, <1>2 DEF Range
<1>5. Finished' = Finished
  BY <1>1, <1>4 DEF Finished
<1> QED BY <1>1, <1>2, <1>3, <1>4, <1>5, SearchStepHolds DEF Searching

LEMMA DescendStep ==
  ASSUME KernelInv, NEW id \in needed, Descend(id)
  PROVE  KernelInv'
<1>1. /\ SearchFrame /\ Next /\ path # <<>> /\ id \in Deps(Top) \ visited
      /\ path' = Append(path, id) /\ visited' = visited \cup {id}
  BY DEF Descend, SearchFrame, Goto, walk, Next
<1>2. Searching
  BY <1>1, SearchingHolds DEF SearchFrame
<1>3. PICK n \in Nat \ {0} : n = Len(path) /\ DOMAIN path = 1 .. n
  BY <1>1, <1>2 DEF Searching
<1>4. /\ path' \in Seq(needed) /\ Len(path') = n + 1 /\ DOMAIN path' = 1 .. n + 1
      /\ path'[n + 1] = id /\ \A i \in 1 .. n : path'[i] = path[i]
  BY <1>1, <1>2, <1>3 DEF Searching
<1>5. Range(path') = Range(path) \cup {id}
  BY <1>3, <1>4 DEF Range
<1>6. Finished' = Finished
  BY <1>1, <1>5 DEF Finished
<1>7. ASSUME NEW i \in 1 .. Len(path') - 1 PROVE path'[i + 1] \in Deps(path'[i])
  <2>1. CASE i = n
    BY <1>1, <1>3, <1>4, <2>1 DEF Top
  <2>2. CASE i \in 1 .. n - 1
    BY <1>2, <1>3, <1>4, <2>2 DEF Searching
  <2> QED BY <1>3, <1>4, <2>1, <2>2
<1>8. visited' \subseteq needed /\ Range(path') \subseteq visited'
  BY <1>1, <1>2, <1>5 DEF Searching
<1> QED BY <1>1, <1>2, <1>4, <1>6, <1>7, <1>8, SearchStepHolds DEF Searching

LEMMA AscendStep ==
  ASSUME KernelInv, Ascend
  PROVE  KernelInv'
<1>1. /\ SearchFrame /\ Next /\ path # <<>> /\ Deps(Top) \subseteq Finished
      /\ path' = Popped /\ visited' = visited
  BY DEF Ascend, SearchFrame, Goto, walk, Next, Finished
<1>2. Searching
  BY <1>1, SearchingHolds DEF SearchFrame
<1>3. PICK n \in Nat \ {0} : n = Len(path) /\ DOMAIN path = 1 .. n /\ Top = path[n]
  BY <1>1, <1>2 DEF Searching, Top
<1>4. /\ path' \in Seq(needed) /\ Len(path') = n - 1 /\ DOMAIN path' = 1 .. n - 1
      /\ \A i \in 1 .. n - 1 : path'[i] = path[i]
  BY <1>1, <1>2, <1>3 DEF Searching, Popped
<1>5. Range(path) = Range(path') \cup {Top}
  BY <1>3, <1>4 DEF Range
<1>6. Finished' = Finished \/ Finished' = Finished \cup {Top}
  BY <1>1, <1>2, <1>5 DEF Finished, Searching
<1>7. ASSUME NEW S \in SUBSET Finished', S # {}
      PROVE  \E d \in S : Deps(d) \cap S = {}
  <2>1. CASE S \subseteq {Top}
    <3>1. S = {Top} /\ Top \notin Finished
      BY <1>3, <1>7, <2>1 DEF Finished, Range
    <3> QED BY <1>1, <3>1
  <2>2. CASE ~(S \subseteq {Top})
    <3>1. S \ {Top} \in SUBSET Finished /\ S \ {Top} # {}
      BY <1>6, <2>2
    <3>2. PICK d \in S \ {Top} : Deps(d) \cap (S \ {Top}) = {}
      BY <1>2, <3>1 DEF Searching, NoCircle
    <3>3. Deps(d) \subseteq Finished /\ Top \notin Finished
      BY <1>2, <1>3, <3>1 DEF Searching, Finished, Range
    <3> QED BY <3>2, <3>3
  <2> QED BY <2>1, <2>2
<1>8. NoCircle(Finished')
  BY <1>7 DEF NoCircle
<1>9. \A d \in Finished' : Deps(d) \subseteq Finished'
  BY <1>1, <1>2, <1>6 DEF Searching
<1>10. \A i \in 1 .. Len(path') - 1 : path'[i + 1] \in Deps(path'[i])
  BY <1>2, <1>3, <1>4 DEF Searching
<1>11. visited' \subseteq needed /\ Range(path') \subseteq visited'
  BY <1>1, <1>2, <1>5 DEF Searching
<1> QED BY <1>1, <1>4, <1>8, <1>9, <1>10, <1>11, SearchStepHolds

(* The search reports a cycle only where actions wait in a circle.         *)
LEMMA ClosesACircle ==
  ASSUME KernelInv, NEW id \in needed, CloseCycle(id)
  PROVE  ~NoCircle(needed)
<1>0. at = "search" /\ path # <<>> /\ id \in Deps(Top) /\ id \in Range(path)
  BY DEF CloseCycle, OnPath
<1>1. Searching
  BY <1>0, SearchingHolds
<1>2. PICK n \in Nat \ {0} : n = Len(path) /\ DOMAIN path = 1 .. n /\ Top = path[n]
  BY <1>0, <1>1 DEF Searching, Top, Range
<1> DEFINE C == Range(path)
<1>3. C \subseteq needed /\ id \in C /\ \A i \in 1 .. n : path[i] \in C
  BY <1>0, <1>1, <1>2 DEF Searching, Range
<1>4. ASSUME NEW c \in C PROVE Deps(c) \cap C # {}
  <2>1. PICK i \in 1 .. n : c = path[i]
    BY <1>2 DEF Range
  <2> HIDE DEF C
  <2>2. CASE i = n
    BY <1>0, <1>2, <1>3, <2>1, <2>2
  <2>3. CASE i \in 1 .. n - 1
    <3>1. i + 1 \in 1 .. n /\ path[i + 1] \in Deps(path[i])
      BY <1>1, <1>2, <2>3 DEF Searching
    <3> QED BY <1>3, <2>1, <3>1
  <2> QED BY <2>1, <2>2, <2>3
<1> HIDE DEF C
<1> QED BY <1>3, <1>4 DEF NoCircle

(* The reported cycle is one, and no demand that needs it can be met.      *)
LEMMA CloseCycleStep ==
  ASSUME KernelInv, NEW id \in needed, CloseCycle(id)
  PROVE  KernelInv'
<1>0. at = "search" /\ id \in Deps(Top) /\ id \in Range(path) /\ IndexInv /\ at \in Indexed
  BY DEF CloseCycle, OnPath, KernelInv, IInv, Indexed
<1>1. Searching
  BY <1>0, SearchingHolds
<1>2. PICK n \in Nat \ {0} : n = Len(path) /\ DOMAIN path = 1 .. n /\ Top = path[n]
  BY <1>0, <1>1 DEF Searching, Top, Range
<1>3. PICK first \in Least({i \in DOMAIN path : path[i] = id} \cup {Len(path)}) :
        Reject("cycle", Append(SubSeq(path, first, Len(path)), id))
  BY DEF CloseCycle
<1>4. first \in 1 .. n /\ path[first] = id
  <2>1. PICK i \in 1 .. n : path[i] = id
    BY <1>0, <1>2 DEF Range
  <2>2. first \in {j \in DOMAIN path : path[j] = id} \cup {n} /\ first <= i
    BY <1>2, <1>3, <2>1 DEF Least
  <2>3. CASE first = n
    BY <1>2, <2>1, <2>2, <2>3
  <2> QED BY <1>2, <2>2, <2>3
<1> DEFINE part  == SubSeq(path, first, n)
           cycle == Append(part, id)
           m     == n - first + 1
<1>5. /\ m \in Nat \ {0} /\ part \in Seq(needed) /\ Len(part) = m /\ DOMAIN part = 1 .. m
      /\ \A i \in 1 .. m : part[i] = path[first + i - 1]
  BY <1>1, <1>2, <1>4 DEF Searching
<1> HIDE DEF part
<1>6. /\ Len(cycle) = m + 1 /\ cycle[m + 1] = id /\ \A i \in 1 .. m : cycle[i] = part[i]
  <2> HIDE DEF m
  <2> QED BY <1>5
<1>7. Circle(cycle)
  <2>1. cycle[1] = id
    BY <1>2, <1>4, <1>5, <1>6
  <2>2. ASSUME NEW i \in 1 .. m PROVE cycle[i + 1] \in Deps(cycle[i])
    <3>1. CASE i = m
      <4>1. cycle[i] = path[n] /\ cycle[i + 1] = id
        BY <1>2, <1>4, <1>5, <1>6, <3>1
      <4> QED BY <1>0, <1>2, <4>1
    <3>2. CASE i \in 1 .. m - 1
      <4>1. i + 1 \in 1 .. m /\ first + i - 1 \in 1 .. n - 1 /\ first + (i + 1) - 1 = (first + i - 1) + 1
        BY <1>2, <1>4, <3>2
      <4>2. cycle[i] = path[first + i - 1] /\ cycle[i + 1] = path[(first + i - 1) + 1]
        BY <1>5, <1>6, <4>1, <3>2
      <4> QED BY <1>1, <1>2, <4>1, <4>2 DEF Searching
    <3> QED BY <1>5, <3>1, <3>2
  <2> HIDE DEF cycle, m
  <2>3. Len(cycle) > 1 /\ Len(cycle) - 1 = m
    BY <1>5, <1>6
  <2> QED BY <1>6, <2>1, <2>2, <2>3 DEF Circle
<1>8. ~Meetable
  <2>1. PICK C \in SUBSET needed : C # {} /\ \A c \in C : Deps(c) \cap C # {}
    BY ClosesACircle DEF NoCircle
  <2>2. ASSUME NEW c \in C PROVE \E x \in Needs(c) : producerOf[x] \in C
    BY <2>1 DEF Deps, Needs
  <2>3. C \in SUBSET ListedIds
    BY <1>0 DEF KernelInv, IInv, IndexInv
  <2>4. \E c \in C : ~(Needs(c) \subseteq Obtainable)
    BY <1>0, <2>1, <2>2, <2>3, NoneOfACircle
  <2>5. Meetable => \A c \in needed : Needs(c) \subseteq Obtainable
    BY <1>0 DEF KernelInv, WalkInv, PastDemand, PastWalk
  <2> QED BY <2>4, <2>5
<1>9. Reject("cycle", cycle)
  BY <1>2, <1>3 DEF part
<1> HIDE DEF cycle
<1> QED BY <1>7, <1>8, <1>9, RefusalKeeps

-----------------------------------------------------------------------------
(* The sort and the answer *)

(* What is left of the invariant once the search is over.                  *)
LEMMA LateFrame ==
  ASSUME KernelInv, Next, at \in PastWalk, at' \in Sorting,
         UNCHANGED <<input, producerOf, needed, queue>>
  PROVE  IInv' /\ WalkInv' /\ (NoCircle(needed)' <=> NoCircle(needed))
<1>1. IInv'
  BY StepKeeps DEF KernelInv
<1>2. WalkInv'
  BY WalkFrame DEF KernelInv, PastDemand, WalkInv
<1>3. \A id : Deps(id)' = Deps(id)
  BY SameMeaning
<1> QED BY <1>1, <1>2, <1>3 DEF NoCircle

LEMMA SearchedStep ==
  ASSUME KernelInv, Searched
  PROVE  KernelInv'
<1>1. /\ at = "search" /\ at' = "sort" /\ path = <<>> /\ needed \subseteq visited /\ Next
      /\ UNCHANGED <<input, producerOf, needed, queue, reason>>
  BY DEF Searched, Goto, walk, Next
<1>2. IInv' /\ WalkInv' /\ (NoCircle(needed)' <=> NoCircle(needed))
  BY <1>1, LateFrame DEF PastWalk, Sorting
<1>3. Finished = needed
  <2>1. Range(path) = {}
    BY <1>1 DEF Range
  <2> QED BY <1>1, <2>1, SearchingHolds DEF Searching, Finished
<1>4. NoCircle(needed)
  BY <1>1, <1>3, SearchingHolds DEF Searching
<1>5. SearchInv'
  BY <1>1, <1>2, <1>4 DEF SearchInv, Sorting
<1>6. AnswerInv'
  BY <1>1, AnswerFrame DEF KernelInv
<1> QED BY <1>2, <1>5, <1>6 DEF KernelInv

LEMMA EmitStep ==
  ASSUME KernelInv, NEW id \in needed, Emit(id)
  PROVE  KernelInv'
<1>1. /\ at = "sort" /\ at' = "sort" /\ Next
      /\ UNCHANGED <<input, producerOf, needed, queue, reason>>
  BY DEF Emit, Goto, walk, Next
<1>2. IInv' /\ WalkInv' /\ (NoCircle(needed)' <=> NoCircle(needed))
  BY <1>1, LateFrame DEF PastWalk, Sorting
<1>3. SearchInv'
  BY <1>1, <1>2 DEF KernelInv, SearchInv, Sorting
<1>4. AnswerInv'
  BY <1>1, AnswerFrame DEF KernelInv
<1> QED BY <1>2, <1>3, <1>4 DEF KernelInv

(* When nothing is ready everything was emitted, as nothing waits in a     *)
(* circle.                                                                 *)
LEMMA SortedStep ==
  ASSUME KernelInv, Sorted
  PROVE  KernelInv'
<1>1. /\ at = "sort" /\ at' = "physical" /\ ready = {} /\ Next
      /\ UNCHANGED <<input, producerOf, needed, queue, ordered, reason>>
  BY DEF Sorted, Goto, walk, sort, Next
<1>2. IInv' /\ WalkInv' /\ (NoCircle(needed)' <=> NoCircle(needed))
  BY <1>1, LateFrame DEF PastWalk, Sorting
<1>3. NoCircle(needed)
  BY <1>1 DEF KernelInv, SearchInv, Sorting
<1>4. Emitted = needed
  <2>1. ordered \in Seq(needed) /\ {d \in needed \ Emitted : Deps(d) \subseteq Emitted} = {}
    BY <1>1 DEF KernelInv, IInv, SortInv, Sorting
  <2>2. Emitted \subseteq needed
    BY <2>1 DEF Emitted, Range
  <2>3. \A d \in needed : Deps(d) \subseteq needed
    BY <1>1 DEF KernelInv, WalkInv, PastDemand, PastWalk
  <2>4. SUFFICES ASSUME needed \ Emitted # {} PROVE FALSE
    BY <2>2
  <2>5. PICK d \in needed \ Emitted : Deps(d) \cap (needed \ Emitted) = {}
    BY <1>3, <2>4 DEF NoCircle
  <2> QED BY <2>1, <2>3, <2>5
<1>5. Emitted' = Emitted
  BY <1>1 DEF Emitted
<1>6. SearchInv'
  BY <1>1, <1>2, <1>3, <1>4, <1>5 DEF SearchInv, Sorting
<1>7. AnswerInv'
  BY <1>1, AnswerFrame DEF KernelInv
<1> QED BY <1>2, <1>6, <1>7 DEF KernelInv

LEMMA AnswerStep ==
  ASSUME KernelInv, Answer
  PROVE  KernelInv'
<1>1. CASE Reject("unsupported_input", <<>>)
  BY <1>1, RefusalKeeps
<1>2. CASE /\ at = "physical" /\ at' = "planned"
           /\ received' \in Decodable({Plan} \cup Damaged(Plan))
           /\ UNCHANGED <<input, producerOf, needed, queue, ordered, reason>>
  <2>1. IInv' /\ WalkInv' /\ (NoCircle(needed)' <=> NoCircle(needed))
    BY <1>2, LateFrame DEF PastWalk, Sorting, Next
  <2>2. Emitted' = Emitted
    BY <1>2 DEF Emitted
  <2>3. SearchInv'
    BY <1>2, <2>1, <2>2 DEF KernelInv, SearchInv, Sorting
  <2>4. AnswerInv'
    BY <1>2, NoReason DEF KernelInv, AnswerInv, Decodable, ReasonKinds
  <2> QED BY <2>1, <2>3, <2>4 DEF KernelInv
<1> QED BY <1>1, <1>2 DEF Answer, walk, sort

LEMMA ImpostorStep ==
  ASSUME KernelInv, Impostor
  PROVE  KernelInv'
<1>1. /\ at = "index" /\ at' = "fabricated" /\ UNCHANGED reason /\ Next
      /\ received' \in Decodable(Fabricated(input))
  BY DEF Impostor, Next
<1>2. IInv'
  BY <1>1, StepKeeps DEF KernelInv
<1>3. WalkInv' /\ SearchInv'
  BY <1>1 DEF WalkInv, SearchInv, PastDemand, PastWalk, Sorting
<1>4. AnswerInv'
  BY <1>1, NoReason DEF KernelInv, AnswerInv, Decodable, ReasonKinds
<1> QED BY <1>2, <1>3, <1>4 DEF KernelInv

LEMMA KernelStutters ==
  ASSUME KernelInv, UNCHANGED vars
  PROVE  KernelInv'
<1>1. UNCHANGED <<input, at, reason, cyclePath, producerOf, needed, queue, visited, path, ordered, received>>
  BY DEF vars, walk, search, sort, answer
<1>2. IInv'
  BY StepKeeps DEF KernelInv
<1>3. \A id : Needs(id)' = Needs(id) /\ Deps(id)' = Deps(id)
  BY <1>1, SameMeaning
<1>4. Meetable' = Meetable /\ Obtainable' = Obtainable /\ DemandClosure(input)' = DemandClosure(input)
  BY <1>1, SameMeaning
<1>5. Finished' = Finished /\ Emitted' = Emitted
  BY <1>1 DEF Finished, Emitted
<1>6. NoCircle(needed)' = NoCircle(needed) /\ NoCircle(Finished)' = NoCircle(Finished)
  BY <1>1, <1>3, <1>5 DEF NoCircle
<1>7. WalkInv'
  BY <1>1, <1>3, <1>4 DEF KernelInv, WalkInv
<1>8. SearchInv'
  BY <1>1, <1>3, <1>5, <1>6 DEF KernelInv, SearchInv
<1>9. Circle(cyclePath)' = Circle(cyclePath)
  BY <1>1, <1>3 DEF Circle
<1>10. AnswerInv'
  BY <1>1, <1>4, <1>9 DEF KernelInv, AnswerInv
<1> QED BY <1>2, <1>7, <1>8, <1>10 DEF KernelInv

LEMMA KernelSteps == KernelInv /\ [Next]_vars => KernelInv'
<1> SUFFICES ASSUME KernelInv, [Next]_vars PROVE KernelInv'
  OBVIOUS
<1>1. CASE Impostor \/ Index \/ Demand \/ Walked
  BY <1>1, ImpostorStep, IndexStep, DemandStep, WalkedStep
<1>2. CASE Root \/ Ascend \/ Searched \/ Sorted \/ Answer
  BY <1>2, RootStep, AscendStep, SearchedStep, SortedStep, AnswerStep
<1>3. ASSUME NEW id \in needed, Walk(id) \/ Descend(id) \/ CloseCycle(id) \/ Emit(id) PROVE KernelInv'
  BY <1>3, WalkStep, DescendStep, CloseCycleStep, EmitStep
<1>4. CASE UNCHANGED vars
  BY <1>4, KernelStutters
<1> QED BY <1>1, <1>2, <1>3, <1>4 DEF Next

-----------------------------------------------------------------------------
(* What the invariant means *)

(* In the order of the plan each stage of what can be obtained is reached  *)
(* in time.                                                                *)
LEMMA PlannedIsObtainable ==
  ASSUME KernelInv, at = "planned"
  PROVE  input.demanded \subseteq Obtainable
<1>0. /\ at \in Indexed /\ IndexInv /\ ordered \in Seq(needed) /\ IsInjective(ordered)
      /\ \A i \in DOMAIN ordered : Deps(ordered[i]) \subseteq Before(i)
      /\ needed \subseteq ListedIds
  BY DEF KernelInv, IInv, IndexInv, SortInv, Indexed, Sorting
<1>1. /\ input.demanded \subseteq DOMAIN producerOf
      /\ {producerOf[x] : x \in input.demanded} \subseteq needed
      /\ \A id \in needed : Needs(id) \subseteq DOMAIN producerOf
      /\ Emitted = needed
  BY DEF KernelInv, WalkInv, SearchInv, PastDemand, PastWalk
<1>2. PICK f : /\ Obtainable = f[Len(input.actions)]
              /\ f[0] = {}
              /\ \A n \in Nat : f[n + 1] = Supply(f[n])
              /\ \A i \in Nat : f[i] \subseteq f[i + 1]
              /\ \A j, l \in Nat : j <= l => f[j] \subseteq f[l]
  BY <1>0, Stages DEF IndexInv
<1> DEFINE n == Len(ordered)
           k == Len(input.actions)
           Made1(i) == UNION {Range(Act(ordered[j]).outputs) : j \in 1 .. i}
           T == {i \in Nat : i <= n => Made1(i) \subseteq f[i]}
<1>3. n \in Nat /\ DOMAIN ordered = 1 .. n
  BY <1>0
<1>4. n <= k /\ k \in Nat
  <2>1. IsFiniteSet(ListedIds) /\ Cardinality(ListedIds) <= k /\ k \in Nat
    BY <1>0, ListedFinite DEF IndexInv, ListedIds
  <2>2. ordered \in Injection(1 .. n, ListedIds)
    BY <1>0, <1>3 DEF Injection, IsInjective
  <2> HIDE DEF n, k
  <2>3. IsFiniteSet(1 .. n) /\ Cardinality(1 .. n) = n
    BY <1>3, UpTo
  <2>4. Cardinality(1 .. n) <= Cardinality(ListedIds)
    BY <2>1, <2>2, FS_Injection
  <2>5. Cardinality(ListedIds) \in Nat
    BY <2>1, FS_CardinalityType
  <2> QED BY <1>3, <2>1, <2>3, <2>4, <2>5
<1> HIDE DEF n, k
<1>5. 0 \in T
  OBVIOUS
<1>6. ASSUME NEW i \in Nat, i \in T PROVE i + 1 \in T
  <2> SUFFICES ASSUME i + 1 <= n PROVE Made1(i + 1) \subseteq f[i + 1]
    OBVIOUS
  <2>1. Made1(i) \subseteq f[i] /\ i + 1 \in 1 .. n
    BY <1>3, <1>6
  <2> DEFINE id == ordered[i + 1]
  <2>2. id \in needed /\ Deps(id) \subseteq {ordered[j] : j \in 1 .. i}
    <3>1. Before(i + 1) = {ordered[j] : j \in 1 .. i}
      BY DEF Before
    <3> QED BY <1>0, <1>3, <2>1, <3>1
  <2>3. ASSUME NEW x \in Needs(id) PROVE x \in f[i]
    <3>1. x \in DOMAIN producerOf /\ producerOf[x] \in Deps(id)
      BY <1>1, <2>2 DEF Deps, Needs
    <3>2. x \in Outputs(ActionsOf(input.actions))
      BY <1>0, <3>1 DEF IndexInv
    <3>3. x \in Range(Act(producerOf[x]).outputs)
      BY <1>0, <3>2, OneProducer
    <3>4. PICK j \in 1 .. i : producerOf[x] = ordered[j]
      BY <2>2, <3>1
    <3> QED BY <2>1, <3>3, <3>4
  <2>4. Range(Act(id).outputs) \subseteq Supply(f[i])
    <3>1. Act(id) \in ActionsOf(input.actions)
      BY <1>0, <2>2, ActionListed
    <3> HIDE DEF id
    <3> QED BY <2>3, <3>1 DEF Supply, Outputs, Needs
  <2>5. Made1(i + 1) \subseteq Made1(i) \cup Range(Act(id).outputs)
    <3>1. \A j \in 1 .. i + 1 : j \in 1 .. i \/ j = i + 1
      OBVIOUS
    <3> QED BY <3>1
  <2>6. f[i + 1] = Supply(f[i]) /\ f[i] \subseteq f[i + 1]
    BY <1>2
  <2> HIDE DEF Made1, id
  <2> QED BY <2>1, <2>4, <2>5, <2>6
<1> HIDE DEF T
<1>7. Nat \subseteq T
  BY <1>5, <1>6, Induction
<1>8. Made1(n) \subseteq f[n]
  BY <1>3, <1>7 DEF T
<1>9. ASSUME NEW x \in input.demanded PROVE x \in Made1(n)
  <2>1. x \in Range(Act(producerOf[x]).outputs)
    BY <1>0, <1>1, OneProducer DEF IndexInv
  <2>2. PICK j \in 1 .. n : producerOf[x] = ordered[j]
    BY <1>1, <1>3 DEF Emitted, Range
  <2> QED BY <2>1, <2>2
<1>10. f[n] \subseteq f[k]
  BY <1>2, <1>3, <1>4
<1> HIDE DEF Made1
<1> QED BY <1>2, <1>8, <1>9, <1>10 DEF k

LEMMA RefusesTheImpossible == KernelInv => RejectsTheImpossible
<1> SUFFICES ASSUME KernelInv PROVE RejectsTheImpossible
  OBVIOUS
<1>1. reason \in {"cycle", "missing_producer"} => ~(input.demanded \subseteq Obtainable)
  BY DEF KernelInv, AnswerInv, Meetable
<1>2. reason = "cycle" => Circle(cyclePath)
  BY DEF KernelInv, AnswerInv
<1> QED BY <1>1, <1>2, PlannedIsObtainable DEF RejectsTheImpossible, Circle

(* What the caller accepts can be run, whoever planned it.                 *)
LEMMA WhatIsAcceptedRuns == KernelInv => AcceptedRuns
<1> SUFFICES ASSUME KernelInv, at \in {"planned", "fabricated"}, Accepts(received, input)
             PROVE  Runs(received, input)
  BY DEF AcceptedRuns
<1>1. WellFormed(input)
  BY DEF KernelInv, IInv, IndexInv
<1>2. DOMAIN received.actions = DemandClosure(input) /\ Range(received.ordered) = DOMAIN received.actions
  BY DEF Accepts, Corresponds, Ordered
<1>3. IsFiniteSet(DOMAIN received.actions)
  BY <1>1, <1>2, ClosureIsLeast, ListedFinite, FS_Subset
<1>4. received.ordered \in Seq(DOMAIN received.actions)
  BY <1>2 DEF KernelInv, AnswerInv
<1> QED BY <1>3, <1>4, AcceptedPlansRun

(* What the walk has found needed is what demand_closure will.             *)
LEMMA NeededIsTheClosure ==
  ASSUME KernelInv, at = "planned"
  PROVE  needed = DemandClosure(input)
<1>0. /\ at \in Indexed /\ IndexInv /\ WellFormed(input)
      /\ input.demanded \subseteq DOMAIN producerOf
      /\ {producerOf[x] : x \in input.demanded} \subseteq needed
      /\ needed \subseteq DemandClosure(input)
      /\ \A id \in needed : Needs(id) \subseteq DOMAIN producerOf /\ Deps(id) \subseteq needed
  BY DEF KernelInv, IInv, IndexInv, WalkInv, Indexed, PastDemand, PastWalk
<1>1. /\ DOMAIN producerOf = Outputs(ActionsOf(input.actions))
      /\ \A x \in DOMAIN producerOf : producerOf[x] = Producer(ActionsOf(input.actions), x)
  BY <1>0 DEF IndexInv
<1>2. MakersOf(input, input.demanded) \subseteq needed
  BY <1>0, <1>1 DEF MakersOf
<1>3. WithMakers(input, needed) \subseteq needed
  <2> SUFFICES ASSUME NEW id \in needed, NEW x \in ById(input.actions, id).inputs \cap DOMAIN producerOf
               PROVE  producerOf[x] \in needed
    BY <1>1 DEF WithMakers, MakersOf
  <2> QED BY <1>0 DEF Deps, Act
<1> QED BY <1>0, <1>2, <1>3, ClosureIsLeast

(* The kernel's plan passes every check of the caller that is not about    *)
(* the descriptors the input carries.                                      *)
LEMMA AnswerIsAccepted == KernelInv => PlansAreAccepted
<1> SUFFICES ASSUME KernelInv, at = "planned", \A id \in needed : SoundWork(Act(id))
             PROVE  Accepts(Plan, input)
  BY DEF PlansAreAccepted
<1> DEFINE p == Plan
<1>0. /\ at \in Indexed /\ IndexInv /\ WellFormed(input) /\ needed \subseteq ListedIds
      /\ input.demanded \subseteq DOMAIN producerOf
      /\ {producerOf[x] : x \in input.demanded} \subseteq needed
      /\ \A id \in needed : Needs(id) \subseteq DOMAIN producerOf /\ Deps(id) \subseteq needed
      /\ DOMAIN producerOf = Outputs(ActionsOf(input.actions))
  BY DEF KernelInv, IInv, IndexInv, WalkInv, Indexed, PastDemand, PastWalk
<1>1. /\ ordered \in Seq(needed) /\ IsInjective(ordered) /\ Emitted = needed
      /\ \A i \in DOMAIN ordered : Deps(ordered[i]) \subseteq Before(i)
  BY DEF KernelInv, IInv, SortInv, SearchInv, Sorting
<1>2. /\ p.genuine = TRUE /\ p.ordered = ordered /\ DOMAIN p.actions = needed
      /\ p.physical = [id \in DOMAIN input.physical \cap needed |-> input.physical[id]]
      /\ \A id \in needed : p.actions[id] = Act(id)
  BY DEF Plan
<1> HIDE DEF p
<1>3. needed = DemandClosure(input)
  BY NeededIsTheClosure
<1>4. ASSUME NEW id \in needed
      PROVE  Act(id) \in ActionsOf(input.actions) /\ Act(id).id = id
  BY <1>0, ActionListed
<1>5. ASSUME NEW x \in DOMAIN producerOf, producerOf[x] \in needed
      PROVE  /\ x \in Outputs(Named(p)) /\ Producer(Named(p), x) = producerOf[x]
             /\ \A id \in needed : x \in Range(Act(id).outputs) => id = producerOf[x]
  <2>1. /\ x \in Range(Act(producerOf[x]).outputs)
        /\ \A a \in ActionsOf(input.actions) : x \in Range(a.outputs) => a = Act(producerOf[x])
    BY <1>0, OneProducer
  <2>2. \A id \in needed : x \in Range(Act(id).outputs) => id = producerOf[x]
    BY <1>4, <1>5, <2>1
  <2> DEFINE b == [id |-> producerOf[x], outputs |-> Act(producerOf[x]).outputs]
  <2>3. b \in Named(p) /\ x \in Range(b.outputs) /\ b.id = producerOf[x]
    BY <1>2, <1>5, <2>1 DEF Named
  <2>4. \A a \in Named(p) : x \in Range(a.outputs) => a.id = producerOf[x]
    BY <1>2, <2>2 DEF Named
  <2> HIDE DEF b
  <2>5. x \in Outputs(Named(p))
    BY <2>3 DEF Outputs
  <2>6. Producer(Named(p), x) = producerOf[x]
    BY <2>3, <2>4 DEF Producer
  <2> QED BY <2>2, <2>5, <2>6
<1>6. Answerable(input)
  <2>1. ~Clash(ActionsOf(input.actions))
    <3> SUFFICES ASSUME NEW a \in ActionsOf(input.actions), NEW b \in ActionsOf(input.actions), a.id # b.id,
                        NEW x, x \in Range(a.outputs), x \in Range(b.outputs)
                 PROVE  FALSE
      BY DEF Clash
    <3>1. x \in Outputs(ActionsOf(input.actions))
      BY DEF Outputs
    <3> QED BY <1>0, <3>1, OneProducer
  <2>2. \A id \in needed : ById(input.actions, id).inputs \subseteq Outputs(ActionsOf(input.actions))
    BY <1>0 DEF Needs, Act
  <2> QED BY <1>0, <1>3, <2>1, <2>2 DEF Answerable
<1>7. Corresponds(p, input)
  <2>1. \A id \in DOMAIN p.actions : p.actions[id] = ById(input.actions, id) /\ SoundWork(p.actions[id])
    BY <1>2 DEF Act
  <2> QED BY <1>2, <1>3, <1>6, <2>1 DEF Corresponds
<1>8. input.demanded \subseteq Outputs(Named(p))
  BY <1>0, <1>5
<1>9. Range(p.ordered) = DOMAIN p.actions /\ Len(p.ordered) = Cardinality(DOMAIN p.actions)
  <2> DEFINE n == Len(ordered)
  <2>1. n \in Nat /\ DOMAIN ordered = 1 .. n /\ Range(ordered) = needed
    BY <1>1 DEF Emitted
  <2>2. ordered \in Surjection(1 .. n, needed) /\ ordered \in Injection(1 .. n, needed)
    BY <1>1, <2>1 DEF Surjection, Injection, IsInjective, Range
  <2> HIDE DEF n
  <2>3. IsFiniteSet(1 .. n) /\ Cardinality(1 .. n) = n
    BY <2>1, UpTo
  <2>4. Cardinality(needed) = n
    BY <2>2, <2>3, FS_Surjection
  <2> QED BY <1>2, <2>1, <2>4 DEF n
<1>10. ~Clash(Named(p))
  <2> SUFFICES ASSUME NEW c \in needed, NEW d \in needed, c # d,
                      NEW x, x \in Range(Act(c).outputs), x \in Range(Act(d).outputs)
               PROVE  FALSE
    BY <1>2 DEF Clash, Named
  <2>1. x \in Outputs(ActionsOf(input.actions))
    BY <1>4 DEF Outputs
  <2>2. Act(c) = Act(d)
    BY <1>0, <1>4, <2>1, OneProducer
  <2> QED BY <1>4, <2>2
<1>11. \A id \in needed : Place(p, id) \in DOMAIN ordered /\ ordered[Place(p, id)] = id
  BY <1>1, <1>2 DEF Place, Emitted, Range
<1>12. ASSUME NEW id \in needed, NEW x \in Act(id).inputs
       PROVE  /\ x \in Outputs(Named(p)) /\ Producer(Named(p), x) # id
              /\ Place(p, Producer(Named(p), x)) < Place(p, id)
  <2>1. x \in DOMAIN producerOf /\ producerOf[x] \in Deps(id) /\ producerOf[x] \in needed
    BY <1>0 DEF Needs, Deps
  <2>2. x \in Outputs(Named(p)) /\ Producer(Named(p), x) = producerOf[x]
    BY <1>5, <2>1
  <2> DEFINE i == Place(p, id)
             j == Place(p, producerOf[x])
  <2>3. i \in DOMAIN ordered /\ ordered[i] = id /\ j \in DOMAIN ordered /\ ordered[j] = producerOf[x]
    BY <1>11, <2>1
  <2> HIDE DEF i, j
  <2>4. producerOf[x] \in Before(i)
    BY <1>1, <2>1, <2>3
  <2>5. PICK m \in 1 .. i - 1 : ordered[m] = ordered[j]
    BY <2>3, <2>4 DEF Before
  <2>6. DOMAIN ordered = 1 .. Len(ordered) /\ Len(ordered) \in Nat
    BY <1>1
  <2>7. m = j
    BY <1>1, <2>3, <2>5, <2>6 DEF IsInjective
  <2>8. j < i /\ j # i
    BY <2>3, <2>5, <2>6, <2>7
  <2>9. producerOf[x] # id
    BY <1>1, <2>3, <2>8 DEF IsInjective
  <2> QED BY <2>2, <2>8, <2>9 DEF i, j
<1>13. Ordered(p)
  BY <1>2, <1>9, <1>10, <1>12 DEF Ordered
<1>14. Accepts(p, input)
  BY <1>2, <1>7, <1>8, <1>13 DEF Accepts
<1> QED BY <1>14 DEF p

LEMMA KernelMeans == KernelInv => PlansRun /\ PlanIsCanonical
<1>1. KernelInv => IInv
  BY DEF KernelInv
<1> QED BY <1>1, RefusesTheImpossible, AnswerIsAccepted, WhatIsAcceptedRuns, LeastAtEachPlace DEF PlansRun

(* For every planning input: the kernel refuses a demand exactly when no   *)
(* order of the actions meets it, its plan passes the independent check of *)
(* the caller, and whatever passes that check, the kernel's plan, a        *)
(* damaged one or one made up, can be run in the order it states.          *)
THEOREM PlansRunHolds == Spec => []PlansRun
<1>1. Init => KernelInv
  BY KernelInit, InputsWellFormed DEF Init
<1>2. Spec => []KernelInv
  BY <1>1, KernelSteps, PTL DEF Spec
<1> QED BY <1>2, KernelMeans, PTL

-----------------------------------------------------------------------------
(* Contracts: instances wait in no circle where units do not               *)

LEMMA KnownUnit ==
  ASSUME NEW c, NEW id, Known(c, id)
  PROVE  UnitOf(c, id) \in UnitsOf(c) /\ UnitOf(c, id).id = id
BY DEF Known, UnitOf, UnitsOf, Range

(* Units are laid out in layers, each on top of its producers.             *)
LEMMA Layers ==
  ASSUME NEW c, Acyclic(c)
  PROVE  \E f : /\ f[0] = {}
                /\ \A n \in Nat : f[n + 1] = {u \in UnitsOf(c) : Producers(c, u) \subseteq f[n]}
                /\ f[Len(c.units)] = UnitsOf(c)
<1> DEFINE U == UnitsOf(c)
           Above(S) == {u \in U : Producers(c, u) \subseteq S}
           G == [S \in SUBSET U |-> Above(S)]
           Body(f) == [n \in Nat |-> IF n = 0 THEN {} ELSE Above(f[n - 1])]
           laid == CHOOSE f : f = Body(f)
<1>1. G \in [SUBSET U -> SUBSET U] /\ {} \in SUBSET U
  OBVIOUS
<1>2. \E f : f = Body(f)
  <2>1. PICK f : Recurs(f, {}, G)
    <3> HIDE DEF G, U
    <3> QED BY <1>1, IterationExists
  <2>2. \A n \in Nat : f[n] \in SUBSET U
    <3> HIDE DEF G, U
    <3> QED BY <1>1, <2>1, RecursValues
  <2>3. ASSUME NEW n \in Nat PROVE f[n] = IF n = 0 THEN {} ELSE Above(f[n - 1])
    <3>1. f[n] = IF n = 0 THEN {} ELSE G[f[n - 1]]
      <4> HIDE DEF G
      <4> QED BY <2>1 DEF Recurs
    <3>2. n # 0 => n - 1 \in Nat
      OBVIOUS
    <3> HIDE DEF U, Above
    <3> QED BY <2>2, <3>1, <3>2
  <2>4. \E g : f = [n \in Nat |-> g[n]]
    <3> DEFINE g == [n \in Nat |-> IF n = 0 THEN {} ELSE G[f[n - 1]]]
    <3>1. f = [n \in Nat |-> g[n]]
      <4> HIDE DEF G
      <4> QED BY <2>1 DEF Recurs
    <3> QED BY <3>1
  <2>5. f = Body(f)
    <3> HIDE DEF G, U, Above
    <3> QED BY <2>3, <2>4
  <2> QED BY <2>5
<1>3. laid = Body(laid)
  <2> HIDE DEF Body
  <2> QED BY <1>2
<1>4. laid[Len(c.units)] = UnitsOf(c)
  BY DEF Acyclic
<1> HIDE DEF laid
<1>5. laid[0] = {} /\ \A n \in Nat : laid[n + 1] = Above(laid[n])
  <2>1. \A n \in Nat : laid[n] = IF n = 0 THEN {} ELSE Above(laid[n - 1])
    <3> HIDE DEF Above
    <3> QED BY <1>3
  <2>2. \A n \in Nat : n + 1 \in Nat /\ n + 1 # 0 /\ (n + 1) - 1 = n
    OBVIOUS
  <2> HIDE DEF Above
  <2> QED BY ONLY <2>1, <2>2
<1> QED BY <1>4, <1>5

(* An instance waits for instances of producers of its unit.               *)
LEMMA BoundToProducer ==
  ASSUME NEW c, NEW w, NEW d, Known(c, w.unit), BoundKinds(c, w, d) # {}
  PROVE  Known(c, d.unit) /\ UnitOf(c, d.unit) \in Producers(c, UnitOf(c, w.unit))
BY DEF BoundKinds, Makes, Producers

AllBound(c, byId, ids) == \A id \in ids :
  /\ Known(c, byId[id].unit)
  /\ \A d \in byId[id].deps : BoundKinds(c, byId[id], byId[d]) # {}

LEMMA NoCircleOfInstances ==
  ASSUME NEW c, c.units \in Seq(UnitsOf(c)), Acyclic(c), NEW byId, NEW S, S # {},
         AllBound(c, byId, S)
  PROVE  \E id \in S : byId[id].deps \cap S = {}
<1> USE DEF AllBound
<1> SUFFICES ASSUME \A id \in S : byId[id].deps \cap S # {} PROVE FALSE
  OBVIOUS
<1>1. PICK f : /\ f[0] = {}
              /\ \A n \in Nat : f[n + 1] = {u \in UnitsOf(c) : Producers(c, u) \subseteq f[n]}
              /\ f[Len(c.units)] = UnitsOf(c)
  BY Layers
<1> DEFINE T == {n \in Nat : \A id \in S : UnitOf(c, byId[id].unit) \notin f[n]}
<1>2. 0 \in T
  BY <1>1
<1>3. ASSUME NEW n \in Nat, n \in T PROVE n + 1 \in T
  <2> SUFFICES ASSUME NEW id \in S, UnitOf(c, byId[id].unit) \in f[n + 1] PROVE FALSE
    OBVIOUS
  <2>1. PICK d \in S : d \in byId[id].deps
    OBVIOUS
  <2>2. UnitOf(c, byId[d].unit) \in Producers(c, UnitOf(c, byId[id].unit))
    BY <2>1, BoundToProducer
  <2>3. Producers(c, UnitOf(c, byId[id].unit)) \subseteq f[n]
    BY <1>1
  <2> QED BY <1>3, <2>2, <2>3
<1> HIDE DEF T
<1>4. Nat \subseteq T
  BY <1>2, <1>3, Induction
<1>5. Len(c.units) \in T
  <2>1. Len(c.units) \in Nat
    OBVIOUS
  <2> QED BY <1>4, <2>1
<1>6. PICK id \in S : TRUE
  OBVIOUS
<1>7. UnitOf(c, byId[id].unit) \in UnitsOf(c)
  BY <1>6, KnownUnit
<1> QED BY <1>1, <1>5, <1>6, <1>7 DEF T

(* Whatever plan work is recovered from, it can be executed.               *)
LEMMA RecoveredIsExecutable ==
  ASSUME NEW c, c.units \in Seq(UnitsOf(c)), NEW p, Recovers(c, p)
  PROVE  Executable(c, Recovered(p))
<1> DEFINE ids == DOMAIN p.physical
           instances == Range(p.physical)
           byId == [id \in {w.instance_id : w \in instances} |->
                      CHOOSE w \in instances : w.instance_id = id]
<1>1. \A id \in ids : p.physical[id].instance_id = id
  BY DEF Recovers, ActionsMatch
<1>2. \A id \in ids : /\ SoundInstance(c, p.physical[id]) /\ p.physical[id].deps \subseteq ids
                      /\ DependenciesBound(c, p.physical[id], p.physical)
  BY DEF Recovers, InstancesSound
<1>3. {w.instance_id : w \in instances} = ids
  BY <1>1 DEF Range
<1>4. ASSUME NEW id \in ids PROVE byId[id] = p.physical[id]
  <2>1. p.physical[id] \in instances
    BY DEF Range
  <2>2. \A w \in instances : w.instance_id = id => w = p.physical[id]
    BY <1>1 DEF Range
  <2> HIDE DEF instances
  <2> QED BY <1>1, <1>3, <2>1, <2>2
<1>5. DOMAIN byId = ids
  BY <1>3
<1> HIDE DEF byId
<1>6. ASSUME NEW id \in ids
      PROVE  DependenciesBound(c, byId[id], byId)
  <2>1. \A d \in byId[id].deps : byId[d] = p.physical[d]
    BY <1>2, <1>4
  <2> QED BY <1>2, <1>4, <2>1 DEF DependenciesBound
<1>7. ASSUME NEW w \in instances
      PROVE  w.deps \subseteq ids /\ SoundInstance(c, w) /\ DependenciesBound(c, w, byId)
  <2>1. PICK id \in ids : w = byId[id]
    BY <1>4 DEF Range
  <2> QED BY <1>2, <1>4, <1>6, <2>1
<1>8. ASSUME NEW S \in SUBSET ids, S # {} PROVE \E id \in S : byId[id].deps \cap S = {}
  <2>1. AllBound(c, byId, S)
    BY <1>2, <1>4, <1>6 DEF SoundInstance, DependenciesBound, AllBound
  <2>2. Acyclic(c)
    BY DEF Recovers, ContractHolds
  <2> HIDE DEF ids, instances
  <2> QED BY <1>8, <2>1, <2>2, NoCircleOfInstances
<1>9. Executable(c, instances)
  BY <1>5, <1>7, <1>8 DEF Executable, byId
<1> QED BY <1>9 DEF Recovered

-----------------------------------------------------------------------------
(* The bridge into the planner *)

Bridging(c, r, B, in) ==
  /\ IsContract(c) /\ IsRequest(r) /\ ContractHolds(c) /\ BridgeAccepts(c, r)
  /\ B = InstancesById(r.instances) /\ in = Bridged(c, r)

Work(c, B, w) ==
  [id |-> w.instance_id, kind |-> "physical_work", work |-> None,
   inputs |-> Reads(c, w, B), outputs |-> MadeBy(c, w)]

LEMMA BridgedInstances ==
  ASSUME NEW c, NEW r, NEW B, NEW in, Bridging(c, r, B, in)
  PROVE  /\ \A n \in DOMAIN r.instances : /\ r.instances[n].instance_id \in DOMAIN B
                                          /\ B[r.instances[n].instance_id] = r.instances[n]
         /\ \A id \in DOMAIN B : /\ B[id] \in Range(r.instances) /\ B[id].instance_id = id
                                 /\ SoundInstance(c, B[id]) /\ B[id].deps \subseteq DOMAIN B
                                 /\ DependenciesBound(c, B[id], B)
                                 /\ IsFiniteSet(B[id].deps) /\ id \in Nat
         /\ r.demanded \subseteq DOMAIN B
<1> DEFINE list == r.instances
<1>1. /\ DOMAIN B = {list[n].instance_id : n \in DOMAIN list}
      /\ \A id \in DOMAIN B : B[id] = CHOOSE w \in Range(list) : w.instance_id = id
  BY DEF Bridging, InstancesById
<1>2. \A m, n \in DOMAIN list : list[m].instance_id = list[n].instance_id => m = n
  BY DEF Bridging, BridgeAccepts, IsInjective
<1>3. ASSUME NEW n \in DOMAIN list
      PROVE  list[n].instance_id \in DOMAIN B /\ B[list[n].instance_id] = list[n]
  <2>1. list[n].instance_id \in DOMAIN B
    BY <1>1
  <2>2. list[n] \in Range(list)
    BY DEF Range
  <2>3. \A w \in Range(list) : w.instance_id = list[n].instance_id => w = list[n]
    BY <1>2 DEF Range
  <2> HIDE DEF list
  <2> QED BY <1>1, <2>1, <2>2, <2>3
<1>4. ASSUME NEW id \in DOMAIN B
      PROVE  B[id] \in Range(list) /\ B[id].instance_id = id
  <2>1. PICK n \in DOMAIN list : id = list[n].instance_id
    BY <1>1
  <2> QED BY <1>3, <2>1 DEF Range
<1>5. \A w \in Range(list) : /\ SoundInstance(c, w) /\ w.deps \subseteq DOMAIN B
                             /\ DependenciesBound(c, w, B)
                             /\ IsFiniteSet(w.deps) /\ w.instance_id \in Nat
  BY DEF Bridging, BridgeAccepts, IsRequest
<1>6. r.demanded \subseteq DOMAIN B
  BY DEF Bridging, BridgeAccepts
<1> QED BY <1>3, <1>4, <1>5, <1>6

(* The input is one action for each instance, under its id.                *)
OneActionEach(c, r, B, in) ==
  /\ in.versionIsOurs = TRUE /\ in.physical = B
  /\ DOMAIN in.actions = DOMAIN r.instances /\ Len(in.actions) = Len(r.instances)
  /\ in.actions \in Seq(Range(in.actions))
  /\ \A n \in DOMAIN r.instances : in.actions[n] = Work(c, B, r.instances[n])
  /\ IsInjective([n \in DOMAIN in.actions |-> in.actions[n].id])
  /\ Listed(in) = DOMAIN B
  /\ ActionsOf(in.actions) = {Work(c, B, B[id]) : id \in DOMAIN B}
  /\ \A id \in DOMAIN B : ById(in.actions, id) = Work(c, B, B[id])

LEMMA BridgedActions ==
  ASSUME NEW c, NEW r, NEW B, NEW in, Bridging(c, r, B, in)
  PROVE  OneActionEach(c, r, B, in)
<1> DEFINE list == r.instances
           N == Len(list)
<1>1. /\ in.versionIsOurs = TRUE /\ in.physical = B
      /\ in.actions = [n \in DOMAIN list |-> Work(c, B, list[n])]
  BY DEF Bridging, Bridged, Work
<1>2. N \in Nat /\ DOMAIN list = 1 .. N
  BY DEF Bridging, IsRequest
<1> HIDE DEF N
<1>3. /\ DOMAIN in.actions = 1 .. N
      /\ \A n \in 1 .. N : in.actions[n] = Work(c, B, list[n]) /\ in.actions[n].id = list[n].instance_id
  BY <1>1, <1>2 DEF Work
<1>4. in.actions \in Seq(Range(in.actions)) /\ Len(in.actions) = N
  <2>1. in.actions = [n \in 1 .. N |-> in.actions[n]]
    BY <1>1, <1>2
  <2>2. \A n \in 1 .. N : in.actions[n] \in Range(in.actions)
    BY <1>3 DEF Range
  <2> QED BY <1>2, <2>1, <2>2
<1>5. ASSUME NEW n \in 1 .. N
      PROVE  list[n].instance_id \in DOMAIN B /\ B[list[n].instance_id] = list[n]
  BY <1>2, BridgedInstances
<1>6. \A m, n \in 1 .. N : list[m].instance_id = list[n].instance_id => m = n
  BY <1>2 DEF Bridging, BridgeAccepts, IsInjective
<1>7. \A id \in DOMAIN B : \E n \in 1 .. N : list[n].instance_id = id /\ list[n] = B[id]
  BY <1>2, BridgedInstances DEF Range
<1>8. IsInjective([n \in DOMAIN in.actions |-> in.actions[n].id])
  BY <1>3, <1>6 DEF IsInjective
<1>9. Listed(in) = DOMAIN B /\ ActionsOf(in.actions) = {Work(c, B, B[id]) : id \in DOMAIN B}
  <2>1. ActionsOf(in.actions) = {in.actions[n] : n \in 1 .. N}
    BY <1>3 DEF ActionsOf, Range
  <2>2. ActionsOf(in.actions) = {Work(c, B, B[id]) : id \in DOMAIN B}
    BY <1>3, <1>5, <1>7, <2>1
  <2>3. Listed(in) = DOMAIN B
    <3>1. \A id \in DOMAIN B : Work(c, B, B[id]).id = id
      BY BridgedInstances DEF Work
    <3> QED BY <2>2, <3>1 DEF Listed
  <2> QED BY <2>2, <2>3
<1>10. ASSUME NEW id \in DOMAIN B PROVE ById(in.actions, id) = Work(c, B, B[id])
  <2>1. PICK n \in 1 .. N : list[n].instance_id = id /\ list[n] = B[id]
    BY <1>7
  <2>2. \A m \in 1 .. N : in.actions[m].id = id => m = n
    BY <1>3, <1>6, <2>1
  <2>3. \A m \in 1 .. N :
          (in.actions[m].id = id /\ \A j \in 1 .. N : in.actions[j].id = id => j <= m) => m = n
    BY <2>2
  <2>4. in.actions[n].id = id /\ \A j \in 1 .. N : in.actions[j].id = id => j <= n
    BY <1>3, <2>1, <2>2
  <2>5. (CHOOSE i \in DOMAIN in.actions :
           in.actions[i].id = id /\ \A j \in DOMAIN in.actions : in.actions[j].id = id => j <= i) = n
    BY <1>3, <2>3, <2>4
  <2> QED BY <1>3, <2>1, <2>5 DEF ById
<1> HIDE DEF list
<1>11. Len(in.actions) = Len(r.instances)
  BY <1>4 DEF N, list
<1> QED BY <1>1, <1>2, <1>3, <1>4, <1>8, <1>9, <1>10, <1>11 DEF list, OneActionEach

LEMMA MadeKinds ==
  ASSUME NEW c, NEW w
  PROVE  Range(MadeBy(c, w)) = {<<w.instance_id, k>> : k \in Range(UnitOf(c, w.unit).outputs)}
BY DEF MadeBy, Range

LEMMA BridgedArtifacts ==
  ASSUME NEW c, NEW r, NEW B, NEW in, Bridging(c, r, B, in)
  PROVE  LET as == ActionsOf(in.actions)
         IN  /\ Outputs(as) = UNION {Range(MadeBy(c, B[id])) : id \in DOMAIN B}
             /\ \A x \in Outputs(as) : Producer(as, x) = x[1] /\ x[1] \in DOMAIN B
<1> DEFINE as == ActionsOf(in.actions)
<1>0. OneActionEach(c, r, B, in)
  BY BridgedActions
<1>1. as = {Work(c, B, B[id]) : id \in DOMAIN B}
  BY <1>0 DEF OneActionEach
<1>2. Outputs(as) = UNION {Range(MadeBy(c, B[id])) : id \in DOMAIN B}
  <2>1. \A id \in DOMAIN B : Work(c, B, B[id]).outputs = MadeBy(c, B[id])
    BY DEF Work
  <2> HIDE DEF as
  <2> QED BY <1>1, <2>1 DEF Outputs
<1>3. \A id \in DOMAIN B : B[id].instance_id = id
  BY BridgedInstances
<1>4. ASSUME NEW a \in as, NEW x \in Range(a.outputs) PROVE a.id = x[1] /\ x[1] \in DOMAIN B
  <2>1. PICK id \in DOMAIN B : a = Work(c, B, B[id])
    BY <1>1
  <2>2. a.id = id /\ a.outputs = MadeBy(c, B[id])
    BY <1>3, <2>1 DEF Work
  <2>3. PICK k : x = <<id, k>>
    BY <1>3, <2>2, MadeKinds
  <2> QED BY <2>2, <2>3
<1>5. ASSUME NEW x \in Outputs(as) PROVE Producer(as, x) = x[1] /\ x[1] \in DOMAIN B
  <2>1. \E a \in as : x \in Range(a.outputs)
    BY DEF Outputs
  <2> HIDE DEF as
  <2>2. PICK a \in as : x \in Range(a.outputs) /\ Producer(as, x) = a.id
    BY <2>1 DEF Producer
  <2> QED BY <1>4, <2>2
<1> QED BY <1>2, <1>5

LEMMA BridgedReads ==
  ASSUME NEW c, NEW r, NEW B, NEW in, Bridging(c, r, B, in), NEW id \in DOMAIN B
  PROVE  /\ Reads(c, B[id], B) \subseteq Outputs(ActionsOf(in.actions))
         /\ {x[1] : x \in Reads(c, B[id], B)} = B[id].deps
<1>1. /\ B[id].deps \subseteq DOMAIN B
      /\ \A d \in B[id].deps : BoundKinds(c, B[id], B[d]) # {} /\ B[d].instance_id = d
  BY BridgedInstances DEF DependenciesBound
<1>2. ASSUME NEW d \in B[id].deps, NEW k \in BoundKinds(c, B[id], B[d])
      PROVE  <<d, k>> \in Outputs(ActionsOf(in.actions))
  <2>1. k \in Range(UnitOf(c, B[d].unit).outputs)
    BY DEF BoundKinds, Makes
  <2>2. <<d, k>> \in Range(MadeBy(c, B[d]))
    BY <1>1, <2>1, MadeKinds
  <2> QED BY <1>1, <2>2, BridgedArtifacts
<1>3. \A x : x \in Reads(c, B[id], B) <=>
               \E d \in B[id].deps : \E k \in BoundKinds(c, B[id], B[d]) : x = <<d, k>>
  BY DEF Reads
<1>4. Reads(c, B[id], B) \subseteq Outputs(ActionsOf(in.actions))
  BY <1>2, <1>3
<1>5. ASSUME NEW d \in B[id].deps PROVE \E x \in Reads(c, B[id], B) : x[1] = d
  <2>1. PICK k : k \in BoundKinds(c, B[id], B[d])
    BY <1>1
  <2>2. <<d, k>> \in Reads(c, B[id], B) /\ <<d, k>>[1] = d
    BY <1>3, <2>1
  <2> QED BY <2>2
<1>6. \A x \in Reads(c, B[id], B) : x[1] \in B[id].deps
  BY <1>3
<1> QED BY <1>4, <1>5, <1>6

LEMMA BridgedWellFormed ==
  ASSUME NEW c, NEW r, NEW B, NEW in, Bridging(c, r, B, in)
  PROVE  WellFormed(in) /\ (in = input => ~DeclaredTwice)
<1>0. OneActionEach(c, r, B, in)
  BY BridgedActions
<1>1. ASSUME NEW id \in DOMAIN B PROVE IsFiniteSet(Reads(c, B[id], B))
  <2>1. IsFiniteSet(B[id].deps) /\ Known(c, B[id].unit)
    BY BridgedInstances DEF SoundInstance
  <2>2. IsFiniteSet(UnitOf(c, B[id].unit).inputs)
    BY <2>1, KnownUnit DEF Bridging, IsContract
  <2>3. ASSUME NEW d \in B[id].deps PROVE IsFiniteSet({d} \X BoundKinds(c, B[id], B[d]))
    <3> DEFINE I == {j \in UnitOf(c, B[id].unit).inputs : B[d].unit \in j.from /\ Makes(c, B[d].unit, j.kind)}
               f == [i \in I |-> i.kind]
    <3>1. IsFiniteSet(I)
      BY <2>2, FS_Subset
    <3>2. f \in Surjection(I, BoundKinds(c, B[id], B[d]))
      BY DEF Surjection, BoundKinds
    <3> HIDE DEF I, f
    <3>3. IsFiniteSet(BoundKinds(c, B[id], B[d])) /\ IsFiniteSet({d})
      BY <3>1, <3>2, FS_Surjection, FS_Singleton
    <3> QED BY <3>3, FS_Product
  <2> DEFINE F == {{d} \X BoundKinds(c, B[id], B[d]) : d \in B[id].deps}
             g == [d \in B[id].deps |-> {d} \X BoundKinds(c, B[id], B[d])]
  <2>4. g \in Surjection(B[id].deps, F)
    BY DEF Surjection
  <2>5. \A S \in F : IsFiniteSet(S)
    BY <2>3
  <2>6. Reads(c, B[id], B) = UNION F
    BY DEF Reads
  <2> HIDE DEF F, g
  <2>7. IsFiniteSet(F)
    BY <2>1, <2>4, FS_Surjection
  <2> QED BY <2>5, <2>6, <2>7, FS_UNION
<1>2. \A a \in Range(in.actions) : a.id \in Nat /\ IsFiniteSet(a.inputs)
  <2>1. \A id \in DOMAIN B : Work(c, B, B[id]).id \in Nat /\ IsFiniteSet(Work(c, B, B[id]).inputs)
    BY <1>1, BridgedInstances DEF Work
  <2>2. Range(in.actions) = {Work(c, B, B[id]) : id \in DOMAIN B}
    <3>1. ActionsOf(in.actions) = {Work(c, B, B[id]) : id \in DOMAIN B}
      BY <1>0 DEF OneActionEach
    <3> QED BY <3>1 DEF ActionsOf
  <2> QED BY <2>1, <2>2
<1>3. WellFormed(in)
  <2>1. in.actions \in Seq(Range(in.actions))
    BY <1>0 DEF OneActionEach
  <2> QED BY <1>2, <2>1 DEF WellFormed
<1>4. ASSUME in = input PROVE ~DeclaredTwice
  <2> SUFFICES ASSUME NEW i \in DOMAIN in.actions, NEW j \in DOMAIN in.actions,
                      NEW m \in DOMAIN in.actions[i].outputs, NEW n \in DOMAIN in.actions[j].outputs,
                      in.actions[i].outputs[m] = in.actions[j].outputs[n]
               PROVE  i = j /\ m = n
    BY <1>4 DEF DeclaredTwice
  <2> DEFINE v == r.instances[i]
             w == r.instances[j]
  <2>1. /\ in.actions[i].outputs = MadeBy(c, v) /\ in.actions[j].outputs = MadeBy(c, w)
        /\ i \in DOMAIN r.instances /\ j \in DOMAIN r.instances
    <3>1. i \in DOMAIN r.instances /\ j \in DOMAIN r.instances
      BY <1>0 DEF OneActionEach
    <3>2. in.actions[i] = Work(c, B, v) /\ in.actions[j] = Work(c, B, w)
      BY <1>0, <3>1 DEF OneActionEach
    <3> QED BY <3>1, <3>2 DEF Work
  <2>2. /\ m \in DOMAIN UnitOf(c, v.unit).outputs /\ n \in DOMAIN UnitOf(c, w.unit).outputs
        /\ <<v.instance_id, UnitOf(c, v.unit).outputs[m]>> = <<w.instance_id, UnitOf(c, w.unit).outputs[n]>>
    BY <2>1 DEF MadeBy
  <2>3. i = j
    BY <2>1, <2>2 DEF Bridging, BridgeAccepts, IsInjective
  <2>4. Known(c, v.unit)
    BY <2>1 DEF Bridging, BridgeAccepts, SoundInstance, Range
  <2>5. IsInjective(UnitOf(c, v.unit).outputs)
    BY <2>4, KnownUnit DEF Bridging, IsContract
  <2>6. m = n
    BY <2>2, <2>3, <2>5 DEF IsInjective
  <2> QED BY <2>3, <2>6
<1> QED BY <1>3, <1>4

(* The closure along dependencies alone.                                   *)
Awaits(W, B, r) ==
  /\ W \subseteq DOMAIN B /\ r.demanded \subseteq W
  /\ \A id \in W : B[id].deps \subseteq W
  /\ \A S : r.demanded \subseteq S /\ (\A id \in S : B[id].deps \subseteq S) => W \subseteq S

LEMMA WantedIsLeast ==
  ASSUME NEW c, NEW r, NEW B, NEW in, Bridging(c, r, B, in)
  PROVE  \E W : Wanted(r) = {B[id] : id \in W} /\ Awaits(W, B, r)
<1> DEFINE U == DOMAIN B
           a == r.demanded
           byId == InstancesById(r.instances)
           G == [S \in SUBSET U |-> WithAwaited(byId, S)]
           k == Len(r.instances)
           Body(f) == [n \in Nat |-> IF n = 0 THEN r.demanded ELSE WithAwaited(byId, f[n - 1])]
           reach == CHOOSE f : f = Body(f)
<1>0. byId = B
  BY DEF Bridging
<1>1. a \in SUBSET U /\ \A S \in SUBSET U : WithAwaited(byId, S) \in SUBSET U
  BY <1>0, BridgedInstances DEF WithAwaited
<1>2. G \in [SUBSET U -> SUBSET U]
  BY <1>1
<1>3. \E f : f = Body(f)
  <2>1. PICK f : Recurs(f, a, G)
    <3> HIDE DEF a, G, U
    <3> QED BY <1>1, <1>2, IterationExists
  <2>2. \A n \in Nat : f[n] \in SUBSET U
    <3> HIDE DEF a, G, U
    <3> QED BY <1>1, <1>2, <2>1, RecursValues
  <2>3. ASSUME NEW n \in Nat PROVE f[n] = IF n = 0 THEN a ELSE WithAwaited(byId, f[n - 1])
    <3>1. f[n] = IF n = 0 THEN a ELSE G[f[n - 1]]
      <4> HIDE DEF a, G
      <4> QED BY <2>1 DEF Recurs
    <3>2. n # 0 => n - 1 \in Nat
      OBVIOUS
    <3> HIDE DEF a, U, byId
    <3> QED BY <2>2, <3>1, <3>2
  <2>4. \E g : f = [n \in Nat |-> g[n]]
    <3> DEFINE g == [n \in Nat |-> IF n = 0 THEN a ELSE G[f[n - 1]]]
    <3>1. f = [n \in Nat |-> g[n]]
      <4> HIDE DEF a, G
      <4> QED BY <2>1 DEF Recurs
    <3> QED BY <3>1
  <2>5. f = Body(f)
    <3> HIDE DEF G, U, byId
    <3> QED BY <2>3, <2>4
  <2> QED BY <2>5
<1>4. reach = Body(reach)
  <2> HIDE DEF Body
  <2> QED BY <1>3
<1>5. Wanted(r) = {byId[id] : id \in reach[k]}
  BY DEF Wanted
<1>6. Recurs(reach, a, G)
  <2> HIDE DEF reach, byId
  <2>1. \A n \in Nat : reach[n] = IF n = 0 THEN a ELSE WithAwaited(byId, reach[n - 1])
    BY <1>4
  <2>2. \A n \in Nat : reach[n] \in SUBSET U
    <3> DEFINE T == {n \in Nat : reach[n] \in SUBSET U}
    <3>1. 0 \in T
      BY <1>1, <2>1
    <3>2. ASSUME NEW n \in Nat, n \in T PROVE n + 1 \in T
      <4>1. n + 1 \in Nat /\ n + 1 # 0 /\ (n + 1) - 1 = n
        OBVIOUS
      <4>2. reach[n + 1] = WithAwaited(byId, reach[n])
        <5> HIDE DEF a, U
        <5> QED BY <2>1, <4>1
      <4> HIDE DEF U
      <4> QED BY <1>1, <3>2, <4>2
    <3> HIDE DEF T
    <3>3. Nat \subseteq T
      BY <3>1, <3>2, Induction
    <3> QED BY <3>3 DEF T
  <2>3. ASSUME NEW n \in Nat PROVE reach[n] = IF n = 0 THEN a ELSE G[reach[n - 1]]
    <3>1. n # 0 => n - 1 \in Nat /\ G[reach[n - 1]] = WithAwaited(byId, reach[n - 1])
      <4> HIDE DEF U, a
      <4> QED BY <2>2
    <3> HIDE DEF G, a
    <3> QED BY <2>1, <3>1
  <2>4. reach = [n \in Nat |-> IF n = 0 THEN a ELSE G[reach[n - 1]]]
    <3>1. \E g : reach = [n \in Nat |-> g[n]]
      <4> DEFINE g == [n \in Nat |-> IF n = 0 THEN a ELSE WithAwaited(byId, reach[n - 1])]
      <4>1. reach = [n \in Nat |-> g[n]]
        BY <1>4
      <4> QED BY <4>1
    <3> HIDE DEF a, G
    <3> QED BY <2>3, <3>1
  <2> HIDE DEF a, G
  <2> QED BY <2>4 DEF Recurs
<1>7. WellFormed(in) /\ OneActionEach(c, r, B, in)
  BY BridgedWellFormed, BridgedActions
<1>8. IsFiniteSet(U) /\ k \in Nat /\ Cardinality(U) <= k
  BY <1>7, ListedFinite DEF OneActionEach
<1>9. LeastClosed(reach[k], U, a, G)
  <2>1. \A S \in SUBSET U : S \subseteq G[S]
    BY DEF WithAwaited
  <2> HIDE DEF U, a, G, reach, k
  <2> QED BY <1>1, <1>2, <1>6, <1>8, <2>1, IterationSettles
<1> HIDE DEF reach, k
<1>10. /\ reach[k] \subseteq DOMAIN B /\ r.demanded \subseteq reach[k]
       /\ WithAwaited(B, reach[k]) = reach[k]
  BY <1>0, <1>9 DEF LeastClosed
<1>11. ASSUME NEW S, r.demanded \subseteq S, \A id \in S : B[id].deps \subseteq S
       PROVE  reach[k] \subseteq S
  <2>1. \A X \in SUBSET U : X \subseteq S => G[X] \subseteq S
    BY <1>0, <1>11 DEF WithAwaited
  <2> HIDE DEF G, U
  <2> QED BY <1>9, <1>11, <2>1 DEF LeastClosed
<1>12. Awaits(reach[k], B, r)
  BY <1>10, <1>11 DEF Awaits, WithAwaited
<1> QED BY <1>0, <1>5, <1>12

(* In the kernel the artifacts an instance reads stand for the instances   *)
(* it waits for.                                                           *)
LEMMA BridgedDeps ==
  ASSUME IndexInv, at \in Indexed, NEW c, NEW r, NEW B, Bridging(c, r, B, input)
  PROVE  /\ ListedIds = DOMAIN B /\ needed \subseteq DOMAIN B
         /\ \A id \in DOMAIN B : /\ Act(id) = Work(c, B, B[id])
                                 /\ Needs(id) \subseteq DOMAIN producerOf
                                 /\ Deps(id) = B[id].deps
<1>0. OneActionEach(c, r, B, input)
  BY BridgedActions
<1>1. ListedIds = DOMAIN B /\ \A id \in DOMAIN B : Act(id) = Work(c, B, B[id])
  BY <1>0 DEF OneActionEach, ListedIds, Act
<1>2. /\ DOMAIN producerOf = Outputs(ActionsOf(input.actions))
      /\ \A x \in DOMAIN producerOf : producerOf[x] = x[1]
  <2>1. \A x \in Outputs(ActionsOf(input.actions)) : Producer(ActionsOf(input.actions), x) = x[1]
    BY BridgedArtifacts
  <2> QED BY <2>1 DEF IndexInv
<1>3. ASSUME NEW id \in DOMAIN B
      PROVE  Needs(id) \subseteq DOMAIN producerOf /\ Deps(id) = B[id].deps
  <2>1. Act(id).inputs = Reads(c, B[id], B)
    BY <1>1 DEF Work
  <2>2. /\ Reads(c, B[id], B) \subseteq Outputs(ActionsOf(input.actions))
        /\ {x[1] : x \in Reads(c, B[id], B)} = B[id].deps
    BY BridgedReads
  <2> QED BY <1>2, <2>1, <2>2 DEF Needs, Deps
<1>4. needed \subseteq DOMAIN B
  BY <1>1 DEF IndexInv
<1> QED BY <1>1, <1>3, <1>4

LEMMA BridgedDemand ==
  ASSUME NEW c, NEW r, NEW B, NEW in, Bridging(c, r, B, in)
  PROVE  /\ in.demanded \subseteq Outputs(ActionsOf(in.actions))
         /\ MakersOf(in, in.demanded) = r.demanded
<1> DEFINE as == ActionsOf(in.actions)
<1>1. in.demanded = UNION {Range(MadeBy(c, B[id])) : id \in r.demanded}
  BY DEF Bridging, Bridged
<1>2. r.demanded \subseteq DOMAIN B
  BY BridgedInstances
<1>3. /\ Outputs(as) = UNION {Range(MadeBy(c, B[id])) : id \in DOMAIN B}
      /\ \A x \in Outputs(as) : Producer(as, x) = x[1]
  BY BridgedArtifacts
<1>4. in.demanded \subseteq Outputs(as)
  <2> HIDE DEF as
  <2> QED BY <1>1, <1>2, <1>3
<1>5. ASSUME NEW id \in r.demanded
      PROVE  /\ \A x \in Range(MadeBy(c, B[id])) : x[1] = id
             /\ Range(MadeBy(c, B[id])) # {}
  <2>1. B[id].instance_id = id /\ Known(c, B[id].unit)
    BY <1>2, BridgedInstances DEF SoundInstance
  <2>2. UnitOf(c, B[id].unit).outputs # <<>>
    BY <2>1, KnownUnit DEF Bridging, IsContract
  <2>3. UnitOf(c, B[id].unit).outputs \in Seq(Range(UnitOf(c, B[id].unit).outputs))
    BY <2>1, KnownUnit DEF Bridging, IsContract
  <2>4. PICK k : k \in Range(UnitOf(c, B[id].unit).outputs)
    <3>1. 1 \in DOMAIN UnitOf(c, B[id].unit).outputs
      BY <2>2, <2>3
    <3> QED BY <3>1 DEF Range
  <2>5. Range(MadeBy(c, B[id])) = {<<id, j>> : j \in Range(UnitOf(c, B[id].unit).outputs)}
    BY <2>1, MadeKinds
  <2>6. <<id, k>> \in Range(MadeBy(c, B[id]))
    BY <2>4, <2>5
  <2>7. ASSUME NEW x \in Range(MadeBy(c, B[id])) PROVE x[1] = id
    <3>1. PICK j : x = <<id, j>>
      BY <2>5
    <3> QED BY <3>1
  <2> QED BY <2>6, <2>7
<1>6. MakersOf(in, in.demanded) = {x[1] : x \in in.demanded}
  <2>1. MakersOf(in, in.demanded) = {Producer(as, x) : x \in in.demanded \cap Outputs(as)}
    BY DEF MakersOf
  <2> HIDE DEF as
  <2> QED BY <1>3, <1>4, <2>1
<1>7. {x[1] : x \in in.demanded} = r.demanded
  BY <1>1, <1>5
<1> QED BY <1>4, <1>6, <1>7

(* What the bridge lets through is never refused.                          *)
LEMMA NeverRefused ==
  ASSUME KernelInv, at # "rejected", NEW c, NEW r, NEW B, Bridging(c, r, B, input), Next
  PROVE  at' # "rejected"
<1> SUFFICES ASSUME at' = "rejected" PROVE FALSE
  OBVIOUS
<1>0. OneActionEach(c, r, B, input) /\ ~DeclaredTwice
  BY BridgedActions, BridgedWellFormed
<1>1. ASSUME IndexInv, at \in Indexed
      PROVE  DOMAIN producerOf = Outputs(ActionsOf(input.actions))
  BY <1>1 DEF IndexInv
<1>2. CASE Index
  <2>1. input.versionIsOurs /\ IsInjective([i \in DOMAIN input.actions |-> input.actions[i].id])
    BY <1>0 DEF OneActionEach
  <2> QED BY <1>0, <1>2, <2>1 DEF Index, Goto
<1>3. CASE Demand
  <2>1. input.demanded \subseteq DOMAIN producerOf
    BY <1>1, <1>3, BridgedDemand DEF Demand, KernelInv, IInv, Indexed
  <2> QED BY <1>3, <2>1 DEF Demand, Goto
<1>4. ASSUME NEW id \in needed, Walk(id) PROVE FALSE
  <2>1. IndexInv /\ at \in Indexed
    BY <1>4 DEF Walk, KernelInv, IInv, Indexed
  <2>2. Needs(id) \subseteq DOMAIN producerOf
    BY <2>1, BridgedDeps
  <2> QED BY <1>4, <2>2 DEF Walk, Goto, Needs
<1>5. ASSUME NEW id \in needed, CloseCycle(id) PROVE FALSE
  <2>1. IndexInv /\ at \in Indexed
    BY <1>5 DEF CloseCycle, KernelInv, IInv, Indexed
  <2>2. PICK C \in SUBSET needed : C # {} /\ \A d \in C : Deps(d) \cap C # {}
    BY <1>5, ClosesACircle DEF NoCircle
  <2>3. C \subseteq DOMAIN B /\ \A d \in C : B[d].deps \cap C # {}
    BY <2>1, <2>2, BridgedDeps
  <2>4. AllBound(c, B, C)
    <3>1. ASSUME NEW d \in C
          PROVE  Known(c, B[d].unit) /\ \A e \in B[d].deps : BoundKinds(c, B[d], B[e]) # {}
      <4>1. d \in DOMAIN B
        BY <2>3
      <4>2. SoundInstance(c, B[d]) /\ DependenciesBound(c, B[d], B)
        BY <4>1, BridgedInstances
      <4> QED BY <4>2 DEF SoundInstance, DependenciesBound
    <3> QED BY <3>1 DEF AllBound
  <2>5. Acyclic(c) /\ c.units \in Seq(UnitsOf(c))
    BY DEF Bridging, ContractHolds, IsContract
  <2>6. \E d \in C : B[d].deps \cap C = {}
    BY <2>2, <2>4, <2>5, NoCircleOfInstances
  <2> QED BY <2>3, <2>6
<1>6. CASE Answer
  <2>1. at \in Indexed /\ IndexInv
    BY <1>6 DEF Answer, KernelInv, IInv, Indexed
  <2>2. \A id \in DOMAIN B : Act(id).kind = "physical_work" /\ B[id].instance_id = id
    BY <2>1, BridgedDeps, BridgedInstances DEF Work
  <2>3. {a.id : a \in ActionsOf(input.actions)} = DOMAIN B /\ input.physical = B
    BY <1>0 DEF OneActionEach, Listed
  <2>4. PhysicalWorkMatches
    BY <2>2, <2>3 DEF PhysicalWorkMatches
  <2> QED BY <1>6, <2>4 DEF Answer
<1>7. CASE Impostor
  BY <1>7 DEF Impostor
<1>8. CASE Walked \/ Root \/ Ascend \/ Searched \/ Sorted
  BY <1>8 DEF Walked, Root, Ascend, Searched, Sorted, Goto
<1>9. ASSUME NEW id \in needed, Descend(id) \/ Emit(id) PROVE FALSE
  BY <1>9 DEF Descend, Emit, Goto
<1> QED BY <1>2, <1>3, <1>4, <1>5, <1>6, <1>7, <1>8, <1>9 DEF Next

(* An accepted request is planned whole: with all that its demand waits    *)
(* for, and nothing else.                                                  *)
LEMMA NeededIsWanted ==
  ASSUME KernelInv, at = "planned", NEW c, NEW r, NEW B, Bridging(c, r, B, input)
  PROVE  /\ needed \subseteq DOMAIN B /\ \A id \in needed : B[id].deps \subseteq needed
         /\ Wanted(r) = {B[id] : id \in needed}
<1>0. /\ at \in Indexed /\ IndexInv /\ WellFormed(input)
      /\ \A id \in needed : Deps(id) \subseteq needed
  BY DEF KernelInv, IInv, IndexInv, WalkInv, Indexed, PastDemand, PastWalk
<1>1. needed \subseteq DOMAIN B /\ \A id \in needed : B[id].deps \subseteq needed
  BY <1>0, BridgedDeps
<1>2. needed = DemandClosure(input)
  BY NeededIsTheClosure
<1>3. PICK W : Wanted(r) = {B[id] : id \in W} /\ Awaits(W, B, r)
  BY WantedIsLeast
<1>4. MakersOf(input, input.demanded) = r.demanded
  BY BridgedDemand
<1>5. r.demanded \subseteq needed
  BY <1>0, <1>2, <1>4, ClosureIsLeast
<1>6. W \subseteq needed
  BY <1>1, <1>3, <1>5 DEF Awaits
<1>7. WithMakers(input, W) \subseteq W
  <2>1. W \subseteq DOMAIN B /\ \A id \in W : B[id].deps \subseteq W
    BY <1>3 DEF Awaits
  <2>2. ASSUME NEW id \in W, NEW x \in ById(input.actions, id).inputs
        PROVE  Producer(ActionsOf(input.actions), x) \in W
    <3>1. x \in DOMAIN producerOf /\ producerOf[x] \in Deps(id)
      BY <1>0, <2>1, <2>2, BridgedDeps DEF Needs, Act, Deps
    <3>2. producerOf[x] = Producer(ActionsOf(input.actions), x)
      BY <1>0, <3>1 DEF IndexInv
    <3>3. Deps(id) \subseteq W
      BY <1>0, <2>1, BridgedDeps
    <3> QED BY <3>1, <3>2, <3>3
  <2> QED BY <2>2 DEF WithMakers, MakersOf
<1>8. needed \subseteq W
  BY <1>0, <1>2, <1>3, <1>4, <1>7, ClosureIsLeast DEF Awaits
<1>9. needed = W
  BY <1>6, <1>8
<1> QED BY <1>1, <1>3, <1>9

LEMMA PlannedIsRecovered ==
  ASSUME KernelInv, at = "planned", NEW c, NEW r, NEW B, Bridging(c, r, B, input)
  PROVE  Recovers(c, Plan) /\ Recovered(Plan) = Wanted(r)
<1> DEFINE p == Plan
<1>0. /\ at \in Indexed /\ IndexInv
      /\ IsInjective(ordered) /\ Range(ordered) = needed
  BY DEF KernelInv, IInv, SortInv, SearchInv, Indexed, Sorting, Emitted
<1>1. /\ needed \subseteq DOMAIN B /\ \A id \in needed : B[id].deps \subseteq needed
      /\ Wanted(r) = {B[id] : id \in needed}
  BY NeededIsWanted
<1>2. input.physical = B
  BY DEF Bridging, Bridged
<1>3. DOMAIN input.physical \cap needed = needed
  BY <1>1, <1>2
<1>4. /\ p.ordered = ordered /\ DOMAIN p.actions = needed /\ DOMAIN p.physical = needed
      /\ \A id \in needed : p.actions[id] = Act(id) /\ p.physical[id] = B[id]
  BY <1>2, <1>3 DEF Plan
<1> HIDE DEF p
<1>5. ASSUME NEW id \in needed
      PROVE  /\ SoundInstance(c, B[id]) /\ DependenciesBound(c, B[id], B)
             /\ B[id].instance_id = id /\ Act(id) = Work(c, B, B[id])
  <2>1. id \in DOMAIN B
    BY <1>1
  <2>2. Act(id) = Work(c, B, B[id])
    BY <1>0, <2>1, BridgedDeps
  <2> QED BY <2>1, <2>2, BridgedInstances
<1>6. ASSUME NEW id \in needed
      PROVE  \A d \in B[id].deps : p.physical[d] = B[d]
  BY <1>1, <1>4
<1>7. InstancesSound(c, p)
  <2>1. ASSUME NEW id \in needed PROVE DependenciesBound(c, B[id], p.physical)
    BY <1>5, <1>6 DEF DependenciesBound
  <2> QED BY <1>1, <1>4, <1>5, <2>1 DEF InstancesSound
<1>8. ActionsMatch(c, p)
  <2>1. ASSUME NEW id \in needed PROVE Reads(c, B[id], p.physical) = Reads(c, B[id], B)
    BY <1>6 DEF Reads
  <2>2. ASSUME NEW id \in needed
        PROVE  /\ Act(id).kind = "physical_work" /\ Act(id).inputs = Reads(c, B[id], B)
               /\ Act(id).outputs = MadeBy(c, B[id])
    BY <1>5 DEF Work
  <2> QED BY <1>4, <1>5, <2>1, <2>2 DEF ActionsMatch
<1>9. Recovers(c, p)
  BY <1>0, <1>4, <1>7, <1>8 DEF Recovers, Bridging
<1>10. Recovered(p) = Wanted(r)
  BY <1>1, <1>4 DEF Recovered, Range
<1> QED BY <1>9, <1>10 DEF p

(* What came over the bridge is still what was asked.                      *)
BridgeInv ==
  /\ KernelInv
  /\ request # None =>
       /\ at # "rejected" /\ IsContract(Contract)
       /\ Bridging(Contract, request.asked, InstancesById(request.asked.instances), input)

LEMMA BridgeStarts == BridgeInit => BridgeInv
<1> SUFFICES ASSUME BridgeInit PROVE BridgeInv
  OBVIOUS
<1>1. CASE request = None /\ input \in Inputs
  BY <1>1, KernelInit, InputsWellFormed DEF BridgeInit, BridgeInv
<1>2. ASSUME NEW name \in DOMAIN Contracts, NEW r \in Requests, ContractHolds(Contracts[name]),
             BridgeAccepts(Contracts[name], r), request = [contract |-> name, asked |-> r],
             input = Bridged(Contracts[name], r)
      PROVE  BridgeInv
  <2>1. Contract = Contracts[name] /\ request.asked = r
    BY <1>2 DEF Contract
  <2>2. IsContract(Contracts[name]) /\ IsRequest(r)
    BY ContractsAssumption, RequestsAssumption
  <2>3. Bridging(Contracts[name], r, InstancesById(r.instances), input)
    BY <1>2, <2>2 DEF Bridging
  <2>4. KernelInv /\ at = "index"
    <3>1. WellFormed(input)
      BY <2>3, BridgedWellFormed
    <3> QED BY <3>1, KernelInit DEF BridgeInit, StartsPlanning
  <2> QED BY <2>1, <2>2, <2>3, <2>4 DEF BridgeInv
<1> QED BY <1>1, <1>2 DEF BridgeInit

LEMMA BridgeSteps == BridgeInv /\ [BridgeNext]_<<vars, request>> => BridgeInv'
<1> SUFFICES ASSUME BridgeInv, [BridgeNext]_<<vars, request>> PROVE BridgeInv'
  OBVIOUS
<1>1. [Next]_vars /\ UNCHANGED <<request, input>>
  <2>1. Next => input' = input
    BY DEF Next, Impostor, Index, Demand, Walked, Root, Ascend, Searched, Sorted, Answer, Walk,
       Descend, CloseCycle, Emit, Goto, Reject
  <2> QED BY <2>1 DEF BridgeNext, vars
<1>2. KernelInv'
  BY <1>1, KernelSteps DEF BridgeInv
<1>3. ASSUME request # None PROVE at' # "rejected"
  <2>1. CASE Next
    BY <1>3, <2>1, NeverRefused DEF BridgeInv
  <2>2. CASE UNCHANGED vars
    BY <1>3, <2>2 DEF BridgeInv, vars, answer
  <2> QED BY <1>1, <2>1, <2>2
<1>5. Contract' = Contract /\ request'.asked = request.asked
  BY <1>1 DEF Contract
<1> QED BY <1>1, <1>2, <1>3, <1>5 DEF BridgeInv

LEMMA BridgeMeans == BridgeInv => PhysicalWorkSurvives
<1> SUFFICES ASSUME BridgeInv, request # None
             PROVE  /\ at # "rejected"
                    /\ at = "planned" /\ received = Plan => /\ Recovers(Contract, received)
                                                          /\ Recovered(received) = Wanted(request.asked)
                    /\ received # None /\ Recovers(Contract, received)
                         => Executable(Contract, Recovered(received))
  BY DEF PhysicalWorkSurvives
<1>1. at = "planned" => Recovers(Contract, Plan) /\ Recovered(Plan) = Wanted(request.asked)
  BY PlannedIsRecovered DEF BridgeInv
<1>2. Contract.units \in Seq(UnitsOf(Contract))
  BY DEF BridgeInv, IsContract
<1>3. Recovers(Contract, received) => Executable(Contract, Recovered(received))
  BY <1>2, RecoveredIsExecutable
<1>4. at # "rejected"
  BY DEF BridgeInv
<1> QED BY <1>1, <1>3, <1>4

(* For every contract and request, and every planning input beside them:   *)
(* what the bridge lets through is never refused, comes back as what was   *)
(* asked for, and whatever comes back can be executed.                     *)
THEOREM PhysicalWorkSurvivesHolds ==
  BridgeSpec => [](PhysicalWorkSurvives /\ PlansRun /\ PlanIsCanonical)
<1>1. BridgeInv => PhysicalWorkSurvives /\ PlansRun /\ PlanIsCanonical
  BY BridgeMeans, KernelMeans DEF BridgeInv
<1> QED BY <1>1, BridgeStarts, BridgeSteps, PTL DEF BridgeSpec
=============================================================================
