---------------------------- MODULE MeasurementProofs --------------------------
(***************************************************************************)
(* Proofs about measured builds, for every set of compilers, machines and  *)
(* scenarios, and any number of Runs, changes and failures: labels are     *)
(* true, verdicts compare the same work, and what may be reused is what    *)
(* would be built.                                                         *)
(***************************************************************************)
EXTENDS Measurement, FiniteSetTheorems, TLAPS

Evidence(delta) == States(delta, "Created") \cup States(delta, "Modified")

AllFiles == UNION {Files(w) : w \in Workloads}
Made     == [content : Nat, by : Digests, stamp : Nat]
Over(S)  == UNION {[T -> S] : T \in SUBSET AllFiles}

Runs ==
  [workload : Workloads, machine : Machines.first \cup Machines.others,
   report : [Declared -> Digests], wrapped : Paths \cup {None}, root : Paths, success : BOOLEAN,
   delta : Over({"Created", "Deleted", "Modified", "Unchanged"}), processes : {1, 2},
   cacheState : Labels \cup {None}, violated : BOOLEAN,
   compiled : BOOLEAN, by : Digests, content : Nat, made : SUBSET Made]

Trees == [content : Nat, edited : Nat, files : Over(Made)]

TypeOK ==
  /\ trees \in [Workloads -> Trees]
  /\ clock \in Nat
  /\ installed \in [Paths -> Digests] /\ selected \in Paths
  /\ machine \in Machines.first \cup Machines.others
  /\ wrapper \in BOOLEAN
  /\ at \in {"idle", "prepared", "recorded"}
  /\ at # "idle" =>
       run \in [workload : Workloads, label : Labels, machine : Machines.first \cup Machines.others,
                report : [Declared -> Digests], wrapped : Paths \cup {None}]
  /\ store \in Seq(Runs)

(* A file that is younger than the last edit was made from it.             *)
Dated(w, tree, now) ==
  /\ tree.edited < now
  /\ DOMAIN tree.files \subseteq Files(w)
  /\ \A f \in DOMAIN tree.files :
       /\ tree.files[f].stamp < now
       /\ tree.files[f].stamp > tree.edited => tree.files[f].content = tree.content

FilesAreDated == \A w \in Workloads : Dated(w, trees[w], clock)

(* What was observed before the build is still so during it.               *)
RunIsPrepared ==
  at = "prepared" =>
    /\ run.report = Captured /\ run.wrapped = Wrapped(run.workload)
    /\ run.label = "Cold" => Present(run.workload) = {}

Fresh(r) == r.compiled /\ States(r.delta, "Created") = DOMAIN r.delta

RunIsRecorded ==
  at = "recorded" => store # <<>> /\ (run.label = "Cold" => Fresh(store[Len(store)]))

(* What a record says of its Run, whatever came later.                     *)
Observed(r) ==
  /\ DOMAIN r.delta \subseteq Files(r.workload)
  /\ r.success => Evidence(r.delta) = IF r.compiled THEN Files(r.workload) ELSE DepInfo \cap Files(r.workload)
  /\ r.success => {[content |-> m.content, by |-> m.by] : m \in r.made} = {[content |-> r.content, by |-> r.by]}
  /\ Toolchain(r) # None => Toolchain(r) = r.by

Labelled(r) ==
  /\ r.cacheState = "TrueNoop" /\ ~r.violated => ~Violation(r)
  /\ r.cacheState = "Cold" => Fresh(r)

RunsAreTrue == \A i \in DOMAIN store : Observed(store[i]) /\ Labelled(store[i])

MeasurementInv == TypeOK /\ FilesAreDated /\ RunIsPrepared /\ RunIsRecorded /\ RunsAreTrue
-----------------------------------------------------------------------------
(* Files *)

LEMMA FilesOf ==
  ASSUME NEW w \in Workloads
  PROVE  /\ IsFiniteSet(Files(w)) /\ Files(w) \subseteq AllFiles
         /\ Files(w) \ DepInfo # {}
         /\ UNION {Roots(w)[i] : i \in 1 .. Len(Roots(w))} = Files(w)
<1>1. DOMAIN Roots(w) = 1 .. Len(Roots(w))
  <2>1. CASE w = "rust-heavy-workspace"
    <3>1. Roots(w) = <<{"fixture", "fixture.d"}>> BY <2>1 DEF Roots
    <3> QED BY <3>1
  <2>2. CASE w # "rust-heavy-workspace"
    <3>1. Roots(w) = <<{"fixture.c"}, {"fixture"}>> BY <2>2 DEF Roots
    <3> QED BY <3>1
  <2> QED BY <2>1, <2>2
<1>2. UNION {Roots(w)[i] : i \in 1 .. Len(Roots(w))} = Files(w)
  BY <1>1 DEF Files, Range
<1>3. Files(w) \subseteq {"fixture", "fixture.d", "fixture.c"}
  <2>1. \A i \in DOMAIN Roots(w) : Roots(w)[i] \subseteq {"fixture", "fixture.d", "fixture.c"}
    BY DEF Roots
  <2> QED BY <2>1 DEF Files, Range
<1>4. IsFiniteSet(Files(w))
  <2>1. IsFiniteSet({"fixture"})
    BY FS_Singleton
  <2>2. IsFiniteSet({"fixture"} \cup {"fixture.d"})
    BY <2>1, FS_AddElement
  <2>3. IsFiniteSet(({"fixture"} \cup {"fixture.d"}) \cup {"fixture.c"})
    BY <2>2, FS_AddElement
  <2>4. Files(w) \subseteq ({"fixture"} \cup {"fixture.d"}) \cup {"fixture.c"}
    BY <1>3
  <2> QED BY <2>3, <2>4, FS_Subset
<1>5. "fixture" \in Files(w)
  <2>1. CASE w = "rust-heavy-workspace"
    <3>1. 1 \in DOMAIN Roots(w) /\ "fixture" \in Roots(w)[1] BY <2>1 DEF Roots
    <3> QED BY <3>1 DEF Files, Range
  <2>2. CASE w # "rust-heavy-workspace"
    <3>1. 2 \in DOMAIN Roots(w) /\ "fixture" \in Roots(w)[2] BY <2>2 DEF Roots
    <3> QED BY <3>1 DEF Files, Range
  <2> QED BY <2>1, <2>2
<1> QED BY <1>2, <1>4, <1>5 DEF AllFiles, DepInfo

(* What happens to a tree between two builds keeps its files dated.        *)
LEMMA EditedDated ==
  ASSUME NEW w, NEW tree \in Trees, NEW now \in Nat, NEW content \in Nat, Dated(w, tree, now)
  PROVE  LET new == [tree EXCEPT !.content = content, !.edited = now]
         IN  new \in Trees /\ Dated(w, new, now + 1) /\ new.files = tree.files
<1> DEFINE new == [tree EXCEPT !.content = content, !.edited = now]
<1>1. new \in Trees /\ new.edited = now /\ new.files = tree.files /\ new.content = content
  BY DEF Trees
<1> HIDE DEF new
<1>2. \A f \in DOMAIN tree.files : tree.files[f].stamp < now /\ tree.files[f].stamp \in Nat
  BY DEF Dated, Trees, Over, Made
<1> QED BY <1>1, <1>2 DEF Dated, new

LEMMA ShrunkDated ==
  ASSUME NEW w, NEW tree \in Trees, NEW now \in Nat, NEW gone, Dated(w, tree, now)
  PROVE  LET new == [tree EXCEPT !.files = Without(@, gone)]
         IN  new \in Trees /\ Dated(w, new, now + 1) /\ DOMAIN new.files = DOMAIN tree.files \ gone
<1> DEFINE files == Without(tree.files, gone)
           new   == [tree EXCEPT !.files = files]
<1>1. PICK S \in SUBSET AllFiles : tree.files \in [S -> Made]
  BY DEF Trees, Over
<1>2. files \in [S \ gone -> Made] /\ S \ gone \in SUBSET AllFiles
  BY <1>1 DEF Without
<1>3. files \in Over(Made)
  BY <1>2 DEF Over
<1>4. \A f \in DOMAIN files : f \in DOMAIN tree.files /\ files[f] = tree.files[f] /\ files[f].stamp \in Nat
  BY <1>1 DEF Without, Made
<1>5. DOMAIN files = DOMAIN tree.files \ gone
  BY DEF Without
<1> HIDE DEF files
<1>6. new \in Trees /\ new.files = files /\ new.edited = tree.edited /\ new.content = tree.content
  BY <1>3 DEF Trees
<1>7. tree.edited \in Nat BY DEF Trees
<1> HIDE DEF new
<1>8. Dated(w, new, now + 1)
  BY <1>4, <1>6, <1>7 DEF Dated
<1> QED BY <1>5, <1>6, <1>8 DEF new, files

LEMMA LaterDated ==
  ASSUME NEW w, NEW tree \in Trees, NEW now \in Nat, Dated(w, tree, now)
  PROVE  Dated(w, tree, now + 1)
<1>1. tree.edited \in Nat /\ \A f \in DOMAIN tree.files : tree.files[f].stamp \in Nat
  BY DEF Trees, Over, Made
<1> QED BY <1>1 DEF Dated

LEMMA TreeReplaced ==
  ASSUME TypeOK, FilesAreDated, NEW w \in Workloads, NEW tree \in Trees, Dated(w, tree, clock + 1),
         trees' = [trees EXCEPT ![w] = tree], clock' = clock + 1
  PROVE  trees' \in [Workloads -> Trees] /\ clock' \in Nat /\ FilesAreDated'
<1>1. trees' \in [Workloads -> Trees] /\ clock' \in Nat
  BY DEF TypeOK
<1>2. ASSUME NEW v \in Workloads PROVE Dated(v, trees'[v], clock')
  <2>1. CASE v = w
    BY <2>1 DEF TypeOK
  <2>2. CASE v # w
    BY <2>2, LaterDated DEF TypeOK, FilesAreDated
  <2> QED BY <2>1, <2>2
<1> QED BY <1>1, <1>2 DEF FilesAreDated

LEMMA TreesKept ==
  ASSUME TypeOK, FilesAreDated, trees' = trees, clock' = clock + 1
  PROVE  trees' \in [Workloads -> Trees] /\ clock' \in Nat /\ FilesAreDated'
BY LaterDated DEF TypeOK, FilesAreDated

-----------------------------------------------------------------------------
(* The steps *)

LEMMA InitHolds == Init => MeasurementInv
<1> SUFFICES ASSUME Init PROVE MeasurementInv
  OBVIOUS
<1>1. PICK first \in Installed : installed = first.at /\ selected = first.selected
  BY DEF Init
<1>2. installed \in [Paths -> Digests] /\ selected \in Paths
  BY <1>1, PathsAssumption
<1>3. ASSUME NEW w \in Workloads PROVE trees[w] \in Trees /\ Dated(w, trees[w], clock)
  <2>1. trees[w] = [content |-> 0, edited |-> 0, files |-> <<>>] /\ clock = 1
    BY DEF Init
  <2>2. <<>> \in [{} -> Made]
    OBVIOUS
  <2>3. <<>> \in Over(Made) /\ DOMAIN <<>> = {}
    BY <2>2 DEF Over
  <2> QED BY <2>1, <2>3 DEF Trees, Dated
<1>4. trees \in [Workloads -> Trees]
  BY <1>3 DEF Init
<1>5. store \in Seq(Runs) /\ DOMAIN store = {}
  BY DEF Init
<1>6. TypeOK
  BY <1>2, <1>4, <1>5 DEF Init, TypeOK
<1> QED BY <1>3, <1>5, <1>6 DEF Init, MeasurementInv, FilesAreDated, RunIsPrepared, RunIsRecorded, RunsAreTrue

(* Nobody changes the world during a Run, and no record speaks of the      *)
(* world as it is now.                                                     *)
LEMMA ChangeKeeps ==
  ASSUME MeasurementInv, Change
  PROVE  MeasurementInv'
<1> USE DEF MeasurementInv
<1>1. at = "idle" /\ at' = "idle" /\ store' = store /\ wrapper' = wrapper /\ clock' = clock + 1 /\ run' = run
  BY DEF Change
<1>2. RunIsPrepared' /\ RunIsRecorded' /\ RunsAreTrue'
  BY <1>1 DEF RunIsPrepared, RunIsRecorded, RunsAreTrue, Observed, Labelled, Toolchain
<1>3. SUFFICES /\ trees' \in [Workloads -> Trees] /\ clock' \in Nat /\ FilesAreDated'
               /\ installed' \in [Paths -> Digests] /\ selected' \in Paths
               /\ machine' \in Machines.first \cup Machines.others
  BY <1>1, <1>2 DEF TypeOK
<1>4. ASSUME NEW w \in Workloads, Edit(w)
      PROVE  trees' \in [Workloads -> Trees] /\ clock' \in Nat /\ FilesAreDated'
  <2> DEFINE tree == [trees[w] EXCEPT !.content = trees[w].content + 1, !.edited = clock]
  <2>1. trees[w] \in Trees /\ Dated(w, trees[w], clock) /\ clock \in Nat /\ trees[w].content + 1 \in Nat
    BY DEF TypeOK, FilesAreDated, Trees
  <2>2. tree \in Trees /\ Dated(w, tree, clock + 1)
    BY <2>1, EditedDated
  <2>3. trees' = [trees EXCEPT ![w] = tree]
    BY <1>4 DEF Edit, TypeOK
  <2> HIDE DEF tree
  <2> QED BY <1>1, <2>2, <2>3, TreeReplaced
<1>5. ASSUME NEW w \in Workloads, RemoveOutputs(w)
      PROVE  trees' \in [Workloads -> Trees] /\ clock' \in Nat /\ FilesAreDated'
  <2>1. PICK gone : trees' = [trees EXCEPT ![w].files = Without(@, gone)]
    BY <1>5 DEF RemoveOutputs
  <2> DEFINE tree == [trees[w] EXCEPT !.files = Without(@, gone)]
  <2>2. trees[w] \in Trees /\ Dated(w, trees[w], clock) /\ clock \in Nat
    BY DEF TypeOK, FilesAreDated
  <2>3. tree \in Trees /\ Dated(w, tree, clock + 1)
    BY <2>2, ShrunkDated
  <2>4. trees' = [trees EXCEPT ![w] = tree]
    BY <2>1 DEF TypeOK
  <2> HIDE DEF tree
  <2> QED BY <1>1, <2>3, <2>4, TreeReplaced
<1>6. ASSUME NEW p \in Paths, Select(p) \/ \E digest \in Digests : Install(p, digest)
      PROVE  /\ installed' \in [Paths -> Digests] /\ selected' \in Paths
             /\ trees' = trees /\ machine' = machine
  BY <1>6 DEF Select, Install, TypeOK
<1>7. ASSUME NEW m \in Machines.others, Move(m)
      PROVE  machine' \in Machines.first \cup Machines.others /\ UNCHANGED <<trees, installed, selected>>
  BY <1>7 DEF Move
<1>8. CASE \E w \in Workloads : Edit(w) \/ RemoveOutputs(w)
  <2>1. UNCHANGED <<installed, selected, machine>>
    BY <1>8 DEF Edit, RemoveOutputs
  <2> QED BY <1>4, <1>5, <1>8, <2>1 DEF TypeOK
<1>9. CASE \E p \in Paths : Select(p) \/ \E digest \in Digests : Install(p, digest)
  <2>1. trees' = trees
    BY <1>6, <1>9
  <2> QED BY <1>1, <1>6, <1>9, <2>1, TreesKept DEF TypeOK
<1>10. CASE \E m \in Machines.others : Move(m)
  <2>1. trees' = trees
    BY <1>7, <1>10
  <2> QED BY <1>1, <1>7, <1>10, <2>1, TreesKept DEF TypeOK
<1> QED BY <1>8, <1>9, <1>10 DEF Change

LEMMA PreparedTrees ==
  ASSUME TypeOK, FilesAreDated, NEW w \in Workloads, NEW label \in Labels, NEW done \in 0 .. Steps(w, label),
         trees' = Prepared(w, label, done), clock' = clock + 1
  PROVE  /\ trees' \in [Workloads -> Trees] /\ clock' \in Nat /\ FilesAreDated'
         /\ label = "Cold" /\ done = Steps(w, label) => DOMAIN trees'[w].files = {}
<1>1. trees[w] \in Trees /\ Dated(w, trees[w], clock) /\ clock \in Nat
  BY DEF TypeOK, FilesAreDated
<1>2. CASE label = "Cold" /\ done > 0
  <2>0. PICK gone : gone = UNION {Roots(w)[i] : i \in 1 .. done}
    OBVIOUS
  <2> DEFINE tree == [trees[w] EXCEPT !.files = Without(@, gone)]
  <2>1. tree \in Trees /\ Dated(w, tree, clock + 1) /\ DOMAIN tree.files = DOMAIN trees[w].files \ gone
    <3>1. tree \in Trees /\ Dated(w, tree, clock + 1)
      BY <1>1, ShrunkDated
    <3>2. tree.files = Without(trees[w].files, gone)
      BY <1>1 DEF Trees
    <3> QED BY <3>1, <3>2 DEF Without
  <2>2. trees' = [trees EXCEPT ![w].files = Without(@, gone)]
    BY <1>2, <2>0 DEF Prepared
  <2>3. trees' = [trees EXCEPT ![w] = tree]
    BY <2>2 DEF TypeOK
  <2>4. done = Steps(w, label) => gone = Files(w)
    BY <1>2, <2>0, FilesOf DEF Steps
  <2>5. trees'[w] = tree
    BY <2>3 DEF TypeOK
  <2> HIDE DEF tree
  <2>6. trees' \in [Workloads -> Trees] /\ clock' \in Nat /\ FilesAreDated'
    BY <2>1, <2>3, TreeReplaced
  <2> QED BY <1>1, <2>1, <2>4, <2>5, <2>6 DEF Dated
<1>3. CASE label = "Warm" /\ done > 0
  <2> DEFINE tree == [trees[w] EXCEPT !.content = trees[w].content, !.edited = clock]
  <2>1. trees[w].content \in Nat
    BY <1>1 DEF Trees
  <2>2. tree \in Trees /\ Dated(w, tree, clock + 1)
    BY <1>1, <2>1, EditedDated
  <2>3. trees' = [trees EXCEPT ![w].edited = clock]
    BY <1>3 DEF Prepared
  <2>4. tree = [trees[w] EXCEPT !.edited = clock]
    BY <1>1 DEF Trees
  <2>5. trees' = [trees EXCEPT ![w] = tree]
    BY <2>3, <2>4 DEF TypeOK
  <2> HIDE DEF tree
  <2> QED BY <1>3, <2>2, <2>5, TreeReplaced
<1>4. CASE ~(label \in {"Cold", "Warm"} /\ done > 0)
  <2>1. trees' = trees
    BY <1>4 DEF Prepared
  <2>2. ~(label = "Cold" /\ done = Steps(w, label))
    <3>1. Len(Roots(w)) > 0
      <4>1. CASE w = "rust-heavy-workspace"
        <5>1. Roots(w) = <<{"fixture", "fixture.d"}>> BY <4>1 DEF Roots
        <5> QED BY <5>1
      <4>2. CASE w # "rust-heavy-workspace"
        <5>1. Roots(w) = <<{"fixture.c"}, {"fixture"}>> BY <4>2 DEF Roots
        <5> QED BY <5>1
      <4> QED BY <4>1, <4>2
    <3> QED BY <1>4, <3>1 DEF Steps
  <2> QED BY <2>1, <2>2, TreesKept
<1> QED BY <1>2, <1>3, <1>4 DEF Labels

LEMMA PrepareKeeps ==
  ASSUME MeasurementInv, NEW w \in Workloads, NEW label \in Labels, Prepare(w, label)
  PROVE  MeasurementInv'
<1> USE DEF MeasurementInv
<1>1. /\ at' = "prepared" /\ store' = store /\ wrapper' = wrapper /\ clock' = clock + 1
      /\ installed' = installed /\ selected' = selected /\ machine' = machine
      /\ run' = [workload |-> w, label |-> label, machine |-> machine, report |-> Captured, wrapped |-> Wrapped(w)]
      /\ trees' = Prepared(w, label, Steps(w, label))
  BY DEF Prepare
<1>2. Steps(w, label) \in 0 .. Steps(w, label)
  BY DEF Steps, Roots
<1>3. /\ trees' \in [Workloads -> Trees] /\ clock' \in Nat /\ FilesAreDated'
      /\ label = "Cold" => DOMAIN trees'[w].files = {}
  BY <1>1, <1>2, PreparedTrees
<1>4. Captured \in [Declared -> Digests] /\ Wrapped(w) \in Paths \cup {None}
  BY PathsAssumption DEF Captured, Wrapped, Compiler, TypeOK
<1>5. /\ run'.workload = w /\ run'.label = label /\ run'.report = Captured /\ run'.wrapped = Wrapped(w)
      /\ run' \in [workload : Workloads, label : Labels, machine : Machines.first \cup Machines.others,
                    report : [Declared -> Digests], wrapped : Paths \cup {None}]
  BY <1>1, <1>4 DEF TypeOK
<1>6. TypeOK'
  BY <1>1, <1>3, <1>5 DEF TypeOK
<1>7. RunIsPrepared'
  BY <1>1, <1>3, <1>5 DEF RunIsPrepared, Captured, Wrapped, Compiler, Present
<1>8. RunIsRecorded' /\ RunsAreTrue'
  BY <1>1 DEF RunIsRecorded, RunsAreTrue, Observed, Labelled, Toolchain
<1> QED BY <1>3, <1>6, <1>7, <1>8

LEMMA PrepareFailsKeeps ==
  ASSUME MeasurementInv, NEW w \in Workloads, NEW label \in Labels, PrepareFails(w, label)
  PROVE  MeasurementInv'
<1> USE DEF MeasurementInv
<1>1. /\ at' = "idle" /\ store' = store /\ wrapper' = wrapper /\ clock' = clock + 1
      /\ installed' = installed /\ selected' = selected /\ machine' = machine
  BY DEF PrepareFails
<1>2. PICK done \in 0 .. Steps(w, label) - 1 : trees' = Prepared(w, label, done)
  BY DEF PrepareFails
<1>3. done \in 0 .. Steps(w, label)
  BY <1>2 DEF Steps, Roots
<1>4. trees' \in [Workloads -> Trees] /\ clock' \in Nat /\ FilesAreDated'
  BY <1>1, <1>2, <1>3, PreparedTrees
<1>5. TypeOK'
  BY <1>1, <1>4 DEF TypeOK
<1> QED BY <1>1, <1>4, <1>5 DEF RunIsPrepared, RunIsRecorded, RunsAreTrue, Observed, Labelled, Toolchain

LEMMA AbandonKeeps ==
  ASSUME MeasurementInv, Abandon
  PROVE  MeasurementInv'
BY DEF MeasurementInv, Abandon, TypeOK, FilesAreDated, world, RunIsPrepared, RunIsRecorded, RunsAreTrue,
       Observed, Labelled, Toolchain

(* What the tool writes, and what the inventory sees of it.                *)
Overwritten(pre, written, made) == [f \in DOMAIN pre \cup written |-> IF f \in written THEN made ELSE pre[f]]
WithFiles(tree, files)          == [tree EXCEPT !.files = files]

LEMMA WrittenFiles ==
  ASSUME TypeOK, FilesAreDated, NEW w \in Workloads, NEW written \in SUBSET Files(w),
         NEW made \in Made, made.stamp = clock, made.content = trees[w].content
  PROVE  LET pre  == trees[w].files
             post == Overwritten(pre, written, made)
             tree == WithFiles(trees[w], post)
         IN  /\ tree \in Trees /\ Dated(w, tree, clock + 1) /\ DOMAIN post \subseteq Files(w)
             /\ post \in Over(Made)
             /\ DOMAIN Diff(pre, post) = DOMAIN post /\ Evidence(Diff(pre, post)) = written
             /\ Diff(pre, post) \in Over({"Created", "Deleted", "Modified", "Unchanged"})
             /\ DOMAIN pre = {} => States(Diff(pre, post), "Created") = DOMAIN Diff(pre, post)
<1> DEFINE pre   == trees[w].files
           post  == Overwritten(pre, written, made)
           tree  == WithFiles(trees[w], post)
           delta == Diff(pre, post)
<1>1. trees[w] \in Trees /\ Dated(w, trees[w], clock) /\ clock \in Nat
  BY DEF TypeOK, FilesAreDated
<1>2. PICK S \in SUBSET AllFiles : pre \in [S -> Made]
  BY <1>1 DEF Trees, Over
<1>3. Files(w) \subseteq AllFiles /\ DOMAIN pre \subseteq Files(w)
  BY <1>1, FilesOf DEF Dated
<1>4. post \in [S \cup written -> Made] /\ S \cup written \in SUBSET AllFiles
  BY <1>2, <1>3 DEF Overwritten
<1>5. post \in Over(Made) /\ DOMAIN post = DOMAIN pre \cup written
  BY <1>2, <1>4 DEF Over
<1>6. \A f \in DOMAIN pre : pre[f].stamp \in Nat /\ pre[f].stamp < clock
  BY <1>1, <1>2 DEF Dated, Made
<1>7. /\ \A f \in written : post[f] = made
      /\ \A f \in DOMAIN pre \ written : post[f] = pre[f]
  BY DEF Overwritten
<1>8. tree \in Trees /\ tree.files = post /\ tree.edited = trees[w].edited /\ tree.content = trees[w].content
  <2> HIDE DEF post
  <2> QED BY <1>1, <1>5 DEF Trees, WithFiles
<1>9. trees[w].edited \in Nat /\ trees[w].edited < clock
  BY <1>1 DEF Trees, Dated
<1> HIDE DEF post, tree
<1>10. ASSUME NEW f \in DOMAIN post
       PROVE  /\ post[f].stamp < clock + 1
              /\ post[f].stamp > trees[w].edited => post[f].content = trees[w].content
  <2>1. CASE f \in written
    BY <1>1, <1>7, <2>1
  <2>2. CASE f \notin written
    BY <1>1, <1>5, <1>6, <1>7, <2>2 DEF Dated
  <2> QED BY <2>1, <2>2
<1>11. Dated(w, tree, clock + 1) /\ DOMAIN post \subseteq Files(w)
  BY <1>1, <1>3, <1>5, <1>8, <1>9, <1>10 DEF Dated
<1>12. DOMAIN delta = DOMAIN post
  BY <1>5 DEF Diff
<1>13. ASSUME NEW f \in DOMAIN post
       PROVE  /\ delta[f] \in {"Created", "Deleted", "Modified", "Unchanged"}
              /\ delta[f] \in {"Created", "Modified"} <=> f \in written
              /\ f \notin DOMAIN pre => delta[f] = "Created"
  <2>1. CASE f \notin DOMAIN pre
    <3>1. delta[f] = "Created" BY <1>5, <2>1 DEF Diff
    <3> QED BY <1>5, <2>1, <3>1
  <2>2. CASE f \in DOMAIN pre
    <3>1. delta[f] = IF pre[f].stamp = post[f].stamp THEN "Unchanged" ELSE "Modified"
      BY <1>5, <2>2 DEF Diff
    <3>2. pre[f].stamp = post[f].stamp <=> f \notin written
      BY <1>1, <1>6, <1>7, <2>2
    <3> QED BY <2>2, <3>1, <3>2
  <2> QED BY <2>1, <2>2
<1> HIDE DEF delta
<1>14. Evidence(delta) = written /\ (DOMAIN pre = {} => States(delta, "Created") = DOMAIN delta)
  BY <1>5, <1>12, <1>13 DEF Evidence, States
<1>15. delta \in Over({"Created", "Deleted", "Modified", "Unchanged"})
  <2>1. delta = [f \in DOMAIN delta |-> delta[f]] BY DEF delta, Diff
  <2>2. delta \in [DOMAIN delta -> {"Created", "Deleted", "Modified", "Unchanged"}] BY <1>12, <1>13, <2>1
  <2>3. DOMAIN delta \in SUBSET AllFiles BY <1>3, <1>11, <1>12
  <2> QED BY <2>2, <2>3 DEF Over
<1> QED BY <1>5, <1>8, <1>11, <1>12, <1>14, <1>15 DEF post, tree, delta

LEMMA Appended ==
  ASSUME NEW s \in Seq(Runs), NEW r \in Runs
  PROVE  /\ Append(s, r) \in Seq(Runs) /\ Append(s, r) # <<>>
         /\ Append(s, r)[Len(Append(s, r))] = r
         /\ \A i \in DOMAIN Append(s, r) : (i \in DOMAIN s /\ Append(s, r)[i] = s[i]) \/ Append(s, r)[i] = r
OBVIOUS

NewRun(workload, seen, report, wrapped, root, success, delta, processes, compiled, by, content, made) ==
  [workload |-> workload, machine |-> seen, report |-> report, wrapped |-> wrapped,
   root |-> root, success |-> success, delta |-> delta, processes |-> processes,
   cacheState |-> None, violated |-> FALSE, compiled |-> compiled, by |-> by, content |-> content,
   made |-> made]

LEMMA RunsAre ==
  ASSUME NEW workload \in Workloads, NEW seen \in Machines.first \cup Machines.others,
         NEW report \in [Declared -> Digests], NEW wrapped \in Paths \cup {None}, NEW root \in Paths,
         NEW success \in BOOLEAN, NEW delta \in Over({"Created", "Deleted", "Modified", "Unchanged"}),
         NEW processes \in {1, 2}, NEW compiled \in BOOLEAN, NEW by \in Digests, NEW content \in Nat,
         NEW made \in SUBSET Made
  PROVE  NewRun(workload, seen, report, wrapped, root, success, delta, processes, compiled, by, content, made) \in Runs
BY DEF Runs, NewRun

LEMMA BuildKeeps ==
  ASSUME MeasurementInv, NEW ok \in BOOLEAN, Build(ok)
  PROVE  MeasurementInv'
<1> USE DEF MeasurementInv
<1> DEFINE w    == run.workload
           pre  == trees[w].files
           made == [content |-> trees[w].content, by |-> installed[Compiler(w)], stamp |-> clock]
<1>1. /\ at = "prepared" /\ at' = "recorded" /\ clock' = clock + 1 /\ run' = run /\ wrapper' = wrapper
      /\ installed' = installed /\ selected' = selected /\ machine' = machine
  BY DEF Build
<1>2. /\ w \in Workloads /\ run.label \in Labels /\ run.machine \in Machines.first \cup Machines.others
      /\ run.report \in [Declared -> Digests] /\ run.wrapped \in Paths \cup {None}
  BY <1>1 DEF TypeOK
<1>3. Compiler(w) \in Paths /\ installed[Compiler(w)] \in Digests
  BY PathsAssumption DEF Compiler, TypeOK
<1>4. trees[w] \in Trees /\ Dated(w, trees[w], clock) /\ clock \in Nat /\ trees[w].content \in Nat
  BY <1>2 DEF TypeOK, FilesAreDated, Trees
<1>5. made \in Made /\ made.stamp = clock /\ made.content = trees[w].content /\ made.by = installed[Compiler(w)]
  BY <1>3, <1>4 DEF Made
<1>6. PICK up \in BOOLEAN : up = UpToDate(w)
  BY DEF UpToDate
<1>7. PICK written \in Written(w, ok) :
        LET post == [f \in DOMAIN pre \cup written |-> IF f \in written THEN made ELSE pre[f]] IN
        /\ trees' = [trees EXCEPT ![w].files = post]
        /\ store' = Append(store, Recorded(w, ok, pre, post))
  BY DEF Build
<1>8. /\ written \in SUBSET Files(w)
      /\ ok => written = IF up THEN DepInfo \cap Files(w) ELSE Files(w)
      /\ up => written \subseteq DepInfo
  BY <1>6, <1>7 DEF Written
<1> HIDE DEF made, w
<1>9. PICK post : post = Overwritten(pre, written, made)
  OBVIOUS
<1>10. PICK tree : tree = WithFiles(trees[w], post)
  OBVIOUS
<1>11. PICK delta : delta = Diff(pre, post)
  OBVIOUS
<1>12. PICK r : r = Recorded(w, ok, pre, post)
  OBVIOUS
<1>13. trees' = [trees EXCEPT ![w] = tree] /\ store' = Append(store, r)
  BY <1>7, <1>9, <1>10, <1>12 DEF TypeOK, Overwritten, WithFiles
<1>14. /\ tree \in Trees /\ Dated(w, tree, clock + 1) /\ DOMAIN post \subseteq Files(w) /\ post \in Over(Made)
       /\ DOMAIN delta = DOMAIN post /\ Evidence(delta) = written
       /\ delta \in Over({"Created", "Deleted", "Modified", "Unchanged"})
       /\ DOMAIN pre = {} => States(delta, "Created") = DOMAIN delta
  BY <1>2, <1>5, <1>8, <1>9, <1>10, <1>11, WrittenFiles
<1>15. trees' \in [Workloads -> Trees] /\ clock' \in Nat /\ FilesAreDated'
  BY <1>1, <1>2, <1>13, <1>14, TreeReplaced
<1>16. /\ r.workload = w /\ r.machine = run.machine /\ r.report = run.report /\ r.wrapped = run.wrapped
       /\ r.root = Compiler(w) /\ r.success = ok /\ r.delta = delta
       /\ r.processes = IF wrapper /\ ~up THEN 2 ELSE 1
       /\ r.cacheState = None /\ r.compiled = ~up /\ r.by = installed[Compiler(w)]
       /\ r.content = trees[w].content /\ r.made = {post[f] : f \in DOMAIN post \ DepInfo}
  BY <1>6, <1>11, <1>12 DEF Recorded
<1>17. r \in Runs
  <2>1. r.made \in SUBSET Made
    BY <1>14, <1>16 DEF Over
  <2>2. PICK p \in {1, 2} : p = r.processes
    BY <1>16
  <2>3. PICK c \in BOOLEAN : c = r.compiled
    BY <1>16
  <2>4. PICK m \in SUBSET Made : m = r.made
    BY <2>1
  <2>5. r = NewRun(w, run.machine, run.report, run.wrapped, Compiler(w), ok, delta, p, c, installed[Compiler(w)],
                   trees[w].content, m)
    BY <1>11, <1>12, <1>16, <2>2, <2>3, <2>4 DEF Recorded, NewRun
  <2> QED BY <1>2, <1>3, <1>4, <1>14, <2>5, RunsAre
<1>18. \A f \in DOMAIN pre : f \in Files(w)
  BY <1>4 DEF Dated
<1>19. ok => {[content |-> m.content, by |-> m.by] : m \in r.made} = {[content |-> r.content, by |-> r.by]}
  <2> SUFFICES ASSUME ok PROVE {[content |-> m.content, by |-> m.by] : m \in r.made} = {[content |-> r.content, by |-> r.by]}
    OBVIOUS
  <2>1. ASSUME NEW f \in Files(w) \ DepInfo
        PROVE  f \in DOMAIN post /\ post[f].content = r.content /\ post[f].by = r.by
    <3>1. CASE ~up
      BY <1>5, <1>8, <1>9, <1>16, <3>1 DEF Overwritten
    <3>2. CASE up
      <4>1. f \in DOMAIN pre /\ pre[f].stamp > trees[w].edited /\ pre[f].by = installed[Compiler(w)]
        BY <1>6, <3>2 DEF UpToDate, Present
      <4>2. pre[f].content = trees[w].content
        BY <1>4, <4>1 DEF Dated
      <4>3. f \in DOMAIN post /\ post[f] = pre[f]
        BY <1>8, <1>9, <3>2, <4>1 DEF Overwritten
      <4> QED BY <1>16, <4>1, <4>2, <4>3
    <3> QED BY <3>1, <3>2
  <2>2. \A m \in r.made : m.content = r.content /\ m.by = r.by
    BY <1>14, <1>16, <2>1
  <2>3. PICK f \in Files(w) : f \notin DepInfo
    BY <1>2, FilesOf
  <2>4. post[f] \in r.made
    BY <1>16, <2>1, <2>3
  <2> QED BY <2>2, <2>4
<1>20. Toolchain(r) # None => Toolchain(r) = r.by
  <2> SUFFICES ASSUME Toolchain(r) # None PROVE Toolchain(r) = r.by
    OBVIOUS
  <2>1. r.report = Captured /\ r.wrapped = Wrapped(w)
    BY <1>1, <1>16 DEF RunIsPrepared, w
  <2>2. PICK used \in Declared : Toolchain(r) = installed[used]
                              /\ used = IF w = "nim-heavy-workspace" THEN Compiler(w) ELSE Wrapped(w)
    BY <1>16, <2>1 DEF Toolchain, Captured
  <2>3. used = Compiler(w)
    BY <2>2, NoneIsNoValue DEF Wrapped
  <2> QED BY <1>16, <2>2, <2>3
<1>21. run.label = "Cold" => Fresh(r)
  <2> SUFFICES ASSUME run.label = "Cold" PROVE Fresh(r)
    OBVIOUS
  <2>1. DOMAIN pre = {}
    BY <1>1 DEF RunIsPrepared, Present, w
  <2>2. ~up
    BY <1>2, <1>6, <2>1, FilesOf DEF UpToDate, Present
  <2> QED BY <1>14, <1>16, <2>1, <2>2 DEF Fresh
<1>22. Observed(r) /\ Labelled(r)
  <2>1. Labelled(r)
    BY <1>16, NoneIsNoValue DEF Labelled, Labels
  <2>2. DOMAIN r.delta \subseteq Files(r.workload)
    BY <1>14, <1>16
  <2>3. r.success => Evidence(r.delta) = IF r.compiled THEN Files(r.workload) ELSE DepInfo \cap Files(r.workload)
    BY <1>8, <1>14, <1>16
  <2> QED BY <1>16, <1>19, <1>20, <2>1, <2>2, <2>3 DEF Observed
<1>23. TypeOK'
  BY <1>1, <1>13, <1>15, <1>17, Appended DEF TypeOK
<1>24. RunIsPrepared' /\ RunIsRecorded'
  BY <1>1, <1>13, <1>17, <1>21, Appended DEF RunIsPrepared, RunIsRecorded, TypeOK
<1>25. ASSUME NEW i \in DOMAIN store' PROVE (Observed(store[i]) /\ Labelled(store[i]))'
  <2>1. (i \in DOMAIN store /\ store'[i] = store[i]) \/ store'[i] = r
    BY <1>13, <1>17, Appended DEF TypeOK
  <2>2. Observed(store'[i]) /\ Labelled(store'[i])
    BY <1>22, <2>1 DEF RunsAreTrue
  <2> QED BY <1>1, <2>2 DEF Observed, Labelled, Toolchain
<1> QED BY <1>15, <1>23, <1>24, <1>25 DEF RunsAreTrue

LEMMA LabelKeeps ==
  ASSUME MeasurementInv, Label
  PROVE  MeasurementInv'
<1> USE DEF MeasurementInv
<1> DEFINE n == Len(store)
<1>1. /\ at = "recorded" /\ at' = "idle" /\ wrapper' = wrapper /\ clock' = clock /\ trees' = trees
      /\ installed' = installed /\ selected' = selected /\ machine' = machine
  BY DEF Label, world
<1>2. n \in DOMAIN store /\ DOMAIN store = 1 .. n /\ n \in Nat /\ store[n] \in Runs /\ run.label \in Labels
  BY <1>1 DEF RunIsRecorded, TypeOK
<1>3. PICK violated \in BOOLEAN : violated = (run.label = "TrueNoop" /\ Violation(store[n]))
  OBVIOUS
<1>4. PICK r : r = [store[n] EXCEPT !.cacheState = run.label, !.violated = violated]
  OBVIOUS
<1>5. store' = [store EXCEPT ![n] = r]
  BY <1>2, <1>3, <1>4 DEF Label, TypeOK
<1>6. /\ r \in Runs /\ r.cacheState = run.label /\ r.violated = violated
      /\ r.workload = store[n].workload /\ r.report = store[n].report /\ r.wrapped = store[n].wrapped
      /\ r.root = store[n].root /\ r.success = store[n].success /\ r.delta = store[n].delta
      /\ r.compiled = store[n].compiled /\ r.by = store[n].by /\ r.content = store[n].content
      /\ r.made = store[n].made
  BY <1>2, <1>4 DEF Runs
<1>7. Observed(r)
  <2>1. Observed(store[n])
    BY <1>2 DEF RunsAreTrue
  <2>2. Toolchain(r) = Toolchain(store[n])
    BY <1>6 DEF Toolchain
  <2> QED BY <1>6, <2>1, <2>2 DEF Observed
<1>8. Labelled(r)
  <2>1. Violation(r) <=> Violation(store[n])
    BY <1>6 DEF Violation
  <2>2. Fresh(r) <=> Fresh(store[n])
    BY <1>6 DEF Fresh
  <2>3. run.label = "Cold" => Fresh(store[n])
    BY <1>1 DEF RunIsRecorded
  <2> QED BY <1>3, <1>6, <2>1, <2>2, <2>3 DEF Labelled
<1>9. store' \in Seq(Runs) /\ DOMAIN store' = DOMAIN store
  BY <1>2, <1>5, <1>6 DEF TypeOK
<1>10. TypeOK'
  BY <1>1, <1>9 DEF TypeOK
<1>11. ASSUME NEW i \in DOMAIN store' PROVE Observed(store'[i]) /\ Labelled(store'[i])
  BY <1>2, <1>5, <1>7, <1>8, <1>9 DEF RunsAreTrue
<1>12. FilesAreDated' /\ RunIsPrepared' /\ RunIsRecorded'
  BY <1>1 DEF FilesAreDated, RunIsPrepared, RunIsRecorded
<1>13. RunsAreTrue'
  BY <1>11 DEF RunsAreTrue
<1> QED BY <1>10, <1>12, <1>13

(* Every step keeps the invariant.                                         *)
THEOREM MeasurementInvariant == Spec => []MeasurementInv
<1>1. MeasurementInv /\ [Next]_vars => MeasurementInv'
  <2> SUFFICES ASSUME MeasurementInv, [Next]_vars PROVE MeasurementInv'
    OBVIOUS
  <2>1. CASE Change BY <2>1, ChangeKeeps
  <2>2. ASSUME NEW s \in Scenarios, Prepare(s[1], s[2]) \/ PrepareFails(s[1], s[2]) PROVE MeasurementInv'
    <3>1. s[1] \in Workloads /\ s[2] \in Labels BY PathsAssumption
    <3> QED BY <2>2, <3>1, PrepareKeeps, PrepareFailsKeeps
  <2>3. ASSUME NEW ok \in BOOLEAN, Build(ok) PROVE MeasurementInv' BY <2>3, BuildKeeps
  <2>4. CASE Label BY <2>4, LabelKeeps
  <2>5. CASE Abandon BY <2>5, AbandonKeeps
  <2>6. CASE UNCHANGED vars
    BY <2>6 DEF vars, world, MeasurementInv, TypeOK, FilesAreDated, RunIsPrepared, RunIsRecorded, RunsAreTrue,
                Captured, Wrapped, Compiler, Present
  <2> QED BY <2>1, <2>2, <2>3, <2>4, <2>5, <2>6 DEF Next, RunStep
<1> QED BY <1>1, InitHolds, PTL DEF Spec

-----------------------------------------------------------------------------
(* What follows *)

(* No label lies: a Run kept as a true no-op that succeeded compiled       *)
(* nothing, one kept as a cold build reused nothing.                       *)
THEOREM LabelsAreTrueHolds == Spec => []LabelsAreTrue
<1>1. MeasurementInv => LabelsAreTrue
  <2> SUFFICES ASSUME MeasurementInv, NEW i \in DOMAIN store
      PROVE  /\ store[i].cacheState = "TrueNoop" /\ store[i].success /\ ~store[i].violated => ~store[i].compiled
             /\ store[i].cacheState = "Cold" =>
                  store[i].compiled /\ States(store[i].delta, "Created") = DOMAIN store[i].delta
    BY DEF LabelsAreTrue, Range
  <2>1. Observed(store[i]) /\ Labelled(store[i]) /\ store[i].workload \in Workloads
    <3>1. store[i] \in Runs BY DEF MeasurementInv, TypeOK
    <3>2. store[i].workload \in Workloads BY <3>1 DEF Runs
    <3> QED BY <3>2 DEF MeasurementInv, RunsAreTrue
  <2>2. Files(store[i].workload) \ DepInfo # {}
    BY <2>1, FilesOf
  <2>3. ~Violation(store[i]) => Evidence(store[i].delta) \subseteq DepInfo
    BY DEF Violation, Evidence
  <2> QED BY <2>1, <2>2, <2>3 DEF Observed, Labelled, Fresh
<1> QED BY <1>1, MeasurementInvariant, PTL

(* Equal identities stand for equal outputs.                               *)
THEOREM ReuseIsSoundHolds == Spec => []ReuseIsSound
<1>1. MeasurementInv => ReuseIsSound
  <2> SUFFICES ASSUME MeasurementInv, NEW i \in DOMAIN store, NEW j \in DOMAIN store,
                      store[i].success, store[j].success, Reusable(store[i], store[j])
      PROVE  {[content |-> m.content, by |-> m.by] : m \in store[i].made}
               = {[content |-> m.content, by |-> m.by] : m \in store[j].made}
    BY DEF ReuseIsSound, Range
  <2>1. Observed(store[i]) /\ Observed(store[j])
    BY DEF MeasurementInv, RunsAreTrue
  <2>2. store[i].content = store[j].content /\ store[i].by = store[j].by
    BY <2>1 DEF Observed, Reusable
  <2> QED BY <2>1, <2>2 DEF Observed
<1> QED BY <1>1, MeasurementInvariant, PTL

(* The least and the greatest of two numbers add up to their sum.          *)
LEMMA BoundsOfPair ==
  ASSUME NEW a \in Nat, NEW b \in Nat
  PROVE  Bounds({a, b})[1] + Bounds({a, b})[2] = a + b
<1> DEFINE S == {a, b}
<1>1. \E x \in S : \A y \in S : x <= y
  OBVIOUS
<1>2. \E x \in S : \A y \in S : x >= y
  OBVIOUS
<1>3. Min(S) \in S /\ \A y \in S : Min(S) <= y
  BY <1>1 DEF Min
<1>4. Max(S) \in S /\ \A y \in S : Max(S) >= y
  BY <1>2 DEF Max
<1>5. Bounds(S)[1] = Min(S) /\ Bounds(S)[2] = Max(S)
  BY DEF Bounds
<1> QED BY <1>3, <1>4, <1>5

Count(r, state) == Cardinality(States(r.delta, state))

(* What a Run created or changed tells whether it compiled.                *)
LEMMA CountsTell ==
  ASSUME NEW r, r.workload \in Workloads, Observed(r), r.success
  PROVE  LET all  == Cardinality(Files(r.workload))
             some == Cardinality(DepInfo \cap Files(r.workload))
         IN  /\ Count(r, "Created") \in Nat /\ Count(r, "Modified") \in Nat
             /\ all \in Nat /\ some \in Nat /\ some < all
             /\ Count(r, "Created") + Count(r, "Modified") = IF r.compiled THEN all ELSE some
<1> DEFINE F == Files(r.workload)
           C == States(r.delta, "Created")
           M == States(r.delta, "Modified")
<1>1. IsFiniteSet(F) /\ F \ DepInfo # {}
  BY FilesOf
<1>2. C \subseteq F /\ M \subseteq F /\ C \cap M = {}
  BY DEF Observed, States
<1>3. C \cup M = IF r.compiled THEN F ELSE DepInfo \cap F
  BY DEF Observed, Evidence
<1> HIDE DEF F, C, M
<1>4. IsFiniteSet(C) /\ IsFiniteSet(M)
  BY <1>1, <1>2, FS_Subset
<1>5. Cardinality(C \cup M) = Cardinality(C) + Cardinality(M) - Cardinality({})
  BY <1>2, <1>4, FS_Union
<1>6. Cardinality({}) = 0
  BY FS_EmptySet
<1>7. Cardinality(C) \in Nat /\ Cardinality(M) \in Nat /\ Cardinality(F) \in Nat
  BY <1>1, <1>4, FS_CardinalityType
<1>8. IsFiniteSet(DepInfo \cap F) /\ Cardinality(DepInfo \cap F) < Cardinality(F)
  <2>1. DepInfo \cap F \in SUBSET F /\ DepInfo \cap F # F
    BY <1>1
  <2>2. IsFiniteSet(DepInfo \cap F) /\ Cardinality(DepInfo \cap F) <= Cardinality(F)
        /\ Cardinality(DepInfo \cap F) # Cardinality(F)
    BY <1>1, <2>1, FS_Subset
  <2>3. Cardinality(DepInfo \cap F) \in Nat
    BY <2>2, FS_CardinalityType
  <2> QED BY <1>7, <2>2, <2>3
<1>9. Cardinality(DepInfo \cap F) \in Nat
  BY <1>8, FS_CardinalityType
<1> QED BY <1>3, <1>5, <1>6, <1>7, <1>8, <1>9 DEF Count, F, C, M

(* A report is over one Run or two, and both agree with the first.         *)
LEMMA ReportIsAPair ==
  ASSUME NEW runs \in Reports, store \in Seq(Runs)
  PROVE  \E i, j \in DOMAIN store :
           /\ Range(runs) = {store[i], store[j]} /\ runs[1] = store[i]
           /\ store[j].workload = store[i].workload
           /\ Toolchain(store[j]) = Toolchain(store[i])
           /\ SameMachine(store[i], store[j])
<1>1. PICK ids \in Lists : runs = [k \in DOMAIN ids |-> store[ids[k]]] /\ Reportable(runs)
  BY DEF Reports
<1>2. CASE \E i \in DOMAIN store : ids = <<i>>
  <2>1. PICK i \in DOMAIN store : ids = <<i>>
    BY <1>2
  <2>2. DOMAIN runs = {1} /\ runs[1] = store[i]
    BY <1>1, <2>1
  <2>3. Range(runs) = {store[i], store[i]}
    BY <2>2 DEF Range
  <2>4. SameMachine(store[i], store[i])
    BY DEF SameMachine
  <2> QED BY <2>2, <2>3, <2>4
<1>3. CASE \E i, j \in DOMAIN store : ids = <<i, j>>
  <2>1. PICK i \in DOMAIN store, j \in DOMAIN store : ids = <<i, j>>
    BY <1>3
  <2>2. DOMAIN runs = {1, 2} /\ runs[1] = store[i] /\ runs[2] = store[j]
    BY <1>1, <2>1
  <2>3. Range(runs) = {store[i], store[j]}
    BY <2>2 DEF Range
  <2>4. /\ store[j].workload = store[i].workload /\ Toolchain(store[j]) = Toolchain(store[i])
        /\ SameMachine(store[i], store[j])
    BY <1>1, <2>2 DEF Reportable
  <2> QED BY <2>2, <2>3, <2>4
<1> QED BY <1>2, <1>3 DEF Lists

(* Verdicts compare successful Runs of one workload, made by one compiler  *)
(* on one machine, and without a note the same kinds of work.              *)
THEOREM VerdictsAreFairHolds == Spec => []VerdictsAreFair
<1> DEFINE Compiled(side) == {r.compiled : r \in Range(side)}
<1>1. ASSUME MeasurementInv, NEW v \in Verdicts
      PROVE  /\ \A r, q \in Range(v[1]) \cup Range(v[2]) :
                  /\ r.success /\ r.workload = q.workload /\ r.by = q.by
                  /\ None \notin {s.machine : s \in Range(v[1]) \cup Range(v[2])} => r.machine = q.machine
             /\ ~Confounded(v[1], v[2]) => Compiled(v[1]) = Compiled(v[2])
  <2>1. v[1] \in Reports /\ v[2] \in Reports /\ Comparable(v[1], v[2]) /\ store \in Seq(Runs)
    BY <1>1 DEF Verdicts, MeasurementInv, TypeOK
  <2>2. PICK a \in Range(store), b \in Range(store) :
          /\ Range(v[1]) = {a, b} /\ v[1][1] = a /\ b.workload = a.workload
          /\ Toolchain(b) = Toolchain(a) /\ SameMachine(a, b)
    BY <2>1, ReportIsAPair DEF Range
  <2>3. PICK c \in Range(store), d \in Range(store) :
          /\ Range(v[2]) = {c, d} /\ v[2][1] = c /\ d.workload = c.workload
          /\ Toolchain(d) = Toolchain(c) /\ SameMachine(c, d)
    BY <2>1, ReportIsAPair DEF Range
  <2>4. /\ a.workload = c.workload /\ SameMachine(a, c)
        /\ Toolchain(a) = Toolchain(c) /\ Toolchain(a) # None
        /\ \A r \in {a, b, c, d} : r.success
    BY <2>1, <2>2, <2>3 DEF Comparable
  <2>5. ASSUME NEW r \in Range(store)
        PROVE  Observed(r) /\ r.workload \in Workloads /\ r.compiled \in BOOLEAN
    <3>1. PICK i \in DOMAIN store : r = store[i]
      BY DEF Range
    <3>2. store[i] \in Runs
      BY <2>1
    <3>3. store[i].workload \in Workloads /\ store[i].compiled \in BOOLEAN
      BY <3>2 DEF Runs
    <3> QED BY <1>1, <3>1, <3>3 DEF MeasurementInv, RunsAreTrue
  <2>6. \A r, q \in {a, b, c, d} : r.success /\ r.workload = q.workload /\ Toolchain(r) = Toolchain(q)
    BY <2>2, <2>3, <2>4
  <2>7. \A r, q \in {a, b, c, d} : r.by = q.by
    <3>1. \A r \in {a, b, c, d} : r.by = Toolchain(a)
      BY <2>2, <2>3, <2>4, <2>5 DEF Observed
    <3> QED BY <3>1
  <2>8. None \notin {a.machine, b.machine, c.machine, d.machine} =>
          \A r, q \in {a, b, c, d} : r.machine = q.machine
    BY <2>2, <2>3, <2>4 DEF SameMachine
  <2>9. ASSUME ~Confounded(v[1], v[2]) PROVE Compiled(v[1]) = Compiled(v[2])
    <3> DEFINE all  == Cardinality(Files(a.workload))
               some == Cardinality(DepInfo \cap Files(a.workload))
    <3>1. ASSUME NEW r \in {a, b, c, d}
          PROVE  /\ Count(r, "Created") \in Nat /\ Count(r, "Modified") \in Nat
                 /\ all \in Nat /\ some \in Nat /\ some < all
                 /\ Count(r, "Created") + Count(r, "Modified") = IF r.compiled THEN all ELSE some
      <4>1. r \in Range(store) /\ r.workload = a.workload /\ r.success
        BY <2>2, <2>3, <2>6
      <4>2. Observed(r) /\ r.workload \in Workloads
        BY <2>5, <4>1
      <4> QED BY <4>1, <4>2, CountsTell
    <3>2. ASSUME NEW state \in {"Created", "Modified"}
          PROVE  Bounds({Count(a, state), Count(b, state)}) = Bounds({Count(c, state), Count(d, state)})
      <4>1. /\ {Cardinality(States(r.delta, state)) : r \in Range(v[1])} = {Count(a, state), Count(b, state)}
            /\ {Cardinality(States(r.delta, state)) : r \in Range(v[2])} = {Count(c, state), Count(d, state)}
        BY <2>2, <2>3 DEF Count
      <4>2. Profile(v[1]) = Profile(v[2])
        BY <2>9 DEF Confounded
      <4> QED BY <4>1, <4>2 DEF Profile
    <3>3. ASSUME NEW state \in {"Created", "Modified"}
          PROVE  Count(a, state) + Count(b, state) = Count(c, state) + Count(d, state)
      <4>1. \A r \in {a, b, c, d} : Count(r, state) \in Nat
        BY <3>1
      <4> QED BY <3>2, <4>1, BoundsOfPair
    <3> HIDE DEF all, some
    <3>4. Count(a, "Created") + Count(b, "Created") = Count(c, "Created") + Count(d, "Created")
      BY <3>3
    <3>5. Count(a, "Modified") + Count(b, "Modified") = Count(c, "Modified") + Count(d, "Modified")
      BY <3>3
    <3>6. {a.compiled, b.compiled} = {c.compiled, d.compiled}
      <4>1. \A r \in {a, b, c, d} : r.compiled \in BOOLEAN
        BY <2>2, <2>3, <2>5
      <4> QED BY <3>1, <3>4, <3>5, <4>1
    <3> QED BY <2>2, <2>3, <3>6
  <2> QED BY <2>2, <2>3, <2>6, <2>7, <2>8, <2>9
<1>2. MeasurementInv => VerdictsAreFair
  BY <1>1 DEF VerdictsAreFair
<1> QED BY <1>2, MeasurementInvariant, PTL

=============================================================================
