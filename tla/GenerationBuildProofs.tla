------------------------- MODULE GenerationBuildProofs -------------------------
(***************************************************************************)
(* What a generation delivers and what its Runs say of it, for any number  *)
(* of generations and edits, whatever plan the planner answers with, and   *)
(* wherever tools, writes or the process fail.                             *)
(***************************************************************************)
EXTENDS GenerationBuild, FiniteSetTheorems, SequenceTheorems, TLAPS

Docs == [success : BOOLEAN] \cup {None, Torn}
Run  == [action : {"nim", "rust"}, generation : Nat, built : Nat \cup {None},
         json : Docs, summary : Docs]

CopySteps == {"copy 1", "copy 2", "copy 3", "assembled"}
ToolSteps == {"tool", "record", "summarize", "judged", "verdict", "recorded"}
Executing == {"act"} \cup ToolSteps \cup CopySteps
Starting  == {"asked", "determined", "planned", "resolved"}
Steps     == {"idle"} \cup Starting \cup Executing

GenerationTypeOK ==
  /\ sources \in Nat /\ started \in Nat /\ started <= sources
  /\ generation \in Nat /\ store \in Seq(Run)
  /\ order \in Seq({"nim", "rust", "integrate"}) /\ position \in Nat \ {0}
  /\ at \in Steps /\ exit \in BOOLEAN

(* A result is there when the generation is over, and no Run is of a later *)
(* generation, nor of this one before its first action.                    *)
ResultsAtEnd ==
  /\ result \in {"ok", "failed"} => at = "idle"
  /\ at \in Starting => position = 1 /\ \A i \in DOMAIN store : store[i].generation < generation
  /\ \A i \in DOMAIN store : store[i].generation <= generation

(* What an accepted plan does: each action once, for LAMINARIA the assembly*)
(* last, and for a project only what needs a verified toolchain.           *)
WellOrdered ==
  /\ IsInjective(order)
  /\ \A id \in Range(order) \ {"integrate"} : Uses(id) \subseteq Needed
  /\ IF request.kind = "self"
     THEN Len(order) = 3 /\ order[3] = "integrate"
     ELSE "integrate" \notin Range(order)

Determined ==
  at \in (Starting \ {"asked"}) \cup Executing =>
    /\ needs \in [rust : BOOLEAN, nim : BOOLEAN, entry : BOOLEAN]
    /\ needs.entry => needs.nim
    /\ request.kind = "self" => needs.rust /\ needs.nim

Planned == at \in {"planned", "resolved"} \cup Executing => WellOrdered
Equipped == at \in {"resolved"} \cup Executing => toolchains = Needed

(* Where the steps of an action stand, and what the two documents of its   *)
(* Run say by then.                                                        *)
Recording ==
  /\ at \in ToolSteps => /\ position \in DOMAIN order /\ Action # "integrate"
                         /\ This \in DOMAIN store
                         /\ store[This].action = Action /\ store[This].generation = generation
  /\ at \in CopySteps => position \in DOMAIN order /\ Action = "integrate"
  /\ at \in {"verdict", "recorded"} => store[This].json = [success |-> Succeeded]
  /\ at = "recorded" => store[This].summary = [success |-> Succeeded]

Past(i) == \E j \in DOMAIN order : j < position /\ order[j] = store[i].action

(* Of this generation there are the Runs of the actions that are over, and *)
(* of the one that is not.                                                 *)
RunsAreTrue ==
  at \in Executing =>
    \A i \in DOMAIN store : store[i].generation = generation =>
      \/ Past(i) /\ store[i].json = Success /\ store[i].summary = Success
      \/ at \in ToolSteps /\ i = This

(* In a staging area that was cleared is what tools of this generation     *)
(* made, of the sources they were recorded with.                           *)
FilesAreOurs ==
  at \in Executing /\ cleared =>
    \A f \in DOMAIN staging : \E i \in DOMAIN store :
      /\ store[i].generation = generation /\ f \in Range(Makes[store[i].action])
      /\ ~(at = "tool" /\ i = This)
      /\ store[i].built = staging[f] /\ store[i].built \in started..sources

(* What Cargo reports is then what it made, all or nothing, and of a       *)
(* project whose actions are over all is there.                            *)
ReportsWhatItMade ==
  at \in ToolSteps \ {"tool"} /\ cleared =>
    /\ reported \in {{}, Expected}
    /\ Action = "nim" => reported = {}

ProjectFiles ==
  at \in Executing /\ cleared /\ request.kind # "self" =>
    \A j \in DOMAIN order : j < position => Range(Makes[order[j]]) \subseteq DOMAIN staging

(* A binary is copied when its turn is over, or it is missing, ...         *)
Same(f) == f \in DOMAIN staging /\ f \in DOMAIN top /\ top[f] = staging[f]

Copied ==
  at \in CopySteps =>
    \A k \in DOMAIN Names : (\E m \in k + 1 .. 4 : at = CopyAt(m)) => Same(Names[k]) \/ Names[k] \in missing

(* ... so that none is missing after the assembly.                         *)
Integrated ==
  at \in Executing /\ request.kind = "self" /\ position > 3 => \A k \in DOMAIN Names : Same(Names[k])

GenerationInv ==
  /\ GenerationTypeOK /\ ResultsAtEnd /\ Determined /\ Planned /\ Equipped /\ Recording
  /\ RunsAreTrue /\ FilesAreOurs /\ ReportsWhatItMade /\ ProjectFiles /\ Copied /\ Integrated
  /\ DeliversItsOwn /\ EvidenceAgrees

-----------------------------------------------------------------------------
(* The plan *)

LEMMA FunctionsAreSequences ==
  ASSUME NEW S, NEW n \in Nat, NEW T, S \subseteq T, NEW s \in [1..n -> S]
  PROVE  s \in Seq(T) /\ Len(s) = n
<1>1. s \in UNION {[1..m -> S] : m \in Nat}
  OBVIOUS
<1>2. s \in Seq(S)
  BY <1>1, SeqDef, Zenon
<1>3. s \in Seq(T)
  BY <1>2, SeqMonotonic
<1>4. DOMAIN s = 1..n /\ DOMAIN s = 1..Len(s) /\ Len(s) \in Nat
  BY <1>2, LenProperties
<1>5. Len(s) = n
  BY <1>4
<1> QED BY <1>3, <1>5

LEMMA EachOnce ==
  ASSUME NEW S, IsFiniteSet(S), NEW s \in [1..Cardinality(S) -> S], Range(s) = S
  PROVE  IsInjective(s)
<1>1. s \in Surjection(1..Cardinality(S), S)
  BY DEF Surjection, Range
<1>2. Cardinality(S) \in Nat /\ IsFiniteSet(1..Cardinality(S)) /\ Cardinality(1..Cardinality(S)) = Cardinality(S)
  BY FS_CardinalityType, FS_Interval
<1>3. s \in Injection(1..Cardinality(S), S)
  BY <1>1, <1>2, FS_SurjSameCardinalityImpliesInj
<1> QED BY <1>3 DEF Injection, IsInjective

LEMMA ThreeActions ==
  LET ids == {a.id : a \in ActionsOf(SelfInput.actions)}
  IN  /\ ids = {"nim", "rust", "integrate"} /\ IsFiniteSet(ids) /\ Cardinality(ids) = 3
      /\ \A id \in ids : ById(SelfInput.actions, id) \in {NimBuild, CargoBuild, Assembly}
                        /\ ById(SelfInput.actions, id).id = id
<1> DEFINE list == SelfInput.actions
           ids  == {a.id : a \in ActionsOf(list)}
<1>1. /\ DOMAIN list = 1..3
      /\ list[1] = NimBuild /\ list[2] = CargoBuild /\ list[3] = Assembly
  BY DEF SelfInput
<1>2. NimBuild.id = "nim" /\ CargoBuild.id = "rust" /\ Assembly.id = "integrate"
  BY DEF NimBuild, CargoBuild, Assembly, Work
<1>3. ActionsOf(list) = {NimBuild, CargoBuild, Assembly}
  BY <1>1 DEF ActionsOf, Range
<1>4. ids = {"nim", "rust", "integrate"}
  BY <1>2, <1>3
<1>5. IsFiniteSet(ids) /\ Cardinality(ids) = 3
  <2>1. IsFiniteSet({"nim"}) /\ Cardinality({"nim"}) = 1
    BY FS_Singleton
  <2>2. IsFiniteSet({"nim", "rust"}) /\ Cardinality({"nim", "rust"}) = 2
    <3>1. {"nim", "rust"} = {"nim"} \cup {"rust"} OBVIOUS
    <3> QED BY <2>1, <3>1, FS_AddElement
  <2>3. {"nim", "rust", "integrate"} = {"nim", "rust"} \cup {"integrate"}
    OBVIOUS
  <2>4. IsFiniteSet({"nim", "rust", "integrate"}) /\ Cardinality({"nim", "rust", "integrate"}) = 3
    BY <2>2, <2>3, FS_AddElement
  <2> QED BY <1>4, <2>4
<1>6. ASSUME NEW id \in ids PROVE ById(list, id) \in ActionsOf(list) /\ ById(list, id).id = id
  <2>1. \E i \in DOMAIN list : list[i].id = id /\ \A j \in DOMAIN list : list[j].id = id => j <= i
    <3>1. CASE id = "nim" BY <1>1, <1>2, <3>1
    <3>2. CASE id = "rust" BY <1>1, <1>2, <3>2
    <3>3. CASE id = "integrate" BY <1>1, <1>2, <3>3
    <3> QED BY <1>4, <3>1, <3>2, <3>3
  <2>2. PICK i \in DOMAIN list : ById(list, id) = list[i] /\ list[i].id = id
    BY <2>1 DEF ById
  <2> QED BY <2>2 DEF ActionsOf, Range
<1> QED BY <1>3, <1>4, <1>5, <1>6

(* Every plan for LAMINARIA that is accepted ends with the assembly.       *)
LEMMA AssemblyIsLast ==
  ASSUME NEW p \in Plans(SelfInput), Accepts(p, SelfInput)
  PROVE  /\ p.ordered \in Seq({"nim", "rust", "integrate"}) /\ IsInjective(p.ordered)
         /\ Len(p.ordered) = 3 /\ p.ordered[3] = "integrate"
<1> DEFINE ids == {"nim", "rust", "integrate"}
<1>1. /\ ids = {a.id : a \in ActionsOf(SelfInput.actions)}
      /\ IsFiniteSet(ids) /\ Cardinality(ids) = 3
  BY ThreeActions
<1>2. /\ DOMAIN p.actions = ids /\ p.ordered \in [1..3 -> ids]
      /\ \A id \in ids : p.actions[id] = ById(SelfInput.actions, id)
  <2> DEFINE actions == [id \in {a.id : a \in ActionsOf(SelfInput.actions)} |-> ById(SelfInput.actions, id)]
  <2>1. PICK o \in [1..Cardinality(DOMAIN actions) -> DOMAIN actions] :
          p = [genuine |-> TRUE, ordered |-> o, actions |-> actions, physical |-> <<>>]
    BY DEF Plans
  <2>2. DOMAIN actions = ids
    BY <1>1
  <2> QED BY <1>1, <2>1, <2>2
<1>3. \A id \in ids : p.actions[id] \in {NimBuild, CargoBuild, Assembly} /\ p.actions[id].id = id
  BY <1>1, <1>2, ThreeActions
<1>4. /\ \A id \in ids : p.actions[id].outputs = <<id>>
      /\ p.actions["integrate"].inputs = {"nim", "rust"}
  BY <1>3 DEF NimBuild, CargoBuild, Assembly, Work
<1>5. Range(p.ordered) = ids /\ \A x \in {"nim", "rust"} :
        x \in Outputs(Named(p)) /\ Place(p, Producer(Named(p), x)) < Place(p, "integrate")
  BY <1>2, <1>4 DEF Accepts, Ordered
<1>6. ASSUME NEW x \in {"nim", "rust"} PROVE Producer(Named(p), x) = x
  <2>1. PICK a \in Named(p) : x \in Range(a.outputs) /\ Producer(Named(p), x) = a.id
    BY <1>5 DEF Outputs, Producer
  <2>2. PICK id \in ids : a = [id |-> id, outputs |-> p.actions[id].outputs]
    BY <1>2 DEF Named
  <2>3. a.outputs = <<id>> /\ Range(<<id>>) = {id}
    BY <1>4, <2>2 DEF Range
  <2> QED BY <2>1, <2>2, <2>3
<1>7. \A id \in ids : Place(p, id) \in 1..3 /\ p.ordered[Place(p, id)] = id
  BY <1>2, <1>5 DEF Place, Range
<1>8. IsInjective(p.ordered)
  BY <1>1, <1>2, <1>5, EachOnce
<1>9. Place(p, "integrate") = 3
  <2>1. Place(p, "nim") < Place(p, "integrate") /\ Place(p, "rust") < Place(p, "integrate")
    BY <1>5, <1>6
  <2>2. Place(p, "nim") # Place(p, "rust")
    BY <1>7
  <2> QED BY <1>7, <2>1, <2>2
<1>10. p.ordered \in Seq(ids) /\ Len(p.ordered) = 3
  <2> HIDE DEF ids
  <2> QED BY <1>2, FunctionsAreSequences
<1>11. p.ordered[3] = "integrate"
  BY <1>7, <1>9
<1> QED BY <1>8, <1>10, <1>11

(* What is planned for a project is what needs a verified toolchain.       *)
LEMMA ProjectOrder ==
  ASSUME NEW n \in [rust : BOOLEAN, nim : BOOLEAN, entry : BOOLEAN], n.entry => n.nim,
         NEW p \in Plans(ProjectInput(n)), Accepts(p, ProjectInput(n))
  PROVE  /\ p.ordered \in Seq({"nim", "rust", "integrate"}) /\ IsInjective(p.ordered)
         /\ \A id \in Range(p.ordered) : id \in {"nim", "rust"} /\ n[id]
<1> DEFINE list == ProjectInput(n).actions
           ids  == {a.id : a \in ActionsOf(list)}
<1>1. /\ list = (IF n.rust THEN <<CargoBuild>> ELSE <<>>) \o (IF n.entry THEN <<NimBuild>> ELSE <<>>)
      /\ n.rust \in BOOLEAN /\ n.entry \in BOOLEAN
  BY DEF ProjectInput
<1>2. \A a \in ActionsOf(list) : (a = CargoBuild /\ n.rust) \/ (a = NimBuild /\ n.entry)
  <2>1. CASE n.rust /\ n.entry BY <1>1, <2>1 DEF ActionsOf, Range
  <2>2. CASE n.rust /\ ~n.entry BY <1>1, <2>2 DEF ActionsOf, Range
  <2>3. CASE ~n.rust /\ n.entry BY <1>1, <2>3 DEF ActionsOf, Range
  <2>4. CASE ~n.rust /\ ~n.entry BY <1>1, <2>4 DEF ActionsOf, Range
  <2> QED BY <1>1, <2>1, <2>2, <2>3, <2>4
<1>3. \A id \in ids : (id = "rust" /\ n.rust) \/ (id = "nim" /\ n.entry)
  BY <1>2 DEF CargoBuild, NimBuild, Work
<1>4. n.entry => n.nim
  OBVIOUS
<1>5. IsFiniteSet(ids)
  <2>1. IsFiniteSet({"rust", "nim"})
    <3>1. {"rust", "nim"} = {"rust"} \cup {"nim"} OBVIOUS
    <3>2. IsFiniteSet({"rust"}) BY FS_Singleton
    <3>3. IsFiniteSet({"rust"} \cup {"nim"}) BY <3>2, FS_AddElement
    <3> QED BY <3>1, <3>3
  <2> QED BY <1>3, <2>1, FS_Subset
<1>6. /\ p.ordered \in [1..Cardinality(ids) -> ids] /\ DOMAIN p.actions = ids
  BY DEF Plans
<1>7. Range(p.ordered) = ids /\ Cardinality(ids) \in Nat
  BY <1>5, <1>6, FS_CardinalityType DEF Accepts, Ordered
<1>8. IsInjective(p.ordered)
  BY <1>5, <1>6, <1>7, EachOnce
<1>9. p.ordered \in Seq({"nim", "rust", "integrate"})
  <2>1. ids \subseteq {"nim", "rust", "integrate"} BY <1>3
  <2> QED BY <1>6, <1>7, <2>1, FunctionsAreSequences
<1> QED BY <1>3, <1>4, <1>7, <1>8, <1>9

-----------------------------------------------------------------------------
(* The machine *)

LEMMA Files ==
  /\ Range(Makes["nim"]) = {"planner"} /\ Range(Makes["rust"]) = {"host", "wrapper"}
  /\ DOMAIN Names = 1..3 /\ Names[1] = "planner" /\ Names[2] = "host" /\ Names[3] = "wrapper"
<1>1. Makes["nim"] = <<"planner">> /\ Makes["rust"] = <<"host", "wrapper">>
  BY DEF Makes
<1>2. Makes.nim = <<"planner">> /\ Makes.rust = <<"host", "wrapper">>
  BY DEF Makes
<1>3. Names = <<"planner">> \o <<"host", "wrapper">>
  BY <1>2 DEF Names
<1> QED BY <1>1, <1>3 DEF Range

LEMMA StoredRuns ==
  ASSUME GenerationTypeOK
  PROVE  /\ Len(store) \in Nat /\ DOMAIN store = 1..Len(store)
         /\ \A i \in DOMAIN store : store[i] \in Run
<1>1. store \in Seq(Run)
  BY DEF GenerationTypeOK
<1> QED BY <1>1, LenProperties, ElementOfSeq

(* One Run is written again, the rest of the store stays.                  *)
LEMMA OneRun ==
  ASSUME NEW s \in Seq(Run), NEW k \in DOMAIN s, NEW new \in Run,
         new.action = s[k].action, new.generation = s[k].generation,
         NEW t, t = [s EXCEPT ![k] = new]
  PROVE  /\ t \in Seq(Run) /\ Len(t) = Len(s) /\ DOMAIN t = DOMAIN s /\ t[k] = new
         /\ \A i \in DOMAIN s : /\ t[i].action = s[i].action /\ t[i].generation = s[i].generation
                                /\ i # k => t[i] = s[i]
<1>1. /\ Len(s) \in Nat /\ s \in [1..Len(s) -> Run] /\ DOMAIN s = 1..Len(s)
  BY LenProperties
<1>2. t \in [1..Len(s) -> Run] /\ \A j \in 1..Len(s) : t[j] = IF j = k THEN new ELSE s[j]
  BY <1>1
<1>3. t \in [1..Len(s) -> Run] /\ Len(s) \in Nat /\ Run \subseteq Run
  BY <1>1, <1>2
<1>4. t \in Seq(Run) /\ Len(t) = Len(s)
  BY <1>3, FunctionsAreSequences
<1> QED BY <1>1, <1>2, <1>4

(* A document of one Run is written.                                       *)
LEMMA WrittenJson ==
  ASSUME GenerationTypeOK, NEW k \in DOMAIN store, NEW doc \in Docs,
         store' = [store EXCEPT ![k].json = doc]
  PROVE  /\ store' \in Seq(Run) /\ Len(store') = Len(store) /\ DOMAIN store' = DOMAIN store
         /\ store'[k].json = doc /\ store'[k].summary = store[k].summary /\ store'[k].built = store[k].built
         /\ \A i \in DOMAIN store : /\ store'[i].action = store[i].action
                                    /\ store'[i].generation = store[i].generation
                                    /\ i # k => store'[i] = store[i]
<1> DEFINE new == [store[k] EXCEPT !.json = doc]
<1>1. store \in Seq(Run) /\ store[k] \in Run
  BY StoredRuns DEF GenerationTypeOK
<1>2. /\ new \in Run /\ new.action = store[k].action /\ new.generation = store[k].generation
      /\ new.json = doc /\ new.summary = store[k].summary /\ new.built = store[k].built
  BY <1>1 DEF Run
<1>3. store' = [store EXCEPT ![k] = new]
  OBVIOUS
<1> HIDE DEF new
<1>4. /\ store' \in Seq(Run) /\ Len(store') = Len(store) /\ DOMAIN store' = DOMAIN store /\ store'[k] = new
      /\ \A i \in DOMAIN store : /\ store'[i].action = store[i].action
                                 /\ store'[i].generation = store[i].generation
                                 /\ i # k => store'[i] = store[i]
  BY <1>1, <1>2, <1>3, OneRun
<1> QED BY <1>2, <1>4

LEMMA WrittenSummary ==
  ASSUME GenerationTypeOK, NEW k \in DOMAIN store, NEW doc \in Docs,
         store' = [store EXCEPT ![k].summary = doc]
  PROVE  /\ store' \in Seq(Run) /\ Len(store') = Len(store) /\ DOMAIN store' = DOMAIN store
         /\ store'[k].summary = doc /\ store'[k].json = store[k].json /\ store'[k].built = store[k].built
         /\ \A i \in DOMAIN store : /\ store'[i].action = store[i].action
                                    /\ store'[i].generation = store[i].generation
                                    /\ i # k => store'[i] = store[i]
<1> DEFINE new == [store[k] EXCEPT !.summary = doc]
<1>1. store \in Seq(Run) /\ store[k] \in Run
  BY StoredRuns DEF GenerationTypeOK
<1>2. /\ new \in Run /\ new.action = store[k].action /\ new.generation = store[k].generation
      /\ new.summary = doc /\ new.json = store[k].json /\ new.built = store[k].built
  BY <1>1 DEF Run
<1>3. store' = [store EXCEPT ![k] = new]
  OBVIOUS
<1> HIDE DEF new
<1>4. /\ store' \in Seq(Run) /\ Len(store') = Len(store) /\ DOMAIN store' = DOMAIN store /\ store'[k] = new
      /\ \A i \in DOMAIN store : /\ store'[i].action = store[i].action
                                 /\ store'[i].generation = store[i].generation
                                 /\ i # k => store'[i] = store[i]
  BY <1>1, <1>2, <1>3, OneRun
<1> QED BY <1>2, <1>4

LEMMA WrittenBuilt ==
  ASSUME GenerationTypeOK, NEW k \in DOMAIN store, NEW version \in Nat,
         store' = [store EXCEPT ![k].built = version]
  PROVE  /\ store' \in Seq(Run) /\ Len(store') = Len(store) /\ DOMAIN store' = DOMAIN store
         /\ store'[k].built = version
         /\ \A i \in DOMAIN store : /\ store'[i].action = store[i].action
                                    /\ store'[i].generation = store[i].generation
                                    /\ i # k => store'[i] = store[i]
<1> DEFINE new == [store[k] EXCEPT !.built = version]
<1>1. store \in Seq(Run) /\ store[k] \in Run
  BY StoredRuns DEF GenerationTypeOK
<1>2. /\ new \in Run /\ new.action = store[k].action /\ new.generation = store[k].generation
      /\ new.built = version
  BY <1>1 DEF Run
<1>3. store' = [store EXCEPT ![k] = new]
  OBVIOUS
<1> HIDE DEF new
<1>4. /\ store' \in Seq(Run) /\ Len(store') = Len(store) /\ DOMAIN store' = DOMAIN store /\ store'[k] = new
      /\ \A i \in DOMAIN store : /\ store'[i].action = store[i].action
                                 /\ store'[i].generation = store[i].generation
                                 /\ i # k => store'[i] = store[i]
  BY <1>1, <1>2, <1>3, OneRun
<1> QED BY <1>2, <1>4

(* Out of its actions a generation has nothing to keep but its plan.       *)
LEMMA Outside ==
  ASSUME GenerationTypeOK', ResultsAtEnd', Determined', Planned', Equipped',
         at' \notin Executing, result' \notin {"ok", "failed"}
  PROVE  GenerationInv'
<1>1. at' \notin ToolSteps /\ at' \notin CopySteps /\ at' \notin {"verdict", "recorded"} /\ at' # "recorded"
  BY DEF Executing, ToolSteps
<1>2. Recording' /\ Copied' /\ ReportsWhatItMade'
  BY <1>1 DEF Recording, Copied, ReportsWhatItMade
<1>3. RunsAreTrue' /\ FilesAreOurs' /\ ProjectFiles' /\ Integrated'
  BY DEF RunsAreTrue, FilesAreOurs, ProjectFiles, Integrated
<1>4. DeliversItsOwn' /\ EvidenceAgrees'
  BY DEF DeliversItsOwn, EvidenceAgrees
<1> QED BY <1>2, <1>3, <1>4 DEF GenerationInv

LEMMA Starts == Init => GenerationInv
<1> SUFFICES ASSUME Init PROVE GenerationInv
  OBVIOUS
<1>1. store = <<>> /\ order = <<>> /\ at = "idle" /\ result = "none" /\ position = 1
  BY DEF Init
<1>2. GenerationTypeOK
  <2>1. store \in Seq(Run) /\ order \in Seq({"nim", "rust", "integrate"})
    BY <1>1, EmptySeq
  <2>2. sources = 0 /\ started = 0 /\ generation = 0 /\ exit = FALSE
    BY DEF Init
  <2>3. at \in Steps
    BY <1>1 DEF Steps
  <2>4. sources \in Nat /\ started \in Nat /\ started <= sources /\ generation \in Nat
    BY <2>2
  <2>5. position \in Nat \ {0}
    BY <1>1
  <2>6. exit \in BOOLEAN
    BY <2>2
  <2> QED BY <2>1, <2>3, <2>4, <2>5, <2>6 DEF GenerationTypeOK
<1>3. at \notin Executing /\ at \notin Starting
  BY <1>1 DEF Executing, Starting, ToolSteps, CopySteps
<1>4. ResultsAtEnd
  BY <1>1, <1>3, EmptySeq DEF ResultsAtEnd
<1>5. DeliversItsOwn /\ EvidenceAgrees
  BY <1>1 DEF DeliversItsOwn, EvidenceAgrees
<1>6. Determined /\ Planned /\ Equipped
  BY <1>1 DEF Determined, Planned, Equipped, Executing, Starting, ToolSteps, CopySteps
<1>7. at \notin ToolSteps /\ at \notin CopySteps /\ at \notin {"verdict", "recorded"} /\ at # "recorded"
  BY <1>1 DEF ToolSteps, CopySteps
<1>8. Recording /\ Copied /\ ReportsWhatItMade
  BY <1>7 DEF Recording, Copied, ReportsWhatItMade
<1>9. RunsAreTrue /\ FilesAreOurs /\ ProjectFiles /\ Integrated
  BY <1>3 DEF RunsAreTrue, FilesAreOurs, ProjectFiles, Integrated
<1> QED BY <1>2, <1>4, <1>5, <1>6, <1>8, <1>9 DEF GenerationInv

(* An edit raises the version, and what was built of an older one stays.   *)
LEMMA EditKeeps == ASSUME GenerationInv, Edit PROVE GenerationInv'
<1>1. /\ sources' = sources + 1
      /\ UNCHANGED <<disk, store, job, at, result, position, tool, missing, cleared>>
  BY DEF Edit
<1>2. /\ UNCHANGED <<staging, top, store, request, needs, order, toolchains, generation, started>>
      /\ UNCHANGED <<at, result, position, exit, reported, missing, cleared>>
  BY <1>1 DEF disk, job, tool
<1>3. GenerationTypeOK /\ ResultsAtEnd /\ Determined /\ Planned /\ Equipped
  BY DEF GenerationInv
<1>4. GenerationTypeOK'
  BY <1>1, <1>2, <1>3 DEF GenerationTypeOK
<1>5. ResultsAtEnd' /\ Determined' /\ Equipped'
  BY <1>2, <1>3 DEF ResultsAtEnd, Determined, Equipped, Needed
<1>6. Planned'
  BY <1>2, <1>3 DEF Planned, WellOrdered, Uses, OnPath, Needed
<1>7. Recording'
  BY <1>2 DEF GenerationInv, Recording, Action, This, Succeeded, Expected
<1>8. RunsAreTrue' /\ ReportsWhatItMade' /\ ProjectFiles'
  BY <1>2 DEF GenerationInv, RunsAreTrue, Past, This, ReportsWhatItMade, Expected, Action, ProjectFiles
<1>9. Copied' /\ Integrated'
  BY <1>2 DEF GenerationInv, Copied, Integrated, Same
<1>10. started..sources \subseteq started'..sources'
  BY <1>1, <1>2, <1>3 DEF GenerationTypeOK
<1>11. FilesAreOurs'
  BY <1>2, <1>10 DEF GenerationInv, FilesAreOurs, This
<1>12. DeliversItsOwn' /\ EvidenceAgrees'
  BY <1>2, <1>10 DEF GenerationInv, DeliversItsOwn, EvidenceAgrees, RunsNow, Uses, OnPath
<1> QED BY <1>4, <1>5, <1>6, <1>7, <1>8, <1>9, <1>11, <1>12 DEF GenerationInv

(* A generation that ends without a verdict leaves nothing to keep.        *)
LEMMA EndsWithout ==
  ASSUME GenerationInv, NEW how, how \notin {"ok", "failed"}, Ends(how),
         store' \in Seq(Run), DOMAIN store' = DOMAIN store,
         \A i \in DOMAIN store : store'[i].generation = store[i].generation
  PROVE  GenerationInv'
<1>1. /\ at' = "idle" /\ result' = how
      /\ UNCHANGED <<sources, request, needs, order, toolchains, generation, started>>
      /\ UNCHANGED <<position, exit, reported, missing, cleared>>
  BY DEF Ends, job, tool
<1>2. at' \notin Executing /\ at' \notin Starting /\ at' \in Steps
  BY <1>1 DEF Executing, Starting, Steps, ToolSteps, CopySteps
<1>3. GenerationTypeOK'
  BY <1>1, <1>2 DEF GenerationInv, GenerationTypeOK
<1>4. ResultsAtEnd'
  BY <1>1, <1>2 DEF GenerationInv, ResultsAtEnd
<1>5. Determined'
  BY <1>2 DEF Determined
<1>6. Planned' /\ Equipped'
  BY <1>1 DEF Planned, Equipped, Executing, ToolSteps, CopySteps
<1> QED BY <1>1, <1>2, <1>3, <1>4, <1>5, <1>6, Outside

LEMMA AskKeeps == ASSUME GenerationInv, NEW r, Ask(r) PROVE GenerationInv'
<1>1. /\ at' = "asked" /\ generation' = generation + 1 /\ started' = sources
      /\ result' = "none" /\ position' = 1
      /\ UNCHANGED <<sources, store, order, exit>>
  BY DEF Ask, tool
<1>2. at' \notin Executing /\ at' \in Starting /\ at' \in Steps
  BY <1>1 DEF Executing, Starting, Steps, ToolSteps, CopySteps
<1>3. GenerationTypeOK'
  BY <1>1, <1>2 DEF GenerationInv, GenerationTypeOK
<1>4. ResultsAtEnd'
  <2>1. \A i \in DOMAIN store : store[i].generation \in Nat
    BY StoredRuns DEF GenerationInv, Run
  <2> QED BY <1>1, <2>1 DEF GenerationInv, ResultsAtEnd, GenerationTypeOK
<1>5. Determined' /\ Planned' /\ Equipped'
  BY <1>1, <1>2 DEF Determined, Planned, Equipped
<1> QED BY <1>1, <1>2, <1>3, <1>4, <1>5, Outside

LEMMA DetermineKeeps == ASSUME GenerationInv, Determine PROVE GenerationInv'
<1>1. CASE Requirements(request) = {} /\ Ends("refused") /\ UNCHANGED <<disk, store>>
  BY <1>1, EndsWithout DEF GenerationInv, GenerationTypeOK
<1>2. ASSUME NEW n \in Requirements(request), needs' = n, request' = [kind |-> request.kind],
             Goto("determined"),
             UNCHANGED <<disk, store, order, toolchains, result, position, tool, missing, cleared>>
      PROVE  GenerationInv'
  <2>1. /\ at = "asked" /\ at' = "determined" /\ request'.kind = request.kind
        /\ UNCHANGED <<sources, generation, started, store, order, result, position, exit>>
    BY <1>2 DEF Determine, Goto, tool
  <2>2. at' \notin Executing /\ at' \in Starting /\ at' \in Steps /\ at \in Starting
    BY <2>1 DEF Executing, Starting, Steps, ToolSteps, CopySteps
  <2>3. GenerationTypeOK'
    BY <2>1, <2>2 DEF GenerationInv, GenerationTypeOK
  <2>4. ResultsAtEnd' /\ result' \notin {"ok", "failed"}
    BY <2>1, <2>2 DEF GenerationInv, ResultsAtEnd
  <2>5. Determined'
    BY <1>2, <2>1 DEF Determined, Requirements
  <2>6. Planned' /\ Equipped'
    BY <2>1, <2>2 DEF Planned, Equipped
  <2> QED BY <2>2, <2>3, <2>4, <2>5, <2>6, Outside
<1> QED BY <1>1, <1>2 DEF Determine

LEMMA PlanKeeps == ASSUME GenerationInv, Plan PROVE GenerationInv'
<1>1. CASE Ends("refused") /\ UNCHANGED <<disk, store>>
  BY <1>1, EndsWithout DEF GenerationInv, GenerationTypeOK
<1>2. ASSUME NEW p \in Plans(Input(request, needs)), Accepts(p, Input(request, needs)),
             order' = p.ordered, Goto("planned"),
             UNCHANGED <<disk, store, request, needs, toolchains, result, position, tool, missing, cleared>>
      PROVE  GenerationInv'
  <2>1. /\ at = "determined" /\ at' = "planned"
        /\ UNCHANGED <<sources, generation, started, store, request, needs, result, position, exit>>
    BY <1>2 DEF Plan, Goto, tool
  <2>2. at' \notin Executing /\ at' \in Starting /\ at' \in Steps /\ at \in Starting \ {"asked"}
    BY <2>1 DEF Executing, Starting, Steps, ToolSteps, CopySteps
  <2>3. /\ needs \in [rust : BOOLEAN, nim : BOOLEAN, entry : BOOLEAN]
        /\ needs.entry => needs.nim
        /\ request.kind = "self" => needs.rust /\ needs.nim
    BY <2>2 DEF GenerationInv, Determined
  <2>4. order' \in Seq({"nim", "rust", "integrate"}) /\ WellOrdered'
    <3>1. CASE request.kind = "self"
      <4>1. /\ order' \in Seq({"nim", "rust", "integrate"}) /\ IsInjective(order')
            /\ Len(order') = 3 /\ order'[3] = "integrate"
        BY <1>2, <3>1, AssemblyIsLast DEF Input
      <4>2. \A id \in Range(order') \ {"integrate"} : id \in {"nim", "rust"}
        BY <4>1, LenProperties DEF Range
      <4>3. \A id \in Range(order') \ {"integrate"} : Uses(id)' \subseteq Needed'
        BY <2>1, <2>3, <3>1, <4>2 DEF Uses, OnPath, Needed, Families
      <4> QED BY <2>1, <3>1, <4>1, <4>3 DEF WellOrdered
    <3>2. CASE request.kind # "self"
      <4>1. /\ order' \in Seq({"nim", "rust", "integrate"}) /\ IsInjective(order')
            /\ \A id \in Range(order') : id \in {"nim", "rust"} /\ needs[id]
        BY <1>2, <2>3, <3>2, ProjectOrder DEF Input
      <4>2. \A id \in Range(order') \ {"integrate"} : Uses(id)' \subseteq Needed'
        BY <2>1, <2>3, <4>1 DEF Uses, OnPath, Needed, Families
      <4>3. "integrate" \notin Range(order')
        BY <4>1
      <4> QED BY <2>1, <3>2, <4>1, <4>2, <4>3 DEF WellOrdered
    <3> QED BY <3>1, <3>2
  <2>5. GenerationTypeOK'
    BY <2>1, <2>2, <2>4 DEF GenerationInv, GenerationTypeOK
  <2>6. ResultsAtEnd' /\ result' \notin {"ok", "failed"}
    BY <2>1, <2>2, <1>2 DEF GenerationInv, ResultsAtEnd, Starting
  <2>7. Determined' /\ Planned' /\ Equipped'
    BY <2>1, <2>2, <2>3, <2>4 DEF Determined, Planned, Equipped
  <2> QED BY <2>2, <2>5, <2>6, <2>7, Outside
<1> QED BY <1>1, <1>2 DEF Plan

LEMMA ResolveKeeps == ASSUME GenerationInv, Resolve PROVE GenerationInv'
<1>1. UNCHANGED <<disk, store>> /\ at = "planned"
  BY DEF Resolve
<1>2. CASE Ends("refused")
  BY <1>1, <1>2, EndsWithout DEF GenerationInv, GenerationTypeOK
<1>3. CASE /\ toolchains' = Needed /\ Goto("resolved")
           /\ UNCHANGED <<request, needs, order, result, position, tool, missing, cleared>>
  <2>1. /\ at' = "resolved"
        /\ UNCHANGED <<sources, generation, started, store, request, needs, order, result, position, exit>>
    BY <1>1, <1>3 DEF Goto, tool
  <2>2. /\ at' \notin Executing /\ at' \in Starting /\ at' \in Steps
        /\ at \in Starting \ {"asked"}
    BY <1>1, <2>1 DEF Executing, Starting, Steps, ToolSteps, CopySteps
  <2>3. GenerationTypeOK'
    BY <2>1, <2>2 DEF GenerationInv, GenerationTypeOK
  <2>4. ResultsAtEnd' /\ result' \notin {"ok", "failed"}
    BY <1>1, <2>1, <2>2 DEF GenerationInv, ResultsAtEnd
  <2>5. Determined'
    BY <2>1, <2>2 DEF GenerationInv, Determined
  <2>6. Planned'
    BY <1>1, <2>1 DEF GenerationInv, Planned, WellOrdered, Uses, OnPath, Needed
  <2>7. Equipped'
    BY <1>3, <2>1 DEF Equipped, Needed
  <2> QED BY <2>2, <2>3, <2>4, <2>5, <2>6, <2>7, Outside
<1> QED BY <1>2, <1>3 DEF Resolve

LEMMA AbortKeeps == ASSUME GenerationInv, Abort PROVE GenerationInv'
<1>1. Ends("aborted") /\ store \in Seq(Run)
  BY DEF Abort, GenerationInv, GenerationTypeOK
<1>2. CASE UNCHANGED store
  BY <1>1, <1>2, EndsWithout
<1>3. CASE at \in DOMAIN Written /\ store' = [store EXCEPT ![This][Written[at]] = Torn]
  <2>1. at \in ToolSteps /\ (Written[at] = "json" \/ Written[at] = "summary")
    BY <1>3 DEF Written, ToolSteps
  <2>2. This \in DOMAIN store
    BY <2>1 DEF GenerationInv, Recording
  <2>3. Torn \in Docs
    BY DEF Docs
  <2>4. /\ store' \in Seq(Run) /\ DOMAIN store' = DOMAIN store
        /\ \A i \in DOMAIN store : store'[i].generation = store[i].generation
    <3>1. GenerationTypeOK
      BY DEF GenerationInv
    <3>2. CASE Written[at] = "json"
      BY <1>3, <2>2, <2>3, <3>1, <3>2, WrittenJson
    <3>3. CASE Written[at] = "summary"
      BY <1>3, <2>2, <2>3, <3>1, <3>3, WrittenSummary
    <3> QED BY <2>1, <3>2, <3>3
  <2> QED BY <1>1, <2>4, EndsWithout
<1>4. UNCHANGED store \/ (at \in DOMAIN Written /\ store' = [store EXCEPT ![This][Written[at]] = Torn])
  BY DEF Abort
<1> QED BY <1>2, <1>3, <1>4

(* The summary made again of a record says what the record says.           *)
LEMMA RegenerateKeeps == ASSUME GenerationInv, NEW r \in DOMAIN store, Regenerate(r) PROVE GenerationInv'
<1>1. /\ at = "idle" /\ store[r].json \notin {None, Torn}
      /\ store' = [store EXCEPT ![r].summary = store[r].json]
      /\ UNCHANGED <<sources, disk, job, at, result, position, tool, missing, cleared>>
  BY DEF Regenerate
<1>2. /\ UNCHANGED <<sources, staging, top, request, needs, order, toolchains, generation, started>>
      /\ UNCHANGED <<at, result, position, exit, reported, missing, cleared>>
  BY <1>1 DEF disk, job, tool
<1>3. at' \notin Executing /\ at' \notin Starting /\ at \notin Executing
  BY <1>1, <1>2 DEF Executing, Starting, ToolSteps, CopySteps
<1>4. GenerationTypeOK /\ store[r].json \in Docs
  BY StoredRuns DEF GenerationInv, Run
<1>5. /\ store' \in Seq(Run) /\ Len(store') = Len(store) /\ DOMAIN store' = DOMAIN store
      /\ store'[r].summary = store[r].json /\ store'[r].json = store[r].json /\ store'[r].built = store[r].built
      /\ \A i \in DOMAIN store : /\ store'[i].action = store[i].action
                                 /\ store'[i].generation = store[i].generation
                                 /\ i # r => store'[i] = store[i]
  BY <1>1, <1>4, WrittenSummary
<1>6. ASSUME NEW i \in DOMAIN store PROVE store'[i].built = store[i].built
  <2>1. CASE i = r BY <1>5, <2>1
  <2>2. CASE i # r
    <3>1. store'[i] = store[i] BY <1>5, <2>2
    <3> QED BY <3>1
  <2> QED BY <2>1, <2>2
<1>7. GenerationTypeOK'
  BY <1>2, <1>5 DEF GenerationInv, GenerationTypeOK
<1>8. ResultsAtEnd'
  BY <1>1, <1>2, <1>3, <1>5 DEF GenerationInv, ResultsAtEnd
<1>9. Determined' /\ Planned' /\ Equipped'
  BY <1>1, <1>2 DEF Determined, Planned, Equipped, Executing, Starting, ToolSteps, CopySteps
<1>10. ASSUME NEW i \in DOMAIN store, store[i].json = store[i].summary
       PROVE  store'[i].json = store[i].json /\ store'[i].summary = store[i].summary
  <2>1. CASE i = r BY <1>5, <1>10, <2>1
  <2>2. CASE i # r
    <3>1. store'[i] = store[i] BY <1>5, <2>2
    <3> QED BY <3>1
  <2> QED BY <2>1, <2>2
<1>11. DeliversItsOwn'
  <2> SUFFICES ASSUME result = "ok", cleared, NEW id \in Range(order) \ {"integrate"}, NEW f \in Range(Makes[id])
               PROVE  LET delivered == IF request.kind = "self" THEN top ELSE staging
                      IN  /\ Uses(id)' \subseteq toolchains
                          /\ f \in DOMAIN delivered /\ delivered[f] \in started..sources
                          /\ \E q \in RunsNow' : /\ q.action = id /\ q.json = Success /\ q.summary = Success
                                                 /\ q.built = delivered[f]
    BY <1>2 DEF DeliversItsOwn
  <2> DEFINE delivered == IF request.kind = "self" THEN top ELSE staging
  <2>1. /\ Uses(id) \subseteq toolchains /\ f \in DOMAIN delivered /\ delivered[f] \in started..sources
        /\ \E q \in RunsNow : /\ q.action = id /\ q.json = Success /\ q.summary = Success
                              /\ q.built = delivered[f]
    BY DEF GenerationInv, DeliversItsOwn
  <2>2. PICK i \in DOMAIN store :
          /\ store[i].generation = generation /\ store[i].action = id
          /\ store[i].json = Success /\ store[i].summary = Success /\ store[i].built = delivered[f]
    BY <2>1 DEF RunsNow, Range
  <2>3. /\ store'[i].generation = generation /\ store'[i].action = id
        /\ store'[i].json = Success /\ store'[i].summary = Success /\ store'[i].built = delivered[f]
    <3>1. store'[i].generation = generation /\ store'[i].action = id
      BY <1>5, <2>2
    <3>2. store[i].json = store[i].summary
      BY <2>2
    <3>3. store'[i].json = Success /\ store'[i].summary = Success
      BY <1>10, <2>2, <3>2
    <3>4. store'[i].built = delivered[f]
      BY <1>6, <2>2
    <3> QED BY <3>1, <3>3, <3>4
  <2>4. store'[i] \in RunsNow'
    BY <1>2, <1>5, <2>3 DEF RunsNow, Range
  <2>5. Uses(id)' = Uses(id)
    BY <1>2 DEF Uses, OnPath
  <2> QED BY <2>1, <2>3, <2>4, <2>5
<1>12. EvidenceAgrees'
  <2> SUFFICES ASSUME result \in {"ok", "failed"}, NEW i \in DOMAIN store', store'[i].generation = generation
               PROVE  /\ store'[i].json = store'[i].summary
                      /\ store'[i].json = Success <=> (result = "ok" \/ store'[i].action # order[position])
    BY <1>2 DEF EvidenceAgrees, RunsNow, Range
  <2>1. i \in DOMAIN store /\ store[i].generation = generation
    BY <1>2, <1>5
  <2>2. store[i] \in RunsNow
    BY <2>1 DEF RunsNow, Range
  <2>3. /\ store[i].json = store[i].summary
        /\ store[i].json = Success <=> (result = "ok" \/ store[i].action # order[position])
    BY <2>2 DEF GenerationInv, EvidenceAgrees
  <2>4. store'[i].json = store[i].json /\ store'[i].summary = store[i].summary
    BY <1>10, <2>1, <2>3
  <2>5. store'[i].action = store[i].action
    BY <1>5, <2>1
  <2> QED BY <2>3, <2>4, <2>5
<1>13. Recording' /\ RunsAreTrue' /\ FilesAreOurs' /\ ReportsWhatItMade' /\ ProjectFiles' /\ Copied' /\ Integrated'
  <2>1. at' \notin ToolSteps /\ at' \notin CopySteps /\ at' \notin {"verdict", "recorded"} /\ at' # "recorded"
    BY <1>3 DEF Executing, ToolSteps
  <2> QED BY <1>3, <2>1 DEF Recording, RunsAreTrue, FilesAreOurs, ReportsWhatItMade, ProjectFiles, Copied, Integrated
<1> QED BY <1>7, <1>8, <1>9, <1>11, <1>12, <1>13 DEF GenerationInv

-----------------------------------------------------------------------------
(* The actions of the plan *)

(* While the plan is carried out it stays, and there is no result yet.     *)
LEMMA Executes ==
  ASSUME GenerationInv, at \in {"resolved"} \cup Executing, at' \in Executing,
         UNCHANGED <<sources, request, needs, order, toolchains, generation, started, result>>,
         store' \in Seq(Run), \A i \in DOMAIN store' : store'[i].generation <= generation,
         position' \in Nat \ {0}, exit' \in BOOLEAN
  PROVE  /\ GenerationTypeOK' /\ ResultsAtEnd' /\ Determined' /\ Planned' /\ Equipped'
         /\ DeliversItsOwn' /\ EvidenceAgrees'
<1>1. /\ UNCHANGED <<sources, request, needs, order, toolchains, generation, started, result>>
      /\ store' \in Seq(Run) /\ \A i \in DOMAIN store' : store'[i].generation <= generation
  OBVIOUS
<1>2. /\ at \in {"resolved"} \cup Executing /\ at # "idle"
      /\ at' \in Executing /\ at' \notin Starting /\ at' \in Steps
  BY DEF Executing, Starting, Steps, ToolSteps, CopySteps
<1>3. result' \notin {"ok", "failed"}
  BY <1>1, <1>2 DEF GenerationInv, ResultsAtEnd
<1>5. GenerationTypeOK'
  BY <1>1, <1>2 DEF GenerationInv, GenerationTypeOK
<1>6. ResultsAtEnd'
  BY <1>1, <1>2, <1>3 DEF ResultsAtEnd
<1>7. Determined'
  BY <1>1, <1>2 DEF GenerationInv, Determined, Starting
<1>8. Planned'
  BY <1>1, <1>2 DEF GenerationInv, Planned, WellOrdered, Uses, OnPath, Needed
<1>9. Equipped'
  BY <1>1, <1>2 DEF GenerationInv, Equipped, Needed
<1>10. DeliversItsOwn' /\ EvidenceAgrees'
  BY <1>3 DEF DeliversItsOwn, EvidenceAgrees
<1> QED BY <1>5, <1>6, <1>7, <1>8, <1>9, <1>10

(* A generation that ends with a verdict keeps that verdict true.          *)
LEMMA EndsWith ==
  ASSUME GenerationInv, NEW how, Ends(how), UNCHANGED <<disk, store>>, DeliversItsOwn', EvidenceAgrees'
  PROVE  GenerationInv'
<1>1. /\ at' = "idle" /\ result' = how
      /\ UNCHANGED <<sources, request, needs, order, toolchains, generation, started>>
      /\ UNCHANGED <<store, position, exit, reported, missing, cleared>>
  BY DEF Ends, job, tool
<1>2. /\ at' \notin Executing /\ at' \notin Starting /\ at' \in Steps
      /\ at' \notin ToolSteps /\ at' \notin CopySteps /\ at' \notin {"verdict", "recorded"} /\ at' # "recorded"
  BY <1>1 DEF Executing, Starting, Steps, ToolSteps, CopySteps
<1>3. GenerationTypeOK'
  BY <1>1, <1>2 DEF GenerationInv, GenerationTypeOK
<1>4. ResultsAtEnd'
  BY <1>1, <1>2 DEF GenerationInv, ResultsAtEnd
<1>5. Determined' /\ Planned' /\ Equipped'
  BY <1>1, <1>2 DEF Determined, Planned, Equipped, Executing, ToolSteps, CopySteps
<1>6. Recording' /\ Copied' /\ ReportsWhatItMade'
  BY <1>2 DEF Recording, Copied, ReportsWhatItMade
<1>7. RunsAreTrue' /\ FilesAreOurs' /\ ProjectFiles' /\ Integrated'
  BY <1>2 DEF RunsAreTrue, FilesAreOurs, ProjectFiles, Integrated
<1> QED BY <1>3, <1>4, <1>5, <1>6, <1>7 DEF GenerationInv

LEMMA ClearKeeps == ASSUME GenerationInv, Clear PROVE GenerationInv'
<1>1. PICK left \in SUBSET DOMAIN staging :
        staging' = [f \in left |-> staging[f]] /\ cleared' = (left = {})
  BY DEF Clear
<1>2. /\ at = "resolved" /\ at' = "act"
      /\ UNCHANGED <<sources, request, needs, order, toolchains, generation, started, result, store>>
      /\ UNCHANGED <<position, exit>>
  BY DEF Clear, Goto, tool
<1>3. /\ at \in {"resolved"} \cup Executing /\ at' \in Executing /\ at \in Starting
      /\ at' \notin ToolSteps /\ at' \notin CopySteps /\ at' \notin {"verdict", "recorded"} /\ at' # "recorded"
  BY <1>2 DEF Executing, Starting, ToolSteps, CopySteps
<1>4. GenerationTypeOK
  BY DEF GenerationInv
<1>5. /\ position' \in Nat \ {0} /\ exit' \in BOOLEAN /\ store' \in Seq(Run)
      /\ \A i \in DOMAIN store' : store'[i].generation <= generation
  BY <1>2, <1>4 DEF GenerationTypeOK, GenerationInv, ResultsAtEnd
<1>6. /\ GenerationTypeOK' /\ ResultsAtEnd' /\ Determined' /\ Planned' /\ Equipped'
      /\ DeliversItsOwn' /\ EvidenceAgrees'
  BY <1>2, <1>3, <1>5, Executes
<1>7. Recording' /\ Copied' /\ ReportsWhatItMade'
  BY <1>3 DEF Recording, Copied, ReportsWhatItMade
<1>8. position = 1 /\ \A i \in DOMAIN store : store[i].generation < generation
  BY <1>3 DEF GenerationInv, ResultsAtEnd
<1>9. RunsAreTrue'
  <2> SUFFICES ASSUME NEW i \in DOMAIN store, store[i].generation = generation PROVE FALSE
    BY <1>2 DEF RunsAreTrue
  <2>1. store[i].generation \in Nat /\ generation \in Nat
    BY <1>4, StoredRuns DEF Run, GenerationTypeOK
  <2> QED BY <1>8, <2>1
<1>10. FilesAreOurs'
  BY <1>1 DEF FilesAreOurs
<1>11. ProjectFiles' /\ Integrated'
  <2>1. order \in Seq({"nim", "rust", "integrate"})
    BY <1>4 DEF GenerationTypeOK
  <2>2. DOMAIN order \subseteq Nat \ {0}
    BY <2>1, LenProperties
  <2>3. position' = 1 /\ DOMAIN order' = DOMAIN order
    BY <1>2, <1>8
  <2> QED BY <2>2, <2>3 DEF ProjectFiles, Integrated
<1> QED BY <1>6, <1>7, <1>9, <1>10, <1>11 DEF GenerationInv

(* A Run of its own is appended.                                           *)
LEMMA Appended ==
  ASSUME NEW s \in Seq(Run), NEW new \in Run, NEW t, t = Append(s, new)
  PROVE  /\ t \in Seq(Run) /\ Len(t) = Len(s) + 1 /\ Len(s) \in Nat /\ DOMAIN t = 1..Len(t)
         /\ t[Len(t)] = new
         /\ \A i \in DOMAIN t : i # Len(t) => i \in DOMAIN s /\ t[i] = s[i]
         /\ \A i \in DOMAIN s : i \in DOMAIN t /\ i # Len(t) /\ t[i] = s[i]
<1>1. /\ t \in Seq(Run) /\ Len(t) = Len(s) + 1 /\ t[Len(s) + 1] = new
      /\ \A i \in 1..Len(s) : t[i] = s[i]
  BY AppendProperties
<1>2. /\ Len(s) \in Nat /\ DOMAIN s = 1..Len(s) /\ DOMAIN t = 1..Len(t)
  BY <1>1, LenProperties
<1> QED BY <1>1, <1>2

LEMMA LaunchKeeps == ASSUME GenerationInv, Launch PROVE GenerationInv'
<1> DEFINE new == [action |-> Action, generation |-> generation,
                   built |-> None, json |-> None, summary |-> None]
<1>1. /\ at = "act" /\ at' = "tool" /\ position \in DOMAIN order /\ Action # "integrate"
      /\ store' = Append(store, new)
  BY DEF Launch, Goto
<1>2. /\ UNCHANGED <<sources, request, needs, order, toolchains, generation, started, result>>
      /\ UNCHANGED <<staging, top, position, exit, reported, missing, cleared>>
  BY DEF Launch, Goto, disk, tool
<1>3. /\ at \in Executing /\ at' \in Executing /\ at' \in ToolSteps /\ at \notin ToolSteps
      /\ at' \notin CopySteps /\ at' \notin {"verdict", "recorded"} /\ at' # "recorded"
  BY <1>1 DEF Executing, ToolSteps, CopySteps
<1>4. GenerationTypeOK
  BY DEF GenerationInv
<1>5. new \in Run /\ new.action = Action /\ new.generation = generation
  <2>1. Action \in {"nim", "rust"}
    BY <1>1, <1>4, ElementOfSeq, LenProperties DEF GenerationTypeOK, Action
  <2> QED BY <1>4, <2>1 DEF Run, Docs, GenerationTypeOK
<1> HIDE DEF new
<1>6. /\ store' \in Seq(Run) /\ Len(store') \in Nat /\ DOMAIN store' = 1..Len(store') /\ Len(store') > 0
      /\ store'[Len(store')] = new
  BY <1>1, <1>4, <1>5, Appended DEF GenerationTypeOK
<1>7. \A i \in DOMAIN store' : i # Len(store') => i \in DOMAIN store /\ store'[i] = store[i]
  BY <1>1, <1>4, <1>5, Appended DEF GenerationTypeOK
<1>8. \A i \in DOMAIN store : i \in DOMAIN store' /\ i # Len(store') /\ store'[i] = store[i]
  BY <1>1, <1>4, <1>5, Appended DEF GenerationTypeOK
<1>9. \A i \in DOMAIN store' : store'[i].generation <= generation
  <2> SUFFICES ASSUME NEW i \in DOMAIN store' PROVE store'[i].generation <= generation
    OBVIOUS
  <2>1. CASE i = Len(store') BY <1>4, <1>5, <1>6, <2>1 DEF GenerationTypeOK
  <2>2. CASE i # Len(store') BY <1>7, <2>2 DEF GenerationInv, ResultsAtEnd
  <2> QED BY <2>1, <2>2
<1>10. position' \in Nat \ {0} /\ exit' \in BOOLEAN
  BY <1>2, <1>4 DEF GenerationTypeOK
<1>11. /\ GenerationTypeOK' /\ ResultsAtEnd' /\ Determined' /\ Planned' /\ Equipped'
       /\ DeliversItsOwn' /\ EvidenceAgrees'
  BY <1>2, <1>3, <1>6, <1>9, <1>10, Executes
<1>12. Recording'
  <2>1. This' = Len(store') /\ Action' = Action
    BY <1>2 DEF This, Action
  <2> QED BY <1>1, <1>2, <1>3, <1>5, <1>6, <2>1 DEF Recording
<1>13. RunsAreTrue'
  <2> SUFFICES ASSUME NEW i \in DOMAIN store', store'[i].generation = generation, i # Len(store')
               PROVE  Past(i)' /\ store'[i].json = Success /\ store'[i].summary = Success
    BY <1>2, <1>3 DEF RunsAreTrue, This
  <2>1. i \in DOMAIN store /\ store'[i] = store[i]
    BY <1>7
  <2>2. Past(i) /\ store[i].json = Success /\ store[i].summary = Success
    BY <1>3, <2>1 DEF GenerationInv, RunsAreTrue
  <2>3. Past(i)'
    BY <1>2, <2>1, <2>2 DEF Past
  <2> QED BY <2>1, <2>2, <2>3
<1>14. FilesAreOurs'
  <2> SUFFICES ASSUME cleared, NEW f \in DOMAIN staging
               PROVE  \E i \in DOMAIN store' :
                        /\ store'[i].generation = generation /\ f \in Range(Makes[store'[i].action])
                        /\ i # Len(store')
                        /\ store'[i].built = staging[f] /\ store'[i].built \in started..sources
    BY <1>2 DEF FilesAreOurs, This
  <2>1. PICK i \in DOMAIN store :
          /\ store[i].generation = generation /\ f \in Range(Makes[store[i].action])
          /\ store[i].built = staging[f] /\ store[i].built \in started..sources
    BY <1>3 DEF GenerationInv, FilesAreOurs
  <2>2. i \in DOMAIN store' /\ i # Len(store') /\ store'[i] = store[i]
    BY <1>8
  <2> QED BY <2>1, <2>2
<1>15. ReportsWhatItMade' /\ Copied'
  BY <1>1, <1>3 DEF ReportsWhatItMade, Copied
<1>16. ProjectFiles' /\ Integrated'
  BY <1>2, <1>3 DEF GenerationInv, ProjectFiles, Integrated, Same
<1> QED BY <1>11, <1>12, <1>13, <1>14, <1>15, <1>16 DEF GenerationInv

(* In a cleared staging area there is no file of the action yet.           *)
LEMMA NothingYet ==
  ASSUME GenerationInv, at = "tool", cleared
  PROVE  Expected \cap DOMAIN staging = {}
<1> SUFFICES ASSUME NEW f \in DOMAIN staging, f \in Expected PROVE FALSE
  OBVIOUS
<1>1. at \in Executing /\ at \in ToolSteps
  BY DEF Executing, ToolSteps
<1>2. PICK i \in DOMAIN store :
        store[i].generation = generation /\ f \in Range(Makes[store[i].action]) /\ i # This
  BY <1>1 DEF GenerationInv, FilesAreOurs
<1>3. PICK j \in DOMAIN order : j < position /\ order[j] = store[i].action
  BY <1>1, <1>2 DEF GenerationInv, RunsAreTrue, Past
<1>4. position \in DOMAIN order /\ Action # "integrate" /\ IsInjective(order) /\ Action = order[position]
  BY <1>1 DEF GenerationInv, Recording, Planned, WellOrdered, Action
<1>5. Action \in {"nim", "rust"} /\ store[i].action \in {"nim", "rust"}
  <2>1. order \in Seq({"nim", "rust", "integrate"})
    BY DEF GenerationInv, GenerationTypeOK
  <2>2. Action \in {"nim", "rust", "integrate"}
    BY <1>4, <2>1, ElementOfSeq, LenProperties
  <2> QED BY <1>4, <2>2, StoredRuns DEF GenerationInv, Run
<1>6. store[i].action = Action
  BY <1>2, <1>5, Files DEF Expected
<1>7. order[j] = order[position] /\ j # position
  <2>1. position \in Nat
    BY DEF GenerationInv, GenerationTypeOK
  <2> QED BY <1>3, <1>4, <1>6, <2>1
<1> QED BY <1>4, <1>7 DEF IsInjective

LEMMA ToolEndsKeeps == ASSUME GenerationInv, ToolEnds PROVE GenerationInv'
<1>1. PICK ok \in BOOLEAN, made \in SUBSET Expected :
        /\ ok => made \in {{}, Expected}
        /\ exit' = ok
        /\ reported' = IF ok /\ Action = "rust" THEN made \cup (Expected \cap DOMAIN staging) ELSE {}
        /\ staging' = [f \in DOMAIN staging \cup made |-> IF f \in made THEN sources ELSE staging[f]]
  BY DEF ToolEnds
<1>2. /\ at = "tool" /\ at' = "record" /\ store' = [store EXCEPT ![This].built = sources]
      /\ UNCHANGED <<sources, request, needs, order, toolchains, generation, started, result>>
      /\ UNCHANGED <<top, position, missing, cleared>>
  BY DEF ToolEnds, Goto
<1>3. /\ at \in Executing /\ at' \in Executing /\ at' \in ToolSteps /\ at \in ToolSteps
      /\ at' \notin CopySteps /\ at' \notin {"verdict", "recorded"} /\ at' # "recorded"
  BY <1>2 DEF Executing, ToolSteps, CopySteps
<1>4. GenerationTypeOK /\ sources \in Nat
  BY DEF GenerationInv, GenerationTypeOK
<1>5. /\ position \in DOMAIN order /\ Action # "integrate" /\ This \in DOMAIN store
      /\ store[This].action = Action /\ store[This].generation = generation
  BY <1>3 DEF GenerationInv, Recording
<1>6. /\ store' \in Seq(Run) /\ Len(store') = Len(store) /\ DOMAIN store' = DOMAIN store
      /\ store'[This].built = sources
  BY <1>2, <1>4, <1>5, WrittenBuilt
<1>7. \A i \in DOMAIN store : /\ store'[i].action = store[i].action
                              /\ store'[i].generation = store[i].generation
                              /\ i # This => store'[i] = store[i]
  BY <1>2, <1>4, <1>5, WrittenBuilt
<1>8. This' = This /\ Action' = Action /\ Expected' = Expected
  BY <1>2, <1>6 DEF This, Action, Expected
<1>9. \A i \in DOMAIN store' : store'[i].generation <= generation
  BY <1>6, <1>7 DEF GenerationInv, ResultsAtEnd
<1>10. position' \in Nat \ {0} /\ exit' \in BOOLEAN
  BY <1>1, <1>2, <1>4 DEF GenerationTypeOK
<1>11. /\ GenerationTypeOK' /\ ResultsAtEnd' /\ Determined' /\ Planned' /\ Equipped'
       /\ DeliversItsOwn' /\ EvidenceAgrees'
  BY <1>2, <1>3, <1>6, <1>9, <1>10, Executes
<1>12. Recording'
  BY <1>2, <1>3, <1>5, <1>6, <1>7, <1>8 DEF Recording
<1>13. RunsAreTrue'
  <2> SUFFICES ASSUME NEW i \in DOMAIN store, store[i].generation = generation, i # This
               PROVE  Past(i)' /\ store'[i].json = Success /\ store'[i].summary = Success
    BY <1>2, <1>3, <1>6, <1>7, <1>8 DEF RunsAreTrue
  <2>1. Past(i) /\ store[i].json = Success /\ store[i].summary = Success
    BY <1>3 DEF GenerationInv, RunsAreTrue
  <2>2. store'[i] = store[i]
    BY <1>7
  <2>3. Past(i)'
    BY <1>2, <2>1, <2>2 DEF Past
  <2> QED BY <2>1, <2>2, <2>3
<1>14. FilesAreOurs'
  <2> SUFFICES ASSUME cleared, NEW f \in DOMAIN staging'
               PROVE  \E i \in DOMAIN store :
                        /\ store'[i].generation = generation /\ f \in Range(Makes[store'[i].action])
                        /\ store'[i].built = staging'[f] /\ store'[i].built \in started..sources
    BY <1>2, <1>6 DEF FilesAreOurs
  <2>1. CASE f \in made
    <3>1. staging'[f] = sources /\ sources \in started..sources
      BY <1>1, <1>4, <2>1 DEF GenerationTypeOK
    <3>2. store'[This].generation = generation /\ store'[This].action = Action
      BY <1>5, <1>7
    <3>3. f \in Range(Makes[Action])
      BY <2>1 DEF Expected
    <3> QED BY <1>5, <1>6, <3>1, <3>2, <3>3
  <2>2. CASE f \notin made
    <3>1. f \in DOMAIN staging /\ staging'[f] = staging[f]
      BY <1>1, <2>2
    <3>2. PICK i \in DOMAIN store :
            /\ store[i].generation = generation /\ f \in Range(Makes[store[i].action]) /\ i # This
            /\ store[i].built = staging[f] /\ store[i].built \in started..sources
      BY <1>2, <1>3, <3>1 DEF GenerationInv, FilesAreOurs
    <3>3. store'[i] = store[i]
      BY <1>7, <3>2
    <3> QED BY <3>1, <3>2, <3>3
  <2> QED BY <2>1, <2>2
<1>15. ReportsWhatItMade'
  <2> SUFFICES ASSUME cleared
               PROVE  reported' \in {{}, Expected} /\ (Action = "nim" => reported' = {})
    BY <1>2, <1>8 DEF ReportsWhatItMade
  <2>1. Expected \cap DOMAIN staging = {}
    BY <1>2, NothingYet
  <2> QED BY <1>1, <2>1
<1>16. ProjectFiles'
  <2>1. DOMAIN staging \subseteq DOMAIN staging'
    BY <1>1
  <2> QED BY <1>2, <1>3, <2>1 DEF GenerationInv, ProjectFiles
<1>17. Copied'
  BY <1>3 DEF Copied
<1>18. Integrated'
  <2> SUFFICES ASSUME request.kind = "self", position > 3 PROVE FALSE
    BY <1>2 DEF Integrated
  <2>1. Len(order) = 3 /\ order \in Seq({"nim", "rust", "integrate"})
    BY <1>3 DEF GenerationInv, Planned, WellOrdered, GenerationTypeOK
  <2> QED BY <1>5, <2>1, LenProperties
<1> QED BY <1>11, <1>12, <1>13, <1>14, <1>15, <1>16, <1>17, <1>18 DEF GenerationInv

(* A document of this Run is written, and says by then what Recording asks.*)
LEMMA DocumentKeeps ==
  ASSUME GenerationInv, at \in ToolSteps \ {"tool"}, at' \in ToolSteps \ {"tool"},
         UNCHANGED <<sources, generation, started>>,
         UNCHANGED <<disk, request, needs, order, toolchains, result, position, tool, missing, cleared>>,
         store' \in Seq(Run), Len(store') = Len(store), DOMAIN store' = DOMAIN store,
         store'[This].built = store[This].built,
         \A i \in DOMAIN store : /\ store'[i].action = store[i].action
                                 /\ store'[i].generation = store[i].generation
                                 /\ i # This => store'[i] = store[i],
         at' \in {"verdict", "recorded"} => store'[This].json = [success |-> Succeeded],
         at' = "recorded" => store'[This].summary = [success |-> Succeeded]
  PROVE  GenerationInv'
<1>1. /\ UNCHANGED <<sources, request, needs, order, toolchains, generation, started, result>>
      /\ UNCHANGED <<staging, top, position, exit, reported, missing, cleared>>
  BY DEF disk, tool
<1>2. /\ at \in Executing /\ at' \in Executing /\ at \in ToolSteps /\ at' \in ToolSteps
      /\ at # "tool" /\ at' # "tool" /\ at' \notin CopySteps
  BY DEF Executing, ToolSteps, CopySteps
<1>3. GenerationTypeOK
  BY DEF GenerationInv
<1>4. /\ position \in DOMAIN order /\ Action # "integrate" /\ This \in DOMAIN store
      /\ store[This].action = Action /\ store[This].generation = generation
  BY <1>2 DEF GenerationInv, Recording
<1>5. This' = This /\ Action' = Action /\ Expected' = Expected /\ Succeeded' = Succeeded
  BY <1>1 DEF This, Action, Expected, Succeeded
<1>6. DOMAIN store' = DOMAIN store /\ \A i \in DOMAIN store : i # This => store'[i] = store[i]
  OBVIOUS
<1>7. \A i \in DOMAIN store : store'[i].action = store[i].action /\ store'[i].generation = store[i].generation
  OBVIOUS
<1>8. \A i \in DOMAIN store' : store'[i].generation <= generation
  BY <1>6, <1>7 DEF GenerationInv, ResultsAtEnd
<1>9. position' \in Nat \ {0} /\ exit' \in BOOLEAN
  BY <1>1, <1>3 DEF GenerationTypeOK
<1>10. /\ GenerationTypeOK' /\ ResultsAtEnd' /\ Determined' /\ Planned' /\ Equipped'
       /\ DeliversItsOwn' /\ EvidenceAgrees'
  BY <1>1, <1>2, <1>8, <1>9, Executes
<1>11. Recording'
  BY <1>1, <1>2, <1>4, <1>5, <1>7 DEF Recording
<1>12. RunsAreTrue'
  <2> SUFFICES ASSUME NEW i \in DOMAIN store, store[i].generation = generation, i # This
               PROVE  Past(i)' /\ store'[i].json = Success /\ store'[i].summary = Success
    BY <1>1, <1>2, <1>5, <1>6, <1>7 DEF RunsAreTrue
  <2>1. Past(i) /\ store[i].json = Success /\ store[i].summary = Success
    BY <1>2 DEF GenerationInv, RunsAreTrue
  <2>2. store'[i] = store[i]
    BY <1>6
  <2>3. Past(i)'
    BY <1>1, <2>1, <2>2 DEF Past
  <2> QED BY <2>1, <2>2, <2>3
<1>13. FilesAreOurs'
  <2>1. ASSUME NEW i \in DOMAIN store PROVE store'[i].built = store[i].built
    <3>1. CASE i = This BY <3>1
    <3>2. CASE i # This
      <4>1. store'[i] = store[i] BY <1>6, <3>2
      <4> QED BY <4>1
    <3> QED BY <3>1, <3>2
  <2> SUFFICES ASSUME cleared, NEW f \in DOMAIN staging
               PROVE  \E i \in DOMAIN store :
                        /\ store'[i].generation = generation /\ f \in Range(Makes[store'[i].action])
                        /\ store'[i].built = staging[f] /\ store'[i].built \in started..sources
    BY <1>1, <1>2, <1>6 DEF FilesAreOurs
  <2>2. PICK i \in DOMAIN store :
          /\ store[i].generation = generation /\ f \in Range(Makes[store[i].action])
          /\ store[i].built = staging[f] /\ store[i].built \in started..sources
    BY <1>2 DEF GenerationInv, FilesAreOurs
  <2>3. store'[i].built = store[i].built
    BY <2>1
  <2>4. store'[i].generation = generation /\ store'[i].action = store[i].action
    BY <1>7, <2>2
  <2> QED BY <2>2, <2>3, <2>4
<1>14. ReportsWhatItMade'
  BY <1>1, <1>2, <1>5 DEF GenerationInv, ReportsWhatItMade
<1>15. ProjectFiles' /\ Integrated'
  BY <1>1, <1>2 DEF GenerationInv, ProjectFiles, Integrated, Same
<1>16. Copied'
  BY <1>2 DEF Copied
<1> QED BY <1>10, <1>11, <1>12, <1>13, <1>14, <1>15, <1>16 DEF GenerationInv

LEMMA DocumentsAre == \A ok \in BOOLEAN : [success |-> ok] \in Docs
  BY DEF Docs

LEMMA Judges == ASSUME GenerationInv PROVE Succeeded \in BOOLEAN /\ exit \in BOOLEAN
  BY DEF GenerationInv, GenerationTypeOK, Succeeded

LEMMA RecordExitKeeps == ASSUME GenerationInv, RecordExit PROVE GenerationInv'
<1>1. /\ at = "record" /\ at' = "summarize" /\ store' = [store EXCEPT ![This].json = [success |-> exit]]
      /\ UNCHANGED <<sources, generation, started>>
      /\ UNCHANGED <<disk, request, needs, order, toolchains, result, position, tool, missing, cleared>>
  BY DEF RecordExit, Write, Goto
<1>2. at \in ToolSteps \ {"tool"} /\ at' \in ToolSteps \ {"tool"}
  BY <1>1 DEF ToolSteps
<1>3. GenerationTypeOK /\ This \in DOMAIN store /\ [success |-> exit] \in Docs
  BY <1>2, DocumentsAre, Judges DEF GenerationInv, Recording
<1>4. /\ store' \in Seq(Run) /\ Len(store') = Len(store) /\ DOMAIN store' = DOMAIN store
      /\ store'[This].built = store[This].built
      /\ \A i \in DOMAIN store : /\ store'[i].action = store[i].action
                                 /\ store'[i].generation = store[i].generation
                                 /\ i # This => store'[i] = store[i]
  BY <1>1, <1>3, WrittenJson
<1>5. at' \notin {"verdict", "recorded"} /\ at' # "recorded"
  BY <1>1
<1> QED BY <1>1, <1>2, <1>4, <1>5, DocumentKeeps

LEMMA SummarizeExitKeeps == ASSUME GenerationInv, SummarizeExit PROVE GenerationInv'
<1>1. /\ at = "summarize" /\ at' = "judged" /\ store' = [store EXCEPT ![This].summary = [success |-> exit]]
      /\ UNCHANGED <<sources, generation, started>>
      /\ UNCHANGED <<disk, request, needs, order, toolchains, result, position, tool, missing, cleared>>
  BY DEF SummarizeExit, Write, Goto
<1>2. at \in ToolSteps \ {"tool"} /\ at' \in ToolSteps \ {"tool"}
  BY <1>1 DEF ToolSteps
<1>3. GenerationTypeOK /\ This \in DOMAIN store /\ [success |-> exit] \in Docs
  BY <1>2, DocumentsAre, Judges DEF GenerationInv, Recording
<1>4. /\ store' \in Seq(Run) /\ Len(store') = Len(store) /\ DOMAIN store' = DOMAIN store
      /\ store'[This].built = store[This].built
      /\ \A i \in DOMAIN store : /\ store'[i].action = store[i].action
                                 /\ store'[i].generation = store[i].generation
                                 /\ i # This => store'[i] = store[i]
  BY <1>1, <1>3, WrittenSummary
<1>5. at' \notin {"verdict", "recorded"} /\ at' # "recorded"
  BY <1>1
<1> QED BY <1>1, <1>2, <1>4, <1>5, DocumentKeeps

LEMMA RecordVerdictKeeps == ASSUME GenerationInv, RecordVerdict PROVE GenerationInv'
<1>1. /\ at = "judged" /\ at' = "verdict" /\ store' = [store EXCEPT ![This].json = [success |-> Succeeded]]
      /\ UNCHANGED <<sources, generation, started>>
      /\ UNCHANGED <<disk, request, needs, order, toolchains, result, position, tool, missing, cleared>>
  BY DEF RecordVerdict, Write, Goto
<1>2. at \in ToolSteps \ {"tool"} /\ at' \in ToolSteps \ {"tool"}
  BY <1>1 DEF ToolSteps
<1>3. GenerationTypeOK /\ This \in DOMAIN store /\ [success |-> Succeeded] \in Docs
  BY <1>2, DocumentsAre, Judges DEF GenerationInv, Recording
<1>4. /\ store' \in Seq(Run) /\ Len(store') = Len(store) /\ DOMAIN store' = DOMAIN store
      /\ store'[This].built = store[This].built /\ store'[This].json = [success |-> Succeeded]
      /\ \A i \in DOMAIN store : /\ store'[i].action = store[i].action
                                 /\ store'[i].generation = store[i].generation
                                 /\ i # This => store'[i] = store[i]
  BY <1>1, <1>3, WrittenJson
<1>5. at' # "recorded"
  BY <1>1
<1> QED BY <1>1, <1>2, <1>4, <1>5, DocumentKeeps

LEMMA SummarizeVerdictKeeps == ASSUME GenerationInv, SummarizeVerdict PROVE GenerationInv'
<1>1. /\ at = "verdict" /\ at' = "recorded" /\ store' = [store EXCEPT ![This].summary = store[This].json]
      /\ UNCHANGED <<sources, generation, started>>
      /\ UNCHANGED <<disk, request, needs, order, toolchains, result, position, tool, missing, cleared>>
  BY DEF SummarizeVerdict, Write, Goto
<1>2. at \in ToolSteps \ {"tool"} /\ at' \in ToolSteps \ {"tool"}
  BY <1>1 DEF ToolSteps
<1>3. GenerationTypeOK /\ This \in DOMAIN store /\ store[This].json = [success |-> Succeeded]
  BY <1>1, <1>2 DEF GenerationInv, Recording
<1>4. store[This].json \in Docs
  BY <1>3, DocumentsAre, Judges
<1>5. /\ store' \in Seq(Run) /\ Len(store') = Len(store) /\ DOMAIN store' = DOMAIN store
      /\ store'[This].built = store[This].built
      /\ store'[This].json = store[This].json /\ store'[This].summary = store[This].json
      /\ \A i \in DOMAIN store : /\ store'[i].action = store[i].action
                                 /\ store'[i].generation = store[i].generation
                                 /\ i # This => store'[i] = store[i]
  BY <1>1, <1>3, <1>4, WrittenSummary
<1>6. store'[This].json = [success |-> Succeeded] /\ store'[This].summary = [success |-> Succeeded]
  BY <1>3, <1>5
<1> QED BY <1>1, <1>2, <1>5, <1>6, DocumentKeeps

(* What an action is, and the others are not.                              *)
LEMMA TheAction ==
  ASSUME GenerationInv, at \in Executing, position \in DOMAIN order
  PROVE  /\ Action = order[position] /\ Action \in {"nim", "rust", "integrate"}
         /\ \A j \in DOMAIN order : j # position => order[j] # Action
         /\ position \in Nat /\ DOMAIN order = 1..Len(order) /\ Len(order) \in Nat
         /\ request.kind = "self" => position <= 3 /\ (position = 3 <=> Action = "integrate")
         /\ request.kind # "self" => Action # "integrate"
<1>1. order \in Seq({"nim", "rust", "integrate"}) /\ position \in Nat /\ WellOrdered
  BY DEF GenerationInv, GenerationTypeOK, Planned
<1>2. DOMAIN order = 1..Len(order) /\ Len(order) \in Nat /\ Action = order[position]
  BY <1>1, LenProperties DEF Action
<1>3. Action \in {"nim", "rust", "integrate"}
  BY <1>1, <1>2, ElementOfSeq
<1>4. \A j \in DOMAIN order : j # position => order[j] # Action
  BY <1>1, <1>2 DEF WellOrdered, IsInjective
<1>5. request.kind = "self" => position <= 3 /\ (position = 3 <=> Action = "integrate")
  BY <1>1, <1>2, <1>4 DEF WellOrdered
<1>6. request.kind # "self" => Action # "integrate"
  BY <1>1, <1>2 DEF WellOrdered, Range
<1> QED BY <1>1, <1>2, <1>3, <1>4, <1>5, <1>6

(* An action is over, and the next one begins.                             *)
LEMMA ActionOver ==
  ASSUME GenerationInv, at \in {"recorded", "assembled"}, at' = "act", position' = position + 1,
         UNCHANGED <<sources, generation, started>>,
         UNCHANGED <<disk, store, request, needs, order, toolchains, result, tool, missing, cleared>>,
         \A i \in DOMAIN store : store[i].generation = generation => 
            Past(i)' /\ store[i].json = Success /\ store[i].summary = Success,
         ProjectFiles', Integrated'
  PROVE  GenerationInv'
<1>1. /\ UNCHANGED <<sources, request, needs, order, toolchains, generation, started, result>>
      /\ UNCHANGED <<staging, top, store, exit, reported, missing, cleared>>
  BY DEF disk, tool
<1>2. /\ at \in Executing /\ at' \in Executing /\ at # "tool" /\ at' \notin ToolSteps /\ at' \notin CopySteps
      /\ at' \notin {"verdict", "recorded"} /\ at' # "recorded"
  BY DEF Executing, ToolSteps, CopySteps
<1>3. /\ position' \in Nat \ {0} /\ exit' \in BOOLEAN /\ store' \in Seq(Run)
      /\ \A i \in DOMAIN store' : store'[i].generation <= generation
  BY <1>1 DEF GenerationInv, GenerationTypeOK, ResultsAtEnd
<1>4. /\ GenerationTypeOK' /\ ResultsAtEnd' /\ Determined' /\ Planned' /\ Equipped'
      /\ DeliversItsOwn' /\ EvidenceAgrees'
  BY <1>1, <1>2, <1>3, Executes
<1>5. Recording' /\ Copied' /\ ReportsWhatItMade'
  BY <1>2 DEF Recording, Copied, ReportsWhatItMade
<1>6. RunsAreTrue'
  BY <1>1 DEF RunsAreTrue
<1>7. FilesAreOurs'
  BY <1>1, <1>2 DEF GenerationInv, FilesAreOurs
<1> QED BY <1>4, <1>5, <1>6, <1>7 DEF GenerationInv

LEMMA ProceedKeeps == ASSUME GenerationInv, Proceed PROVE GenerationInv'
<1>1. at = "recorded" /\ UNCHANGED <<disk, store>>
  BY DEF Proceed
<1>2. at \in Executing /\ at \in ToolSteps \ {"tool"}
  BY <1>1 DEF Executing, ToolSteps
<1>3. /\ position \in DOMAIN order /\ Action # "integrate" /\ This \in DOMAIN store
      /\ store[This].action = Action
      /\ store[This].json = [success |-> Succeeded] /\ store[This].summary = [success |-> Succeeded]
  BY <1>1, <1>2 DEF GenerationInv, Recording
<1>4. /\ Action = order[position] /\ Action \in {"nim", "rust", "integrate"}
      /\ \A j \in DOMAIN order : j # position => order[j] # Action
      /\ position \in Nat /\ DOMAIN order = 1..Len(order) /\ Len(order) \in Nat
      /\ request.kind = "self" => position <= 3 /\ (position = 3 <=> Action = "integrate")
  BY <1>2, <1>3, TheAction
<1>5. ASSUME NEW i \in DOMAIN store, store[i].generation = generation, i # This
      PROVE  Past(i) /\ store[i].json = Success /\ store[i].summary = Success
  BY <1>2, <1>5 DEF GenerationInv, RunsAreTrue
<1>6. CASE /\ Succeeded /\ position' = position + 1 /\ Goto("act")
           /\ UNCHANGED <<request, needs, order, toolchains, result, tool, missing, cleared>>
  <2>1. /\ at' = "act" /\ position' = position + 1 /\ Succeeded = TRUE
        /\ UNCHANGED <<sources, generation, started, store, request, needs, order, toolchains, result>>
        /\ UNCHANGED <<staging, top, exit, reported, missing, cleared>>
    BY <1>1, <1>6, Judges DEF Goto, disk, tool
  <2>2. ASSUME NEW i \in DOMAIN store, store[i].generation = generation
        PROVE  Past(i)' /\ store[i].json = Success /\ store[i].summary = Success
    <3>1. CASE i = This
      <4>1. store[i].json = Success /\ store[i].summary = Success
        BY <1>3, <2>1, <3>1 DEF Success
      <4>2. Past(i)'
        BY <1>3, <1>4, <2>1, <3>1 DEF Past
      <4> QED BY <4>1, <4>2
    <3>2. CASE i # This
      <4>1. Past(i) /\ store[i].json = Success /\ store[i].summary = Success
        BY <1>5, <2>2, <3>2
      <4>2. Past(i)'
        BY <1>4, <2>1, <4>1 DEF Past
      <4> QED BY <4>1, <4>2
    <3> QED BY <3>1, <3>2
  <2>3. ProjectFiles'
    <3> SUFFICES ASSUME cleared, request.kind # "self", NEW j \in DOMAIN order, j < position + 1
                 PROVE  Range(Makes[order[j]]) \subseteq DOMAIN staging
      BY <2>1 DEF ProjectFiles
    <3>1. CASE j = position
      <4>1. reported \in {{}, Expected} /\ (Action = "nim" => reported = {})
        BY <1>2 DEF GenerationInv, ReportsWhatItMade
      <4>2. Expected # {}
        BY <1>3, <1>4, Files DEF Expected
      <4>3. Expected \subseteq DOMAIN staging
        BY <1>6, <4>1, <4>2 DEF Succeeded
      <4> QED BY <1>4, <3>1, <4>3 DEF Expected
    <3>2. CASE j # position
      <4>1. j < position
        BY <1>4, <3>2
      <4> QED BY <1>2, <4>1 DEF GenerationInv, ProjectFiles
    <3> QED BY <3>1, <3>2
  <2>4. Integrated'
    BY <1>3, <1>4, <2>1 DEF Integrated
  <2> QED BY <1>1, <1>6, <2>1, <2>2, <2>3, <2>4, ActionOver
<1>7. CASE ~Succeeded /\ Ends("failed")
  <2>1. /\ result' = "failed" /\ Succeeded = FALSE
        /\ UNCHANGED <<generation, store, order, position>>
    BY <1>1, <1>7, Judges DEF Ends, job
  <2>2. DeliversItsOwn'
    BY <2>1 DEF DeliversItsOwn
  <2>3. ASSUME NEW i \in DOMAIN store, store[i].generation = generation
        PROVE  /\ store[i].json = store[i].summary
               /\ store[i].json = Success <=> store[i].action # order[position]
    <3>1. CASE i = This
      <4>1. store[i].json = [success |-> FALSE] /\ store[i].summary = [success |-> FALSE]
        BY <1>3, <2>1, <3>1
      <4>2. [success |-> FALSE] # Success
        <5>1. [success |-> FALSE].success = FALSE /\ Success.success = TRUE BY DEF Success
        <5> QED BY <5>1
      <4> QED BY <1>3, <1>4, <3>1, <4>1, <4>2
    <3>2. CASE i # This
      <4>1. Past(i) /\ store[i].json = Success /\ store[i].summary = Success
        BY <1>5, <2>3, <3>2
      <4>2. store[i].action # order[position]
        BY <1>3, <1>4, <4>1 DEF Past
      <4> QED BY <4>1, <4>2
    <3> QED BY <3>1, <3>2
  <2>4. EvidenceAgrees'
    BY <2>1, <2>3 DEF EvidenceAgrees, RunsNow, Range
  <2> QED BY <1>1, <1>7, <2>2, <2>4, EndsWith
<1> QED BY <1>6, <1>7 DEF Proceed

LEMMA CopyOrder ==
  CopyAt(1) = "copy 1" /\ CopyAt(2) = "copy 2" /\ CopyAt(3) = "copy 3" /\ CopyAt(4) = "assembled"
  BY DEF CopyAt

(* Each copy has a step of its own.                                        *)
LEMMA CopyStep ==
  ASSUME NEW i \in 1..4
  PROVE  \/ i = 1 /\ CopyAt(i) = "copy 1"
         \/ i = 2 /\ CopyAt(i) = "copy 2"
         \/ i = 3 /\ CopyAt(i) = "copy 3"
         \/ i = 4 /\ CopyAt(i) = "assembled"
<1>1. ASSUME i = 1 PROVE CopyAt(i) = "copy 1" BY <1>1 DEF CopyAt
<1>2. ASSUME i = 2 PROVE CopyAt(i) = "copy 2" BY <1>2 DEF CopyAt
<1>3. ASSUME i = 3 PROVE CopyAt(i) = "copy 3" BY <1>3 DEF CopyAt
<1>4. ASSUME i = 4 PROVE CopyAt(i) = "assembled" BY <1>4 DEF CopyAt
<1>5. i = 1 \/ i = 2 \/ i = 3 \/ i = 4
  OBVIOUS
<1> HIDE DEF CopyAt
<1> QED BY <1>1, <1>2, <1>3, <1>4, <1>5, Zenon

LEMMA NextCopy ==
  ASSUME NEW n \in 1..3
  PROVE  CopyAt(n) \in CopySteps /\ CopyAt(n + 1) \in CopySteps
<1>1. n \in 1..4 /\ n + 1 \in 1..4
  OBVIOUS
<1>2. CopyAt(n) \in CopySteps
  BY <1>1, CopyStep DEF CopySteps
<1>3. CopyAt(n + 1) \in CopySteps
  BY <1>1, CopyStep DEF CopySteps
<1> QED BY <1>2, <1>3

LEMMA OneStep ==
  ASSUME NEW i \in 1..4, NEW j \in 1..4, NEW step,
         \/ i = 1 /\ step = "copy 1"
         \/ i = 2 /\ step = "copy 2"
         \/ i = 3 /\ step = "copy 3"
         \/ i = 4 /\ step = "assembled",
         \/ j = 1 /\ step = "copy 1"
         \/ j = 2 /\ step = "copy 2"
         \/ j = 3 /\ step = "copy 3"
         \/ j = 4 /\ step = "assembled"
  PROVE  i = j
<1>1. CASE step = "copy 1"
  <2>1. i = 1 /\ j = 1 BY <1>1, Zenon
  <2> QED BY <2>1
<1>2. CASE step = "copy 2"
  <2>1. i = 2 /\ j = 2 BY <1>2, Zenon
  <2> QED BY <2>1
<1>3. CASE step = "copy 3"
  <2>1. i = 3 /\ j = 3 BY <1>3, Zenon
  <2> QED BY <2>1
<1>4. CASE step = "assembled"
  <2>1. i = 4 /\ j = 4 BY <1>4, Zenon
  <2> QED BY <2>1
<1>5. step = "copy 1" \/ step = "copy 2" \/ step = "copy 3" \/ step = "assembled"
  BY Zenon
<1> QED BY <1>1, <1>2, <1>3, <1>4, <1>5, Zenon

LEMMA OneCopy ==
  ASSUME NEW i \in 1..4, NEW j \in 1..4, CopyAt(i) = CopyAt(j)
  PROVE  i = j
<1>1. /\ \/ i = 1 /\ CopyAt(i) = "copy 1"
         \/ i = 2 /\ CopyAt(i) = "copy 2"
         \/ i = 3 /\ CopyAt(i) = "copy 3"
         \/ i = 4 /\ CopyAt(i) = "assembled"
  BY CopyStep
<1>2. /\ \/ j = 1 /\ CopyAt(i) = "copy 1"
         \/ j = 2 /\ CopyAt(i) = "copy 2"
         \/ j = 3 /\ CopyAt(i) = "copy 3"
         \/ j = 4 /\ CopyAt(i) = "assembled"
  BY CopyStep
<1> QED BY <1>1, <1>2, OneStep

LEMMA IntegrateKeeps == ASSUME GenerationInv, Integrate PROVE GenerationInv'
<1>1. /\ at = "act" /\ at' = "copy 1" /\ position \in DOMAIN order /\ Action = "integrate"
      /\ UNCHANGED <<sources, request, needs, order, toolchains, generation, started, result>>
      /\ UNCHANGED <<staging, top, store, position, exit, reported, cleared>>
  BY DEF Integrate, Goto, disk, tool
<1>2. /\ at \in Executing /\ at' \in Executing /\ at \notin ToolSteps /\ at' \notin ToolSteps /\ at # "tool"
      /\ at' \notin {"verdict", "recorded"} /\ at' # "recorded"
  BY <1>1 DEF Executing, ToolSteps, CopySteps
<1>3. /\ position' \in Nat \ {0} /\ exit' \in BOOLEAN /\ store' \in Seq(Run)
      /\ \A i \in DOMAIN store' : store'[i].generation <= generation
  BY <1>1 DEF GenerationInv, GenerationTypeOK, ResultsAtEnd
<1>4. /\ GenerationTypeOK' /\ ResultsAtEnd' /\ Determined' /\ Planned' /\ Equipped'
      /\ DeliversItsOwn' /\ EvidenceAgrees'
  BY <1>1, <1>2, <1>3, Executes
<1>5. Recording' /\ ReportsWhatItMade'
  BY <1>1, <1>2 DEF Recording, ReportsWhatItMade, Action
<1>6. RunsAreTrue' /\ FilesAreOurs' /\ ProjectFiles' /\ Integrated'
  <2>1. RunsAreTrue'
    BY <1>1, <1>2 DEF GenerationInv, RunsAreTrue, Past
  <2>2. FilesAreOurs'
    BY <1>1, <1>2 DEF GenerationInv, FilesAreOurs
  <2>3. ProjectFiles' /\ Integrated'
    BY <1>1, <1>2 DEF GenerationInv, ProjectFiles, Integrated, Same
  <2> QED BY <2>1, <2>2, <2>3
<1>7. Copied'
  <2> SUFFICES ASSUME NEW k \in DOMAIN Names, NEW m \in k + 1 .. 4, at' = CopyAt(m) PROVE FALSE
    BY DEF Copied
  <2>1. m \in {2, 3, 4}
    BY Files
  <2> QED BY <1>1, <2>1, CopyOrder
<1> QED BY <1>4, <1>5, <1>6, <1>7 DEF GenerationInv

LEMMA CopyKeeps == ASSUME GenerationInv, NEW n \in DOMAIN Names, Copy(n) PROVE GenerationInv'
<1>1. /\ at = CopyAt(n) /\ at' = CopyAt(n + 1) /\ n \in 1..3
      /\ UNCHANGED <<sources, request, needs, order, toolchains, generation, started, result>>
      /\ UNCHANGED <<staging, store, position, exit, reported, cleared>>
  BY Files DEF Copy, Goto, tool
<1>2. /\ Names[n] \in DOMAIN staging =>
           /\ top' = [f \in DOMAIN top \cup {Names[n]} |-> IF f = Names[n] THEN staging[f] ELSE top[f]]
           /\ missing' = missing
      /\ Names[n] \notin DOMAIN staging => missing' = missing \cup {Names[n]} /\ top' = top
  BY DEF Copy
<1>3. at \in CopySteps /\ at' \in CopySteps
  BY <1>1, NextCopy
<1>4. /\ at \in Executing /\ at' \in Executing /\ at \notin ToolSteps /\ at' \notin ToolSteps /\ at # "tool"
      /\ at' # "tool" /\ at' \notin {"verdict", "recorded"} /\ at' # "recorded"
  BY <1>3 DEF Executing, ToolSteps, CopySteps
<1>5. position \in DOMAIN order /\ Action = "integrate"
  BY <1>3 DEF GenerationInv, Recording
<1>6. /\ position' \in Nat \ {0} /\ exit' \in BOOLEAN /\ store' \in Seq(Run)
      /\ \A i \in DOMAIN store' : store'[i].generation <= generation
  BY <1>1 DEF GenerationInv, GenerationTypeOK, ResultsAtEnd
<1>7. /\ GenerationTypeOK' /\ ResultsAtEnd' /\ Determined' /\ Planned' /\ Equipped'
      /\ DeliversItsOwn' /\ EvidenceAgrees'
  BY <1>1, <1>4, <1>6, Executes
<1>8. Recording' /\ ReportsWhatItMade'
  BY <1>1, <1>4, <1>5 DEF Recording, ReportsWhatItMade, Action
<1>9. RunsAreTrue'
  BY <1>1, <1>4 DEF GenerationInv, RunsAreTrue, Past
<1>10. FilesAreOurs'
  BY <1>1, <1>4 DEF GenerationInv, FilesAreOurs
<1>11. ProjectFiles'
  BY <1>1, <1>4 DEF GenerationInv, ProjectFiles
<1>12. Integrated'
  <2> SUFFICES ASSUME request.kind = "self", position > 3 PROVE FALSE
    BY <1>1 DEF Integrated
  <2> QED BY <1>4, <1>5, TheAction
<1>13. Copied'
  <2> SUFFICES ASSUME NEW k \in DOMAIN Names, NEW m \in k + 1 .. 4, at' = CopyAt(m)
               PROVE  Same(Names[k])' \/ Names[k] \in missing'
    BY DEF Copied
  <2>1. m = n + 1 /\ k \in 1..3 /\ k <= n
    <3>1. m \in 1..4 /\ n + 1 \in 1..4 /\ k \in 1..3 /\ k < m
      BY <1>1, Files
    <3>2. CopyAt(m) = CopyAt(n + 1)
      BY <1>1
    <3>3. m = n + 1
      BY <3>1, <3>2, OneCopy
    <3> QED BY <1>1, <3>1, <3>3
  <2>2. CASE k = n
    BY <1>1, <1>2, <2>2 DEF Same
  <2>3. CASE k # n
    <3>1. n \in k + 1 .. 4
      BY <1>1, <2>1, <2>3
    <3>2. Same(Names[k]) \/ Names[k] \in missing
      BY <1>1, <1>3, <3>1 DEF GenerationInv, Copied
    <3> QED BY <1>1, <1>2, <3>2 DEF Same
  <2> QED BY <2>2, <2>3
<1> QED BY <1>7, <1>8, <1>9, <1>10, <1>11, <1>12, <1>13 DEF GenerationInv

LEMMA AssembledKeeps == ASSUME GenerationInv, Assembled PROVE GenerationInv'
<1>1. at = "assembled" /\ UNCHANGED <<disk, store>>
  BY DEF Assembled
<1>2. at \in Executing /\ at \in CopySteps /\ at \notin ToolSteps
  BY <1>1 DEF Executing, CopySteps, ToolSteps
<1>3. position \in DOMAIN order /\ Action = "integrate"
  BY <1>2 DEF GenerationInv, Recording
<1>4. /\ Action = order[position] /\ position \in Nat /\ request.kind = "self"
      /\ \A j \in DOMAIN order : j # position => order[j] # Action
      /\ DOMAIN order = 1..Len(order) /\ Len(order) \in Nat
  BY <1>2, <1>3, TheAction
<1>5. ASSUME NEW i \in DOMAIN store, store[i].generation = generation
      PROVE  Past(i) /\ store[i].json = Success /\ store[i].summary = Success
  BY <1>2, <1>5 DEF GenerationInv, RunsAreTrue
<1>6. CASE /\ missing = {} /\ position' = position + 1 /\ Goto("act")
           /\ UNCHANGED <<request, needs, order, toolchains, result, tool, missing, cleared>>
  <2>1. /\ at' = "act" /\ position' = position + 1
        /\ UNCHANGED <<sources, generation, started, store, request, needs, order, toolchains, result>>
        /\ UNCHANGED <<staging, top, exit, reported, missing, cleared>>
    BY <1>1, <1>6 DEF Goto, disk, tool
  <2>2. ASSUME NEW i \in DOMAIN store, store[i].generation = generation
        PROVE  Past(i)' /\ store[i].json = Success /\ store[i].summary = Success
    <3>1. Past(i) /\ store[i].json = Success /\ store[i].summary = Success
      BY <1>5, <2>2
    <3>2. Past(i)'
      BY <1>4, <2>1, <3>1 DEF Past
    <3> QED BY <3>1, <3>2
  <2>3. ProjectFiles'
    BY <1>4, <2>1 DEF ProjectFiles
  <2>4. Integrated'
    <3>1. ASSUME NEW k \in DOMAIN Names PROVE Same(Names[k])
      <4>1. 4 \in k + 1 .. 4
        BY Files
      <4> at = CopyAt(4)
        BY <1>1, CopyOrder
      <4>2. Same(Names[k]) \/ Names[k] \in missing
        BY <1>2, <4>1 DEF GenerationInv, Copied
      <4> QED BY <1>6, <4>2
    <3> QED BY <2>1, <3>1 DEF Integrated, Same
  <2> QED BY <1>1, <1>6, <2>1, <2>2, <2>3, <2>4, ActionOver
<1>7. CASE missing # {} /\ Ends("failed")
  <2>1. /\ result' = "failed"
        /\ UNCHANGED <<generation, store, order, position>>
    BY <1>1, <1>7 DEF Ends, job
  <2>2. DeliversItsOwn'
    BY <2>1 DEF DeliversItsOwn
  <2>3. ASSUME NEW i \in DOMAIN store, store[i].generation = generation
        PROVE  /\ store[i].json = store[i].summary
               /\ store[i].json = Success /\ store[i].action # order[position]
    <3>1. Past(i) /\ store[i].json = Success /\ store[i].summary = Success
      BY <1>5, <2>3
    <3>2. store[i].action # order[position]
      BY <1>4, <3>1 DEF Past
    <3> QED BY <3>1, <3>2
  <2>4. EvidenceAgrees'
    BY <2>1, <2>3 DEF EvidenceAgrees, RunsNow, Range
  <2> QED BY <1>1, <1>7, <2>2, <2>4, EndsWith
<1> QED BY <1>6, <1>7 DEF Assembled

(* A generation that ends well has done all of its plan.                   *)
LEMMA DoneKeeps == ASSUME GenerationInv, Done PROVE GenerationInv'
<1>1. /\ at = "act" /\ position > Len(order) /\ Ends("ok") /\ UNCHANGED <<disk, store>>
      /\ result' = "ok"
      /\ UNCHANGED <<sources, request, needs, order, toolchains, generation, started>>
      /\ UNCHANGED <<staging, top, store, position, exit, reported, missing, cleared>>
  BY DEF Done, Ends, job, tool, disk
<1>2. at \in Executing /\ at \notin ToolSteps
  BY <1>1 DEF Executing, ToolSteps
<1>3. /\ order \in Seq({"nim", "rust", "integrate"}) /\ position \in Nat
      /\ WellOrdered /\ toolchains = Needed
  BY <1>2 DEF GenerationInv, GenerationTypeOK, Planned, Equipped
<1>4. /\ DOMAIN order = 1..Len(order) /\ Len(order) \in Nat
      /\ \A j \in DOMAIN order : order[j] \in {"nim", "rust", "integrate"} /\ j < position
  BY <1>1, <1>3, LenProperties, ElementOfSeq
<1>5. ASSUME NEW i \in DOMAIN store, store[i].generation = generation
      PROVE  Past(i) /\ store[i].json = Success /\ store[i].summary = Success
  BY <1>2, <1>5 DEF GenerationInv, RunsAreTrue
<1>6. EvidenceAgrees'
  BY <1>1, <1>5 DEF EvidenceAgrees, RunsNow, Range
<1>7. DeliversItsOwn'
  <2> SUFFICES ASSUME cleared, NEW id \in Range(order) \ {"integrate"}, NEW f \in Range(Makes[id])
               PROVE  LET delivered == IF request.kind = "self" THEN top ELSE staging
                      IN  /\ Uses(id) \subseteq toolchains
                          /\ f \in DOMAIN delivered /\ delivered[f] \in started..sources
                          /\ \E r \in RunsNow : /\ r.action = id /\ r.json = Success /\ r.summary = Success
                                                /\ r.built = delivered[f]
    BY <1>1 DEF DeliversItsOwn, RunsNow, Uses, OnPath
  <2> DEFINE delivered == IF request.kind = "self" THEN top ELSE staging
  <2>1. Uses(id) \subseteq toolchains
    BY <1>3 DEF WellOrdered
  <2>2. PICK j \in DOMAIN order : order[j] = id /\ j < position /\ id \in {"nim", "rust"}
    BY <1>4 DEF Range
  <2>3. f \in DOMAIN staging /\ f \in DOMAIN delivered /\ delivered[f] = staging[f]
    <3>1. CASE request.kind = "self"
      <4>1. position > 3
        BY <1>1, <1>3, <3>1 DEF WellOrdered
      <4>2. \A k \in DOMAIN Names : Same(Names[k])
        BY <1>2, <3>1, <4>1 DEF GenerationInv, Integrated
      <4>3. f \in {"planner", "host", "wrapper"}
        BY <2>2, Files
      <4>4. Same(f)
        BY <4>2, <4>3, Files
      <4> QED BY <3>1, <4>4 DEF Same
    <3>2. CASE request.kind # "self"
      BY <1>2, <2>2, <3>2 DEF GenerationInv, ProjectFiles
    <3> QED BY <3>1, <3>2
  <2>4. PICK i \in DOMAIN store :
          /\ store[i].generation = generation /\ f \in Range(Makes[store[i].action])
          /\ store[i].built = staging[f] /\ store[i].built \in started..sources
    BY <1>2, <2>3 DEF GenerationInv, FilesAreOurs
  <2>5. store[i].action = id
    <3>1. store[i].action \in {"nim", "rust"}
      BY StoredRuns DEF GenerationInv, Run
    <3> QED BY <2>2, <2>4, <3>1, Files
  <2>6. store[i].json = Success /\ store[i].summary = Success
    BY <1>5, <2>4
  <2>7. store[i] \in RunsNow
    BY <2>4 DEF RunsNow, Range
  <2> QED BY <2>1, <2>3, <2>4, <2>5, <2>6, <2>7
<1> QED BY <1>1, <1>6, <1>7, EndsWith

-----------------------------------------------------------------------------
(* The theorems *)

LEMMA StepKeeps == GenerationInv /\ [Next]_vars => GenerationInv'
<1> SUFFICES ASSUME GenerationInv, [Next]_vars PROVE GenerationInv'
  OBVIOUS
<1>1. CASE Edit \/ Determine \/ Plan \/ Resolve \/ Clear \/ Done \/ Launch \/ ToolEnds
  BY <1>1, EditKeeps, DetermineKeeps, PlanKeeps, ResolveKeeps, ClearKeeps, DoneKeeps,
     LaunchKeeps, ToolEndsKeeps
<1>2. CASE RecordExit \/ SummarizeExit \/ RecordVerdict \/ SummarizeVerdict \/ Proceed
  BY <1>2, RecordExitKeeps, SummarizeExitKeeps, RecordVerdictKeeps, SummarizeVerdictKeeps, ProceedKeeps
<1>3. CASE Integrate \/ Assembled \/ Abort
  BY <1>3, IntegrateKeeps, AssembledKeeps, AbortKeeps
<1>4. CASE \E i \in DOMAIN Names : Copy(i)
  BY <1>4, CopyKeeps
<1>5. CASE \E r \in Requests : Ask(r)
  BY <1>5, AskKeeps
<1>6. CASE \E r \in DOMAIN store : Regenerate(r)
  BY <1>6, RegenerateKeeps
<1>7. CASE UNCHANGED vars
  <2>1. /\ UNCHANGED <<sources, staging, top, store, request, needs, order, toolchains>>
        /\ UNCHANGED <<generation, started, at, result, position, exit, reported, missing, cleared>>
    BY <1>7 DEF vars, disk, job, tool
  <2>2. GenerationTypeOK' /\ ResultsAtEnd' /\ Determined' /\ Equipped'
    BY <2>1 DEF GenerationInv, GenerationTypeOK, ResultsAtEnd, Determined, Equipped, Needed
  <2>3. Planned'
    BY <2>1 DEF GenerationInv, Planned, WellOrdered, Uses, OnPath, Needed
  <2>4. Recording' /\ RunsAreTrue' /\ FilesAreOurs'
    BY <2>1 DEF GenerationInv, Recording, Action, This, Succeeded, Expected, RunsAreTrue, Past, FilesAreOurs
  <2>5. ReportsWhatItMade' /\ ProjectFiles' /\ Copied' /\ Integrated'
    BY <2>1 DEF GenerationInv, ReportsWhatItMade, Expected, Action, ProjectFiles, Copied, Integrated, Same
  <2>6. DeliversItsOwn' /\ EvidenceAgrees'
    BY <2>1 DEF GenerationInv, DeliversItsOwn, EvidenceAgrees, RunsNow, Uses, OnPath
  <2> QED BY <2>2, <2>3, <2>4, <2>5, <2>6 DEF GenerationInv
<1> QED BY <1>1, <1>2, <1>3, <1>4, <1>5, <1>6, <1>7 DEF Next

LEMMA GenerationInvHolds == Spec => []GenerationInv
<1> QED BY Starts, StepKeeps, PTL DEF Spec

(* A generation that ends well in a staging area it could clear delivers   *)
(* what it was to make, by toolchains verified for it, with a record and a *)
(* summary that say so of the very files (execute_self_build,              *)
(* execute_project_build).                                                 *)
THEOREM DeliversItsOwnHolds == Spec => []DeliversItsOwn
<1>1. GenerationInv => DeliversItsOwn
  BY DEF GenerationInv
<1> QED BY <1>1, GenerationInvHolds, PTL

(* What a generation returns is what the records and the summaries of its  *)
(* Runs say, for the action that failed and for those before it            *)
(* (record_verdict after run_and_record_with_doctor).                      *)
THEOREM EvidenceAgreesHolds == Spec => []EvidenceAgrees
<1>1. GenerationInv => EvidenceAgrees
  BY DEF GenerationInv
<1> QED BY <1>1, GenerationInvHolds, PTL

================================================================================
