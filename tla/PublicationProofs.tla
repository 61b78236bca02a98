-------------------------- MODULE PublicationProofs --------------------------
(***************************************************************************)
(* What is published, and when.  First a run over any facts: of complete   *)
(* facts that resolve accepts, where no package is split, the driver       *)
(* records every action of the plan and the gate opens.  Then a run of     *)
(* the fixed graph over one directory: what it publishes, for every set    *)
(* of sources, every number of failures, kills and edits, and any tools    *)
(* left running.                                                           *)
(*                                                                         *)
(* The plan of complete facts is looked at block by block: every action    *)
(* waits for those that make its inputs, discharges what only it closes,   *)
(* and comes after those it waits for (Orderly); every obligation that is  *)
(* neither rejected nor closed by resolve has one action that discharges   *)
(* it (Ready).  So the graph is Driven by the plan: the records follow     *)
(* its order, and Underway says of each obligation how far they have come. *)
(***************************************************************************)
EXTENDS ResolvedProductionProofs, FixedGraphPublication
-----------------------------------------------------------------------------
(* Complete facts: an output of each kind at most                          *)
Owned(facts, p, kind) == {Output(o.id) : o \in DeclaredBy(facts, p, kind)}

LEMMA FewOutputs ==
  ASSUME NEW facts, Facts(facts), Complete(facts), NEW p, NEW kind, NEW outs, outs = OutputsIn(facts, p, kind)
  PROVE  /\ \A c : ~PerSource(c, outs)
         /\ First(outs) = Owned(facts, p, kind) /\ All(outs) = Owned(facts, p, kind)
         /\ \/ outs = <<>>
            \/ \E o \in Elements(facts.outputs) :
                 o.package = p /\ o.kind = kind /\ outs = <<o>> /\ Owned(facts, p, kind) = {Output(o.id)}
<1>1. PICK s, K : s = facts.outputs /\ K = DeclaredBy(facts, p, kind)
  OBVIOUS
<1>2. IsList(s) /\ DOMAIN s = 1 .. Len(s)
  BY <1>1, FactsAreLists
<1>3. PICK e : Thinned(e, outs, s, K)
  BY <1>1, <1>2, ThinPlaces DEF OutputsIn
<1>4. PICK n \in Nat : n = Len(outs) /\ DOMAIN outs = 1 .. n
  BY <1>3, ListIsSeq DEF Thinned, IsList
<1>5. Elements(outs) = K
  BY <1>1, <1>2, ThinElements DEF OutputsIn, DeclaredBy
<1>6. ASSUME NEW x \in 1 .. n, NEW y \in 1 .. n, x < y PROVE FALSE
  <2>1. e[x] \in 1 .. Len(s) /\ e[y] \in 1 .. Len(s) /\ e[x] < e[y] /\ s[e[x]] \in K /\ s[e[y]] \in K
    BY <1>3, <1>4, <1>6 DEF Thinned, Places
  <2>2. e[x] = e[y]
    BY <1>1, <1>2, <2>1 DEF Complete, DeclaredBy
  <2> QED BY <1>2, <2>1, <2>2
<1>7. n = 0 \/ n = 1
  BY <1>6
<1>8. \A c : ~PerSource(c, outs)
  BY <1>4, <1>7 DEF PerSource
<1>9. CASE n = 0
  <2>1. outs = <<>>
    BY <1>3, <1>4, <1>9 DEF Thinned, IsList
  <2>2. K = {} /\ DOMAIN outs = {}
    BY <1>4, <1>5, <1>9 DEF Elements
  <2>3. First(outs) = {} /\ All(outs) = {} /\ Owned(facts, p, kind) = {}
    BY <1>1, <1>5, <2>2 DEF First, All, Owned
  <2> QED BY <1>8, <2>1, <2>3
<1>10. CASE n = 1
  <2>1. PICK o : o = outs[1]
    OBVIOUS
  <2>2. outs = <<o>>
    BY <1>3, <1>4, <1>10, <2>1 DEF Thinned, IsList
  <2>3. K = {o} /\ DOMAIN outs = {1}
    BY <1>4, <1>5, <1>10, <2>1 DEF Elements
  <2>4. o \in Elements(facts.outputs) /\ o.package = p /\ o.kind = kind
    BY <1>1, <2>3 DEF DeclaredBy
  <2>5. First(outs) = {Output(o.id)} /\ All(outs) = {Output(o.id)} /\ Owned(facts, p, kind) = {Output(o.id)}
    BY <1>1, <1>5, <2>1, <2>3 DEF First, All, Owned
  <2> QED BY <1>8, <2>2, <2>4, <2>5
<1> QED BY <1>7, <1>9, <1>10

EndKind == [Cargo |-> "RustObject", Nimble |-> "NimStaticLibrary", C |-> "CStaticArchive", Cpp |-> "CppStaticArchive"]

(* A provider exports something, so it is no Cargo package.                *)
LEMMA ChosenMakes ==
  ASSUME NEW facts, Facts(facts), NEW os, Finished(facts, os), NEW i \in ChosenIn(facts)
  PROVE  /\ facts.candidates[i] \in Elements(facts.candidates)
         /\ facts.candidates[i].ecosystem \in {"Cargo", "Nimble", "C", "Cpp"}
         /\ MadeBy(facts, i) = OutputsIn(facts, facts.candidates[i].package, EndKind[facts.candidates[i].ecosystem])
<1>1. PICK c : c = facts.candidates[i] /\ c \in Elements(facts.candidates)
  BY DEF ChosenIn, RootsIn, Elements
<1>2. c.ecosystem \in {"Cargo", "Nimble", "C", "Cpp"} /\ (c.ecosystem = "Cargo" => c.exports = {})
  BY <1>1 DEF Facts
<1>3. CASE c.package \in ProvidersIn(facts)
  <2>1. PICK r : i \in MatchIn(facts, r)
    BY <1>1, <1>3 DEF ChosenIn, RootsIn
  <2>2. c.exports # {}
    BY <1>1, <2>1 DEF MatchIn, Declares
  <2> QED BY <1>1, <1>2, <1>3, <2>2 DEF MadeBy, ArchiveKind, EndKind
<1>4. CASE c.package \notin ProvidersIn(facts)
  <2>1. i \in RootsIn(facts)
    BY <1>1, <1>4 DEF ChosenIn, RootsIn, MatchIn, ProvidersIn
  <2>2. c.ecosystem \in {"Cargo", "Nimble"}
    BY <1>1, <2>1 DEF Finished
  <2> QED BY <1>1, <1>2, <1>4, <2>2 DEF MadeBy, RootKind, EndKind
<1> QED BY <1>3, <1>4

(* The actions of a chosen candidate: what they make is its own, and the   *)
(* last one discharges its artifact.                                       *)
Enders == {"CompileRustObject", "CompileNimStaticLibrary", "ArchiveStaticLibrary"}

Private(facts, p) ==
  {Output(o.id) : o \in {x \in Elements(facts.outputs) : x.package = p /\ x.kind # "NativeExecutable"}}

Own(facts, i, a) ==
  /\ a.id[1] = a.kind /\ a.id[2] = facts.candidates[i].package
  /\ a.kind \in Compilers \cup {"ArchiveStaticLibrary"}
  /\ a.outputs \subseteq Private(facts, facts.candidates[i].package)
  /\ \/ a.discharges = <<>>
     \/ /\ Makes(facts, i) /\ a.discharges = <<ArtifactAt(facts, i)>>
        /\ a.outputs = {Output(MadeBy(facts, i)[1].id)} /\ a.kind \in Enders
Endings(facts, i, a) == Makes(facts, i) => a.discharges = <<ArtifactAt(facts, i)>>

Declared(facts)  == {Source(s.id) : s \in facts.sources}
Direct(facts, a) == a.dependsOn = {} /\ a.inputs \subseteq Declared(facts)

OneAction(facts, i, B) == \E a : B = <<a>> /\ Own(facts, i, a) /\ Endings(facts, i, a) /\ Direct(facts, a)
TwoActions(facts, i, B) ==
  \E a, b :
    /\ B = <<a, b>> /\ Own(facts, i, a) /\ Own(facts, i, b) /\ Endings(facts, i, b) /\ Direct(facts, a)
    /\ a.id # b.id /\ a.outputs \cap b.outputs = {} /\ b.dependsOn = {a.id} /\ b.inputs \subseteq a.outputs

LEMMA OwnedIsPrivate ==
  ASSUME NEW facts, Facts(facts), NEW p, NEW kind, kind # "NativeExecutable"
  PROVE  Owned(facts, p, kind) \subseteq Private(facts, p)
  BY DEF Owned, Private, DeclaredBy

LEMMA EndingOwns ==
  ASSUME NEW facts, Facts(facts), Complete(facts), NEW os, Finished(facts, os), NEW i \in ChosenIn(facts),
         NEW c, c = facts.candidates[i], NEW outs, outs = OutputsIn(facts, c.package, EndKind[c.ecosystem]),
         NEW a, a.id[1] = a.kind, a.id[2] = c.package, a.kind \in Enders,
         a.outputs = First(outs), a.discharges = Artifacts(outs)
  PROVE  Own(facts, i, a) /\ Endings(facts, i, a)
<1>1. MadeBy(facts, i) = outs /\ EndKind[c.ecosystem] # "NativeExecutable"
  BY ChosenMakes DEF EndKind
<1>2. a.outputs = Owned(facts, c.package, EndKind[c.ecosystem])
  BY FewOutputs
<1>3. a.outputs \subseteq Private(facts, c.package) /\ a.kind \in Compilers \cup {"ArchiveStaticLibrary"}
  BY <1>1, <1>2, OwnedIsPrivate DEF Enders, Compilers
<1>4. CASE outs = <<>>
  BY <1>1, <1>3, <1>4 DEF Own, Endings, Makes, Artifacts
<1>5. CASE outs # <<>>
  <2>1. PICK o : outs = <<o>> /\ a.outputs = {Output(o.id)}
    BY <1>2, <1>5, FewOutputs
  <2>2. outs[1] = o
    BY <2>1
  <2> QED BY <1>1, <1>3, <1>5, <2>1, <2>2 DEF Own, Endings, Makes, Artifacts, ArtifactAt
<1> QED BY <1>4, <1>5

LEMMA ActionFields ==
  ASSUME NEW id, NEW kind, NEW i, NEW o, NEW list, NEW needs, NEW a, a = Action(id, kind, i, o, list, needs)
  PROVE  a.id = id /\ a.kind = kind /\ a.inputs = i /\ a.outputs = o /\ a.discharges = list /\ a.dependsOn = needs
  BY DEF Action

LEMMA AppendOne ==
  ASSUME NEW a, NEW b
  PROVE  Append(<<a>>, b) = <<a, b>>
<1>1. PICK s, t : s = Append(<<a>>, b) /\ t = <<a, b>>
  OBVIOUS
<1>2. PICK u : u = <<a>>
  OBVIOUS
<1>2a. IsList(u) /\ Len(u) = 1 /\ u[1] = a
  BY <1>2 DEF IsList
<1>3. IsList(s) /\ Len(s) = 2 /\ s[1] = a /\ s[2] = b
  BY <1>1, <1>2, <1>2a, ListAppend
<1>4. IsList(t) /\ Len(t) = 2 /\ t[1] = a /\ t[2] = b
  BY <1>1 DEF IsList
<1>5. \A i \in 1 .. 2 : s[i] = t[i]
  BY <1>3, <1>4
<1>6. s = [i \in 1 .. 2 |-> s[i]] /\ t = [i \in 1 .. 2 |-> t[i]]
  BY <1>3, <1>4 DEF IsList
<1>7. s = t
  BY <1>5, <1>6
<1> QED BY <1>1, <1>7

LEMMA CompileOwns ==
  ASSUME NEW facts, Facts(facts), Complete(facts), NEW os, Finished(facts, os), NEW i \in ChosenIn(facts),
         NEW c, c = facts.candidates[i], NEW kind \in Enders, NEW kept, kept = EndKind[c.ecosystem],
         c.ecosystem \in {"Cargo", "Nimble"}
  PROVE  OneAction(facts, i, CompileIn(facts, c, kind, kept))
<1>1. PICK outs, a :
        /\ outs = OutputsIn(facts, c.package, kept)
        /\ a = Action(<<kind, c.package>>, kind, {Source(facts.lowerings[c.package])}, First(outs), Artifacts(outs), {})
  OBVIOUS
<1>2. c \in Elements(facts.candidates) /\ c.package \in DOMAIN facts.lowerings
  BY ChosenMakes DEF Complete
<1>3. PICK made, list, from : made = First(outs) /\ list = Artifacts(outs) /\ from = {Source(facts.lowerings[c.package])}
  OBVIOUS
<1>4. /\ a.id = <<kind, c.package>> /\ a.kind = kind /\ a.inputs = from
      /\ a.outputs = made /\ a.discharges = list /\ a.dependsOn = {}
  BY <1>1, <1>3 DEF Action
<1>5. Own(facts, i, a) /\ Endings(facts, i, a)
  <2>1. a.id[1] = a.kind /\ a.id[2] = c.package /\ a.kind \in Enders
    BY <1>4
  <2>2. outs = OutputsIn(facts, c.package, EndKind[c.ecosystem]) /\ a.outputs = First(outs) /\ a.discharges = Artifacts(outs)
    BY <1>1, <1>3, <1>4
  <2> QED BY <2>1, <2>2, EndingOwns
<1>6. Direct(facts, a)
  BY <1>2, <1>3, <1>4 DEF Complete, Direct, Declared
<1>7. CompileIn(facts, c, kind, kept) = <<a>>
  BY <1>1, <1>2 DEF CompileIn
<1> QED BY <1>5, <1>6, <1>7 DEF OneAction

LEMMA ArchiveOwns ==
  ASSUME NEW facts, Facts(facts), Complete(facts), NEW os, Finished(facts, os), NEW i \in ChosenIn(facts),
         NEW c, c = facts.candidates[i], NEW kind \in Compilers, NEW kept \in {"CObject", "CppAdapterObject"},
         c.ecosystem \in {"C", "Cpp"}
  PROVE  TwoActions(facts, i, ArchivedIn(facts, c, kind, kept))
<1>1. PICK objects, outs, a, b :
        /\ objects = OutputsIn(facts, c.package, kept)
        /\ outs = OutputsIn(facts, c.package, ArchiveKind[c.ecosystem])
        /\ a = Action(<<kind, c.package, c.version>>, kind, SourcesOf(c), First(objects), <<>>, {})
        /\ b = ArchiveIn(facts, c, "ArchiveStaticLibrary", <<a>>, objects)
  OBVIOUS
<1>2. CompileObjects(c, kind, objects) = <<a>> /\ First(objects) = Owned(facts, c.package, kept)
      /\ All(objects) = Owned(facts, c.package, kept) /\ First(outs) = Owned(facts, c.package, ArchiveKind[c.ecosystem])
  BY <1>1, FewOutputs DEF CompileObjects
<1>3. ArchivedIn(facts, c, kind, kept) = <<a, b>>
  <2>1. ArchivedIn(facts, c, kind, kept) = Append(<<a>>, b)
    BY <1>1, <1>2 DEF ArchivedIn
  <2> QED BY <2>1, AppendOne
<1>4. ArchiveKind[c.ecosystem] = EndKind[c.ecosystem] /\ ArchiveKind[c.ecosystem] \in {"CStaticArchive", "CppStaticArchive"}
  BY DEF ArchiveKind, EndKind
<1>5. /\ a.id = <<kind, c.package, c.version>> /\ a.kind = kind /\ a.inputs = SourcesOf(c)
      /\ a.outputs = Owned(facts, c.package, kept) /\ a.discharges = <<>> /\ a.dependsOn = {}
  BY <1>1, <1>2, ActionFields
<1>6. /\ b.id = <<"ArchiveStaticLibrary", c.package, c.version>> /\ b.kind = "ArchiveStaticLibrary"
      /\ b.inputs = Owned(facts, c.package, kept) /\ b.outputs = First(outs) /\ b.discharges = Artifacts(outs)
      /\ b.dependsOn = {a.id}
  <2>1. {x.id : x \in Elements(<<a>>)} = {a.id}
    BY DEF Elements
  <2>2. b = Action(<<"ArchiveStaticLibrary", c.package, c.version>>, "ArchiveStaticLibrary",
                   Owned(facts, c.package, kept), First(outs), Artifacts(outs), {a.id})
    BY <1>1, <1>2, <2>1 DEF ArchiveIn
  <2> QED BY <2>2, ActionFields
<1>7. a.id[1] = a.kind /\ a.id[2] = c.package /\ b.id[1] = b.kind /\ b.id[2] = c.package /\ a.id # b.id
  BY <1>5, <1>6 DEF Compilers
<1>8. Own(facts, i, b) /\ Endings(facts, i, b)
  <2>1. b.kind \in Enders
    BY <1>6 DEF Enders
  <2>2. outs = OutputsIn(facts, c.package, EndKind[c.ecosystem]) /\ b.outputs = First(outs) /\ b.discharges = Artifacts(outs)
    BY <1>1, <1>4, <1>6
  <2> QED BY <1>7, <2>1, <2>2, EndingOwns
<1>9. Own(facts, i, a)
  BY <1>5, <1>7, OwnedIsPrivate DEF Own
<1>10. Direct(facts, a)
  <2>1. c.sources \subseteq {s.id : s \in facts.sources}
    BY ChosenMakes DEF Complete
  <2> QED BY <1>5, <2>1 DEF Direct, Declared, SourcesOf
<1>11. a.outputs \cap b.outputs = {}
  <2>1. SUFFICES ASSUME NEW o \in DeclaredBy(facts, c.package, kept), NEW x \in DeclaredBy(facts, c.package, ArchiveKind[c.ecosystem]),
                        Output(o.id) = Output(x.id)
                 PROVE  FALSE
    BY <1>2, <1>5, <1>6 DEF Owned
  <2>2. o.id = x.id /\ o \in Elements(facts.outputs) /\ x \in Elements(facts.outputs)
    BY <2>1, SameIds DEF DeclaredBy, Output
  <2>3. o = x
    BY <2>2 DEF Complete, Elements
  <2> QED BY <1>4, <2>3 DEF DeclaredBy
<1> QED BY <1>3, <1>5, <1>6, <1>7, <1>8, <1>9, <1>10, <1>11 DEF TwoActions

LEMMA ChosenBlock ==
  ASSUME NEW facts, Facts(facts), Complete(facts), NEW os, Finished(facts, os), NEW i \in ChosenIn(facts)
  PROVE  LET B == Block(facts, os, facts.candidates[i]) IN OneAction(facts, i, B) \/ TwoActions(facts, i, B)
<1>1. PICK c : c = facts.candidates[i] /\ c.ecosystem \in {"Cargo", "Nimble", "C", "Cpp"}
  BY ChosenMakes
<1>2. Block(facts, os, c) = ChainIn(facts, c)
  <2>1. Facts(facts) /\ Has(os, Selection(c), Taken(c))
    BY <1>1, AllServed DEF Finished, Built, HasChoice, IdAt
  <2> QED BY <2>1, ObligationFields DEF Block, Picked, Has, Taken
<1>3. "CompileRustObject" \in Enders /\ "CompileNimStaticLibrary" \in Enders
      /\ "CompileCObject" \in Compilers /\ "CompileCppAdapterObject" \in Compilers
  BY DEF Enders, Compilers
<1>4. CASE c.ecosystem = "Cargo"
  BY <1>1, <1>2, <1>3, <1>4, CompileOwns DEF ChainIn, EndKind
<1>5. CASE c.ecosystem = "Nimble"
  BY <1>1, <1>2, <1>3, <1>5, CompileOwns DEF ChainIn, EndKind
<1>6. CASE c.ecosystem = "C"
  BY <1>1, <1>2, <1>3, <1>6, ArchiveOwns DEF ChainIn
<1>7. CASE c.ecosystem = "Cpp"
  BY <1>1, <1>2, <1>3, <1>7, ArchiveOwns DEF ChainIn
<1> QED BY <1>1, <1>4, <1>5, <1>6, <1>7

(* What is not chosen is rejected, and has no actions.                     *)
LEMMA OtherBlock ==
  ASSUME NEW facts, Regular(facts), Complete(facts), Decided(facts), NEW os, Finished(facts, os),
         NEW j \in DOMAIN facts.candidates \ ChosenIn(facts)
  PROVE  Has(os, IdAt(facts, j), Refused(facts.candidates[j])) /\ Block(facts, os, facts.candidates[j]) = <<>>
<1>1. facts.candidates[j].package \in ProvidersIn(facts)
  BY DEF ChosenIn, RootsIn
<1>2. PICK r \in Elements(facts.requirements) : r.provider = facts.candidates[j].package
  BY <1>1 DEF ProvidersIn
<1>3. PICK i : i \in MatchIn(facts, r)
  BY <1>2 DEF Decided, Suits
<1>4. i \in ChosenIn(facts) /\ i \in DOMAIN facts.candidates /\ facts.candidates[i].package = facts.candidates[j].package
  BY <1>2, <1>3 DEF ChosenIn, MatchIn
<1>5. IdAt(facts, i) # IdAt(facts, j) /\ \A k \in DOMAIN facts.candidates : IdAt(facts, k) = IdAt(facts, j) => k = j
  BY <1>4 DEF Complete, IdAt
<1>6. facts.candidates[i].version # facts.candidates[j].version
  BY <1>4, <1>5 DEF IdAt, Selection
<1>7. \A k \in DOMAIN facts.candidates : IdAt(facts, k) = IdAt(facts, j) => k <= j
  <2>1. j \in Nat
    BY FactsAreLists DEF Regular
  <2> QED BY <1>5, <2>1
<1>8. Rival(facts, i, j)
  BY <1>4, <1>6, <1>7 DEF Rival
<1>9. Has(os, IdAt(facts, j), Refused(facts.candidates[j]))
  BY <1>4, <1>8, AllServed DEF Finished, Built, HasChoice, Regular
<1> QED BY <1>9, ObligationFields DEF Has, Refused, Block, Picked, IdAt

-----------------------------------------------------------------------------
(* Plans that the driver can follow *)

(* No two actions have anything to record in common.                       *)
Separate(a, b) ==
  /\ a.id # b.id /\ a.outputs \cap b.outputs = {}
  /\ Elements(a.discharges) \cap Elements(b.discharges) = {}

(* An action discharges, once, what is of its kinds, and makes no source.  *)
Sane(facts, a) ==
  /\ IsList(a.discharges)
  /\ \A x, y \in DOMAIN a.discharges : a.discharges[x] = a.discharges[y] => x = y
  /\ \A id \in Elements(a.discharges) : KindOf(id) \in Dischargeable[a.kind]
  /\ a.outputs \cap Declared(facts) = {}

(* What it depends on is among the first n, and what it reads is declared, *)
(* or made by one of them that it waits for.                               *)
WaitsFor(s, n, a, b) ==
  b.id \in a.dependsOn \/ \E m \in 1 .. n : s[m].id \in a.dependsOn /\ b.id \in s[m].dependsOn
Backed(facts, s, n, a) ==
  /\ a.dependsOn \subseteq {s[j].id : j \in 1 .. n}
  /\ \A x \in a.inputs : x \in Declared(facts) \/ \E j \in 1 .. n : x \in s[j].outputs /\ WaitsFor(s, n, a, s[j])

Orderly(facts, s) ==
  /\ IsList(s)
  /\ \A k \in 1 .. Len(s) : /\ Sane(facts, s[k]) /\ Backed(facts, s, k - 1, s[k])
                            /\ \A j \in 1 .. k - 1 : Separate(s[j], s[k])

LEMMA BackedStays ==
  ASSUME NEW facts, NEW s, NEW t, NEW n \in Nat, \A j \in 1 .. n : t[j] = s[j], NEW a, Backed(facts, s, n, a)
  PROVE  Backed(facts, t, n, a)
  BY DEF Backed, WaitsFor

(* One more element.                                                       *)
Grown(s, a, t) == IsList(t) /\ Len(t) = Len(s) + 1 /\ t[Len(s) + 1] = a /\ \A k \in 1 .. Len(s) : t[k] = s[k]

LEMMA AppendGrows ==
  ASSUME NEW s, IsList(s), NEW a
  PROVE  Grown(s, a, Append(s, a))
  BY ListAppend DEF Grown

LEMMA OrderlyGrown ==
  ASSUME NEW facts, NEW s, Orderly(facts, s), NEW a, Sane(facts, a), Backed(facts, s, Len(s), a),
         \A j \in 1 .. Len(s) : Separate(s[j], a), NEW t, Grown(s, a, t)
  PROVE  Orderly(facts, t)
<1>2. PICK n \in Nat : n = Len(s) /\ IsList(t) /\ Len(t) = n + 1 /\ t[n + 1] = a /\ \A j \in 1 .. n : t[j] = s[j]
  BY DEF Orderly, IsList, Grown
<1>3. ASSUME NEW k \in 1 .. Len(t)
      PROVE  Sane(facts, t[k]) /\ Backed(facts, t, k - 1, t[k]) /\ \A j \in 1 .. k - 1 : Separate(t[j], t[k])
  <2>1. CASE k = n + 1
    <3>1. Backed(facts, t, n, a)
      BY <1>2, BackedStays
    <3> QED BY <1>2, <2>1, <3>1
  <2>2. CASE k # n + 1
    <3>1. k \in 1 .. n /\ t[k] = s[k] /\ k - 1 \in Nat /\ \A j \in 1 .. k - 1 : t[j] = s[j]
      BY <1>2, <1>3, <2>2
    <3>2. Sane(facts, s[k]) /\ Backed(facts, s, k - 1, s[k]) /\ \A j \in 1 .. k - 1 : Separate(s[j], s[k])
      BY <1>2, <3>1 DEF Orderly
    <3>3. Backed(facts, t, k - 1, s[k])
      BY <3>1, <3>2, BackedStays
    <3> QED BY <3>1, <3>2, <3>3
  <2> QED BY <2>1, <2>2
<1> QED BY <1>2, <1>3 DEF Orderly

LEMMA OrderlyAppend ==
  ASSUME NEW facts, NEW s, Orderly(facts, s), NEW a, Sane(facts, a), Backed(facts, s, Len(s), a),
         \A j \in 1 .. Len(s) : Separate(s[j], a)
  PROVE  Orderly(facts, Append(s, a))
<1>1. IsList(s)
  BY DEF Orderly
<1>2. Grown(s, a, Append(s, a))
  BY <1>1, AppendGrows
<1> QED BY <1>2, OrderlyGrown

LEMMA OwnIsSane ==
  ASSUME NEW facts, NEW i, NEW a, Own(facts, i, a)
  PROVE  Sane(facts, a)
<1>1. a.outputs \cap Declared(facts) = {}
  BY DEF Own, Private, Declared, Output, Source
<1>2. CASE a.discharges = <<>>
  BY <1>1, <1>2, EmptyList DEF Sane, Elements
<1>3. CASE a.discharges # <<>>
  <2>1. PICK d : d = a.discharges /\ IsList(d) /\ d = <<ArtifactAt(facts, i)>>
    BY <1>3, ShortLists DEF Own
  <2>2. PICK x : x = ArtifactAt(facts, i) /\ KindOf(x) = "ArtifactProduction"
    BY KindsOfIds DEF ArtifactAt
  <2>3. DOMAIN d = {1} /\ d[1] = x
    BY <2>1, <2>2
  <2>4. "ArtifactProduction" \in Dischargeable[a.kind]
    BY DEF Own, Dischargeable, Compilers, ActionKinds
  <2> QED BY <1>1, <2>1, <2>2, <2>3, <2>4 DEF Sane, Elements
<1> QED BY <1>2, <1>3

LEMMA CompleteIsRegular ==
  ASSUME NEW facts, Facts(facts), ~Split(facts), Complete(facts)
  PROVE  Regular(facts)
<1>1. ASSUME NEW o \in Elements(facts.outputs), NEW x \in Elements(facts.outputs), o.id = x.id PROVE o = x
  BY <1>1 DEF Elements, Complete
<1> QED BY <1>1 DEF Regular, DeclaredOnce

(* Of two chosen packages, or of one executable and a package.             *)
LEMMA OwnersSeparate ==
  ASSUME NEW facts, Regular(facts), Decided(facts), NEW i \in ChosenIn(facts), NEW j \in ChosenIn(facts), i # j,
         NEW a, Own(facts, i, a), NEW b, Own(facts, j, b)
  PROVE  Separate(a, b)
<1>1. facts.candidates[i].package # facts.candidates[j].package
  BY OneChosen DEF Decided
<1>2. a.id # b.id
  BY <1>1 DEF Own
<1>3. a.outputs \cap b.outputs = {}
  <2>1. SUFFICES ASSUME NEW x \in a.outputs, x \in b.outputs PROVE FALSE
    OBVIOUS
  <2>2. PICK o \in Elements(facts.outputs) : x = Output(o.id) /\ o.package = facts.candidates[i].package
    BY <2>1 DEF Own, Private
  <2>3. PICK y \in Elements(facts.outputs) : x = Output(y.id) /\ y.package = facts.candidates[j].package
    BY <2>1 DEF Own, Private
  <2>4. o.id = y.id
    BY <2>2, <2>3 DEF Output
  <2> QED BY <1>1, <2>2, <2>3, <2>4 DEF Regular, DeclaredOnce
<1>4. Elements(a.discharges) \cap Elements(b.discharges) = {}
  <2>1. CASE a.discharges = <<>> \/ b.discharges = <<>>
    BY <2>1 DEF Elements
  <2>2. CASE a.discharges # <<>> /\ b.discharges # <<>>
    <3>1. PICK x, y : /\ x = MadeBy(facts, i)[1].id /\ a.discharges = <<Artifact(x)>> /\ a.outputs = {Output(x)}
                      /\ y = MadeBy(facts, j)[1].id /\ b.discharges = <<Artifact(y)>> /\ b.outputs = {Output(y)}
      BY <2>2 DEF Own, ArtifactAt
    <3>2. x # y
      BY <1>3, <3>1
    <3>3. Artifact(x) # Artifact(y)
      BY <3>2, SameIds
    <3>4. Elements(a.discharges) = {Artifact(x)} /\ Elements(b.discharges) = {Artifact(y)}
      BY <3>1 DEF Elements
    <3> QED BY <3>3, <3>4
  <2> QED BY <2>1, <2>2
<1> QED BY <1>2, <1>3, <1>4 DEF Separate

LEMMA SameLists ==
  ASSUME NEW s, IsList(s), NEW t, IsList(t), Len(s) = Len(t), \A k \in 1 .. Len(s) : s[k] = t[k]
  PROVE  s = t
<1>1. PICK n \in Nat : n = Len(s) /\ n = Len(t)
  BY DEF IsList
<1>2. s = [k \in 1 .. n |-> s[k]] /\ t = [k \in 1 .. n |-> t[k]]
  BY <1>1 DEF IsList
<1> QED BY <1>1, <1>2

LEMMA ConcatIs ==
  ASSUME NEW s, IsList(s), NEW t, IsList(t)
  PROVE  \E z : /\ z = s \o t /\ IsList(z) /\ Len(z) = Len(s) + Len(t)
               /\ \A k \in 1 .. Len(s) + Len(t) : z[k] = IF k <= Len(s) THEN s[k] ELSE t[k - Len(s)]
<1>1. /\ IsList(s \o t) /\ Len(s \o t) = Len(s) + Len(t)
      /\ \A k \in 1 .. Len(s) + Len(t) : (s \o t)[k] = IF k <= Len(s) THEN s[k] ELSE t[k - Len(s)]
  BY ConcatList
<1> QED BY <1>1

LEMMA ConcatNothing ==
  ASSUME NEW s, IsList(s), NEW t, IsList(t), Len(t) = 0
  PROVE  s \o t = s
<1>1. PICK z : /\ z = s \o t /\ IsList(z) /\ Len(z) = Len(s) + Len(t)
               /\ \A k \in 1 .. Len(s) + Len(t) : z[k] = IF k <= Len(s) THEN s[k] ELSE t[k - Len(s)]
  BY ConcatIs
<1>2. PICK n \in Nat : n = Len(s)
  BY DEF IsList
<1>3. Len(z) = n /\ \A k \in 1 .. n : z[k] = s[k]
  BY <1>1, <1>2
<1>4. z = s
  BY <1>1, <1>2, <1>3, SameLists
<1> QED BY <1>1, <1>4

LEMMA ConcatAppends ==
  ASSUME NEW s, IsList(s), NEW a, NEW b
  PROVE  s \o <<a>> = Append(s, a) /\ s \o <<a, b>> = Append(Append(s, a), b)
<1>1. PICK n \in Nat : n = Len(s)
  BY DEF IsList
<1>2. PICK x, y : x = Append(s, a) /\ y = Append(x, b)
  OBVIOUS
<1>3. IsList(x) /\ Len(x) = n + 1 /\ x[n + 1] = a /\ \A k \in 1 .. n : x[k] = s[k]
  BY <1>1, <1>2, ListAppend
<1>4. IsList(y) /\ Len(y) = n + 2 /\ y[n + 2] = b /\ \A k \in 1 .. n + 1 : y[k] = x[k]
  BY <1>2, <1>3, ListAppend
<1>5. PICK u, v : u = <<a>> /\ v = <<a, b>>
  OBVIOUS
<1>6. IsList(u) /\ Len(u) = 1 /\ u[1] = a /\ IsList(v) /\ Len(v) = 2 /\ v[1] = a /\ v[2] = b
  BY <1>5 DEF IsList
<1>7. s \o u = x
  <2>0. IsList(u) /\ Len(u) = 1
    BY <1>6
  <2>1. PICK z : z = s \o u /\ IsList(z) /\ Len(z) = Len(s) + Len(u)
                 /\ \A k \in 1 .. Len(s) + Len(u) : z[k] = IF k <= Len(s) THEN s[k] ELSE u[k - Len(s)]
    BY <2>0, ConcatIs
  <2>2. IsList(z) /\ Len(z) = n + 1 /\ \A k \in 1 .. n + 1 : z[k] = IF k <= n THEN s[k] ELSE u[k - n]
    BY <1>1, <2>0, <2>1
  <2>3. \A k \in 1 .. n + 1 : z[k] = x[k]
    BY <1>3, <1>6, <2>2
  <2> QED BY <1>3, <2>1, <2>2, <2>3, SameLists
<1>8. s \o v = y
  <2>0. IsList(v) /\ Len(v) = 2
    BY <1>6
  <2>1. PICK z : z = s \o v /\ IsList(z) /\ Len(z) = Len(s) + Len(v)
                 /\ \A k \in 1 .. Len(s) + Len(v) : z[k] = IF k <= Len(s) THEN s[k] ELSE v[k - Len(s)]
    BY <2>0, ConcatIs
  <2>2. IsList(z) /\ Len(z) = n + 2 /\ \A k \in 1 .. n + 2 : z[k] = IF k <= n THEN s[k] ELSE v[k - n]
    BY <1>1, <2>0, <2>1
  <2>3. \A k \in 1 .. n + 2 : z[k] = y[k]
    BY <1>3, <1>4, <1>6, <2>2
  <2> QED BY <1>4, <2>1, <2>2, <2>3, SameLists
<1> QED BY <1>2, <1>5, <1>7, <1>8

(* The actions of the first n candidates.                                  *)
Owners(facts, n, s) == \A k \in 1 .. Len(s) : \E i \in ChosenIn(facts) : i <= n /\ Own(facts, i, s[k])
Enough(facts, n, s) ==
  \A i \in ChosenIn(facts) : i <= n /\ Makes(facts, i) =>
    \E k \in 1 .. Len(s) : s[k].discharges = <<ArtifactAt(facts, i)>>
PlanOf(facts, n, s) == Orderly(facts, s) /\ Owners(facts, n, s) /\ Enough(facts, n, s)

LEMMA OwnersAppend ==
  ASSUME NEW facts, NEW n, NEW s, IsList(s), Owners(facts, n, s), NEW i \in ChosenIn(facts), i <= n,
         NEW a, Own(facts, i, a)
  PROVE  Owners(facts, n, Append(s, a))
<1>1. PICK t, l : t = Append(s, a) /\ l = Len(s) /\ l \in Nat
  BY DEF IsList
<1>2. Len(t) = l + 1 /\ t[l + 1] = a /\ \A k \in 1 .. l : t[k] = s[k]
  BY <1>1, ListAppend
<1>3. ASSUME NEW k \in 1 .. Len(t) PROVE k = l + 1 \/ (k \in 1 .. l /\ t[k] = s[k])
  BY <1>1, <1>2
<1> QED BY <1>1, <1>2, <1>3 DEF Owners

LEMMA EnoughAppend ==
  ASSUME NEW facts, NEW n, NEW s, IsList(s), Enough(facts, n, s), NEW a
  PROVE  Enough(facts, n, Append(s, a))
<1>1. PICK t, l : t = Append(s, a) /\ l = Len(s) /\ l \in Nat
  BY DEF IsList
<1>2. Len(t) = l + 1 /\ \A k \in 1 .. l : k \in 1 .. Len(t) /\ t[k] = s[k]
  BY <1>1, ListAppend
<1> QED BY <1>1, <1>2 DEF Enough

LEMMA EnoughNext ==
  ASSUME NEW facts, Facts(facts), NEW n \in Nat, NEW s, IsList(s), Enough(facts, n, s), NEW a, Endings(facts, n + 1, a)
  PROVE  Enough(facts, n + 1, Append(s, a))
<1>1. PICK t, l : t = Append(s, a) /\ l = Len(s) /\ l \in Nat
  BY DEF IsList
<1>2. Len(t) = l + 1 /\ t[l + 1] = a
  BY <1>1, ListAppend
<1>3. Enough(facts, n, t)
  BY <1>1, EnoughAppend
<1>4. ChosenIn(facts) \subseteq Nat
  BY FactsAreLists DEF ChosenIn, RootsIn
<1>5. ASSUME NEW i \in ChosenIn(facts), i <= n + 1, Makes(facts, i)
      PROVE  \E k \in 1 .. Len(t) : t[k].discharges = <<ArtifactAt(facts, i)>>
  <2>1. i <= n \/ i = n + 1
    BY <1>4, <1>5
  <2>2. CASE i = n + 1
    <3>1. t[l + 1].discharges = <<ArtifactAt(facts, i)>> /\ l + 1 \in 1 .. Len(t)
      BY <1>1, <1>2, <1>5, <2>2 DEF Endings
    <3> QED BY <3>1
  <2>3. CASE i <= n
    BY <1>3, <1>5, <2>3 DEF Enough
  <2> QED BY <2>1, <2>2, <2>3
<1> QED BY <1>1, <1>5 DEF Enough

LEMMA OwnersWiden ==
  ASSUME NEW facts, Facts(facts), NEW n \in Nat, NEW s, Owners(facts, n, s)
  PROVE  Owners(facts, n + 1, s)
<1>1. ChosenIn(facts) \subseteq Nat
  BY FactsAreLists DEF ChosenIn, RootsIn
<1>2. \A i \in ChosenIn(facts) : i <= n => i <= n + 1
  BY <1>1
<1> QED BY <1>2 DEF Owners

LEMMA OwnersBefore ==
  ASSUME NEW facts, Regular(facts), Decided(facts), NEW n \in Nat, NEW s, Owners(facts, n, s),
         n + 1 \in ChosenIn(facts), NEW a, Own(facts, n + 1, a), NEW j \in 1 .. Len(s)
  PROVE  Separate(s[j], a)
<1>1. PICK i \in ChosenIn(facts) : i <= n /\ Own(facts, i, s[j])
  BY DEF Owners
<1>2. i # n + 1
  BY <1>1, FactsAreLists DEF ChosenIn, RootsIn, Regular
<1> QED BY <1>1, <1>2, OwnersSeparate

LEMMA BlockStep ==
  ASSUME NEW facts, Regular(facts), Complete(facts), Decided(facts), NEW os, Finished(facts, os),
         NEW n \in Nat, n + 1 \in DOMAIN facts.candidates, NEW s, PlanOf(facts, n, s),
         NEW B, B = Block(facts, os, facts.candidates[n + 1])
  PROVE  PlanOf(facts, n + 1, s \o B)
<1>1. IsList(s) /\ Orderly(facts, s) /\ Owners(facts, n + 1, s) /\ Facts(facts)
  BY OwnersWiden DEF PlanOf, Orderly, Regular
<1>2. CASE n + 1 \notin ChosenIn(facts)
  <2>1. B = <<>> /\ s \o B = s
    <3>1. B = <<>>
      BY <1>2, OtherBlock
    <3>2. IsList(B) /\ Len(B) = 0
      BY <3>1, EmptyList
    <3> QED BY <1>1, <3>1, <3>2, ConcatNothing
  <2>2. ChosenIn(facts) \subseteq Nat
    BY <1>1, FactsAreLists DEF ChosenIn, RootsIn
  <2>3. Enough(facts, n + 1, s)
    <3>1. \A i \in ChosenIn(facts) : i <= n + 1 => i <= n
      BY <1>2, <2>2
    <3> QED BY <3>1 DEF PlanOf, Enough
  <2> QED BY <1>1, <2>1, <2>3 DEF PlanOf
<1>3. CASE n + 1 \in ChosenIn(facts)
  <2>1. OneAction(facts, n + 1, B) \/ TwoActions(facts, n + 1, B)
    BY <1>1, <1>3, ChosenBlock
  <2>2. \A a : Direct(facts, a) => Backed(facts, s, Len(s), a)
    BY DEF Direct, Backed
  <2>3. n + 1 <= n + 1
    OBVIOUS
  <2>4. CASE OneAction(facts, n + 1, B)
    <3>1. PICK a : B = <<a>> /\ Own(facts, n + 1, a) /\ Endings(facts, n + 1, a) /\ Direct(facts, a)
      BY <2>4 DEF OneAction
    <3>2. s \o B = Append(s, a)
      BY <1>1, <3>1, ConcatAppends
    <3>3. Sane(facts, a) /\ Backed(facts, s, Len(s), a) /\ \A j \in 1 .. Len(s) : Separate(s[j], a)
      BY <1>3, <2>2, <3>1, OwnIsSane, OwnersBefore DEF PlanOf
    <3>4. Orderly(facts, Append(s, a))
      BY <1>1, <3>3, OrderlyAppend
    <3>5. Owners(facts, n + 1, Append(s, a))
      BY <1>1, <1>3, <2>3, <3>1, OwnersAppend
    <3>6. Enough(facts, n + 1, Append(s, a))
      BY <1>1, <3>1, EnoughNext DEF PlanOf
    <3> QED BY <3>2, <3>4, <3>5, <3>6 DEF PlanOf
  <2>5. CASE TwoActions(facts, n + 1, B)
    <3>1. PICK a, b :
            /\ B = <<a, b>> /\ Own(facts, n + 1, a) /\ Own(facts, n + 1, b) /\ Endings(facts, n + 1, b) /\ Direct(facts, a)
            /\ a.id # b.id /\ a.outputs \cap b.outputs = {} /\ b.dependsOn = {a.id} /\ b.inputs \subseteq a.outputs
      BY <2>5 DEF TwoActions
    <3>2. PICK t : t = Append(s, a)
      OBVIOUS
    <3>3. PICK l \in Nat : l = Len(s) /\ IsList(t) /\ Len(t) = l + 1 /\ t[l + 1] = a /\ \A k \in 1 .. l : t[k] = s[k]
      BY <1>1, <3>2, ListAppend DEF IsList
    <3>4. Sane(facts, a) /\ Sane(facts, b) /\ Backed(facts, s, Len(s), a)
      BY <2>2, <3>1, OwnIsSane
    <3>5. \A j \in 1 .. Len(s) : Separate(s[j], a) /\ Separate(s[j], b)
      BY <1>3, <3>1, OwnersBefore DEF PlanOf
    <3>6. Orderly(facts, t)
      BY <1>1, <3>2, <3>4, <3>5, OrderlyAppend
    <3>7. Separate(a, b)
      <4>1. CASE a.discharges = <<>> \/ b.discharges = <<>>
        BY <3>1, <4>1 DEF Separate, Elements
      <4>2. CASE a.discharges # <<>> /\ b.discharges # <<>>
        BY <3>1, <4>2 DEF Own
      <4> QED BY <4>1, <4>2
    <3>8. \A j \in 1 .. Len(t) : Separate(t[j], b)
      <4>1. SUFFICES ASSUME NEW j \in 1 .. Len(t) PROVE Separate(t[j], b)
        OBVIOUS
      <4>2. j = l + 1 \/ (j \in 1 .. Len(s) /\ t[j] = s[j])
        BY <3>3
      <4> QED BY <3>3, <3>5, <3>7, <4>2
    <3>9. Backed(facts, t, Len(t), b)
      <4>1. l + 1 \in 1 .. Len(t) /\ t[l + 1] = a
        BY <3>3
      <4>2. b.dependsOn \subseteq {t[j].id : j \in 1 .. Len(t)}
        BY <3>1, <4>1
      <4>3. \A x \in b.inputs : x \in t[l + 1].outputs /\ WaitsFor(t, Len(t), b, t[l + 1])
        BY <3>1, <4>1 DEF WaitsFor
      <4> QED BY <4>1, <4>2, <4>3 DEF Backed
    <3>10. Orderly(facts, Append(t, b))
      BY <3>4, <3>6, <3>8, <3>9, OrderlyAppend
    <3>11. Owners(facts, n + 1, Append(t, b))
      <4>1. Owners(facts, n + 1, t)
        BY <1>1, <1>3, <2>3, <3>1, <3>2, OwnersAppend
      <4> QED BY <1>3, <2>3, <3>1, <3>3, <4>1, OwnersAppend
    <3>12. Enough(facts, n + 1, Append(t, b))
      <4>1. Enough(facts, n, t)
        BY <1>1, <3>2, EnoughAppend DEF PlanOf
      <4> QED BY <1>1, <3>1, <3>3, <4>1, EnoughNext
    <3>13. s \o B = Append(t, b)
      BY <1>1, <3>1, <3>2, ConcatAppends
    <3> QED BY <3>10, <3>11, <3>12, <3>13 DEF PlanOf
  <2> QED BY <2>1, <2>4, <2>5
<1> QED BY <1>2, <1>3

LEMMA PlannedIsOrderly ==
  ASSUME NEW facts, Regular(facts), Complete(facts), Decided(facts), NEW os, Finished(facts, os)
  PROVE  PlanOf(facts, Len(facts.candidates), Planned(facts, os))
<1>1. PICK seqs : seqs = [i \in DOMAIN facts.candidates |-> Block(facts, os, facts.candidates[i])]
  OBVIOUS
<1>2. PICK m \in Nat : m = Len(facts.candidates) /\ DOMAIN facts.candidates = 1 .. m
  BY FactsAreLists, ListIsSeq DEF Regular, IsList
<1>3. Len(seqs) = m /\ IsList(seqs)
  <2>1. seqs = [i \in 1 .. m |-> seqs[i]]
    BY <1>1, <1>2
  <2> QED BY <2>1, FunctionIsList
<1>4. \A i \in 1 .. m : seqs[i] = Block(facts, os, facts.candidates[i]) /\ IsList(seqs[i])
  <2>1. SUFFICES ASSUME NEW i \in 1 .. m PROVE seqs[i] = Block(facts, os, facts.candidates[i]) /\ IsList(seqs[i])
    OBVIOUS
  <2>2. facts.candidates[i] \in Elements(facts.candidates) /\ seqs[i] = Block(facts, os, facts.candidates[i])
    BY <1>1, <1>2 DEF Elements
  <2> QED BY <2>2, BlockFits DEF Fits, Good, Regular
<1>5. PICK f : Beginnings(f, seqs, m)
  BY <1>3, <1>4, FlattenBeginnings
<1> DEFINE S == {n \in 0 .. m : PlanOf(facts, n, f[n])}
<1>6. 0 \in S
  <2>1. IsList(f[0]) /\ Len(f[0]) = 0
    BY <1>5, EmptyList DEF Beginnings
  <2>2. ChosenIn(facts) \subseteq Nat /\ \A i \in ChosenIn(facts) : ~(i <= 0)
    BY <1>2 DEF ChosenIn, RootsIn
  <2> QED BY <2>1, <2>2 DEF PlanOf, Orderly, Owners, Enough
<1>7. ASSUME NEW i \in 1 .. m, i - 1 \in S PROVE i \in S
  <2>1. PICK n \in Nat : n = i - 1 /\ n + 1 = i /\ PlanOf(facts, n, f[n])
    BY <1>7
  <2>2. f[i] = f[n] \o Block(facts, os, facts.candidates[n + 1])
    BY <1>4, <1>5, <2>1 DEF Beginnings
  <2>3. PlanOf(facts, n + 1, f[n] \o Block(facts, os, facts.candidates[n + 1]))
    BY <1>2, <2>1, BlockStep
  <2>4. PlanOf(facts, i, f[i]) /\ i \in 0 .. m
    BY <1>7, <2>1, <2>2, <2>3
  <2> QED BY <2>4
<1> HIDE DEF S
<1>8. 0 .. m \subseteq S
  BY <1>6, <1>7, UpToInduction
<1>9. PlanOf(facts, m, f[m])
  BY <1>8 DEF S
<1> QED BY <1>1, <1>2, <1>5, <1>9 DEF Planned, Beginnings

-----------------------------------------------------------------------------
(* The map of complete facts: an edge leads to what is chosen              *)
Live(os) == {id \in DOMAIN os : os[id].state \in Chosen}
Steady(os) ==
  \A id \in DOMAIN os : os[id].state \in Chosen \cup {"Rejected"} /\ os[id].dependsOn \subseteq Live(os)

Blank(os, id) == os[id] = Obligation(os[id].state, os[id].dependsOn, {})
Proper(facts, os, id) ==
  /\ os[id].state \in Chosen \cup {"Rejected"} /\ os[id].dependsOn \subseteq Live(os) /\ Blank(os, id)
  /\ KindOf(id) \in ResolverOwned \/ \E i \in ChosenIn(facts) : Makes(facts, i) /\ id = ArtifactAt(facts, i)

LEMMA HasIsLive ==
  ASSUME NEW os, NEW id, NEW s \in Chosen, NEW d, NEW a, Has(os, id, Obligation(s, d, a))
  PROVE  id \in Live(os) /\ os[id].state = s /\ os[id].dependsOn = d /\ (a = {} => Blank(os, id))
<1>1. PICK o : o = Obligation(s, d, a) /\ id \in DOMAIN os /\ os[id] = o
  BY DEF Has
<1>2. o.state = s /\ o.dependsOn = d /\ o.action = a
  BY <1>1, ObligationFields
<1>3. a = {} => o = Obligation(o.state, o.dependsOn, {})
  BY <1>1, <1>2
<1> QED BY <1>1, <1>2, <1>3 DEF Live, Blank

LEMMA SatisfiedIsLive ==
  ASSUME NEW os, NEW id, NEW d, Has(os, id, Satisfied(d))
  PROVE  id \in Live(os) /\ os[id].state = "Satisfied" /\ os[id].dependsOn = d /\ Blank(os, id)
  BY HasIsLive DEF Satisfied, Chosen

LEMMA BasisIsLive ==
  ASSUME NEW facts, NEW os, HasBasis(facts, os)
  PROVE  /\ \A s \in {s.id : s \in facts.sources} :
              Source(s) \in Live(os) /\ os[Source(s)].dependsOn = {} /\ Blank(os, Source(s))
         /\ \A p \in DOMAIN facts.lowerings :
              /\ Lowering(p) \in Live(os) /\ os[Lowering(p)].dependsOn = {Source(facts.lowerings[p])}
              /\ Blank(os, Lowering(p))
<1>1. ASSUME NEW s \in facts.sources
      PROVE  Source(s.id) \in Live(os) /\ os[Source(s.id)].dependsOn = {} /\ Blank(os, Source(s.id))
  <2>1. Has(os, Source(s.id), Satisfied({}))
    BY DEF HasBasis
  <2> QED BY <2>1, SatisfiedIsLive
<1>2. ASSUME NEW p \in DOMAIN facts.lowerings
      PROVE  /\ Lowering(p) \in Live(os) /\ os[Lowering(p)].dependsOn = {Source(facts.lowerings[p])}
             /\ Blank(os, Lowering(p))
  <2>1. Has(os, Lowering(p), Satisfied({Source(facts.lowerings[p])}))
    BY DEF HasBasis
  <2> QED BY <2>1, SatisfiedIsLive
<1> QED BY <1>1, <1>2

LEMMA ChosenIsLive ==
  ASSUME NEW facts, Facts(facts), NEW os, Finished(facts, os), NEW i \in ChosenIn(facts)
  PROVE  /\ IdAt(facts, i) \in Live(os) /\ os[IdAt(facts, i)].dependsOn = SourcesOf(facts.candidates[i])
         /\ Blank(os, IdAt(facts, i))
<1>1. Has(os, IdAt(facts, i), Taken(facts.candidates[i]))
  BY AllServed DEF Finished, Built, HasChoice
<1> QED BY <1>1, HasIsLive DEF Taken, Chosen

LEMMA CandidateIsProper ==
  ASSUME NEW facts, Regular(facts), Complete(facts), Decided(facts), NEW os, Finished(facts, os),
         NEW i \in DOMAIN facts.candidates
  PROVE  Proper(facts, os, IdAt(facts, i))
<1>1. SourcesOf(facts.candidates[i]) \subseteq Live(os)
  <2>1. facts.candidates[i].sources \subseteq {s.id : s \in facts.sources}
    BY DEF Complete, Elements
  <2> QED BY <2>1, BasisIsLive DEF SourcesOf, Finished, Built
<1>2. KindOf(IdAt(facts, i)) \in ResolverOwned
  BY KindsOfIds DEF IdAt, ResolverOwned
<1>3. CASE i \in ChosenIn(facts)
  BY <1>1, <1>2, <1>3, ChosenIsLive DEF Proper, Live, Regular
<1>4. CASE i \notin ChosenIn(facts)
  <2>1. Has(os, IdAt(facts, i), Refused(facts.candidates[i]))
    BY <1>4, OtherBlock
  <2>2. os[IdAt(facts, i)].state = "Rejected" /\ os[IdAt(facts, i)].dependsOn = SourcesOf(facts.candidates[i])
        /\ Blank(os, IdAt(facts, i))
    BY <2>1, ObligationFields DEF Has, Refused, Blank
  <2> QED BY <1>1, <1>2, <2>2 DEF Proper
<1> QED BY <1>3, <1>4

LEMMA LastAsking ==
  ASSUME NEW facts, Facts(facts), NEW r \in Elements(facts.requirements)
  PROVE  \E k \in DOMAIN facts.requirements :
           facts.requirements[k].symbol = r.symbol /\ LastAsked(facts, Len(facts.requirements), k)
<1>1. PICK n \in Nat : n = Len(facts.requirements) /\ DOMAIN facts.requirements = 1 .. n
  BY FactsAreLists DEF IsList
<1> DEFINE S == {m \in 1 .. n : facts.requirements[m].symbol = r.symbol}
<1>2. PICK j \in 1 .. n : r = facts.requirements[j]
  BY <1>1 DEF Elements
<1>3. PICK k \in S : \A m \in S : m <= k
  <2>1. j \in S /\ S \subseteq 1 .. n
    BY <1>2
  <2> HIDE DEF S
  <2> QED BY <2>1, LastExists
<1> QED BY <1>1, <1>3 DEF LastAsked

LEMMA BindingIsProper ==
  ASSUME NEW facts, Regular(facts), Complete(facts), NEW os, Finished(facts, os),
         NEW r \in Elements(facts.requirements), NEW id \in {Ffi(r), Abi(r), Symbol(r)}
  PROVE  Proper(facts, os, id) /\ id \in Live(os)
<1>1. PICK k \in DOMAIN facts.requirements :
        facts.requirements[k].symbol = r.symbol /\ LastAsked(facts, Len(facts.requirements), k)
  BY LastAsking DEF Regular
<1>2. PICK q : q = facts.requirements[k] /\ q \in Elements(facts.requirements)
  BY DEF Elements
<1>3. Ffi(r) = Ffi(q) /\ Abi(r) = Abi(q) /\ Symbol(r) = Symbol(q)
  BY <1>1, <1>2 DEF Ffi, Abi, Symbol
<1>4. Binds(facts, os, q)
  BY <1>1, <1>2, FactsAreLists DEF Finished, Built, HasBindings, Regular
<1>5. Ffi(q) \in Live(os) /\ os[Ffi(q)].state = "Satisfied"
      /\ os[Ffi(q)].dependsOn = {Source(q.source)} /\ Blank(os, Ffi(q))
  BY <1>4, SatisfiedIsLive DEF Binds
<1>6. PICK i \in MatchIn(facts, q) :
        /\ Abi(q) \in Live(os) /\ os[Abi(q)].state = "Satisfied"
        /\ os[Abi(q)].dependsOn = {Ffi(q), IdAt(facts, i)} /\ Blank(os, Abi(q))
  BY <1>4, SatisfiedIsLive DEF Binds
<1>7. Symbol(q) \in Live(os) /\ os[Symbol(q)].state = "Satisfied"
      /\ os[Symbol(q)].dependsOn = {Abi(q)} /\ Blank(os, Symbol(q))
  BY <1>4, SatisfiedIsLive DEF Binds
<1>8. Source(q.source) \in Live(os)
  BY <1>2, BasisIsLive DEF Complete, Finished, Built
<1>9. IdAt(facts, i) \in Live(os)
  <2>1. i \in ChosenIn(facts)
    BY <1>2 DEF ChosenIn, MatchIn
  <2> QED BY <2>1, ChosenIsLive DEF Regular
<1>10. KindOf(id) \in ResolverOwned
  BY KindsOfIds DEF ResolverOwned
<1>11. "Satisfied" \in Chosen
  BY DEF Chosen
<1> QED BY <1>3, <1>5, <1>6, <1>7, <1>8, <1>9, <1>10, <1>11 DEF Proper

LEMMA ArtifactIsProper ==
  ASSUME NEW facts, Regular(facts), NEW os, Finished(facts, os),
         NEW i \in ChosenIn(facts), Makes(facts, i)
  PROVE  Proper(facts, os, ArtifactAt(facts, i)) /\ ArtifactAt(facts, i) \in Live(os)
<1>1. PICK id : id = ArtifactAt(facts, i) /\ Has(os, id, MadeFrom(facts, i))
  BY DEF Finished, Built, HasArtifacts
<1>2. PICK d : d = {IdAt(facts, i)} \cup {Lowering(p) : p \in {facts.candidates[i].package} \cap DOMAIN facts.lowerings}
               /\ Has(os, id, Satisfied(d))
  BY <1>1 DEF MadeFrom
<1>3. id \in Live(os) /\ os[id].state = "Satisfied" /\ os[id].dependsOn = d /\ Blank(os, id)
  BY <1>2, SatisfiedIsLive
<1>4. d \subseteq Live(os)
  <2>1. IdAt(facts, i) \in Live(os)
    BY ChosenIsLive DEF Regular
  <2>2. HasBasis(facts, os)
    BY DEF Finished, Built
  <2>3. \A p \in DOMAIN facts.lowerings : Lowering(p) \in Live(os)
    BY <2>2, BasisIsLive
  <2> QED BY <1>2, <2>1, <2>3
<1>5. "Satisfied" \in Chosen
  BY DEF Chosen
<1> QED BY <1>1, <1>3, <1>4, <1>5 DEF Proper

LEMMA FinishedIsProper ==
  ASSUME NEW facts, Regular(facts), Complete(facts), Decided(facts), NEW os, Finished(facts, os), NEW id \in DOMAIN os
  PROVE  Proper(facts, os, id)
<1>1. Named(facts, id)
  BY DEF Finished, Built, AllNamed
<1>2. CASE \E s \in facts.sources : id = Source(s.id)
  <2>1. PICK s \in facts.sources : id = Source(s.id)
    BY <1>2
  <2>2. id \in Live(os) /\ os[id].dependsOn = {} /\ Blank(os, id)
    BY <2>1, BasisIsLive DEF Finished, Built
  <2>3. KindOf(id) \in ResolverOwned
    BY <2>1, KindsOfIds DEF ResolverOwned
  <2> QED BY <2>2, <2>3 DEF Proper, Live
<1>3. CASE \E p \in DOMAIN facts.lowerings : id = Lowering(p)
  <2>1. PICK p \in DOMAIN facts.lowerings : id = Lowering(p)
    BY <1>3
  <2>2. id \in Live(os) /\ os[id].dependsOn = {Source(facts.lowerings[p])} /\ Blank(os, id)
    BY <2>1, BasisIsLive DEF Finished, Built
  <2>3. Source(facts.lowerings[p]) \in Live(os)
    BY <2>1, BasisIsLive DEF Complete, Finished, Built
  <2>4. KindOf(id) \in ResolverOwned
    BY <2>1, KindsOfIds DEF ResolverOwned
  <2> QED BY <2>2, <2>3, <2>4 DEF Proper, Live
<1>4. CASE \E i \in DOMAIN facts.candidates : id = IdAt(facts, i)
  BY <1>4, CandidateIsProper
<1>5. CASE \E r \in Elements(facts.requirements) : id \in {Ffi(r), Abi(r), Symbol(r)}
  BY <1>5, BindingIsProper
<1>6. CASE \E i \in ChosenIn(facts) : Makes(facts, i) /\ id = ArtifactAt(facts, i)
  BY <1>6, ArtifactIsProper
<1> QED BY <1>1, <1>2, <1>3, <1>4, <1>5, <1>6 DEF Named

ActionsGiven(os, as, om) ==
  /\ DOMAIN om = DOMAIN os /\ Live(om) = Live(os)
  /\ \A id \in DOMAIN om : /\ om[id].state = os[id].state /\ om[id].dependsOn = os[id].dependsOn
                           /\ om[id].action = Closer(as, id)

LEMMA AssignedIsProper ==
  ASSUME NEW facts, Regular(facts), Complete(facts), Decided(facts), NEW os, Finished(facts, os),
         NEW as, NEW om, om = Assigned(os, as)
  PROVE  ActionsGiven(os, as, om)
<1>0. /\ DOMAIN Assigned(os, as) = DOMAIN os
      /\ \A id \in DOMAIN os : Assigned(os, as)[id] =
           IF Closer(as, id) = {} THEN os[id] ELSE [os[id] EXCEPT !.action = Closer(as, id)]
  BY AssignedByCloser
<1>1. DOMAIN om = DOMAIN os
      /\ \A id \in DOMAIN os : om[id] = IF Closer(as, id) = {} THEN os[id] ELSE [os[id] EXCEPT !.action = Closer(as, id)]
  BY <1>0
<1>2. ASSUME NEW id \in DOMAIN os
      PROVE  /\ om[id].state = os[id].state /\ om[id].dependsOn = os[id].dependsOn
             /\ om[id].action = Closer(as, id)
  <2>1. Blank(os, id)
    BY FinishedIsProper DEF Proper
  <2>2. PICK o, s, d : o = os[id] /\ o = Obligation(s, d, {}) /\ o.state = s /\ o.dependsOn = d /\ o.action = {}
    BY <2>1, ObligationFields DEF Blank
  <2>3. PICK X : X = Closer(as, id)
    OBVIOUS
  <2>4. LET w == [o EXCEPT !.action = X] IN w.state = s /\ w.dependsOn = d /\ w.action = X
    BY <2>2 DEF Obligation
  <2>5. om[id] = IF X = {} THEN o ELSE [o EXCEPT !.action = X]
    BY <1>1, <2>2, <2>3
  <2> QED BY <2>2, <2>3, <2>4, <2>5
<1> QED BY <1>1, <1>2 DEF Live, ActionsGiven

LEMMA TheExecutable ==
  ASSUME NEW facts, Facts(facts), Decided(facts), NEW exe, exe = ExecutablesIn(facts)[1].id
  PROVE  \E o \in Elements(facts.outputs) : o.kind = "NativeExecutable" /\ o.id = exe
<1>1. PICK K : K = {o \in Elements(facts.outputs) : o.kind = "NativeExecutable"}
  OBVIOUS
<1>2. PICK outs : outs = ExecutablesIn(facts) /\ IsList(outs) /\ Elements(outs) = Elements(facts.outputs) \cap K
  BY <1>1, FactsAreLists, ThinElements DEF ExecutablesIn
<1>3. PICK n \in Nat : n = Len(outs) /\ DOMAIN outs = 1 .. n /\ outs # <<>>
  BY <1>2, ListIsSeq DEF IsList, Decided
<1>4. n # 0
  <2>1. SUFFICES ASSUME n = 0 PROVE FALSE
    OBVIOUS
  <2>2. PICK u : u = <<>> /\ IsList(u) /\ Len(u) = 0
    BY EmptyList
  <2>3. outs = u
    BY <1>2, <1>3, <2>1, <2>2, SameLists
  <2> QED BY <1>3, <2>2, <2>3
<1>5. outs[1] \in K
  BY <1>2, <1>3, <1>4 DEF Elements
<1> QED BY <1>1, <1>2, <1>5

LEMMA LinkedAreMade ==
  ASSUME NEW facts, Regular(facts), Complete(facts), Decided(facts), NEW os, Finished(facts, os),
         NEW as, NEW x \in Linked(Assigned(os, as))
  PROVE  \E i \in ChosenIn(facts) : Makes(facts, i) /\ x = MadeBy(facts, i)[1].id
<1>1. PICK om : om = Assigned(os, as)
  OBVIOUS
<1>2. PICK id \in DOMAIN om : KindOf(id) = "ArtifactProduction" /\ x = id[2]
  BY <1>1 DEF Linked, Of
<1>3. id \in DOMAIN os
  BY <1>1, <1>2, AssignedByCloser
<1>4. KindOf(id) \notin ResolverOwned
  BY <1>2 DEF ResolverOwned
<1>5. PICK i \in ChosenIn(facts) : Makes(facts, i) /\ id = ArtifactAt(facts, i)
  BY <1>3, <1>4, FinishedIsProper DEF Proper
<1> QED BY <1>2, <1>5 DEF ArtifactAt, Artifact

Grown3(s, a, b, c, x, y, z) == Grown(s, a, x) /\ Grown(x, b, y) /\ Grown(y, c, z)

Thrice(s, a, b, c, x, y, z) ==
  /\ Len(s) \in Nat /\ IsList(x) /\ IsList(y) /\ IsList(z)
  /\ Len(x) = Len(s) + 1 /\ x[Len(s) + 1] = a
  /\ Len(y) = Len(s) + 2 /\ y[Len(s) + 1] = a /\ y[Len(s) + 2] = b
  /\ Len(z) = Len(s) + 3 /\ z[Len(s) + 1] = a /\ z[Len(s) + 2] = b /\ z[Len(s) + 3] = c
  /\ \A k \in 1 .. Len(s) : x[k] = s[k] /\ y[k] = s[k] /\ z[k] = s[k]

LEMMA GrownThrice ==
  ASSUME NEW s, IsList(s), NEW a, NEW b, NEW c, NEW x, NEW y, NEW z, Grown3(s, a, b, c, x, y, z)
  PROVE  Thrice(s, a, b, c, x, y, z)
<1>1. PICK n \in Nat : n = Len(s)
  BY DEF IsList
<1>2. IsList(x) /\ Len(x) = n + 1 /\ x[n + 1] = a /\ \A k \in 1 .. n : x[k] = s[k]
  BY <1>1 DEF Grown, Grown3
<1>3. IsList(y) /\ Len(y) = n + 2 /\ y[n + 2] = b /\ \A k \in 1 .. n + 1 : y[k] = x[k]
  BY <1>2 DEF Grown, Grown3
<1>4. IsList(z) /\ Len(z) = n + 3 /\ z[n + 3] = c /\ \A k \in 1 .. n + 2 : z[k] = y[k]
  BY <1>3 DEF Grown, Grown3
<1>5. y[n + 1] = a /\ \A k \in 1 .. n : y[k] = s[k]
  BY <1>2, <1>3
<1>6. z[n + 1] = a /\ z[n + 2] = b /\ \A k \in 1 .. n : z[k] = s[k]
  BY <1>3, <1>4, <1>5
<1> QED BY <1>1, <1>2, <1>3, <1>4, <1>5, <1>6 DEF Thrice

LEMMA ConcatThree ==
  ASSUME NEW s, IsList(s), NEW a, NEW b, NEW c
  PROVE  \E x, y : Grown3(s, a, b, c, x, y, s \o <<a, b, c>>)
<1>1. PICK n \in Nat : n = Len(s)
  BY DEF IsList
<1>2. PICK x : x = Append(s, a) /\ Grown(s, a, x) /\ IsList(x)
  BY AppendGrows DEF Grown
<1>3. PICK y : y = Append(x, b) /\ Grown(x, b, y) /\ IsList(y)
  BY <1>2, AppendGrows DEF Grown
<1>4. PICK z : z = Append(y, c) /\ Grown(y, c, z)
  BY <1>3, AppendGrows
<1>5. Grown3(s, a, b, c, x, y, z)
  BY <1>2, <1>3, <1>4 DEF Grown3
<1>6. PICK v : v = <<a, b, c>>
  OBVIOUS
<1>7. IsList(v) /\ Len(v) = 3 /\ v[1] = a /\ v[2] = b /\ v[3] = c
  BY <1>6 DEF IsList
<1>8. s \o v = z
  <2>0. IsList(v) /\ Len(v) = 3
    BY <1>7
  <2>1. PICK w : w = s \o v /\ IsList(w) /\ Len(w) = Len(s) + Len(v)
                 /\ \A k \in 1 .. Len(s) + Len(v) : w[k] = IF k <= Len(s) THEN s[k] ELSE v[k - Len(s)]
    BY <2>0, ConcatIs
  <2>2. Len(w) = n + 3 /\ \A k \in 1 .. n + 3 : w[k] = IF k <= n THEN s[k] ELSE v[k - n]
    BY <1>1, <2>0, <2>1
  <2>3. /\ IsList(z) /\ Len(z) = Len(s) + 3 /\ z[Len(s) + 1] = a /\ z[Len(s) + 2] = b /\ z[Len(s) + 3] = c
        /\ \A k \in 1 .. Len(s) : z[k] = s[k]
    BY <1>5, GrownThrice DEF Thrice
  <2>4. ASSUME NEW k \in 1 .. n + 3 PROVE w[k] = z[k]
    <3>1. k \in 1 .. n \/ k = n + 1 \/ k = n + 2 \/ k = n + 3
      OBVIOUS
    <3> QED BY <1>1, <1>7, <2>2, <2>3, <3>1
  <2> QED BY <1>1, <2>1, <2>2, <2>3, <2>4, SameLists
<1> QED BY <1>5, <1>6, <1>8

(* The link, the preflight and the publication after n other actions.      *)
IsLink(om, exe, a) ==
  /\ a.id = <<"link">> /\ a.kind = "LinkNativeExecutable" /\ a.inputs = {Output(o) : o \in Linked(om)}
  /\ a.outputs = {Output(exe)} /\ a.discharges = <<FinalLink, LinkOrder, Artifact(exe)>>
IsPreflight(exe, a) ==
  /\ a.id = <<"preflight">> /\ a.kind = "PreflightRuntimeContract" /\ a.inputs = {Output(exe)}
  /\ a.outputs = {} /\ a.discharges = <<Runtime>> /\ a.dependsOn = {<<"link">>}
IsPublish(exe, a) ==
  /\ a.id = <<"publish">> /\ a.kind = "PublishProvenance" /\ a.inputs = {Output(exe)}
  /\ a.outputs = {<<"provenance", exe>>} /\ a.discharges = <<Provenance>> /\ a.dependsOn = {<<"preflight">>}
Ending(om, exe, as, acts) ==
  LET n == Len(as) IN
  /\ n \in Nat /\ IsList(acts) /\ Len(acts) = n + 3
  /\ \A k \in 1 .. n : acts[k] = as[k]
  /\ IsLink(om, exe, acts[n + 1]) /\ IsPreflight(exe, acts[n + 2]) /\ IsPublish(exe, acts[n + 3])
Enders2(as) == {a.id : a \in {b \in Elements(as) : b.kind \in Enders}}

LEMMA LinkIsSane ==
  ASSUME NEW facts, NEW om, NEW exe, NEW a, IsLink(om, exe, a)
  PROVE  Sane(facts, a) /\ Elements(a.discharges) = {FinalLink, LinkOrder, Artifact(exe)}
<1>1. PICK f, l, e : /\ f = FinalLink /\ l = LinkOrder /\ e = Artifact(exe) /\ f # l /\ l # e /\ e # f
                     /\ KindOf(f) = "FinalLink" /\ KindOf(l) = "LinkOrder" /\ KindOf(e) = "ArtifactProduction"
  BY KindsOfIds
<1>2. PICK d : d = a.discharges /\ d = <<f, l, e>> /\ IsList(d)
  BY <1>1, ShortLists DEF IsLink
<1>3. DOMAIN d = {1, 2, 3} /\ d[1] = f /\ d[2] = l /\ d[3] = e
  BY <1>2
<1>4. Elements(d) = {f, l, e} /\ \A x, y \in DOMAIN d : d[x] = d[y] => x = y
  BY <1>1, <1>3 DEF Elements
<1>5. Dischargeable[a.kind] = {"FinalLink", "LinkOrder", "ArtifactProduction"}
  BY DEF IsLink, Dischargeable, ActionKinds, Compilers
<1>6. a.outputs \cap Declared(facts) = {}
  BY DEF IsLink, Declared, Output, Source
<1>7. \A id \in Elements(d) : KindOf(id) \in Dischargeable[a.kind]
  BY <1>1, <1>4, <1>5
<1> QED BY <1>1, <1>2, <1>4, <1>6, <1>7 DEF Sane

LEMMA OneIsSane ==
  ASSUME NEW facts, NEW a, NEW id, a.discharges = <<id>>, KindOf(id) \in Dischargeable[a.kind],
         a.outputs \cap Declared(facts) = {}
  PROVE  Sane(facts, a) /\ Elements(a.discharges) = {id}
<1>1. PICK d : d = a.discharges /\ IsList(d) /\ d = <<id>>
  BY ShortLists
<1>2. DOMAIN d = {1} /\ d[1] = id
  BY <1>1
<1>3. Elements(d) = {id}
  BY <1>2 DEF Elements
<1> QED BY <1>1, <1>2, <1>3 DEF Sane

LEMMA EndsAreSane ==
  ASSUME NEW facts, NEW exe, NEW p, IsPreflight(exe, p), NEW b, IsPublish(exe, b)
  PROVE  /\ Sane(facts, p) /\ Elements(p.discharges) = {Runtime}
         /\ Sane(facts, b) /\ Elements(b.discharges) = {Provenance}
<1>1. p.discharges = <<Runtime>> /\ b.discharges = <<Provenance>>
  BY DEF IsPreflight, IsPublish
<1>2. Dischargeable[p.kind] = {"Runtime"} /\ Dischargeable[b.kind] = {"Provenance"}
  BY DEF IsPreflight, IsPublish, Dischargeable, ActionKinds, Compilers
<1>3. KindOf(Runtime) \in Dischargeable[p.kind] /\ KindOf(Provenance) \in Dischargeable[b.kind]
  BY <1>2, KindsOfIds
<1>4. p.outputs \cap Declared(facts) = {} /\ b.outputs \cap Declared(facts) = {}
  BY DEF IsPreflight, IsPublish, Declared, Source
<1> QED BY <1>1, <1>3, <1>4, OneIsSane

LEMMA EndsAreSeparate ==
  ASSUME NEW facts, Regular(facts), Decided(facts), NEW exe, exe = ExecutablesIn(facts)[1].id,
         NEW om, NEW l, IsLink(om, exe, l), NEW p, IsPreflight(exe, p), NEW b, IsPublish(exe, b)
  PROVE  /\ Separate(l, p) /\ Separate(l, b) /\ Separate(p, b)
         /\ \A i \in ChosenIn(facts) : \A a : Own(facts, i, a) => Separate(a, l) /\ Separate(a, p) /\ Separate(a, b)
<1>1. /\ Elements(l.discharges) = {FinalLink, LinkOrder, Artifact(exe)}
      /\ Elements(p.discharges) = {Runtime} /\ Elements(b.discharges) = {Provenance}
  BY LinkIsSane, EndsAreSane
<1>2. /\ Elements(l.discharges) \cap Elements(p.discharges) = {} /\ Elements(l.discharges) \cap Elements(b.discharges) = {}
      /\ Elements(p.discharges) \cap Elements(b.discharges) = {}
  BY <1>1, KindsOfIds
<1>3. Separate(l, p) /\ Separate(l, b) /\ Separate(p, b)
  <2>1. l.id = <<"link">> /\ p.id = <<"preflight">> /\ b.id = <<"publish">>
    BY DEF IsLink, IsPreflight, IsPublish
  <2>2. l.outputs = {Output(exe)} /\ p.outputs = {} /\ b.outputs = {<<"provenance", exe>>}
    BY DEF IsLink, IsPreflight, IsPublish
  <2>3. l.outputs \cap b.outputs = {}
    BY <2>2 DEF Output
  <2> QED BY <1>2, <2>1, <2>2, <2>3 DEF Separate
<1>4. ASSUME NEW i \in ChosenIn(facts), NEW a, Own(facts, i, a)
      PROVE  Separate(a, l) /\ Separate(a, p) /\ Separate(a, b)
  <2>1. a.id # l.id /\ a.id # p.id /\ a.id # b.id
    <3>1. l.id[1] = "link" /\ p.id[1] = "preflight" /\ b.id[1] = "publish"
      BY DEF IsLink, IsPreflight, IsPublish
    <3>2. a.id[1] \in Compilers \cup {"ArchiveStaticLibrary"}
      BY <1>4 DEF Own
    <3> QED BY <3>1, <3>2 DEF Compilers
  <2>2. a.outputs \cap {Output(exe)} = {}
    <3>1. PICK o \in Elements(facts.outputs) : o.kind = "NativeExecutable" /\ o.id = exe
      BY TheExecutable DEF Regular
    <3>2. SUFFICES ASSUME Output(exe) \in a.outputs PROVE FALSE
      OBVIOUS
    <3>3. PICK x \in Elements(facts.outputs) : x.kind # "NativeExecutable" /\ Output(x.id) = Output(exe)
      BY <1>4, <3>2 DEF Own, Private
    <3>4. x.id = o.id
      BY <3>1, <3>3 DEF Output
    <3> QED BY <3>1, <3>3, <3>4 DEF Regular, DeclaredOnce
  <2>3. a.outputs \cap b.outputs = {} /\ a.outputs \cap p.outputs = {} /\ a.outputs \cap l.outputs = {}
    BY <1>4, <2>2 DEF Own, Private, IsLink, IsPreflight, IsPublish, Output
  <2>4. CASE a.discharges = <<>>
    BY <2>1, <2>3, <2>4 DEF Separate, Elements
  <2>5. CASE a.discharges # <<>>
    <3>1. PICK x : a.discharges = <<Artifact(x)>> /\ a.outputs = {Output(x)}
      BY <1>4, <2>5 DEF Own, ArtifactAt
    <3>2. Elements(a.discharges) = {Artifact(x)}
      BY <3>1 DEF Elements
    <3>3. Artifact(x) # Artifact(exe)
      BY <2>2, <3>1, SameIds
    <3>4. Artifact(x) \notin {FinalLink, LinkOrder, Runtime, Provenance}
      BY KindsOfIds
    <3> QED BY <1>1, <2>1, <2>3, <3>2, <3>3, <3>4 DEF Separate
  <2> QED BY <2>4, <2>5
<1> QED BY <1>3, <1>4

(* What resolve made of complete facts.                                    *)
Resolved(facts, os, as, om, exe, acts, on) ==
  /\ Regular(facts) /\ Complete(facts) /\ Decided(facts) /\ Finished(facts, os)
  /\ as = Planned(facts, os) /\ om = Assigned(os, as) /\ exe = ExecutablesIn(facts)[1].id
  /\ acts = as \o LinkAndPublish(om, as, exe) /\ on = Closing(om, exe)

EndsWith(om, exe, as, acts) ==
  \E l, p, b, x, y :
    /\ IsLink(om, exe, l) /\ IsPreflight(exe, p) /\ IsPublish(exe, b) /\ l.dependsOn = Enders2(as)
    /\ Grown3(as, l, p, b, x, y, acts)

LEMMA TheEnding ==
  ASSUME NEW facts, NEW os, NEW as, NEW om, NEW exe, NEW acts, NEW on, Resolved(facts, os, as, om, exe, acts, on)
  PROVE  EndsWith(om, exe, as, acts)
<1>1. IsList(as) /\ acts = as \o LinkAndPublish(om, as, exe)
  BY PlannedIsOrderly DEF Resolved, PlanOf, Orderly
<1>2. PICK l, p, b :
        /\ l = Action(<<"link">>, "LinkNativeExecutable", {Output(o) : o \in Linked(om)}, {Output(exe)},
                      <<FinalLink, LinkOrder, Artifact(exe)>>, Enders2(as))
        /\ p = Action(<<"preflight">>, "PreflightRuntimeContract", {Output(exe)}, {}, <<Runtime>>, {<<"link">>})
        /\ b = Action(<<"publish">>, "PublishProvenance", {Output(exe)}, {<<"provenance", exe>>},
                      <<Provenance>>, {<<"preflight">>})
  OBVIOUS
<1>3. LinkAndPublish(om, as, exe) = <<l, p, b>>
  BY <1>2 DEF LinkAndPublish, Enders2, Enders
<1>4. \E x, y : Grown3(as, l, p, b, x, y, as \o <<l, p, b>>)
  <2>1. IsList(as)
    BY <1>1
  <2> QED BY <2>1, ConcatThree
<1>5. IsLink(om, exe, l) /\ l.dependsOn = Enders2(as)
  BY <1>2 DEF IsLink, Action
<1>6. IsPreflight(exe, p)
  BY <1>2 DEF IsPreflight, Action
<1>7. IsPublish(exe, b)
  BY <1>2 DEF IsPublish, Action
<1> QED BY <1>1, <1>3, <1>4, <1>5, <1>6, <1>7 DEF EndsWith

(* What is linked was made by an action that the link waits for.           *)
LEMMA LinkIsBacked ==
  ASSUME NEW facts, NEW os, NEW as, NEW om, NEW exe, NEW acts, NEW on, Resolved(facts, os, as, om, exe, acts, on),
         NEW l, IsLink(om, exe, l), l.dependsOn = Enders2(as)
  PROVE  Backed(facts, as, Len(as), l)
<1>1. PICK n \in Nat : n = Len(as) /\ IsList(as) /\ DOMAIN as = 1 .. n
  BY PlannedIsOrderly, ListIsSeq DEF Resolved, PlanOf, Orderly, IsList
<1>2. PlanOf(facts, Len(facts.candidates), as)
  BY PlannedIsOrderly DEF Resolved
<1>3. l.dependsOn \subseteq {as[j].id : j \in 1 .. n}
  BY <1>1 DEF Enders2, Elements
<1>4. ASSUME NEW y \in l.inputs
      PROVE  \E j \in 1 .. n : y \in as[j].outputs /\ as[j].id \in l.dependsOn
  <2>1. PICK x \in Linked(om) : y = Output(x)
    BY <1>4 DEF IsLink
  <2>2. PICK i \in ChosenIn(facts) : Makes(facts, i) /\ x = MadeBy(facts, i)[1].id
    BY <2>1, LinkedAreMade DEF Resolved
  <2>3. i <= Len(facts.candidates)
    BY FactsAreLists DEF ChosenIn, RootsIn, Resolved, Regular, IsList
  <2>4. PICK k \in 1 .. Len(as) : as[k].discharges = <<ArtifactAt(facts, i)>>
    BY <1>2, <2>2, <2>3 DEF PlanOf, Enough
  <2>5. PICK j \in ChosenIn(facts) : Own(facts, j, as[k])
    BY <1>2 DEF PlanOf, Owners
  <2>6. PICK z : /\ as[k].discharges = <<Artifact(z)>> /\ as[k].outputs = {Output(z)} /\ as[k].kind \in Enders
    <3>1. as[k].discharges # <<>>
      BY <2>4
    <3> QED BY <2>5, <3>1 DEF Own, ArtifactAt
  <2>7. Artifact(z) = Artifact(x)
    <3>1. PICK d, u, v : d = as[k].discharges /\ u = ArtifactAt(facts, i) /\ v = Artifact(z)
      OBVIOUS
    <3>2. d = <<u>> /\ d = <<v>>
      BY <2>4, <2>6, <3>1
    <3>3. u = v
      BY <3>2
    <3> QED BY <2>2, <3>1, <3>3 DEF ArtifactAt
  <2>8. z = x
    BY <2>7, SameIds
  <2>9. as[k] \in Elements(as) /\ as[k].id \in Enders2(as)
    BY <1>1, <2>6 DEF Elements, Enders2
  <2> QED BY <1>1, <2>1, <2>6, <2>8, <2>9
<1> QED BY <1>1, <1>3, <1>4 DEF Backed, WaitsFor

LEMMA PlanIsOrderly ==
  ASSUME NEW facts, NEW os, NEW as, NEW om, NEW exe, NEW acts, NEW on, Resolved(facts, os, as, om, exe, acts, on)
  PROVE  Orderly(facts, acts) /\ Ending(om, exe, as, acts)
<1>0. EndsWith(om, exe, as, acts)
  BY TheEnding
<1>1. PICK l, p, b, x, y :
        /\ IsLink(om, exe, l) /\ IsPreflight(exe, p) /\ IsPublish(exe, b) /\ l.dependsOn = Enders2(as)
        /\ Grown3(as, l, p, b, x, y, acts)
  BY <1>0 DEF EndsWith
<1>2. Orderly(facts, as) /\ Owners(facts, Len(facts.candidates), as) /\ IsList(as)
  BY PlannedIsOrderly DEF Resolved, PlanOf, Orderly
<1>g. Grown3(as, l, p, b, x, y, acts)
  BY <1>1
<1>a. IsList(as)
  BY <1>2
<1>t. Thrice(as, l, p, b, x, y, acts)
  BY <1>g, <1>a, GrownThrice
<1>n. PICK n \in Nat : n = Len(as)
  BY <1>t DEF Thrice
<1>x. Len(x) = n + 1 /\ x[n + 1] = l /\ \A k \in 1 .. n : x[k] = as[k]
  BY <1>t, <1>n DEF Thrice
<1>y. Len(y) = n + 2 /\ y[n + 1] = l /\ y[n + 2] = p /\ \A k \in 1 .. n : y[k] = as[k]
  BY <1>t, <1>n DEF Thrice
<1>z. Len(acts) = n + 3 /\ acts[n + 1] = l /\ acts[n + 2] = p /\ acts[n + 3] = b
      /\ \A k \in 1 .. n : acts[k] = as[k]
  BY <1>t, <1>n DEF Thrice
<1>3a. Grown(as, l, x) /\ Grown(x, p, y) /\ Grown(y, b, acts)
  BY <1>g DEF Grown3
<1>4. Separate(l, p) /\ Separate(l, b) /\ Separate(p, b)
      /\ \A k \in 1 .. n : Separate(as[k], l) /\ Separate(as[k], p) /\ Separate(as[k], b)
  <2>1. \A k \in 1 .. n : \E i \in ChosenIn(facts) : Own(facts, i, as[k])
    BY <1>2, <1>n DEF Owners
  <2> QED BY <1>1, <2>1, EndsAreSeparate DEF Resolved
<1>5. Sane(facts, l) /\ Sane(facts, p) /\ Sane(facts, b)
  BY <1>1, LinkIsSane, EndsAreSane
<1>10. Orderly(facts, x)
  <2>1. Backed(facts, as, Len(as), l)
    BY <1>1, LinkIsBacked
  <2>2. \A j \in 1 .. Len(as) : Separate(as[j], l)
    BY <1>n, <1>4
  <2>3. Orderly(facts, as) /\ Sane(facts, l) /\ Grown(as, l, x)
    BY <1>2, <1>5, <1>3a
  <2> QED BY <2>1, <2>2, <2>3, OrderlyGrown
<1>11. Orderly(facts, y)
  <2>a. Len(x) = n + 1
    BY <1>x
  <2>1. n + 1 \in 1 .. Len(x) /\ \A j \in 1 .. Len(x) : j = n + 1 \/ j \in 1 .. n
    BY <2>a
  <2>2. x[n + 1].id = <<"link">> /\ x[n + 1].outputs = {Output(exe)}
        /\ p.inputs = {Output(exe)} /\ p.dependsOn = {<<"link">>}
    BY <1>1, <1>x DEF IsLink, IsPreflight
  <2>3. Backed(facts, x, Len(x), p)
    <3>1. WaitsFor(x, Len(x), p, x[n + 1])
      BY <2>2 DEF WaitsFor
    <3> QED BY <2>1, <2>2, <3>1 DEF Backed
  <2>4. \A j \in 1 .. Len(x) : Separate(x[j], p)
    <3>1. x[n + 1] = l /\ \A k \in 1 .. n : x[k] = as[k]
      BY <1>x
    <3> QED BY <1>4, <2>1, <3>1
  <2>5. Sane(facts, p) /\ Grown(x, p, y)
    BY <1>5, <1>3a
  <2> QED BY <1>10, <2>3, <2>4, <2>5, OrderlyGrown
<1>12. Orderly(facts, acts)
  <2>a. Len(y) = n + 2
    BY <1>y
  <2>1. /\ n + 1 \in 1 .. Len(y) /\ n + 2 \in 1 .. Len(y)
        /\ \A j \in 1 .. Len(y) : j = n + 1 \/ j = n + 2 \/ j \in 1 .. n
    BY <2>a
  <2>b. y[n + 1] = l /\ y[n + 2] = p /\ \A k \in 1 .. n : y[k] = as[k]
    BY <1>y
  <2>2. /\ y[n + 1].id = <<"link">> /\ y[n + 1].outputs = {Output(exe)}
        /\ y[n + 2].id = <<"preflight">> /\ y[n + 2].dependsOn = {<<"link">>}
        /\ b.inputs = {Output(exe)} /\ b.dependsOn = {<<"preflight">>}
    BY <1>1, <2>b DEF IsLink, IsPreflight, IsPublish
  <2>3. Backed(facts, y, Len(y), b)
    <3>1. WaitsFor(y, Len(y), b, y[n + 1])
      <4>1. y[n + 2].id \in b.dependsOn /\ y[n + 1].id \in y[n + 2].dependsOn
        BY <2>2
      <4> QED BY <2>1, <4>1 DEF WaitsFor
    <3> QED BY <2>1, <2>2, <3>1 DEF Backed
  <2>4. \A j \in 1 .. Len(y) : Separate(y[j], b)
    BY <1>4, <2>1, <2>b
  <2>5. Sane(facts, b) /\ Grown(y, b, acts)
    BY <1>5, <1>3a
  <2> QED BY <1>11, <2>3, <2>4, <2>5, OrderlyGrown
<1>14. Ending(om, exe, as, acts)
  <2>1. IsLink(om, exe, acts[n + 1]) /\ IsPreflight(exe, acts[n + 2]) /\ IsPublish(exe, acts[n + 3])
    BY <1>1, <1>z
  <2>2. IsList(acts)
    BY <1>t DEF Thrice
  <2> QED BY <1>n, <1>z, <2>1, <2>2 DEF Ending
<1> QED BY <1>12, <1>14

-----------------------------------------------------------------------------
(* What the obligations of the link and of the publication become.         *)
Six(exe) == {LinkOrder, FinalLink, Artifact(exe), Runtime, Provenance, Demand}
Objects(om) == {Artifact(o) : o \in Linked(om)}

ClosedBy(om, exe, on) ==
  /\ DOMAIN on = DOMAIN om \cup Six(exe)
  /\ \A id \in DOMAIN om \ Six(exe) : on[id] = om[id]
  /\ on[LinkOrder] = Obligation("Satisfied", Objects(om), {<<"link">>})
  /\ on[FinalLink] = Obligation("Satisfied", Objects(om) \cup {LinkOrder} \cup Of(om, "Symbol"), {<<"link">>})
  /\ on[Artifact(exe)] = Obligation("Satisfied", {FinalLink}, {<<"link">>})
  /\ on[Runtime] = Obligation("Satisfied", {Artifact(exe)}, {<<"preflight">>})
  /\ on[Provenance] = Obligation("Satisfied", {Runtime}, {<<"publish">>})
  /\ on[Demand] = Obligation("Satisfied", {Provenance}, {})

LEMMA ClosingValues ==
  ASSUME NEW om, NEW exe
  PROVE  ClosedBy(om, exe, Closing(om, exe))
<1>1. PICK d1, d2, f1, f2, f3, f4, f5, new :
        /\ d1 = Objects(om) /\ d2 = Objects(om) \cup {LinkOrder} \cup Of(om, "Symbol")
        /\ f1 = Insert(om, LinkOrder, Obligation("Satisfied", d1, {<<"link">>}))
        /\ f2 = Insert(f1, FinalLink, Obligation("Satisfied", d2, {<<"link">>}))
        /\ f3 = Insert(f2, Artifact(exe), Obligation("Satisfied", {FinalLink}, {<<"link">>}))
        /\ f4 = Insert(f3, Runtime, Obligation("Satisfied", {Artifact(exe)}, {<<"preflight">>}))
        /\ f5 = Insert(f4, Provenance, Obligation("Satisfied", {Runtime}, {<<"publish">>}))
        /\ new = Insert(f5, Demand, Obligation("Satisfied", {Provenance}, {}))
        /\ Closing(om, exe) = new
  BY DEF Closing, Satisfied, Objects
<1>4. /\ With(f1, om, LinkOrder, Obligation("Satisfied", d1, {<<"link">>}))
      /\ With(f2, f1, FinalLink, Obligation("Satisfied", d2, {<<"link">>}))
      /\ With(f3, f2, Artifact(exe), Obligation("Satisfied", {FinalLink}, {<<"link">>}))
  BY <1>1, InsertValues
<1>5. /\ With(f4, f3, Runtime, Obligation("Satisfied", {Artifact(exe)}, {<<"preflight">>}))
      /\ With(f5, f4, Provenance, Obligation("Satisfied", {Runtime}, {<<"publish">>}))
      /\ With(new, f5, Demand, Obligation("Satisfied", {Provenance}, {}))
  BY <1>1, InsertValues
<1>6. DOMAIN new = DOMAIN om \cup Six(exe)
  BY <1>4, <1>5 DEF With, Six
<1>8. \A id \in DOMAIN om \ Six(exe) : new[id] = om[id]
  BY <1>4, <1>5 DEF With, Six
<1>11. /\ FinalLink # Artifact(exe) /\ FinalLink # Runtime /\ FinalLink # Provenance /\ FinalLink # Demand
       /\ Artifact(exe) # Runtime /\ Artifact(exe) # Provenance /\ Artifact(exe) # Demand
       /\ Runtime # Provenance /\ Runtime # Demand /\ Provenance # Demand
       /\ LinkOrder # FinalLink /\ LinkOrder # Artifact(exe) /\ LinkOrder # Runtime
       /\ LinkOrder # Provenance /\ LinkOrder # Demand
  BY KindsOfIds
<1>12. new[FinalLink] = f2[FinalLink] /\ new[Artifact(exe)] = f3[Artifact(exe)]
  BY <1>4, <1>5, <1>11 DEF With
<1>13. new[Runtime] = f4[Runtime] /\ new[Provenance] = f5[Provenance] /\ new[LinkOrder] = f1[LinkOrder]
  BY <1>4, <1>5, <1>11 DEF With
<1>14. /\ new[FinalLink] = Obligation("Satisfied", d2, {<<"link">>})
       /\ new[Artifact(exe)] = Obligation("Satisfied", {FinalLink}, {<<"link">>})
       /\ new[Runtime] = Obligation("Satisfied", {Artifact(exe)}, {<<"preflight">>})
       /\ new[Provenance] = Obligation("Satisfied", {Runtime}, {<<"publish">>})
       /\ new[Demand] = Obligation("Satisfied", {Provenance}, {})
       /\ new[LinkOrder] = Obligation("Satisfied", d1, {<<"link">>})
  BY <1>4, <1>5, <1>12, <1>13 DEF With
<1> QED BY <1>1, <1>6, <1>8, <1>14 DEF ClosedBy

(* What happens to each of them, and to the others.                        *)
Closes(om, exe, on, id, needs, action) ==
  id \in Live(on) /\ on[id].dependsOn = needs /\ on[id].action = action

AllClose(om, exe, on) ==
  /\ DOMAIN on = DOMAIN om \cup Six(exe)
  /\ \A id \in DOMAIN om \ Six(exe) : on[id] = om[id]
  /\ Closes(om, exe, on, LinkOrder, Objects(om), {<<"link">>})
  /\ Closes(om, exe, on, FinalLink, Objects(om) \cup {LinkOrder} \cup Of(om, "Symbol"), {<<"link">>})
  /\ Closes(om, exe, on, Artifact(exe), {FinalLink}, {<<"link">>})
  /\ Closes(om, exe, on, Runtime, {Artifact(exe)}, {<<"preflight">>})
  /\ Closes(om, exe, on, Provenance, {Runtime}, {<<"publish">>})
  /\ Closes(om, exe, on, Demand, {Provenance}, {})
  /\ Live(om) \subseteq Live(on) /\ Live(on) \subseteq Live(om) \cup Six(exe)

LEMMA ClosingIsLive ==
  ASSUME NEW om, NEW exe, NEW on, on = Closing(om, exe)
  PROVE  AllClose(om, exe, on)
<1>1. ClosedBy(om, exe, on)
  BY ClosingValues
<1>2. ASSUME NEW id \in Six(exe), NEW needs, NEW action, on[id] = Obligation("Satisfied", needs, action)
      PROVE  Closes(om, exe, on, id, needs, action)
  <2>1. on[id].state = "Satisfied" /\ on[id].dependsOn = needs /\ on[id].action = action
    BY <1>2, ObligationFields
  <2>2. id \in DOMAIN on
    BY <1>1 DEF ClosedBy
  <2> QED BY <2>1, <2>2 DEF Closes, Live, Chosen
<1>3. Closes(om, exe, on, LinkOrder, Objects(om), {<<"link">>})
  <2>1. LinkOrder \in Six(exe) /\ on[LinkOrder] = Obligation("Satisfied", Objects(om), {<<"link">>})
    BY <1>1 DEF ClosedBy, Six
  <2> QED BY <1>2, <2>1
<1>4. Closes(om, exe, on, FinalLink, Objects(om) \cup {LinkOrder} \cup Of(om, "Symbol"), {<<"link">>})
  <2>1. FinalLink \in Six(exe)
        /\ on[FinalLink] = Obligation("Satisfied", Objects(om) \cup {LinkOrder} \cup Of(om, "Symbol"), {<<"link">>})
    BY <1>1 DEF ClosedBy, Six
  <2> QED BY <1>2, <2>1
<1>5. Closes(om, exe, on, Artifact(exe), {FinalLink}, {<<"link">>})
  <2>1. Artifact(exe) \in Six(exe) /\ on[Artifact(exe)] = Obligation("Satisfied", {FinalLink}, {<<"link">>})
    BY <1>1 DEF ClosedBy, Six
  <2> QED BY <1>2, <2>1
<1>6. Closes(om, exe, on, Runtime, {Artifact(exe)}, {<<"preflight">>})
  <2>1. Runtime \in Six(exe) /\ on[Runtime] = Obligation("Satisfied", {Artifact(exe)}, {<<"preflight">>})
    BY <1>1 DEF ClosedBy, Six
  <2> QED BY <1>2, <2>1
<1>7. Closes(om, exe, on, Provenance, {Runtime}, {<<"publish">>})
  <2>1. Provenance \in Six(exe) /\ on[Provenance] = Obligation("Satisfied", {Runtime}, {<<"publish">>})
    BY <1>1 DEF ClosedBy, Six
  <2> QED BY <1>2, <2>1
<1>8. Closes(om, exe, on, Demand, {Provenance}, {})
  <2>1. Demand \in Six(exe) /\ on[Demand] = Obligation("Satisfied", {Provenance}, {})
    BY <1>1 DEF ClosedBy, Six
  <2> QED BY <1>2, <2>1
<1>9. Six(exe) \subseteq Live(on)
  BY <1>3, <1>4, <1>5, <1>6, <1>7, <1>8 DEF Six, Closes
<1>10. DOMAIN on = DOMAIN om \cup Six(exe) /\ \A id \in DOMAIN om \ Six(exe) : on[id] = om[id]
  BY <1>1 DEF ClosedBy
<1>11. Live(om) \subseteq Live(on) /\ Live(on) \subseteq Live(om) \cup Six(exe)
  BY <1>9, <1>10 DEF Live
<1> QED BY <1>3, <1>4, <1>5, <1>6, <1>7, <1>8, <1>10, <1>11 DEF AllClose

(* An edge leads to what is selected or satisfied.                         *)
OneDemand(on) == Steady(on) /\ \A id \in Of(on, "NativeExecutableDemand") : id = Demand

LEMMA ResolvedIsSteady ==
  ASSUME NEW facts, NEW os, NEW as, NEW om, NEW exe, NEW acts, NEW on, Resolved(facts, os, as, om, exe, acts, on)
  PROVE  OneDemand(on)
<1>1. /\ Regular(facts) /\ Complete(facts) /\ Decided(facts) /\ Finished(facts, os)
      /\ om = Assigned(os, as) /\ on = Closing(om, exe)
  BY DEF Resolved
<1>0. AllClose(om, exe, on)
  BY <1>1, ClosingIsLive
<1>2. /\ DOMAIN om = DOMAIN os /\ Live(om) = Live(os)
      /\ \A id \in DOMAIN om : /\ om[id].state = os[id].state /\ om[id].dependsOn = os[id].dependsOn
                               /\ om[id].action = Closer(as, id)
  <2>1. ActionsGiven(os, as, om)
    BY <1>1, AssignedIsProper
  <2> QED BY <2>1 DEF ActionsGiven
<1>3. \A id \in DOMAIN os : Proper(facts, os, id)
  BY <1>1, FinishedIsProper
<1>4. Objects(om) \subseteq Live(on)
  <2>1. ASSUME NEW x \in Linked(om) PROVE Artifact(x) \in Live(om)
    <3>1. PICK i \in ChosenIn(facts) : Makes(facts, i) /\ x = MadeBy(facts, i)[1].id
      BY <2>1, LinkedAreMade DEF Resolved
    <3>2. Artifact(x) = ArtifactAt(facts, i)
      BY <3>1 DEF ArtifactAt
    <3>3. ArtifactAt(facts, i) \in Live(os)
      BY <1>1, <3>1, ArtifactIsProper
    <3> QED BY <1>2, <3>2, <3>3
  <2>2. Live(om) \subseteq Live(on)
    BY <1>0 DEF AllClose
  <2> QED BY <2>1, <2>2 DEF Objects
<1>5. Of(om, "Symbol") \subseteq Live(on)
  <2>1. ASSUME NEW id \in DOMAIN os, KindOf(id) = "Symbol" PROVE id \in Live(os)
    <3>1. Named(facts, id)
      BY <1>1 DEF Finished, Built, AllNamed
    <3>2. PICK r \in Elements(facts.requirements) : id \in {Ffi(r), Abi(r), Symbol(r)}
      BY <2>1, <3>1, KindsOfIds DEF Named, IdAt, ArtifactAt
    <3> QED BY <1>1, <3>2, BindingIsProper
  <2>2. Live(om) \subseteq Live(on)
    BY <1>0 DEF AllClose
  <2> QED BY <1>2, <2>1, <2>2 DEF Of
<1>6. /\ DOMAIN on = DOMAIN om \cup Six(exe)
      /\ \A id \in DOMAIN om \ Six(exe) : on[id] = om[id]
      /\ Live(om) \subseteq Live(on)
  BY <1>0 DEF AllClose
<1>7. /\ LinkOrder \in Live(on) /\ on[LinkOrder].dependsOn = Objects(om)
      /\ FinalLink \in Live(on) /\ on[FinalLink].dependsOn = Objects(om) \cup {LinkOrder} \cup Of(om, "Symbol")
      /\ Artifact(exe) \in Live(on) /\ on[Artifact(exe)].dependsOn = {FinalLink}
      /\ Runtime \in Live(on) /\ on[Runtime].dependsOn = {Artifact(exe)}
      /\ Provenance \in Live(on) /\ on[Provenance].dependsOn = {Runtime}
      /\ Demand \in Live(on) /\ on[Demand].dependsOn = {Provenance}
  BY <1>0 DEF AllClose, Closes
<1>8. \A id \in Six(exe) : id \in Live(on) /\ on[id].dependsOn \subseteq Live(on)
  BY <1>4, <1>5, <1>7 DEF Six
<1>9. ASSUME NEW id \in DOMAIN on
      PROVE  on[id].state \in Chosen \cup {"Rejected"} /\ on[id].dependsOn \subseteq Live(on)
  <2>1. CASE id \in Six(exe)
    BY <1>8, <2>1 DEF Live
  <2>2. CASE id \notin Six(exe)
    <3>1. id \in DOMAIN om /\ on[id] = om[id]
      BY <1>6, <2>2
    <3>2. id \in DOMAIN os /\ on[id].state = os[id].state /\ on[id].dependsOn = os[id].dependsOn
      BY <1>2, <3>1
    <3>3. Proper(facts, os, id)
      BY <1>3, <3>2
    <3> QED BY <1>2, <1>6, <3>2, <3>3 DEF Proper
  <2> QED BY <2>1, <2>2
<1>10. ASSUME NEW id \in Of(on, "NativeExecutableDemand") PROVE id = Demand
  <2>1. CASE id \in Six(exe)
    BY <1>10, <2>1, KindsOfIds DEF Six, Of
  <2>2. CASE id \notin Six(exe)
    <3>1. id \in DOMAIN os /\ KindOf(id) = "NativeExecutableDemand"
      BY <1>2, <1>6, <1>10, <2>2 DEF Of
    <3>2. Named(facts, id)
      BY <1>1, <3>1 DEF Finished, Built, AllNamed
    <3> QED BY <3>1, <3>2, KindsOfIds DEF Named, IdAt, ArtifactAt
  <2> QED BY <2>1, <2>2
<1> QED BY <1>9, <1>10 DEF Steady, OneDemand

-----------------------------------------------------------------------------
(* The action required is the one that discharges.                         *)
LEMMA OnlyOne ==
  ASSUME NEW facts, NEW s, Orderly(facts, s), NEW k \in 1 .. Len(s), NEW j \in 1 .. Len(s), j # k
  PROVE  Separate(s[j], s[k])
<1>1. PICK n \in Nat : n = Len(s)
  BY DEF Orderly, IsList
<1>2. j \in 1 .. k - 1 \/ k \in 1 .. j - 1
  BY <1>1
<1>3. Separate(s[j], s[k]) \/ Separate(s[k], s[j])
  BY <1>2 DEF Orderly
<1> QED BY <1>3 DEF Separate

LEMMA OrderlyCloser ==
  ASSUME NEW facts, NEW s, Orderly(facts, s), NEW k \in 1 .. Len(s), NEW id \in Elements(s[k].discharges)
  PROVE  Closer(s, id) = {s[k].id}
<1>1. PICK n \in Nat : n = Len(s)
  BY DEF Orderly, IsList
<1>2. \A j \in 1 .. Len(s) : id \in Elements(s[j].discharges) => j = k
  <2>1. ASSUME NEW j \in 1 .. Len(s), j # k PROVE id \notin Elements(s[j].discharges)
    <3>1. Separate(s[j], s[k])
      BY <2>1, OnlyOne
    <3> QED BY <3>1 DEF Separate
  <2> QED BY <2>1
<1>3. \A j \in 1 .. Len(s) : id \in Elements(s[j].discharges) => j <= k
  BY <1>1, <1>2
<1>4. IsList(s)
  BY DEF Orderly
<1> QED BY <1>3, <1>4, CloserIs

(* A plan that the driver can follow: it closes all that is live.          *)
Ready(facts, on, acts) ==
  /\ Orderly(facts, acts) /\ Steady(on)
  /\ \A id \in DOMAIN on : on[id].action = Closer(acts, id)
  /\ \A id \in Live(on) : KindOf(id) \in ResolverOwned \/ Closer(acts, id) # {}
  /\ \A k \in 1 .. Len(acts) :
       /\ Elements(acts[k].discharges) \subseteq Live(on)
       /\ acts[k].kind = "PreflightRuntimeContract" => acts[k].discharges = <<Runtime>>
  /\ \E k \in 1 .. Len(acts) : acts[k].id = <<"link">>
  /\ Demand \in DOMAIN on /\ Of(on, "NativeExecutableDemand") \subseteq Live(on)

(* What the actions of the plan discharge.                                 *)
EndDischarges(exe) == {FinalLink, LinkOrder, Artifact(exe), Runtime, Provenance}

Dischargers(facts, exe, n, as, acts) ==
  /\ n \in Nat /\ n = Len(as) /\ Len(acts) = n + 3
  /\ \A k \in 1 .. n : acts[k] = as[k]
  /\ acts[n + 1].id = <<"link">> /\ acts[n + 2].id = <<"preflight">> /\ acts[n + 3].id = <<"publish">>
  /\ Elements(acts[n + 1].discharges) = {FinalLink, LinkOrder, Artifact(exe)}
  /\ Elements(acts[n + 2].discharges) = {Runtime} /\ Elements(acts[n + 3].discharges) = {Provenance}
  /\ acts[n + 2].discharges = <<Runtime>>
  /\ acts[n + 1].kind # "PreflightRuntimeContract" /\ acts[n + 3].kind # "PreflightRuntimeContract"

LEMMA ResolvedDischarges ==
  ASSUME NEW facts, NEW os, NEW as, NEW om, NEW exe, NEW acts, NEW on, Resolved(facts, os, as, om, exe, acts, on)
  PROVE  \E n : Dischargers(facts, exe, n, as, acts)
<1>1. Ending(om, exe, as, acts)
  BY PlanIsOrderly
<1>2. PICK n, l, p, b :
        /\ n \in Nat /\ n = Len(as) /\ Len(acts) = n + 3 /\ \A k \in 1 .. n : acts[k] = as[k]
        /\ l = acts[n + 1] /\ p = acts[n + 2] /\ b = acts[n + 3]
        /\ IsLink(om, exe, l) /\ IsPreflight(exe, p) /\ IsPublish(exe, b)
  BY <1>1 DEF Ending
<1>3. Elements(l.discharges) = {FinalLink, LinkOrder, Artifact(exe)}
  BY <1>2, LinkIsSane
<1>4. Elements(p.discharges) = {Runtime} /\ Elements(b.discharges) = {Provenance}
  BY <1>2, EndsAreSane
<1>5. l.id = <<"link">> /\ l.kind # "PreflightRuntimeContract"
  BY <1>2 DEF IsLink
<1>6. p.id = <<"preflight">> /\ p.discharges = <<Runtime>>
  BY <1>2 DEF IsPreflight
<1>7. b.id = <<"publish">> /\ b.kind # "PreflightRuntimeContract"
  BY <1>2 DEF IsPublish
<1> QED BY <1>2, <1>3, <1>4, <1>5, <1>6, <1>7 DEF Dischargers

(* The actions of the candidates discharge artifacts of chosen candidates. *)
MakesArtifacts(facts, a) ==
  /\ a.kind # "PreflightRuntimeContract"
  /\ \A id \in Elements(a.discharges) : \E i \in ChosenIn(facts) : Makes(facts, i) /\ id = ArtifactAt(facts, i)

LEMMA PlannedDischarge ==
  ASSUME NEW facts, NEW os, NEW as, NEW om, NEW exe, NEW acts, NEW on, Resolved(facts, os, as, om, exe, acts, on),
         NEW k \in 1 .. Len(as)
  PROVE  MakesArtifacts(facts, as[k])
<1>1. PICK i \in ChosenIn(facts) : Own(facts, i, as[k])
  BY PlannedIsOrderly DEF Resolved, PlanOf, Owners
<1>2. as[k].kind # "PreflightRuntimeContract"
  BY <1>1 DEF Own, Compilers
<1>3. ASSUME NEW id \in Elements(as[k].discharges) PROVE Makes(facts, i) /\ id = ArtifactAt(facts, i)
  <2>1. PICK d : d = as[k].discharges
    OBVIOUS
  <2>2. d = <<>> \/ (Makes(facts, i) /\ d = <<ArtifactAt(facts, i)>>)
    BY <1>1, <2>1 DEF Own
  <2>3. PICK x \in DOMAIN d : id = d[x]
    BY <1>3, <2>1 DEF Elements
  <2>4. CASE d = <<>>
    BY <2>3, <2>4
  <2>5. CASE Makes(facts, i) /\ d = <<ArtifactAt(facts, i)>>
    BY <2>3, <2>5
  <2> QED BY <2>2, <2>4, <2>5
<1> QED BY <1>2, <1>3 DEF MakesArtifacts

(* An artifact of the facts' other packages is not the executable's.       *)
LEMMA ArtifactsAreApart ==
  ASSUME NEW facts, Regular(facts), Decided(facts), NEW os, Finished(facts, os), NEW exe, exe = ExecutablesIn(facts)[1].id,
         NEW i \in ChosenIn(facts), Makes(facts, i)
  PROVE  /\ MadeBy(facts, i)[1] \in Elements(facts.outputs) /\ MadeBy(facts, i)[1].kind # "NativeExecutable"
         /\ ArtifactAt(facts, i) \notin Six(exe)
<1>1. PICK p, kind, outs : outs = OutputsIn(facts, p, kind) /\ kind # "NativeExecutable" /\ MadeBy(facts, i) = outs
  <2>1. /\ facts.candidates[i].ecosystem \in {"Cargo", "Nimble", "C", "Cpp"}
        /\ MadeBy(facts, i) = OutputsIn(facts, facts.candidates[i].package, EndKind[facts.candidates[i].ecosystem])
    BY ChosenMakes DEF Regular
  <2>2. \A e \in {"Cargo", "Nimble", "C", "Cpp"} : EndKind[e] # "NativeExecutable"
    BY DEF EndKind
  <2> QED BY <2>1, <2>2
<1>2. outs[1] \in Elements(facts.outputs) /\ outs[1].kind = kind
  <2>1. IsList(outs) /\ Elements(outs) = Elements(facts.outputs) \cap DeclaredBy(facts, p, kind)
    BY <1>1, FactsAreLists, ThinElements DEF OutputsIn, Regular
  <2>2. outs # <<>>
    BY <1>1 DEF Makes
  <2>3. 1 \in DOMAIN outs
    BY <2>1, <2>2 DEF IsList
  <2> QED BY <2>1, <2>3 DEF Elements, DeclaredBy
<1>3. PICK o \in Elements(facts.outputs) : o.kind = "NativeExecutable" /\ o.id = exe
  BY TheExecutable DEF Regular
<1>4. outs[1].id # exe
  BY <1>1, <1>2, <1>3 DEF Regular, DeclaredOnce
<1>5. Artifact(outs[1].id) # Artifact(exe)
  BY <1>4, SameIds
<1>6. Artifact(outs[1].id) \notin Six(exe)
  BY <1>5, KindsOfIds DEF Six
<1> QED BY <1>1, <1>2, <1>6 DEF ArtifactAt

LEMMA ResolvedIsReady ==
  ASSUME NEW facts, NEW os, NEW as, NEW om, NEW exe, NEW acts, NEW on, Resolved(facts, os, as, om, exe, acts, on)
  PROVE  Ready(facts, on, acts)
<1>1. /\ Regular(facts) /\ Complete(facts) /\ Decided(facts) /\ Finished(facts, os)
      /\ exe = ExecutablesIn(facts)[1].id /\ om = Assigned(os, as) /\ on = Closing(om, exe)
  BY DEF Resolved
<1>2. AllClose(om, exe, on)
  BY <1>1, ClosingIsLive
<1>3. ActionsGiven(os, as, om)
  BY <1>1, AssignedIsProper
<1>4. PICK n : Dischargers(facts, exe, n, as, acts)
  BY ResolvedDischarges
<1>0. n \in Nat /\ n = Len(as) /\ Len(acts) = n + 3
  BY <1>4 DEF Dischargers
<1>a. PICK m, h : m = Len(acts) /\ m = n + 3 /\ h = Len(as) /\ h = n
  BY <1>0
<1>b. /\ n + 1 \in 1 .. m /\ n + 2 \in 1 .. m /\ n + 3 \in 1 .. m
      /\ \A k \in 1 .. n : k \in 1 .. m
      /\ \A k \in 1 .. m : k \in 1 .. n \/ k = n + 1 \/ k = n + 2 \/ k = n + 3
  <2>1. m = n + 3 /\ n \in Nat
    BY <1>0, <1>a
  <2> QED BY ONLY <2>1
<1>5. /\ n + 1 \in 1 .. Len(acts) /\ n + 2 \in 1 .. Len(acts) /\ n + 3 \in 1 .. Len(acts)
      /\ \A k \in 1 .. n : k \in 1 .. Len(acts) /\ k \in 1 .. Len(as)
  BY <1>a, <1>b
<1>6. \A k \in 1 .. Len(acts) : k \in 1 .. n \/ k = n + 1 \/ k = n + 2 \/ k = n + 3
  BY <1>a, <1>b
<1>7. Orderly(facts, acts) /\ Orderly(facts, as)
  BY <1>1, PlanIsOrderly, PlannedIsOrderly DEF PlanOf, Resolved
<1>8. \A k \in 1 .. n : acts[k] = as[k]
  BY <1>4 DEF Dischargers
<1>9. /\ Elements(acts[n + 1].discharges) = {FinalLink, LinkOrder, Artifact(exe)}
      /\ Elements(acts[n + 2].discharges) = {Runtime} /\ Elements(acts[n + 3].discharges) = {Provenance}
  BY <1>4 DEF Dischargers
<1>10. ASSUME NEW k \in 1 .. n, NEW id \in Elements(acts[k].discharges)
       PROVE  /\ \E i \in ChosenIn(facts) : Makes(facts, i) /\ id = ArtifactAt(facts, i)
              /\ id \notin Six(exe) /\ id \in Live(om)
  <2>1. k \in 1 .. Len(as) /\ id \in Elements(as[k].discharges)
    BY <1>5, <1>8, <1>10
  <2>a. k \in 1 .. Len(as)
    BY <2>1
  <2>b. \A x \in Elements(as[k].discharges) : \E i \in ChosenIn(facts) : Makes(facts, i) /\ x = ArtifactAt(facts, i)
    <3>1. MakesArtifacts(facts, as[k])
      BY <2>a, PlannedDischarge
    <3> QED BY <3>1 DEF MakesArtifacts
  <2>2. PICK i \in ChosenIn(facts) : Makes(facts, i) /\ id = ArtifactAt(facts, i)
    BY <2>1, <2>b
  <2>3. id \notin Six(exe)
    BY <1>1, <2>2, ArtifactsAreApart
  <2>4. id \in Live(os)
    BY <1>1, <2>2, ArtifactIsProper
  <2>5. id \in Live(om)
    BY <1>3, <2>4 DEF ActionsGiven
  <2> QED BY <2>2, <2>3, <2>5
<1>11. ASSUME NEW k \in 1 .. Len(acts) PROVE Elements(acts[k].discharges) \subseteq Live(on)
  <2>1. Live(om) \subseteq Live(on)
    BY <1>2 DEF AllClose
  <2>2. {FinalLink, LinkOrder, Artifact(exe), Runtime, Provenance} \subseteq Live(on)
    BY <1>2 DEF AllClose, Closes
  <2>3. CASE k \in 1 .. n
    BY <1>10, <2>1, <2>3
  <2>4. CASE k = n + 1 \/ k = n + 2 \/ k = n + 3
    BY <1>9, <2>2, <2>4
  <2> QED BY <1>6, <2>3, <2>4
<1>12. ASSUME NEW k \in 1 .. Len(acts), acts[k].kind = "PreflightRuntimeContract"
       PROVE  acts[k].discharges = <<Runtime>>
  <2>1. CASE k \in 1 .. n
    <3>1. acts[k] = as[k] /\ k \in 1 .. Len(as)
      BY <1>5, <1>8, <2>1
    <3>2. as[k].kind # "PreflightRuntimeContract"
      BY <3>1, PlannedDischarge DEF MakesArtifacts
    <3> QED BY <1>12, <3>1, <3>2
  <2>2. CASE k = n + 1 \/ k = n + 2 \/ k = n + 3
    BY <1>4, <1>12, <2>2 DEF Dischargers
  <2> QED BY <1>6, <2>1, <2>2
<1>13. acts[n + 1].id = <<"link">> /\ acts[n + 2].id = <<"preflight">> /\ acts[n + 3].id = <<"publish">>
  BY <1>4 DEF Dischargers
<1>14. /\ Closer(acts, LinkOrder) = {<<"link">>} /\ Closer(acts, FinalLink) = {<<"link">>}
       /\ Closer(acts, Artifact(exe)) = {<<"link">>}
  <2>1. \A id \in Elements(acts[n + 1].discharges) : Closer(acts, id) = {acts[n + 1].id}
    BY <1>5, <1>7, OrderlyCloser
  <2> QED BY <1>9, <1>13, <2>1
<1>15. Closer(acts, Runtime) = {<<"preflight">>}
  <2>1. \A id \in Elements(acts[n + 2].discharges) : Closer(acts, id) = {acts[n + 2].id}
    BY <1>5, <1>7, OrderlyCloser
  <2> QED BY <1>9, <1>13, <2>1
<1>16. Closer(acts, Provenance) = {<<"publish">>}
  <2>1. \A id \in Elements(acts[n + 3].discharges) : Closer(acts, id) = {acts[n + 3].id}
    BY <1>5, <1>7, OrderlyCloser
  <2> QED BY <1>9, <1>13, <2>1
<1>17. Closer(acts, Demand) = {}
  <2>1. \A k \in 1 .. n : Demand \notin Elements(acts[k].discharges)
    BY <1>10 DEF Six
  <2>2. Demand \notin {FinalLink, LinkOrder, Artifact(exe)} /\ Demand # Runtime /\ Demand # Provenance
    BY KindsOfIds
  <2>3. \A k \in 1 .. Len(acts) : Demand \notin Elements(acts[k].discharges)
    BY <1>6, <1>9, <2>1, <2>2
  <2> QED BY <1>7, <2>3, CloserNone DEF Orderly
<1>18. ASSUME NEW id, id \notin Six(exe) PROVE Closer(acts, id) = Closer(as, id)
  <2>1. id \notin {FinalLink, LinkOrder, Artifact(exe)} /\ id # Runtime /\ id # Provenance
    BY <1>18 DEF Six
  <2>2. CASE \E k \in 1 .. n : id \in Elements(as[k].discharges)
    <3>1. PICK k \in 1 .. n : id \in Elements(as[k].discharges)
      BY <2>2
    <3>2. k \in 1 .. Len(as) /\ k \in 1 .. Len(acts) /\ acts[k] = as[k]
      BY <1>5, <1>8
    <3>3. Closer(as, id) = {as[k].id}
      BY <1>7, <3>1, <3>2, OrderlyCloser
    <3>4. id \in Elements(acts[k].discharges)
      BY <3>1, <3>2
    <3>5. Closer(acts, id) = {acts[k].id}
      BY <1>7, <3>2, <3>4, OrderlyCloser
    <3> QED BY <3>2, <3>3, <3>5
  <2>3. CASE \A k \in 1 .. n : id \notin Elements(as[k].discharges)
    <3>1. \A k \in 1 .. Len(acts) : id \notin Elements(acts[k].discharges)
      BY <1>6, <1>8, <1>9, <2>1, <2>3
    <3>2. \A k \in 1 .. Len(as) : id \notin Elements(as[k].discharges)
      BY <1>a, <2>3
    <3>3. Closer(as, id) = {} /\ Closer(acts, id) = {}
      BY <1>7, <3>1, <3>2, CloserNone DEF Orderly
    <3> QED BY <3>3
  <2> QED BY <2>2, <2>3
<1>19. \A id \in DOMAIN on \ Six(exe) : id \in DOMAIN om /\ on[id] = om[id]
  BY <1>2 DEF AllClose
<1>20. ASSUME NEW id \in DOMAIN on PROVE on[id].action = Closer(acts, id)
  <2>1. CASE id \in Six(exe)
    <3>1. /\ on[LinkOrder].action = {<<"link">>} /\ on[FinalLink].action = {<<"link">>}
          /\ on[Artifact(exe)].action = {<<"link">>} /\ on[Runtime].action = {<<"preflight">>}
          /\ on[Provenance].action = {<<"publish">>} /\ on[Demand].action = {}
      BY <1>2 DEF AllClose, Closes
    <3> QED BY <1>14, <1>15, <1>16, <1>17, <2>1, <3>1 DEF Six
  <2>2. CASE id \notin Six(exe)
    <3>1. id \in DOMAIN om /\ on[id] = om[id]
      BY <1>19, <2>2
    <3>2. om[id].action = Closer(as, id)
      BY <1>3, <3>1 DEF ActionsGiven
    <3> QED BY <1>18, <2>2, <3>1, <3>2
  <2> QED BY <2>1, <2>2
<1>21. ASSUME NEW id \in Live(on) PROVE KindOf(id) \in ResolverOwned \/ Closer(acts, id) # {}
  <2>1. CASE id \in Six(exe)
    <3>1. KindOf(Demand) \in ResolverOwned
      BY KindsOfIds DEF ResolverOwned
    <3> QED BY <1>14, <1>15, <1>16, <2>1, <3>1 DEF Six
  <2>2. CASE id \notin Six(exe)
    <3>1. id \in DOMAIN os
      BY <1>3, <1>19, <2>2 DEF ActionsGiven, Live
    <3>2. Proper(facts, os, id)
      BY <1>1, <3>1, FinishedIsProper
    <3>3. ASSUME NEW i \in ChosenIn(facts), Makes(facts, i), id = ArtifactAt(facts, i)
          PROVE  Closer(as, id) # {}
      <4>1. PlanOf(facts, Len(facts.candidates), as) /\ i <= Len(facts.candidates)
        BY PlannedIsOrderly, FactsAreLists DEF Resolved, ChosenIn, RootsIn, Regular, IsList
      <4>2. PICK k \in 1 .. Len(as) : as[k].discharges = <<ArtifactAt(facts, i)>>
        BY <3>3, <4>1 DEF PlanOf, Enough
      <4>3. id \in Elements(as[k].discharges)
        <5>1. PICK d : d = as[k].discharges /\ d = <<id>>
          BY <3>3, <4>2
        <5>2. 1 \in DOMAIN d /\ d[1] = id
          BY <5>1
        <5> QED BY <5>1, <5>2 DEF Elements
      <4>4. Closer(as, id) = {as[k].id}
        BY <1>7, <4>2, <4>3, OrderlyCloser
      <4> QED BY <4>4
    <3> QED BY <1>18, <2>2, <3>2, <3>3 DEF Proper
  <2> QED BY <2>1, <2>2
<1>22. Steady(on) /\ Of(on, "NativeExecutableDemand") \subseteq Live(on) /\ Demand \in DOMAIN on
  <2>1. Demand \in Live(on)
    BY <1>2 DEF AllClose, Closes
  <2>2. Demand \in DOMAIN on
    BY <2>1 DEF Live
  <2>3. Steady(on) /\ \A id \in Of(on, "NativeExecutableDemand") : id = Demand
    <3>1. OneDemand(on)
      BY ResolvedIsSteady
    <3> QED BY <3>1 DEF OneDemand
  <2> QED BY <2>1, <2>2, <2>3
<1> QED BY <1>5, <1>7, <1>11, <1>12, <1>13, <1>20, <1>21, <1>22 DEF Ready

-----------------------------------------------------------------------------
(* What an action waits for, as the integrity check finds it               *)
NeedsOf(s, i) ==
  UNION {s[k].dependsOn : k \in {k \in DOMAIN s : s[k].id = i /\ \A j \in k + 1 .. Len(s) : s[j].id # i}}
Waits(from, s, i) ==
  from[0] = NeedsOf(s, i) /\ \A n \in Nat : from[n + 1] = UNION {{x} \cup NeedsOf(s, x) : x \in from[n]}

LEMMA UpstreamSpreads ==
  ASSUME NEW as, NEW id
  PROVE  \E from : Waits(from, as, id) /\ Upstream(id, as) = from[Len(as)]
<1> DEFINE Next1(x) == NeedsOf(as, x)
           start == Next1(id)
           U == UNION {as[k].dependsOn : k \in DOMAIN as}
           s == [p \in U |-> Next1(p)]
           Body(f) == [n \in Nat |-> IF n = 0 THEN start ELSE UNION {{p} \cup Next1(p) : p \in f[n-1]}]
           from == CHOOSE f : f = Body(f)
<1>0. \A p : Next1(p) \subseteq U
  BY DEF NeedsOf
<1>1. start \in SUBSET U /\ \A p \in U : s[p] = Next1(p) /\ s[p] \subseteq U
  <2> HIDE DEF U, Next1
  <2> QED BY <1>0
<1>2. Upstream(id, as) = from[Len(as)]
  BY DEF Upstream, Closure, NeedsOf
<1>3. from = Body(from)
  <2>1. PICK f : /\ f = [n \in Nat |-> f[n]]
                 /\ Spreads(f, start, s)
                 /\ \A n \in Nat : f[n] \subseteq U
    <3> HIDE DEF U, s, start
    <3> QED BY <1>1, SpreadExists
  <2>2. ASSUME NEW n \in Nat PROVE f[n] = Body(f)[n]
    <3>1. CASE n = 0
      <4> HIDE DEF Next1, U, s
      <4> QED BY <2>1, <3>1 DEF Spreads
    <3>2. CASE n # 0
      <4>1. n - 1 \in Nat /\ (n - 1) + 1 = n
        BY <3>2
      <4> HIDE DEF U, s, Next1, start
      <4>2. f[n] = UNION {{p} \cup s[p] : p \in f[n-1]}
        BY <2>1, <4>1 DEF Spreads
      <4>3. \A p \in f[n-1] : s[p] = Next1(p)
        BY <1>1, <2>1, <4>1
      <4> QED BY <3>2, <4>2, <4>3
    <3> QED BY <3>1, <3>2
  <2>3. f = Body(f)
    <3> HIDE DEF Next1
    <3>1. Body(f) = [n \in Nat |-> Body(f)[n]]
      OBVIOUS
    <3> HIDE DEF Body
    <3> QED BY <2>1, <2>2, <3>1
  <2> HIDE DEF Body
  <2> QED BY <2>3
<1>4. from[0] = start /\ \A n \in Nat : from[n + 1] = UNION {{p} \cup Next1(p) : p \in from[n]}
  <2> HIDE DEF from, Next1, start
  <2>1. \A n \in Nat : from[n] = IF n = 0 THEN start ELSE UNION {{p} \cup Next1(p) : p \in from[n-1]}
    BY <1>3
  <2>2. \A n \in Nat : n + 1 \in Nat /\ n + 1 # 0 /\ (n + 1) - 1 = n
    OBVIOUS
  <2> QED BY <2>1, <2>2
<1> HIDE DEF from
<1> QED BY <1>2, <1>4 DEF Waits

LEMMA OrderlyNeeds ==
  ASSUME NEW facts, NEW s, Orderly(facts, s), NEW k \in 1 .. Len(s)
  PROVE  NeedsOf(s, s[k].id) = s[k].dependsOn
<1>1. PICK n \in Nat : n = Len(s) /\ DOMAIN s = 1 .. n
  BY ListIsSeq DEF Orderly, IsList
<1>2. \A j \in 1 .. n : s[j].id = s[k].id => j = k
  <2>1. ASSUME NEW j \in 1 .. n, j # k PROVE s[j].id # s[k].id
    <3>1. Separate(s[j], s[k])
      BY <1>1, <2>1, OnlyOne
    <3> QED BY <3>1 DEF Separate
  <2> QED BY <2>1
<1>3. k \in 1 .. n /\ \A j \in k + 1 .. n : j \in 1 .. n /\ j # k
  BY <1>1
<1>4. {m \in DOMAIN s : s[m].id = s[k].id /\ \A j \in m + 1 .. Len(s) : s[j].id # s[k].id} = {k}
  BY <1>1, <1>2, <1>3
<1>5. NeedsOf(s, s[k].id) = UNION {s[m].dependsOn : m \in {k}}
  BY <1>4 DEF NeedsOf
<1> QED BY <1>5

(* It lies between what it depends on, with what that depends on, and what *)
(* is before it in the plan.                                               *)
Earlier(s, k) == {s[j].id : j \in 1 .. k - 1}

LEMMA UpstreamBounds ==
  ASSUME NEW facts, NEW s, Orderly(facts, s), NEW k \in 1 .. Len(s)
  PROVE  /\ s[k].dependsOn \subseteq Upstream(s[k].id, s)
         /\ \A m \in 1 .. Len(s) : s[m].id \in s[k].dependsOn => s[m].dependsOn \subseteq Upstream(s[k].id, s)
         /\ Upstream(s[k].id, s) \subseteq Earlier(s, k)
         /\ s[k].id \notin Earlier(s, k)
<1>1. PICK n \in Nat : n = Len(s) /\ k \in 1 .. n
  BY DEF Orderly, IsList
<1>2. PICK from : Waits(from, s, s[k].id) /\ Upstream(s[k].id, s) = from[n]
  BY <1>1, UpstreamSpreads
<1>3. from[0] = s[k].dependsOn
  BY <1>2, OrderlyNeeds DEF Waits
<1>4. ASSUME NEW m \in Nat PROVE from[m + 1] = UNION {{x} \cup NeedsOf(s, x) : x \in from[m]}
  BY <1>2 DEF Waits
<1>5. ASSUME NEW m \in Nat PROVE from[m] \subseteq from[m + 1] /\ \A x \in from[m] : NeedsOf(s, x) \subseteq from[m + 1]
  BY <1>4
<1>6. from[0] \subseteq from[n] /\ from[1] \subseteq from[n]
  <2> DEFINE S == {m \in Nat : from[1] \subseteq from[m + 1]}
  <2>1. 0 \in S
    <3>1. 0 + 1 = 1
      OBVIOUS
    <3> QED BY <3>1
  <2>2. \A m \in Nat : m \in S => m + 1 \in S
    <3> SUFFICES ASSUME NEW m \in Nat, from[1] \subseteq from[m + 1] PROVE from[1] \subseteq from[(m + 1) + 1]
      OBVIOUS
    <3>1. m + 1 \in Nat
      OBVIOUS
    <3>2. from[m + 1] \subseteq from[(m + 1) + 1]
      BY <1>5, <3>1
    <3> QED BY <3>2
  <2>3. Nat \subseteq S
    <3> HIDE DEF S
    <3> QED BY <2>1, <2>2, Induction
  <2>4. n - 1 \in Nat /\ (n - 1) + 1 = n
    BY <1>1
  <2>5. from[1] \subseteq from[n]
    <3>1. n - 1 \in S
      BY <2>3, <2>4
    <3>2. from[1] \subseteq from[(n - 1) + 1]
      BY <3>1
    <3> QED BY <2>4, <3>2
  <2>6. from[0] \subseteq from[1]
    <3>1. 0 \in Nat /\ 0 + 1 = 1
      OBVIOUS
    <3>2. from[0] \subseteq from[0 + 1]
      BY <1>5
    <3> QED BY <3>1, <3>2
  <2> QED BY <2>5, <2>6
<1>7. ASSUME NEW m \in 1 .. Len(s), s[m].id \in s[k].dependsOn PROVE s[m].dependsOn \subseteq from[n]
  <2>1. 0 + 1 = 1
    OBVIOUS
  <2>2. NeedsOf(s, s[m].id) \subseteq from[0 + 1]
    BY <1>3, <1>5, <1>7
  <2>3. NeedsOf(s, s[m].id) = s[m].dependsOn
    BY OrderlyNeeds
  <2> QED BY <1>6, <2>1, <2>2, <2>3
<1>8. from[n] \subseteq Earlier(s, k)
  <2> DEFINE S == {m \in Nat : from[m] \subseteq Earlier(s, k)}
  <2>1. \A j \in 1 .. n : s[j].dependsOn \subseteq Earlier(s, j)
    BY <1>1 DEF Orderly, Backed, Earlier
  <2>2. 0 \in S
    BY <1>1, <1>3, <2>1
  <2>3. ASSUME NEW x \in Earlier(s, k) PROVE NeedsOf(s, x) \subseteq Earlier(s, k)
    <3>1. PICK j \in 1 .. k - 1 : x = s[j].id
      BY <2>3 DEF Earlier
    <3>2. j \in 1 .. n /\ j \in 1 .. Len(s) /\ \A i \in 1 .. j - 1 : i \in 1 .. k - 1
      BY <1>1, <3>1
    <3>3. NeedsOf(s, x) = s[j].dependsOn
      BY <3>1, <3>2, OrderlyNeeds
    <3>4. Earlier(s, j) \subseteq Earlier(s, k)
      BY <3>2 DEF Earlier
    <3> QED BY <2>1, <3>2, <3>3, <3>4
  <2>4. \A m \in Nat : m \in S => m + 1 \in S
    <3> SUFFICES ASSUME NEW m \in Nat, from[m] \subseteq Earlier(s, k) PROVE from[m + 1] \subseteq Earlier(s, k)
      OBVIOUS
    <3>1. from[m + 1] = UNION {{x} \cup NeedsOf(s, x) : x \in from[m]}
      BY <1>4
    <3> QED BY <2>3, <3>1
  <2>5. Nat \subseteq S
    <3> HIDE DEF S
    <3> QED BY <2>2, <2>4, Induction
  <2>6. n \in S
    BY <2>5
  <2> QED BY <2>6
<1>9. s[k].id \notin Earlier(s, k)
  <2>1. ASSUME NEW j \in 1 .. k - 1 PROVE s[j].id # s[k].id
    <3>1. Separate(s[j], s[k])
      BY <2>1 DEF Orderly
    <3> QED BY <3>1 DEF Separate
  <2> QED BY <2>1 DEF Earlier
<1> QED BY <1>2, <1>3, <1>6, <1>7, <1>8, <1>9

-----------------------------------------------------------------------------
(* The integrity check finds nothing *)
ExecutableIds(facts) == {o.id : o \in {x \in Elements(facts.outputs) : x.kind = "NativeExecutable"}}
LinkedApart(facts, om, on) == Linked(on) \ ExecutableIds(facts) = Linked(om)

LEMMA LinkedRest ==
  ASSUME NEW facts, NEW os, NEW as, NEW om, NEW exe, NEW acts, NEW on, Resolved(facts, os, as, om, exe, acts, on)
  PROVE  LinkedApart(facts, om, on)
<1>1. /\ Regular(facts) /\ Complete(facts) /\ Decided(facts) /\ Finished(facts, os)
      /\ exe = ExecutablesIn(facts)[1].id /\ om = Assigned(os, as) /\ on = Closing(om, exe)
  BY DEF Resolved
<1>2. AllClose(om, exe, on)
  BY <1>1, ClosingIsLive
<1>3. /\ DOMAIN on = DOMAIN om \cup Six(exe)
      /\ \A id \in DOMAIN om \ Six(exe) : on[id] = om[id]
  BY <1>2 DEF AllClose
<1>4. PICK E : E = {o.id : o \in {x \in Elements(facts.outputs) : x.kind = "NativeExecutable"}}
               /\ E = ExecutableIds(facts)
  BY DEF ExecutableIds
<1>5. exe \in E
  <2>1. PICK o \in Elements(facts.outputs) : o.kind = "NativeExecutable" /\ o.id = exe
    BY <1>1, TheExecutable DEF Regular
  <2> QED BY <1>4, <2>1
<1>6. ASSUME NEW x \in Linked(om) PROVE x \notin E /\ Artifact(x) \notin Six(exe)
  <2>1. PICK i \in ChosenIn(facts) : Makes(facts, i) /\ x = MadeBy(facts, i)[1].id
    BY <1>6, LinkedAreMade DEF Resolved
  <2>2. /\ MadeBy(facts, i)[1] \in Elements(facts.outputs) /\ MadeBy(facts, i)[1].kind # "NativeExecutable"
        /\ ArtifactAt(facts, i) \notin Six(exe)
    BY <1>1, <2>1, ArtifactsAreApart
  <2>3. x \notin E
    BY <1>1, <1>4, <2>1, <2>2 DEF Regular, DeclaredOnce
  <2> QED BY <2>1, <2>2, <2>3 DEF ArtifactAt
<1>7. ASSUME NEW x \in Linked(om) PROVE x \in Linked(on) \ E
  <2>1. PICK id \in DOMAIN om : KindOf(id) = "ArtifactProduction" /\ om[id].state # "Rejected" /\ x = id[2]
    BY <1>7 DEF Linked, Of
  <2>2. id = Artifact(x)
    <3>1. id \in DOMAIN os
      BY <1>1, AssignedByCloser
    <3>2. Proper(facts, os, id)
      BY <1>1, <3>1, FinishedIsProper
    <3>3. KindOf(id) \notin ResolverOwned
      BY <2>1 DEF ResolverOwned
    <3>4. PICK i \in ChosenIn(facts) : id = ArtifactAt(facts, i)
      BY <3>2, <3>3 DEF Proper
    <3> QED BY <2>1, <3>4 DEF ArtifactAt, Artifact
  <2>3. id \in DOMAIN on /\ on[id] = om[id]
    BY <1>3, <1>6, <2>1, <2>2
  <2>4. x \in Linked(on)
    BY <2>1, <2>3 DEF Linked, Of
  <2> QED BY <1>6, <2>4
<1>8. ASSUME NEW x \in Linked(on), x \notin E PROVE x \in Linked(om)
  <2>1. PICK id \in DOMAIN on : KindOf(id) = "ArtifactProduction" /\ on[id].state # "Rejected" /\ x = id[2]
    BY <1>8 DEF Linked, Of
  <2>2. CASE id \in Six(exe)
    <3>1. id = Artifact(exe)
      BY <2>1, <2>2, KindsOfIds DEF Six
    <3>2. x = exe
      BY <2>1, <3>1 DEF Artifact
    <3> QED BY <1>5, <1>8, <3>2
  <2>3. CASE id \notin Six(exe)
    <3>1. id \in DOMAIN om /\ on[id] = om[id]
      BY <1>3, <2>3
    <3> QED BY <2>1, <3>1 DEF Linked, Of
  <2> QED BY <2>2, <2>3
<1> QED BY <1>4, <1>7, <1>8 DEF LinkedApart

LinksAll(om, a) == a.kind = "LinkNativeExecutable" => a.inputs = {Output(o) : o \in Linked(om)}

LEMMA OneLink ==
  ASSUME NEW facts, NEW os, NEW as, NEW om, NEW exe, NEW acts, NEW on, Resolved(facts, os, as, om, exe, acts, on),
         NEW k \in 1 .. Len(acts)
  PROVE  LinksAll(om, acts[k])
<1>1. Ending(om, exe, as, acts)
  BY PlanIsOrderly
<1>2. PICK n, m, h : /\ n \in Nat /\ n = Len(as) /\ m = Len(acts) /\ m = n + 3 /\ \A j \in 1 .. n : acts[j] = as[j]
                     /\ IsLink(om, exe, acts[n + 1]) /\ IsPreflight(exe, acts[n + 2]) /\ IsPublish(exe, acts[n + 3])
  BY <1>1 DEF Ending
<1>3. k \in 1 .. n \/ k = n + 1 \/ k = n + 2 \/ k = n + 3
  <2>1. k \in 1 .. m /\ m = n + 3 /\ n \in Nat
    BY <1>2
  <2> QED BY ONLY <2>1
<1>4. CASE k \in 1 .. n
  <2>1. k \in 1 .. Len(as) /\ acts[k] = as[k]
    BY <1>2, <1>4
  <2>2. PICK i \in ChosenIn(facts) : Own(facts, i, as[k])
    BY <2>1, PlannedIsOrderly DEF Resolved, PlanOf, Owners
  <2>3. as[k].kind # "LinkNativeExecutable"
    BY <2>2 DEF Own, Compilers
  <2> QED BY <2>1, <2>3 DEF LinksAll
<1>5. CASE k = n + 1
  BY <1>2, <1>5 DEF IsLink, LinksAll
<1>6. CASE k = n + 2 \/ k = n + 3
  <2>1. acts[n + 2].kind = "PreflightRuntimeContract" /\ acts[n + 3].kind = "PublishProvenance"
    BY <1>2 DEF IsPreflight, IsPublish
  <2> QED BY <1>6, <2>1 DEF LinksAll
<1> QED BY <1>3, <1>4, <1>5, <1>6

(* What the check compares.                                                *)
LEMMA OrderlyInputs ==
  ASSUME NEW facts, NEW s, Orderly(facts, s), NEW k \in 1 .. Len(s), NEW m \in 1 .. Len(s),
         NEW x \in s[k].inputs, x \in s[m].outputs
  PROVE  s[m].id \in Upstream(s[k].id, s)
<1>1. PICK n \in Nat : n = Len(s) /\ k \in 1 .. n /\ \A j \in 1 .. k - 1 : j \in 1 .. n
  BY DEF Orderly, IsList
<1>2. x \notin Declared(facts)
  BY DEF Orderly, Sane
<1>3. PICK j \in 1 .. k - 1 : x \in s[j].outputs /\ WaitsFor(s, k - 1, s[k], s[j])
  BY <1>2 DEF Orderly, Backed
<1>4. j = m
  <2>1. j \in 1 .. Len(s)
    BY <1>1, <1>3
  <2>2. CASE j # m
    <3>1. Separate(s[j], s[m])
      BY <2>1, <2>2, OnlyOne
    <3> QED BY <1>3, <3>1 DEF Separate
  <2> QED BY <2>2
<1>5. CASE s[m].id \in s[k].dependsOn
  BY <1>5, UpstreamBounds
<1>6. CASE \E h \in 1 .. k - 1 : s[h].id \in s[k].dependsOn /\ s[m].id \in s[h].dependsOn
  <2>1. PICK h \in 1 .. k - 1 : s[h].id \in s[k].dependsOn /\ s[m].id \in s[h].dependsOn
    BY <1>6
  <2>2. h \in 1 .. Len(s)
    BY <1>1, <2>1
  <2>3. s[h].dependsOn \subseteq Upstream(s[k].id, s)
    BY <2>1, <2>2, UpstreamBounds
  <2> QED BY <2>1, <2>3
<1> QED BY <1>3, <1>4, <1>5, <1>6 DEF WaitsFor

LEMMA NothingIsFound ==
  ASSUME NEW facts, NEW os, NEW as, NEW om, NEW exe, NEW acts, NEW on, Resolved(facts, os, as, om, exe, acts, on)
  PROVE  Violations(facts, on, acts) = {}
<1>1. Ready(facts, on, acts)
  BY ResolvedIsReady
<1>2. Orderly(facts, acts) /\ Steady(on) /\ \A k \in 1 .. Len(acts) : Elements(acts[k].discharges) \subseteq Live(on)
  BY <1>1 DEF Ready
<1>3. PICK n \in Nat : n = Len(acts) /\ DOMAIN acts = 1 .. n
  BY <1>2, ListIsSeq DEF Orderly, IsList
<1> DEFINE Produced   == UNION {a.outputs : a \in Elements(acts)}
           Identities == {Source(s.id) : s \in facts.sources} \cup {Output(o.id) : o \in Elements(facts.outputs)}
           Executable == {o.id : o \in {x \in Elements(facts.outputs) : x.kind = "NativeExecutable"}}
<1>4. Elements(acts) = {acts[k] : k \in 1 .. n}
  BY <1>3 DEF Elements
<1>5. ~ \E id \in DOMAIN on : ~(on[id].dependsOn \subseteq DOMAIN on)
  BY <1>2 DEF Steady, Live
<1>6. ~ \E i, j \in DOMAIN acts : i # j /\ acts[i].outputs \cap acts[j].outputs # {}
  <2>1. ASSUME NEW i \in 1 .. n, NEW j \in 1 .. n, i # j PROVE acts[i].outputs \cap acts[j].outputs = {}
    <3>1. Separate(acts[i], acts[j])
      BY <1>2, <1>3, <2>1, OnlyOne
    <3> QED BY <3>1 DEF Separate
  <2> QED BY <1>3, <2>1
<1>7. ~ \E a \in Elements(acts) : ~(a.inputs \cup a.outputs \subseteq Identities \cup Produced)
  <2>1. ASSUME NEW k \in 1 .. n PROVE acts[k].inputs \subseteq Identities \cup Produced
    <3>1. \A x \in acts[k].inputs : x \in Declared(facts) \/ \E j \in 1 .. k - 1 : x \in acts[j].outputs
      BY <1>2, <1>3 DEF Orderly, Backed
    <3>2. Declared(facts) \subseteq Identities
      BY DEF Declared
    <3>3. \A j \in 1 .. k - 1 : acts[j] \in Elements(acts)
      BY <1>4
    <3>4. \A j \in 1 .. k - 1 : acts[j].outputs \subseteq Produced
      BY <3>3
    <3> HIDE DEF Identities, Produced
    <3> QED BY <3>1, <3>2, <3>4
  <2>2. \A a \in Elements(acts) : a.outputs \subseteq Produced
    OBVIOUS
  <2> HIDE DEF Identities, Produced
  <2> QED BY <1>4, <2>1, <2>2
<1>8. ~ \E a \in Elements(acts) : ~(Elements(a.discharges) \subseteq DOMAIN on)
  BY <1>2, <1>3, <1>4 DEF Live
<1>9. ~ \E a \in Elements(acts) : \E id \in Elements(a.discharges) \cap DOMAIN on : KindOf(id) \notin Dischargeable[a.kind]
  <2>1. \A k \in 1 .. n : Sane(facts, acts[k])
    BY <1>2, <1>3 DEF Orderly
  <2> QED BY <1>4, <2>1 DEF Sane
<1>10. ~ \E a \in Elements(acts) : ~(a.dependsOn \subseteq {b.id : b \in Elements(acts)})
  <2>1. ASSUME NEW k \in 1 .. n PROVE acts[k].dependsOn \subseteq {b.id : b \in Elements(acts)}
    <3>1. acts[k].dependsOn \subseteq {acts[j].id : j \in 1 .. k - 1}
      BY <1>2, <1>3 DEF Orderly, Backed
    <3>2. \A j \in 1 .. k - 1 : acts[j] \in Elements(acts)
      BY <1>4
    <3> QED BY <3>1, <3>2
  <2> QED BY <1>4, <2>1
<1>11. ~ \E a, b \in Elements(acts) : a.inputs \cap b.outputs # {} /\ a.id # b.id /\ b.id \notin Upstream(a.id, acts)
  <2>1. ASSUME NEW k \in 1 .. n, NEW m \in 1 .. n, acts[k].inputs \cap acts[m].outputs # {}
        PROVE  acts[m].id \in Upstream(acts[k].id, acts)
    <3>1. PICK x \in acts[k].inputs : x \in acts[m].outputs
      BY <2>1
    <3> QED BY <1>2, <1>3, <3>1, OrderlyInputs
  <2> QED BY <1>4, <2>1
<1>12. ~ \E a \in Elements(acts) : a.id \in Upstream(a.id, acts)
  <2>1. ASSUME NEW k \in 1 .. n PROVE acts[k].id \notin Upstream(acts[k].id, acts)
    <3>1. Upstream(acts[k].id, acts) \subseteq Earlier(acts, k) /\ acts[k].id \notin Earlier(acts, k)
      BY <1>2, <1>3, UpstreamBounds
    <3> QED BY <3>1
  <2> QED BY <1>4, <2>1
<1>13. ~ \E a \in Elements(acts) : a.kind = "LinkNativeExecutable" /\ a.inputs # {Output(o) : o \in Linked(on) \ Executable}
  <2>1. Linked(on) \ Executable = Linked(om)
    <3>1. LinkedApart(facts, om, on)
      BY LinkedRest
    <3> QED BY <3>1 DEF LinkedApart, ExecutableIds
  <2>2. ASSUME NEW k \in 1 .. n, acts[k].kind = "LinkNativeExecutable"
        PROVE  acts[k].inputs = {Output(o) : o \in Linked(om)}
    <3>1. k \in 1 .. Len(acts)
      BY <1>3
    <3>2. LinksAll(om, acts[k])
      BY <3>1, OneLink
    <3> QED BY <2>2, <3>2 DEF LinksAll
  <2> HIDE DEF Executable
  <2> QED BY <1>4, <2>1, <2>2
<1>14. Violations(facts, on, acts) =
         LET broken ==
           [DanglingObligationEdge |-> \E id \in DOMAIN on : ~(on[id].dependsOn \subseteq DOMAIN on),
            DuplicateProducer |-> \E i, j \in DOMAIN acts : i # j /\ acts[i].outputs \cap acts[j].outputs # {},
            UnknownInputOrOutput |-> \E a \in Elements(acts) : ~(a.inputs \cup a.outputs \subseteq Identities \cup Produced),
            UnknownDischargeTarget |-> \E a \in Elements(acts) : ~(Elements(a.discharges) \subseteq DOMAIN on),
            DischargeKindMismatch |->
              \E a \in Elements(acts) : \E id \in Elements(a.discharges) \cap DOMAIN on :
                KindOf(id) \notin Dischargeable[a.kind],
            DanglingActionDependency |-> \E a \in Elements(acts) : ~(a.dependsOn \subseteq {b.id : b \in Elements(acts)}),
            ProducerConsumerOrder |->
              \E a, b \in Elements(acts) : /\ a.inputs \cap b.outputs # {} /\ a.id # b.id
                                           /\ b.id \notin Upstream(a.id, acts),
            ActionDependencyCycle |-> \E a \in Elements(acts) : a.id \in Upstream(a.id, acts),
            FinalLinkInputMismatch |->
              \E a \in Elements(acts) : a.kind = "LinkNativeExecutable" /\ a.inputs # {Output(o) : o \in Linked(on) \ Executable}]
         IN {v \in DOMAIN broken : broken[v]}
  BY DEF Violations
<1> HIDE DEF Produced, Identities, Executable
<1> QED BY <1>5, <1>6, <1>7, <1>8, <1>9, <1>10, <1>11, <1>12, <1>13, <1>14

-----------------------------------------------------------------------------
(* Loops that nothing stops *)

(* A transition that follows is appended.                                  *)
Appended(p, q, o, seq, from, to, cause) ==
  /\ Books(q) /\ Others(p, q, o) /\ q.error = "none"
  /\ q.status[o] = to /\ q.required[o] = p.required[o]
  /\ q.history[o] = Append(p.history[o], Lifecycle!Transition(seq, from, to, cause))

LEMMA MovedFollows ==
  ASSUME NEW p, Books(p), p.error = "none", NEW o \in Obs, NEW seq, NEW from, NEW to, NEW cause,
         Lifecycle!Follows(p.history[o], from, seq),
         NEW q, q = Lifecycle!Moved(p, o, seq, from, to, cause)
  PROVE  Appended(p, q, o, seq, from, to, cause)
<1>1. /\ Books(q) /\ Others(p, q, o)
      /\ q.status[o] = to /\ q.required[o] = p.required[o]
      /\ \/ q.history[o] = p.history[o] /\ q.error = "transition"
         \/ /\ q.history[o] = Append(p.history[o], Lifecycle!Transition(seq, from, to, cause))
            /\ q.error = p.error
  BY MovedBooks
<1> DEFINE S == [p.status EXCEPT ![o] = to]
           t == Lifecycle!Transition(seq, from, to, cause)
           H == [p.history EXCEPT ![o] = Append(p.history[o], t)]
<1>2. q = [status |-> S, required |-> p.required, history |-> H, error |-> p.error]
  BY DEF Lifecycle!Moved, Books
<1>3. q.error = "none"
  BY <1>2
<1> HIDE DEF S, t, H
<1> QED BY <1>1, <1>3 DEF Appended

(* What a step without an error leaves behind.                             *)
Marked(r, o, seq, from, to, need) ==
  /\ r.status[o] = to /\ r.required[o] = need
  /\ \E cause : r.history[o] = Append(history[o], Lifecycle!Transition(seq, from, to, cause))

Stepped(q, r, o, seq, from, to, need) ==
  Books(r) /\ r.error = "none" /\ Others(q, r, o) /\ Marked(r, o, seq, from, to, need)

Waiting(q, o) == Books(q) /\ q.error = "none" /\ Untouched(q, o)

Going(decides, a, list, seq, from, to, need) ==
  \A i \in 1 .. Len(list) : \A q : Waiting(q, list[i]) =>
    Stepped(q, StepOf(decides, a, q, list[i], seq), list[i], seq, from[list[i]], to[list[i]], need[list[i]])

(* The list of a loop: obligations of the graph, each of them once.        *)
Visits(list) ==
  /\ IsList(list) /\ \A i \in 1 .. Len(list) : list[i] \in Obs
  /\ \A i, j \in 1 .. Len(list) : list[i] = list[j] => i = j

(* A loop whose steps go well goes over the whole list.                    *)
LoopDone(end, list, seq, from, to, need) ==
  /\ Books(end) /\ end.error = "none"
  /\ \A i \in 1 .. Len(list) : Marked(end, list[i], seq, from[list[i]], to[list[i]], need[list[i]])
  /\ \A x \in Obs : (\A i \in 1 .. Len(list) : x # list[i]) => Untouched(end, x)

LEMMA LoopMoves ==
  ASSUME LifecycleInv, NEW decides, NEW a, NEW list, Visits(list), NEW seq, NEW after,
         Ran(after, decides, a, list, seq),
         NEW from, NEW to, NEW need, Going(decides, a, list, seq, from, to, need)
  PROVE  LoopDone(after[Len(list)], list, seq, from, to, need)
<1>0. /\ \A i \in 1 .. Len(list) : list[i] \in Obs
      /\ \A i, j \in 1 .. Len(list) : list[i] = list[j] => i = j
  BY DEF Visits
<1>1. PICK len \in Nat : len = Len(list)
  BY DEF Visits, IsList
<1> DEFINE Done(n, q) ==
             /\ Books(q) /\ q.error = "none"
             /\ \A i \in 1 .. n : Marked(q, list[i], seq, from[list[i]], to[list[i]], need[list[i]])
             /\ \A x \in Obs : (\A i \in 1 .. n : x # list[i]) => Untouched(q, x)
           S == {n \in 0 .. len : Done(n, after[n])}
<1>2. Done(0, after[0])
  <2>1. PICK p : p = Lifecycle!Progress
    OBVIOUS
  <2>2. /\ Books(p) /\ p.error = "none"
        /\ p.status = status /\ p.required = required /\ p.history = history
    BY <2>1, ProgressBooks DEF LifecycleInv
  <2>3. \A x \in Obs : Untouched(p, x)
    BY <2>2 DEF Untouched
  <2>4. after[0] = p
    BY <2>1 DEF Ran
  <2> QED BY <2>2, <2>3, <2>4
<1>3. ASSUME NEW n \in 1 .. len, Done(n - 1, after[n-1]) PROVE Done(n, after[n])
  <2>1. PICK q, r, o : q = after[n-1] /\ r = after[n] /\ o = list[n]
    OBVIOUS
  <2>2. r = StepOf(decides, a, q, o, seq)
    BY <1>1, <2>1 DEF Ran
  <2>3. /\ Books(q) /\ q.error = "none"
        /\ \A i \in 1 .. n - 1 : Marked(q, list[i], seq, from[list[i]], to[list[i]], need[list[i]])
        /\ \A x \in Obs : (\A i \in 1 .. n - 1 : x # list[i]) => Untouched(q, x)
    BY <1>3, <2>1
  <2>4. o \in Obs /\ \A i \in 1 .. n - 1 : i \in 1 .. len /\ list[i] \in Obs /\ list[i] # o
    BY <1>0, <1>1, <2>1
  <2>5. Waiting(q, o)
    BY <2>3, <2>4 DEF Waiting
  <2>6. Stepped(q, r, o, seq, from[o], to[o], need[o])
    BY <1>1, <2>1, <2>2, <2>5 DEF Going
  <2>7. ASSUME NEW x \in Obs, x # o
        PROVE  r.status[x] = q.status[x] /\ r.required[x] = q.required[x] /\ r.history[x] = q.history[x]
    BY <2>6, <2>7 DEF Stepped, Others
  <2>8. \A i \in 1 .. n - 1 : Marked(r, list[i], seq, from[list[i]], to[list[i]], need[list[i]])
    <3> SUFFICES ASSUME NEW i \in 1 .. n - 1
                 PROVE  Marked(r, list[i], seq, from[list[i]], to[list[i]], need[list[i]])
      OBVIOUS
    <3>1. PICK x : x = list[i] /\ x \in Obs /\ x # o
      BY <2>4
    <3>2. Marked(q, x, seq, from[x], to[x], need[x])
      BY <2>3, <3>1
    <3>3. r.status[x] = q.status[x] /\ r.required[x] = q.required[x] /\ r.history[x] = q.history[x]
      BY <2>7, <3>1
    <3>4. Marked(r, x, seq, from[x], to[x], need[x])
      BY <3>2, <3>3 DEF Marked
    <3> QED BY <3>1, <3>4
  <2>9. Marked(r, list[n], seq, from[list[n]], to[list[n]], need[list[n]])
    BY <2>1, <2>6 DEF Stepped
  <2>10. \A i \in 1 .. n : i \in 1 .. n - 1 \/ i = n
    BY <1>1
  <2>11. \A i \in 1 .. n : Marked(r, list[i], seq, from[list[i]], to[list[i]], need[list[i]])
    BY <2>8, <2>9, <2>10
  <2>12. ASSUME NEW x \in Obs, \A i \in 1 .. n : x # list[i] PROVE Untouched(r, x)
    <3>1. x # o /\ \A i \in 1 .. n - 1 : x # list[i]
      <4>1. n \in 1 .. n /\ \A i \in 1 .. n - 1 : i \in 1 .. n
        BY <1>1
      <4> QED BY <2>1, <2>12, <4>1
    <3> QED BY <2>3, <2>7, <3>1 DEF Untouched
  <2>13. Books(r) /\ r.error = "none"
    BY <2>6 DEF Stepped
  <2>14. Done(n, r)
    BY <2>11, <2>12, <2>13
  <2> HIDE DEF Done
  <2> QED BY <2>1, <2>14
<1>4. Done(len, after[len])
  <2> HIDE DEF Done
  <2>1. 0 \in S /\ \A n \in 1 .. len : n - 1 \in S => n \in S
    BY <1>1, <1>2, <1>3
  <2> HIDE DEF S
  <2>2. 0 .. len \subseteq S
    BY <2>1, UpToInduction
  <2>3. len \in S
    BY <2>2
  <2> QED BY <2>3 DEF S
<1> HIDE DEF S
<1> QED BY <1>1, <1>4 DEF LoopDone

(* The step of an operation, on an obligation that is chosen.              *)
LEMMA DischargeStep ==
  ASSUME NEW a, NEW seq, NEW o \in Obs, closure.kind[o] \in Lifecycle!Dischargeable[closure.actionKind[a]],
         status[o] \in Chosen, Lifecycle!Follows(history[o], status[o], seq),
         NEW q, Waiting(q, o), NEW r, r = StepOf(FALSE, a, q, o, seq)
  PROVE  Stepped(q, r, o, seq, status[o], "Discharged", {a})
<1>1. /\ Books(q) /\ q.error = "none" /\ q.status[o] = status[o] /\ q.history[o] = history[o]
  BY DEF Waiting, Untouched
<1>2. r = Lifecycle!Discharge(q, o, a, seq)
  BY <1>1 DEF StepOf
<1>3. PICK b, need : need = {a} /\ b = [q EXCEPT !.required[o] = need]
  OBVIOUS
<1>0. Books(q) /\ b = [q EXCEPT !.required[o] = need]
  BY <1>1, <1>3
<1>4. r = Lifecycle!Moved(b, o, seq, q.status[o], "Discharged", <<"action", a>>)
  BY <1>1, <1>2, <1>3 DEF Lifecycle!Discharge, Obs, Chosen, Lifecycle!Chosen
<1>5. /\ Books(b) /\ b.error = q.error /\ b.status = q.status /\ b.history = q.history
      /\ b.required[o] = need
      /\ \A x \in Obs \ {o} : b.required[x] = q.required[x]
  BY <1>0, RequiringBooks
<1>6. PICK from, to, cause : from = status[o] /\ to = "Discharged" /\ cause = <<"action", a>>
  OBVIOUS
<1>7. r = Lifecycle!Moved(b, o, seq, from, to, cause) /\ Lifecycle!Follows(b.history[o], from, seq)
  BY <1>1, <1>4, <1>5, <1>6
<1>a. Books(b)
  BY <1>5
<1>b. b.error = "none"
  BY <1>1, <1>5
<1>c. Appended(b, r, o, seq, from, to, cause)
  BY <1>7, <1>a, <1>b, MovedFollows
<1>8. /\ Books(r) /\ Others(b, r, o) /\ r.error = "none"
      /\ r.status[o] = to /\ r.required[o] = b.required[o]
      /\ r.history[o] = Append(b.history[o], Lifecycle!Transition(seq, from, to, cause))
  BY <1>c DEF Appended
<1>9. Others(q, r, o)
  BY <1>5, <1>8 DEF Others
<1>10. Marked(r, o, seq, from, to, {a})
  BY <1>1, <1>3, <1>5, <1>8 DEF Marked
<1> QED BY <1>6, <1>8, <1>9, <1>10 DEF Stepped

LEMMA DecideStep ==
  ASSUME NEW seq, NEW o \in Obs, Lifecycle!Follows(history[o], "Unresolved", seq),
         NEW q, Waiting(q, o), NEW r, r = StepOf(TRUE, 0, q, o, seq),
         NEW to, to = IF required[o] # {} THEN status[o] ELSE "Discharged"
  PROVE  Stepped(q, r, o, seq, "Unresolved", to, required[o])
<1>1. /\ Books(q) /\ q.error = "none" /\ q.status[o] = status[o] /\ q.history[o] = history[o]
      /\ q.required[o] = required[o]
  BY DEF Waiting, Untouched
<1>2. PICK from, cause : from = "Unresolved" /\ cause = <<"resolution">>
  OBVIOUS
<1>3. r = Lifecycle!Moved(q, o, seq, from, to, cause)
  BY <1>1, <1>2 DEF StepOf, Lifecycle!Decide
<1>4. Lifecycle!Follows(q.history[o], from, seq)
  BY <1>1, <1>2
<1>a. Appended(q, r, o, seq, from, to, cause)
  BY <1>1, <1>3, <1>4, MovedFollows
<1>5. /\ Books(r) /\ Others(q, r, o) /\ r.error = "none"
      /\ r.status[o] = to /\ r.required[o] = q.required[o]
      /\ r.history[o] = Append(q.history[o], Lifecycle!Transition(seq, from, to, cause))
  BY <1>a DEF Appended
<1>6. Marked(r, o, seq, from, to, required[o])
  BY <1>1, <1>5 DEF Marked
<1> QED BY <1>2, <1>5, <1>6 DEF Stepped

LEMMA DischargesEach ==
  ASSUME LifecycleInv, NEW a, NEW seq, NEW list, list = closure.discharges[a], Visits(list),
         \A i \in 1 .. Len(list) :
           /\ closure.kind[list[i]] \in Lifecycle!Dischargeable[closure.actionKind[a]]
           /\ status[list[i]] \in Chosen /\ Lifecycle!Follows(history[list[i]], status[list[i]], seq),
         NEW to, to = [o \in Obs |-> "Discharged"], NEW need, need = [o \in Obs |-> {a}]
  PROVE  LoopDone(Lifecycle!Discharged(a, seq), list, seq, status, to, need)
<1>0. IsList(list) /\ \A i \in 1 .. Len(list) : list[i] \in Obs
  BY DEF Visits
<1>1. PICK after : Ran(after, FALSE, a, list, seq) /\ Lifecycle!Discharged(a, seq) = after[Len(list)]
  <2>1. IsList(list)
    BY <1>0
  <2> QED BY <2>1, DischargedLoop, Zenon
<1>2. ASSUME NEW i \in 1 .. Len(list), NEW q, Waiting(q, list[i])
      PROVE  Stepped(q, StepOf(FALSE, a, q, list[i], seq), list[i], seq, status[list[i]], to[list[i]], need[list[i]])
  <2>1. PICK o, r : o = list[i] /\ r = StepOf(FALSE, a, q, o, seq)
    OBVIOUS
  <2>2. o \in Obs /\ closure.kind[o] \in Lifecycle!Dischargeable[closure.actionKind[a]]
    BY <1>0, <2>1
  <2>3. status[o] \in Chosen
    BY <2>1
  <2>4. Lifecycle!Follows(history[o], status[o], seq)
    BY <2>1
  <2>5. Waiting(q, o)
    BY <1>2, <2>1
  <2>6. Stepped(q, r, o, seq, status[o], "Discharged", {a})
    BY <2>1, <2>2, <2>3, <2>4, <2>5, DischargeStep
  <2>7. to[o] = "Discharged" /\ need[o] = {a}
    BY <2>2
  <2> QED BY <2>1, <2>6, <2>7
<1>3. PICK from : from = status
  OBVIOUS
<1>4. Going(FALSE, a, list, seq, from, to, need)
  BY <1>2, <1>3 DEF Going
<1>5. LoopDone(after[Len(list)], list, seq, from, to, need)
  BY <1>1, <1>4, LoopMoves
<1> QED BY <1>1, <1>3, <1>5

Decision == [o \in Obs |-> IF required[o] # {} THEN status[o] ELSE "Discharged"]

LEMMA DecidesEach ==
  ASSUME LifecycleInv, NEW seq, NEW list, Visits(list),
         \A i \in 1 .. Len(list) : Lifecycle!Follows(history[list[i]], "Unresolved", seq),
         NEW from, from = [o \in Obs |-> "Unresolved"], NEW to, to = Decision
  PROVE  LoopDone(Lifecycle!Decided(list, seq), list, seq, from, to, required)
<1>0. IsList(list) /\ \A i \in 1 .. Len(list) : list[i] \in Obs
  BY DEF Visits
<1>1. PICK after : Ran(after, TRUE, 0, list, seq) /\ Lifecycle!Decided(list, seq) = after[Len(list)]
  <2>1. IsList(list)
    BY <1>0
  <2> QED BY <2>1, DecidedLoop, Zenon
<1>2. ASSUME NEW i \in 1 .. Len(list), NEW q, Waiting(q, list[i])
      PROVE  Stepped(q, StepOf(TRUE, 0, q, list[i], seq), list[i], seq, from[list[i]], to[list[i]], required[list[i]])
  <2>1. PICK o, r, t : /\ o = list[i] /\ r = StepOf(TRUE, 0, q, o, seq)
                       /\ t = IF required[o] # {} THEN status[o] ELSE "Discharged"
    OBVIOUS
  <2>2. o \in Obs
    BY <1>0, <2>1
  <2>4. Lifecycle!Follows(history[o], "Unresolved", seq)
    BY <2>1
  <2>5. Waiting(q, o)
    BY <1>2, <2>1
  <2>6. Stepped(q, r, o, seq, "Unresolved", t, required[o])
    BY <2>1, <2>2, <2>4, <2>5, DecideStep
  <2>7. to[o] = t /\ from[o] = "Unresolved"
    BY <2>1, <2>2 DEF Decision
  <2> QED BY <2>1, <2>6, <2>7
<1>3. PICK need : need = required
  OBVIOUS
<1>4. Going(TRUE, 0, list, seq, from, to, need)
  BY <1>2, <1>3 DEF Going
<1>5. LoopDone(after[Len(list)], list, seq, from, to, need)
  BY <1>1, <1>4, LoopMoves
<1> QED BY <1>1, <1>3, <1>5

-----------------------------------------------------------------------------
(* The graph that the driver follows *)
DrivenAction(c, P, k) ==
  /\ P[k].id \in DOMAIN c.actionKind
  /\ c.actionKind[P[k].id] = P[k].kind /\ c.discharges[P[k].id] = P[k].discharges
  /\ c.needs[P[k].id] = P[k].dependsOn
  /\ P[k].dependsOn \subseteq Earlier(P, k) /\ P[k].id \notin Earlier(P, k)
  /\ IsList(P[k].discharges)
  /\ \A x, y \in 1 .. Len(P[k].discharges) : P[k].discharges[x] = P[k].discharges[y] => x = y
  /\ \A o \in Elements(P[k].discharges) :
       /\ o \in DOMAIN c.kind /\ c.status[o] \in Chosen
       /\ c.kind[o] \in Dischargeable[P[k].kind] /\ c.required[o] = {P[k].id}
  /\ P[k].kind = "PreflightRuntimeContract" => P[k].discharges = <<Runtime>>

Unrequired(c, o)     == c.required[o] = {} /\ c.kind[o] \in ResolverOwned
Awaited(c, P, o, k) == c.required[o] = {P[k].id} /\ o \in Elements(P[k].discharges)

DrivenObligation(c, P, o) ==
  /\ c.status[o] \in Chosen \cup {"Rejected"}
  /\ c.status[o] \in Chosen => Unrequired(c, o) \/ \E k \in 1 .. Len(P) : Awaited(c, P, o, k)
  /\ \A x \in c.depends[o] : x \in DOMAIN c.kind /\ c.status[x] \in Chosen
  /\ c.kind[o] = "NativeExecutableDemand" => c.status[o] \in Chosen

Driven(c, P) ==
  /\ IsFiniteSet(DOMAIN c.kind) /\ IsList(P)
  /\ \A k \in 1 .. Len(P) : DrivenAction(c, P, k)
  /\ \A o \in DOMAIN c.kind : DrivenObligation(c, P, o)
  /\ \E k \in 1 .. Len(P) : P[k].id = <<"link">>
  /\ \E o \in DOMAIN c.kind : c.kind[o] = "NativeExecutableDemand"

(* An action is found by its id.                                           *)
Listing(g, P, k) ==
  /\ P[k].id \in DOMAIN g.actionKind
  /\ g.actionKind[P[k].id] = P[k].kind /\ g.discharges[P[k].id] = P[k].discharges
  /\ g.needs[P[k].id] = P[k].dependsOn

LEMMA GraphActions ==
  ASSUME NEW facts, NEW os, NEW P, Orderly(facts, P), NEW g, g = Graph(os, P), NEW k \in 1 .. Len(P)
  PROVE  Listing(g, P, k)
<1> DEFINE ids == {a.id : a \in Elements(P)}
           Place(id) == CHOOSE m \in DOMAIN P : P[m].id = id /\ \A j \in 1 .. m - 1 : P[j].id # id
           Find(id) == P[Place(id)]
<1>1. /\ g.actionKind = [id \in ids |-> Find(id).kind]
      /\ g.discharges = [id \in ids |-> Find(id).discharges]
      /\ g.needs = [id \in ids |-> Find(id).dependsOn]
  BY DEF Graph
<1>2. PICK n \in Nat : n = Len(P) /\ DOMAIN P = 1 .. n
  BY ListIsSeq DEF Orderly, IsList
<1>3. \A m \in 1 .. n : P[m].id = P[k].id => m = k
  <2>1. ASSUME NEW m \in 1 .. n, m # k PROVE P[m].id # P[k].id
    <3>1. Separate(P[m], P[k])
      BY <1>2, <2>1, OnlyOne
    <3> QED BY <3>1 DEF Separate
  <2> QED BY <2>1
<1>4. \A j \in 1 .. k - 1 : j \in 1 .. n /\ j # k
  BY <1>2
<1>5. Place(P[k].id) = k
  <2>1. k \in DOMAIN P /\ P[k].id = P[k].id /\ \A j \in 1 .. k - 1 : P[j].id # P[k].id
    BY <1>2, <1>3, <1>4
  <2>2. \A m \in DOMAIN P : P[m].id = P[k].id => m = k
    BY <1>2, <1>3
  <2> QED BY <2>1, <2>2
<1>6. P[k].id \in ids
  BY <1>2 DEF Elements
<1>7. Find(P[k].id) = P[k]
  BY <1>5
<1> HIDE DEF ids, Find, Place
<1>8. /\ P[k].id \in DOMAIN g.actionKind /\ g.actionKind[P[k].id] = P[k].kind
      /\ g.discharges[P[k].id] = P[k].discharges /\ g.needs[P[k].id] = P[k].dependsOn
  BY <1>1, <1>6, <1>7
<1> QED BY <1>8 DEF Listing

LEMMA GraphIsDriven ==
  ASSUME NEW facts, NEW on, NEW P, Ready(facts, on, P), IsFiniteSet(DOMAIN on), NEW g, g = Graph(on, P)
  PROVE  Driven(g, P)
<1>1. /\ DOMAIN g.kind = DOMAIN on
      /\ \A id \in DOMAIN on : /\ g.kind[id] = KindOf(id) /\ g.depends[id] = on[id].dependsOn
                               /\ g.status[id] = on[id].state
  BY GraphFields
<1>2. \A id \in DOMAIN on : g.required[id] = on[id].action
  <2>1. g.required = [id \in DOMAIN on |-> on[id].action]
    BY DEF Graph
  <2> QED BY <2>1
<1>3. /\ Orderly(facts, P) /\ Steady(on)
      /\ \A id \in DOMAIN on : on[id].action = Closer(P, id)
      /\ \A id \in Live(on) : KindOf(id) \in ResolverOwned \/ Closer(P, id) # {}
      /\ \A k \in 1 .. Len(P) :
           /\ Elements(P[k].discharges) \subseteq Live(on)
           /\ P[k].kind = "PreflightRuntimeContract" => P[k].discharges = <<Runtime>>
  BY DEF Ready
<1>4. IsList(P)
  BY <1>3 DEF Orderly
<1>5. ASSUME NEW id \in Live(on)
      PROVE  id \in DOMAIN g.kind /\ g.status[id] \in Chosen
  BY <1>1, <1>5 DEF Live
<1>6. ASSUME NEW k \in 1 .. Len(P) PROVE DrivenAction(g, P, k)
  <2>1. Listing(g, P, k)
    BY <1>3, GraphActions
  <2>2. Sane(facts, P[k]) /\ Backed(facts, P, k - 1, P[k])
    BY <1>3 DEF Orderly
  <2>3. P[k].dependsOn \subseteq Earlier(P, k)
    BY <2>2 DEF Backed, Earlier
  <2>4. P[k].id \notin Earlier(P, k)
    BY <1>3, UpstreamBounds
  <2>5. /\ IsList(P[k].discharges)
        /\ \A x, y \in 1 .. Len(P[k].discharges) : P[k].discharges[x] = P[k].discharges[y] => x = y
        /\ \A o \in Elements(P[k].discharges) : KindOf(o) \in Dischargeable[P[k].kind]
    BY <2>2 DEF Sane
  <2>6. ASSUME NEW o \in Elements(P[k].discharges)
        PROVE  /\ o \in DOMAIN g.kind /\ g.status[o] \in Chosen
               /\ g.kind[o] \in Dischargeable[P[k].kind] /\ g.required[o] = {P[k].id}
    <3>1. o \in Live(on)
      BY <1>3
    <3>2. o \in DOMAIN on
      BY <3>1 DEF Live
    <3>3. Closer(P, o) = {P[k].id}
      BY <1>3, OrderlyCloser
    <3>4. g.required[o] = {P[k].id}
      BY <1>2, <1>3, <3>2, <3>3
    <3>5. g.kind[o] \in Dischargeable[P[k].kind]
      BY <1>1, <2>5, <3>2
    <3> QED BY <1>5, <3>1, <3>4, <3>5
  <2>7. P[k].kind = "PreflightRuntimeContract" => P[k].discharges = <<Runtime>>
    BY <1>3
  <2> QED BY <2>1, <2>3, <2>4, <2>5, <2>6, <2>7 DEF DrivenAction, Listing
<1>7. ASSUME NEW o \in DOMAIN on PROVE DrivenObligation(g, P, o)
  <2>1. on[o].state \in Chosen \cup {"Rejected"} /\ on[o].dependsOn \subseteq Live(on)
    BY <1>3 DEF Steady
  <2>2. \A x \in g.depends[o] : x \in DOMAIN g.kind /\ g.status[x] \in Chosen
    BY <1>1, <1>5, <2>1
  <2>3. ASSUME g.status[o] \in Chosen
        PROVE  Unrequired(g, o) \/ \E k \in 1 .. Len(P) : Awaited(g, P, o, k)
    <3>1. o \in Live(on)
      BY <1>1, <2>3 DEF Live
    <3>2. CASE Closer(P, o) = {}
      BY <1>1, <1>2, <1>3, <3>1, <3>2 DEF Unrequired
    <3>3. CASE Closer(P, o) # {}
      <4>1. PICK k \in 1 .. Len(P) : o \in Elements(P[k].discharges)
        BY <1>4, <3>3, CloserNone
      <4>2. Closer(P, o) = {P[k].id}
        BY <1>3, <4>1, OrderlyCloser
      <4> QED BY <1>2, <1>3, <4>1, <4>2 DEF Awaited
    <3> QED BY <3>2, <3>3
  <2>4. g.kind[o] = "NativeExecutableDemand" => g.status[o] \in Chosen
    <3>1. Of(on, "NativeExecutableDemand") \subseteq Live(on)
      BY DEF Ready
    <3> QED BY <1>1, <1>5, <3>1 DEF Of
  <2> QED BY <1>1, <2>1, <2>2, <2>3, <2>4 DEF DrivenObligation
<1>8. \E k \in 1 .. Len(P) : P[k].id = <<"link">>
  BY DEF Ready
<1>9. \E o \in DOMAIN g.kind : g.kind[o] = "NativeExecutableDemand"
  <2>1. Demand \in DOMAIN on
    BY DEF Ready
  <2> QED BY <1>1, <2>1, KindsOfIds
<1>10. IsFiniteSet(DOMAIN g.kind)
  BY <1>1
<1>11. \A o \in DOMAIN g.kind : DrivenObligation(g, P, o)
  BY <1>1, <1>7
<1> QED BY <1>4, <1>6, <1>8, <1>9, <1>10, <1>11 DEF Driven

-----------------------------------------------------------------------------
(* A set as a list *)
Extended(S, l) == Append(l, CHOOSE x \in S \ Range(l) : TRUE)

Enlists(l, S, n) ==
  /\ IsList(l) /\ Len(l) = n /\ Range(l) \subseteq S
  /\ IsFiniteSet(Range(l)) /\ Cardinality(Range(l)) = n
  /\ \A i, j \in 1 .. n : l[i] = l[j] => i = j

LEMMA ExtendedEnlists ==
  ASSUME NEW S, IsFiniteSet(S), NEW n \in Nat, n < Cardinality(S), NEW l, Enlists(l, S, n)
  PROVE  Enlists(Extended(S, l), S, n + 1)
<1>1. /\ IsList(l) /\ Len(l) = n /\ Range(l) \subseteq S
      /\ IsFiniteSet(Range(l)) /\ Cardinality(Range(l)) = n
      /\ \A i, j \in 1 .. n : l[i] = l[j] => i = j
  BY DEF Enlists
<1>2. S \ Range(l) # {}
  <2>1. Range(l) # S
    BY <1>1
  <2> QED BY <1>1, <2>1
<1>3. PICK x : x \in S \ Range(l) /\ Extended(S, l) = Append(l, x)
  BY <1>2 DEF Extended
<1>4. PICK h : h = Append(l, x)
  OBVIOUS
<1>5. /\ IsList(h) /\ Len(h) = n + 1 /\ \A i \in 1 .. n : h[i] = l[i]
      /\ h[n + 1] = x
  BY <1>1, <1>4, ListAppend
<1>6. Range(l) = {l[i] : i \in 1 .. n}
  BY <1>1, ListIsSeq
<1>7. Range(h) = {h[i] : i \in 1 .. n + 1}
  BY <1>5, ListIsSeq
<1>8. \A i \in 1 .. n + 1 : i \in 1 .. n \/ i = n + 1
  OBVIOUS
<1>9. Range(h) = Range(l) \cup {x}
  <2>1. n + 1 \in 1 .. n + 1 /\ \A i \in 1 .. n : i \in 1 .. n + 1
    OBVIOUS
  <2> QED BY <1>5, <1>6, <1>7, <1>8, <2>1
<1>10. IsFiniteSet(Range(h)) /\ Cardinality(Range(h)) = n + 1
  BY <1>1, <1>3, <1>9, FS_AddElement
<1>11. \A i, j \in 1 .. n + 1 : h[i] = h[j] => i = j
  <2> SUFFICES ASSUME NEW i \in 1 .. n + 1, NEW j \in 1 .. n + 1, h[i] = h[j] PROVE i = j
    OBVIOUS
  <2>1. \A m \in 1 .. n : h[m] # x
    BY <1>3, <1>5, <1>6
  <2> QED BY <1>1, <1>5, <1>8, <2>1
<1> QED BY <1>3, <1>4, <1>5, <1>9, <1>10, <1>11, <1>1 DEF Enlists

LEMMA ListedEnlists ==
  ASSUME NEW S, IsFiniteSet(S)
  PROVE  Enlists(Listed(S), S, Cardinality(S))
<1>1. PICK c \in Nat : c = Cardinality(S)
  BY FS_CardinalityType
<1> DEFINE Solved(f, m) == /\ f = [n \in 0 .. m |-> f[n]] /\ f[0] = <<>>
                           /\ \A n \in 1 .. m : f[n] = Extended(S, f[n-1])
           Body(f) == [n \in 0 .. c |-> IF n = 0 THEN <<>> ELSE Extended(S, f[n-1])]
           some == CHOOSE f : f = Body(f)
           T == {m \in 0 .. c : \E f : Solved(f, m)}
<1>2. Listed(S) = some[c]
  BY <1>1 DEF Listed, Extended
<1>3. 0 \in T
  <2> DEFINE g == [n \in 0 .. 0 |-> <<>>]
  <2>1. Solved(g, 0)
    OBVIOUS
  <2> HIDE DEF g
  <2> QED BY <2>1
<1>4. ASSUME NEW m \in 1 .. c, m - 1 \in T PROVE m \in T
  <2>1. PICK f : Solved(f, m - 1)
    BY <1>4
  <2> DEFINE g == [n \in 0 .. m |-> IF n = m THEN Extended(S, f[m-1]) ELSE f[n]]
  <2>2. g[0] = <<>> /\ g = [n \in 0 .. m |-> g[n]]
    BY <2>1
  <2>3. ASSUME NEW i \in 1 .. m PROVE g[i] = Extended(S, g[i-1])
    <3>1. i - 1 \in 0 .. m - 1 /\ i \in 0 .. m /\ i - 1 \in 0 .. m /\ i - 1 # m
      OBVIOUS
    <3>2. g[i-1] = f[i-1]
      BY <3>1
    <3>3. CASE i = m
      BY <3>1, <3>2, <3>3
    <3>4. CASE i # m
      <4>1. i \in 1 .. m - 1 /\ g[i] = f[i]
        BY <3>4
      <4> QED BY <2>1, <3>2, <4>1
    <3> QED BY <3>3, <3>4
  <2> HIDE DEF g
  <2>4. Solved(g, m)
    BY <2>2, <2>3
  <2> HIDE DEF Solved
  <2> QED BY <2>4
<1>5. PICK f : Solved(f, c)
  <2> HIDE DEF T
  <2>1. 0 .. c \subseteq T
    BY <1>3, <1>4, UpToInduction
  <2>2. c \in T
    BY <2>1
  <2> QED BY <2>2 DEF T
<1>6. f = Body(f)
  BY <1>5
<1>7. some = Body(some)
  <2> HIDE DEF Body
  <2> QED BY <1>6
<1>8. /\ some[0] = <<>>
      /\ \A n \in 1 .. c : some[n] = Extended(S, some[n-1])
  <2>1. ASSUME NEW h PROVE /\ Body(h)[0] = <<>>
                           /\ \A n \in 1 .. c : Body(h)[n] = Extended(S, h[n-1])
    OBVIOUS
  <2> HIDE DEF Body, some
  <2> QED BY <1>7, <2>1
<1> HIDE DEF some, T, Solved, Body
<1> DEFINE R == {n \in 0 .. c : Enlists(some[n], S, n)}
<1>9. 0 \in R
  <2>1. PICK e : e = <<>>
    OBVIOUS
  <2>2. IsList(e) /\ Len(e) = 0
    BY <2>1, EmptyList
  <2>3. Range(e) = {}
    BY <2>1 DEF Range
  <2>4. IsFiniteSet(Range(e)) /\ Cardinality(Range(e)) = 0
    BY <2>3, FS_EmptySet
  <2>5. Enlists(e, S, 0)
    BY <2>2, <2>3, <2>4 DEF Enlists
  <2> QED BY <1>8, <2>1, <2>5
<1>10. ASSUME NEW n \in 1 .. c, n - 1 \in R PROVE n \in R
  <2>1. n - 1 \in Nat /\ n - 1 < Cardinality(S) /\ (n - 1) + 1 = n
    BY <1>1
  <2>2. Enlists(some[n-1], S, n - 1)
    BY <1>10
  <2>3. Enlists(Extended(S, some[n-1]), S, (n - 1) + 1)
    BY <2>1, <2>2, ExtendedEnlists
  <2> QED BY <1>8, <2>1, <2>3
<1>11. c \in R
  <2> HIDE DEF R
  <2>1. 0 .. c \subseteq R
    BY <1>9, <1>10, UpToInduction
  <2> QED BY <2>1
<1> QED BY <1>1, <1>2, <1>11

(* It visits every element once.                                           *)
LEMMA ListedVisits ==
  ASSUME NEW S, IsFiniteSet(S), NEW list, list = Listed(S)
  PROVE  /\ IsList(list) /\ Range(list) = S
         /\ \A i, j \in 1 .. Len(list) : list[i] = list[j] => i = j
         /\ Len(list) = Cardinality(S)
<1>1. PICK c \in Nat : c = Cardinality(S)
  BY FS_CardinalityType
<1>2. Enlists(list, S, c)
  BY <1>1, ListedEnlists
<1>3. /\ IsList(list) /\ Len(list) = c /\ Range(list) \subseteq S
      /\ IsFiniteSet(Range(list)) /\ Cardinality(Range(list)) = c
      /\ \A i, j \in 1 .. c : list[i] = list[j] => i = j
  BY <1>2 DEF Enlists
<1>4. Range(list) = S
  BY <1>1, <1>3, FS_Subset
<1> QED BY <1>1, <1>3, <1>4

-----------------------------------------------------------------------------
(* The history of an obligation *)
Chronicle(h, s, n) ==
  /\ IsList(h) /\ Len(h) # 0 /\ h[1].from = "Unresolved"
  /\ \A i \in 1 .. Len(h) : h[i].seq \in Nat
  /\ \A i \in 1 .. Len(h) - 1 : h[i].to = h[i+1].from /\ h[i].seq < h[i+1].seq
  /\ h[Len(h)].to = s /\ h[Len(h)].seq < n

LEMMA ChronicleFollows ==
  ASSUME NEW h, NEW s, NEW n \in Nat, Chronicle(h, s, n), NEW seq \in Nat, n <= seq
  PROVE  Lifecycle!Follows(h, s, seq)
<1>1. PICK m \in Nat : m = Len(h) /\ m # 0
  BY DEF Chronicle, IsList
<1>2. h[m].to = s /\ h[m].seq < n /\ h[m].seq \in Nat
  <2>1. m \in 1 .. m
    BY <1>1
  <2> QED BY <1>1, <2>1 DEF Chronicle
<1>3. h[m].seq < seq
  BY <1>2
<1> QED BY <1>1, <1>2, <1>3 DEF Lifecycle!Follows

LEMMA ChronicleAppends ==
  ASSUME NEW h, NEW s, NEW n \in Nat, Chronicle(h, s, n), NEW seq \in Nat, n <= seq,
         NEW to, NEW cause, NEW t, t = Lifecycle!Transition(seq, s, to, cause), NEW m \in Nat, seq < m
  PROVE  Chronicle(Append(h, t), to, m)
<1>1. PICK l \in Nat : l = Len(h) /\ l # 0
  BY DEF Chronicle, IsList
<1>2. /\ IsList(h) /\ h[1].from = "Unresolved"
      /\ \A i \in 1 .. l : h[i].seq \in Nat
      /\ \A i \in 1 .. l - 1 : h[i].to = h[i+1].from /\ h[i].seq < h[i+1].seq
      /\ h[l].to = s /\ h[l].seq < n
  BY <1>1 DEF Chronicle
<1>3. t.seq = seq /\ t.from = s /\ t.to = to
  BY DEF Lifecycle!Transition
<1>4. PICK g : g = Append(h, t)
  OBVIOUS
<1>5. IsList(g) /\ Len(g) = l + 1 /\ (\A i \in 1 .. l : g[i] = h[i]) /\ g[l + 1] = t
  BY <1>1, <1>2, <1>4, ListAppend
<1>6. l \in 1 .. l /\ 1 \in 1 .. l /\ l + 1 # 0
  BY <1>1
<1>7. g[1].from = "Unresolved"
  BY <1>2, <1>5, <1>6
<1>8. ASSUME NEW i \in 1 .. l + 1 PROVE g[i].seq \in Nat
  <2>1. i \in 1 .. l \/ i = l + 1
    BY <1>1
  <2> QED BY <1>2, <1>3, <1>5, <2>1
<1>9. ASSUME NEW i \in 1 .. (l + 1) - 1 PROVE g[i].to = g[i+1].from /\ g[i].seq < g[i+1].seq
  <2>1. i \in 1 .. l
    BY <1>1
  <2>2. CASE i = l
    <3>1. h[l].seq < seq
      <4>1. h[l].seq \in Nat
        BY <1>2, <1>6
      <4> QED BY <1>2, <4>1
    <3> QED BY <1>2, <1>3, <1>5, <1>6, <2>2, <3>1
  <2>3. CASE i # l
    <3>1. i \in 1 .. l - 1 /\ i + 1 \in 1 .. l
      BY <2>1, <2>3
    <3> QED BY <1>2, <1>5, <2>1, <3>1
  <2> QED BY <2>2, <2>3
<1>10. g[l + 1].to = to /\ g[l + 1].seq < m
  BY <1>3, <1>5
<1> QED BY <1>4, <1>5, <1>6, <1>7, <1>8, <1>9, <1>10 DEF Chronicle

LEMMA ChronicleStarts ==
  ASSUME NEW h, IsList(h), Len(h) = 0, NEW to, NEW cause, NEW t, t = Lifecycle!Transition(1, "Unresolved", to, cause)
  PROVE  Chronicle(Append(h, t), to, 2)
<1>2. PICK g : g = Append(h, t)
  OBVIOUS
<1>3. IsList(g) /\ Len(g) = 0 + 1 /\ g[0 + 1] = t
  BY <1>2, ListAppend
<1>4. Len(g) = 1 /\ g[1] = t
  BY <1>3
<1>5. t.seq = 1 /\ t.from = "Unresolved" /\ t.to = to
  BY DEF Lifecycle!Transition
<1> QED BY <1>2, <1>3, <1>4, <1>5 DEF Chronicle

LEMMA ChronicleLater ==
  ASSUME NEW h, NEW s, NEW n \in Nat, Chronicle(h, s, n), NEW m \in Nat, n <= m
  PROVE  Chronicle(h, s, m)
<1>1. PICK l \in Nat : l = Len(h) /\ l # 0
  BY DEF Chronicle, IsList
<1>2. h[l].seq \in Nat /\ h[l].seq < n
  <2>1. l \in 1 .. l
    BY <1>1
  <2> QED BY <1>1, <2>1 DEF Chronicle
<1>3. h[l].seq < m
  BY <1>2
<1> QED BY <1>1, <1>3 DEF Chronicle

LEMMA ChronicleIsValid ==
  ASSUME NEW o, NEW n, Chronicle(history[o], status[o], n)
  PROVE  ~Lifecycle!InvalidHistory(o) /\ Lifecycle!Before(o) = status[o]
<1>1. PICK h : h = history[o]
  OBVIOUS
<1>2. PICK l \in Nat : l = Len(h) /\ l # 0
  BY <1>1 DEF Chronicle, IsList
<1>3. h # <<>>
  BY <1>2, EmptyList
<1>4. ASSUME NEW i \in 1 .. l - 1 PROVE h[i].to = h[i+1].from /\ ~(h[i].seq >= h[i+1].seq)
  <2>1. i \in 1 .. l /\ i + 1 \in 1 .. l
    BY <1>2
  <2>2. h[i].seq \in Nat /\ h[i+1].seq \in Nat /\ h[i].to = h[i+1].from /\ h[i].seq < h[i+1].seq
    BY <1>1, <1>2, <2>1 DEF Chronicle
  <2> QED BY <2>2
<1>5. h[1].from = "Unresolved" /\ h[l].to = status[o]
  BY <1>1, <1>2 DEF Chronicle
<1> QED BY <1>1, <1>2, <1>3, <1>4, <1>5 DEF Lifecycle!InvalidHistory, Lifecycle!Before

-----------------------------------------------------------------------------
(* A run that goes well *)
Fresh == operations = {} /\ resolutions = {} /\ contracts = {} /\ proofs = {}

(* What was rejected is left alone; of the others, those whose action is   *)
(* recorded or that need none are closed, the others are as resolve left   *)
(* them.                                                                   *)
Attended(o) ==
  /\ closure.status[o] = "Rejected" => status[o] = "Rejected" /\ history[o] = <<>>
  /\ closure.status[o] # "Rejected" =>
       /\ required[o] = closure.required[o]
       /\ Chronicle(history[o], status[o], Sequence)
       /\ closure.required[o] \subseteq Recorded => status[o] \in Lifecycle!Closed
       /\ ~(closure.required[o] \subseteq Recorded) => status[o] = closure.status[o]

Underway ==
  /\ next \in 1 .. Len(Plan) + 1 /\ Recorded = Earlier(Plan, next)
  /\ IsFiniteSet(operations) /\ IsFiniteSet(contracts) /\ IsFiniteSet(resolutions) /\ proofs = {}
  /\ \A u \in Lifecycle!Used : u \in Nat /\ u < Sequence
  /\ \A o \in Obs : Attended(o)

LEMMA SequenceIsNumber ==
  ASSUME IsFiniteSet(operations), IsFiniteSet(contracts), IsFiniteSet(resolutions)
  PROVE  Sequence \in Nat /\ 0 < Sequence
  BY FS_CardinalityType DEF Sequence

(* The required action is an action of the plan, which discharges it.      *)
LEMMA RequiredByPlan ==
  ASSUME NEW c, NEW P, Driven(c, P), NEW o \in DOMAIN c.kind, c.status[o] # "Rejected"
  PROVE  Unrequired(c, o) \/ \E k \in 1 .. Len(P) : Awaited(c, P, o, k)
  BY DEF Driven, DrivenObligation

LEMMA SamePlace ==
  ASSUME NEW c, NEW P, Driven(c, P), NEW k \in 1 .. Len(P), NEW j \in 1 .. Len(P), P[k].id = P[j].id
  PROVE  k = j
<1>1. PICK n \in Nat : n = Len(P)
  BY DEF Driven, IsList
<1>2. P[k].id \notin Earlier(P, k) /\ P[j].id \notin Earlier(P, j)
  BY DEF Driven, DrivenAction
<1>3. ~(j \in 1 .. k - 1) /\ ~(k \in 1 .. j - 1)
  BY <1>2 DEF Earlier
<1> QED BY <1>1, <1>3

(* Everything that resolve chose is decided.                               *)
LEMMA DecisionsGoWell ==
  ASSUME LifecycleInv, Driven(closure, Plan), RecordDecisions, next = 1, Fresh,
         status = closure.status, required = closure.required, \A o \in Obs : history[o] = <<>>
  PROVE  stage' = "operations" /\ Underway'
<1>1. PICK S : S = {id \in Obs : status[id] \in Chosen}
  OBVIOUS
<1>2. PICK list : list = Listed(S)
  OBVIOUS
<1>3. DOMAIN closure.kind = Obs
  BY DEF Obs, Lifecycle!Obligations
<1>4. IsFiniteSet(S) /\ S \subseteq Obs
  <2>1. IsFiniteSet(Obs)
    BY <1>3 DEF Driven
  <2> QED BY <1>1, <2>1, FS_Subset
<1>5. /\ IsList(list) /\ Range(list) = S
      /\ \A i, j \in 1 .. Len(list) : list[i] = list[j] => i = j
      /\ Len(list) = Cardinality(S)
  BY <1>2, <1>4, ListedVisits
<1>6. PICK len \in Nat : len = Len(list) /\ DOMAIN list = 1 .. len /\ S = {list[i] : i \in 1 .. len}
  BY <1>5, ListIsSeq DEF IsList
<1>7. ASSUME NEW o \in Obs PROVE o \in S <=> closure.status[o] # "Rejected"
  <2>1. closure.status[o] \in Chosen \cup {"Rejected"}
    BY <1>3 DEF Driven, DrivenObligation
  <2> QED BY <1>1, <2>1 DEF Chosen
<1>8. list # <<>>
  <2>1. PICK o \in Obs : closure.kind[o] = "NativeExecutableDemand"
    BY <1>3 DEF Driven
  <2>2. o \in S
    BY <1>1, <1>3, <2>1 DEF Driven, DrivenObligation
  <2>3. len # 0
    BY <1>6, <2>2
  <2> QED BY <1>6, <2>3, EmptyList
<1>9. Lifecycle!Resolvable(list)
  <2>1. list \in Seq(S)
    BY <1>5, <1>6, ListIsSeq
  <2>2. list \in Seq(Lifecycle!Obligations)
    <3>1. list \in [1 .. len -> Obs]
      BY <1>4, <1>5, <1>6 DEF IsList
    <3> QED BY <1>6, <3>1 DEF Obs
  <2>3. Lifecycle!IsInjective(list)
    BY <1>5, <1>6 DEF Lifecycle!IsInjective
  <2>4. ASSUME NEW o \in Lifecycle!Range(list)
        PROVE  status[o] \in Lifecycle!Chosen /\ (required[o] # {} \/ closure.kind[o] \in Lifecycle!ResolverOwned)
    <3>1. o \in S
      BY <1>6, <2>4 DEF Lifecycle!Range
    <3>2. o \in Obs /\ closure.status[o] # "Rejected"
      BY <1>4, <1>7, <3>1
    <3>3. Unrequired(closure, o) \/ \E k \in 1 .. Len(Plan) : Awaited(closure, Plan, o, k)
      BY <1>3, <3>2, RequiredByPlan
    <3>4. required[o] # {} \/ closure.kind[o] \in ResolverOwned
      BY <3>3 DEF Unrequired, Awaited
    <3> QED BY <1>1, <3>1, <3>4 DEF Chosen, Lifecycle!Chosen, ResolverOwned, Lifecycle!ResolverOwned
  <2> QED BY <1>8, <2>2, <2>3, <2>4 DEF Lifecycle!Resolvable
<1>10. Lifecycle!RecordResolution(list, 1) /\ StageTo("operations") /\ next' = next
  BY <1>1, <1>2, <1>9 DEF RecordDecisions, Obs
<1>11. PICK end, from, to : end = Lifecycle!Decided(list, 1) /\ from = [o \in Obs |-> "Unresolved"] /\ to = Decision
  OBVIOUS
<1>12. LoopDone(end, list, 1, from, to, required)
  <2>1. Visits(list)
    BY <1>4, <1>5, <1>6 DEF Visits
  <2>2. ASSUME NEW i \in 1 .. Len(list) PROVE Lifecycle!Follows(history[list[i]], "Unresolved", 1)
    <3>1. list[i] \in Obs
      BY <2>1, <2>2 DEF Visits
    <3> QED BY <3>1 DEF Lifecycle!Follows
  <2> QED BY <1>11, <2>1, <2>2, DecidesEach
<1>13. /\ Lifecycle!Keep(end) /\ resolutions' = {1}
       /\ operations' = {} /\ contracts' = {} /\ proofs' = {}
  <2>1. end.error = "none"
    BY <1>12 DEF LoopDone
  <2> QED BY <1>10, <1>11, <2>1 DEF Lifecycle!RecordResolution, Fresh
<1>14. /\ closure' = closure
       /\ status' = end.status /\ required' = end.required /\ history' = end.history
  BY <1>13 DEF Lifecycle!Keep
<1>15. stage' = "operations" /\ results' = results /\ next' = 1
  BY <1>10 DEF StageTo
<1>16. Obs' = Obs /\ Plan' = Plan /\ Recorded' = {}
  BY <1>13, <1>14, <1>15 DEF Obs, Lifecycle!Obligations, Plan, Recorded, Lifecycle!Recorded
<1>17. Sequence' = 2
  <2>1. Cardinality(resolutions') = 1 /\ Cardinality(operations') = 0 /\ Cardinality(contracts') = 0
    BY <1>13, FS_EmptySet, FS_Singleton
  <2> QED BY <2>1 DEF Sequence
<1>18. Lifecycle!Used' = {1}
  BY <1>13 DEF Lifecycle!Used
<1>19. ASSUME NEW o \in Obs PROVE Attended(o)'
  <2>1. CASE closure.status[o] = "Rejected"
    <3>1. \A i \in 1 .. Len(list) : o # list[i]
      BY <1>6, <1>7, <2>1
    <3>2. Untouched(end, o)
      BY <1>12, <3>1 DEF LoopDone
    <3> QED BY <1>14, <2>1, <3>2 DEF Untouched, Attended
  <2>2. CASE closure.status[o] # "Rejected"
    <3>1. o \in S
      BY <1>7, <2>2
    <3>2. PICK i \in 1 .. Len(list) : o = list[i]
      BY <1>6, <3>1
    <3>3. Marked(end, o, 1, from[o], to[o], required[o])
      BY <1>12, <3>2 DEF LoopDone
    <3>4. from[o] = "Unresolved" /\ to[o] = IF required[o] # {} THEN status[o] ELSE "Discharged"
      BY <1>11 DEF Decision
    <3>5. PICK cause : history'[o] = Append(history[o], Lifecycle!Transition(1, "Unresolved", to[o], cause))
      BY <1>14, <3>3, <3>4 DEF Marked
    <3>6. status'[o] = to[o] /\ required'[o] = required[o]
      BY <1>14, <3>3 DEF Marked
    <3>7. Chronicle(history'[o], status'[o], 2)
      <4>1. PICK h, t, s : h = history[o] /\ s = to[o] /\ t = Lifecycle!Transition(1, "Unresolved", s, cause)
        OBVIOUS
      <4>2. IsList(h) /\ Len(h) = 0
        BY <4>1, EmptyList
      <4>3. Chronicle(Append(h, t), s, 2)
        BY <4>1, <4>2, ChronicleStarts
      <4> QED BY <3>5, <3>6, <4>1, <4>3
    <3>8. closure'.required[o] = required[o] /\ closure'.status[o] = status[o]
      BY <1>14
    <3>9. required[o] = {} => status'[o] \in {"Discharged", "Externalized"}
      BY <3>4, <3>6
    <3>10. required[o] # {} => status'[o] = status[o]
      BY <3>4, <3>6
    <3>11. required[o] \subseteq Recorded' <=> required[o] = {}
      BY <1>16
    <3> QED BY <1>14, <1>16, <1>17, <2>2, <3>6, <3>7, <3>8, <3>9, <3>10, <3>11 DEF Attended, Lifecycle!Closed
  <2> QED BY <2>1, <2>2
<1>20. next' \in 1 .. Len(Plan') + 1 /\ Recorded' = Earlier(Plan', next')
  <2>1. Len(Plan) \in Nat
    BY DEF Driven, IsList
  <2>2. 1 \in 1 .. Len(Plan) + 1
    BY <2>1
  <2>3. Earlier(Plan, 1) = {}
    BY DEF Earlier
  <2> QED BY <1>15, <1>16, <2>2, <2>3
<1>21. IsFiniteSet(operations') /\ IsFiniteSet(contracts') /\ IsFiniteSet(resolutions') /\ proofs' = {}
  BY <1>13, FS_EmptySet, FS_Singleton
<1> QED BY <1>15, <1>16, <1>17, <1>18, <1>19, <1>20, <1>21 DEF Underway

(* What a record of the next action does to an obligation that it          *)
(* discharges.                                                             *)
Advances(o) ==
  /\ status'[o] \in Lifecycle!Closed /\ required'[o] = closure.required[o]
  /\ \E seq \in Nat : \E cause :
       /\ Sequence <= seq /\ seq < Sequence'
       /\ history'[o] = Append(history[o], Lifecycle!Transition(seq, status[o], status'[o], cause))

Stays(o) == status'[o] = status[o] /\ required'[o] = required[o] /\ history'[o] = history[o]

LEMMA RecordAttends ==
  ASSUME Driven(closure, Plan), Underway, next \in 1 .. Len(Plan), NEW a, a = Plan[next],
         closure' = closure, Recorded' = Recorded \cup {a.id},
         Sequence \in Nat, Sequence' \in Nat, Sequence <= Sequence',
         NEW o \in Obs,
         o \in Elements(a.discharges) => Advances(o),
         o \notin Elements(a.discharges) => Stays(o)
  PROVE  Attended(o)'
<1>1. Attended(o)
  BY DEF Underway
<1>2. DOMAIN closure.kind = Obs
  BY DEF Obs, Lifecycle!Obligations
<1>3. \A x \in Elements(a.discharges) : x \in Obs /\ closure.status[x] \in Chosen /\ closure.required[x] = {a.id}
  BY <1>2 DEF Driven, DrivenAction
<1>4. CASE closure.status[o] = "Rejected"
  <2>1. o \notin Elements(a.discharges)
    BY <1>3, <1>4 DEF Chosen
  <2>2. Stays(o)
    BY <2>1
  <2> QED BY <1>1, <1>4, <2>2 DEF Attended, Stays
<1>5. CASE closure.status[o] # "Rejected"
  <2>1. /\ required[o] = closure.required[o]
        /\ Chronicle(history[o], status[o], Sequence)
        /\ closure.required[o] \subseteq Recorded => status[o] \in Lifecycle!Closed
        /\ ~(closure.required[o] \subseteq Recorded) => status[o] = closure.status[o]
    BY <1>1, <1>5 DEF Attended
  <2>2. CASE o \in Elements(a.discharges)
    <3>1. Advances(o)
      BY <2>2
    <3>2. PICK seq, cause :
            /\ seq \in Nat
            /\ Sequence <= seq /\ seq < Sequence'
            /\ history'[o] = Append(history[o], Lifecycle!Transition(seq, status[o], status'[o], cause))
      BY <3>1 DEF Advances
    <3>3. Chronicle(history'[o], status'[o], Sequence')
      <4>0. seq \in Nat
        BY <3>2
      <4>1. PICK h, s, r, n, m, t : /\ h = history[o] /\ s = status[o] /\ r = status'[o] /\ n = Sequence /\ m = Sequence'
                                    /\ t = Lifecycle!Transition(seq, s, r, cause)
        OBVIOUS
      <4>2. n \in Nat /\ m \in Nat /\ n <= seq /\ seq < m
        BY <3>2, <4>0, <4>1
      <4>3. Chronicle(h, s, n)
        BY <2>1, <4>1
      <4>4. Chronicle(Append(h, t), r, m)
        BY <4>0, <4>1, <4>2, <4>3, ChronicleAppends
      <4> QED BY <3>2, <4>1, <4>4
    <3>4. status'[o] \in Lifecycle!Closed /\ required'[o] = closure.required[o]
      BY <3>1 DEF Advances
    <3>5. closure.required[o] \subseteq Recorded'
      BY <1>3, <2>2
    <3> QED BY <1>5, <3>3, <3>4, <3>5 DEF Attended, Lifecycle!Closed
  <2>3. CASE o \notin Elements(a.discharges)
    <3>1. Stays(o)
      BY <2>3
    <3>2. Chronicle(history[o], status[o], Sequence')
      <4>1. PICK h, s, n, m : h = history[o] /\ s = status[o] /\ n = Sequence /\ m = Sequence'
        OBVIOUS
      <4>2. n \in Nat /\ m \in Nat /\ n <= m
        BY <4>1
      <4>3. Chronicle(h, s, n)
        BY <2>1, <4>1
      <4>4. Chronicle(h, s, m)
        BY <4>2, <4>3, ChronicleLater
      <4> QED BY <4>1, <4>4
    <3>3. closure.required[o] \subseteq Recorded' <=> closure.required[o] \subseteq Recorded
      <4>1. Unrequired(closure, o) \/ \E k \in 1 .. Len(Plan) : Awaited(closure, Plan, o, k)
        BY <1>2, <1>5, RequiredByPlan
      <4>2. a.id \notin closure.required[o]
        <5>1. CASE Unrequired(closure, o)
          BY <5>1 DEF Unrequired
        <5>2. ASSUME NEW k \in 1 .. Len(Plan), Awaited(closure, Plan, o, k), a.id \in closure.required[o] PROVE FALSE
          <6>1. Plan[k].id = Plan[next].id
            BY <5>2 DEF Awaited
          <6>2. k = next
            BY <6>1, SamePlace
          <6> QED BY <2>3, <5>2, <6>2 DEF Awaited
        <5> QED BY <4>1, <5>1, <5>2
      <4> QED BY <4>2
    <3> QED BY <1>5, <2>1, <3>1, <3>2, <3>3 DEF Attended, Stays, Lifecycle!Closed
  <2> QED BY <2>2, <2>3
<1> QED BY <1>4, <1>5

(* An obligation that the next action discharges has waited for it.        *)
LEMMA NextWaits ==
  ASSUME Driven(closure, Plan), Underway, next \in 1 .. Len(Plan), NEW a, a = Plan[next], Sequence \in Nat,
         NEW o \in Elements(a.discharges), NEW seq \in Nat, Sequence <= seq
  PROVE  /\ o \in Obs /\ status[o] \in Chosen /\ closure.required[o] = {a.id}
         /\ Lifecycle!Follows(history[o], status[o], seq) /\ Lifecycle!Before(o) = status[o]
<1>1. DOMAIN closure.kind = Obs
  BY DEF Obs, Lifecycle!Obligations
<1>2. o \in Obs /\ closure.status[o] \in Chosen /\ closure.required[o] = {a.id}
  BY <1>1 DEF Driven, DrivenAction
<1>3. a.id \notin Recorded
  BY DEF Underway, Driven, DrivenAction
<1>4. closure.status[o] # "Rejected"
  BY <1>2 DEF Chosen
<1>5. Attended(o)
  BY <1>2 DEF Underway
<1>6. Chronicle(history[o], status[o], Sequence) /\ status[o] = closure.status[o]
  BY <1>2, <1>3, <1>4, <1>5 DEF Attended
<1>7. PICK h, s, n : h = history[o] /\ s = status[o] /\ n = Sequence
  OBVIOUS
<1>8. n \in Nat /\ n <= seq /\ Chronicle(h, s, n)
  BY <1>6, <1>7
<1>9. Lifecycle!Follows(h, s, seq)
  BY <1>8, ChronicleFollows
<1>10. Lifecycle!Before(o) = status[o]
  BY <1>6, ChronicleIsValid
<1> QED BY <1>2, <1>6, <1>7, <1>9, <1>10

(* The next action may be recorded.                                        *)
LEMMA NextMayBeRecorded ==
  ASSUME Driven(closure, Plan), Underway, next \in 1 .. Len(Plan), NEW a, a = Plan[next]
  PROVE  MayRecord(a)
<1>1. DrivenAction(closure, Plan, next)
  BY DEF Driven
<1>2. a.id \notin Lifecycle!Recorded
  BY <1>1 DEF DrivenAction, Underway, Recorded
<1>3. closure.needs[a.id] \subseteq Lifecycle!Recorded
  BY <1>1 DEF DrivenAction, Underway, Recorded
<1>4. Sequence \notin Lifecycle!Used
  <2>1. \A u \in Lifecycle!Used : u \in Nat /\ u < Sequence
    BY DEF Underway
  <2>2. Sequence \in Nat
    BY SequenceIsNumber DEF Underway
  <2> QED BY <2>1, <2>2
<1> QED BY <1>2, <1>3, <1>4 DEF MayRecord, Lifecycle!Validated

(* What remains to be shown of a record.                                   *)
LEMMA RecordGoesOn ==
  ASSUME Driven(closure, Plan), Underway, next \in 1 .. Len(Plan), NEW a, a = Plan[next],
         NEW n \in Nat, n = Sequence, NEW op, op = [action |-> a.id, seq |-> n], op \notin operations,
         operations' = operations \cup {op}, proofs' = proofs, resolutions' = resolutions,
         \/ contracts' = contracts /\ Sequence' = n + 1
         \/ contracts' = contracts \cup {n + 1} /\ Sequence' = n + 2,
         closure' = closure, results' = results, next' = next + 1,
         \A o \in Obs : /\ o \in Elements(a.discharges) => Advances(o)
                        /\ o \notin Elements(a.discharges) => Stays(o)
  PROVE  Underway'
<1>1. PICK m : m = Sequence' /\ m \in Nat /\ n < m
  OBVIOUS
<1>2. op.action = a.id /\ op.seq = n
  OBVIOUS
<1>3. Recorded' = Recorded \cup {a.id}
  BY <1>2 DEF Recorded, Lifecycle!Recorded
<1>4. Obs' = Obs /\ Plan' = Plan
  BY DEF Obs, Lifecycle!Obligations, Plan
<1>5. ASSUME NEW o \in Obs PROVE Attended(o)'
  <2>1. Sequence \in Nat /\ Sequence' \in Nat /\ Sequence <= Sequence'
    BY <1>1
  <2> QED BY <1>3, <2>1, RecordAttends
<1>6. next' \in 1 .. Len(Plan') + 1 /\ Recorded' = Earlier(Plan', next')
  <2>1. PICK l, k \in Nat : l = Len(Plan) /\ k = next /\ k \in 1 .. l
    BY DEF Driven, IsList
  <2>2. k + 1 \in 1 .. l + 1
    BY <2>1
  <2>3. \A j \in 1 .. (k + 1) - 1 : j \in 1 .. k - 1 \/ j = k
    BY <2>1
  <2>4. /\ \A j \in 1 .. k - 1 : j \in 1 .. (k + 1) - 1
        /\ k \in 1 .. (k + 1) - 1
    BY <2>1
  <2>5. Earlier(Plan, k + 1) = Earlier(Plan, k) \cup {Plan[k].id}
    BY <2>3, <2>4 DEF Earlier
  <2>6. Recorded = Earlier(Plan, k)
    BY <2>1 DEF Underway
  <2> QED BY <1>3, <1>4, <2>1, <2>2, <2>5, <2>6
<1>7. IsFiniteSet(operations') /\ IsFiniteSet(contracts') /\ IsFiniteSet(resolutions') /\ proofs' = {}
  BY FS_AddElement DEF Underway
<1>8. ASSUME NEW u \in Lifecycle!Used' PROVE u \in Nat /\ u < Sequence'
  <2>1. u \in Lifecycle!Used \/ u = n \/ (u = n + 1 /\ m = n + 2)
    BY <1>1, <1>2, <1>8 DEF Lifecycle!Used
  <2>2. u \in Lifecycle!Used => u \in Nat /\ u < n
    BY DEF Underway
  <2> QED BY <1>1, <2>1, <2>2
<1> QED BY <1>4, <1>5, <1>6, <1>7, <1>8 DEF Underway

(* The next action is recorded, and nothing stops its loop.                *)
LEMMA SequenceIsFree ==
  ASSUME Underway, NEW n \in Nat, n = Sequence
  PROVE  /\ \A op \in operations : op.seq # n
         /\ n \notin contracts /\ n + 1 \notin contracts
<1>1. \A u \in Lifecycle!Used : u \in Nat /\ u < n
  BY DEF Underway
<1>2. (\A op \in operations : op.seq \in Lifecycle!Used) /\ contracts \subseteq Lifecycle!Used
  BY DEF Lifecycle!Used
<1> QED BY <1>1, <1>2

LEMMA OperationGoesWell ==
  ASSUME LifecycleInv, Driven(closure, Plan), Underway, next \in 1 .. Len(Plan), NEW a, a = Plan[next],
         Lifecycle!RecordOperation(a.id, Sequence), results' = results, next' = next + 1
  PROVE  Underway' /\ a.id \in Recorded'
<1>1. PICK n \in Nat : n = Sequence
  BY SequenceIsNumber DEF Underway
<1>2. DrivenAction(closure, Plan, next)
  BY DEF Driven
<1>3. PICK list : list = closure.discharges[a.id]
  OBVIOUS
<1>4. /\ list = a.discharges /\ IsList(list)
      /\ \A x, y \in 1 .. Len(list) : list[x] = list[y] => x = y
      /\ closure.actionKind[a.id] = a.kind
  BY <1>2, <1>3 DEF DrivenAction
<1>5. PICK len \in Nat : len = Len(list) /\ DOMAIN list = 1 .. len
  BY <1>4, ListIsSeq DEF IsList
<1>6. ASSUME NEW i \in 1 .. len
      PROVE  /\ list[i] \in Elements(a.discharges)
             /\ list[i] \in Obs /\ status[list[i]] \in Chosen
             /\ Lifecycle!Follows(history[list[i]], status[list[i]], n)
             /\ closure.required[list[i]] = {a.id}
             /\ closure.kind[list[i]] \in Lifecycle!Dischargeable[a.kind]
  <2>1. PICK o : o = list[i] /\ o \in Elements(a.discharges)
    BY <1>4, <1>5 DEF Elements
  <2>2. Sequence \in Nat /\ Sequence <= n
    BY <1>1
  <2>3. /\ o \in Obs /\ status[o] \in Chosen /\ closure.required[o] = {a.id}
        /\ Lifecycle!Follows(history[o], status[o], n)
    BY <2>1, <2>2, NextWaits
  <2>4. closure.kind[o] \in Dischargeable[a.kind]
    BY <1>2, <2>1 DEF DrivenAction
  <2>5. Lifecycle!Dischargeable = Dischargeable
    BY Zenon DEF Lifecycle!Dischargeable, Dischargeable, Lifecycle!ActionKinds, ActionKinds, Lifecycle!Compilers, Compilers
  <2> QED BY <2>1, <2>3, <2>4, <2>5
<1>7. PICK end, to, need : /\ end = Lifecycle!Discharged(a.id, n)
                           /\ to = [o \in Obs |-> "Discharged"] /\ need = [o \in Obs |-> {a.id}]
  OBVIOUS
<1>8. LoopDone(end, list, n, status, to, need)
  <2>1. Visits(list)
    BY <1>4, <1>5, <1>6 DEF Visits
  <2>2. \A i \in 1 .. Len(list) :
          /\ closure.kind[list[i]] \in Lifecycle!Dischargeable[closure.actionKind[a.id]]
          /\ status[list[i]] \in Chosen /\ Lifecycle!Follows(history[list[i]], status[list[i]], n)
    BY <1>4, <1>5, <1>6
  <2>3. PICK b : b = a.id
    OBVIOUS
  <2> QED BY <1>3, <1>7, <2>1, <2>2, DischargesEach
<1>9. PICK op : op = [action |-> a.id, seq |-> n]
  OBVIOUS
<1>10. /\ Lifecycle!Keep(end) /\ operations' = operations \cup {op}
       /\ resolutions' = resolutions /\ contracts' = contracts /\ proofs' = proofs
  <2>1. end.error = "none"
    BY <1>8 DEF LoopDone
  <2> QED BY <1>1, <1>7, <1>9, <2>1 DEF Lifecycle!RecordOperation
<1>11. /\ closure' = closure
       /\ status' = end.status /\ required' = end.required /\ history' = end.history
  BY <1>10 DEF Lifecycle!Keep
<1>12. op.action = a.id /\ op.seq = n
  BY <1>9
<1>13. op \notin operations
  BY <1>1, <1>12, SequenceIsFree
<1>14. Sequence' = n + 1
  <2>1. Cardinality(operations') = Cardinality(operations) + 1
    BY <1>10, <1>13, FS_AddElement DEF Underway
  <2>2. Cardinality(operations) \in Nat /\ Cardinality(resolutions) \in Nat /\ Cardinality(contracts) \in Nat
    BY FS_CardinalityType DEF Underway
  <2> QED BY <1>1, <1>10, <2>1, <2>2 DEF Sequence
<1>15. ASSUME NEW o \in Obs, o \in Elements(a.discharges) PROVE Advances(o)
  <2>1. PICK i \in 1 .. len : o = list[i]
    BY <1>4, <1>5, <1>15 DEF Elements
  <2>2. Marked(end, o, n, status[o], to[o], need[o])
    BY <1>5, <1>8, <2>1 DEF LoopDone
  <2>3. to[o] = "Discharged" /\ need[o] = {a.id} /\ closure.required[o] = {a.id}
    BY <1>6, <1>7, <2>1
  <2>4. status'[o] = "Discharged" /\ required'[o] = closure.required[o]
    BY <1>11, <2>2, <2>3 DEF Marked
  <2>5. PICK cause : history'[o] = Append(history[o], Lifecycle!Transition(n, status[o], to[o], cause))
    BY <1>11, <2>2 DEF Marked
  <2>6. Sequence <= n /\ n < Sequence'
    BY <1>1, <1>14
  <2>7. history'[o] = Append(history[o], Lifecycle!Transition(n, status[o], status'[o], cause))
    BY <2>3, <2>4, <2>5
  <2>8. status'[o] \in Lifecycle!Closed
    BY <2>4 DEF Lifecycle!Closed
  <2> QED BY <2>4, <2>6, <2>7, <2>8 DEF Advances
<1>16. ASSUME NEW o \in Obs, o \notin Elements(a.discharges) PROVE Stays(o)
  <2>1. \A i \in 1 .. Len(list) : o # list[i]
    BY <1>5, <1>6, <1>16
  <2>2. Untouched(end, o)
    BY <1>8, <2>1 DEF LoopDone
  <2> QED BY <1>11, <2>2 DEF Untouched, Stays
<1>17. Underway'
  BY <1>1, <1>9, <1>10, <1>11, <1>13, <1>14, <1>15, <1>16, RecordGoesOn
<1>18. a.id \in Recorded'
  BY <1>10, <1>12 DEF Recorded, Lifecycle!Recorded
<1> QED BY <1>17, <1>18

LEMMA RuntimeGoesWell ==
  ASSUME LifecycleInv, Driven(closure, Plan), Underway, next \in 1 .. Len(Plan), NEW a, a = Plan[next],
         a.kind = "PreflightRuntimeContract",
         Lifecycle!RecordRuntimeOperation(a.id, Sequence, Sequence + 1), results' = results, next' = next + 1
  PROVE  Underway' /\ a.id \in Recorded'
<1>1. PICK n \in Nat : n = Sequence
  BY SequenceIsNumber DEF Underway
<1>2. DrivenAction(closure, Plan, next)
  BY DEF Driven
<1>3. PICK o : o = closure.discharges[a.id][1]
  OBVIOUS
<1>4. Elements(a.discharges) = {o}
  <2>1. closure.discharges[a.id] = <<Runtime>> /\ a.discharges = <<Runtime>>
    BY <1>2 DEF DrivenAction
  <2>2. PICK r : r = Runtime
    OBVIOUS
  <2>3. a.discharges = <<r>> /\ o = r
    BY <1>3, <2>1, <2>2
  <2> QED BY <2>3 DEF Elements
<1>5. PICK later \in Nat : later = n + 1
  OBVIOUS
<1>6. PICK q : q = Lifecycle!Externalized(o, later)
  OBVIOUS
<1>7. PICK op : op = [action |-> a.id, seq |-> n]
  OBVIOUS
<1>8. /\ q.error = "none" /\ Lifecycle!Keep(q)
      /\ operations' = operations \cup {op} /\ contracts' = contracts \cup {later}
      /\ resolutions' = resolutions /\ proofs' = proofs
  BY <1>1, <1>3, <1>5, <1>6, <1>7 DEF Lifecycle!RecordRuntimeOperation
<1>9. /\ o \in Obs /\ closure.required[o] = {a.id} /\ Lifecycle!Before(o) = status[o]
  <2>1. Sequence \in Nat /\ Sequence <= later /\ o \in Elements(a.discharges)
    BY <1>1, <1>4, <1>5
  <2> QED BY <2>1, NextWaits
<1>10. PICK p, from, to, cause : /\ p = Lifecycle!Progress /\ from = status[o] /\ to = "Externalized"
                                /\ cause = <<"contract">>
  OBVIOUS
<1>11. /\ Books(p) /\ p.error = "none"
       /\ p.status = status /\ p.required = required /\ p.history = history
  BY <1>10, ProgressBooks DEF LifecycleInv
<1>12. q = Lifecycle!Moved(p, o, later, from, to, cause)
  BY <1>6, <1>9, <1>10 DEF Lifecycle!Externalized
<1>13. /\ Books(q) /\ Others(p, q, o)
       /\ q.status[o] = to /\ q.required[o] = p.required[o]
       /\ \/ q.history[o] = p.history[o] /\ q.error = "transition"
          \/ /\ q.history[o] = Append(p.history[o], Lifecycle!Transition(later, from, to, cause))
             /\ q.error = p.error
  <2>1. Books(p) /\ o \in Obs
    BY <1>9, <1>11
  <2> QED BY <1>12, <2>1, MovedBooks
<1>14. q.history[o] = Append(history[o], Lifecycle!Transition(later, from, to, cause))
  BY <1>8, <1>11, <1>13
<1>15. /\ closure' = closure
       /\ status' = q.status /\ required' = q.required /\ history' = q.history
  BY <1>8 DEF Lifecycle!Keep
<1>16. op.action = a.id /\ op.seq = n
  BY <1>7
<1>17. op \notin operations /\ n + 1 \notin contracts
  BY <1>1, <1>16, SequenceIsFree
<1>18. Sequence' = n + 2
  <2>1. /\ Cardinality(operations') = Cardinality(operations) + 1
        /\ Cardinality(contracts') = Cardinality(contracts) + 1
    BY <1>5, <1>8, <1>17, FS_AddElement DEF Underway
  <2>2. Cardinality(operations) \in Nat /\ Cardinality(resolutions) \in Nat /\ Cardinality(contracts) \in Nat
    BY FS_CardinalityType DEF Underway
  <2> QED BY <1>1, <1>8, <2>1, <2>2 DEF Sequence
<1>19. Advances(o)
  <2>1. required[o] = closure.required[o]
    <3>1. Attended(o)
      BY <1>9 DEF Underway
    <3>2. closure.status[o] # "Rejected"
      <4>1. o \in Elements(a.discharges)
        BY <1>4
      <4> QED BY <1>2, <4>1 DEF DrivenAction, Chosen
    <3> QED BY <3>1, <3>2 DEF Attended
  <2>2. status'[o] = to /\ required'[o] = closure.required[o]
    BY <1>11, <1>13, <1>15, <2>1
  <2>3. history'[o] = Append(history[o], Lifecycle!Transition(later, status[o], status'[o], cause))
    BY <1>10, <1>14, <1>15, <2>2
  <2>4. Sequence <= later /\ later < Sequence'
    BY <1>1, <1>5, <1>18
  <2>5. status'[o] \in Lifecycle!Closed
    BY <1>10, <2>2 DEF Lifecycle!Closed
  <2> QED BY <2>2, <2>3, <2>4, <2>5 DEF Advances
<1>20. ASSUME NEW x \in Obs, x # o PROVE Stays(x)
  BY <1>11, <1>13, <1>15, <1>20 DEF Others, Stays
<1>21. \A x \in Obs : /\ x \in Elements(a.discharges) => Advances(x)
                      /\ x \notin Elements(a.discharges) => Stays(x)
  BY <1>4, <1>19, <1>20
<1>22. contracts' = contracts \cup {n + 1}
  BY <1>5, <1>8
<1>23. Underway'
  BY <1>1, <1>7, <1>8, <1>15, <1>17, <1>18, <1>21, <1>22, RecordGoesOn
<1>24. a.id \in Recorded'
  BY <1>8, <1>16 DEF Recorded, Lifecycle!Recorded
<1> QED BY <1>23, <1>24

(* After the last action the gate is open.                                 *)
LEMMA GateIsOpened ==
  ASSUME LifecycleInv, Driven(closure, Plan), Underway, next > Len(Plan)
  PROVE  Lifecycle!Publishable(<<"link">>)
<1>0. DOMAIN closure.kind = Obs /\ Lifecycle!Obligations = Obs
  BY DEF Obs, Lifecycle!Obligations
<1>1. \A k \in 1 .. Len(Plan) : Plan[k].id \in Recorded
  <2>1. PICK l \in Nat : l = Len(Plan)
    BY DEF Driven, IsList
  <2>2. next = l + 1
    BY <2>1 DEF Underway
  <2>3. \A k \in 1 .. l : k \in 1 .. (l + 1) - 1
    BY <2>1
  <2>4. Recorded = Earlier(Plan, l + 1)
    BY <2>2 DEF Underway
  <2> QED BY <2>1, <2>3, <2>4 DEF Earlier
<1>2. ASSUME NEW o \in Obs, closure.status[o] # "Rejected"
      PROVE  /\ status[o] \in Lifecycle!Closed /\ required[o] \subseteq Recorded
             /\ Chronicle(history[o], status[o], Sequence)
  <2>1. Unrequired(closure, o) \/ \E k \in 1 .. Len(Plan) : Awaited(closure, Plan, o, k)
    BY <1>0, <1>2, RequiredByPlan
  <2>2. closure.required[o] \subseteq Recorded
    BY <1>1, <2>1 DEF Unrequired, Awaited
  <2>3. Attended(o)
    BY DEF Underway
  <2> QED BY <1>2, <2>2, <2>3 DEF Attended
<1>3. ASSUME NEW o \in Obs PROVE ~Lifecycle!MissingCause(o) /\ ~Lifecycle!InvalidHistory(o)
  <2>1. CASE closure.status[o] = "Rejected"
    <3>1. status[o] = "Rejected" /\ history[o] = <<>>
      BY <2>1 DEF Underway, Attended
    <3>2. status[o] \notin Lifecycle!Final /\ status[o] # "Discharged"
      BY <3>1 DEF Lifecycle!Final, Lifecycle!Closed
    <3> QED BY <3>1, <3>2 DEF Lifecycle!MissingCause, Lifecycle!InvalidHistory
  <2>2. CASE closure.status[o] # "Rejected"
    <3>1. required[o] \subseteq Lifecycle!Recorded /\ Chronicle(history[o], status[o], Sequence)
      BY <1>2, <2>2 DEF Recorded
    <3>2. ~Lifecycle!InvalidHistory(o)
      BY <3>1, ChronicleIsValid
    <3> QED BY <3>1, <3>2 DEF Lifecycle!MissingCause
  <2> QED BY <2>1, <2>2
<1>4. PICK S : S = {o \in Obs : closure.status[o] \in Chosen}
  OBVIOUS
<1>5. PICK demand \in Obs : closure.kind[demand] = "NativeExecutableDemand"
  BY <1>0 DEF Driven
<1>6. IsFiniteSet(Obs)
  BY <1>0 DEF Driven
<1>7. PICK r : Edges(r) /\ LeastClosed(Lifecycle!Reachable, Obs, Demands, r)
  BY <1>5, <1>6, ReachableIsLeast
<1>8. \A o \in Obs : DrivenObligation(closure, Plan, o)
  BY <1>0 DEF Driven
<1>9. Demands \subseteq S
  BY <1>4, <1>8 DEF Demands, DrivenObligation
<1>10. \A o \in S \cap Obs : r[o] \subseteq S
  BY <1>0, <1>4, <1>7, <1>8 DEF Edges, DrivenObligation
<1>11. Lifecycle!Reachable \subseteq S /\ Demands \subseteq Lifecycle!Reachable
  BY <1>7, <1>9, <1>10 DEF LeastClosed
<1>12. \A o \in Obs : o \in Lifecycle!Reachable => status[o] \in Lifecycle!Closed
  BY <1>2, <1>4, <1>11 DEF Chosen
<1>13. Lifecycle!Reachable # {}
  BY <1>5, <1>11 DEF Demands
<1>14. <<"link">> \in Lifecycle!Recorded
  BY <1>1 DEF Driven, Recorded
<1> QED BY <1>0, <1>3, <1>12, <1>13, <1>14 DEF Lifecycle!Publishable

-----------------------------------------------------------------------------
(* The driver *)
Pristine ==
  status = closure.status /\ required = closure.required /\ \A o \in Obs : history[o] = <<>>

(* Nothing is recorded before the graph is made, and the graph is recorded *)
(* as resolve left it.                                                     *)
StartInv ==
  /\ stage \notin Recording => Fresh
  /\ stage \in {"resolved", "resolution"} => next = 1
  /\ stage = "resolution" => Fresh /\ Pristine

Goes == results # <<>> /\ results[1].verdict = "accepted" /\ Complete(input) /\ ~Split(input)

GoesInv == Goes => stage \notin {"failed", "blocked"} /\ (stage = "operations" => Underway)

LEMMA GoesResolved ==
  ASSUME Returned, AgreeInv, Goes, NEW on, NEW acts, on = results[1].obligations, acts = results[1].actions
  PROVE  /\ results[1].violations = Violations(input, on, acts)
         /\ \E os, as, om, exe : Resolved(input, os, as, om, exe, acts, on)
<1>1. Len(results) # 0
  BY DEF Returned, Goes, IsList
<1>2. Facts(input) /\ Complete(input) /\ ~Split(input)
  BY <1>1 DEF AgreeInv, AcceptInv, Goes
<1>3. Regular(input)
  BY <1>2, CompleteIsRegular
<1>4. Accepted(input, results[1])
  BY <1>1, <1>3 DEF AgreeInv, AcceptInv, Goes
<1>5. PICK os, as, exe :
        /\ Finished(input, os) /\ as = Planned(input, os) /\ exe = ExecutablesIn(input)[1].id
        /\ results[1].obligations = Closing(Assigned(os, as), exe)
        /\ results[1].actions = as \o LinkAndPublish(Assigned(os, as), as, exe)
  BY <1>4 DEF Accepted
<1>6. Decided(input) /\ results[1].violations = Violations(input, on, acts)
  BY <1>4 DEF Accepted
<1>7. PICK om : om = Assigned(os, as)
  OBVIOUS
<1>8. Resolved(input, os, as, om, exe, acts, on)
  BY <1>2, <1>3, <1>5, <1>6, <1>7 DEF Resolved
<1> QED BY <1>6, <1>8

LEMMA GoesUnviolated ==
  ASSUME Returned, AgreeInv, Goes
  PROVE  results[1].violations = {}
<1>1. PICK on, acts : on = results[1].obligations /\ acts = results[1].actions
  OBVIOUS
<1>2. /\ results[1].violations = Violations(input, on, acts)
      /\ \E os, as, om, exe : Resolved(input, os, as, om, exe, acts, on)
  BY <1>1, GoesResolved
<1>3. PICK os, as, om, exe : Resolved(input, os, as, om, exe, acts, on)
  BY <1>2
<1>4. Violations(input, on, acts) = {}
  BY <1>3, NothingIsFound
<1> QED BY <1>2, <1>4

LEMMA GoesIsDriven ==
  ASSUME Returned, DeliveryInv, AgreeInv, Goes, stage \in {"resolution", "operations"}
  PROVE  Driven(closure, Plan)
<1>1. PICK on, acts : on = results[1].obligations /\ acts = results[1].actions
  OBVIOUS
<1>2. \E os, as, om, exe : Resolved(input, os, as, om, exe, acts, on)
  BY <1>1, GoesResolved
<1>3. PICK os, as, om, exe : Resolved(input, os, as, om, exe, acts, on)
  BY <1>2
<1>4. Ready(input, on, acts)
  BY <1>3, ResolvedIsReady
<1>5. closure = Graph(on, acts) /\ Plan = acts
  BY <1>1 DEF DeliveryInv, GraphInv, Plan
<1>6. IsFiniteSet(DOMAIN on)
  BY <1>1 DEF DeliveryInv, ResolverInv, Goes, Delivered, Supplied, Sound, Mapped
<1>7. PICK g : g = Graph(on, acts)
  OBVIOUS
<1>8. Driven(g, acts)
  BY <1>4, <1>6, <1>7, GraphIsDriven
<1> QED BY <1>5, <1>7, <1>8

LEMMA StartInit ==
  ASSUME ProductionInit
  PROVE  StartInv /\ GoesInv
<1>1. /\ stage \in {"register", "triple", "any order"} /\ results = <<>>
      /\ stage # "any order" => Fresh
  BY DEF ProductionInit, DriverInit, CallerInit, Init, IngestInit, Fresh
<1>2. StartInv
  BY <1>1 DEF StartInv, Recording
<1> QED BY <1>1, <1>2 DEF GoesInv, Goes

LEMMA StartKept ==
  ASSUME Inv, StartInv, [ProductionNext]_allVars
  PROVE  StartInv'
<1>1. ASSUME UNCHANGED productionVars, stage \notin Recording, stage' \notin Recording,
             stage' = "resolved" => next' = 1
      PROVE  StartInv'
  <2>1. Fresh'
    BY <1>1 DEF StartInv, Fresh, productionVars
  <2> QED BY <1>1, <2>1 DEF StartInv, Recording
<1>2. CASE Ingest /\ UNCHANGED productionVars
  <2>1. stage \in Reading /\ stage' \in Reading \cup {"refused", "register"}
    BY <1>2 DEF Ingest, ReadTriple, ReadCargo, ReadNimble, ReadMain, ReadExports, ReadCadd, ReadCppmax,
                Refuse, HandOver, Found, Reading
  <2> QED BY <1>1, <1>2, <2>1 DEF Reading, Recording
<1>3. CASE Resolve /\ UNCHANGED <<ingestVars, productionVars>>
  <2>1. stage \in Resolving
    BY <1>3 DEF Resolving, Resolve, Register, RejectRoots, SelectRoots, RejectRequirement, SelectProvider,
                Panic, RejectUndeclared, RegisterRoots, BuildActions, Close
  <2>2. stage' \in Resolving \cup {"panicked"} \/ (stage' \in {"register", "resolved"} /\ next' = 1)
    BY <1>3 DEF Resolving, Resolve, Register, RejectRoots, SelectRoots, RejectRequirement, SelectProvider,
                Panic, RejectUndeclared, RegisterRoots, BuildActions, Close, Goto, Reject, Return
  <2> QED BY <1>1, <1>3, <2>1, <2>2 DEF Resolving, Recording
<1>4. CASE NewGraph
  <2>1. /\ stage = "resolved" /\ stage' = "resolution" /\ next' = next
        /\ operations' = operations /\ resolutions' = resolutions
        /\ contracts' = contracts /\ proofs' = proofs
        /\ status' = closure'.status /\ required' = closure'.required
        /\ history' = [id \in DOMAIN closure'.kind |-> <<>>]
    BY <1>4 DEF NewGraph
  <2>2. Fresh' /\ next' = 1
    BY <2>1 DEF StartInv, Fresh, Recording
  <2>3. Pristine'
    <3>1. \A o \in DOMAIN closure'.kind : history'[o] = <<>>
      BY <2>1
    <3> QED BY <2>1, <3>1 DEF Pristine, Obs, Lifecycle!Obligations
  <2> QED BY <2>1, <2>2, <2>3 DEF StartInv, Recording
<1>5. CASE RecordDecisions \/ RecordAction \/ RefuseAction \/ Gate
  <2>1. stage' \in {"operations", "failed", "published", "blocked"}
    BY <1>5 DEF RecordDecisions, RecordAction, RefuseAction, Gate, StageTo
  <2> QED BY <2>1 DEF StartInv, Recording
<1>6. CASE AnyRecord
  <2>1. stage' = "any order"
    BY <1>6 DEF AnyRecord, vars
  <2> QED BY <2>1 DEF StartInv, Recording
<1>7. CASE UNCHANGED allVars
  <2>1. /\ stage' = stage /\ next' = next /\ closure' = closure /\ status' = status
        /\ required' = required /\ history' = history /\ operations' = operations
        /\ resolutions' = resolutions /\ contracts' = contracts /\ proofs' = proofs
    BY <1>7 DEF allVars, vars, productionVars
  <2>2. Fresh' = Fresh
    BY <2>1 DEF Fresh
  <2>3. Pristine => Pristine'
    BY <2>1 DEF Pristine, Obs, Lifecycle!Obligations
  <2> QED BY <2>1, <2>2, <2>3 DEF StartInv
<1> QED BY <1>2, <1>3, <1>4, <1>5, <1>6, <1>7 DEF ProductionNext, Production

(* Of complete facts every record of the plan is made.                     *)
LEMMA GoesKept ==
  ASSUME Inv, DeliveryInv, AgreeInv, StartInv, GoesInv, [ProductionNext]_allVars
  PROVE  GoesInv'
<1>0. LifecycleInv /\ Returned
  BY DEF Inv, RecordsInv, DriverInv
<1>1. ASSUME stage' \notin {"failed", "blocked", "operations"} PROVE GoesInv'
  BY <1>1 DEF GoesInv
<1>2. CASE Ingest
  <2>1. stage' \in Reading \cup {"refused", "register"}
    BY <1>2 DEF Ingest, ReadTriple, ReadCargo, ReadNimble, ReadMain, ReadExports, ReadCadd, ReadCppmax,
                Refuse, HandOver, Found, Reading
  <2> QED BY <1>1, <2>1 DEF Reading
<1>3. CASE Resolve
  <2>1. stage' \in Resolving \cup {"panicked", "resolved"}
    BY <1>3 DEF Resolving, Resolve, Register, RejectRoots, SelectRoots, RejectRequirement, SelectProvider,
                Panic, RejectUndeclared, RegisterRoots, BuildActions, Close, Goto, Reject, Return
  <2> QED BY <1>1, <2>1 DEF Resolving
<1>4. CASE AnyRecord
  <2>1. stage' = "any order"
    BY <1>4 DEF AnyRecord, vars
  <2> QED BY <1>1, <2>1
<1>5. CASE UNCHANGED allVars
  <2>1. /\ stage' = stage /\ results' = results /\ input' = input /\ next' = next /\ closure' = closure
        /\ status' = status /\ required' = required /\ history' = history
        /\ operations' = operations /\ resolutions' = resolutions /\ contracts' = contracts /\ proofs' = proofs
    BY <1>5 DEF allVars, vars, productionVars
  <2>2. Goes' => Goes
    BY <2>1 DEF Goes
  <2>3. /\ Obs' = Obs /\ Plan' = Plan /\ Recorded' = Recorded /\ Sequence' = Sequence
        /\ Lifecycle!Used' = Lifecycle!Used
    BY <2>1 DEF Obs, Lifecycle!Obligations, Plan, Recorded, Lifecycle!Recorded, Sequence, Lifecycle!Used
  <2>4. ASSUME NEW o, Attended(o) PROVE Attended(o)'
    BY <2>1, <2>3, <2>4 DEF Attended, Lifecycle!Closed
  <2>5. Underway => Underway'
    BY <2>1, <2>3, <2>4 DEF Underway
  <2> QED BY <2>1, <2>2, <2>5 DEF GoesInv
<1>6. CASE Production
  <2>1. /\ results' = results /\ input' = input
        /\ stage \in {"resolved", "resolution", "operations"}
    BY <1>6 DEF Production, NewGraph, RecordDecisions, RecordAction, RefuseAction, Gate, StageTo
  <2>2. SUFFICES ASSUME Goes PROVE GoesInv'
    BY <2>1 DEF GoesInv, Goes
  <2>3. CASE NewGraph
    BY <1>1, <2>3 DEF NewGraph
  <2>4. ASSUME stage \in {"resolution", "operations"} PROVE Driven(closure, Plan)
    BY <1>0, <2>2, <2>4, GoesIsDriven
  <2>5. CASE RecordDecisions
    <3>1. stage = "resolution"
      BY <2>5 DEF RecordDecisions
    <3>2. Driven(closure, Plan)
      BY <2>4, <3>1
    <3>3. /\ next = 1 /\ Fresh /\ status = closure.status /\ required = closure.required
          /\ \A o \in Obs : history[o] = <<>>
      BY <3>1 DEF StartInv, Pristine
    <3>4. stage' = "operations" /\ Underway'
      BY <1>0, <2>5, <3>2, <3>3, DecisionsGoWell
    <3> QED BY <3>4 DEF GoesInv
  <2>6. ASSUME stage = "operations"
        PROVE  Driven(closure, Plan) /\ Underway /\ next \in Nat /\ next # 0
    <3>1. Underway
      BY <2>2, <2>6 DEF GoesInv
    <3> QED BY <1>0, <2>4, <2>6, <3>1 DEF Returned
  <2>7. ASSUME stage = "operations", next <= Len(Plan) PROVE next \in 1 .. Len(Plan)
    <3>1. PICK n, l : n = next /\ l = Len(Plan) /\ n \in Nat /\ n # 0 /\ n <= l /\ l \in Nat
      BY <2>6, <2>7 DEF Driven, IsList
    <3>2. n \in 1 .. l
      BY ONLY <3>1
    <3> QED BY <3>1, <3>2
  <2>8. CASE RecordAction
    <3>1. stage = "operations" /\ next <= Len(Plan) /\ results' = results /\ next' = next + 1
      BY <2>8 DEF RecordAction, StageTo
    <3>2. PICK a : a = Plan[next]
      OBVIOUS
    <3>3. /\ a.kind = "PreflightRuntimeContract" => Lifecycle!RecordRuntimeOperation(a.id, Sequence, Sequence + 1)
          /\ a.kind # "PreflightRuntimeContract" => Lifecycle!RecordOperation(a.id, Sequence)
          /\ stage' = IF a.id \in {op.action : op \in operations'} THEN "operations" ELSE "failed"
      BY <2>8, <3>2 DEF RecordAction, StageTo
    <3>4. Driven(closure, Plan) /\ Underway /\ next \in 1 .. Len(Plan)
      BY <2>6, <2>7, <3>1
    <3>5. Underway' /\ a.id \in Recorded'
      <4>1. CASE a.kind = "PreflightRuntimeContract"
        <5>1. Lifecycle!RecordRuntimeOperation(a.id, Sequence, Sequence + 1)
          BY <3>3, <4>1
        <5> QED BY <1>0, <3>1, <3>2, <3>4, <4>1, <5>1, RuntimeGoesWell
      <4>2. CASE a.kind # "PreflightRuntimeContract"
        <5>1. Lifecycle!RecordOperation(a.id, Sequence)
          BY <3>3, <4>2
        <5> QED BY <1>0, <3>1, <3>2, <3>4, <5>1, OperationGoesWell
      <4> QED BY <4>1, <4>2
    <3>6. stage' = "operations"
      BY <3>3, <3>5 DEF Recorded, Lifecycle!Recorded
    <3> QED BY <3>5, <3>6 DEF GoesInv
  <2>9. CASE RefuseAction
    <3>1. stage = "operations" /\ next <= Len(Plan) /\ ~MayRecord(Plan[next])
      BY <2>9 DEF RefuseAction
    <3>2. Driven(closure, Plan) /\ Underway /\ next \in 1 .. Len(Plan)
      BY <2>6, <2>7, <3>1
    <3>3. PICK a : a = Plan[next]
      OBVIOUS
    <3>4. MayRecord(a)
      BY <3>2, <3>3, NextMayBeRecorded
    <3> QED BY <3>1, <3>3, <3>4
  <2>10. CASE Gate
    <3>1. /\ stage = "operations" /\ next > Len(Plan)
          /\ stage' = IF Lifecycle!Publishable(<<"link">>) THEN "published" ELSE "blocked"
      BY <2>10 DEF Gate, StageTo
    <3>2. Driven(closure, Plan) /\ Underway
      BY <2>6, <3>1
    <3>3. Lifecycle!Publishable(<<"link">>)
      BY <1>0, <3>1, <3>2, GateIsOpened
    <3> QED BY <1>1, <3>1, <3>3
  <2> QED BY <1>6, <2>3, <2>5, <2>8, <2>9, <2>10 DEF Production
<1> QED BY <1>2, <1>3, <1>4, <1>5, <1>6 DEF ProductionNext

(* Of complete facts that resolve accepts, where no package is split, the  *)
(* plan passes the integrity check, every record of it is made, and the    *)
(* gate opens.  Whatever the facts are.                                    *)
THEOREM CompleteFactsPublishHolds == ProductionSpec => []CompleteFactsPublish
<1>1. ProductionInit => Inv /\ DeliveryInv /\ AgreeInv /\ StartInv /\ GoesInv
  BY InitInv, DeliveryInit, AgreeInit, StartInit
<1>2. Inv /\ DeliveryInv /\ AgreeInv /\ StartInv /\ GoesInv /\ [ProductionNext]_allVars
        => Inv' /\ DeliveryInv' /\ AgreeInv' /\ StartInv' /\ GoesInv'
  BY StepKeeps, DeliveryKept, AgreeKept, StartKept, GoesKept
<1>3. Inv /\ AgreeInv /\ GoesInv => CompleteFactsPublish
  <2>1. Inv => Returned
    BY DEF Inv, RecordsInv, DriverInv
  <2>2. Inv /\ AgreeInv /\ Goes => results[1].violations = {}
    BY <2>1, GoesUnviolated
  <2> QED BY <2>2 DEF CompleteFactsPublish, GoesInv, Goes
<1> QED BY <1>1, <1>2, <1>3, PTL DEF ProductionSpec

-----------------------------------------------------------------------------
(* One directory, after faults *)
Outputs == Archives \cup {"object", "app"}
AtGate  == {"record", "gate", "publishProvenance", "publishManifest"}

(* Where the run stands, what it holds in memory and on disk agree.        *)
RunInv ==
  /\ step \in Steps \cup {"idle"} /\ omitted \in Gaps
  /\ step \in AtGate => Answers(linked)
  /\ step = "gate" /\ omitted = Nothing => file["stagedProvenance"] = Statement
  /\ step \in {"publishProvenance", "publishManifest"} =>
       omitted = Nothing /\ file["stagedManifest"] = Statement
  /\ step = "publishProvenance" => file["stagedProvenance"] = Statement
  /\ step = "publishManifest" => file["provenance"] # Nothing

(* A tool writes only what it builds, and the run waits for at most one,   *)
(* and only while it builds.                                               *)
ToolInv ==
  /\ tool # "none" => step \in Outputs
  /\ \A t \in tools : t.file \in Outputs /\ (t.waited => tool = "running")
  /\ \A t, u \in tools : t.waited /\ u.waited => t = u

DiskInv ==
  /\ file = [f \in OutputFiles |-> file[f]]
  /\ PublishedAnswers /\ PublishedPassedGate /\ ManifestNeverAlone

DirectoryInv == RunInv /\ ToolInv /\ DiskInv /\ PassIsExact

LEMMA DirectoryInit == PublicationInit => DirectoryInv
BY DEF PublicationInit, DirectoryInv, RunInv, ToolInv, DiskInv, Steps, Gaps, OutputFiles, Archives,
       NativeArchives, AtGate, PublishedAnswers, PublishedPassedGate, ManifestNeverAlone, PassIsExact

(* A statement of a run whose executable answers is not a mark.            *)
LEMMA StatementIsReal ==
  ASSUME RunInv, step \in AtGate
  PROVE  Statement \notin {Nothing, Torn} /\ Answers(Statement.subject) /\ Statement.omitted = omitted
<1>1. linked \in Program BY AnsweringVersions DEF RunInv, Answers, Program
<1>2. Statement \in ProvenanceStatements BY <1>1 DEF Statement, ProvenanceStatements, RunInv
<1> QED BY <1>1, <1>2, MarksAreNotStatements DEF RunInv, Statement

(* The files a tool, a crash or a failing run may change.                  *)
Published == {"manifest", "provenance"}
Kept(fs) == file' = [f \in OutputFiles |-> file'[f]] /\ \A f \in fs : file'[f] = file[f]

LEMMA DiskKept ==
  ASSUME DiskInv, Kept(Published)
  PROVE  DiskInv'
BY DEF DiskInv, Kept, Published, PublishedAnswers, PublishedPassedGate, ManifestNeverAlone

(* A tool is spawned when none is waited for; opening its file only        *)
(* replaces it.                                                            *)
LEMMA SpawnKeepsTools ==
  ASSUME ToolInv, NEW f \in Outputs, NEW content, Spawn(f, content)
  PROVE  ToolInv'
<1> DEFINE new == Tool(f, content, FALSE, TRUE)
<1>1. new.file = f /\ new.waited BY DEF Tool
<1>2. \A t \in tools : ~t.waited BY DEF ToolInv, Spawn
<1>3. tools' = tools \cup {new} /\ tool' = "running" /\ step' \in Outputs BY DEF Spawn
<1> HIDE DEF new
<1>4. \A t \in tools' : t.file \in Outputs /\ (t.waited => tool' = "running")
  BY <1>1, <1>3 DEF ToolInv
<1>5. \A t, u \in tools' : t.waited /\ u.waited => t = u BY <1>1, <1>2, <1>3
<1> QED BY <1>3, <1>4, <1>5 DEF ToolInv

LEMMA OpenKeepsTools ==
  ASSUME ToolInv, NEW t \in tools, ToolOpens(t)
  PROVE  ToolInv'
<1> DEFINE new == Tool(t.file, t.content, TRUE, t.waited)
<1>1. new.file = t.file /\ new.waited = t.waited BY DEF Tool
<1>2. tools' = (tools \ {t}) \cup {new} /\ tool' = tool /\ step' = step BY DEF ToolOpens
<1> HIDE DEF new
<1>3. \A u \in tools' : u.file \in Outputs /\ (u.waited => tool' = "running")
  BY <1>1, <1>2 DEF ToolInv
<1>4. \A u, v \in tools' : u.waited /\ v.waited => u = v BY <1>1, <1>2 DEF ToolInv
<1> QED BY <1>2, <1>3, <1>4 DEF ToolInv

LEMMA KillKeepsTools ==
  ASSUME ToolInv, Killed
  PROVE  ToolInv'
<1>1. ASSUME NEW u \in tools' PROVE u.file \in Outputs /\ ~u.waited
  <2>1. PICK t \in tools : u = Tool(t.file, t.content, t.open, FALSE) BY DEF Killed
  <2> QED BY <2>1 DEF Tool, ToolInv
<1>2. tool' = "none" BY DEF Killed, Forget
<1> QED BY <1>1, <1>2 DEF ToolInv

(* Each step of the run keeps the invariant.                               *)
LEMMA ProduceKeeps ==
  ASSUME DirectoryInv, Produce, UNCHANGED consumer
  PROVE  DirectoryInv'
<1> USE DEF DirectoryInv
<1> DEFINE Staged == {"stagedProvenance", "stagedManifest"}
<1>p. PassIsExact' BY DEF PassIsExact, consumer
<1>i. ASSUME Forget, ToolInv', Kept(Published) PROVE DirectoryInv'
  <2>1. RunInv' BY <1>i DEF RunInv, Gaps, Steps, AtGate, Forget
  <2> QED BY <2>1, <1>i, <1>p, DiskKept
<1>s. ASSUME UNCHANGED file PROVE Kept(Published)
  BY <1>s DEF Kept, DiskInv, Published, OutputFiles
<1>b. Outputs \cap AtGate = {} /\ "hash" \notin Outputs /\ "preflight" \notin Outputs
  BY DEF Outputs, AtGate, Archives, NativeArchives
<1>r. ASSUME RunEnds, UNCHANGED file, tool # "running" PROVE DirectoryInv'
  <2>1. ToolInv' BY <1>r DEF ToolInv, RunEnds, Forget
  <2> QED BY <1>r, <1>i, <1>s, <2>1 DEF RunEnds
<1>1. ASSUME NEW gap \in Gaps, Start(gap) PROVE DirectoryInv'
  <2>1. RunInv' BY <1>1 DEF Start, RunInv, Gaps, Steps, After, AtGate
  <2>2. ToolInv' BY <1>1 DEF Start, ToolInv, Outputs, Archives, NativeArchives
  <2> QED BY <2>1, <2>2, <1>1, <1>p, <1>s, DiskKept DEF Start
<1>2. ASSUME NEW f \in Outputs, NEW content, Spawn(f, content) PROVE DirectoryInv'
  <2>1. RunInv' BY <1>2 DEF Spawn, RunInv, Statement
  <2>2. ToolInv' BY <1>2, SpawnKeepsTools
  <2> QED BY <2>1, <2>2, <1>2, <1>p, <1>s, DiskKept DEF Spawn
<1>3. ASSUME NEW a \in NativeArchives, CompileNative(a) PROVE DirectoryInv'
  <2>1. a \in Outputs BY DEF Outputs, Archives
  <2> QED BY <1>3, <1>2, <1>r, <2>1 DEF CompileNative
<1>4. CASE CompileNim \/ CompileRust
  BY <1>4, <1>2 DEF CompileNim, CompileRust, Outputs, Archives
<1>5. CASE Link
  BY <1>5, <1>2, <1>r DEF Link, Outputs
<1>6. ASSUME NEW t \in tools, ToolOpens(t) \/ ToolExits(t) PROVE DirectoryInv'
  <2>0. t.file \in OutputFiles \ (Published \cup Staged)
    BY DEF ToolInv, OutputFiles, Published, Outputs, Archives, NativeArchives
  <2>1. Kept(Published \cup Staged)
    BY <1>6, <2>0 DEF ToolOpens, ToolExits, Kept, DiskInv, Published, OutputFiles
  <2>2. RunInv'
    BY <1>6, <2>1 DEF ToolOpens, ToolExits, RunInv, Kept, Statement, Published
  <2>3. CASE ToolOpens(t)
    <3>1. ToolInv' BY <2>3, OpenKeepsTools
    <3> QED BY <3>1, <2>1, <2>2, <1>p, DiskKept DEF Kept
  <2>4. CASE ToolExits(t)
    <3>1. ToolInv' BY <2>4 DEF ToolExits, ToolInv
    <3> QED BY <3>1, <2>1, <2>2, <1>p, DiskKept DEF Kept
  <2> QED BY <1>6, <2>3, <2>4
<1>a. ASSUME Advance, step \notin AtGate, After[step] \notin AtGate, step # "idle",
             UNCHANGED <<file, tools, omitted>>, tool # "running"
      PROVE  DirectoryInv'
  <2>1. After[step] \in Steps BY <1>a DEF RunInv, Steps, After, AtGate
  <2>2. RunInv' BY <1>a, <2>1 DEF Advance, RunInv, AtGate
  <2>3. ToolInv' BY <1>a DEF Advance, ToolInv
  <2> QED BY <2>2, <2>3, <1>a, <1>p, <1>s, DiskKept
<1>7. CASE Verify
  <2>1. step \in Outputs BY <1>7 DEF Verify, ToolInv
  <2>2. After[step] \notin AtGate /\ step \notin AtGate /\ step # "idle"
    BY <2>1 DEF After, AtGate, Outputs, Archives, NativeArchives
  <2> QED BY <1>7, <2>2, <1>a, <1>r DEF Verify
<1>8. CASE HashExecutable
  <2>1. step = "hash" /\ tool = "none" BY <1>8, <1>b DEF HashExecutable, ToolInv
  <2>2. After[step] \notin AtGate BY <2>1 DEF After, AtGate
  <2> QED BY <1>8, <2>1, <2>2, <1>a DEF HashExecutable, AtGate
<1>9. CASE Preflight
  <2>0. step = "preflight" /\ tool = "none" BY <1>9, <1>b DEF Preflight, ToolInv
  <2>1. CASE RunEnds BY <2>1, <2>0, <1>9, <1>r DEF Preflight
  <2>2. CASE ExactBytes /\ Advance /\ UNCHANGED <<tools, linked, omitted, faults>>
    <3>1. step' = "record" BY <2>0, <2>2 DEF Advance, After
    <3>2. RunInv' BY <3>1, <2>2 DEF RunInv, ExactBytes, AtGate, Steps, After
    <3>3. ToolInv' BY <2>0, <2>2 DEF ToolInv, Advance
    <3> QED BY <3>2, <3>3, <1>9, <1>p, <1>s, DiskKept DEF Preflight
  <2> QED BY <1>9, <2>1, <2>2 DEF Preflight
<1>w. ASSUME NEW f \in Staged, NEW content, file' = [file EXCEPT ![f] = content]
      PROVE  Kept(Published) /\ file'[f] = content
  BY <1>w DEF Kept, DiskInv, Published, OutputFiles
<1>10. CASE Record
  <2>0. step = "record" /\ tool = "none" BY <1>10, <1>b DEF Record, ToolInv, AtGate
  <2>1. Kept(Published) /\ (omitted = Nothing => file'["stagedProvenance"] = Statement)
    BY <1>10, <1>w, <1>s DEF Record
  <2>2. CASE RunEnds
    <3>1. ToolInv' BY <2>2, <2>0 DEF ToolInv, RunEnds, Forget
    <3> QED BY <2>1, <2>2, <3>1, <1>i DEF RunEnds
  <2>3. CASE Advance /\ UNCHANGED <<tools, linked, omitted, faults>>
    <3>1. step' = "gate" BY <2>0, <2>3 DEF Advance, After
    <3>2. RunInv' BY <3>1, <2>0, <2>1, <2>3 DEF RunInv, AtGate, Steps, After, Statement
    <3>3. ToolInv' BY <2>0, <2>3 DEF ToolInv, Advance
    <3> QED BY <2>1, <3>2, <3>3, <1>p, DiskKept
  <2> QED BY <1>10, <2>2, <2>3 DEF Record
<1>11. CASE PublicationGate
  <2>0. step = "gate" /\ tool = "none" BY <1>11, <1>b DEF PublicationGate, ToolInv, AtGate
  <2>1. CASE ~GateOpens
    <3>1. Kept(Published) BY <1>11, <2>1 DEF PublicationGate, Kept, Published, DiskInv, OutputFiles
    <3>2. ToolInv' BY <1>11, <2>0, <2>1 DEF PublicationGate, ToolInv, RunEnds, Forget
    <3> QED BY <1>11, <2>1, <3>1, <3>2, <1>i DEF PublicationGate, RunEnds
  <2>2. CASE GateOpens
    <3>1. step' = "publishProvenance" /\ tool' = "none" /\ UNCHANGED <<tools, linked, omitted>>
      BY <1>11, <2>0, <2>2 DEF PublicationGate, Advance, After
    <3>2. file' = [file EXCEPT !["stagedManifest"] = Statement] BY <1>11, <2>2 DEF PublicationGate
    <3>3. Kept(Published) /\ file'["stagedManifest"] = Statement BY <3>2, <1>w
    <3>4. file'["stagedProvenance"] = Statement
      BY <2>0, <2>2, <3>2 DEF RunInv, DiskInv, GateOpens, OutputFiles
    <3>5. RunInv' BY <2>0, <2>2, <3>1, <3>3, <3>4 DEF RunInv, AtGate, Steps, After, Statement, GateOpens
    <3>6. ToolInv' BY <2>0, <3>1 DEF ToolInv
    <3> QED BY <3>3, <3>5, <3>6, <1>p, DiskKept
  <2> QED BY <2>1, <2>2
<1>12. CASE PublishProvenance
  <2>0. step = "publishProvenance" /\ tool = "none" /\ omitted = Nothing
        /\ file["stagedProvenance"] = Statement /\ file["stagedManifest"] = Statement
    BY <1>12, <1>b DEF PublishProvenance, ToolInv, RunInv, AtGate
  <2>1. Statement \notin {Nothing, Torn} /\ Answers(Statement.subject) /\ Statement.omitted = Nothing
    BY <2>0, StatementIsReal DEF AtGate
  <2>2. step' = "publishManifest" /\ tool' = "none" /\ UNCHANGED <<tools, linked, omitted>>
        /\ file' = [file EXCEPT !["provenance"] = Statement, !["stagedProvenance"] = Nothing]
    BY <1>12, <2>0, <2>1 DEF PublishProvenance, Advance, After, Rename
  <2>3. /\ file' = [f \in OutputFiles |-> file'[f]]
        /\ file'["provenance"] = Statement /\ file'["manifest"] = file["manifest"]
        /\ file'["stagedManifest"] = Statement
    BY <2>0, <2>2 DEF DiskInv, OutputFiles
  <2>4. RunInv' BY <2>0, <2>1, <2>2, <2>3 DEF RunInv, AtGate, Steps, After, Statement
  <2>5. ToolInv' BY <2>0, <2>2 DEF ToolInv
  <2>6. DiskInv'
    BY <2>1, <2>3 DEF DiskInv, PublishedAnswers, PublishedPassedGate, ManifestNeverAlone
  <2> QED BY <2>4, <2>5, <2>6, <1>p
<1>13. CASE PublishManifest
  <2>0. step = "publishManifest" /\ tool = "none" /\ omitted = Nothing
        /\ file["stagedManifest"] = Statement /\ file["provenance"] # Nothing
    BY <1>13, <1>b DEF PublishManifest, ToolInv, RunInv, AtGate
  <2>1. Statement \notin {Nothing, Torn} /\ Answers(Statement.subject) /\ Statement.omitted = Nothing
    BY <2>0, StatementIsReal DEF AtGate
  <2>2. file' = [file EXCEPT !["manifest"] = Statement, !["stagedManifest"] = Nothing]
    BY <1>13, <2>0 DEF PublishManifest, Rename
  <2>3. /\ file' = [f \in OutputFiles |-> file'[f]]
        /\ file'["manifest"] = Statement /\ file'["provenance"] = file["provenance"]
    BY <2>2 DEF DiskInv, OutputFiles
  <2>4. RunInv' BY <1>13 DEF PublishManifest, RunEnds, Forget, RunInv, Gaps, Steps, AtGate
  <2>5. ToolInv' BY <1>13, <2>0 DEF PublishManifest, RunEnds, Forget, ToolInv
  <2>6. DiskInv'
    BY <2>0, <2>1, <2>3 DEF DiskInv, PublishedAnswers, PublishedPassedGate, ManifestNeverAlone
  <2> QED BY <2>4, <2>5, <2>6, <1>p
<1>14. CASE Fails
  <2>1. ToolInv' BY <1>14 DEF Fails, Forget, ToolInv
  <2> QED BY <1>14, <2>1, <1>i, <1>s DEF Fails
<1>15. CASE Killed
  <2>1. ToolInv' BY <1>15, KillKeepsTools
  <2>2. Kept(Published) BY <1>15, <1>w, <1>s DEF Killed
  <2> QED BY <1>15, <2>1, <2>2, <1>i DEF Killed
<1> QED
  BY <1>1, <1>3, <1>4, <1>5, <1>6, <1>7, <1>8, <1>9, <1>10, <1>11, <1>12, <1>13, <1>14, <1>15
  DEF Produce, Proceed, Gaps

(* The consumer changes nothing that others rely on; it gives a verdict    *)
(* only after it has compared the bytes it executes.                       *)
LEMMA ConsumeKeeps ==
  ASSUME DirectoryInv, Consume, UNCHANGED <<file, producer>>
  PROVE  DirectoryInv'
<1> USE DEF DirectoryInv
<1>1. RunInv' /\ ToolInv' BY DEF RunInv, ToolInv, producer, Statement
<1>2. DiskInv' BY DEF DiskInv, PublishedAnswers, PublishedPassedGate, ManifestNeverAlone
<1>3. PassIsExact'
  BY DEF Consume, ReadManifest, HashSubject, Inspect, Execute, Ends, SameBytes, PassIsExact
<1> QED BY <1>1, <1>2, <1>3

LEMMA DirectoryKept == DirectoryInv /\ [PublicationNext]_publicationVars => DirectoryInv'
<1> SUFFICES ASSUME DirectoryInv, [PublicationNext]_publicationVars PROVE DirectoryInv'
  OBVIOUS
<1>1. ASSUME UNCHANGED <<file, producer, consumer>> PROVE DirectoryInv'
  BY <1>1 DEF DirectoryInv, RunInv, ToolInv, DiskInv, PublishedAnswers, PublishedPassedGate,
              ManifestNeverAlone, PassIsExact, producer, consumer, Statement
<1> QED BY <1>1, ProduceKeeps, ConsumeKeeps DEF PublicationNext, publicationVars

(* Whatever fails, is killed, left running or edited: a published manifest *)
(* names bytes that ran as expected, both published files come from a run  *)
(* the gate let through, the manifest is never there without a provenance, *)
(* and a consumer's verdict is about the bytes the manifest names.         *)
THEOREM PublicationIsSound ==
  PublicationSpec => [](PublishedAnswers /\ PublishedPassedGate /\ ManifestNeverAlone /\ PassIsExact)
<1>1. DirectoryInv => PublishedAnswers /\ PublishedPassedGate /\ ManifestNeverAlone /\ PassIsExact
  BY DEF DirectoryInv, DiskInv
<1> QED BY DirectoryInit, DirectoryKept, <1>1, PTL DEF PublicationSpec

(* A consumer that comes to a verdict executed the bytes that the manifest *)
(* it read names, whatever was edited, killed or published in between.     *)
THEOREM PassIsExactHolds == PublicationSpec => []PassIsExact
BY PublicationIsSound, PTL
=============================================================================
