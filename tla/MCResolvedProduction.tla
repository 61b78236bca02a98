------------------------ MODULE MCResolvedProduction ------------------------
(***************************************************************************)
(* A Rust application with a C library in up to two versions, a Nim        *)
(* package, a C++ helper that the library may need in turn, and packages   *)
(* the demand does not reach.                                              *)
(***************************************************************************)
EXTENDS ResolvedProduction

Requires(source, symbol, provider) == FfiRequirement(source, symbol, "i32", "1", provider)
Candidate(package, version, ecosystem, role, triple, source, exports) ==
  PackageCandidate(package, version, ecosystem, role, triple, {source}, exports)

App    == Candidate("app", "1", "Cargo", "Target", "here", "main", {})
Nim    == Candidate("nim", "1", "Nimble", "Target", "here", "nim", {FfiExport("n", "cint", "1")})
Helper == Candidate("helper", "1", "Cpp", "Target", "here", "helper", {FfiExport("h", "int", "1")})
Spare(version) == Candidate("spare", version, "Nimble", "Target", "here", "spare", {})
Far    == Candidate("far", "1", "C", "Target", "here", "far", {FfiExport("f", "int", "1")})

(* What a version of the library may declare, and where it may run.        *)
Exports == {{}, {FfiExport("a", "int", "1")}, {FfiExport("a", "double", "1")}, {FfiExport("a", "int", "2")},
            {FfiExport("b", "int", "1")}, {FfiExport("a", "int", "1"), FfiExport("b", "cint", "1")}}
Libs(version) ==
  {Candidate("lib", version, "C", rt[1], rt[2], "lib" \o version, e) :
     rt \in {<<"Target", "here">>, <<"Target", "there">>, <<"Host", "here">>}, e \in Exports}

Offers == {<<>>} \cup {<<c>> : c \in Libs("1")} \cup {<<c, d>> : c \in Libs("1"), d \in Libs("2")}

Lib(version, symbols) ==
  Candidate("lib", version, "C", "Target", "here", "lib" \o version, {FfiExport(s, "int", "1") : s \in symbols})

(* One version; two that share out the symbols; a version twice.           *)
SomeOffers == {<<Lib("1", {"a", "b"})>>, <<Lib("1", {"a"}), Lib("2", {"b"})>>,
               <<Lib("1", {"a"}), Lib("2", {"a", "b"})>>,
               <<Lib("1", {"a"}), [Lib("1", {"a"}) EXCEPT !.role = "Host"]>>}

A == Requires("main", "a", "lib")
B == Requires("main", "b", "lib")
SomeRequirements ==
  {<<A>>, <<A, Requires("main", "n", "nim")>>, <<A, B>>,
   <<Requires("lib1", "h", "helper"), A>>,
   <<A, Requires("far", "f", "far")>>, <<A, Requires("nowhere", "f", "far")>>,
   <<Requires("spare", "b", "lib"), A>>, <<A, Requires("spare", "a", "lib")>>}

Declared ==
  <<ArtifactOutput("app.o", "app", "RustObject", {}), ArtifactOutput("nim.a", "nim", "NimStaticLibrary", {}),
    ArtifactOutput("lib.o", "lib", "CObject", {}), ArtifactOutput("lib.a", "lib", "CStaticArchive", {}),
    ArtifactOutput("helper.o", "helper", "CppAdapterObject", {}), ArtifactOutput("helper.a", "helper", "CppStaticArchive", {}),
    ArtifactOutput("exe", "app", "NativeExecutable", {})>>
Objects == <<ArtifactOutput("lib1.o", "lib", "CObject", {"lib1"}), ArtifactOutput("lib2.o", "lib", "CObject", {"lib2"})>>
SomeOutputs ==
  {Declared, SelectSeq(Declared, LAMBDA o : o.kind # "NativeExecutable"),
   SelectSeq(Declared, LAMBDA o : o.kind # "CStaticArchive"),
   Objects \o SelectSeq(Declared, LAMBDA o : o.kind # "CObject")}

SourceFacts ==
  {SourceModule("main", "app"), SourceModule("nim", "nim"), SourceModule("lib1", "lib"),
   SourceModule("lib2", "lib"), SourceModule("helper", "helper"), SourceModule("spare", "spare"),
   SourceModule("far", "far")}

(* C and C++ candidates for a requirement that names them only; those of   *)
(* the workspaces come in any case.                                        *)
Ingested(requirements, candidates) ==
  SelectSeq(candidates, LAMBDA c : c.ecosystem = "Nimble" \/
                                   \E r \in Elements(requirements) : r.provider = c.package)

FactsOf(offer, requirements, outputs, others, ours) ==
  DependencyResolutionInput(
    "app", "here", SourceFacts, <<App>> \o Ingested(requirements, offer \o others), requirements,
    [p \in ours |-> IF p = "app" THEN "main" ELSE p], [s \in {"a"} |-> "here"], outputs)

Ours  == {"app", "nim", "spare"}
Whole == <<Nim, Helper, Far>>

MCInputs ==
  {FactsOf(o, r, Declared, Whole, Ours) : o \in Offers, r \in {<<A>>, <<A, B>>, <<A, [A EXCEPT !.type = "f64"], A>>}}
  \cup
  {FactsOf(o, r, d, x, ours) :
     o \in SomeOffers, r \in SomeRequirements, d \in SomeOutputs,
     x \in {Whole, Append(Whole, Spare("1")), <<Spare("1"), Spare("2")>> \o Whole}, ours \in {Ours, {"app"}}}

-----------------------------------------------------------------------------
(* Workspaces: the fixture of the repository, and what can be different in *)
(* each of its files.                                                      *)

Ident(name)      == [op |-> "ident", name |-> name]
Feature(name)    == [op |-> "feature", name |-> name]
All2(p, q)       == [op |-> "all", of |-> {p, q}]
Not(p)           == [op |-> "not", of |-> {p}]
Function(name, params) == [name |-> name, params |-> params, type |-> "i32"]
Block(link, cfgs, f)   == [abi |-> "C", link |-> link, cfgs |-> cfgs, functions |-> <<f>>]

OnUnix  == <<Ident("unix")>>
Add     == Block("cadd", OnUnix, Function("c_add", 2))
Greatest == Block("cppmax", OnUnix, Function("cpp_max_i32", 2))
Doubles(cfgs) == Block("doubler", cfgs, Function("nim_double", 1))
Double  == Doubles(<<All2(Ident("unix"), Feature("use"))>>)

Mains ==
  {<<Add, Greatest, Double>>, <<Add, Greatest, Doubles(<<Ident("unix"), Feature("use")>>)>>,
   <<Add, Greatest, Doubles(<<Not(Feature("use"))>>)>>, <<Add, Double>>,
   <<Add, Greatest, Doubles(<<[op |-> "unparseable"]>>)>>, <<Add, [Greatest EXCEPT !.link = None], Double>>,
   <<[Add EXCEPT !.abi = "system"], Greatest>>}

Package(manifest, features) ==
  [manifest |-> manifest, name |-> manifest, version |-> "0.1.0", features |-> features]
Direct == [default |-> {"use"}, use |-> {}]
Packages ==
  {<<Package("app", Direct)>>, <<Package("app", [default |-> {"full"}, full |-> {"use"}, use |-> {}])>>,
   <<Package("tool", Direct), Package("app", [use |-> {}])>>, <<Package("tool", Direct)>>}

Proc(exportc, params, closed) ==
  [name |-> "nim_double", exportc |-> exportc, params |-> params, type |-> "cint", closed |-> closed]
Procs == {<<Proc("nim_double", 1, TRUE)>>, <<Proc("", 1, TRUE)>>, <<Proc(None, 1, TRUE)>>,
          <<Proc("nim_double", 1, FALSE)>>}

Prototype(name) == [name |-> name, params |-> 2, type |-> "int"]
SomeHeaders(second) ==
  [cadd1 |-> <<Prototype("c_add")>>, cadd2 |-> <<Prototype(second)>>, cppmax |-> <<Prototype("cpp_max_i32")>>]

Requirement(name, op, version) == [name |-> name, op |-> op, version |-> version]
Statement(key, value, list) == [key |-> key, value |-> value, list |-> list]
Manifest(requirements) ==
  <<[name |-> "doubler", statements |->
       <<Statement("version", "0.1.0", <<>>), Statement("requires", None, requirements)>>]>>
Nimbles ==
  {Manifest(<<Requirement("nim", op, v)>>) :
     op \in {"<", "<=", "==", ">=", ">"}, v \in {<<2>>, <<2, 2>>, <<2, 2, 0>>, <<2, 10>>}}
  \cup {Manifest(<<>>), Manifest(<<Requirement("nim", None, None), Requirement("lib", ">=", <<1>>)>>),
        Manifest(<<Requirement("nim", ">=", <<>>)>>),
        Manifest(<<>>) \o Manifest(<<>>), <<[name |-> "doubler", statements |-> None]>>,
        <<[name |-> "doubler", statements |-> <<Statement("task", None, <<>>)>>]>>,
        <<[name |-> "doubler", statements |-> <<Statement("requires", None, <<Requirement("nim", None, None)>>)>>]>>}
Locked(names, version) == [n \in names |-> version]
Locks == {None, Locked({"nim"}, <<2, 2>>), Locked({"lib"}, <<1>>), Locked({"nim"}, <<>>),
          [n \in {"nim", "lib"} |-> IF n = "nim" THEN <<2, 2>> ELSE <<0, 9>>]}

Fixture ==
  [unix |-> TRUE, triple |-> "here", packages |-> <<Package("app", Direct)>>,
   nimble |-> Manifest(<<Requirement("nim", ">=", <<2, 0, 0>>)>>), lock |-> Locked({"nim"}, <<2, 2, 10>>),
   main |-> <<Add, Greatest, Double>>, nim |-> <<Proc("nim_double", 1, TRUE)>>,
   headers |-> SomeHeaders("c_add_v2"), readable |-> {"cadd1", "cadd2", "cppmax"}, wanted |-> <<"1.0.0">>]

MCWorkspaces ==
  {[Fixture EXCEPT !.unix = u, !.packages = p, !.main = m, !.nim = n, !.wanted = w] :
     u \in BOOLEAN, p \in Packages, m \in Mains, n \in Procs, w \in {<<"1.0.0">>, <<"1.0.0", "2.0.0">>}}
  \cup {[Fixture EXCEPT !.headers = SomeHeaders(s), !.wanted = w] :
          s \in {"c_add", "c_add_v2"}, w \in {<<>>, <<"2.0.0">>, <<"1.0.0", "2.0.0">>, <<"3.0.0">>}}
  \cup {[Fixture EXCEPT !.nimble = n, !.lock = l] : n \in Nimbles, l \in Locks}
  \cup {[Fixture EXCEPT !.readable = @ \ {f}] : f \in {"cadd1", "cppmax"}}
  \cup {[Fixture EXCEPT !.headers = [f \in DOMAIN @ \ {g} |-> @[f]]] : g \in {"cadd1", "cppmax"}}
  \cup {[Fixture EXCEPT !.triple = None], [Fixture EXCEPT !.packages = None], [Fixture EXCEPT !.main = None],
        [Fixture EXCEPT !.nim = None], [Fixture EXCEPT !.packages = <<Package("app", None)>>]}

-----------------------------------------------------------------------------
(* Graphs for callers other than the driver, of the shape resolve returns  *)
(* cut down to five obligations and two actions: a demand over a link,     *)
(* with its product, and either a runtime requirement or a foreign symbol; *)
(* and one obligation the demand does not reach.                           *)

MCObligations == {"demand", "fact", "link", "product", "spare"}
MCActions     == {"linker", "other"}

Recordable(factKind, factAction, chain, otherKind, otherDischarges, otherNeeds, linkNeeds) ==
  [kind |-> [demand |-> "NativeExecutableDemand", fact |-> factKind, link |-> "FinalLink",
             product |-> "ArtifactProduction", spare |-> "PackageSelection"],
   depends |-> chain,
   status |-> [o \in MCObligations |-> IF o = "spare" THEN "Selected" ELSE "Satisfied"],
   required |-> [demand |-> {}, fact |-> factAction, link |-> {"linker"},
                 product |-> {"linker"}, spare |-> {}],
   actionKind |-> [linker |-> "LinkNativeExecutable", other |-> otherKind],
   discharges |-> [linker |-> <<"link", "product">>, other |-> otherDischarges],
   needs |-> [linker |-> linkNeeds, other |-> otherNeeds]]

ThroughProduct == [demand |-> {"fact"}, fact |-> {"product"}, product |-> {"link"}, link |-> {}, spare |-> {}]
PastProduct == [ThroughProduct EXCEPT !["fact"] = {"link"}]

(* A runtime requirement checked after the link; the demand reaches the    *)
(* product, or only the link.                                              *)
Preflight(chain) ==
  Recordable("Runtime", {"other"}, chain, "PreflightRuntimeContract", <<"fact">>, {"linker"}, {})

(* A symbol the resolver owns, and a compilation that discharges nothing;  *)
(* the demand does not reach the product, which may be proved irrelevant   *)
(* before the link that discharges it is recorded.                         *)
Symbols ==
  Recordable("Symbol", {}, PastProduct, "CompileCObject", <<>>, {}, {"other"})

MCClosures == {Preflight(ThroughProduct), Preflight(PastProduct), Symbols}

MCLists == {<<"demand">>, <<"link">>, <<"product">>, <<"fact", "demand">>,
            <<"link", "product", "fact", "demand">>, <<"demand", "fact", "product", "link", "spare">>}
=============================================================================
