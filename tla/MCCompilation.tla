--------------------------- MODULE MCCompilation ---------------------------
EXTENDS Compilation, RustDemand, InstantiationWorklist, EntrySpecialization

-----------------------------------------------------------------------------
(* Rust workspaces and worklists. *)

MCByName  == <<"app", "core-lib", "core_lib", "mid">>
MCCrateOf == [p \in Range(MCByName) |->
                CASE p \in {"core-lib", "core_lib"} -> "core_lib" [] OTHER -> p]
MCBits    == [i32 |-> 2, i64 |-> 3]
MCSlices  == [s \in DOMAIN MCBits |->
                LET half == 2 ^ (MCBits[s] - 1) IN UNION {[1 .. n -> -half .. half - 1] : n \in 0 .. 2}]

NoArg == [form |-> "other"]
LocalArg(name)  == [form |-> "local", name |-> name]
IntsArg(a)      == [form |-> "ints", suffixes |-> a]
CastArg(type)   == [form |-> "cast", type |-> type]
UseOf(path, as) == [site |-> "use", path |-> path, as |-> as, top |-> TRUE, test |-> FALSE]
LetOf(name, type, test) == [site |-> "let", name |-> name, type |-> type, test |-> test]
CallOf(path, explicit, arg, macro, test) ==
  [site |-> "call", path |-> path, explicit |-> explicit, arg |-> arg, macro |-> macro, test |-> test]
MacroOf(name, parses) == [site |-> "macro", name |-> name, parses |-> parses, test |-> FALSE]
Main(test) == [site |-> "fn", name |-> IF test THEN "checks" ELSE "main", generics |-> <<>>, params |-> <<>>,
               plain |-> TRUE, param |-> "none", returns |-> "none", bounds |-> <<>>, body |-> <<>>, test |-> test]

Summing(left, right) ==
  [over |-> "items", init |-> "default", op |-> "add", left |-> left, right |-> right]
SumFn == [Main(FALSE) EXCEPT !.name = "sum", !.generics = <<"type">>, !.param = "slice", !.returns = "T",
                             !.bounds = <<"Copy", "Add", "Default">>, !.body = Summing("acc", "element")]

CoreFiles ==
  {<<f>> : f \in {SumFn,
                  [SumFn EXCEPT !.body = Summing("acc", "acc")],
                  [SumFn EXCEPT !.body = Summing("element", "acc")],
                  [SumFn EXCEPT !.bounds = <<"Copy", "Add", "Add">>],
                  [SumFn EXCEPT !.generics = <<"lifetime", "type">>]}}
  \cup {<<SumFn, [SumFn EXCEPT !.test = TRUE, !.body = Summing("acc", "acc")]>>}

Vec64 == <<"Vec", "i64">>
Vec32 == <<"Vec", "i32">>
Importing == <<UseOf(<<"core_lib", "sum">>, None)>>
Total     == <<UseOf(<<"core_lib", "sum">>, "total")>>
CallTo(path, arg) == CallOf(path, <<>>, arg, FALSE, FALSE)
SumOf(arg) == CallTo(<<"sum">>, arg)

AppFiles ==
  {Importing \o <<Main(FALSE)>> \o rest : rest \in
     {<<>>,
      <<LetOf("xs", Vec64, FALSE), SumOf(LocalArg("xs"))>>,
      <<LetOf("xs", Vec64, FALSE), SumOf(LocalArg("xs")), LetOf("xs", Vec32, FALSE), SumOf(LocalArg("xs"))>>,
      <<LetOf("xs", None, FALSE), SumOf(LocalArg("xs"))>>,
      <<SumOf(IntsArg(<<None, None>>)), SumOf(IntsArg(<<"i64">>))>>,
      <<SumOf(IntsArg(<<"i64", None>>))>>,
      <<SumOf(IntsArg(<<"i64">>)), SumOf(CastArg(<<"[]", "i32">>))>>,
      <<CallOf(<<"sum">>, <<<<"i64">>>>, LocalArg("xs"), FALSE, FALSE)>>,
      <<LetOf("xs", Vec64, FALSE), MacroOf("println", TRUE), CallOf(<<"sum">>, <<>>, LocalArg("xs"), TRUE, FALSE)>>,
      <<MacroOf("other", TRUE)>>,
      <<LetOf("xs", Vec64, FALSE), SumOf(LocalArg("xs")), Main(TRUE), LetOf("ys", Vec32, TRUE),
        CallOf(<<"sum">>, <<>>, LocalArg("ys"), FALSE, TRUE)>>,
      <<LetOf("xs", Vec64, FALSE), SumOf(LocalArg("xs")), [Main(FALSE) EXCEPT !.name = "more"],
        LetOf("xs", Vec32, FALSE), SumOf(LocalArg("xs"))>>}}
  \cup {Total \o <<Main(FALSE), LetOf("xs", Vec32, FALSE), CallTo(<<"total">>, LocalArg("xs"))>>,
        <<Main(FALSE), LetOf("xs", Vec32, FALSE), CallTo(<<"core_lib", "sum">>, LocalArg("xs"))>>,
        <<UseOf(<<"mid", "go">>, None), Main(FALSE), CallTo(<<"go">>, NoArg)>>,
        <<SumFn, Main(FALSE), SumOf(IntsArg(<<None>>))>>}

Dep(section, name) == [section |-> section, name |-> name]
Deps(names) == {Dep("dependencies", n) : n \in names}
MidFile == <<UseOf(<<"core_lib", "sum">>, None), [Main(FALSE) EXCEPT !.name = "go"]>>

All  == Range(MCByName)
Used == {"app", "mid", "core-lib"}

Workspace(app, core, wanted, lock, home) ==
  [entry |-> "app", lock |-> lock,
   manifests |-> [p \in All |-> CASE p = "app" -> wanted [] p = "mid" -> Deps({home}) [] OTHER -> {}],
   files |-> [p \in {"app", "mid", home} |->
                CASE p = "app" -> app [] p = "mid" -> MidFile [] OTHER -> core]]

(* What is measured does not depend on what is called, only on the crates  *)
(* that are named, declared and locked.                                    *)
MCFixtures ==
  {Workspace(app, <<SumFn>>, wanted, lock, "core-lib") :
     app \in {Importing \o <<Main(FALSE), SumOf(IntsArg(<<None>>))>>,
              <<UseOf(<<"mid", "go">>, None), Main(FALSE), CallTo(<<"go">>, NoArg)>>},
     wanted \in {Deps({"core-lib"}), Deps({"mid"}), Deps(All \ {"app"}), {Dep("dev-dependencies", "core-lib")}},
     lock \in {Used, All, {"core-lib", "mid"}}}

MCRustWorkspaces ==
  {Workspace(app, core, Deps({"core-lib", "mid"}), Used, "core-lib") : app \in AppFiles, core \in CoreFiles}
  \cup MCFixtures

(* The requested instances and the definitions of the worklist: every      *)
(* graph of three instances, with and without holes, and some of four.     *)
MCKeys == {"a", "b", "c", "d"}
Definitions(calls) == [k \in DOMAIN calls |-> [fingerprint |-> 1, dependencies |-> calls[k]]]
Three == MCKeys \ {"d"}
MCWorklistInputs ==
  [roots : {{}, {<<"a", "code">>}, {<<"a", "code">>, <<"a", "test">>, <<"b", "test">>}},
   definitions : {Definitions(g) : g \in UNION {[S -> SUBSET Three] : S \in SUBSET Three}}]
  \cup [roots : {{<<"a", "code">>}, {<<"a", "code">>, <<"c", "test">>}},
        definitions : {Definitions([k \in MCKeys |-> CASE k = "a" -> {"b", "c"} [] k = "b" -> b
                                                       [] k = "c" -> c [] k = "d" -> d]) :
                         b, c \in SUBSET {"b", "d"}, d \in SUBSET {"a", "c"}}]
-----------------------------------------------------------------------------
(* The program of fixtures/rust-heavy-workspace, and programs that differ  *)
(* from it in one part, or in two parts that meet.                         *)

FieldOf(of, name) == [op |-> "field", of |-> of, name |-> name, args |-> <<>>]
Tree(op, args)    == [op |-> op, args |-> args]
Gap(name, other)  == Tree("-", <<FieldOf("self", name), FieldOf(other, name)>>)

PrimeBody == [form |-> "trial division", below |-> "<", min |-> 2, divisor |-> "i", start |-> 2,
              while |-> "<=", when |-> "==", remainder |-> 0, step |-> 1]
RangeBody == [form |-> "filter", range |-> "..=", start |-> 2, keep |-> "is_prime"]
Prime(body) == [name |-> "is_prime", plain |-> TRUE, param |-> "n", takes |-> "u64", returns |-> "bool", body |-> body]
Ranged(body) == [name |-> "primes_up_to", plain |-> TRUE, param |-> "limit", takes |-> "u64",
                 returns |-> "Vec<u64>", body |-> body]

PrimeBodies ==
  {PrimeBody} \cup {[PrimeBody EXCEPT !.min = n] : n \in {0, 3, 9}} \cup {[PrimeBody EXCEPT !.start = n] : n \in {0, 1, 3}}
  \cup {[PrimeBody EXCEPT !.step = n] : n \in {0, 2, 9}} \cup {[PrimeBody EXCEPT !.remainder = 1]}
  \cup {[PrimeBody EXCEPT !.below = "<="], [PrimeBody EXCEPT !.while = "<"],
        [PrimeBody EXCEPT !.when = "!="], [PrimeBody EXCEPT !.divisor = "n"]}
RangeBodies ==
  {[RangeBody EXCEPT !.start = n] : n \in {0, 2, 5}}
  \cup {[RangeBody EXCEPT !.range = ".."], [RangeBody EXCEPT !.keep = "is_odd"]}

NewPoint == [plain |-> TRUE, params |-> <<"x", "y">>, inits |-> <<<<"x", "x">>, <<"y", "y">>>>]
PointOf(fields, new, distance) ==
  [struct |-> [name |-> "Point", plain |-> TRUE, types |-> <<"i64", "i64">>, fields |-> fields],
   impl   |-> [name |-> "Point", plain |-> TRUE, new |-> new, distance |-> distance]]
Distances ==
  {[plain |-> TRUE, with |-> "other", body |-> b] :
     b \in {Tree("+", <<Tree("abs", <<Gap("x", "other")>>), Tree("abs", <<Gap("y", "other")>>)>>),
            Tree("-", <<FieldOf("other", "y"), FieldOf("self", "x")>>),
            Tree("abs", <<Tree("+", <<Gap("x", "other"), FieldOf("self", "y")>>)>>)}}
  \cup {[plain |-> TRUE, with |-> "to", body |-> Gap("x", "to")]}
Points ==
  {PointOf(<<"x", "y">>, NewPoint, d) : d \in Distances}
  \cup {PointOf(fields, new, [plain |-> TRUE, with |-> "other", body |-> Gap("x", "other")]) :
          fields \in {<<"x", "y">>, <<"y", "x">>},
          new \in {NewPoint,
                   [NewPoint EXCEPT !.params = <<"y", "x">>],
                   [NewPoint EXCEPT !.inits = <<<<"y", "x">>, <<"x", "y">>>>],
                   [NewPoint EXCEPT !.inits = <<<<"y", "y">>, <<"x", "y">>>>]}}
  \cup {PointOf(<<"u", "v">>, [NewPoint EXCEPT !.inits = <<<<"u", "x">>, <<"v", "y">>>>],
                [plain |-> TRUE, with |-> "other", body |-> Gap("u", "other")])}

Sum64 == [site |-> "fn", name |-> "sum_generic", generics |-> <<"type">>, params |-> <<>>, plain |-> TRUE,
          param |-> "slice", returns |-> "T", bounds |-> <<"Copy", "Add", "Default">>, test |-> FALSE,
          body |-> [over |-> "items", init |-> "default", op |-> "add", left |-> "acc", right |-> "element"]]

Core(prime, ranged, point) ==
  [plain |-> TRUE, foreign |-> {}, functions |-> <<Prime(prime), Ranged(ranged), [Prime([PrimeBody EXCEPT !.remainder = 1]) EXCEPT !.name = "is_odd"]>>,
   structs |-> <<point.struct>>, impls |-> <<point.impl>>, generics |-> <<Sum64>>]

ThePoint == PointOf(<<"x", "y">>, NewPoint, CHOOSE d \in Distances : d.body.op = "+")
Cores ==
  {Core(prime, RangeBody, ThePoint) : prime \in PrimeBodies}
  \cup {Core(PrimeBody, ranged, ThePoint) : ranged \in RangeBodies}
  \cup {[Core(PrimeBody, RangeBody, ThePoint) EXCEPT !.foreign = {"Vec"}]}
PointCores == {Core(PrimeBody, RangeBody, point) : point \in Points}

Grid == [plain |-> TRUE, calls |-> "primes_up_to", param |-> "limit", limit |-> "limit", primes |-> "primes",
         points |-> "points", over |-> <<"primes", "primes">>, skip |-> 1,
         pair |-> <<"a", "b">>, new |-> <<"a", "b">>, result |-> "points"]
Perimeter == [plain |-> TRUE, window |-> 2, first |-> 0, second |-> 1]
Mean == [plain |-> TRUE, guarded |-> TRUE, sums |-> <<"sx", "sy">>, zeros |-> <<0, 0>>,
         accumulators |-> <<"sx", "sy">>, added |-> <<"sx", "sy">>, fields |-> <<"x", "y">>,
         count |-> "n", new |-> <<<<"sx", "n">>, <<"sy", "n">>>>]
Grids ==
  {[Grid EXCEPT !.skip = k] : k \in 0 .. 3}
  \cup {[Grid EXCEPT !.new = <<"b", "a">>], [Grid EXCEPT !.new = <<"a", "a">>],
        [Grid EXCEPT !.points = "primes", !.result = "primes"]}
Perimeters == {[Perimeter EXCEPT !.window = w, !.first = i, !.second = j] : w \in 0 .. 3, i, j \in 0 .. 2}
Means ==
  {[Mean EXCEPT !.zeros = z] : z \in {<<0, 0>>, <<3, 3>>, <<0, 3>>}}
  \cup {[Mean EXCEPT !.fields = f] : f \in {<<"y", "x">>, <<"y", "y">>}}
  \cup {[Mean EXCEPT !.guarded = FALSE], [Mean EXCEPT !.added = <<"sy", "sx">>],
        [Mean EXCEPT !.accumulators = <<"sy", "sx">>, !.added = <<"sy", "sx">>],
        [Mean EXCEPT !.new = <<<<"sy", "n">>, <<"sx", "n">>>>],
        [Mean EXCEPT !.new = <<<<"sx", "sy">>, <<"sy", "n">>>>],
        [Mean EXCEPT !.count = "sx", !.new = <<<<"sx", "sx">>, <<"sy", "sx">>>>]}

Middle(grid, perimeter, mean) ==
  [plain |-> TRUE, imports |-> <<<<"primes_up_to", "Point">>>>,
   structs |-> <<[name |-> "Cluster", fields |-> <<"points">>, types |-> <<"Vec<Point>">>]>>,
   grid |-> grid, perimeter |-> perimeter, centroid |-> mean]

Bin(lets, prints) ==
  [plain |-> TRUE, items |-> <<"sum_generic", "Cluster", "main">>, lets |-> lets, prints |-> prints]
Limits == {1, 3, 7, 13, 17, 31}
Bins ==
  {Bin(Pipeline(limit), Printed) : limit \in Limits}
  \cup {Bin([Pipeline(7) EXCEPT ![4].op = "y of each"], Printed), Bin(Pipeline(7), Reverse(Printed))}

Sources3(cores, middles, bins) ==
  {[core |-> c, middle |-> m, binary |-> b] : c \in cores, m \in middles, b \in bins}
TheCore   == Core(PrimeBody, RangeBody, ThePoint)
TheMiddle == Middle(Grid, Perimeter, Mean)

MCPrograms ==
  Sources3(Cores, {TheMiddle}, Bins)
  \cup Sources3(PointCores, {Middle(Grid, Perimeter, mean) : mean \in Means}, Bins)
  \cup Sources3({TheCore}, {Middle(grid, p, Mean) : grid \in Grids, p \in Perimeters}, Bins)

MCEdits ==
  {[core |-> c, middle |-> TheMiddle, binary |-> Bin(Pipeline(7), Printed)] :
     c \in {TheCore, [TheCore EXCEPT !.generics[1].body.right = "acc"],
            [TheCore EXCEPT !.functions[1].body.min = 3]}}
-----------------------------------------------------------------------------
(* Sources in both languages. *)

N(name)      == [op |-> "name", name |-> name, args |-> <<>>]
C(fn, args)  == [op |-> "call", fn |-> fn, args |-> args]
Num(v)       == [op |-> "int", value |-> v, args |-> <<>>]
Minus(a, b)  == [op |-> "sub", args |-> <<a, b>>]
Times(a, b)  == [op |-> "mul", args |-> <<a, b>>]
Mark(e)      == C("mark", <<e>>)
Block(names, values, tail) == [op |-> "block", names |-> names, args |-> Append(values, tail)]
Just(e)      == Block(<<>>, <<>>, e)
When(cmp, l, r, yes, no) == [op |-> "if", cmp |-> cmp, args |-> <<l, r, yes, no>>]
Fn(name, params, body) == [kind |-> "fn", name |-> name, params |-> params, body |-> body]
X == N("x")   Y == N("y")

MarkFn == Fn("mark", <<"v">>, Just(N("v")))

(* Callees with a parameter used once, twice, never, in either order, and  *)
(* with a call of their own before, between and after.                     *)
Callees == {Minus(X, Y), Minus(Y, X), Minus(X, X), Y, Minus(Mark(Num(1)), Y), Minus(X, Mark(Y))}
Inner   == {X, Mark(X), C("h", <<Mark(X), Num(-8)>>)}
Outer   == {Just(Minus(C("g", <<Mark(Num(2))>>), C("g", <<X>>))),
            Block(<<"y", "x">>, <<C("g", <<X>>), Mark(Y)>>,
                  When("ne", X, Num(0), Just(C("h", <<Y, C("g", <<X>>)>>)), Just(Times(X, Y))))}

Inlined ==
  {[language |-> "rust", request |-> {"mark", "h", "g", "f"},
    file |-> <<MarkFn, Fn("h", <<"x", "y">>, Just(h)), Fn("g", <<"x">>, Just(C("h", <<a, b>>))),
               Fn("f", <<"x">>, f)>>] : h \in Callees, a, b \in Inner, f \in Outer}

(* Names that hide each other, in blocks side by side and inside.          *)
Hiding ==
  {Block(<<"x">>, <<Minus(X, Num(1))>>,
     When(cmp, l, r, Block(<<"x", "x">>, <<Mark(X), Minus(X, Num(3))>>, X), no)) :
     cmp \in {"ne", "eq", "lt"}, l, r \in {X, Num(0)},
     no \in {Just(X), Just(Y), Block(<<"y">>, <<X>>, Minus(X, Y))}}
  \cup {Block(<<"mark">>, <<X>>, Mark(X)), Just(C("mark", <<X, X>>)), Just(Num(8)), Just(C("other", <<X>>))}

Files(body) ==
  LET f == Fn("f", <<"x", "z">>, body) IN
  {<<MarkFn, f>>, <<f, MarkFn, [Fn("t", <<>>, Just(X)) EXCEPT !.kind = "macro"]>>,
   <<MarkFn, f, f>>, <<MarkFn, f, Fn("other", <<"x">>, Just(C("other", <<X>>)))>>,
   <<MarkFn, [f EXCEPT !.kind = "odd"]>>, <<MarkFn, [f EXCEPT !.kind = "macro"]>>}

Scoped ==
  {[language |-> language, request |-> {"mark", "f"}, file |-> file] :
     language \in {"rust", "nim"}, file \in UNION {Files(b) : b \in Hiding}}

MCSources == Inlined \cup Scoped
MCValues  == {-3, 0, 5}

(* A run compiles a source, plans a workspace, follows a worklist or       *)
(* computes a program; the others are idle.                                *)
NoSource ==
  /\ source = CHOOSE s \in Sources : TRUE
  /\ lowered = <<>> /\ program = <<>> /\ stage = "idle" /\ passes = 0
NoWorkspace ==
  /\ crates = <<>> /\ phase = "idle" /\ known = {} /\ requested = {} /\ eager = {} /\ mode = None
  /\ plan = [selected |-> {}, pruned |-> {}] /\ folds = <<>> /\ objects = <<>>
  /\ targets = <<>> /\ builds = [eager |-> <<>>, feedback |-> <<>>]
NoWorklist ==
  /\ asked = [roots |-> {}, definitions |-> <<>>]
  /\ queue = <<>> /\ mentioned = {} /\ visited = {} /\ items = <<>> /\ verdict = "idle"

NoProgram ==
  /\ snapshot = [core |-> <<>>, middle |-> <<>>, binary |-> <<>>]
  /\ generic = {} /\ outcome = "idle" /\ results = <<>> /\ executable = <<>>

CompilerInit ==
  \/ Init /\ NoWorkspace /\ NoWorklist /\ NoProgram
  \/ NoSource /\ DemandInit /\ NoWorklist /\ NoProgram
  \/ NoSource /\ NoWorkspace /\ WorklistInit /\ NoProgram
  \/ NoSource /\ NoWorkspace /\ NoWorklist /\ EntryInit
CompilerNext ==
  \/ Next /\ UNCHANGED <<demandVars, worklistVars, entryVars>>
  \/ phase # "idle" /\ DemandNext /\ UNCHANGED <<vars, worklistVars, entryVars>>
  \/ WorklistNext /\ UNCHANGED <<vars, demandVars, entryVars>>
  \/ outcome # "idle" /\ EntryNext /\ UNCHANGED <<vars, demandVars, worklistVars>>
CompilerSpec == CompilerInit /\ [][CompilerNext]_<<vars, demandVars, worklistVars, entryVars>>
=============================================================================
