-------------------------- MODULE FixtureSemantics --------------------------
(***************************************************************************)
(* The recognisers of the whole program that is compiled from Rust source, *)
(* and the evaluation of what they lower it to (crates/laminaria-ir:       *)
(* rust_prime_semantics.rs, rust_point_semantics.rs,                       *)
(* rust_cluster_semantics.rs, rust_fixture_main_semantics.rs).  A source   *)
(* file is a record of its items; a lowering is the set with the IR, empty *)
(* when it refuses; a value v is <<v>>, and <<>> for an error.             *)
(***************************************************************************)
EXTENDS Integers, Sequences, SequencesExt

CONSTANT WordBits   \* of u64 and of i64; 64 in the code

Top      == 2 ^ WordBits
Unsigned == 0 .. Top - 1
Signed(n) == ((n + Top \div 2) % Top) - Top \div 2   \* `as i64`, wrapping_*

(* n, as checked_add and its like give it, or wrapping_add and its like.   *)
Exact(n, overflow) == IF overflow = "checked" /\ n # Signed(n) THEN <<>> ELSE <<Signed(n)>>

Quotient(n, d) == IF n < 0 THEN -((-n) \div d) ELSE n \div d   \* of d > 0

Named(items, name) == SelectSeq(items, LAMBDA item : item.name = name)

-----------------------------------------------------------------------------
(* find_function, argument_name: one function of that name, without        *)
(* qualifiers, generics or attributes, from one plain argument.            *)
Signature(core, name, takes, returns) ==
  LET fns == Named(core.functions, name) IN
  Len(fns) = 1 /\ fns[1].plain /\ fns[1].takes = takes /\ fns[1].returns = returns

(* Mutant: the divisor may have the name of the candidate.                 *)
AnyDivisor(fn) ==
  fn.body.form = "trial division" /\ fn.body.below = "<" /\ fn.body.while = "<=" /\ fn.body.when = "=="

(* predicate_body: if n < MIN { return false; } let mut i = START;         *)
(* while i * i <= n { if n % i == REM { return false; } i += STEP; } true  *)
PredicateBody(fn) ==
  /\ fn.body.form = "trial division"
  /\ fn.body.below = "<" /\ fn.body.while = "<=" /\ fn.body.when = "=="
  /\ fn.body.divisor # fn.param

(* sequence_body: (START..=limit).filter(|&n| predicate(n)).collect()      *)
SequenceBody(fn, predicate) ==
  fn.body.form = "filter" /\ fn.body.range = "..=" /\ fn.body.keep = predicate

LowerPrime(core) ==
  LET predicate == Named(core.functions, "is_prime")[1]
      sequence  == Named(core.functions, "primes_up_to")[1]
  IN  IF /\ core.plain /\ core.foreign = {}
         /\ Signature(core, "is_prime", "u64", "bool")
         /\ Signature(core, "primes_up_to", "u64", "Vec<u64>")
         /\ PredicateBody(predicate) /\ SequenceBody(sequence, "is_prime")
         /\ predicate.body.start # 0 /\ predicate.body.step # 0 /\ predicate.body.min >= 2
      THEN {[min |-> predicate.body.min, start |-> predicate.body.start, step |-> predicate.body.step,
             remainder |-> predicate.body.remainder, from |-> sequence.body.start]}
      ELSE {}

(* The arithmetic is checked whatever the overflow policy.                 *)
IsPrime(ir, candidate) ==
  LET try[divisor \in Unsigned] ==
        IF divisor * divisor \notin Unsigned THEN <<>>
        ELSE IF divisor * divisor > candidate THEN <<TRUE>>
        ELSE IF candidate % divisor = ir.remainder THEN <<FALSE>>
        ELSE IF divisor + ir.step \notin Unsigned THEN <<>>
        ELSE try[divisor + ir.step]
  IN  IF candidate < ir.min THEN <<FALSE>> ELSE try[ir.start]

PrimesUpTo(ir, limit) ==
  LET range == [i \in 1 .. (limit - ir.from + 1) |-> ir.from + i - 1] IN
  IF \E i \in DOMAIN range : IsPrime(ir, range[i]) = <<>> THEN <<>>
  ELSE <<SelectSeq(range, LAMBDA n : IsPrime(ir, n)[1])>>

-----------------------------------------------------------------------------
(* lower_constructor: two i64 parameters, each field set once from one.    *)
ConstructorLowers(new, fields) ==
  /\ new.plain /\ Len(new.params) = 2 /\ IsInjective(new.params)
  /\ Len(new.inits) = 2 /\ {init[1] : init \in ToSet(new.inits)} = fields
  /\ \A init \in ToSet(new.inits) : init[2] \in ToSet(new.params)

(* lower_expr: fields of self and of other, `-`, `+` and abs.              *)
RECURSIVE ExprLowers(_, _)
ExprLowers(e, fields) ==
  IF e.op = "field" THEN e.name \in fields /\ e.of \in {"self", "other"}
  ELSE e.op \in {"-", "+", "abs"} /\ \A i \in DOMAIN e.args : ExprLowers(e.args[i], fields)

DistanceLowers(distance, fields) ==
  distance.plain /\ distance.with = "other" /\ ExprLowers(distance.body, fields)

LowerPoint(core) ==
  LET structs == Named(core.structs, "Point")
      impls   == Named(core.impls, "Point")
      fields  == structs[1].fields
  IN  IF /\ core.plain
         /\ Len(structs) = 1 /\ structs[1].plain /\ structs[1].types = <<"i64", "i64">>
         /\ Len(fields) = 2 /\ IsInjective(fields)
         /\ Len(impls) = 1 /\ impls[1].plain
         /\ ConstructorLowers(impls[1].new, ToSet(fields))
         /\ DistanceLowers(impls[1].distance, ToSet(fields))
      THEN {[fields |-> fields, params |-> impls[1].new.params, inits |-> impls[1].new.inits,
             distance |-> impls[1].distance.body]}
      ELSE {}

Construct(ir, args) ==
  [field \in {init[1] : init \in ToSet(ir.inits)} |->
     args[CHOOSE i \in DOMAIN ir.params : <<field, ir.params[i]>> \in ToSet(ir.inits)]]

RECURSIVE EvalDistance(_, _, _, _)
EvalDistance(e, left, right, overflow) ==
  LET value(i) == EvalDistance(e.args[i], left, right, overflow) IN
  IF e.op = "field"
  THEN LET point == IF e.of = "self" THEN left ELSE right IN
       IF e.name \in DOMAIN point THEN <<point[e.name]>> ELSE <<>>
  ELSE IF \E i \in DOMAIN e.args : value(i) = <<>> THEN <<>>
  ELSE Exact(CASE e.op = "-"   -> value(1)[1] - value(2)[1]
               [] e.op = "+"   -> value(1)[1] + value(2)[1]
               [] e.op = "abs" -> IF value(1)[1] < 0 THEN -value(1)[1] ELSE value(1)[1], overflow)

-----------------------------------------------------------------------------
(* lower_constructor: let primes = primes_up_to(limit); let points =       *)
(* primes.iter().zip(primes.iter().skip(K)).map(|(&a, &b)|                 *)
(* Point::new(a as i64, b as i64)).collect(); Self { points }              *)
GridLowers(grid) ==
  /\ grid.plain /\ grid.calls = "primes_up_to" /\ grid.limit = grid.param
  /\ grid.over = <<grid.primes, grid.primes>> /\ grid.skip # 0
  /\ grid.new = grid.pair /\ grid.result = grid.points

(* lower_perimeter: windows(W).map(|w| w[I].manhattan_distance(&w[J])).sum *)
PerimeterLowers(perimeter) ==
  /\ perimeter.plain /\ perimeter.window > 0
  /\ perimeter.first < perimeter.window /\ perimeter.second < perimeter.window

(* lower_centroid: None when empty; let (sa, sb) = fold((Z, Z),            *)
(* |(a, b), p| (a + p.F, b + p.G)); let count = len as i64;                *)
(* Some(Point::new(sa / count, sb / count)).                               *)
CentroidLowers(centroid) ==
  /\ centroid.plain /\ centroid.guarded
  /\ IsInjective(centroid.sums) /\ centroid.zeros[1] = centroid.zeros[2]
  /\ centroid.added = centroid.accumulators /\ IsInjective(centroid.fields)
  /\ centroid.new = <<<<centroid.sums[1], centroid.count>>, <<centroid.sums[2], centroid.count>>>>

LowerCluster(middle) ==
  IF /\ middle.plain /\ middle.imports = <<<<"primes_up_to", "Point">>>>
     /\ Len(middle.structs) = 1 /\ Len(middle.structs[1].fields) = 1
     /\ middle.structs[1].types = <<"Vec<Point>">>
     /\ GridLowers(middle.grid) /\ PerimeterLowers(middle.perimeter) /\ CentroidLowers(middle.centroid)
  THEN {[skip |-> middle.grid.skip, window |-> middle.perimeter.window,
         first |-> middle.perimeter.first, second |-> middle.perimeter.second,
         zero |-> middle.centroid.zeros[1], fields |-> middle.centroid.fields]}
  ELSE {}

FromPrimeGrid(cluster, limit, prime, point) ==
  LET primes == PrimesUpTo(prime, limit)
      count  == Len(primes[1]) - cluster.skip
  IN  IF primes = <<>> THEN <<>>
      ELSE <<[i \in 1 .. count |-> Construct(point, <<Signed(primes[1][i]), Signed(primes[1][i + cluster.skip])>>)]>>

Plus(sum, value, overflow) ==
  IF sum = <<>> \/ value = <<>> THEN <<>> ELSE Exact(sum[1] + value[1], overflow)

TotalPerimeter(cluster, points, point, overflow) ==
  LET distance(i) == EvalDistance(point.distance, points[i + cluster.first], points[i + cluster.second], overflow)
      windows == [i \in 1 .. (Len(points) - cluster.window + 1) |-> distance(i)]
  IN  FoldLeft(LAMBDA sum, d : Plus(sum, d, overflow), <<0>>, windows)

Centroid(cluster, points, point, overflow) ==
  LET sum(i) == FoldLeft(LAMBDA s, p : IF cluster.fields[i] \in DOMAIN p
                                       THEN Plus(s, <<p[cluster.fields[i]]>>, overflow) ELSE <<>>,
                         <<cluster.zero>>, points)
      mean(i) == Quotient(sum(i)[1], Len(points))
  IN  CASE points = <<>> -> <<{}>>
        [] points # <<>> /\ <<>> \in {sum(1), sum(2)} -> <<>>
        [] OTHER -> <<{Construct(point, <<mean(1), mean(2)>>)}>>

-----------------------------------------------------------------------------
(* lower_rust_entry: nine statements, with nothing free but the limit.     *)
Pipeline(limit) ==
  <<[name |-> "cluster",   op |-> "from_prime_grid", of |-> limit],
    [name |-> "perimeter", op |-> "total_perimeter", of |-> "cluster"],
    [name |-> "centroid",  op |-> "centroid",        of |-> "cluster"],
    [name |-> "xs",        op |-> "x of each",       of |-> "cluster"],
    [name |-> "sum_x",     op |-> "sum_generic",     of |-> "xs"]>>
Printed == <<"points.len", "perimeter", "centroid", "sum_x">>

LowerEntry(binary) ==
  IF /\ binary.plain /\ binary.items = <<"sum_generic", "Cluster", "main">>
     /\ binary.lets # <<>> /\ binary.lets = Pipeline(binary.lets[1].of) /\ binary.prints = Printed
  THEN {[computations |-> binary.lets, prints |-> binary.prints]} ELSE {}
=============================================================================
