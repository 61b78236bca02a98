------------------------- MODULE EntrySpecialization ------------------------
(***************************************************************************)
(* A Rust program without input is computed from its sources, and linked   *)
(* with the object of its generic function into an executable that prints  *)
(* what was computed (crates/laminaria-run/src/                            *)
(* rust_entry_semantic_bridge.rs, crates/laminaria-ir/src/                 *)
(* native_aarch64_entry.rs).                                               *)
(***************************************************************************)
EXTENDS FixtureSemantics, TLC

CONSTANTS Programs,   \* [core, middle, binary]: the sources
          Edits       \* what they may have become when they are read again

VARIABLES snapshot,   \* the sources
          generic,    \* the IR of sum_generic that was selected
          outcome,    \* "none", then "refused", "error", "results", "linked"
          results,     \* EntrySpecialization
          executable
entryVars == <<snapshot, generic, outcome, results, executable>>

Fold == INSTANCE GenericFolds WITH Bits <- [i64 |-> WordBits]
Instance == [package |-> "fixture-core", function |-> "sum_generic", types |-> <<"i64">>]

EntryInit ==
  /\ snapshot \in Programs
  /\ generic = {} /\ outcome = "none" /\ results = <<>> /\ executable = <<>>

(* The object's IR is lowered from the core source as it is then.          *)
SelectGeneric ==
  /\ generic = {}
  /\ \E overflow \in {"checked", "wrapping"} :
       generic' = Fold!LowerGenericFold(snapshot.core.generics, Instance, overflow)
  /\ generic' # {}
  /\ UNCHANGED <<snapshot, outcome, results, executable>>

Edit ==
  /\ generic # {} /\ outcome = "none"
  /\ snapshot' \in Edits \ {snapshot}
  /\ UNCHANGED <<generic, outcome, results, executable>>

-----------------------------------------------------------------------------
(* One operation of the entry, given the values bound so far.              *)
Operation(c, bound, prime, point, cluster, fold) ==
  CASE c.op = "from_prime_grid" -> FromPrimeGrid(cluster, c.of, prime, point)
    [] c.op = "total_perimeter" -> TotalPerimeter(cluster, bound[c.of], point, fold.overflow)
    [] c.op = "centroid"        -> Centroid(cluster, bound[c.of], point, fold.overflow)
    [] c.op = "x of each"       -> IF \E p \in Range(bound[c.of]) : "x" \notin DOMAIN p THEN <<>>
                                   ELSE <<[i \in DOMAIN bound[c.of] |-> bound[c.of][i].x]>>
    [] c.op = "sum_generic"     -> Fold!Evaluate(fold, bound[c.of])

(* render_optional_point: the fields in the order of the declaration.      *)
Rendered(point, fields) == {[i \in DOMAIN fields |-> <<fields[i], p[fields[i]]>>] : p \in point}

(* The generic IR must be what the core source still lowers to.            *)
Rechecked(core, fold) ==
  /\ fold.scalar = "i64" /\ fold.function = "sum_generic"
  /\ Fold!LowerGenericFold(core.generics, Instance, fold.overflow) = {fold}

(* specialize_rust_entry: every source is lowered before anything is       *)
(* evaluated, in the order of the entry.                                   *)
Specialized(sources, fold) ==
  LET prime == LowerPrime(sources.core)        point == LowerPoint(sources.core)
      cluster == LowerCluster(sources.middle)  entry == LowerEntry(sources.binary)
      P == CHOOSE ir \in prime : TRUE    Q == CHOOSE ir \in point : TRUE
      C == CHOOSE ir \in cluster : TRUE  E == CHOOSE ir \in entry : TRUE
      bind(bound, c) ==
        IF bound = <<>> THEN <<>>
        ELSE LET v == Operation(c, bound[1], P, Q, C, fold) IN
             IF v = <<>> THEN <<>> ELSE <<(c.name :> v[1]) @@ bound[1]>>
      bound == FoldLeft(bind, <<<<>>>>, E.computations)
  IN  CASE {} \in {prime, point, cluster, entry} \/ ~Rechecked(sources.core, fold) -> [outcome |-> "refused"]
        [] OTHER -> IF bound = <<>> THEN [outcome |-> "error"]
                    ELSE [outcome |-> "results",
                          results |-> <<Len(bound[1].cluster), bound[1].perimeter,
                                       Rendered(bound[1].centroid, Q.fields), bound[1].xs, bound[1].sum_x>>]

Specialize ==
  /\ generic # {} /\ outcome = "none"
  /\ LET result == Specialized(snapshot, CHOOSE fold \in generic : TRUE) IN
       /\ outcome' = result.outcome
       /\ results' = IF result.outcome = "results" THEN result.results ELSE <<>>
  /\ UNCHANGED <<snapshot, generic, executable>>

(* generate_macho_aarch64_entry_object, link_macos_aarch64_entry: three    *)
(* lines of text, and a call of the object with xs that prints its result. *)
Link ==
  /\ outcome = "results" /\ Len(results[4]) = results[1]
  /\ outcome' = "linked"
  /\ executable' = [text |-> SubSeq(results, 1, 3), xs |-> results[4], calls |-> CHOOSE fold \in generic : TRUE]
  /\ UNCHANGED <<snapshot, generic, results>>

EntryNext == SelectGeneric \/ Edit \/ Specialize \/ Link
EntrySpec == EntryInit /\ [][EntryNext]_entryVars

(* What the executable prints.                                             *)
Output == LET sum == Fold!Evaluate(executable.calls, executable.xs) IN
          IF sum = <<>> THEN <<>> ELSE <<Append(executable.text, sum[1])>>

-----------------------------------------------------------------------------
(* What Rust makes of the sources: names are looked up in their scopes.    *)
(* A program that panics or does not end has the meaning <<>>.             *)
RustU64(n, overflow) == IF overflow = "checked" /\ n \notin Unsigned THEN <<>> ELSE <<n % Top>>
Related(op, a, b) ==
  CASE op = "<" -> a < b [] op = "<=" -> a <= b [] op = "==" -> a = b [] op = "!=" -> a # b

RustPredicate(fn, n, overflow) ==
  LET b == fn.body
      candidate(d) == IF b.divisor = fn.param THEN d ELSE n
      run[at \in Unsigned \X (0 .. Top)] ==
        LET d == at[1]  square == RustU64(d * d, overflow)  next == RustU64(d + b.step, overflow) IN
        IF at[2] = 0 \/ square = <<>> THEN <<>>
        ELSE IF ~Related(b.while, square[1], candidate(d)) THEN <<TRUE>>
        ELSE IF d = 0 THEN <<>>
        ELSE IF Related(b.when, candidate(d) % d, b.remainder) THEN <<FALSE>>
        ELSE IF next = <<>> THEN <<>> ELSE run[<<next[1], at[2] - 1>>]
  IN  IF Related(b.below, n, b.min) THEN <<FALSE>> ELSE run[<<b.start, Top>>]

RustPrimes(core, limit, overflow) ==
  LET b    == Named(core.functions, "primes_up_to")[1].body
      keep(n) == RustPredicate(Named(core.functions, b.keep)[1], n, overflow)
      last == IF b.range = "..=" THEN limit ELSE limit - 1
      range == [i \in 1 .. (last - b.start + 1) |-> b.start + i - 1]
  IN  IF \E i \in DOMAIN range : keep(range[i]) = <<>> THEN <<>>
      ELSE <<SelectSeq(range, LAMBDA n : keep(n)[1])>>

RustGrid(core, grid, primes) ==
  LET point(i) == LET a == grid.pair[1] :> primes[i] @@ grid.pair[2] :> primes[i + grid.skip]
                  IN  Construct(core.impls[1].new, <<Signed(a[grid.new[1]]), Signed(a[grid.new[2]])>>)
  IN  [i \in 1 .. (Len(primes) - grid.skip) |-> point(i)]

RustPerimeter(core, perimeter, points, overflow) ==
  LET count == Len(points) - perimeter.window + 1
      sum[i \in 0 .. count] ==
        IF i = 0 THEN <<0>>
        ELSE Plus(sum[i-1], EvalDistance(core.impls[1].distance.body, points[i + perimeter.first],
                                         points[i + perimeter.second], overflow), overflow)
  IN  IF perimeter.window = 0 THEN <<>>
      ELSE IF count <= 0 THEN <<0>>
      ELSE IF ~{perimeter.first, perimeter.second} \subseteq 0 .. perimeter.window - 1 THEN <<>>
      ELSE sum[count]

RustCentroid(core, centroid, points, overflow) ==
  LET side(name) == CHOOSE i \in 1 .. 2 : centroid.accumulators[i] = name
      sums[i \in 0 .. Len(points)] ==
        IF i = 0 THEN <<<<centroid.zeros[1]>>, <<centroid.zeros[2]>>>>
        ELSE [k \in 1 .. 2 |-> Plus(sums[i-1][side(centroid.added[k])], <<points[i][centroid.fields[k]]>>, overflow)]
      fold   == sums[Len(points)]
      named  == centroid.count :> Len(points) @@ centroid.sums[1] :> fold[1][1] @@ centroid.sums[2] :> fold[2][1]
      mean(q) == Quotient(named[q[1]], named[q[2]])
      new    == [k \in 1 .. 2 |-> mean(centroid.new[k])]
  IN  IF points = <<>> THEN IF centroid.guarded THEN <<{}>> ELSE <<>>
      ELSE IF <<>> \in Range(fold) THEN <<>>
      ELSE <<{Construct(core.impls[1].new, new)}>>

RustSum(fn, items, overflow) ==
  LET sum[i \in 0 .. Len(items)] ==
        IF i = 0 THEN <<0>>
        ELSE IF sum[i-1] = <<>> THEN <<>>
        ELSE LET named == [acc |-> sum[i-1][1], element |-> items[i]] IN
             Exact(named[fn.body.left] + named[fn.body.right], overflow)
  IN  sum[Len(items)]

RustProgram(sources, overflow) ==
  LET core == sources.core  cluster == sources.middle
      primes == RustPrimes(core, sources.binary.lets[1].of, overflow)
      points == RustGrid(core, cluster.grid, primes[1])
      perimeter == RustPerimeter(core, cluster.perimeter, points, overflow)
      centroid == RustCentroid(core, cluster.centroid, points, overflow)
      field == IF sources.binary.lets[4].op = "x of each" THEN "x" ELSE "y"
      sum == RustSum(core.generics[1], [i \in DOMAIN points |-> points[i][field]], overflow)
      print(what) == CASE what = "points.len" -> Len(points)
                       [] what = "perimeter"  -> perimeter[1]
                       [] what = "centroid"   -> Rendered(centroid[1], core.structs[1].fields)
                       [] what = "sum_x"      -> sum[1]
  IN  IF primes = <<>> \/ <<>> \in {perimeter, centroid, sum} THEN <<>>
      ELSE <<[i \in DOMAIN sources.binary.prints |-> print(sources.binary.prints[i])]>>

(* The fields that are read exist.                                         *)
RECURSIVE ReadsFields(_, _)
ReadsFields(e, fields) ==
  IF e.op = "field" THEN e.name \in fields ELSE \A i \in DOMAIN e.args : ReadsFields(e.args[i], fields)
Compiles(sources) ==
  LET fields == ToSet(sources.core.structs[1].fields) IN
  /\ ReadsFields(sources.core.impls[1].distance.body, fields)
  /\ ToSet(sources.middle.centroid.fields) \subseteq fields
  /\ sources.binary.lets[4].op = "x of each" => "x" \in fields

(* Known divergence: the number of points may be given the name of a sum,  *)
(* which it then hides.                                                    *)
CountHidesSum(sources) == sources.middle.centroid.count \in ToSet(sources.middle.centroid.sums)

(* Whatever the recognisers accept is computed as Rust would compute it,   *)
(* with and without overflow checks, and the executable prints that, even  *)
(* when the sources changed after the generic function was selected.  An   *)
(* evaluation fails only where the program panics or, since the primes are *)
(* always checked, where their arithmetic overflows.                       *)
EntryKeepsMeaning ==
  outcome \in {"error", "results", "linked"} /\ Compiles(snapshot) /\ ~CountHidesSum(snapshot) =>
    LET overflow == (CHOOSE fold \in generic : TRUE).overflow
        meant    == RustProgram(snapshot, overflow)
    IN  /\ snapshot.core.foreign = {}
        /\ IF outcome = "error"
           THEN meant = <<>> \/ RustPrimes(snapshot.core, snapshot.binary.lets[1].of, "checked") = <<>>
           ELSE meant = <<<<results[1], results[2], results[3], results[5]>>>>
        /\ outcome = "linked" => Output = meant
=============================================================================
