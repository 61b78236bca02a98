---------------------------- MODULE GenericFolds ----------------------------
(***************************************************************************)
(* The one generic function that is compiled from source: a fold of a      *)
(* slice (crates/laminaria-ir/src/rust_generic_fold.rs), and its loop as   *)
(* x86-64 and AArch64 code (native_x86_64.rs, native_aarch64.rs).          *)
(***************************************************************************)
EXTENDS Integers, Sequences, SequencesExt

CONSTANT Bits    \* of "i32" and "i64"

Scalars == DOMAIN Bits

Wrapped(scalar, n) == LET half == 2 ^ (Bits[scalar] - 1) IN ((n + half) % (2 * half)) - half
InRange(scalar, n)    == n = Wrapped(scalar, n)

(* signature with collect_bounds: a plain fn f<T: Copy + Add + Default>    *)
(* (items: &[T]) -> T, each bound once, in the list or in a where clause.  *)
FoldSignature(fn) ==
  /\ fn.plain /\ fn.generics = <<"type">>
  /\ fn.param = "slice" /\ fn.returns = "T"
  /\ ToSet(fn.bounds) = {"Copy", "Add", "Default"} /\ Len(fn.bounds) = 3

(* items.iter().fold(T::default(), |acc, &element| acc + element)          *)
FoldBody(fn) ==
  fn.body = [over |-> "items", init |-> "default", op |-> "add", left |-> "acc", right |-> "element"]

(* lower_generic_fold: one function of that name at the top of the file,   *)
(* for a scalar that is known.                                             *)
LowerGenericFold(file, instance, overflow) ==
  LET functions == SelectSeq(file, LAMBDA s : s.site = "fn" /\ ~s.test /\ s.name = instance.function)
  IN  IF /\ Len(functions) = 1
         /\ Len(instance.types) = 1 /\ instance.types[1] \in Scalars
         /\ FoldSignature(functions[1]) /\ FoldBody(functions[1])
      THEN {[package |-> instance.package, function |-> instance.function,
             scalar |-> instance.types[1], overflow |-> overflow]}
      ELSE {}

(* GenericFoldIr::evaluate_i64, evaluate_i32: the sum, or <<>> when it     *)
(* overflows.                                                              *)
Evaluate(ir, items) ==
  LET add(sum, value) ==
        IF sum = <<>> \/ (ir.overflow = "checked" /\ ~InRange(ir.scalar, sum[1] + value))
        THEN <<>> ELSE <<Wrapped(ir.scalar, sum[1] + value)>>
  IN  FoldLeft(add, <<0>>, items)

-----------------------------------------------------------------------------
Instr(op, size) == [op |-> op, size |-> size, by |-> 0]

(* fold_machine_code and patch_rel8: what a branch adds is counted from    *)
(* the end of the branch, in bytes.                                        *)
CodeX86(ir) ==
  LET checked == ir.overflow = "checked"
      add     == Instr("add", IF ir.scalar = "i64" THEN 4 ELSE 3)
      code    == <<Instr("zero", 2), Instr("first", 2), Instr("compare", 3), Instr("exit if done", 2), add>>
                 \o (IF checked THEN <<Instr("trap if overflow", 2)>> ELSE <<>>)
                 \o <<Instr("next", 3), Instr("loop", 2), Instr("return", 1)>>
                 \o (IF checked THEN <<Instr("trap", 2)>> ELSE <<>>)
      from(i) == FoldLeft(LAMBDA sum, c : sum + c.size, 0, SubSeq(code, 1, i - 1))
      at(op)  == CHOOSE i \in DOMAIN code : code[i].op = op
      patch(i, target) == from(at(target)) - (from(i) + code[i].size)
  IN  [i \in DOMAIN code |->
         CASE code[i].op = "exit if done"     -> [code[i] EXCEPT !.by = patch(i, "return")]
           [] code[i].op = "trap if overflow" -> [code[i] EXCEPT !.by = patch(i, "trap")]
           [] code[i].op = "loop"             -> [code[i] EXCEPT !.by = patch(i, "compare")]
           [] OTHER -> code[i]]

(* generate_macho_aarch64_generic_fold_object: words of one size, and what *)
(* a branch adds is counted from the branch.                               *)
CodeAArch64(ir) ==
  LET checked == ir.overflow = "checked"
      word(op, by) == [op |-> op, size |-> 1, by |-> by]
      loop_branch  == IF checked THEN 8 ELSE 7
      exit == loop_branch + 1
      trap == exit + 2
  IN  <<word("zero", 0), word("first", 0), word("compare", 0), word("exit if done", exit - 3),
        word("load", 0), word("add", 0)>>
      \o (IF checked THEN <<word("trap if overflow", trap - 6)>> ELSE <<>>)
      \o <<word("next", 0), word("loop", 2 - loop_branch), word("move", 0), word("return", 0)>>
      \o (IF checked THEN <<word("trap", 0)>> ELSE <<>>)

(* The processors.  A branch starts at its own address on AArch64, after   *)
(* itself on x86-64.  The result is the sum, <<>> after a trap, and Lost   *)
(* for a run that leaves the code or the slice, or does not end.           *)
Lost == <<"lost", "lost">>

Execute(target, code, scalar, items) ==
  LET from == [i \in DOMAIN code |-> FoldLeft(LAMBDA sum, c : sum + c.size, 0, SubSeq(code, 1, i - 1))]
      branch(s, c) == [s EXCEPT !.pc = @ + c.by + (IF target = "x86_64" THEN c.size ELSE 0)]
      done(s, out) == [s EXCEPT !.running = FALSE, !.out = out]
      step(s, n) ==
        LET here == {i \in DOMAIN code : from[i] = s.pc}
            c    == code[CHOOSE i \in here : TRUE]
            go   == [s EXCEPT !.pc = @ + c.size]
            over == s.index >= Len(items)
            sum  == s.acc + items[s.index + 1]
        IN  CASE ~s.running -> s
              [] s.running /\ (here = {} \/ (c.op = "add" /\ over)) -> done(s, Lost)
              [] OTHER ->
                   CASE c.op = "exit if done"     -> IF over THEN branch(s, c) ELSE go
                     [] c.op = "trap if overflow" -> IF s.carry THEN branch(s, c) ELSE go
                     [] c.op = "loop"   -> branch(s, c)
                     [] c.op = "add"    -> [go EXCEPT !.acc = Wrapped(scalar, sum), !.carry = ~InRange(scalar, sum)]
                     [] c.op = "next"   -> [go EXCEPT !.index = @ + 1]
                     [] c.op = "return" -> done(s, <<s.acc>>)
                     [] c.op = "trap"   -> done(s, <<>>)
                     [] OTHER -> go
      start == [pc |-> 0, acc |-> 0, index |-> 0, carry |-> FALSE, running |-> TRUE, out |-> Lost]
  IN  FoldLeft(step, start, [n \in 1..(Len(code) * (Len(items) + 2)) |-> n]).out
=============================================================================
