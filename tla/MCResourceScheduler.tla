------------------------ MODULE MCResourceScheduler ------------------------
(* Small instances of ResourceScheduler for TLC.                           *)
EXTENDS ResourceScheduler

Vec(cpu, mem, io, process) ==
  [r \in Resources |-> CASE r = "cpu_slots" -> cpu
                         [] r = "memory_bytes" -> mem
                         [] r = "io_slots" -> io
                         [] r = "external_process_slots" -> process]

MCBudget == Vec(2, 2, 1, 1)

(* A single-threaded job, one with a nested thread, one external process.  *)
Small == Vec(1, 1, 0, 0)
Wide  == Vec(2, 1, 0, 0)
Tool  == Vec(1, 1, 1, 1)

Threads == <<Small, Small, Small>>

Input(kind, from, optional) == [kind |-> kind, from |-> from, optional |-> optional]

(* Every dependency relation on the instances, cyclic ones included.       *)
(* Instance 1 produces both kinds and 3 may read both of it; but when 3    *)
(* depends on 2, it reads "ir" of 2 alone and "diagnostics" if there are.  *)
(* The last list reserves no process for units that need one: refused.     *)
MCPlans ==
  {[deps |-> d, reservation |-> a,
    nested |-> [w \in Work |-> IF a[w] = Wide THEN 1 ELSE 0],
    minimum |-> [w \in Work |-> IF a[w] = Tool \/ a = Threads THEN Vec(1, 0, 0, 1) ELSE Vec(1, 0, 0, 0)],
    inputs |-> [w \in Work |->
      LET ir == Input("ir", IF w = 3 /\ 2 \in d[w] THEN {2} ELSE Work, FALSE)
      IN  (IF d[w] = {} THEN {} ELSE {ir})
          \cup (IF w = 3 THEN {Input("diagnostics", {1}, d[w] # {1})} ELSE {})],
    outputs |-> <<{"ir", "diagnostics"}, {"ir"}, {"ir"}>>] :
      d \in [Work -> SUBSET Work],
      a \in {<<Small, Wide, Tool>>, <<Tool, Small, Tool>>, <<Wide, Small, Small>>, Threads}}

Out(kind, key, content) == [kind |-> kind, key |-> key, content |-> content]

MCBatches == {
  {Out("ir", "a", "x")},
  {Out("ir", "a", "y")},
  {Out("ir", "b", "x")},
  {Out("ir", "a", "x"), Out("diagnostics", "a", "x")},
  {Out("ir", "a", "x"), Out("ir", "b", "x")},
  {Out("ir", "", "x")},
  {}}
=============================================================================
