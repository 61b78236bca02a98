------------------------ MODULE MCPhysicalWorkGraph ------------------------
(* Small instances of PhysicalWorkGraph for TLC.                           *)
EXTENDS PhysicalWorkGraph

Vec(cpu, mem, io, process) ==
  [r \in Resources |-> CASE r = "cpu_slots" -> cpu
                         [] r = "memory_bytes" -> mem
                         [] r = "io_slots" -> io
                         [] r = "external_process_slots" -> process]

MCBudget == Vec(2, 2, 1, 1)
Small    == Vec(1, 1, 0, 0)
Wide     == Vec(2, 1, 0, 0)
Tool     == Vec(1, 1, 1, 1)

(* Every dependency relation on the instances, cyclic ones included.       *)
MCPlans ==
  {[deps |-> d, reservation |-> a,
    nested |-> [w \in Work |-> IF a[w] = Wide THEN 1 ELSE 0],
    minimum |-> [w \in Work |-> Vec(1, 0, 0, IF a[w] = Tool THEN 1 ELSE 0)],
    inputs |-> [w \in Work |-> IF d[w] = {} THEN {}
                               ELSE {[kind |-> "ir", from |-> Work \ {w}, optional |-> FALSE],
                                     [kind |-> "diagnostics", from |-> {1}, optional |-> TRUE]}],
    outputs |-> [w \in Work |-> IF w = 1 THEN {"ir", "diagnostics"} ELSE {"ir"}]] :
      d \in [Work -> SUBSET Work],
      a \in {[w \in Work |-> IF w = 2 THEN Wide ELSE IF w = 3 THEN Tool ELSE Small]}}

Out(kind, key, content) == [kind |-> kind, key |-> key, content |-> content]

MCBatches == {
  {Out("ir", "a", "x")},
  {Out("ir", "a", "y")},
  {Out("ir", "b", "x")},
  {Out("ir", "a", "x"), Out("diagnostics", "a", "x")}}
=============================================================================
