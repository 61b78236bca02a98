--------------------------- MODULE GraphExecution ---------------------------
(***************************************************************************)
(* What every executor of a dependency graph promises, with no resources,  *)
(* threads or waiting: a work item is pending until it either finishes,    *)
(* after everything it depends on has, or is given up together with        *)
(* everything that depends on it.                                          *)
(***************************************************************************)
CONSTANT Work

VARIABLES
  deps,   \* what each item depends on
  done,   \* items that finished
  dead    \* items given up

ExecutionInit == done = {} /\ dead = {}

Finish(w) ==
  /\ w \notin done \cup dead
  /\ deps[w] \subseteq done
  /\ done' = done \cup {w}
  /\ UNCHANGED <<deps, dead>>

GiveUp ==
  /\ dead \subseteq dead'
  /\ dead' \subseteq Work \ done
  /\ \A v \in Work : deps[v] \cap dead' # {} => v \in dead'
  /\ UNCHANGED <<deps, done>>

ExecutionNext == GiveUp \/ \E w \in Work : Finish(w)

ExecutionSpec == ExecutionInit /\ [][ExecutionNext]_<<deps, done, dead>>
=============================================================================
