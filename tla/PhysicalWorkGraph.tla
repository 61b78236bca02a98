------------------------- MODULE PhysicalWorkGraph -------------------------
(***************************************************************************)
(* The driver of the resource scheduler, execute_physical_work_graph       *)
(* (crates/laminaria-run/src/resource_scheduler.rs): one loop that admits  *)
(* a round of instances, computes them one after the other, and stages and *)
(* commits, or fails, each before the next.                                *)
(***************************************************************************)
EXTENDS ResourceScheduler, FiniteSets

(* A work unit lists the kinds it declares.                                *)
ASSUME KindsAssumption == IsFiniteSet(Kinds)

VARIABLES
  pc,        \* "admit", "compute", "commit" or "returned"
  round,     \* instances admitted this round and not processed yet
  executed,  \* instances whose computation was started
  read,      \* the inputs each started computation was handed
  outcome    \* what the call returned: "none" while it runs

driverVars == <<vars, pc, round, executed, read, outcome>>

Current == CHOOSE w \in round : \A v \in round : w <= v

Return(result) == pc' = "returned" /\ outcome' = result

(* The head of the round is done with; the loop condition comes next when  *)
(* it was the last.                                                        *)
Proceed ==
  /\ round' = round \ {Current}
  /\ pc' = IF round = {Current} THEN "admit" ELSE "compute"

DriverInit ==
  /\ Init
  /\ pc = "admit"
  /\ round = {}
  /\ executed = {}
  /\ read = [w \in Work |-> {}]
  /\ outcome = "none"

Round ==
  /\ pc = "admit"
  /\ LiveWork # {}
  /\ AdmitReady
  /\ round' = Admitted
  /\ IF Admitted = {}
     THEN Return("stalled")
     ELSE pc' = "compute" /\ UNCHANGED outcome
  /\ UNCHANGED <<executed, read>>

Report ==
  /\ pc = "admit"
  /\ LiveWork = {}
  /\ Return("report")
  /\ UNCHANGED <<vars, round, executed, read>>

(* The callback is handed the dependency outputs and returns.              *)
Compute ==
  /\ pc = "compute"
  /\ executed' = executed \cup {Current}
  /\ read' = [read EXCEPT ![Current] = DependencyOutputs(Current)]

ComputeOk ==
  /\ Compute
  /\ StageOutputs(Current)
  /\ pc' = "commit"
  /\ UNCHANGED <<round, outcome>>

(* stage_outputs refuses the batch: `?` abandons the whole run.            *)
ComputeRefused ==
  /\ Compute
  /\ \E batch \in Batches : ~StageAccepts(plan.outputs[Current], batch)
  /\ Return("refused")
  /\ UNCHANGED <<vars, round>>

ComputeErr ==
  /\ Compute
  /\ Fail(Current)
  /\ Proceed
  /\ UNCHANGED outcome

CommitHead ==
  /\ pc = "commit"
  /\ Commit(Current)
  /\ Proceed
  /\ UNCHANGED <<executed, read, outcome>>

DriverNext ==
  \/ Round \/ Report
  \/ ComputeOk \/ ComputeRefused \/ ComputeErr
  \/ CommitHead

(* The loop is one thread that never waits: each of its steps is taken     *)
(* once it can be, provided the callback returns.                          *)
DriverSpec == DriverInit /\ [][DriverNext]_driverVars /\ WF_driverVars(DriverNext)

-----------------------------------------------------------------------------
(* The sets of PhysicalWorkExecutionReport *)

Invalid      == {w \in Work : state[w] = "Failed"}
Rerun        == {w \in Work : state[w] \in {"Failed", "Cancelled"}}
NeverStarted == {w \in Work : state[w] = "Cancelled" /\ w \notin executed}
Reusable     == {w \in Done : Cardinality(OutputsForWriter(w)) = Cardinality(plan.outputs[w])}

(* A returned report accounts for every instance: each one either          *)
(* completed, and all of its outputs are visible, or is to be rerun; the   *)
(* rerun ones either failed or never started; and everything is given      *)
(* back.  What completes depends only on which computations failed, never  *)
(* on the budget or on the order of rounds: the instances to rerun are the *)
(* least set that holds the failed ones and all consumers of its members.  *)
ReportIsPlanned ==
  outcome = "report" =>
    /\ Done \cup Rerun = Work
    /\ Reusable = Done
    /\ NeverStarted = Rerun \ Invalid
    /\ executed = Done \cup Invalid
    /\ \A r \in Resources : allocated[r] = 0
    /\ \A w \in Work : staged[w] = {}
    /\ \A S \in SUBSET Work :
         (Invalid \subseteq S /\ \A w \in Work : plan.deps[w] \cap S # {} => w \in S)
           => Rerun \subseteq S

(* The run returns its report, whatever the computations return: the loop  *)
(* never finds live work it cannot admit, since between rounds the whole   *)
(* budget is free and an instance without live producers exists, so that   *)
(* PhysicalWorkExecutionError::Stalled is never returned.                  *)
RunReturns == <>(outcome \notin {"none", "stalled"})
=============================================================================
