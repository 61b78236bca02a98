------------------------ MODULE IncrementalExecutor -------------------------
(***************************************************************************)
(* run_to_completion: a pool of worker threads runs whatever the planner   *)
(* session reports as ready, and a supervisor turns their reports into     *)
(* events for the session, whose answers bring new work                    *)
(* (crates/laminaria-run/src/incremental_executor.rs).                     *)
(*                                                                         *)
(* The supervisor calls the session synchronously (IncrementalSession      *)
(* Client::send), so one of its steps contains one command and the reply   *)
(* to it.  A worker's step is a critical section on the queue, the Condvar *)
(* wait, one dispatch, or the send of its report.  Left out: slot trace,   *)
(* timings and counts of the ExecutionReport.                              *)
(***************************************************************************)
EXTENDS IncrementalSession, SequencesExt

CONSTANTS
  Workers,    \* the cpu_budget worker threads
  Scenarios   \* what a run works on, see IsScenario

(* start is the initial graph; finds maps each discovering action to the   *)
(* new actions on_discovered answers with, none when no name was found;    *)
(* fails holds the actions whose computation returns an error.             *)
IsScenario(s) ==
  /\ s.inputs \in Graphs /\ s.start \in Seq(Actions) /\ s.fails \subseteq Actions
  /\ \A d \in DOMAIN s.finds : d \in Actions /\ s.finds[d] \in Seq(Actions)

ASSUME ExecutorAssumption == IsFiniteSet(Actions) /\ \A s \in Scenarios : IsScenario(s)

VARIABLES
  scenario,
  \* WorkerPoolState
  queue, done,
  \* each worker's program counter and action, the report channel
  pc, job, reports,
  \* IncrementalArtifactStore
  store,
  \* the supervisor: its program counter, the actions it is about to push,
  \* a discovery it has not announced yet, known_actions and outstanding
  sup, batch, found, defs, outstanding

pool       == <<queue, done, pc, job>>
supervisor == <<sup, batch, found, defs, outstanding>>
vars       == <<session, scenario, pool, reports, store, supervisor>>

Init ==
  /\ SessionInit
  /\ scenario \in Scenarios
  /\ inputs = scenario.inputs
  /\ queue = <<>> /\ done = FALSE
  /\ pc = [w \in Workers |-> "idle"]
  /\ job = [w \in Workers |-> None]
  /\ reports = <<>> /\ store = {}
  /\ sup = "start" /\ batch = <<>> /\ found = None
  /\ defs = {} /\ outstanding = 0

Discovers(a) == a \in DOMAIN scenario.finds

(* The caller starts the session and passes on the actions it reports      *)
(* ready; only their definitions are known_actions.  A batch's order is    *)
(* the iteration order of a hash table.                                    *)
Start ==
  /\ sup = "start"
  /\ StartSession(scenario.start, {}, [a \in Actions |-> 0])
  /\ reply'.kind = "plan_delta"
  /\ queue' \in SetToSeqs(reply'.ready)
  /\ defs' = reply'.ready
  /\ outstanding' = Len(queue')
  /\ sup' = "receive"
  /\ UNCHANGED <<scenario, done, pc, job, reports, store, batch, found>>

(***************************************************************************)
(* The workers.                                                            *)
(***************************************************************************)
GoTo(w, label) == pc' = [pc EXCEPT ![w] = label]
Elsewhere == <<session, scenario, supervisor>>

Take(w) ==
  /\ sup # "start" /\ pc[w] = "idle" /\ queue # <<>>
  /\ job' = [job EXCEPT ![w] = Head(queue)]
  /\ queue' = Tail(queue)
  /\ GoTo(w, "dispatch")
  /\ UNCHANGED <<Elsewhere, done, reports, store>>

Leave(w) ==
  /\ pc[w] = "idle" /\ queue = <<>> /\ done
  /\ GoTo(w, "exited")
  /\ UNCHANGED <<Elsewhere, queue, done, job, reports, store>>

Sleep(w) ==
  /\ sup # "start" /\ pc[w] = "idle" /\ queue = <<>> /\ ~done
  /\ GoTo(w, "waiting")
  /\ UNCHANGED <<Elsewhere, queue, done, job, reports, store>>

SpuriousWake(w) ==
  /\ pc[w] = "waiting"
  /\ GoTo(w, "idle")
  /\ UNCHANGED <<Elsewhere, queue, done, job, reports, store>>

(* Only the first semantic input is looked up, and the semantic inputs are *)
(* the declared ones; lowering and discovery read sources and declare none.*)
HasInput(a) == inputs[a] = <<>> \/ inputs[a][1] \in store

Succeeds(a) == HasInput(a) /\ a \notin scenario.fails

(* What cannot succeed: a discovery stores nothing, so whatever looks for  *)
(* its result fails too.                                                   *)
Failing == scenario.fails \cup {a \in Actions : inputs[a] # <<>> /\ Discovers(inputs[a][1])}

(* dispatch.                                                               *)
Dispatch(w) ==
  /\ pc[w] = "dispatch"
  /\ store' = IF Succeeds(job[w]) /\ ~Discovers(job[w]) THEN store \cup {job[w]} ELSE store
  /\ GoTo(w, IF Succeeds(job[w]) THEN "report_ok" ELSE "report_failed")
  /\ UNCHANGED <<Elsewhere, queue, done, job, reports>>

Report(w) ==
  /\ pc[w] \in {"report_ok", "report_failed"}
  /\ reports' = Append(reports, [action |-> job[w], ok |-> pc[w] = "report_ok"])
  /\ job' = [job EXCEPT ![w] = None]
  /\ GoTo(w, "idle")
  /\ UNCHANGED <<Elsewhere, queue, done, store>>

Worker(w) == Take(w) \/ Leave(w) \/ Sleep(w) \/ Dispatch(w) \/ Report(w)

(***************************************************************************)
(* The supervisor.                                                         *)
(***************************************************************************)
NewlyReady(r) == r.ready

(* apply_and_dispatch after the call: an error, or a ready action whose    *)
(* definition never came this way, ends the supervisor's loop.             *)
Absorb ==
  /\ defs' = defs \cup reply'.fresh
  /\ \/ /\ phase' = "crashed" \/ reply'.kind = "rejected"
        /\ sup' = "error" /\ batch' = <<>>
     \/ /\ phase' = "open" /\ reply'.kind = "plan_delta"
        /\ ~(NewlyReady(reply') \subseteq defs')
        /\ sup' = "panic" /\ batch' = <<>>
     \/ /\ phase' = "open" /\ reply'.kind = "plan_delta"
        /\ NewlyReady(reply') \subseteq defs'
        /\ sup' = "push" /\ batch' \in SetToSeqs(NewlyReady(reply'))

Receive ==
  /\ sup = "receive" /\ outstanding > 0 /\ reports # <<>>
  /\ LET r == Head(reports) IN
     /\ ApplyDelta(<<IF r.ok THEN "completed" ELSE "failed", r.action>>,
                   IF r.ok THEN Completion(r.action) ELSE Failure(r.action))
     /\ found' = IF r.ok /\ Discovers(r.action) /\ scenario.finds[r.action] # <<>>
                 THEN r.action ELSE None
  /\ reports' = Tail(reports)
  /\ outstanding' = outstanding - 1
  /\ Absorb
  /\ UNCHANGED <<scenario, pool, store>>

(* push_ready, the lock held.                                              *)
Push ==
  /\ sup = "push"
  /\ queue' = queue \o batch
  /\ outstanding' = outstanding + Len(batch)
  /\ sup' = IF batch = <<>> THEN "next" ELSE "notify"
  /\ batch' = <<>>
  /\ UNCHANGED <<session, scenario, done, pc, job, reports, store, found, defs>>

NotifyAll == pc' = [w \in Workers |-> IF pc[w] = "waiting" THEN "idle" ELSE pc[w]]

(* push_ready, the lock released.                                          *)
Notify ==
  /\ sup = "notify"
  /\ NotifyAll
  /\ sup' = "next"
  /\ UNCHANGED <<session, scenario, queue, done, job, reports, store, batch, found, defs, outstanding>>

(* DependencyDiscovered, with the last new action demanded; the event      *)
(* claims generation 0.                                                    *)
Announce ==
  /\ sup = "next" /\ found # None
  /\ LET list == scenario.finds[found] IN
     ApplyDelta(<<"discovered", found>>, Discovery(list, <<>>, {Last(list)}, generation > 0))
  /\ found' = None
  /\ Absorb
  /\ UNCHANGED <<scenario, pool, reports, store, outstanding>>

Loop ==
  /\ sup = "next" /\ found = None
  /\ sup' = "receive"
  /\ UNCHANGED <<session, scenario, pool, reports, store, batch, found, defs, outstanding>>

(* Mutant: an empty queue and no unread report end the run.                *)
FinishWhenIdle ==
  /\ sup = "receive" /\ queue = <<>> /\ reports = <<>>
  /\ done' = TRUE
  /\ sup' = "release"
  /\ UNCHANGED <<session, scenario, queue, pc, job, reports, store, batch, found, defs, outstanding>>

(* Nothing is outstanding: release the idle workers.                       *)
Finish ==
  /\ sup = "receive" /\ outstanding = 0
  /\ done' = TRUE
  /\ sup' = "release"
  /\ UNCHANGED <<session, scenario, queue, pc, job, reports, store, batch, found, defs, outstanding>>

(* Mutant: done is set and nobody is told.                                 *)
ReleaseSilently ==
  /\ sup = "release"
  /\ sup' = "ok"
  /\ UNCHANGED <<session, scenario, pool, reports, store, batch, found, defs, outstanding>>

Release ==
  /\ sup = "release"
  /\ NotifyAll
  /\ sup' = "ok"
  /\ UNCHANGED <<session, scenario, queue, done, job, reports, store, batch, found, defs, outstanding>>

Supervisor == Start \/ Receive \/ Push \/ Notify \/ Announce \/ Loop \/ Finish \/ Release

Next == Supervisor \/ \E w \in Workers : Worker(w) \/ SpuriousWake(w)

Spec == Init /\ [][Next]_vars

(* Each thread keeps running when it can, and a reply to a command comes.  *)
FairSpec == Spec /\ WF_vars(Supervisor) /\ \A w \in Workers : WF_vars(Worker(w))

(* thread::scope joins every worker before run_to_completion returns,      *)
(* whether it returns Ok, an error, or unwinds.                            *)
Returned == sup \in {"ok", "error", "panic"} /\ \A w \in Workers : pc[w] = "exited"

(***************************************************************************)
(* Properties.                                                             *)
(***************************************************************************)

Labels == {"start", "receive", "push", "notify", "next", "release", "ok", "error", "panic"}

(* What depends on S, directly or not.                                     *)
Downstream(S) == {a \in Actions : \A T \in SUBSET Actions :
  S \subseteq T /\ (\A b \in Actions : Producers(b) \cap T # {} => b \in T) => a \in T}

(* The outcome does not depend on the schedule: a run that returns has     *)
(* announced every discovery that its succeeding actions make, and has     *)
(* completed exactly the actions that no failing action precedes.          *)
OutcomeIsPlanned ==
  Returned /\ sup = "ok" =>
    LET good == {a \in known : state[a] = "completed"} IN
    /\ good = known \ Downstream(Failing)
    /\ known = Range(scenario.start) \cup
               UNION {Range(scenario.finds[d]) : d \in good \cap DOMAIN scenario.finds}

(* A run that meets no error ends: thread::scope can join every worker.    *)
RunReturns == [](sup \notin {"error", "panic"}) => <>Returned

(* Any run ends, with a result or an error ("until nothing is ready and    *)
(* nothing is in flight").                                                 *)
RunAlwaysReturns == <>Returned

Execution == INSTANCE GraphExecution WITH
  Work <- Actions,
  deps <- [a \in Actions |-> Producers(a)],
  done <- {a \in Actions : state[a] = "completed"},
  dead <- Downstream({a \in Actions : state[a] = "failed"})

(* Session and executor together execute the graph, although the graph     *)
(* grows: an action completes after its producers, and a failure gives up  *)
(* all that depends on it.                                                 *)
ExecutesGraph == Execution!ExecutionSpec
=============================================================================
