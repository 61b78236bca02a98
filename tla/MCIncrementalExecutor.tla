----------------------- MODULE MCIncrementalExecutor ------------------------
(***************************************************************************)
(* Runs of up to six actions.  "find" and "seek" discover; the others      *)
(* lower, validate and evaluate.                                           *)
(***************************************************************************)
EXTENDS IncrementalExecutor, TLC

MCActions == {"leaf", "find", "seek", "lower", "valid", "proof"}

Sources == [leaf |-> <<>>, find |-> <<>>, seek |-> <<>>, lower |-> <<>>,
            valid |-> <<"lower">>, proof |-> <<"valid">>]
Joined  == [Sources EXCEPT !["proof"] = <<"valid", "leaf">>]

Run(g, start, finds, fails) == [inputs |-> g, start |-> start, finds |-> finds, fails |-> fails]

Pipeline == <<"lower", "valid", "proof">>

(* One discovery beside an independent action; two discoveries of the same *)
(* actions; a discovery that discovers again; one that finds nothing, one  *)
(* that finds what is there.                                               *)
MCScenarios ==
  {Run(g, <<"leaf", "find">>, "find" :> Pipeline, fails) :
     g \in {Sources, Joined}, fails \in SUBSET {"leaf", "find", "lower", "valid"}}
  \cup {Run(Sources, <<"find", "seek">>, "find" :> Pipeline @@ "seek" :> Pipeline, fails) :
          fails \in {{}, {"find"}, {"lower"}}}
  \cup {Run(g, <<"leaf", "find">>, "find" :> <<"lower", "seek">> @@ "seek" :> <<"valid", "proof">>, fails) :
          g \in {Sources, Joined}, fails \in {{}, {"lower"}, {"leaf"}, {"seek"}}}
  \cup {Run(Sources, <<"leaf", "find", "seek">>, "find" :> <<>> @@ "seek" :> <<"leaf">>, {})}

(* Two discoveries that share some of their actions.                       *)
Overlapping ==
  {Run(Sources, <<"find", "seek">>, "find" :> <<"lower", "valid">> @@ "seek" :> Pipeline, {})}

(* An initial graph in which not every action is ready.                    *)
Blocked == {Run(Sources, Pipeline, <<>>, {})}

(* A discovery that lists a consumer before its producer.                  *)
Reversed == {Run(Sources, <<"leaf", "find">>, "find" :> <<"valid", "lower">>, {})}

(* A validation that reads a discovery, which stores nothing.              *)
Misread == [Sources EXCEPT !["valid"] = <<"find">>]
Misled  == {Run(Misread, <<"leaf", "find">>, "find" :> Pipeline, {})}

AnyScenario == MCScenarios \cup Overlapping \cup Blocked \cup Reversed \cup Misled

MCGraphs == {Sources, Joined, Misread}
=============================================================================
