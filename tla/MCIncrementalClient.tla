------------------------ MODULE MCIncrementalClient -------------------------
(***************************************************************************)
(* The session under an arbitrary client of the wire protocol: events may  *)
(* come late, twice, under a used id, out of order, or name an action that *)
(* was superseded, cancelled or never planned.                             *)
(***************************************************************************)
EXTENDS IncrementalSession, TLC

CONSTANTS
  Starts,    \* the contents a StartSession may have
  Deltas,    \* the contents an event may have
  Events,    \* event ids
  MaxIndex   \* bound: the last command index the client uses

ASSUME ClientAssumption == MaxIndex \in Nat

(* What may be sent now: until the bound, and an older generation only     *)
(* where there is one.                                                     *)
Sendable ==
  {ev \in Deltas : /\ lastIndex < MaxIndex
                   /\ ev.kind = "dependency_discovered" => (ev.behind => generation > 0)}

Spec == SessionInit /\ [][SessionNext(Starts, Sendable, Events)]_session

-----------------------------------------------------------------------------
(* Four actions: a source action a, b and c that may build on it, and d,   *)
(* which may replace either.                                               *)

MCActions == {"a", "b", "c", "d"}
MCEvents  == {"e1", "e2", "e3", "e4"}

Chain    == [a |-> <<>>, b |-> <<"a">>, c |-> <<"a", "b">>, d |-> <<"a">>]
Diamond  == [a |-> <<>>, b |-> <<"a">>, c |-> <<"a">>, d |-> <<"b", "c">>]
Circular == [a |-> <<>>, b |-> <<"a", "c">>, c |-> <<"b">>, d |-> <<"b">>]
MCGraphs == {Chain, Diamond, Circular}

Start(list, demanded, demands) == [list |-> list, demanded |-> demanded, demands |-> demands]
NoDemand == [x \in MCActions |-> 0]
DemandAll == [x \in MCActions |-> 1]

MCStarts ==
  {Start(l, {}, NoDemand) : l \in {<<>>, <<"a">>, <<"b">>, <<"a", "a">>, <<"b", "a">>}}
  \cup {Start(<<"a", "b">>, {"b"}, NoDemand), Start(<<"a", "b">>, {"b"}, [NoDemand EXCEPT !["b"] = 2]),
        Start(<<"a", "b", "c">>, {}, DemandAll), Start(<<"a", "b">>, {"d"}, NoDemand)}

Simple == {Completion(a) : a \in MCActions} \cup {Failure(a) : a \in MCActions}
          \cup {Demand("a"), Demand("b"), Cancellation("a"), Cancellation("b"), Cancellation("c")}

Plain(lists) == {Discovery(l, <<>>, {}, FALSE) : l \in lists}

MCDeltas ==
  Simple
  \cup Plain({<<>>, <<"b">>, <<"b", "c">>, <<"c", "b">>, <<"c", "d">>})
  \cup {Discovery(<<"b">>, <<>>, {"b"}, TRUE),
        Discovery(<<"d">>, "b" :> "d", {}, FALSE),
        Discovery(<<"d">>, "a" :> "d" @@ "b" :> "d", {"b"}, FALSE),
        Discovery(<<"d">>, "b" :> "c", {}, FALSE)}

=============================================================================
