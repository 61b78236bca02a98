------------------------- MODULE MCCompilerWorkPool -------------------------
(* Small instances of CompilerWorkPool for TLC.                            *)
EXTENDS CompilerWorkPool, WorkIdentity

(* Every graph on three actions, also with an input named twice, with      *)
(* every set of failing computations.                                      *)
Three == 1 .. 3
Lists == {<<>>} \cup {<<v>> : v \in Three}
         \cup {<<vu[1], vu[2]>> : vu \in {x \in Three \X Three : x[1] <= x[2]}}

GraphPlans ==
  {p \in {[actions |-> Three, kind |-> [w \in Work |-> "LowerSource"],
           inputs |-> [w \in Work |-> IF w \in Three THEN i[w] ELSE <<>>],
           semantic |-> [w \in Work |-> None], fails |-> f] :
             i \in [Three -> Lists], f \in SUBSET Three} : Validated(p)}

(* Lower, validate, transform, validate, evaluate, with ids that do not    *)
(* follow the order; then the same with one action reading an artifact of  *)
(* the wrong kind, and with any one computation failing.                   *)
Pipeline(kinds, semantic, fails) ==
  [actions |-> Work, kind |-> kinds,
   inputs |-> [w \in Work |-> IF semantic[w] = None THEN <<>> ELSE <<semantic[w]>>],
   semantic |-> semantic, fails |-> fails]

Chain == <<"EvaluateEvidence", "LowerSource", "ValidateIr", "TransformFunction", "ValidateIr">>
Pair  == <<"EvaluateEvidence", "LowerSource", "ValidateIr", "GenerateNativeObject", "delegated">>

PipelinePlans ==
  {Pipeline(Chain, s, f) :
     s \in {<<5, None, 2, 3, 4>>, <<4, None, 2, 3, 4>>, <<5, None, 2, 2, 4>>,
            <<3, None, 2, 3, 3>>, <<2, None, 2, 3, None>>},
     f \in {S \in SUBSET Work : Cardinality(S) <= 1}}
  \cup
  {Pipeline(Pair, s, f) :
     s \in {<<3, None, 2, 3, None>>, <<5, None, 2, 2, 4>>},
     f \in {S \in SUBSET Work : Cardinality(S) <= 1}}

MCPlans == GraphPlans \cup PipelinePlans

AnyStore == {{}, Work}

(* Texts whose function names run into each other when put together.       *)
A == <<"a">>   B == <<"b">>   AB == <<"a", "b">>   BB == <<"b", "b">>
MCTexts    == [old |-> {A, B, AB, BB}, new |-> {A, B}]
MCRequests == {<<A, B>>, <<B, A>>, <<A \o <<",">> \o B>>, <<A, BB, AB, B>>}
MCCalls    == {<<A, B>>, <<A, BB>>, <<AB, B>>}
MCArity    == [f \in Functions |-> IF f = A THEN 2 ELSE 1]
MCTests    == {<<>>, <<<<1>>>>, <<<<1>>, <<2>>>>, <<<<1, 2>>>>}

(* A run is one call of the executor, or the life of a store.              *)
NoCall ==
  /\ plan = [actions |-> {}, kind |-> [w \in Work |-> "LowerSource"], inputs |-> [w \in Work |-> <<>>],
             semantic |-> [w \in Work |-> None], fails |-> {}]
  /\ selected = {} /\ kept = {} /\ remaining = [w \in Work |-> 0]
  /\ ready = <<>> /\ resolved = {} /\ successful = {} /\ errors = {} /\ store = Holding(plan, {})
  /\ pc = [t \in Workers |-> "exited"] /\ job = [t \in Workers |-> None]
NoStore == disk = <<>> /\ results = [m \in StoreMaps |-> <<>>]

(* A graph of lowerings reads nothing from the store, which starts empty.  *)
ExecutorInit ==
  \/ Init /\ (plan \in GraphPlans => kept = {}) /\ NoStore
  \/ NoCall /\ IdentityInit
ExecutorNext ==
  \/ Next /\ UNCHANGED identityVars
  \/ disk # <<>> /\ IdentityNext /\ UNCHANGED vars
ExecutorSpec ==
  /\ ExecutorInit /\ [][ExecutorNext]_<<vars, identityVars>>
  /\ \A t \in Workers : WF_<<vars, identityVars>>(Step(t) /\ UNCHANGED identityVars)
=============================================================================
