------------------------------ MODULE MCPlanning ------------------------------
(* Every graph of three actions over three artifacts in which an action    *)
(* makes one artifact, two, or none, for four demands; and small families for    *)
(* the checks on lists, kinds, descriptors and physical work.              *)
EXTENDS PhysicalPlanning, SequencesExt

Ids == 1..3

Action(id, kind, inputs, outputs, work) ==
  [id |-> id, kind |-> kind, inputs |-> inputs, outputs |-> outputs, work |-> work]
Input(actions, demanded, physical) ==
  [versionIsOurs |-> TRUE, actions |-> actions, demanded |-> demanded, physical |-> physical]
Build(id, inputs, outputs) == Action(id, "cargo_build", inputs, outputs, None)

Graphs ==
  { Input([i \in Ids |-> Build(i, reads[i], makes[i])], demanded, <<>>) :
      reads \in [Ids -> SUBSET Ids],
      makes \in {<<>>, <<1>>} \X {<<>>, <<1>>, <<2>>, <<2, 3>>} \X {<<>>, <<1>>, <<3>>},
      demanded \in {{1}, {3}, {1, 2}, {}} }

(* Lists: the order of the actions, repeated ids, repeated outputs.        *)
Lists ==
  { Input(<<a, b, c>>, {1}, <<>>) :
      a \in {Build(3, {2}, <<3>>), Build(1, {3}, <<1>>)},
      b \in {Build(2, {}, <<2>>), Build(2, {}, <<2, 2>>), Build(1, {2}, <<2>>)},
      c \in {Build(1, {2, 3}, <<1>>), Build(3, {}, <<1>>)} }

Descriptor(ours, recomputed, reads) ==
  [schemaIsOurs |-> ours, recomputed |-> recomputed, reads |-> reads]
Name(ids) == {[instance_id |-> id] : id \in ids}
Works ==
  { Input(<<Build(2, {}, <<2>>), Action(1, kind, {2}, <<1>>, work)>>, {1}, physical) :
      kind \in {"cargo_build", "physical_work", "validate_ir"},
      work \in {None} \cup {Descriptor(ours, id, reads) :
                              ours \in BOOLEAN, id \in {1, 2, None}, reads \in SUBSET {2, 3}},
      physical \in {<<>>} \cup [{1} -> Name({1, 2})] \cup [{2} -> Name({2})] }

(* Contracts: the canonical one, and one with a cycle through an optional  *)
(* input, one that names a unit nobody has, one that makes what nobody     *)
(* reads.                                                                  *)
Also(id, u) ==
  [CanonicalContract EXCEPT !.units = [n \in DOMAIN @ |-> IF @[n].id = id THEN u ELSE @[n]]]
MCContracts ==
  LET u(id) == UnitOf(CanonicalContract, id)
  IN  <<CanonicalContract,
       Also("A3", [u("A3") EXCEPT !.inputs = @ \cup {Optional("SourceUnitGraph", "A4")}]),
       Also("A2", [u("A2") EXCEPT !.inputs = @ \cup {Optional("SourceUnitGraph", "A4")}]),
       Also("N5", [u("N5") EXCEPT !.inputs = @ \cup {In("ReachableNimModule", "N0")}]),
       Also("N4", [u("N4") EXCEPT !.outputs = @ \o <<"SourceUnitGraph">>])>>

Instance(id, unit, deps) ==
  [instance_id |-> id, unit |-> unit, group |-> UnitOf(CanonicalContract, unit).group,
   deps |-> deps, cpu |-> 1, memory |-> 1, io |-> 1, nested |-> 0,
   processes |-> UnitOf(CanonicalContract, unit).processes]

Requested(lists, demands) == {[instances |-> l, demanded |-> d] : l \in lists, d \in demands}
MCRequests ==
  (* two members, a graph and a selection that depend on any of the others *)
  Requested({ <<Instance(1, "A5", selection), Instance(2, "A3", {5}), Instance(3, "A4", graph),
                Instance(4, "A2", also), Instance(5, "A2", {})>> :
                selection \in SUBSET (2..5), graph \in SUBSET {1, 4, 5}, also \in SUBSET {3} },
            {{1}, {3}, {2, 4}})
  \cup
  (* generated C, compiled with or without its instantiation               *)
  Requested({ <<Instance(4, "N5", {3}), Instance(2, "N3", {1}), Instance(1, "N2", {}), Instance(3, "N4", {2}),
                Instance(5, "N6", {4}), [Instance(6, "N7", object) EXCEPT !.processes = slots]>> :
                object \in SUBSET {4, 5}, slots \in {0, 1} },
            {{6}, {5}, {1, 6}})
  \cup
  (* a foreign declaration, resolved, adapted, prepared and compiled       *)
  Requested({ <<Instance(1, "N2", {}), Instance(2, "N3", {1}), Instance(3, "N4", {2}), Instance(4, "N5", {3}),
                Instance(9, "ForeignTarget", {4}), Instance(8, "ForeignArtifact", {9}),
                Instance(7, "ForeignAdapter", {4, 8}), Instance(6, "ForeignPreparation", prepared),
                Instance(5, "ForeignObject", {6})>> : prepared \in SUBSET {7, 8} },
            {{5}, {6}, {8}})

MCInputs == Graphs \cup Lists \cup Works \cup {[i EXCEPT !.versionIsOurs = FALSE] : i \in Lists}

(* A plan that lost or gained an action, whose order, shape, physical work *)
(* or origin was changed.                                                  *)
MCDamaged(p) ==
  LET dom == DOMAIN p.actions
      instances == {id \in DOMAIN p.physical : p.physical[id] \notin Name(Ids)}
      without(id) == [x \in dom \ {id} |-> p.actions[x]]
  IN  {[p EXCEPT !.genuine = FALSE],
       [p EXCEPT !.ordered = Reverse(@)],
       [p EXCEPT !.ordered = @ \o @],
       [p EXCEPT !.ordered = Tail(<<0>> \o @ \o @)]}
      \cup {[p EXCEPT !.physical = [x \in dom |-> [instance_id |-> x]]] : none \in {instances} \cap {{}}}
      \cup {[p EXCEPT !.actions = without(id)] : id \in dom}
      \cup {[p EXCEPT !.actions = without(id), !.ordered = SelectSeq(@, LAMBDA x : x # id)] : id \in dom}
      \cup {[p EXCEPT !.actions[id].inputs = {}] : id \in dom}
      \cup {[p EXCEPT !.actions[id].outputs = p.actions[other].outputs] : id, other \in dom}
      \cup {[p EXCEPT !.physical[id].deps = @ \ {d}, !.actions[id].inputs = {x \in @ : x[1] # d}] :
               id \in instances, d \in dom}
      \cup {[p EXCEPT !.physical[id].unit = p.physical[other].unit] : id, other \in instances}
      \cup {[p EXCEPT !.actions[id].work = None] : id \in dom}

(* A plan of all actions in the order they are listed in.                  *)
MCFabricated(i) ==
  { [genuine |-> TRUE, ordered |-> [n \in DOMAIN i.actions |-> i.actions[n].id],
     physical |-> i.physical,
     actions |-> [id \in {a.id : a \in ActionsOf(i.actions)} |-> ById(i.actions, id)]] }
=============================================================================
