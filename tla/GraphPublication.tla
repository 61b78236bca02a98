-------------------------- MODULE GraphPublication --------------------------
(***************************************************************************)
(* An execution that publishes: an item that finishes publishes its whole  *)
(* output batch in the same step, and what is published is never replaced  *)
(* or withdrawn.                                                           *)
(***************************************************************************)
EXTENDS GraphExecution

CONSTANTS
  Target,    \* publication addresses, records with a field kind
  Contents

VARIABLES
  outputs,    \* the kinds each item declares
  published   \* target -> content

publicationVars == <<deps, done, dead, outputs, published>>

PublicationInit ==
  /\ ExecutionInit
  /\ published = [t \in {} |-> {}]

(* The targets written carry exactly the declared kinds, one each.         *)
WholeBatch(w, targets) ==
  /\ outputs[w] = {t.kind : t \in targets}
  /\ \A t, u \in targets : t.kind = u.kind => t = u

Publishes(w) ==
  /\ DOMAIN published \subseteq DOMAIN published'
  /\ \A t \in DOMAIN published : published'[t] = published[t]
  /\ \A t \in DOMAIN published' : published'[t] \in Contents
  /\ \E targets \in SUBSET Target :
       /\ WholeBatch(w, targets)
       /\ DOMAIN published' = DOMAIN published \cup targets

PublicationNext ==
  /\ UNCHANGED outputs
  /\ \/ GiveUp /\ UNCHANGED published
     \/ \E w \in Work : Finish(w) /\ Publishes(w)

PublicationSpec == PublicationInit /\ [][PublicationNext]_publicationVars
=============================================================================
