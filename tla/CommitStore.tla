---------------------------- MODULE CommitStore ----------------------------
(***************************************************************************)
(* The publication store of the resource scheduler                         *)
(* (crates/laminaria-run/src/resource_scheduler.rs, struct CommitStore).   *)
(*                                                                         *)
(* A writer stages a whole batch of outputs, which stays invisible; commit *)
(* publishes the batch in one assignment; discard forgets it.  A target    *)
(* that is already published or staged accepts only equal content.         *)
(*                                                                         *)
(* Content stands for the bytes and their digest.  A kind stands for the   *)
(* triple (boundary, key space, output kind), which the writer's work unit *)
(* fixes for each of its declared output kinds.                            *)
(***************************************************************************)
EXTENDS Integers

CONSTANTS
  N,         \* number of work instances; an instance is its rank in id order
  Kinds,     \* output kinds
  Keys,      \* logical keys
  EmptyKey,  \* the key the store refuses
  Contents   \* distinguishable byte contents

ASSUME StoreAssumption == N \in Nat \ {0}

VARIABLES
  staged,           \* staged_by_writer; {} when the writer has no entry
  committed,        \* target -> published content and its first writer
  committedTargets  \* committed_targets_by_writer; {} when there is no entry

storeVars == <<staged, committed, committedTargets>>

Work   == 1 .. N
Write  == [kind : Kinds, key : Keys \cup {EmptyKey}, content : Contents]
Target == [kind : Kinds, key : Keys \cup {EmptyKey}]

TargetOf(o)       == [kind |-> o.kind, key |-> o.key]
TargetsOf(batch)  == {TargetOf(o) : o \in batch}
ContentFor(t, batch) == (CHOOSE o \in batch : TargetOf(o) = t).content

(* Mutant: staged content of other writers is not looked at.               *)
ExistingOnlyCommitted(t) == IF t \in DOMAIN committed THEN {committed[t].content} ELSE {}

(* What reject_conflicting_content compares with: the published content    *)
(* when there is one, otherwise what is staged.  The code looks at the     *)
(* first staged output it finds; CommitNeverRejected makes all agree.      *)
ExistingContents(t) ==
  IF t \in DOMAIN committed
  THEN {committed[t].content}
  ELSE {o.content : o \in {s \in UNION {staged[v] : v \in Work} : TargetOf(s) = t}}

Conflicts(o) == \E c \in ExistingContents(TargetOf(o)) : c # o.content

(* Mutant: a batch may leave declared outputs out.                         *)
StageAcceptsPartial(outputs, batch) ==
  /\ batch # {}
  /\ \A o \in batch : o.kind \in outputs /\ o.key # EmptyKey /\ ~Conflicts(o)
  /\ \A o, p \in batch : o.kind = p.kind => o = p

(* The batches `stage` accepts from a writer that declares `outputs`.      *)
StageAccepts(outputs, batch) ==
  /\ batch # {}
  /\ \A o \in batch : o.kind \in outputs /\ o.key # EmptyKey /\ ~Conflicts(o)
  /\ \A o, p \in batch : o.kind = p.kind => o = p
  /\ outputs \subseteq {o.kind : o \in batch}

Stage(w, batch) ==
  /\ staged' = [staged EXCEPT ![w] = batch]
  /\ UNCHANGED <<committed, committedTargets>>

CommitAccepts(w) ==
  /\ staged[w] # {}
  /\ \A o \in staged[w] : ~Conflicts(o)

(* An already published target keeps its content and its first writer.     *)
Publish(w) ==
  LET targets == TargetsOf(staged[w]) IN
  /\ committed' = [t \in DOMAIN committed \cup targets |->
                     IF t \in DOMAIN committed
                     THEN committed[t]
                     ELSE [content |-> ContentFor(t, staged[w]), writer |-> w]]
  /\ committedTargets' = [committedTargets EXCEPT ![w] = targets]
  /\ staged' = [staged EXCEPT ![w] = {}]

Discard(w) ==
  /\ staged' = [staged EXCEPT ![w] = {}]
  /\ UNCHANGED <<committed, committedTargets>>

(* outputs_for_writer: what a reader of w's results is handed.             *)
OutputsForWriter(w) ==
  {[target |-> t, content |-> committed[t].content] :
     t \in committedTargets[w] \cap DOMAIN committed}

StoreInit ==
  /\ staged = [w \in Work |-> {}]
  /\ committed = [t \in {} |-> {}]
  /\ committedTargets = [w \in Work |-> {}]

StoreTypeOK ==
  /\ staged \in [Work -> SUBSET Write]
  /\ committed = [t \in DOMAIN committed |-> committed[t]]
  /\ DOMAIN committed \subseteq Target
  /\ \A t \in DOMAIN committed : committed[t] \in [content : Contents, writer : Work]
  /\ committedTargets \in [Work -> SUBSET Target]
=============================================================================
