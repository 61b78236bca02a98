---------------------- MODULE ResolvedProductionProofs ----------------------
(***************************************************************************)
(* Proofs about ResolvedProduction: whatever is recorded, by the driver or *)
(* by any other caller, in any order and with any sequence numbers, the    *)
(* gate opens only on recorded causes, and never again after a record that *)
(* failed half-way; what it lets through has, for what the files and the   *)
(* facts require, a selected package that declares it; and resolve makes   *)
(* the same graph of the facts and of the pruned facts.                    *)
(***************************************************************************)
EXTENDS ResolvedProduction, FiniteSetTheorems, WellFoundedInduction, NaturalsInduction, TLAPS

-----------------------------------------------------------------------------
(* Lists *)

IsList(s) == Len(s) \in Nat /\ s = [i \in 1 .. Len(s) |-> s[i]]

LEMMA ListIsSeq ==
  ASSUME NEW s, IsList(s)
  PROVE  /\ s \in Seq({s[i] : i \in 1 .. Len(s)})
         /\ DOMAIN s = 1 .. Len(s)
         /\ Range(s) = {s[i] : i \in 1 .. Len(s)}
<1>1. DOMAIN s = 1 .. Len(s)
  BY DEF IsList
<1>2. s \in [1 .. Len(s) -> {s[i] : i \in 1 .. Len(s)}]
  BY DEF IsList
<1>3. s \in Seq({s[i] : i \in 1 .. Len(s)})
  BY <1>2 DEF IsList
<1> QED BY <1>1, <1>3 DEF Range

LEMMA SeqIsList ==
  ASSUME NEW S, NEW s \in Seq(S)
  PROVE  IsList(s)
<1>1. Len(s) \in Nat /\ DOMAIN s = 1 .. Len(s)
  OBVIOUS
<1>2. s = [i \in 1 .. Len(s) |-> s[i]]
  BY <1>1
<1> QED BY <1>1, <1>2 DEF IsList

LEMMA FunctionIsList ==
  ASSUME NEW n \in Nat, NEW f, f = [i \in 1 .. n |-> f[i]]
  PROVE  Len(f) = n /\ IsList(f)
<1>1. f \in [1 .. n -> {f[i] : i \in 1 .. n}]
  OBVIOUS
<1> QED BY <1>1 DEF IsList

LEMMA ListAppend ==
  ASSUME NEW s, IsList(s), NEW x
  PROVE  /\ IsList(Append(s, x))
         /\ Len(Append(s, x)) = Len(s) + 1
         /\ \A i \in 1 .. Len(s) : Append(s, x)[i] = s[i]
         /\ Append(s, x)[Len(s) + 1] = x
<1> DEFINE S == {s[i] : i \in 1 .. Len(s)} \cup {x}
<1>1. s \in Seq(S) /\ x \in S
  <2>1. s \in [1 .. Len(s) -> S] /\ Len(s) \in Nat
    BY DEF IsList
  <2> QED BY <2>1
<1>2. Append(s, x) \in Seq(S)
  <2> HIDE DEF S
  <2> QED BY <1>1
<1>3. IsList(Append(s, x))
  <2> HIDE DEF S
  <2> QED BY <1>2, SeqIsList
<1>4. /\ Len(Append(s, x)) = Len(s) + 1
      /\ \A i \in 1 .. Len(s) : Append(s, x)[i] = s[i]
      /\ Append(s, x)[Len(s) + 1] = x
  <2> HIDE DEF S
  <2> QED BY <1>1
<1> QED BY <1>3, <1>4

LEMMA EmptyList == IsList(<<>>) /\ Len(<<>>) = 0
  BY DEF IsList

-----------------------------------------------------------------------------
(* The invariant of the records *)

Obs      == Lifecycle!Obligations
Final    == Lifecycle!Final
Settled  == Final \cup {"Rejected"}
Recorded == Lifecycle!Recorded

Discharges(a) == Range(closure.discharges[a])

(* The books are kept for the obligations of the graph, and an action      *)
(* names what it discharges in a list.                                     *)
Booked ==
  /\ status   = [o \in Obs |-> status[o]]
  /\ required = [o \in Obs |-> required[o]]
  /\ history  = [o \in Obs |-> history[o]]
  /\ \A o \in Obs : IsList(history[o])
  /\ \A a \in Lifecycle!Actions : IsList(closure.discharges[a])

(* What is recorded has closed all that it discharges.                     *)
RecordsClose ==
  \A op \in operations :
    /\ op.action \in Lifecycle!Actions
    /\ \A o \in Discharges(op.action) : o \in Obs /\ status[o] \in Lifecycle!Closed

(* An action that is required stays required, perhaps another one.         *)
RequiredKept == \A o \in Obs : required[o] = {} => closure.required[o] = {}

(* The transition t closed o, and is about it.  An action that is not      *)
(* recorded is one whose record failed half-way.                           *)
Because(o, t) ==
  \/ /\ t.cause = <<"resolution">> /\ t.to = "Discharged"
     /\ required[o] = {} /\ closure.required[o] = {}
  \/ \E a \in Lifecycle!Actions :
       /\ t.cause = <<"action", a>> /\ t.to = "Discharged"
       /\ o \in Discharges(a) /\ required[o] = {a}
       /\ a \in Recorded => \E op \in operations : op.action = a /\ op.seq = t.seq
  \/ /\ t.cause = <<"contract">> /\ t.to = "Externalized" /\ t.seq \in contracts

(* A final state is kept, and every transition that closes has its cause.  *)
Justified ==
  \A o \in Obs : \A i \in 1 .. Len(history[o]) :
    /\ history[o][i].to \in Final => status[o] = history[o][i].to
    /\ history[o][i].to \in Lifecycle!Closed => Because(o, history[o][i])

(* What resolve rejected stays rejected.                                   *)
RejectedStays == \A o \in Obs : closure.status[o] = "Rejected" => status[o] = "Rejected"

LifecycleInv == Booked /\ RecordsClose /\ RequiredKept /\ Justified /\ RejectedStays

-----------------------------------------------------------------------------
(* What every record does to an obligation: nothing, or, if it was not in  *)
(* a final state, it moves it, with or without a transition that says why. *)

Same(o) == status'[o] = status[o] /\ required'[o] = required[o] /\ history'[o] = history[o]

Advanced(o) ==
  /\ status[o] \notin Settled
  /\ required'[o] = {} => required[o] = {}
  /\ \/ history'[o] = history[o]
     \/ \E t : /\ history'[o] = Append(history[o], t)
               /\ t.to = status'[o]
               /\ t.to \in Lifecycle!Closed => Because(o, t)'

(* An operation is recorded only when all that it discharges is chosen,    *)
(* and is closed by it.                                                    *)
Completing(op) ==
  /\ op.action \in Lifecycle!Actions
  /\ \A o \in Discharges(op.action) : /\ o \in Obs /\ status[o] \in Chosen
                                      /\ status'[o] \in Lifecycle!Closed

Lawful ==
  /\ closure' = closure
  /\ Booked'
  /\ operations \subseteq operations' /\ contracts \subseteq contracts'
  /\ \A o \in Obs : Same(o) \/ Advanced(o)
  /\ \A op \in operations' \ operations : Completing(op)

LEMMA FinalOrChosen ==
  /\ Chosen \cap Settled = {}
  /\ Lifecycle!Closed \subseteq Final /\ Final \subseteq Settled
  /\ "Rejected" \in Settled /\ "Unresolved" \notin Settled
  BY DEF Chosen, Settled, Final, Lifecycle!Final, Lifecycle!Closed

(* An action that closed something without being recorded is never         *)
(* recorded later.                                                         *)
LEMMA NeverRecorded ==
  ASSUME LifecycleInv, Lawful, NEW o \in Obs, status[o] \in Final,
         NEW a, o \in Discharges(a), a \notin Recorded
  PROVE  a \notin Recorded'
<1>1. SUFFICES ASSUME NEW op \in operations', op.action = a PROVE FALSE
  BY DEF Recorded, Lifecycle!Recorded
<1>2. op \notin operations
  BY <1>1 DEF Recorded, Lifecycle!Recorded
<1>3. status[o] \in Chosen
  BY <1>1, <1>2 DEF Lawful, Completing
<1> QED BY <1>3, FinalOrChosen

LEMMA SameObligations ==
  ASSUME closure' = closure
  PROVE  /\ Obs' = Obs /\ Lifecycle!Actions' = Lifecycle!Actions
         /\ \A a : Discharges(a)' = Discharges(a)
  BY DEF Obs, Lifecycle!Obligations, Lifecycle!Actions, Discharges

(* Nothing that closed before loses its cause.                             *)
LEMMA CausesStay ==
  ASSUME LifecycleInv, Lawful, NEW o \in Obs, Same(o), status[o] \in Final,
         NEW t, Because(o, t)
  PROVE  Because(o, t)'
<1>1. CASE /\ t.cause = <<"resolution">> /\ t.to = "Discharged"
           /\ required[o] = {} /\ closure.required[o] = {}
  BY <1>1 DEF Because, Same, Lawful
<1>2. CASE t.cause = <<"contract">> /\ t.to = "Externalized" /\ t.seq \in contracts
  BY <1>2 DEF Because, Lawful
<1>3. CASE \E a \in Lifecycle!Actions :
             /\ t.cause = <<"action", a>> /\ t.to = "Discharged"
             /\ o \in Discharges(a) /\ required[o] = {a}
             /\ a \in Recorded => \E op \in operations : op.action = a /\ op.seq = t.seq
  <2>1. PICK a \in Lifecycle!Actions :
             /\ t.cause = <<"action", a>> /\ t.to = "Discharged"
             /\ o \in Discharges(a) /\ required[o] = {a}
             /\ a \in Recorded => \E op \in operations : op.action = a /\ op.seq = t.seq
    BY <1>3
  <2>2. /\ a \in Lifecycle!Actions' /\ o \in Discharges(a)'
        /\ required'[o] = {a} /\ operations \subseteq operations'
    BY <2>1, SameObligations DEF Lawful, Same
  <2>3. a \in Recorded' => \E op \in operations' : op.action = a /\ op.seq = t.seq
    <3>1. a \notin Recorded => a \notin Recorded'
      BY <2>1, NeverRecorded
    <3> QED BY <2>1, <2>2, <3>1
  <2> QED BY <2>1, <2>2, <2>3 DEF Because
<1> QED BY <1>1, <1>2, <1>3 DEF Because

LEMMA LawfulKeeps ==
  ASSUME LifecycleInv, Lawful
  PROVE  LifecycleInv'
<1>1. /\ Obs' = Obs /\ Lifecycle!Actions' = Lifecycle!Actions
      /\ \A a : Discharges(a)' = Discharges(a)
      /\ closure' = closure /\ Booked'
  BY SameObligations DEF Lawful
<1>2. \A o \in Obs : status[o] \in Settled => Same(o)
  BY DEF Lawful, Advanced
<1>3. RecordsClose'
  <2> SUFFICES ASSUME NEW op \in operations'
               PROVE  /\ op.action \in Lifecycle!Actions
                      /\ \A o \in Discharges(op.action) : o \in Obs /\ status'[o] \in Lifecycle!Closed
    BY <1>1 DEF RecordsClose, Lifecycle!Closed
  <2>1. CASE op \in operations
    BY <1>2, <2>1, FinalOrChosen DEF LifecycleInv, RecordsClose, Same
  <2>2. CASE op \notin operations
    BY <2>2 DEF Lawful, Completing
  <2> QED BY <2>1, <2>2
<1>4. RequiredKept'
  <2> SUFFICES ASSUME NEW o \in Obs, required'[o] = {} PROVE closure.required[o] = {}
    BY <1>1 DEF RequiredKept
  <2>1. required[o] = {}
    BY DEF Lawful, Same, Advanced
  <2> QED BY <2>1 DEF LifecycleInv, RequiredKept
<1>5. Justified'
  <2> SUFFICES ASSUME NEW o \in Obs, NEW i \in 1 .. Len(history'[o])
               PROVE  /\ history'[o][i].to \in Final => status'[o] = history'[o][i].to
                      /\ history'[o][i].to \in Lifecycle!Closed => Because(o, history[o][i])'
    BY <1>1 DEF Justified, Final, Lifecycle!Final, Lifecycle!Closed
  <2>1. ASSUME NEW k \in 1 .. Len(history[o])
        PROVE  /\ history[o][k].to \in Final => status[o] = history[o][k].to
               /\ history[o][k].to \in Lifecycle!Closed => Because(o, history[o][k])
    BY DEF LifecycleInv, Justified
  <2>2. CASE Same(o)
    <3>1. i \in 1 .. Len(history[o]) /\ history'[o] = history[o] /\ status'[o] = status[o]
      BY <2>2 DEF Same
    <3>2. ASSUME history[o][i].to \in Lifecycle!Closed PROVE Because(o, history[o][i])'
      <4>1. PICK t : t = history[o][i]
        OBVIOUS
      <4>2. Because(o, t) /\ status[o] \in Final
        BY <2>1, <3>1, <3>2, <4>1, FinalOrChosen
      <4>3. Because(o, t)'
        BY <2>2, <4>2, CausesStay
      <4>4. t = history'[o][i]
        BY <3>1, <4>1
      <4> QED BY <4>3, <4>4 DEF Because
    <3> QED BY <2>1, <3>1, <3>2
  <2>3. CASE Advanced(o)
    <3>1. ASSUME NEW k \in 1 .. Len(history[o]) PROVE history[o][k].to \notin Final
      BY <2>1, <2>3 DEF Advanced, Settled
    <3>2. CASE history'[o] = history[o]
      BY <3>1, <3>2, FinalOrChosen
    <3>3. CASE history'[o] # history[o]
      <4>1. PICK t : /\ history'[o] = Append(history[o], t)
                     /\ t.to = status'[o]
                     /\ t.to \in Lifecycle!Closed => Because(o, t)'
        BY <2>3, <3>3 DEF Advanced
      <4>2. IsList(history[o])
        BY DEF LifecycleInv, Booked
      <4>3. CASE i \in 1 .. Len(history[o])
        <5>1. history'[o][i] = history[o][i]
          BY <4>1, <4>2, <4>3, ListAppend
        <5> QED BY <3>1, <4>3, <5>1, FinalOrChosen
      <4>4. CASE i = Len(history[o]) + 1
        <5>1. history'[o][i] = t
          BY <4>1, <4>2, <4>4, ListAppend
        <5> QED BY <4>1, <5>1 DEF Because
      <4>5. Len(history'[o]) = Len(history[o]) + 1 /\ Len(history[o]) \in Nat
        BY <4>1, <4>2, ListAppend DEF IsList
      <4> QED BY <4>3, <4>4, <4>5
    <3> QED BY <3>2, <3>3
  <2> QED BY <2>2, <2>3 DEF Lawful
<1>6. RejectedStays'
  <2> SUFFICES ASSUME NEW o \in Obs, closure.status[o] = "Rejected" PROVE status'[o] = "Rejected"
    BY <1>1 DEF RejectedStays
  <2>1. status[o] = "Rejected"
    BY DEF LifecycleInv, RejectedStays
  <2> QED BY <1>2, <2>1, FinalOrChosen DEF Same
<1> QED BY <1>1, <1>3, <1>4, <1>5, <1>6 DEF LifecycleInv

(* What the gate checks, with what every transition that closes has        *)
(* behind it.                                                              *)
LEMMA InvIsHonest ==
  ASSUME LifecycleInv
  PROVE  Lifecycle!PublishedIsCaused
<1> SUFFICES ASSUME NEW b \in Lifecycle!Actions, Lifecycle!Publishable(b),
                    NEW o \in Obs, o \in Lifecycle!Reachable
             PROVE  \/ \E op \in operations : /\ o \in Range(closure.discharges[op.action])
                                              /\ history[o][Len(history[o])].cause = <<"action", op.action>>
                                              /\ history[o][Len(history[o])].seq = op.seq
                    \/ /\ history[o][Len(history[o])].cause = <<"contract">>
                       /\ history[o][Len(history[o])].seq \in contracts
                    \/ /\ history[o][Len(history[o])].cause = <<"resolution">>
                       /\ closure.required[o] = {}
  BY DEF Lifecycle!PublishedIsCaused, Obs, Range, Lifecycle!Range
<1>1. /\ status[o] \in Lifecycle!Closed
      /\ ~Lifecycle!MissingCause(o) /\ ~Lifecycle!InvalidHistory(o)
  BY DEF Lifecycle!Publishable, Obs
<1>2. /\ history[o] # <<>>
      /\ history[o][Len(history[o])].to = status[o]
  BY <1>1, FinalOrChosen DEF Lifecycle!InvalidHistory, Final
<1>3. Len(history[o]) \in 1 .. Len(history[o])
  BY <1>2 DEF LifecycleInv, Booked, IsList
<1> DEFINE last == history[o][Len(history[o])]
<1>4. Because(o, last)
  BY <1>1, <1>2, <1>3 DEF LifecycleInv, Justified
<1>5. ASSUME NEW a \in Lifecycle!Actions, last.cause = <<"action", a>>, last.to = "Discharged",
             o \in Discharges(a), required[o] = {a},
             a \in Recorded => \E op \in operations : op.action = a /\ op.seq = last.seq
      PROVE  \E op \in operations : /\ o \in Range(closure.discharges[op.action])
                                    /\ last.cause = <<"action", op.action>> /\ last.seq = op.seq
  <2>1. a \in Recorded
    BY <1>1, <1>2, <1>5 DEF Lifecycle!MissingCause, Recorded
  <2> QED BY <1>5, <2>1 DEF Discharges
<1> HIDE DEF last
<1>6. \/ \E op \in operations : /\ o \in Range(closure.discharges[op.action])
                                /\ last.cause = <<"action", op.action>> /\ last.seq = op.seq
      \/ last.cause = <<"contract">> /\ last.seq \in contracts
      \/ last.cause = <<"resolution">> /\ closure.required[o] = {}
  BY <1>4, <1>5 DEF Because
<1> QED BY <1>6 DEF last

(* A record that failed half-way: it stays as it is, and the gate is shut. *)
LEMMA LawfulIsHonest ==
  ASSUME LifecycleInv, Lawful
  PROVE  Lifecycle!HonestStep
<1>1. LifecycleInv'
  BY LawfulKeeps
<1>2. Lifecycle!PublishedIsCaused'
  BY <1>1, InvIsHonest, PTL
<1>3. ASSUME NEW o \in Obs, Lifecycle!Torn(o)
      PROVE  Lifecycle!Torn(o)' /\ \A a \in Lifecycle!Actions : ~Lifecycle!Publishable(a)
  <2>1. status[o] \in Final
    BY <1>3 DEF Lifecycle!Torn, Final
  <2>2. Same(o)
    BY <2>1, FinalOrChosen DEF Lawful, Advanced
  <2>3. ASSUME Lifecycle!MissingCause(o), history[o] # <<>>,
               history[o][Len(history[o])].to = status[o]
        PROVE  Lifecycle!MissingCause(o)'
    <3>1. required[o] # {} /\ status[o] = "Discharged" /\ ~(required[o] \subseteq Recorded)
      BY <2>3 DEF Lifecycle!MissingCause, Recorded
    <3>2. Len(history[o]) \in 1 .. Len(history[o])
      BY <2>3 DEF LifecycleInv, Booked, IsList
    <3>3. PICK t : t = history[o][Len(history[o])]
      OBVIOUS
    <3>4. t.to = "Discharged" /\ "Discharged" \in Lifecycle!Closed
      BY <2>3, <3>1, <3>3 DEF Lifecycle!Closed
    <3>5. Because(o, t)
      BY <3>2, <3>3, <3>4 DEF LifecycleInv, Justified
    <3>6. PICK a : o \in Discharges(a) /\ required[o] = {a}
      BY <3>1, <3>4, <3>5 DEF Because
    <3>7. a \notin Recorded'
      BY <2>1, <3>1, <3>6, NeverRecorded
    <3>8. required'[o] = {a} /\ status'[o] = "Discharged"
      BY <2>2, <3>1, <3>6 DEF Same
    <3> QED BY <3>7, <3>8 DEF Lifecycle!MissingCause, Recorded
  <2>4. Lifecycle!Torn(o)'
    <3>1. \/ history[o] = <<>> \/ history[o][Len(history[o])].to # status[o]
          \/ Lifecycle!MissingCause(o)'
      BY <1>3, <2>3 DEF Lifecycle!Torn
    <3>2. status'[o] \in Lifecycle!Final /\ status'[o] = status[o] /\ history'[o] = history[o]
      BY <2>1, <2>2 DEF Same, Final
    <3> QED BY <3>1, <3>2 DEF Lifecycle!Torn, Lifecycle!Final, Lifecycle!Closed
  <2>5. Lifecycle!MissingCause(o) \/ Lifecycle!InvalidHistory(o)
    BY <1>3, <2>1 DEF Lifecycle!Torn, Lifecycle!InvalidHistory, Final
  <2> QED BY <2>4, <2>5 DEF Lifecycle!Publishable, Obs
<1> QED BY <1>2, <1>3 DEF Lifecycle!HonestStep, Obs

-----------------------------------------------------------------------------
(* One move *)

Books(p) ==
  /\ p = [status |-> p.status, required |-> p.required, history |-> p.history, error |-> p.error]
  /\ p.status   = [o \in Obs |-> p.status[o]]
  /\ p.required = [o \in Obs |-> p.required[o]]
  /\ p.history  = [o \in Obs |-> p.history[o]]
  /\ \A o \in Obs : IsList(p.history[o])

(* The books of the others stay.                                           *)
Others(p, q, o) ==
  \A x \in Obs \ {o} :
    q.status[x] = p.status[x] /\ q.required[x] = p.required[x] /\ q.history[x] = p.history[x]

LEMMA MovedBooks ==
  ASSUME NEW p, Books(p), NEW o \in Obs, NEW seq, NEW from, NEW to, NEW cause,
         NEW q, q = Lifecycle!Moved(p, o, seq, from, to, cause)
  PROVE  /\ Books(q) /\ Others(p, q, o)
         /\ q.status[o] = to /\ q.required[o] = p.required[o]
         /\ \/ q.history[o] = p.history[o] /\ q.error = "transition"
            \/ /\ q.history[o] = Append(p.history[o], Lifecycle!Transition(seq, from, to, cause))
               /\ q.error = p.error
<1> DEFINE S == [p.status EXCEPT ![o] = to]
           t == Lifecycle!Transition(seq, from, to, cause)
           H == [p.history EXCEPT ![o] = Append(p.history[o], t)]
<1>1. CASE Lifecycle!Follows(p.history[o], from, seq)
  <2>1. q = [status |-> S, required |-> p.required, history |-> H, error |-> p.error]
    BY <1>1 DEF Lifecycle!Moved, Books
  <2>2. /\ q.status = S /\ q.required = p.required /\ q.history = H /\ q.error = p.error
        /\ q = [status |-> q.status, required |-> q.required, history |-> q.history, error |-> q.error]
    BY <2>1
  <2>3. /\ S = [x \in Obs |-> S[x]] /\ S[o] = to
        /\ H = [x \in Obs |-> H[x]] /\ H[o] = Append(p.history[o], t)
        /\ \A x \in Obs \ {o} : S[x] = p.status[x] /\ H[x] = p.history[x]
    BY DEF Books
  <2>4. \A x \in Obs : IsList(H[x])
    BY <2>3, ListAppend DEF Books
  <2> HIDE DEF S, H, t
  <2> QED BY <2>2, <2>3, <2>4 DEF Books, Others, t
<1>2. CASE ~Lifecycle!Follows(p.history[o], from, seq)
  <2>1. q = [status |-> S, required |-> p.required, history |-> p.history, error |-> "transition"]
    BY <1>2 DEF Lifecycle!Moved, Books
  <2>2. /\ q.status = S /\ q.required = p.required /\ q.history = p.history /\ q.error = "transition"
        /\ q = [status |-> q.status, required |-> q.required, history |-> q.history, error |-> q.error]
    BY <2>1
  <2>3. /\ S = [x \in Obs |-> S[x]] /\ S[o] = to
        /\ \A x \in Obs \ {o} : S[x] = p.status[x]
    BY DEF Books
  <2> HIDE DEF S
  <2> QED BY <2>2, <2>3 DEF Books, Others
<1> QED BY <1>1, <1>2

(* A record starts from the books as they are, and keeps what they become. *)
LEMMA ProgressBooks ==
  ASSUME Booked, NEW p, p = Lifecycle!Progress
  PROVE  /\ Books(p) /\ p.error = "none"
         /\ p.status = status /\ p.required = required /\ p.history = history
  BY DEF Lifecycle!Progress, Books, Booked

LEMMA KeepBooks ==
  ASSUME Booked, NEW p, Books(p), Lifecycle!Keep(p)
  PROVE  /\ Booked' /\ closure' = closure
         /\ status' = p.status /\ required' = p.required /\ history' = p.history
<1>1. /\ closure' = closure
      /\ status' = p.status /\ required' = p.required /\ history' = p.history
  BY DEF Lifecycle!Keep
<1>2. Obs' = Obs /\ Lifecycle!Actions' = Lifecycle!Actions
  BY <1>1, SameObligations
<1>3. /\ status' = [o \in Obs |-> status'[o]]
      /\ required' = [o \in Obs |-> required'[o]]
      /\ history' = [o \in Obs |-> history'[o]]
      /\ \A o \in Obs : IsList(history'[o])
  BY <1>1 DEF Books
<1>4. \A a \in Lifecycle!Actions : IsList(closure'.discharges[a])
  BY <1>1 DEF Booked
<1> QED BY <1>1, <1>2, <1>3, <1>4 DEF Booked, IsList

(* A record of one move, with its evidence if the move succeeds.           *)
LEMMA OneMove ==
  ASSUME LifecycleInv, NEW o \in Obs, status[o] \notin Settled,
         NEW seq, NEW from, NEW to, NEW cause,
         NEW q, q = Lifecycle!Moved(Lifecycle!Progress, o, seq, from, to, cause), Lifecycle!Keep(q),
         NEW t, t = Lifecycle!Transition(seq, from, to, cause),
         q.error = "none" /\ to \in Lifecycle!Closed => Because(o, t)'
  PROVE  /\ Booked' /\ closure' = closure /\ status'[o] = to
         /\ \A x \in Obs : Same(x) \/ Advanced(x)
<1>1. PICK p : p = Lifecycle!Progress
  OBVIOUS
<1>2. /\ Books(p) /\ p.error = "none"
      /\ p.status = status /\ p.required = required /\ p.history = history
  BY <1>1, ProgressBooks DEF LifecycleInv
<1>3. /\ Books(q) /\ Others(p, q, o)
      /\ q.status[o] = to /\ q.required[o] = p.required[o]
      /\ \/ q.history[o] = p.history[o] /\ q.error = "transition"
         \/ q.history[o] = Append(p.history[o], t) /\ q.error = p.error
  BY <1>1, <1>2, MovedBooks
<1>4. /\ Booked' /\ closure' = closure
      /\ status' = q.status /\ required' = q.required /\ history' = q.history
  BY <1>3, KeepBooks DEF LifecycleInv
<1>5. \A x \in Obs \ {o} : Same(x)
  BY <1>2, <1>3, <1>4 DEF Others, Same
<1>6. t.to = to
  BY DEF Lifecycle!Transition
<1>7. Advanced(o)
  <2>1. required'[o] = required[o] /\ status'[o] = to
    BY <1>2, <1>3, <1>4
  <2>2. CASE q.history[o] = p.history[o]
    BY <1>2, <1>4, <2>1, <2>2 DEF Advanced
  <2>3. CASE q.history[o] = Append(p.history[o], t) /\ q.error = "none"
    BY <1>2, <1>4, <1>6, <2>1, <2>3 DEF Advanced
  <2> QED BY <1>2, <1>3, <2>2, <2>3
<1> QED BY <1>3, <1>4, <1>5, <1>7

LEMMA ExternalizeIsLawful ==
  ASSUME LifecycleInv, NEW o \in Obs, NEW seq, Lifecycle!ExternalizeRuntime(o, seq)
  PROVE  Lawful
<1>1. PICK q : q = Lifecycle!Externalized(o, seq)
  OBVIOUS
<1>2. PICK t : t = Lifecycle!Transition(seq, Lifecycle!Before(o), "Externalized", <<"contract">>)
  OBVIOUS
<1>3. /\ Lifecycle!Keep(q) /\ status[o] \notin Settled /\ operations' = operations
      /\ contracts' = IF q.error = "none" THEN contracts \cup {seq} ELSE contracts
  BY <1>1, FinalOrChosen DEF Lifecycle!ExternalizeRuntime, Chosen, Lifecycle!Chosen
<1>4. q.error = "none" => Because(o, t)'
  BY <1>2, <1>3 DEF Because, Lifecycle!Transition
<1>5. /\ Booked' /\ closure' = closure
      /\ \A x \in Obs : Same(x) \/ Advanced(x)
  BY <1>1, <1>2, <1>3, <1>4, OneMove DEF Lifecycle!Externalized
<1> QED BY <1>3, <1>5 DEF Lawful

LEMMA RuntimeOperationIsLawful ==
  ASSUME LifecycleInv, NEW a \in Lifecycle!Actions, NEW seq, NEW later,
         Lifecycle!RecordRuntimeOperation(a, seq, later)
  PROVE  Lawful
<1>1. PICK o : o = closure.discharges[a][1]
  OBVIOUS
<1>2. PICK q : q = Lifecycle!Externalized(o, later)
  OBVIOUS
<1>3. PICK t : t = Lifecycle!Transition(later, Lifecycle!Before(o), "Externalized", <<"contract">>)
  OBVIOUS
<1>4. /\ o \in Obs /\ status[o] \in Chosen /\ Lifecycle!Keep(q)
      /\ Len(closure.discharges[a]) = 1
      /\ operations' = operations \cup {[action |-> a, seq |-> seq]}
      /\ contracts' = contracts \cup {later}
  BY <1>1, <1>2 DEF Lifecycle!RecordRuntimeOperation, Chosen, Lifecycle!Chosen, Obs
<1>5. Because(o, t)'
  BY <1>3, <1>4 DEF Because, Lifecycle!Transition
<1>6. /\ Booked' /\ closure' = closure /\ status'[o] = "Externalized"
      /\ \A x \in Obs : Same(x) \/ Advanced(x)
  BY <1>2, <1>3, <1>4, <1>5, FinalOrChosen, OneMove DEF Lifecycle!Externalized
<1>7. Discharges(a) = {o}
  <2>1. PICK s : s = closure.discharges[a]
    OBVIOUS
  <2>2. IsList(s) /\ Len(s) = 1 /\ s[1] = o
    BY <1>1, <1>4, <2>1 DEF LifecycleInv, Booked
  <2>3. Range(s) = {s[i] : i \in 1 .. 1}
    BY <2>2, ListIsSeq
  <2> QED BY <2>1, <2>2, <2>3 DEF Discharges
<1>8. ASSUME NEW op \in operations' \ operations PROVE Completing(op)
  <2>1. op.action = a
    BY <1>4, <1>8
  <2> QED BY <1>4, <1>6, <1>7, <2>1 DEF Completing, Lifecycle!Closed
<1> QED BY <1>4, <1>6, <1>8 DEF Lawful

LEMMA IrrelevantIsLawful ==
  ASSUME LifecycleInv, NEW o \in Obs, NEW seq, Lifecycle!ProveIrrelevant(o, seq)
  PROVE  Lawful
<1>1. PICK q : q = Lifecycle!Moved(Lifecycle!Progress, o, seq, Lifecycle!Before(o),
                                   "ProvenIrrelevant", <<"proof">>)
  OBVIOUS
<1>2. PICK t : t = Lifecycle!Transition(seq, Lifecycle!Before(o), "ProvenIrrelevant", <<"proof">>)
  OBVIOUS
<1>3. /\ Lifecycle!Keep(q) /\ status[o] \in Chosen \cup {"Unresolved"}
      /\ operations' = operations /\ contracts' = contracts
  BY <1>1 DEF Lifecycle!ProveIrrelevant, Chosen, Lifecycle!Chosen
<1>4. /\ Booked' /\ closure' = closure
      /\ \A x \in Obs : Same(x) \/ Advanced(x)
  <2>1. status[o] \notin Settled /\ "ProvenIrrelevant" \notin Lifecycle!Closed
    BY <1>3, FinalOrChosen DEF Lifecycle!Closed
  <2> QED BY <1>1, <1>2, <1>3, <2>1, OneMove
<1> QED BY <1>3, <1>4 DEF Lawful

-----------------------------------------------------------------------------
(* The loop of an operation *)

(* Induction over 0 .. n: a set that holds 0 and is closed under           *)
(* successor up to n holds all of 0 .. n.                                  *)
LEMMA UpToInduction ==
  ASSUME NEW n \in Nat, NEW S,
         0 \in S,
         \A i \in 1 .. n : i - 1 \in S => i \in S
  PROVE  0 .. n \subseteq S
<1> DEFINE R == {ss \in Nat \X Nat : ss[1] < ss[2]}
           T == {i \in 0 .. n : i \notin S}
<1>1. SUFFICES ASSUME T # {} PROVE FALSE
  OBVIOUS
<1>2. IsWellFoundedOn(R, Nat)
  BY NatLessThanWellFounded DEF OpToRel
<1>3. \E m \in T : \A k \in T : ~(<<k, m>> \in R)
  <2> HIDE DEF R
  <2>1. T \subseteq Nat
    OBVIOUS
  <2>2. QED
    BY <1>1, <1>2, <2>1, WFMin
<1>4. PICK m \in T : \A k \in T : ~(<<k, m>> \in R)
  BY <1>3
<1>5. m \in 1 .. n /\ m - 1 \in 0 .. n /\ <<m - 1, m>> \in R
  OBVIOUS
<1>6. m - 1 \in S
  BY <1>4, <1>5
<1>7. QED
  BY <1>5, <1>6

(* The step of either loop: the resolver decides, or an action discharges. *)
StepOf(decides, a, q, o, seq) ==
  IF q.error # "none" THEN q
  ELSE IF decides THEN Lifecycle!Decide(q, o, seq) ELSE Lifecycle!Discharge(q, o, a, seq)

Stepwise(h, decides, a, p, list, seq) ==
  [n \in 0 .. Len(list) |-> IF n = 0 THEN p ELSE StepOf(decides, a, h[n-1], list[n], seq)]

Ran(after, decides, a, list, seq) ==
  /\ after[0] = Lifecycle!Progress
  /\ \A n \in 1 .. Len(list) : after[n] = StepOf(decides, a, after[n-1], list[n], seq)

(* A recursion along a list has a solution.                                *)
LEMMA LoopExists ==
  ASSUME NEW decides, NEW a, NEW p, NEW list, IsList(list), NEW seq
  PROVE  \E f : f = Stepwise(f, decides, a, p, list, seq)
<1>2. Len(list) \in Nat
  BY DEF IsList
<1> DEFINE Solved(f, m) == /\ f = [i \in 0 .. m |-> f[i]] /\ f[0] = p
                           /\ \A i \in 1 .. m : f[i] = StepOf(decides, a, f[i-1], list[i], seq)
           S == {m \in 0 .. Len(list) : \E f : Solved(f, m)}
<1>3. 0 \in S
  <2> DEFINE g == [i \in 0 .. 0 |-> p]
  <2>1. Solved(g, 0)
    OBVIOUS
  <2> HIDE DEF g
  <2> QED BY <1>2, <2>1
<1>4. ASSUME NEW m \in 1 .. Len(list), m - 1 \in S PROVE m \in S
  <2>1. PICK f : Solved(f, m - 1)
    BY <1>4
  <2> DEFINE g == [i \in 0 .. m |-> IF i = m THEN StepOf(decides, a, f[m-1], list[m], seq) ELSE f[i]]
  <2>2. g[0] = p /\ g = [i \in 0 .. m |-> g[i]]
    BY <1>2, <2>1
  <2>3. ASSUME NEW i \in 1 .. m PROVE g[i] = StepOf(decides, a, g[i-1], list[i], seq)
    <3>1. i - 1 \in 0 .. m - 1 /\ i \in 0 .. m /\ i - 1 \in 0 .. m /\ i - 1 # m
      BY <1>2
    <3>2. g[i-1] = f[i-1]
      BY <3>1
    <3>3. CASE i = m
      BY <3>1, <3>2, <3>3
    <3>4. CASE i # m
      <4>1. i \in 1 .. m - 1 /\ g[i] = f[i]
        BY <1>2, <3>4
      <4> QED BY <2>1, <3>2, <4>1
    <3> QED BY <3>3, <3>4
  <2> HIDE DEF g
  <2>4. Solved(g, m)
    BY <2>2, <2>3
  <2> HIDE DEF Solved
  <2> QED BY <1>2, <2>4
<1>5. Len(list) \in S
  <2>1. PICK n \in Nat : n = Len(list)
    BY <1>2
  <2>2. 0 \in S /\ \A m \in 1 .. n : m - 1 \in S => m \in S
    BY <1>3, <1>4, <2>1
  <2> HIDE DEF S
  <2>3. 0 .. n \subseteq S
    BY <2>2, UpToInduction
  <2> QED BY <2>1, <2>3
<1>6. PICK f : Solved(f, Len(list))
  BY <1>5
<1>7. f = Stepwise(f, decides, a, p, list, seq)
  BY <1>2, <1>6 DEF Stepwise
<1> QED BY <1>7

LEMMA DischargedLoop ==
  ASSUME NEW a, NEW seq, NEW list, list = closure.discharges[a], IsList(list)
  PROVE  \E after :
           /\ Ran(after, FALSE, a, list, seq)
           /\ Lifecycle!Discharged(a, seq) = after[Len(list)]
<1>1. PICK p : p = Lifecycle!Progress
  OBVIOUS
<1> DEFINE Body(h) == [n \in 0 .. Len(list) |->
                         IF n = 0 THEN p
                         ELSE IF h[n-1].error = "none"
                              THEN Lifecycle!Discharge(h[n-1], list[n], a, seq) ELSE h[n-1]]
           after == CHOOSE h : h = Body(h)
<1>2. PICK f : f = Stepwise(f, FALSE, a, p, list, seq)
  BY LoopExists
<1>3. f = Body(f)
  BY <1>2 DEF Stepwise, StepOf
<1>4. after = Body(after)
  <2> HIDE DEF Body
  <2> QED BY <1>3
<1>5. Lifecycle!Discharged(a, seq) = after[Len(list)]
  BY <1>1 DEF Lifecycle!Discharged, Lifecycle!Loop
<1>6. ASSUME NEW h
      PROVE  /\ Body(h)[0] = p
             /\ \A n \in 1 .. Len(list) : Body(h)[n] = StepOf(FALSE, a, h[n-1], list[n], seq)
  BY DEF IsList, StepOf
<1>7. /\ after[0] = p
      /\ \A n \in 1 .. Len(list) : after[n] = StepOf(FALSE, a, after[n-1], list[n], seq)
  <2> HIDE DEF Body, after
  <2> QED BY <1>4, <1>6
<1> HIDE DEF after
<1> QED BY <1>1, <1>5, <1>7 DEF Ran

LEMMA DecidedLoop ==
  ASSUME NEW seq, NEW list, IsList(list)
  PROVE  \E after :
           /\ Ran(after, TRUE, 0, list, seq)
           /\ Lifecycle!Decided(list, seq) = after[Len(list)]
<1>1. PICK p : p = Lifecycle!Progress
  OBVIOUS
<1> DEFINE Body(h) == [n \in 0 .. Len(list) |->
                         IF n = 0 THEN p
                         ELSE IF h[n-1].error = "none"
                              THEN Lifecycle!Decide(h[n-1], list[n], seq) ELSE h[n-1]]
           after == CHOOSE h : h = Body(h)
<1>2. PICK f : f = Stepwise(f, TRUE, 0, p, list, seq)
  BY LoopExists
<1>3. f = Body(f)
  BY <1>2 DEF Stepwise, StepOf
<1>4. after = Body(after)
  <2> HIDE DEF Body
  <2> QED BY <1>3
<1>5. Lifecycle!Decided(list, seq) = after[Len(list)]
  BY <1>1 DEF Lifecycle!Decided, Lifecycle!Loop
<1>6. ASSUME NEW h
      PROVE  /\ Body(h)[0] = p
             /\ \A n \in 1 .. Len(list) : Body(h)[n] = StepOf(TRUE, 0, h[n-1], list[n], seq)
  BY DEF IsList, StepOf
<1>7. /\ after[0] = p
      /\ \A n \in 1 .. Len(list) : after[n] = StepOf(TRUE, 0, after[n-1], list[n], seq)
  <2> HIDE DEF Body, after
  <2> QED BY <1>4, <1>6
<1> HIDE DEF after
<1> QED BY <1>1, <1>5, <1>7 DEF Ran

(* What a run of the loop of an operation has done to an obligation.       *)
Untouched(q, o) ==
  q.status[o] = status[o] /\ q.required[o] = required[o] /\ q.history[o] = history[o]

DischargedBy(a, q, o, seq) ==
  /\ status[o] \in Chosen /\ o \in Discharges(a)
  /\ q.status[o] = "Discharged" /\ q.required[o] = {a}
  /\ \/ q.history[o] = history[o]
     \/ q.history[o] =
          Append(history[o], Lifecycle!Transition(seq, status[o], "Discharged", <<"action", a>>))

(* A step that is refused changes nothing but the error.                   *)
LEMMA RefusedBooks ==
  ASSUME NEW q, Books(q), NEW e, NEW r, r = [q EXCEPT !.error = e]
  PROVE  /\ Books(r) /\ r.error = e
         /\ r.status = q.status /\ r.required = q.required /\ r.history = q.history
<1>1. r = [status |-> q.status, required |-> q.required, history |-> q.history, error |-> e]
  BY DEF Books
<1>2. /\ r.error = e /\ r.status = q.status /\ r.required = q.required /\ r.history = q.history
      /\ r = [status |-> r.status, required |-> r.required, history |-> r.history, error |-> r.error]
  BY <1>1
<1> QED BY <1>2 DEF Books

(* The obligation gets its action before the transition is appended.       *)
LEMMA RequiringBooks ==
  ASSUME NEW q, Books(q), NEW o \in Obs, NEW required_action,
         NEW r, r = [q EXCEPT !.required[o] = required_action]
  PROVE  /\ Books(r) /\ r.error = q.error /\ r.status = q.status /\ r.history = q.history
         /\ r.required[o] = required_action
         /\ \A x \in Obs \ {o} : r.required[x] = q.required[x]
<1> DEFINE R == [q.required EXCEPT ![o] = required_action]
<1>1. r = [status |-> q.status, required |-> R, history |-> q.history, error |-> q.error]
  BY DEF Books
<1>2. /\ r.error = q.error /\ r.status = q.status /\ r.required = R /\ r.history = q.history
      /\ r = [status |-> r.status, required |-> r.required, history |-> r.history, error |-> r.error]
  BY <1>1
<1>3. /\ R = [x \in Obs |-> R[x]] /\ R[o] = required_action
      /\ \A x \in Obs \ {o} : R[x] = q.required[x]
  BY DEF Books
<1> HIDE DEF R
<1> QED BY <1>2, <1>3 DEF Books

LEMMA DischargeOne ==
  ASSUME NEW a \in Lifecycle!Actions, NEW seq, NEW o \in Discharges(a),
         NEW q, Books(q), q.error = "none",
         \A x \in Obs : Untouched(q, x) \/ DischargedBy(a, q, x, seq),
         NEW r, r = Lifecycle!Discharge(q, o, a, seq)
  PROVE  /\ Books(r)
         /\ \A x \in Obs : Untouched(r, x) \/ DischargedBy(a, r, x, seq)
         /\ \A x \in Obs : DischargedBy(a, q, x, seq) => DischargedBy(a, r, x, seq)
         /\ r.error = "none" => o \in Obs /\ DischargedBy(a, r, o, seq)
<1>1. ASSUME NEW e, e # "none", r = [q EXCEPT !.error = e]
      PROVE  /\ Books(r) /\ r.error # "none"
             /\ \A x \in Obs : /\ Untouched(q, x) => Untouched(r, x)
                               /\ DischargedBy(a, q, x, seq) => DischargedBy(a, r, x, seq)
  <2>1. /\ Books(r) /\ r.error = e
        /\ r.status = q.status /\ r.required = q.required /\ r.history = q.history
    BY <1>1, RefusedBooks
  <2> QED BY <1>1, <2>1 DEF Untouched, DischargedBy
<1>2. CASE \E e : e # "none" /\ r = [q EXCEPT !.error = e]
  BY <1>1, <1>2
<1>3. CASE ~\E e : e # "none" /\ r = [q EXCEPT !.error = e]
  <2>1. o \in Obs /\ q.status[o] \in Chosen
    BY <1>3 DEF Lifecycle!Discharge, Obs, Chosen, Lifecycle!Chosen
  <2>2. PICK b : b = [q EXCEPT !.required[o] = {a}]
    OBVIOUS
  <2>3. r = Lifecycle!Moved(b, o, seq, q.status[o], "Discharged", <<"action", a>>)
    BY <1>3, <2>2 DEF Lifecycle!Discharge
  <2>4. /\ Books(b) /\ b.error = q.error /\ b.status = q.status /\ b.history = q.history
        /\ b.required[o] = {a}
        /\ \A x \in Obs \ {o} : b.required[x] = q.required[x]
    BY <2>1, <2>2, RequiringBooks
  <2>5. /\ Books(r) /\ Others(b, r, o)
        /\ r.status[o] = "Discharged" /\ r.required[o] = {a}
        /\ \/ r.history[o] = q.history[o]
           \/ r.history[o] =
                Append(q.history[o], Lifecycle!Transition(seq, q.status[o], "Discharged", <<"action", a>>))
    <3>1. PICK from, to, cause : from = q.status[o] /\ to = "Discharged" /\ cause = <<"action", a>>
      OBVIOUS
    <3>2. r = Lifecycle!Moved(b, o, seq, from, to, cause)
      BY <2>3, <3>1
    <3>3. /\ Books(r) /\ Others(b, r, o)
          /\ r.status[o] = to /\ r.required[o] = b.required[o]
          /\ \/ r.history[o] = b.history[o] /\ r.error = "transition"
             \/ r.history[o] = Append(b.history[o], Lifecycle!Transition(seq, from, to, cause)) /\ r.error = b.error
      BY <2>1, <2>4, <3>2, MovedBooks
    <3> QED BY <2>4, <3>1, <3>3
  <2>6. Untouched(q, o) /\ ~DischargedBy(a, q, o, seq)
    BY <2>1 DEF DischargedBy, Chosen
  <2>7. DischargedBy(a, r, o, seq)
    BY <2>1, <2>5, <2>6 DEF Untouched, DischargedBy
  <2>8. ASSUME NEW x \in Obs \ {o}
        PROVE  r.status[x] = q.status[x] /\ r.required[x] = q.required[x] /\ r.history[x] = q.history[x]
    BY <2>4, <2>5 DEF Others
  <2>9. ASSUME NEW x \in Obs \ {o}
        PROVE  /\ Untouched(q, x) => Untouched(r, x)
               /\ DischargedBy(a, q, x, seq) => DischargedBy(a, r, x, seq)
    BY <2>8 DEF Untouched, DischargedBy
  <2> QED BY <2>1, <2>5, <2>6, <2>7, <2>9
<1> QED BY <1>2, <1>3

LEMMA DischargeAll ==
  ASSUME LifecycleInv, NEW a \in Lifecycle!Actions, NEW seq,
         NEW end, end = Lifecycle!Discharged(a, seq)
  PROVE  /\ Books(end)
         /\ \A x \in Obs : Untouched(end, x) \/ DischargedBy(a, end, x, seq)
         /\ end.error = "none" =>
              \A x \in Discharges(a) : x \in Obs /\ DischargedBy(a, end, x, seq)
<1>1. PICK list : list = closure.discharges[a]
  OBVIOUS
<1>2. IsList(list)
  BY <1>1 DEF LifecycleInv, Booked
<1>3. PICK after :
        /\ after[0] = Lifecycle!Progress
        /\ \A n \in 1 .. Len(list) : after[n] = StepOf(FALSE, a, after[n-1], list[n], seq)
        /\ end = after[Len(list)]
  <2>1. \E after : Ran(after, FALSE, a, list, seq) /\ Lifecycle!Discharged(a, seq) = after[Len(list)]
    BY <1>1, <1>2, DischargedLoop
  <2> QED BY <2>1 DEF Ran
<1>4. PICK len \in Nat : len = Len(list)
  BY <1>2 DEF IsList
<1>5. /\ \A i \in 1 .. len : list[i] \in Discharges(a)
      /\ \A x \in Discharges(a) : \E i \in 1 .. len : x = list[i]
  <2>1. Range(list) = {list[i] : i \in 1 .. len}
    BY <1>2, <1>4, ListIsSeq
  <2> QED BY <1>1, <2>1 DEF Discharges
<1> DEFINE Done(n, q) ==
             /\ Books(q)
             /\ \A x \in Obs : Untouched(q, x) \/ DischargedBy(a, q, x, seq)
             /\ q.error = "none" =>
                  \A i \in 1 .. n : list[i] \in Obs /\ DischargedBy(a, q, list[i], seq)
           S == {n \in 0 .. len : Done(n, after[n])}
<1>6. Done(0, after[0])
  <2>1. PICK p : p = Lifecycle!Progress
    OBVIOUS
  <2>2. /\ Books(p) /\ p.error = "none"
        /\ p.status = status /\ p.required = required /\ p.history = history
    BY <2>1, ProgressBooks DEF LifecycleInv
  <2>3. \A x \in Obs : Untouched(p, x)
    BY <2>2 DEF Untouched
  <2> QED BY <1>3, <2>1, <2>2, <2>3
<1>7. ASSUME NEW n \in 1 .. len, Done(n - 1, after[n-1]) PROVE Done(n, after[n])
  <2>1. PICK q, r : q = after[n-1] /\ r = after[n]
    OBVIOUS
  <2>2. r = StepOf(FALSE, a, q, list[n], seq)
    BY <1>3, <1>4, <2>1
  <2>3. CASE q.error # "none"
    <3>1. r = q
      BY <2>2, <2>3 DEF StepOf
    <3>2. Books(q) /\ \A x \in Obs : Untouched(q, x) \/ DischargedBy(a, q, x, seq)
      BY <1>7, <2>1
    <3>3. Done(n, q)
      BY <2>3, <3>2
    <3> HIDE DEF Done
    <3> QED BY <2>1, <3>1, <3>3
  <2>4. CASE q.error = "none"
    <3>1. r = Lifecycle!Discharge(q, list[n], a, seq)
      BY <2>2, <2>4 DEF StepOf
    <3>2. /\ Books(q)
          /\ \A x \in Obs : Untouched(q, x) \/ DischargedBy(a, q, x, seq)
          /\ \A i \in 1 .. n - 1 : list[i] \in Obs /\ DischargedBy(a, q, list[i], seq)
      BY <1>7, <2>1, <2>4
    <3>3. list[n] \in Discharges(a)
      BY <1>5
    <3>4. /\ Books(r)
          /\ \A x \in Obs : Untouched(r, x) \/ DischargedBy(a, r, x, seq)
          /\ \A x \in Obs : DischargedBy(a, q, x, seq) => DischargedBy(a, r, x, seq)
          /\ r.error = "none" => list[n] \in Obs /\ DischargedBy(a, r, list[n], seq)
      BY <2>4, <3>1, <3>2, <3>3, DischargeOne
    <3>5. r.error = "none" =>
            \A i \in 1 .. n : list[i] \in Obs /\ DischargedBy(a, r, list[i], seq)
      <4> SUFFICES ASSUME r.error = "none", NEW i \in 1 .. n
                   PROVE  list[i] \in Obs /\ DischargedBy(a, r, list[i], seq)
        OBVIOUS
      <4>1. i \in 1 .. n - 1 \/ i = n
        BY <1>4
      <4> QED BY <3>2, <3>4, <4>1
    <3> QED BY <2>1, <3>4, <3>5
  <2> QED BY <2>3, <2>4
<1>8. Done(len, after[len])
  <2> HIDE DEF Done
  <2>1. 0 \in S /\ \A n \in 1 .. len : n - 1 \in S => n \in S
    BY <1>4, <1>6, <1>7
  <2> HIDE DEF S
  <2>2. 0 .. len \subseteq S
    BY <2>1, UpToInduction
  <2>3. len \in S
    BY <2>2
  <2> QED BY <2>3 DEF S
<1>9. Done(len, end)
  <2> HIDE DEF Done
  <2> QED BY <1>3, <1>4, <1>8
<1> QED BY <1>5, <1>9

LEMMA OperationIsLawful ==
  ASSUME LifecycleInv, NEW a \in Lifecycle!Actions, NEW seq, Lifecycle!RecordOperation(a, seq)
  PROVE  Lawful
<1>1. PICK end : end = Lifecycle!Discharged(a, seq)
  OBVIOUS
<1>2. /\ Books(end)
      /\ \A x \in Obs : Untouched(end, x) \/ DischargedBy(a, end, x, seq)
      /\ end.error = "none" =>
           \A x \in Discharges(a) : x \in Obs /\ DischargedBy(a, end, x, seq)
  BY <1>1, DischargeAll
<1>3. /\ Lifecycle!Keep(end) /\ contracts' = contracts
      /\ operations' = IF end.error = "none"
                       THEN operations \cup {[action |-> a, seq |-> seq]} ELSE operations
  BY <1>1 DEF Lifecycle!RecordOperation
<1>4. /\ Booked' /\ closure' = closure
      /\ status' = end.status /\ required' = end.required /\ history' = end.history
  BY <1>2, <1>3, KeepBooks DEF LifecycleInv
<1>5. Lifecycle!Actions' = Lifecycle!Actions /\ \A b : Discharges(b)' = Discharges(b)
  BY <1>4, SameObligations
<1>6. ASSUME NEW x \in Obs, DischargedBy(a, end, x, seq) PROVE Advanced(x)
  <2>1. PICK t : t = Lifecycle!Transition(seq, status[x], "Discharged", <<"action", a>>)
    OBVIOUS
  <2>2. /\ status[x] \in Chosen /\ x \in Discharges(a) /\ status[x] \notin Settled
        /\ status'[x] = "Discharged" /\ required'[x] = {a}
        /\ history'[x] = history[x] \/ history'[x] = Append(history[x], t)
    BY <1>4, <1>6, <2>1, FinalOrChosen DEF DischargedBy
  <2>3. t.to = "Discharged" /\ t.cause = <<"action", a>> /\ t.seq = seq
    BY <2>1 DEF Lifecycle!Transition
  <2>4. ASSUME a \in Recorded' PROVE \E op \in operations' : op.action = a /\ op.seq = seq
    <3>1. CASE end.error = "none"
      <4>1. PICK op : op = [action |-> a, seq |-> seq]
        OBVIOUS
      <4>2. op \in operations' /\ op.action = a /\ op.seq = seq
        BY <1>3, <3>1, <4>1
      <4> QED BY <4>2
    <3>2. CASE end.error # "none"
      <4>1. PICK op \in operations : op.action = a
        BY <1>3, <2>4, <3>2 DEF Recorded, Lifecycle!Recorded
      <4>2. status[x] \in Lifecycle!Closed
        BY <2>2, <4>1 DEF LifecycleInv, RecordsClose
      <4> QED BY <2>2, <4>2, FinalOrChosen
    <3> QED BY <3>1, <3>2
  <2>5. Because(x, t)'
    BY <1>5, <2>2, <2>3, <2>4 DEF Because
  <2> QED BY <2>2, <2>3, <2>5 DEF Advanced
<1>7. \A x \in Obs : Untouched(end, x) => Same(x)
  BY <1>4 DEF Untouched, Same
<1>8. ASSUME NEW op \in operations' \ operations PROVE Completing(op)
  <2>1. op.action = a /\ end.error = "none"
    BY <1>3, <1>8
  <2>2. \A x \in Discharges(a) : x \in Obs /\ status[x] \in Chosen /\ status'[x] = "Discharged"
    BY <1>2, <1>4, <2>1 DEF DischargedBy
  <2> QED BY <2>1, <2>2 DEF Completing, Lifecycle!Closed
<1> QED BY <1>2, <1>3, <1>4, <1>6, <1>7, <1>8 DEF Lawful

-----------------------------------------------------------------------------
(* The loop of a resolver's decision *)

DecidedBy(q, o, seq) ==
  /\ q.status[o] = (IF required[o] # {} THEN status[o] ELSE "Discharged")
  /\ q.required[o] = required[o]
  /\ \/ q.history[o] = history[o]
     \/ q.history[o] =
          Append(history[o], Lifecycle!Transition(seq, "Unresolved", q.status[o], <<"resolution">>))

LEMMA DecideOne ==
  ASSUME NEW seq, NEW o \in Obs, NEW q, Books(q), Untouched(q, o),
         NEW r, r = Lifecycle!Decide(q, o, seq)
  PROVE  /\ Books(r) /\ DecidedBy(r, o, seq)
         /\ \A x \in Obs \ {o} : /\ Untouched(q, x) => Untouched(r, x)
                                 /\ DecidedBy(q, x, seq) => DecidedBy(r, x, seq)
<1>1. PICK from, to, cause : /\ from = "Unresolved" /\ cause = <<"resolution">>
                             /\ to = IF required[o] # {} THEN status[o] ELSE "Discharged"
  OBVIOUS
<1>2. r = Lifecycle!Moved(q, o, seq, from, to, cause)
  BY <1>1 DEF Lifecycle!Decide, Untouched
<1>3. /\ Books(r) /\ Others(q, r, o)
      /\ r.status[o] = to /\ r.required[o] = q.required[o]
      /\ \/ r.history[o] = q.history[o] /\ r.error = "transition"
         \/ r.history[o] = Append(q.history[o], Lifecycle!Transition(seq, from, to, cause)) /\ r.error = q.error
  BY <1>2, MovedBooks
<1>4. DecidedBy(r, o, seq)
  BY <1>1, <1>3 DEF DecidedBy, Untouched
<1>5. ASSUME NEW x \in Obs \ {o}
      PROVE  r.status[x] = q.status[x] /\ r.required[x] = q.required[x] /\ r.history[x] = q.history[x]
  BY <1>3 DEF Others
<1>6. ASSUME NEW x \in Obs \ {o}
      PROVE  /\ Untouched(q, x) => Untouched(r, x)
             /\ DecidedBy(q, x, seq) => DecidedBy(r, x, seq)
  BY <1>5 DEF Untouched, DecidedBy
<1> QED BY <1>3, <1>4, <1>6

LEMMA DecideAll ==
  ASSUME LifecycleInv, NEW list, IsList(list), NEW seq, Lifecycle!Resolvable(list),
         NEW end, end = Lifecycle!Decided(list, seq)
  PROVE  /\ Books(end)
         /\ \A x \in Obs : Untouched(end, x) \/ (status[x] \in Chosen /\ DecidedBy(end, x, seq))
<1>1. PICK after : Ran(after, TRUE, 0, list, seq) /\ end = after[Len(list)]
  <2>1. \E after :
          /\ Ran(after, TRUE, 0, list, seq)
          /\ Lifecycle!Decided(list, seq) = after[Len(list)]
    BY DecidedLoop
  <2> QED BY <2>1
<1>2. PICK len \in Nat : len = Len(list)
  BY DEF IsList
<1>3. /\ \A i \in 1 .. len : list[i] \in Obs /\ status[list[i]] \in Chosen
      /\ \A i, j \in 1 .. len : list[i] = list[j] => i = j
  <2>1. DOMAIN list = 1 .. len /\ Range(list) = {list[i] : i \in 1 .. len}
    BY <1>2, ListIsSeq
  <2>2. \A o \in Range(list) : o \in Obs /\ status[o] \in Chosen
    <3>1. list \in Seq(Obs) /\ \A o \in Range(list) : status[o] \in Chosen
      BY DEF Lifecycle!Resolvable, Obs, Range, Lifecycle!Range, Chosen, Lifecycle!Chosen
    <3> QED BY <2>1, <3>1
  <2>3. \A i, j \in DOMAIN list : list[i] = list[j] => i = j
    BY DEF Lifecycle!Resolvable, Lifecycle!IsInjective
  <2> QED BY <2>1, <2>2, <2>3
<1> DEFINE Done(n, q) ==
             /\ Books(q)
             /\ \A x \in Obs : \/ Untouched(q, x)
                               \/ DecidedBy(q, x, seq) /\ \E i \in 1 .. n : list[i] = x
           S == {n \in 0 .. len : Done(n, after[n])}
<1>4. Done(0, after[0])
  <2>1. PICK p : p = Lifecycle!Progress
    OBVIOUS
  <2>2. /\ Books(p) /\ p.error = "none"
        /\ p.status = status /\ p.required = required /\ p.history = history
    BY <2>1, ProgressBooks DEF LifecycleInv
  <2>3. \A x \in Obs : Untouched(p, x)
    BY <2>2 DEF Untouched
  <2> QED BY <1>1, <2>1, <2>2, <2>3 DEF Ran
<1>5. ASSUME NEW n \in 1 .. len, Done(n - 1, after[n-1]) PROVE Done(n, after[n])
  <2>1. PICK q, r : q = after[n-1] /\ r = after[n]
    OBVIOUS
  <2>2. r = StepOf(TRUE, 0, q, list[n], seq)
    BY <1>1, <1>2, <2>1 DEF Ran
  <2>3. /\ Books(q)
        /\ \A x \in Obs : \/ Untouched(q, x)
                          \/ DecidedBy(q, x, seq) /\ \E i \in 1 .. n - 1 : list[i] = x
    BY <1>5, <2>1
  <2>4. Done(n, r)
    <3>1. CASE r = q
      BY <1>2, <2>3, <3>1
    <3>2. CASE r # q
      <4>1. r = Lifecycle!Decide(q, list[n], seq)
        BY <2>2, <3>2 DEF StepOf
      <4>2. list[n] \in Obs /\ \A i \in 1 .. n - 1 : list[i] # list[n]
        BY <1>2, <1>3
      <4>3. Untouched(q, list[n])
        BY <2>3, <4>2
      <4>4. /\ Books(r) /\ DecidedBy(r, list[n], seq)
            /\ \A x \in Obs \ {list[n]} : /\ Untouched(q, x) => Untouched(r, x)
                                          /\ DecidedBy(q, x, seq) => DecidedBy(r, x, seq)
        BY <2>3, <4>1, <4>2, <4>3, DecideOne
      <4>5. 1 .. n - 1 \subseteq 1 .. n /\ n \in 1 .. n
        BY <1>2
      <4> QED BY <2>3, <4>4, <4>5
    <3> QED BY <3>1, <3>2
  <2> QED BY <2>1, <2>4
<1>6. Done(len, after[len])
  <2> HIDE DEF Done
  <2>1. 0 \in S /\ \A n \in 1 .. len : n - 1 \in S => n \in S
    BY <1>2, <1>4, <1>5
  <2> HIDE DEF S
  <2>2. 0 .. len \subseteq S
    BY <2>1, UpToInduction
  <2>3. len \in S
    BY <2>2
  <2> QED BY <2>3 DEF S
<1>7. Done(len, end)
  <2> HIDE DEF Done
  <2> QED BY <1>1, <1>2, <1>6
<1> QED BY <1>3, <1>7

LEMMA ResolutionIsLawful ==
  ASSUME LifecycleInv, NEW list, NEW seq, Lifecycle!RecordResolution(list, seq)
  PROVE  Lawful
<1>0. IsList(list)
  <2>1. list \in Seq(Obs)
    BY DEF Lifecycle!RecordResolution, Lifecycle!Resolvable, Obs
  <2> QED BY <2>1, SeqIsList
<1>1. PICK end : end = Lifecycle!Decided(list, seq)
  OBVIOUS
<1>2. /\ Lifecycle!Keep(end) /\ Lifecycle!Resolvable(list)
      /\ contracts' = contracts /\ operations' = operations
  BY <1>1 DEF Lifecycle!RecordResolution
<1>3. /\ Books(end)
      /\ \A x \in Obs : Untouched(end, x) \/ (status[x] \in Chosen /\ DecidedBy(end, x, seq))
  BY <1>0, <1>1, <1>2, DecideAll
<1>4. /\ Booked' /\ closure' = closure
      /\ status' = end.status /\ required' = end.required /\ history' = end.history
  BY <1>2, <1>3, KeepBooks DEF LifecycleInv
<1>5. ASSUME NEW x \in Obs, status[x] \in Chosen, DecidedBy(end, x, seq) PROVE Advanced(x)
  <2>1. PICK t : t = Lifecycle!Transition(seq, "Unresolved", end.status[x], <<"resolution">>)
    OBVIOUS
  <2>2. /\ status[x] \notin Settled /\ required'[x] = required[x]
        /\ status'[x] = (IF required[x] # {} THEN status[x] ELSE "Discharged")
        /\ history'[x] = history[x] \/ history'[x] = Append(history[x], t)
    BY <1>4, <1>5, <2>1, FinalOrChosen DEF DecidedBy
  <2>3. t.to = status'[x] /\ t.cause = <<"resolution">>
    BY <1>4, <2>1 DEF Lifecycle!Transition
  <2>4. ASSUME t.to \in Lifecycle!Closed PROVE Because(x, t)'
    <3>1. required[x] = {} /\ t.to = "Discharged"
      BY <1>5, <2>2, <2>3, <2>4, FinalOrChosen
    <3>2. closure'.required[x] = {} /\ required'[x] = {}
      BY <1>4, <2>2, <3>1 DEF LifecycleInv, RequiredKept
    <3> QED BY <2>3, <3>1, <3>2 DEF Because
  <2> QED BY <2>2, <2>3, <2>4 DEF Advanced
<1>6. \A x \in Obs : Untouched(end, x) => Same(x)
  BY <1>4 DEF Untouched, Same
<1> QED BY <1>2, <1>3, <1>4, <1>5, <1>6 DEF Lawful

(* What any caller may do.                                                 *)
LEMMA NextIsLawful ==
  ASSUME LifecycleInv, Lifecycle!Next
  PROVE  Lawful
<1>1. PICK seq :
        \/ \E list : Lifecycle!RecordResolution(list, seq)
        \/ \E a \in Lifecycle!Actions : \/ Lifecycle!RecordOperation(a, seq)
                                       \/ \E later : Lifecycle!RecordRuntimeOperation(a, seq, later)
        \/ \E o \in Obs : Lifecycle!ExternalizeRuntime(o, seq) \/ Lifecycle!ProveIrrelevant(o, seq)
  BY DEF Lifecycle!Next, Obs
<1> QED BY <1>1, ResolutionIsLawful, OperationIsLawful, RuntimeOperationIsLawful,
           ExternalizeIsLawful, IrrelevantIsLawful

-----------------------------------------------------------------------------
(* The plan of resolve is a list of actions that discharge lists *)

Good(as) == IsList(as) /\ \A k \in 1 .. Len(as) : IsList(as[k].discharges)

LEMMA ConcatList ==
  ASSUME NEW s, IsList(s), NEW t, IsList(t)
  PROVE  /\ IsList(s \o t) /\ Len(s \o t) = Len(s) + Len(t)
         /\ \A k \in 1 .. Len(s) + Len(t) :
              (s \o t)[k] = IF k <= Len(s) THEN s[k] ELSE t[k - Len(s)]
<1> DEFINE S == {s[i] : i \in 1 .. Len(s)} \cup {t[i] : i \in 1 .. Len(t)}
<1>1. s \in Seq(S) /\ t \in Seq(S)
  <2>1. /\ s \in [1 .. Len(s) -> S] /\ Len(s) \in Nat
        /\ t \in [1 .. Len(t) -> S] /\ Len(t) \in Nat
    BY DEF IsList
  <2> HIDE DEF S
  <2> QED BY <2>1
<1> HIDE DEF S
<1>2. s \o t \in Seq(S) /\ Len(s \o t) = Len(s) + Len(t)
  BY <1>1
<1>3. \A k \in 1 .. Len(s) + Len(t) : (s \o t)[k] = IF k <= Len(s) THEN s[k] ELSE t[k - Len(s)]
  BY <1>1
<1>4. IsList(s \o t)
  BY <1>2, SeqIsList
<1> QED BY <1>2, <1>3, <1>4

LEMMA GoodConcat ==
  ASSUME NEW s, Good(s), NEW t, Good(t)
  PROVE  Good(s \o t)
<1>1. PICK m \in Nat, n \in Nat : m = Len(s) /\ n = Len(t)
  BY DEF Good, IsList
<1>2. ASSUME NEW k \in 1 .. m + n PROVE IsList((s \o t)[k].discharges)
  <2>1. CASE k <= m
    BY <1>1, <2>1, ConcatList DEF Good
  <2>2. CASE ~(k <= m)
    <3>1. (s \o t)[k] = t[k - m] /\ k - m \in 1 .. n
      BY <1>1, <2>2, ConcatList DEF Good
    <3> QED BY <1>1, <3>1 DEF Good
  <2> QED BY <2>1, <2>2
<1> QED BY <1>1, <1>2, ConcatList DEF Good

LEMMA GoodOne ==
  ASSUME NEW a, IsList(a.discharges)
  PROVE  Good(<<a>>)
<1>1. Len(<<a>>) = 1 /\ <<a>>[1] = a /\ <<a>> \in Seq({a})
  OBVIOUS
<1>2. IsList(<<a>>)
  BY <1>1, SeqIsList
<1> QED BY <1>1, <1>2 DEF Good

LEMMA ShortLists ==
  /\ Good(<<>>)
  /\ \A x : IsList(<<x>>)
  /\ \A x, y, z : IsList(<<x, y, z>>)
<1>1. Good(<<>>)
  BY EmptyList DEF Good
<1>2. ASSUME NEW x PROVE IsList(<<x>>)
  <2>1. <<x>> \in Seq({x})
    OBVIOUS
  <2> QED BY <2>1, SeqIsList
<1>3. ASSUME NEW x, NEW y, NEW z PROVE IsList(<<x, y, z>>)
  <2>1. <<x, y, z>> \in Seq({x, y, z})
    OBVIOUS
  <2> QED BY <2>1, SeqIsList
<1> QED BY <1>1, <1>2, <1>3

(* A finite set in some order.                                             *)
LEMMA OrderedIsList ==
  ASSUME NEW S, IsFiniteSet(S)
  PROVE  IsList(SetToSeq(S))
<1>1. PICK n \in Nat : n = Cardinality(S) /\ ExistsBijection(1 .. n, S)
  BY FS_CardinalityType
<1>2. \E f \in [1 .. n -> S] : IsInjective(f)
  BY <1>1 DEF ExistsBijection, Bijection, Injection
<1>3. SetToSeq(S) \in [1 .. n -> S]
  BY <1>1, <1>2 DEF SetToSeq
<1>4. SetToSeq(S) \in Seq(S)
  BY <1>1, <1>3
<1> QED BY <1>4, SeqIsList

LEMMA OutputsAreList ==
  ASSUME Facts(given), NEW p, NEW kind
  PROVE  /\ IsList(OutputsOf(p, kind))
         /\ \A k \in 1 .. Len(OutputsOf(p, kind)) : IsFiniteSet(OutputsOf(p, kind)[k].sources)
<1>1. PICK s : s = given.outputs
  OBVIOUS
<1>2. IsList(s) /\ \A k \in 1 .. Len(s) : IsFiniteSet(s[k].sources)
  <2>1. s \in Seq(Elements(s)) /\ \A o \in Elements(s) : IsFiniteSet(o.sources)
    BY <1>1 DEF Facts
  <2>2. IsList(s)
    BY <2>1, SeqIsList
  <2> QED BY <2>1, <2>2, ListIsSeq DEF Elements
<1>3. PICK len \in Nat : len = Len(s)
  BY <1>2 DEF IsList
<1> DEFINE Wanted1(o) == o.package = p /\ o.kind = kind
           Step(l, i) == IF Wanted1(s[i]) THEN Append(l, s[i]) ELSE l
           Body(h) == [n \in 0 .. len |-> IF n = 0 THEN <<>> ELSE Step(h[n-1], n)]
           Solved(f, m) == /\ f = [i \in 0 .. m |-> f[i]] /\ f[0] = <<>>
                           /\ \A i \in 1 .. m : f[i] = Step(f[i-1], i)
           S == {m \in 0 .. len : \E f : Solved(f, m)}
           upTo == CHOOSE h : h = Body(h)
<1>4. 0 \in S
  <2> DEFINE g == [i \in 0 .. 0 |-> <<>>]
  <2>1. Solved(g, 0)
    OBVIOUS
  <2> HIDE DEF g, Solved
  <2> QED BY <2>1
<1>5. ASSUME NEW m \in 1 .. len, m - 1 \in S PROVE m \in S
  <2>1. PICK f : Solved(f, m - 1)
    BY <1>5
  <2> DEFINE g == [i \in 0 .. m |-> IF i = m THEN Step(f[m-1], m) ELSE f[i]]
  <2> HIDE DEF Step
  <2>2. g[0] = <<>> /\ g = [i \in 0 .. m |-> g[i]]
    BY <2>1
  <2>3. ASSUME NEW i \in 1 .. m PROVE g[i] = Step(g[i-1], i)
    <3>1. i - 1 \in 0 .. m - 1 /\ i \in 0 .. m /\ i - 1 \in 0 .. m /\ i - 1 # m
      OBVIOUS
    <3>2. g[i-1] = f[i-1]
      BY <3>1
    <3>3. CASE i = m
      BY <3>1, <3>2, <3>3
    <3>4. CASE i # m
      <4>1. i \in 1 .. m - 1 /\ g[i] = f[i]
        BY <3>4
      <4> QED BY <2>1, <3>2, <4>1
    <3> QED BY <3>3, <3>4
  <2> HIDE DEF g
  <2>4. Solved(g, m)
    BY <2>2, <2>3
  <2> HIDE DEF Solved
  <2> QED BY <2>4
<1>6. len \in S
  <2> HIDE DEF S
  <2>1. 0 .. len \subseteq S
    BY <1>4, <1>5, UpToInduction
  <2> QED BY <2>1
<1>7. upTo = Body(upTo)
  <2>1. PICK f : Solved(f, len)
    BY <1>6
  <2> HIDE DEF Step
  <2>2. f = Body(f)
    BY <2>1
  <2> HIDE DEF Body
  <2> QED BY <2>2
<1>8. OutputsOf(p, kind) = upTo[len]
  BY <1>1, <1>3 DEF OutputsOf, Filtered
<1>9. upTo[0] = <<>> /\ \A n \in 1 .. len : upTo[n] = Step(upTo[n-1], n)
  <2>1. ASSUME NEW h PROVE Body(h)[0] = <<>> /\ \A n \in 1 .. len : Body(h)[n] = Step(h[n-1], n)
    OBVIOUS
  <2> HIDE DEF Body, upTo, Step
  <2> QED BY <1>7, <2>1
<1> DEFINE Fine(l) == IsList(l) /\ \A k \in 1 .. Len(l) : IsFiniteSet(l[k].sources)
           T == {n \in 0 .. len : Fine(upTo[n])}
<1>10. Fine(upTo[0])
  <2>1. Fine(<<>>)
    BY EmptyList
  <2> HIDE DEF upTo, Fine
  <2> QED BY <1>9, <2>1
<1>11. ASSUME NEW n \in 1 .. len, Fine(upTo[n-1]) PROVE Fine(upTo[n])
  <2> HIDE DEF upTo
  <2>1. PICK l : l = upTo[n-1]
    OBVIOUS
  <2>2. upTo[n] = l \/ upTo[n] = Append(l, s[n])
    BY <1>9, <2>1
  <2>3. Fine(l) /\ IsFiniteSet(s[n].sources)
    BY <1>2, <1>3, <1>11, <2>1
  <2>4. Fine(Append(l, s[n]))
    <3>1. Len(l) \in Nat
      BY <2>3 DEF IsList
    <3> QED BY <2>3, <3>1, ListAppend
  <2> QED BY <2>2, <2>3, <2>4
<1>12. Fine(upTo[len])
  <2> HIDE DEF Fine, upTo
  <2>1. 0 \in T /\ \A n \in 1 .. len : n - 1 \in T => n \in T
    BY <1>10, <1>11
  <2> HIDE DEF T
  <2>2. 0 .. len \subseteq T
    BY <2>1, UpToInduction
  <2>3. len \in T
    BY <2>2
  <2> QED BY <2>3 DEF T
<1> HIDE DEF upTo
<1> QED BY <1>8, <1>12

(* FlattenSeq appends one list after the other.                            *)
Appends(f, seqs) ==
  \A i \in 1 .. Len(seqs) : f[i] = IF i = 1 THEN seqs[i] ELSE f[i-1] \o seqs[i]

LEMMA FlattenUnfolds ==
  ASSUME NEW seqs, IsList(seqs), Len(seqs) # 0
  PROVE  \E f : FlattenSeq(seqs) = f[Len(seqs)] /\ Appends(f, seqs)
<1>0. PICK len \in Nat : len = Len(seqs) /\ len # 0
  BY DEF IsList
<1> DEFINE Step(h, i) == IF i = 1 THEN seqs[i] ELSE h[i-1] \o seqs[i]
           Body(h) == [i \in 1 .. len |-> Step(h, i)]
           Solved(f, m) == f = [i \in 1 .. m |-> f[i]] /\ \A i \in 1 .. m : f[i] = Step(f, i)
           S == {m \in 0 .. len : \E f : Solved(f, m)}
           flatten == CHOOSE h : h = Body(h)
<1>1. 0 \in S
  <2> DEFINE g == [i \in 1 .. 0 |-> 0]
  <2>1. Solved(g, 0)
    OBVIOUS
  <2> HIDE DEF g, Solved
  <2> QED BY <2>1
<1>2. ASSUME NEW m \in 1 .. len, m - 1 \in S PROVE m \in S
  <2>1. PICK f : Solved(f, m - 1)
    BY <1>2
  <2> DEFINE g == [i \in 1 .. m |-> IF i = m THEN Step(f, m) ELSE f[i]]
  <2>2. ASSUME NEW i \in 1 .. m PROVE g[i] = Step(g, i)
    <3>1. i # 1 => g[i-1] = f[i-1]
      OBVIOUS
    <3>2. CASE i = m
      BY <3>1, <3>2
    <3>3. CASE i # m
      <4>1. i \in 1 .. m - 1 /\ g[i] = f[i]
        BY <3>3
      <4>2. f[i] = Step(f, i)
        BY <2>1, <4>1
      <4> HIDE DEF g
      <4> QED BY <3>1, <4>1, <4>2
    <3> QED BY <3>2, <3>3
  <2>3. g = [i \in 1 .. m |-> g[i]]
    OBVIOUS
  <2> HIDE DEF g
  <2>4. Solved(g, m)
    BY <2>2, <2>3
  <2> HIDE DEF Solved
  <2> QED BY <2>4
<1>3. len \in S
  <2> HIDE DEF S
  <2>1. 0 .. len \subseteq S
    BY <1>1, <1>2, UpToInduction
  <2> QED BY <2>1
<1>4. flatten = Body(flatten)
  <2>1. PICK f : Solved(f, len)
    BY <1>3
  <2> HIDE DEF Step
  <2>2. f = Body(f)
    BY <2>1
  <2> HIDE DEF Body
  <2> QED BY <2>2
<1>5. FlattenSeq(seqs) = flatten[len]
  BY <1>0 DEF FlattenSeq
<1>6. \A i \in 1 .. len : flatten[i] = Step(flatten, i)
  <2>1. ASSUME NEW h PROVE \A i \in 1 .. len : Body(h)[i] = Step(h, i)
    OBVIOUS
  <2> HIDE DEF Body, flatten, Step
  <2> QED BY <1>4, <2>1
<1> HIDE DEF flatten
<1> QED BY <1>0, <1>5, <1>6 DEF Appends

LEMMA FlattenGood ==
  ASSUME NEW seqs, IsList(seqs), \A i \in 1 .. Len(seqs) : Good(seqs[i])
  PROVE  Good(FlattenSeq(seqs))
<1>1. PICK len \in Nat : len = Len(seqs)
  BY DEF IsList
<1>2. CASE len = 0
  <2>1. FlattenSeq(seqs) = seqs
    BY <1>1, <1>2 DEF FlattenSeq
  <2>2. \A k \in 1 .. Len(seqs) : FALSE
    BY <1>1, <1>2
  <2>3. Good(seqs)
    BY <2>2 DEF Good
  <2> QED BY <2>1, <2>3
<1>3. CASE len # 0
  <2>1. PICK f : FlattenSeq(seqs) = f[len] /\ Appends(f, seqs)
    BY <1>1, <1>3, FlattenUnfolds
  <2> DEFINE T == {n \in 0 .. len : n # 0 => Good(f[n])}
  <2>2. ASSUME NEW n \in 1 .. len, n - 1 \in T PROVE n \in T
    <3>1. Good(seqs[n])
      BY <1>1
    <3>2. CASE n = 1
      BY <1>1, <2>1, <3>1, <3>2 DEF Appends
    <3>3. CASE n # 1
      <4>1. Good(f[n-1])
        BY <2>2, <3>3
      <4> HIDE DEF T
      <4>2. f[n] = f[n-1] \o seqs[n]
        BY <1>1, <2>1, <3>3 DEF Appends
      <4>3. Good(f[n])
        BY <3>1, <4>1, <4>2, GoodConcat
      <4> QED BY <4>3 DEF T
    <3> QED BY <3>2, <3>3
  <2>3. len \in T
    <3>1. 0 \in T
      OBVIOUS
    <3> HIDE DEF T
    <3>2. 0 .. len \subseteq T
      BY <2>2, <3>1, UpToInduction
    <3> QED BY <3>2
  <2> QED BY <1>3, <2>1, <2>3
<1> QED BY <1>2, <1>3

(* And so for two lists.                                                   *)
LEMMA ConcatElements ==
  ASSUME NEW s, IsList(s), NEW t, IsList(t)
  PROVE  Elements(s) \subseteq Elements(s \o t) /\ Elements(t) \subseteq Elements(s \o t)
<1>1. PICK m \in Nat, n \in Nat : m = Len(s) /\ n = Len(t)
  BY DEF IsList
<1>2. DOMAIN s = 1 .. m /\ DOMAIN t = 1 .. n /\ DOMAIN (s \o t) = 1 .. m + n
  BY <1>1, ConcatList, ListIsSeq
<1>3. \A k \in 1 .. m + n : (s \o t)[k] = IF k <= m THEN s[k] ELSE t[k - m]
  BY <1>1, ConcatList
<1>4. ASSUME NEW k \in 1 .. m PROVE k \in 1 .. m + n /\ (s \o t)[k] = s[k]
  <2>1. k \in 1 .. m + n /\ k <= m
    OBVIOUS
  <2> QED BY <1>3, <2>1
<1>5. ASSUME NEW k \in 1 .. n PROVE k + m \in 1 .. m + n /\ (s \o t)[k + m] = t[k]
  <2>1. k + m \in 1 .. m + n /\ ~(k + m <= m) /\ (k + m) - m = k
    OBVIOUS
  <2> QED BY <1>3, <2>1
<1> QED BY <1>2, <1>4, <1>5 DEF Elements

(* Of a list of lists, every element is in the whole.                      *)
LEMMA FlattenElements ==
  ASSUME NEW seqs, IsList(seqs), \A i \in 1 .. Len(seqs) : IsList(seqs[i])
  PROVE  /\ IsList(FlattenSeq(seqs))
         /\ \A i \in 1 .. Len(seqs) : Elements(seqs[i]) \subseteq Elements(FlattenSeq(seqs))
<1>1. PICK len \in Nat : len = Len(seqs)
  BY DEF IsList
<1>2. CASE len = 0
  <2>1. FlattenSeq(seqs) = seqs
    BY <1>1, <1>2 DEF FlattenSeq
  <2>2. \A k \in 1 .. Len(seqs) : FALSE
    BY <1>1, <1>2
  <2> QED BY <2>1, <2>2
<1>3. CASE len # 0
  <2>1. PICK f : FlattenSeq(seqs) = f[len] /\ Appends(f, seqs)
    BY <1>1, <1>3, FlattenUnfolds
  <2> DEFINE Holds1(n) == IsList(f[n]) /\ \A i \in 1 .. n : Elements(seqs[i]) \subseteq Elements(f[n])
             T == {n \in 0 .. len : n # 0 => Holds1(n)}
  <2>2. ASSUME NEW n \in 1 .. len, n - 1 \in T PROVE n \in T
    <3>1. IsList(seqs[n])
      BY <1>1
    <3>2. CASE n = 1
      <4>1. f[n] = seqs[n] /\ \A i \in 1 .. n : i = n
        BY <1>1, <2>1, <3>2 DEF Appends
      <4> QED BY <3>1, <4>1
    <3>3. CASE n # 1
      <4>1. Holds1(n - 1)
        BY <2>2, <3>3
      <4> HIDE DEF T
      <4>2. f[n] = f[n-1] \o seqs[n]
        BY <1>1, <2>1, <3>3 DEF Appends
      <4>3. IsList(f[n]) /\ Elements(f[n-1]) \subseteq Elements(f[n]) /\ Elements(seqs[n]) \subseteq Elements(f[n])
        BY <3>1, <4>1, <4>2, ConcatList, ConcatElements
      <4>4. \A i \in 1 .. n : i \in 1 .. n - 1 \/ i = n
        OBVIOUS
      <4>5. Holds1(n)
        BY <4>1, <4>3, <4>4
      <4> QED BY <4>5 DEF T
    <3> QED BY <3>2, <3>3
  <2>3. len \in T
    <3>1. 0 \in T
      OBVIOUS
    <3> HIDE DEF T
    <3>2. 0 .. len \subseteq T
      BY <2>2, <3>1, UpToInduction
    <3> QED BY <3>2
  <2> QED BY <1>1, <1>3, <2>1, <2>3
<1> QED BY <1>2, <1>3

LEMMA ArtifactsAreList ==
  ASSUME NEW outputs
  PROVE  IsList(Artifacts(outputs))
  BY EmptyList, ShortLists DEF Artifacts

LEMMA ChainIsGood ==
  ASSUME Facts(given), NEW c, c.ecosystem \in {"Cargo", "Nimble", "C", "Cpp"}
  PROVE  Good(Chain(c))
<1>1. ASSUME NEW id, NEW kind, NEW inputs, NEW outputs, NEW list, IsList(list), NEW needs
      PROVE  IsList(Action(id, kind, inputs, outputs, list, needs).discharges)
  BY <1>1 DEF Action
<1>2. ASSUME NEW kind, NEW outputKind PROVE Good(Compile(c, kind, outputKind))
  <2>1. IsList(Artifacts(OutputsOf(c.package, outputKind)))
    BY ArtifactsAreList
  <2>2. PICK list : list = Artifacts(OutputsOf(c.package, outputKind))
    OBVIOUS
  <2>3. PICK a : /\ a = Action(<<kind, c.package>>, kind, {Source(given.lowerings[c.package])},
                               First(OutputsOf(c.package, outputKind)), list, {})
    OBVIOUS
  <2>4. Good(<<a>>)
    BY <1>1, <2>1, <2>2, <2>3, GoodOne
  <2> QED BY <2>2, <2>3, <2>4, ShortLists DEF Compile
<1>3. ASSUME NEW kind, NEW objects, IsList(objects),
             \A k \in 1 .. Len(objects) : IsFiniteSet(objects[k].sources)
      PROVE  Good(CompileObjects(c, kind, objects))
  <2>1. CASE PerSource(c, objects)
    <3> DEFINE Ids(i) == {Source(s) : s \in objects[i].sources}
               One(i) == Action(<<kind, c.package, c.version, objects[i].id>>, kind, Ids(i),
                                {Output(objects[i].id)}, SetToSeq(Ids(i)), {})
    <3>1. PICK len \in Nat : len = Len(objects) /\ DOMAIN objects = 1 .. len
      BY <1>3, ListIsSeq DEF IsList
    <3>2. CompileObjects(c, kind, objects) = [i \in 1 .. len |-> One(i)]
      BY <2>1, <3>1 DEF CompileObjects
    <3>3. ASSUME NEW i \in 1 .. len PROVE IsList(One(i).discharges)
      <4>1. IsFiniteSet(Ids(i))
        <5>1. PICK S : S = objects[i].sources /\ IsFiniteSet(S)
          BY <1>3, <3>1
        <5> DEFINE f == [x \in S |-> Source(x)]
        <5>2. f \in Surjection(S, {Source(x) : x \in S})
          BY DEF Surjection
        <5>3. IsFiniteSet({Source(x) : x \in S})
          BY <5>1, <5>2, FS_Surjection
        <5> QED BY <5>1, <5>3
      <4> HIDE DEF Ids
      <4>2. IsList(SetToSeq(Ids(i)))
        BY <4>1, OrderedIsList
      <4> QED BY <4>2, <1>1
    <3> HIDE DEF One
    <3>4. PICK as : as = [i \in 1 .. len |-> One(i)]
      OBVIOUS
    <3>5. as = [i \in 1 .. len |-> as[i]] /\ \A i \in 1 .. len : as[i] = One(i)
      BY <3>4
    <3>6. Len(as) = len /\ IsList(as)
      BY <3>5, FunctionIsList
    <3> QED BY <3>2, <3>3, <3>4, <3>5, <3>6 DEF Good
  <2>2. CASE ~PerSource(c, objects)
    <3>1. PICK a : a = Action(<<kind, c.package, c.version>>, kind, SourcesOf(c), First(objects), <<>>, {})
      OBVIOUS
    <3>2. Good(<<a>>)
      BY <1>1, <3>1, EmptyList, GoodOne
    <3> QED BY <2>2, <3>1, <3>2 DEF CompileObjects
  <2> QED BY <2>1, <2>2
<1>4. ASSUME NEW kind, NEW objectKind PROVE Good(CompileAndArchive(c, kind, objectKind))
  <2>1. PICK objects : objects = OutputsOf(c.package, objectKind)
    OBVIOUS
  <2>2. PICK compiles : compiles = CompileObjects(c, kind, objects)
    OBVIOUS
  <2>3. PICK a : a = Archive(c, "ArchiveStaticLibrary", compiles, objects)
    OBVIOUS
  <2>4. Good(compiles)
    BY <1>3, <2>1, <2>2, OutputsAreList
  <2>5. IsList(a.discharges)
    BY <1>1, <2>3, ArtifactsAreList DEF Archive
  <2>6. Good(Append(compiles, a))
    <3>1. PICK len \in Nat : len = Len(compiles)
      BY <2>4 DEF Good, IsList
    <3>2. /\ IsList(Append(compiles, a)) /\ Len(Append(compiles, a)) = len + 1
          /\ \A k \in 1 .. len : Append(compiles, a)[k] = compiles[k]
          /\ Append(compiles, a)[len + 1] = a
      BY <2>4, <3>1, ListAppend DEF Good
    <3>3. \A k \in 1 .. len + 1 : k \in 1 .. len \/ k = len + 1
      OBVIOUS
    <3> QED BY <2>4, <2>5, <3>1, <3>2, <3>3 DEF Good
  <2> QED BY <2>1, <2>2, <2>3, <2>6 DEF CompileAndArchive
<1> QED BY <1>2, <1>4 DEF Chain

LEMMA ClosingIsGood ==
  ASSUME NEW os, NEW as, NEW exe
  PROVE  Good(LinkAndPublish(os, as, exe))
<1>1. PICK x, y, z : /\ LinkAndPublish(os, as, exe) = <<x, y, z>>
                     /\ x.discharges = <<FinalLink, LinkOrder, Artifact(exe)>>
                     /\ y.discharges = <<Runtime>> /\ z.discharges = <<Provenance>>
  <2>1. ASSUME NEW id, NEW kind, NEW inputs, NEW outputs, NEW list, NEW needs
        PROVE  Action(id, kind, inputs, outputs, list, needs).discharges = list
    BY DEF Action
  <2>2. PICK i, o, p, w, x, y, z :
          /\ LinkAndPublish(os, as, exe) = <<x, y, z>>
          /\ x = Action(<<"link">>, "LinkNativeExecutable", i, o, <<FinalLink, LinkOrder, Artifact(exe)>>, w)
          /\ y = Action(<<"preflight">>, "PreflightRuntimeContract", o, {}, <<Runtime>>, {<<"link">>})
          /\ z = Action(<<"publish">>, "PublishProvenance", o, p, <<Provenance>>, {<<"preflight">>})
    BY Zenon DEF LinkAndPublish
  <2> QED BY <2>1, <2>2
<1>2. IsList(x.discharges) /\ IsList(y.discharges) /\ IsList(z.discharges)
  BY <1>1, ShortLists
<1>3. IsList(<<x, y, z>>) /\ Len(<<x, y, z>>) = 3
  BY ShortLists
<1>4. \A k \in 1 .. 3 : k = 1 \/ k = 2 \/ k = 3
  OBVIOUS
<1>5. \A k \in 1 .. 3 : IsList(<<x, y, z>>[k].discharges)
  BY <1>2, <1>4
<1> QED BY <1>1, <1>3, <1>5 DEF Good

(* What the resolver hands to the driver.                                  *)
Reading   == {"triple", "cargo", "nimble", "main", "exports", "cadd", "facts"}
Resolving == {"register", "roots", "requirements", "actions", "closing"}
Recording == {"resolution", "operations", "failed", "published", "blocked", "any order"}

FactsGiven   == results = <<>> => Good(actions) /\ (stage \in Resolving => Facts(given))
Returned     == /\ IsList(results)
                /\ results # <<>> => Good(results[1].actions)
                /\ stage \in {"resolved", "resolution", "operations"} => results # <<>> /\ next \in Nat \ {0}
FoundListed  == stage \in {"cadd", "facts"} =>
                  /\ "cadd" \in DOMAIN found
                  /\ found.cadd \in Seq(Elements(found.cadd))
                  /\ \A c \in Elements(found.cadd) : c.ecosystem = "C" /\ IsFiniteSet(c.sources)
CppFound     == stage = "facts" => found.cppmax.ecosystem = "Cpp"

NothingYet   == stage \notin Recording => closure = NoGraph /\ operations = {} /\ contracts = {}
PlanIsGraph  == stage \in {"resolution", "operations"} =>
                  Lifecycle!Actions = {a.id : a \in Elements(results[1].actions)}

DriverInv == FactsGiven /\ Returned /\ FoundListed /\ CppFound /\ NothingYet /\ PlanIsGraph

LEMMA ReturnIsGood ==
  ASSUME DriverInv, stage \in Resolving, NEW result, Return(result),
         results = <<>> => Good(result.actions),
         UNCHANGED <<ingestVars, productionVars>>
  PROVE  DriverInv'
<1>1. IsList(results) /\ results' = Append(results, result)
  BY DEF DriverInv, Returned, Return
<1>2. PICK n \in Nat : n = Len(results)
  BY <1>1 DEF IsList
<1>3. /\ IsList(results') /\ Len(results') = n + 1
      /\ results'[n + 1] = result /\ \A k \in 1 .. n : results'[k] = results[k]
  BY <1>1, <1>2, ListAppend
<1>4. results' # <<>>
  BY <1>2, <1>3
<1>5. Good(results'[1].actions)
  <2>1. CASE n = 0
    <3>1. results \in Seq({results[i] : i \in 1 .. n})
      BY <1>1, <1>2, ListIsSeq
    <3>2. results = <<>>
      BY <1>2, <2>1, <3>1
    <3> QED BY <1>3, <2>1, <3>2
  <2>2. CASE n # 0
    <3>1. results # <<>> /\ 1 \in 1 .. n
      BY <1>2, <2>2
    <3> QED BY <1>3, <3>1 DEF DriverInv, Returned
  <2> QED BY <2>1, <2>2
<1>6. stage' \in {"register", "resolved"} /\ next' = 1
  BY DEF Return
<1>7. Returned'
  BY <1>3, <1>4, <1>5, <1>6 DEF Returned, IsList, Good
<1>8. FactsGiven'
  BY <1>4 DEF FactsGiven
<1>9. FoundListed' /\ CppFound' /\ PlanIsGraph'
  BY <1>6 DEF FoundListed, CppFound, PlanIsGraph
<1>10. NothingYet'
  <2>1. closure' = closure /\ operations' = operations /\ contracts' = contracts
    BY DEF productionVars
  <2>2. stage \notin Recording
    BY DEF Resolving, Recording
  <2> QED BY <2>1, <2>2 DEF DriverInv, NothingYet, NoGraph
<1> QED BY <1>7, <1>8, <1>9, <1>10 DEF DriverInv

LEMMA GotoKeeps ==
  ASSUME DriverInv, stage \in Resolving, NEW to \in Resolving \cup {"panicked"}, Goto(to),
         results = <<>> => Good(actions'),
         UNCHANGED <<ingestVars, productionVars>>
  PROVE  DriverInv'
<1>1. stage' = to /\ given' = given /\ results' = results
  BY DEF Goto
<1>2. FactsGiven'
  BY <1>1 DEF DriverInv, FactsGiven
<1>3. Returned'
  BY <1>1 DEF DriverInv, Returned, Resolving
<1>4. FoundListed' /\ CppFound' /\ PlanIsGraph'
  BY <1>1 DEF FoundListed, CppFound, PlanIsGraph, Resolving
<1>5. NothingYet'
  <2>1. closure' = closure /\ operations' = operations /\ contracts' = contracts
    BY DEF productionVars
  <2>2. stage \notin Recording
    BY DEF Resolving, Recording
  <2> QED BY <2>1, <2>2 DEF DriverInv, NothingYet, NoGraph
<1> QED BY <1>2, <1>3, <1>4, <1>5 DEF DriverInv

LEMMA ResolveKeeps ==
  ASSUME DriverInv, Resolve, UNCHANGED <<ingestVars, productionVars>>
  PROVE  DriverInv'
<1>1. stage \in Resolving
  BY DEF Resolving, Resolve, Register, RejectRoots, SelectRoots, RejectRequirement, SelectProvider,
         Panic, RejectUndeclared, RegisterRoots, BuildActions, Close
<1>2. results = <<>> => Facts(given) /\ Good(actions)
  BY <1>1 DEF DriverInv, FactsGiven
<1>3. ASSUME NEW reason, Reject(reason) PROVE DriverInv'
  <2>1. PICK r : r = Result(reason, <<>>, <<>>, {})
    OBVIOUS
  <2>2. r.actions = <<>>
    BY <2>1 DEF Result
  <2>3. Return(r) /\ Good(r.actions)
    BY <1>3, <2>1, <2>2, ShortLists DEF Reject
  <2> QED BY <1>1, <2>3, ReturnIsGood
<1>4. ASSUME NEW to \in Resolving \cup {"panicked"}, Goto(to), actions' = actions PROVE DriverInv'
  BY <1>1, <1>2, <1>4, GotoKeeps
<1>5. CASE Register
  BY <1>4, <1>5 DEF Register, Resolving
<1>6. CASE RejectRoots \/ RejectRequirement \/ RejectUndeclared
  BY <1>3, <1>6 DEF RejectRoots, RejectRequirement, RejectUndeclared
<1>7. CASE SelectRoots
  BY <1>4, <1>7 DEF SelectRoots, Resolving
<1>8. CASE SelectProvider
  BY <1>4, <1>8 DEF SelectProvider, Resolving
<1>9. CASE Panic
  BY <1>4, <1>9 DEF Panic
<1>10. CASE RegisterRoots
  BY <1>4, <1>10 DEF RegisterRoots, Resolving
<1>11. CASE BuildActions
  <2>1. PICK seqs : seqs = [i \in DOMAIN given.candidates |->
                              IF IsSelected(given.candidates[i]) THEN Chain(given.candidates[i]) ELSE <<>>]
    OBVIOUS
  <2>2. actions' = FlattenSeq(seqs) /\ Goto("closing")
    BY <1>11, <2>1 DEF BuildActions
  <2>3. ASSUME results = <<>> PROVE Good(actions')
    <3>1. PICK cs : cs = given.candidates
      OBVIOUS
    <3>2. cs \in Seq(Elements(cs)) /\ \A c \in Elements(cs) : c.ecosystem \in {"Cargo", "Nimble", "C", "Cpp"}
      BY <1>2, <2>3, <3>1 DEF Facts
    <3>3. IsList(cs)
      BY <3>2, SeqIsList
    <3>4. PICK n \in Nat : n = Len(cs) /\ DOMAIN cs = 1 .. n
      BY <3>3, ListIsSeq DEF IsList
    <3>5. seqs = [i \in 1 .. n |-> seqs[i]]
      BY <2>1, <3>1, <3>4
    <3>6. \A i \in 1 .. n : Good(seqs[i])
      <4> SUFFICES ASSUME NEW i \in 1 .. n PROVE Good(seqs[i])
        OBVIOUS
      <4>1. cs[i].ecosystem \in {"Cargo", "Nimble", "C", "Cpp"}
        BY <3>2, <3>4 DEF Elements
      <4>2. Good(Chain(cs[i]))
        BY <1>2, <2>3, <4>1, ChainIsGood
      <4>3. seqs[i] = Chain(cs[i]) \/ seqs[i] = <<>>
        BY <2>1, <3>1, <3>4
      <4> QED BY <4>2, <4>3, ShortLists
    <3>7. IsList(seqs) /\ Len(seqs) = n
      BY <3>5, FunctionIsList
    <3> QED BY <2>2, <3>6, <3>7, FlattenGood
  <2> QED BY <1>1, <2>2, <2>3, GotoKeeps DEF Resolving
<1>12. CASE Close
  <2>1. PICK exe, os, as, closing :
          /\ closing = LinkAndPublish(obligations, actions, exe) /\ as = actions \o closing
          /\ Return(Result("accepted", os, as, Violations(given, os, as)))
    BY <1>12 DEF Close
  <2>2. PICK r : r = Result("accepted", os, as, Violations(given, os, as))
    OBVIOUS
  <2>3. r.actions = as
    BY <2>2 DEF Result
  <2>4. results = <<>> => Good(as)
    BY <1>2, <2>1, ClosingIsGood, GoodConcat
  <2> QED BY <1>1, <2>1, <2>2, <2>3, <2>4, ReturnIsGood
<1> QED BY <1>5, <1>6, <1>7, <1>8, <1>9, <1>10, <1>11, <1>12 DEF Resolve

(* What is made of the elements of a finite set.                           *)
LEMMA MadeIsFinite ==
  ASSUME NEW S, IsFiniteSet(S), NEW f
  PROVE  IsFiniteSet({f[x] : x \in S})
<1> DEFINE T == {f[x] : x \in S}
<1>1. PICK g : g = [x \in S |-> f[x]]
  OBVIOUS
<1>2. g \in Surjection(S, T)
  BY <1>1 DEF Surjection
<1> QED BY <1>2, FS_Surjection

-----------------------------------------------------------------------------
(* The files *)

(* What is required, and from which files.                                 *)
Plain(requirements) ==
  /\ workspace.packages # None /\ MainUsable
  /\ \A i \in Asked : /\ workspace.packages[i].features # None
                      /\ requirements = Required(workspace.main, Activated(workspace.packages[i].features),
                                                 workspace.unix)

FilesGiven    == workspace \in Workspaces \/ (workspace = None /\ stage \notin Reading)
CargoFound    == stage \in {"nimble", "main"} =>
                   /\ "cargo" \in DOMAIN found /\ workspace.packages # None
                   /\ \A i \in Asked : /\ workspace.packages[i].features # None
                                       /\ found.cargo.active = Activated(workspace.packages[i].features)
RequiredFound == stage \in {"exports", "cadd", "facts"} =>
                   "required" \in DOMAIN found /\ IsList(found.required) /\ Plain(found.required)
RequiredGiven == workspace # None /\ stage \notin Reading \cup {"refused"} => Plain(input.requirements)

FilesInv == FilesGiven /\ CargoFound /\ RequiredFound /\ RequiredGiven

(* What the files say is settled once the facts are handed over.           *)
LEMMA FilesStay ==
  ASSUME FilesInv, stage \notin Reading \cup {"refused"}, stage' \notin Reading \cup {"refused"},
         UNCHANGED <<workspace, input>>
  PROVE  FilesInv'
<1>1. FilesGiven' /\ CargoFound' /\ RequiredFound'
  BY DEF FilesInv, FilesGiven, CargoFound, RequiredFound, Reading
<1>2. RequiredGiven'
  BY DEF FilesInv, RequiredGiven, Reading, Plain, MainUsable, Asked
<1> QED BY <1>1, <1>2 DEF FilesInv


LEMMA RequiredHolds ==
  ASSUME NEW w \in Workspaces, w.main # None, NEW features, NEW unix
  PROVE  /\ IsList(Required(w.main, features, unix))
         /\ \A b \in Elements(w.main) : Active(b, features, unix) =>
              \A f \in Elements(b.functions) :
                RequirementOf(b, f) \in Elements(Required(w.main, features, unix))
<1>1. PICK main : main = w.main
  OBVIOUS
<1>2. /\ main \in Seq(Elements(main))
      /\ \A b \in Elements(main) : b.functions \in Seq(Elements(b.functions))
  BY <1>1, WorkspacesAssumption
<1>3. IsList(main)
  BY <1>2, SeqIsList
<1>4. PICK n \in Nat : n = Len(main) /\ DOMAIN main = 1 .. n
  BY <1>3, ListIsSeq DEF IsList
<1> DEFINE Of1(b) == [k \in DOMAIN b.functions |-> RequirementOf(b, b.functions[k])]
           seqs == [i \in 1 .. n |-> IF Active(main[i], features, unix) THEN Of1(main[i]) ELSE <<>>]
<1>5. Required(main, features, unix) = FlattenSeq(seqs)
  BY <1>4 DEF Required
<1>6. ASSUME NEW b \in Elements(main)
      PROVE  /\ IsList(Of1(b))
             /\ \A f \in Elements(b.functions) : RequirementOf(b, f) \in Elements(Of1(b))
  <2>1. IsList(b.functions)
    BY <1>2, SeqIsList
  <2>2. PICK m \in Nat : m = Len(b.functions) /\ DOMAIN b.functions = 1 .. m
    BY <2>1, ListIsSeq DEF IsList
  <2>3. PICK g : g = Of1(b)
    OBVIOUS
  <2>4. g = [k \in 1 .. m |-> g[k]] /\ \A k \in 1 .. m : g[k] = RequirementOf(b, b.functions[k])
    BY <2>2, <2>3
  <2>5. IsList(g) /\ DOMAIN g = 1 .. m
    BY <2>4, FunctionIsList
  <2>6. \A f \in Elements(b.functions) : RequirementOf(b, f) \in Elements(g)
    BY <2>2, <2>4, <2>5 DEF Elements
  <2> QED BY <2>3, <2>5, <2>6
<1>7. \A i \in 1 .. n : main[i] \in Elements(main)
  BY <1>4 DEF Elements
<1>8. /\ seqs = [i \in 1 .. n |-> seqs[i]]
      /\ \A i \in 1 .. n : seqs[i] = Of1(main[i]) \/ seqs[i] = <<>>
      /\ \A i \in 1 .. n : Active(main[i], features, unix) => seqs[i] = Of1(main[i])
  OBVIOUS
<1> HIDE DEF seqs, Of1
<1>9. IsList(seqs) /\ Len(seqs) = n
  BY <1>8, FunctionIsList
<1>10. \A i \in 1 .. n : IsList(seqs[i])
  BY <1>6, <1>7, <1>8, EmptyList
<1>11. /\ IsList(FlattenSeq(seqs))
       /\ \A i \in 1 .. n : Elements(seqs[i]) \subseteq Elements(FlattenSeq(seqs))
  BY <1>9, <1>10, FlattenElements
<1>12. ASSUME NEW b \in Elements(main), Active(b, features, unix), NEW f \in Elements(b.functions)
       PROVE  RequirementOf(b, f) \in Elements(FlattenSeq(seqs))
  <2>1. PICK i \in 1 .. n : main[i] = b
    BY <1>4 DEF Elements
  <2>2. seqs[i] = Of1(b)
    BY <1>8, <1>12, <2>1
  <2> QED BY <1>6, <1>11, <2>1, <2>2
<1> QED BY <1>1, <1>5, <1>11, <1>12

(* The package that was asked for is the first one of its manifest.        *)
LEMMA AskedOnce ==
  ASSUME workspace \in Workspaces, workspace.packages # None, NEW i \in Asked, NEW j \in Asked
  PROVE  i = j
<1>1. IsList(workspace.packages)
  BY WorkspacesAssumption, SeqIsList
<1>2. DOMAIN workspace.packages = 1 .. Len(workspace.packages) /\ Len(workspace.packages) \in Nat
  BY <1>1, ListIsSeq DEF IsList
<1>3. PICK n \in Nat : DOMAIN workspace.packages = 1 .. n
  BY <1>2
<1>4. /\ i \in 1 .. n /\ j \in 1 .. n
      /\ workspace.packages[i].manifest = "app" /\ workspace.packages[j].manifest = "app"
      /\ \A k \in 1 .. i - 1 : workspace.packages[k].manifest # "app"
      /\ \A k \in 1 .. j - 1 : workspace.packages[k].manifest # "app"
  BY <1>3 DEF Asked
<1>5. i \notin 1 .. j - 1 /\ j \notin 1 .. i - 1
  BY <1>4
<1> QED BY <1>4, <1>5

Updated(facts) ==
  [k \in DOMAIN facts \cup DOMAIN found |-> IF k \in DOMAIN facts THEN facts[k] ELSE found[k]]

LEMMA FoundUpdates ==
  ASSUME NEW facts, NEW to, Found(facts, to)
  PROVE  /\ DOMAIN found' = DOMAIN facts \cup DOMAIN found
         /\ \A k \in DOMAIN facts : found'[k] = facts[k]
         /\ \A k \in DOMAIN found \ DOMAIN facts : found'[k] = found[k]
         /\ stage' = to /\ UNCHANGED <<workspace, input>>
  BY DEF Found

LEMMA ReadingKeepsFiles ==
  ASSUME FilesInv, Ingest
  PROVE  FilesInv'
<1>1. stage \in Reading /\ workspace' = workspace /\ workspace \in Workspaces
  <2>1. stage \in Reading
    BY DEF Reading, Ingest, ReadTriple, ReadCargo, ReadNimble, ReadMain, ReadExports,
           ReadCadd, ReadCppmax, Refuse, HandOver
  <2>2. workspace' = workspace
    BY FoundUpdates DEF Ingest, ReadTriple, ReadCargo, ReadNimble, ReadMain, ReadExports,
           ReadCadd, ReadCppmax, Refuse, HandOver, ingestVars
  <2> QED BY <2>1, <2>2 DEF FilesInv, FilesGiven
<1>2. FilesGiven'
  BY <1>1 DEF FilesGiven
<1>3. ASSUME stage' \in Reading \cup {"refused"} PROVE RequiredGiven'
  BY <1>3 DEF RequiredGiven
<1>4. CASE ReadTriple \/ Refuse
  <2>1. stage' \in {"cargo", "refused"}
    BY <1>4, FoundUpdates DEF ReadTriple, Refuse
  <2> QED BY <1>2, <1>3, <2>1 DEF FilesInv, CargoFound, RequiredFound, Reading
<1>5. CASE ReadCargo
  <2>1. \E i \in Asked : \E c :
          /\ Found([cargo |-> c], "nimble")
          /\ c.active = Activated(workspace.packages[i].features)
    <3>1. PICK i \in Asked :
            Found([cargo |-> [name |-> workspace.packages[i].name, version |-> workspace.packages[i].version,
                              active |-> Activated(workspace.packages[i].features)]], "nimble")
      BY <1>5 DEF ReadCargo
    <3>2. PICK c : c = [name |-> workspace.packages[i].name, version |-> workspace.packages[i].version,
                        active |-> Activated(workspace.packages[i].features)]
      OBVIOUS
    <3> QED BY <3>1, <3>2
  <2>2. PICK i \in Asked : \E c :
          /\ Found([cargo |-> c], "nimble")
          /\ c.active = Activated(workspace.packages[i].features)
    BY <2>1
  <2>3. PICK c :
          /\ Found([cargo |-> c], "nimble")
          /\ c.active = Activated(workspace.packages[i].features)
    BY <2>2
  <2>4. workspace.packages # None /\ \E k \in Asked : workspace.packages[k].features # None
    BY <1>5 DEF ReadCargo, CargoNamed
  <2>5. \A k \in Asked : k = i
    BY <1>1, <2>4, AskedOnce
  <2>6. stage' = "nimble" /\ "cargo" \in DOMAIN found' /\ found'.cargo = c
    <3>1. PICK facts : facts = [cargo |-> c]
      OBVIOUS
    <3>2. DOMAIN facts = {"cargo"} /\ facts["cargo"] = c
      BY <3>1
    <3> QED BY <2>3, <3>1, <3>2, FoundUpdates
  <2>7. CargoFound'
    BY <1>1, <2>3, <2>4, <2>5, <2>6 DEF CargoFound, Asked
  <2> QED BY <1>2, <1>3, <2>6, <2>7 DEF FilesInv, RequiredFound, Reading
<1>6. CASE ReadNimble
  <2>1. PICK facts : DOMAIN facts = {"nimble"} /\ Found(facts, "main")
    BY <1>6 DEF ReadNimble
  <2>2. stage = "nimble" /\ "cargo" \in DOMAIN found \ DOMAIN facts
    BY <1>6, <2>1 DEF ReadNimble, FilesInv, CargoFound
  <2>3. stage' = "main" /\ "cargo" \in DOMAIN found' /\ found'.cargo = found.cargo
    BY <2>1, <2>2, FoundUpdates
  <2>4. CargoFound'
    BY <1>1, <2>2, <2>3 DEF FilesInv, CargoFound, Asked
  <2> QED BY <1>2, <1>3, <2>3, <2>4 DEF FilesInv, RequiredFound, Reading
<1>7. CASE ReadMain
  <2>1. PICK list : /\ Found([required |-> list], "exports")
                    /\ list = Required(workspace.main, found.cargo.active, workspace.unix)
    BY <1>7 DEF ReadMain
  <2>2. stage = "main" /\ MainUsable
    BY <1>7 DEF ReadMain
  <2>3. stage' = "exports" /\ "required" \in DOMAIN found' /\ found'.required = list
    <3>1. PICK facts : facts = [required |-> list]
      OBVIOUS
    <3>2. DOMAIN facts = {"required"} /\ facts["required"] = list
      BY <3>1
    <3> QED BY <2>1, <3>1, <3>2, FoundUpdates
  <2>4. Plain(list)
    BY <2>1, <2>2 DEF FilesInv, CargoFound, Plain
  <2>5. IsList(list)
    <3>1. PICK w : w = workspace
      OBVIOUS
    <3>2. w \in Workspaces /\ w.main # None
      BY <1>1, <2>2, <3>1 DEF MainUsable
    <3> QED BY <2>1, <3>1, <3>2, RequiredHolds
  <2>6. Plain(list)'
    BY <1>1, <2>4 DEF Plain, MainUsable, Asked
  <2>7. RequiredFound'
    BY <2>3, <2>5, <2>6 DEF RequiredFound, Plain
  <2> QED BY <1>2, <1>3, <2>3, <2>7 DEF FilesInv, CargoFound, Reading
<1>8. CASE ReadExports \/ ReadCadd \/ ReadCppmax
  <2>1. PICK facts, to : /\ "required" \notin DOMAIN facts /\ to \in {"cadd", "facts"}
                         /\ Found(facts, to)
    <3>1. CASE ReadExports
      BY <3>1 DEF ReadExports
    <3>2. CASE ReadCadd
      BY <3>2 DEF ReadCadd
    <3>3. CASE ReadCppmax
      BY <3>3 DEF ReadCppmax
    <3> QED BY <1>8, <3>1, <3>2, <3>3
  <2>2. stage \in {"exports", "cadd"}
    BY <1>8 DEF ReadExports, ReadCadd, ReadCppmax
  <2>3. /\ stage' \in {"cadd", "facts"} /\ "required" \in DOMAIN found'
        /\ found'.required = found.required
    BY <2>1, <2>2, FoundUpdates DEF FilesInv, RequiredFound
  <2>4. PICK list : list = found.required /\ IsList(list) /\ Plain(list)
    BY <2>2 DEF FilesInv, RequiredFound
  <2>5. Plain(list)'
    BY <1>1, <2>4 DEF Plain, MainUsable, Asked
  <2>6. RequiredFound'
    BY <2>3, <2>4, <2>5 DEF RequiredFound, Plain
  <2> QED BY <1>2, <1>3, <2>3, <2>6 DEF FilesInv, CargoFound, Reading
<1>9. CASE HandOver
  <2>1. stage = "facts" /\ stage' = "register" /\ input' = FixtureInput
    BY <1>9 DEF HandOver
  <2>2. PICK list : list = found.required /\ Plain(list)
    BY <2>1 DEF FilesInv, RequiredFound
  <2>3. input'.requirements = list
    BY <2>1, <2>2 DEF FixtureInput, DependencyResolutionInput
  <2>4. Plain(list)'
    BY <1>1, <2>2 DEF Plain, MainUsable, Asked
  <2>5. RequiredGiven'
    BY <2>3, <2>4 DEF RequiredGiven, Plain
  <2> QED BY <1>2, <2>1, <2>5 DEF FilesInv, CargoFound, RequiredFound
<1> QED BY <1>4, <1>5, <1>6, <1>7, <1>8, <1>9 DEF Ingest

-----------------------------------------------------------------------------
(* The facts *)

LEMMA FewAreFinite ==
  \A x, y, z : IsFiniteSet({x}) /\ IsFiniteSet({x, y}) /\ IsFiniteSet({x, y, z})
<1> SUFFICES ASSUME NEW x, NEW y, NEW z
             PROVE  IsFiniteSet({x}) /\ IsFiniteSet({x, y}) /\ IsFiniteSet({x, y, z})
  OBVIOUS
<1>1. IsFiniteSet({x})
  BY FS_Singleton
<1>2. IsFiniteSet({x} \cup {y})
  BY <1>1, FS_AddElement
<1>3. IsFiniteSet(({x} \cup {y}) \cup {z})
  BY <1>2, FS_AddElement
<1>4. {x, y} = {x} \cup {y} /\ {x, y, z} = ({x} \cup {y}) \cup {z}
  OBVIOUS
<1> QED BY <1>1, <1>2, <1>3, <1>4

LEMMA FilesAreFinite ==
  ASSUME NEW path
  PROVE  IsFiniteSet(Files(path))
  BY FewAreFinite DEF Files

LEMMA ElementsAreFinite ==
  ASSUME NEW s, s \in Seq(Elements(s))
  PROVE  IsFiniteSet(Elements(s))
<1>1. IsList(s)
  BY SeqIsList
<1>2. PICK n \in Nat : n = Len(s) /\ DOMAIN s = 1 .. n
  BY <1>1, ListIsSeq DEF IsList
<1>3. IsFiniteSet(1 .. n)
  BY FS_Interval
<1>4. Elements(s) = {s[i] : i \in 1 .. n}
  BY <1>2 DEF Elements
<1> QED BY <1>3, <1>4, MadeIsFinite

LEMMA SourcesAreFinite ==
  ASSUME IsFiniteSet(Elements(found.cadd)), \A d \in Elements(found.cadd) : IsFiniteSet(d.sources)
  PROVE  IsFiniteSet(FixtureSources) /\ IsFiniteSet(DOMAIN FixtureLowerings)
<1> DEFINE OfC(files, package) == {SourceModule(f, package) : f \in files}
           parts == {OfC(c.sources, "cadd") : c \in Elements(found.cadd)}
<1>1. ASSUME NEW files, NEW package, IsFiniteSet(files)
      PROVE  IsFiniteSet(OfC(files, package))
  <2>1. PICK f : f = [x \in files |-> SourceModule(x, package)]
    OBVIOUS
  <2>2. OfC(files, package) = {f[x] : x \in files}
    BY <2>1
  <2> QED BY <1>1, <2>2, MadeIsFinite
<1>2. IsFiniteSet({"main.rs"}) /\ IsFiniteSet(NimFiles) /\ IsFiniteSet(Files("cppmax"))
  BY FewAreFinite, FilesAreFinite DEF NimFiles
<1>3. IsFiniteSet(UNION parts)
  <2>1. PICK f : f = [c \in Elements(found.cadd) |-> OfC(c.sources, "cadd")]
    OBVIOUS
  <2>2. parts = {f[c] : c \in Elements(found.cadd)}
    BY <2>1
  <2>3. IsFiniteSet(parts)
    <3>1. PICK S : S = Elements(found.cadd)
      OBVIOUS
    <3> HIDE DEF parts
    <3> QED BY <2>2, <3>1, MadeIsFinite
  <2>4. \A x \in parts : IsFiniteSet(x)
    BY <1>1
  <2> HIDE DEF parts
  <2> QED BY <2>3, <2>4, FS_UNION
<1>4. IsFiniteSet(FixtureSources)
  <2>1. FixtureSources = OfC({"main.rs"}, found.cargo.name) \cup OfC(NimFiles, found.nimble.name)
                           \cup (UNION parts) \cup OfC(Files("cppmax"), "cppmax")
    BY DEF FixtureSources
  <2>2. /\ IsFiniteSet(OfC({"main.rs"}, found.cargo.name))
        /\ IsFiniteSet(OfC(NimFiles, found.nimble.name))
        /\ IsFiniteSet(OfC(Files("cppmax"), "cppmax"))
    <3>1. PICK p, q : p = found.cargo.name /\ q = found.nimble.name
      OBVIOUS
    <3> HIDE DEF OfC
    <3> QED BY <1>1, <1>2, <3>1
  <2>3. PICK a, b, c, d : /\ a = OfC({"main.rs"}, found.cargo.name) /\ b = OfC(NimFiles, found.nimble.name)
                          /\ c = UNION parts /\ d = OfC(Files("cppmax"), "cppmax")
    OBVIOUS
  <2> HIDE DEF OfC, parts
  <2>4. IsFiniteSet(a \cup b)
    BY <2>2, <2>3, FS_Union
  <2>5. IsFiniteSet((a \cup b) \cup c)
    BY <1>3, <2>3, <2>4, FS_Union
  <2>6. IsFiniteSet(((a \cup b) \cup c) \cup d)
    BY <2>2, <2>3, <2>5, FS_Union
  <2> QED BY <2>1, <2>3, <2>6
<1>5. DOMAIN FixtureLowerings = {found.cargo.name, found.nimble.name}
  BY DEF FixtureLowerings
<1> QED BY <1>4, <1>5, FewAreFinite

LEMMA IngestKeeps ==
  ASSUME DriverInv, FilesInv, Ingest, UNCHANGED productionVars
  PROVE  DriverInv'
<1>1. stage \notin Recording /\ stage \notin Resolving
  BY DEF Resolving, Recording, Ingest, ReadTriple, ReadCargo, ReadNimble, ReadMain, ReadExports,
         ReadCadd, ReadCppmax, Refuse, HandOver
<1>2. NothingYet'
  <2>1. closure' = closure /\ operations' = operations /\ contracts' = contracts
    BY DEF productionVars
  <2> QED BY <1>1, <2>1 DEF DriverInv, NothingYet, NoGraph
<1>3. ASSUME NEW facts, NEW to, Found(facts, to), to \notin Resolving \cup Recording \cup {"resolved"}
      PROVE  FactsGiven' /\ Returned' /\ PlanIsGraph' /\ stage' = to /\ found' = Updated(facts)
  BY <1>3 DEF Found, Updated, FactsGiven, DriverInv, Returned, PlanIsGraph, Recording
<1>4. CASE ReadTriple \/ ReadCargo \/ ReadNimble \/ ReadMain \/ Refuse
  <2>1. PICK facts, to : Found(facts, to) /\ to \in {"cargo", "nimble", "main", "exports", "refused"}
    BY <1>4 DEF ReadTriple, ReadCargo, ReadNimble, ReadMain, Refuse
  <2>2. FactsGiven' /\ Returned' /\ PlanIsGraph' /\ stage' = to
    BY <1>3, <2>1 DEF Resolving, Recording
  <2> QED BY <1>2, <2>1, <2>2 DEF DriverInv, FoundListed, CppFound
<1>5. CASE ReadExports
  <2>1. PICK facts : Found(facts, "cadd") /\ DOMAIN facts = {"exports", "cadd"} /\ facts.cadd = <<>>
    BY <1>5 DEF ReadExports
  <2>2. FactsGiven' /\ Returned' /\ PlanIsGraph' /\ stage' = "cadd" /\ found' = Updated(facts)
    BY <1>3, <2>1 DEF Resolving, Recording
  <2>3. found'.cadd = <<>>
    BY <2>1, <2>2 DEF Updated
  <2>4. "cadd" \in DOMAIN found'
    BY <2>1, <2>2 DEF Updated
  <2>5. FoundListed' /\ CppFound'
    BY <2>2, <2>3, <2>4 DEF FoundListed, CppFound, Elements
  <2> QED BY <1>2, <2>2, <2>5 DEF DriverInv
<1>6. CASE ReadCadd
  <2>1. PICK c, facts : /\ Found(facts, "cadd") /\ c.ecosystem = "C" /\ IsFiniteSet(c.sources)
                        /\ DOMAIN facts = {"cadd"} /\ facts.cadd = Append(found.cadd, c)
    <3>1. PICK c : /\ Found([cadd |-> Append(found.cadd, c)], "cadd")
                   /\ c = Offer("cadd", Wanted, "C", Files(CaddPath[Wanted]), HeaderExports(CaddPath[Wanted]))
      BY <1>6 DEF ReadCadd
    <3>2. c.ecosystem = "C" /\ c.sources = Files(CaddPath[Wanted])
      BY <3>1 DEF Offer, PackageCandidate
    <3> QED BY <3>1, <3>2, FilesAreFinite
  <2>2. FactsGiven' /\ Returned' /\ PlanIsGraph' /\ stage' = "cadd" /\ found' = Updated(facts)
    BY <1>3, <2>1 DEF Resolving, Recording
  <2>3. found'.cadd = Append(found.cadd, c) /\ "cadd" \in DOMAIN found'
    BY <2>1, <2>2 DEF Updated
  <2>4. /\ found.cadd \in Seq(Elements(found.cadd))
        /\ \A d \in Elements(found.cadd) : d.ecosystem = "C" /\ IsFiniteSet(d.sources)
    BY <1>6 DEF ReadCadd, DriverInv, FoundListed
  <2>5. /\ found'.cadd \in Seq(Elements(found'.cadd))
        /\ \A d \in Elements(found'.cadd) : d.ecosystem = "C" /\ IsFiniteSet(d.sources)
    <3>1. PICK l, m : l = found.cadd /\ m = found'.cadd
      OBVIOUS
    <3>2. IsList(l) /\ IsList(m) /\ m = Append(l, c)
      BY <2>3, <2>4, <3>1, SeqIsList, ListAppend
    <3>3. PICK n \in Nat : n = Len(l)
      BY <3>2 DEF IsList
    <3>4. /\ Len(m) = n + 1 /\ m[n + 1] = c /\ \A i \in 1 .. n : m[i] = l[i]
      BY <3>2, <3>3, ListAppend
    <3>5. DOMAIN l = 1 .. n /\ DOMAIN m = 1 .. n + 1 /\ m \in Seq({m[i] : i \in 1 .. n + 1})
      <4>1. DOMAIN l = 1 .. Len(l) /\ DOMAIN m = 1 .. Len(m) /\ m \in Seq({m[i] : i \in 1 .. Len(m)})
        BY <3>2, ListIsSeq
      <4> QED BY <3>3, <3>4, <4>1
    <3>6. \A i \in 1 .. n + 1 : i \in 1 .. n \/ i = n + 1
      OBVIOUS
    <3>7. \A i \in 1 .. n : l[i].ecosystem = "C" /\ IsFiniteSet(l[i].sources)
      BY <2>4, <3>1, <3>5 DEF Elements
    <3>8. \A i \in 1 .. n + 1 : m[i].ecosystem = "C" /\ IsFiniteSet(m[i].sources)
      BY <2>1, <3>4, <3>6, <3>7
    <3>9. Elements(m) = {m[i] : i \in 1 .. n + 1}
      BY <3>5 DEF Elements
    <3>10. m \in Seq(Elements(m)) /\ \A d \in Elements(m) : d.ecosystem = "C" /\ IsFiniteSet(d.sources)
      BY <3>5, <3>8, <3>9
    <3> QED BY <3>1, <3>10
  <2>6. FoundListed' /\ CppFound'
    BY <2>2, <2>3, <2>5 DEF FoundListed, CppFound, Elements
  <2> QED BY <1>2, <2>2, <2>6 DEF DriverInv
<1>7. CASE ReadCppmax
  <2>1. PICK facts : Found(facts, "facts") /\ DOMAIN facts = {"cppmax"} /\ facts.cppmax.ecosystem = "Cpp"
    <3>1. PICK c : /\ Found([cppmax |-> c], "facts")
                   /\ c = Offer("cppmax", "1.0.0", "Cpp", Files("cppmax"), HeaderExports("cppmax"))
      BY <1>7 DEF ReadCppmax
    <3>2. c.ecosystem = "Cpp"
      BY <3>1 DEF Offer, PackageCandidate
    <3> QED BY <3>1, <3>2
  <2>2. FactsGiven' /\ Returned' /\ PlanIsGraph' /\ stage' = "facts" /\ found' = Updated(facts)
    BY <1>3, <2>1 DEF Resolving, Recording
  <2>3. /\ "cadd" \in DOMAIN found /\ found.cadd \in Seq(Elements(found.cadd))
        /\ \A d \in Elements(found.cadd) : d.ecosystem = "C" /\ IsFiniteSet(d.sources)
    BY <1>7 DEF ReadCppmax, DriverInv, FoundListed
  <2>4. found'.cadd = found.cadd /\ found'.cppmax = facts.cppmax /\ "cadd" \in DOMAIN found'
    BY <2>1, <2>2, <2>3 DEF Updated
  <2>5. FoundListed'
    BY <2>3, <2>4 DEF FoundListed, Elements
  <2>6. CppFound'
    BY <2>1, <2>4 DEF CppFound
  <2> QED BY <1>2, <2>2, <2>5, <2>6 DEF DriverInv
<1>8. CASE HandOver
  <2>1. /\ found.cadd \in Seq(Elements(found.cadd))
        /\ \A d \in Elements(found.cadd) : d.ecosystem = "C" /\ IsFiniteSet(d.sources)
        /\ found.cppmax.ecosystem = "Cpp"
    BY <1>8 DEF HandOver, DriverInv, FoundListed, CppFound
  <2>2. /\ FixtureInput.candidates = FixtureCandidates /\ FixtureInput.outputs = FixtureOutputs
        /\ FixtureInput.sources = FixtureSources /\ FixtureInput.lowerings = FixtureLowerings
        /\ FixtureInput.requirements = found.required
    BY DEF FixtureInput, DependencyResolutionInput
  <2>3. /\ FixtureCandidates \in Seq(Elements(FixtureCandidates))
        /\ \A d \in Elements(FixtureCandidates) : /\ d.ecosystem \in {"Cargo", "Nimble", "C", "Cpp"}
                                                  /\ d.ecosystem = "Cargo" => d.exports = {}
    <3>1. PICK l, a, b, c : /\ FixtureCandidates = <<a, b>> \o l \o <<c>>
                            /\ l = found.cadd /\ c = found.cppmax
                            /\ a.ecosystem = "Cargo" /\ a.exports = {} /\ b.ecosystem = "Nimble"
      <4>1. PICK a, b : /\ a = Offer(found.cargo.name, found.cargo.version, "Cargo", {"main.rs"}, {})
                        /\ b = Offer(found.nimble.name, found.nimble.version, "Nimble", NimFiles, found.exports)
        OBVIOUS
      <4>2. a.ecosystem = "Cargo" /\ a.exports = {} /\ b.ecosystem = "Nimble"
        BY <4>1 DEF Offer, PackageCandidate
      <4>3. FixtureCandidates = <<a, b>> \o found.cadd \o <<found.cppmax>>
        BY <4>1 DEF FixtureCandidates
      <4> QED BY <4>2, <4>3
    <3> DEFINE S == {d \in {a, b, c} \cup Elements(l) : /\ d.ecosystem \in {"Cargo", "Nimble", "C", "Cpp"}
                                                        /\ d.ecosystem = "Cargo" => d.exports = {}}
    <3>2. a \in S /\ b \in S /\ c \in S /\ Elements(l) \subseteq S
      BY <2>1, <3>1
    <3>3. \A d \in S : d.ecosystem \in {"Cargo", "Nimble", "C", "Cpp"} /\ (d.ecosystem = "Cargo" => d.exports = {})
      OBVIOUS
    <3> HIDE DEF S
    <3>4. l \in Seq(S) /\ <<a, b>> \in Seq(S) /\ <<c>> \in Seq(S)
      BY <2>1, <3>1, <3>2
    <3>5. FixtureCandidates \in Seq(S)
      BY <3>1, <3>4
    <3>6. PICK cs : cs = FixtureCandidates
      OBVIOUS
    <3>7. IsList(cs) /\ cs \in Seq(S)
      BY <3>5, <3>6, SeqIsList
    <3>8. cs \in Seq({cs[i] : i \in 1 .. Len(cs)}) /\ Elements(cs) = {cs[i] : i \in 1 .. Len(cs)}
      BY <3>7, ListIsSeq DEF Elements
    <3>9. Elements(cs) \subseteq S
      BY <3>7, <3>8
    <3> QED BY <3>3, <3>6, <3>8, <3>9
  <2>4. /\ FixtureOutputs \in Seq(Elements(FixtureOutputs))
        /\ \A o \in Elements(FixtureOutputs) : o.sources = {}
    <3>1. ASSUME NEW id, NEW package, NEW kind PROVE Declaration(id, package, kind).sources = {}
      BY DEF Declaration, ArtifactOutput
    <3>2. PICK p, q, r, u, v, w, x :
            /\ FixtureOutputs = <<p, q, r, u, v, w, x>>
            /\ p.sources = {} /\ q.sources = {} /\ r.sources = {} /\ u.sources = {}
            /\ v.sources = {} /\ w.sources = {} /\ x.sources = {}
      BY <3>1 DEF FixtureOutputs
    <3>3. PICK S : S = {p, q, r, u, v, w, x}
      OBVIOUS
    <3>4. FixtureOutputs \in Seq(S) /\ \A o \in S : o.sources = {}
      BY <3>2, <3>3
    <3>5. PICK os : os = FixtureOutputs
      OBVIOUS
    <3>6. IsList(os) /\ os \in Seq(S)
      BY <3>4, <3>5, SeqIsList
    <3>7. os \in Seq({os[i] : i \in 1 .. Len(os)}) /\ Elements(os) = {os[i] : i \in 1 .. Len(os)}
      BY <3>6, ListIsSeq DEF Elements
    <3>8. Elements(os) \subseteq S
      BY <3>6, <3>7
    <3> QED BY <3>4, <3>5, <3>7, <3>8
  <2>5. IsFiniteSet(FixtureSources) /\ IsFiniteSet(DOMAIN FixtureLowerings)
    <3>1. \A d \in Elements(found.cadd) : IsFiniteSet(d.sources)
      BY <2>1
    <3>2. IsFiniteSet(Elements(found.cadd))
      BY <2>1, ElementsAreFinite
    <3> QED BY <3>1, <3>2, SourcesAreFinite
  <2>6. found.required \in Seq(Elements(found.required))
    <3>1. IsList(found.required)
      BY <1>8 DEF HandOver, FilesInv, RequiredFound
    <3> QED BY <3>1, ListIsSeq DEF Elements
  <2>7. Facts(FixtureInput)
    <3>1. PICK facts : facts = FixtureInput
      OBVIOUS
    <3>2. IsFiniteSet(facts.sources) /\ IsFiniteSet(DOMAIN facts.lowerings)
      BY <2>2, <2>5, <3>1
    <3>3. facts.requirements \in Seq(Elements(facts.requirements))
      BY <2>2, <2>6, <3>1
    <3>4. /\ facts.candidates \in Seq(Elements(facts.candidates))
          /\ \A c \in Elements(facts.candidates) : /\ c.ecosystem \in {"Cargo", "Nimble", "C", "Cpp"}
                                                   /\ c.ecosystem = "Cargo" => c.exports = {}
      BY <2>2, <2>3, <3>1
    <3>5. /\ facts.outputs \in Seq(Elements(facts.outputs))
          /\ \A o \in Elements(facts.outputs) : IsFiniteSet(o.sources)
      BY <2>2, <2>4, <3>1, FS_EmptySet
    <3>6. facts = DependencyResolutionInput(facts.demand, facts.triple, facts.sources, facts.candidates,
                    facts.requirements, facts.lowerings, facts.constraints, facts.outputs)
      BY <3>1 DEF FixtureInput, DependencyResolutionInput
    <3> QED BY <3>1, <3>2, <3>3, <3>4, <3>5, <3>6 DEF Facts
  <2>8. /\ stage' = "register" /\ given' = FixtureInput /\ actions' = actions
        /\ results' = results
    BY <1>8 DEF HandOver
  <2>9. FactsGiven'
    BY <2>7, <2>8 DEF FactsGiven, DriverInv
  <2>10. Returned' /\ FoundListed' /\ CppFound' /\ PlanIsGraph'
    BY <2>8 DEF Returned, DriverInv, FoundListed, CppFound, PlanIsGraph
  <2> QED BY <1>2, <2>9, <2>10 DEF DriverInv
<1> QED BY <1>4, <1>5, <1>6, <1>7, <1>8 DEF Ingest

-----------------------------------------------------------------------------
(* The driver *)

(* An action is found by its id.                                           *)
LEMMA FirstExists ==
  ASSUME NEW h, NEW n \in Nat, NEW x, NEW i \in 1 .. n, h[i] = x
  PROVE  \E k \in 1 .. n : h[k] = x /\ \A j \in 1 .. k - 1 : h[j] # x
<1> DEFINE S == {m \in 0 .. n : \A k \in 1 .. m : h[k] # x}
<1>1. ASSUME ~\E k \in 1 .. n : h[k] = x /\ \A j \in 1 .. k - 1 : h[j] # x
      PROVE  FALSE
  <2>1. 0 \in S
    <3>1. \A k \in 1 .. 0 : h[k] # x
      OBVIOUS
    <3> QED BY <3>1
  <2>2. ASSUME NEW m \in 1 .. n, m - 1 \in S PROVE m \in S
    <3>1. \A k \in 1 .. m - 1 : h[k] # x
      BY <2>2
    <3>2. h[m] # x
      BY <1>1, <3>1
    <3>3. \A k \in 1 .. m : h[k] # x
      <4> SUFFICES ASSUME NEW k \in 1 .. m PROVE h[k] # x
        OBVIOUS
      <4>1. k \in 1 .. m - 1 \/ k = m
        OBVIOUS
      <4> QED BY <3>1, <3>2, <4>1
    <3> QED BY <3>3
  <2>3. n \in S
    <3> HIDE DEF S
    <3>1. 0 .. n \subseteq S
      BY <2>1, <2>2, UpToInduction
    <3> QED BY <3>1
  <2> QED BY <2>3
<1> QED BY <1>1

LEMMA GraphIsListed ==
  ASSUME NEW os, NEW as, Good(as), NEW g, g = Graph(os, as)
  PROVE  /\ DOMAIN g.kind = DOMAIN os
         /\ g.status = [id \in DOMAIN os |-> g.status[id]]
         /\ g.required = [id \in DOMAIN os |-> g.required[id]]
         /\ DOMAIN g.actionKind = {a.id : a \in Elements(as)}
         /\ \A id \in DOMAIN g.actionKind : IsList(g.discharges[id])
<1> DEFINE ids == {a.id : a \in Elements(as)}
           Find(id) == as[CHOOSE k \in DOMAIN as : as[k].id = id /\ \A j \in 1 .. k - 1 : as[j].id # id]
<1>1. /\ g.kind = [id \in DOMAIN os |-> KindOf(id)]
      /\ g.status = [id \in DOMAIN os |-> os[id].state]
      /\ g.required = [id \in DOMAIN os |-> os[id].action]
      /\ g.actionKind = [id \in ids |-> Find(id).kind]
      /\ g.discharges = [id \in ids |-> Find(id).discharges]
  BY DEF Graph
<1>2. PICK n \in Nat : n = Len(as) /\ DOMAIN as = 1 .. n
  BY ListIsSeq DEF Good, IsList
<1>3. ASSUME NEW id \in ids PROVE IsList(Find(id).discharges)
  <2>1. PICK i \in 1 .. n : as[i].id = id
    BY <1>2 DEF Elements
  <2>2. \E k \in 1 .. n : as[k].id = id /\ \A j \in 1 .. k - 1 : as[j].id # id
    <3> HIDE DEF ids, Find
    <3>1. PICK h, x : h = [k \in 1 .. n |-> as[k].id] /\ x = id
      OBVIOUS
    <3>2. h[i] = x
      BY <2>1, <3>1
    <3>3. PICK k \in 1 .. n : h[k] = x /\ \A j \in 1 .. k - 1 : h[j] # x
      BY <3>2, FirstExists
    <3>4. \A j \in 1 .. k - 1 : j \in 1 .. n
      OBVIOUS
    <3> QED BY <3>1, <3>3, <3>4
  <2>3. PICK k \in 1 .. n : Find(id) = as[k]
    BY <1>2, <2>2
  <2> HIDE DEF Find
  <2> QED BY <1>2, <2>3 DEF Good
<1> HIDE DEF ids, Find
<1>4. DOMAIN g.actionKind = ids
  BY <1>1
<1>5. \A id \in ids : IsList(g.discharges[id])
  BY <1>1, <1>3
<1> QED BY <1>1, <1>4, <1>5 DEF ids

RecordsInv == LifecycleInv /\ DriverInv
Inv        == RecordsInv /\ FilesInv

LEMMA EmptyGraph ==
  ASSUME closure = NoGraph
  PROVE  Obs = {} /\ Lifecycle!Actions = {}
  BY DEF NoGraph, Obs, Lifecycle!Obligations, Lifecycle!Actions

(* The books of a new graph.                                               *)
LEMMA NewBooks ==
  ASSUME NEW c, NEW O, DOMAIN c.kind = O,
         c.status = [o \in O |-> c.status[o]], c.required = [o \in O |-> c.required[o]],
         \A a \in DOMAIN c.actionKind : IsList(c.discharges[a]),
         closure = c, status = c.status, required = c.required, history = [o \in O |-> <<>>],
         operations = {}
  PROVE  LifecycleInv
<1>1. Obs = O /\ Lifecycle!Actions = DOMAIN c.actionKind
  BY DEF Obs, Lifecycle!Obligations, Lifecycle!Actions
<1>2. Booked
  BY <1>1, EmptyList DEF Booked
<1>3. RecordsClose /\ RequiredKept
  BY DEF RecordsClose, RequiredKept
<1>4. Justified
  BY <1>1, EmptyList DEF Justified
<1>5. RejectedStays
  BY DEF RejectedStays
<1> QED BY <1>2, <1>3, <1>4, <1>5 DEF LifecycleInv

Opened ==
  \E c, O :
    /\ DOMAIN c.kind = O
    /\ c.status = [o \in O |-> c.status[o]] /\ c.required = [o \in O |-> c.required[o]]
    /\ \A a \in DOMAIN c.actionKind : IsList(c.discharges[a])
    /\ closure = c /\ status = c.status /\ required = c.required
    /\ history = [o \in O |-> <<>>] /\ operations = {}

LEMMA OpenedBooks == Opened => LifecycleInv
  BY NewBooks DEF Opened

LEMMA InitInv ==
  ASSUME ProductionInit
  PROVE  Inv
<1>0. FilesInv
  BY DEF FilesInv, FilesGiven, CargoFound, RequiredFound, RequiredGiven, Reading,
         ProductionInit, DriverInit, Init, IngestInit, CallerInit, Elsewhere
<1>1. ASSUME DriverInit PROVE Inv
  <2>1. /\ closure = NoGraph /\ status = <<>> /\ required = <<>> /\ history = <<>>
        /\ operations = {} /\ contracts = {} /\ results = <<>> /\ actions = <<>>
        /\ \/ stage = "register" /\ given \in Inputs
           \/ stage = "triple"
    BY <1>1 DEF DriverInit, Init, IngestInit
  <2>2. LifecycleInv
    <3>1. <<>> = [o \in {} |-> <<>>]
      OBVIOUS
    <3>2. PICK c : c = NoGraph
      OBVIOUS
    <3>3. /\ c.kind = <<>> /\ c.status = <<>> /\ c.required = <<>> /\ c.actionKind = <<>>
      BY <3>2 DEF NoGraph
    <3>4. /\ DOMAIN c.kind = {} /\ DOMAIN c.actionKind = {}
          /\ c.status = [o \in {} |-> c.status[o]] /\ c.required = [o \in {} |-> c.required[o]]
      BY <3>3
    <3> QED BY <2>1, <3>1, <3>2, <3>3, <3>4, NewBooks
  <2>3. FactsGiven
    <3>1. given \in Inputs => Facts(given)
      BY FactsAssumption
    <3> QED BY <2>1, <3>1, ShortLists DEF FactsGiven, Resolving
  <2>4. Returned
    BY <2>1, EmptyList DEF Returned
  <2>5. FoundListed /\ CppFound /\ NothingYet /\ PlanIsGraph
    BY <2>1 DEF FoundListed, CppFound, NothingYet, PlanIsGraph
  <2> QED BY <1>0, <2>2, <2>3, <2>4, <2>5 DEF Inv, RecordsInv, DriverInv
<1>2. ASSUME CallerInit PROVE Inv
  <2>1. /\ closure \in Closures /\ status = closure.status /\ required = closure.required
        /\ history = [o \in Obs |-> <<>>] /\ operations = {}
        /\ results = <<>> /\ actions = <<>> /\ stage = "any order"
    BY <1>2 DEF CallerInit, Lifecycle!Init, Obs
  <2>2. LifecycleInv
    <3>1. PICK c : c = closure
      OBVIOUS
    <3>2. PICK O, A : O = DOMAIN c.kind /\ A = DOMAIN c.actionKind
      OBVIOUS
    <3>3. c \in Lifecycle!ClosureType(O, A)
      BY <2>1, <3>1, <3>2, CallersAssumption
    <3>4. /\ c.status = [o \in O |-> c.status[o]] /\ c.required = [o \in O |-> c.required[o]]
          /\ \A a \in A : c.discharges[a] \in Seq(O)
      BY <3>3 DEF Lifecycle!ClosureType
    <3>5. \A a \in A : IsList(c.discharges[a])
      BY <3>4, SeqIsList
    <3>6. history = [o \in O |-> <<>>]
      BY <2>1, <3>1, <3>2 DEF Obs, Lifecycle!Obligations
    <3> QED BY <2>1, <3>1, <3>2, <3>4, <3>5, <3>6, NewBooks
  <2>3. FactsGiven
    BY <2>1, ShortLists DEF FactsGiven, Resolving
  <2>4. Returned
    BY <2>1, EmptyList DEF Returned
  <2>5. FoundListed /\ CppFound /\ NothingYet /\ PlanIsGraph
    BY <2>1 DEF FoundListed, CppFound, NothingYet, PlanIsGraph, Recording
  <2> QED BY <1>0, <2>2, <2>3, <2>4, <2>5 DEF Inv, RecordsInv, DriverInv
<1> QED BY <1>1, <1>2 DEF ProductionInit

(* The driver's steps follow the resolver's.                               *)
Driving == {"resolved", "resolution", "operations"}

LEMMA DriverKeeps ==
  ASSUME DriverInv, stage \in Driving, stage' \in Recording, next' \in Nat \ {0},
         UNCHANGED <<given, actions, results>>
  PROVE  FactsGiven' /\ Returned' /\ FoundListed' /\ CppFound' /\ NothingYet'
<1>1. results # <<>>
  BY DEF DriverInv, Returned, Driving
<1>2. FactsGiven'
  BY <1>1 DEF FactsGiven
<1>3. Returned'
  BY <1>1 DEF DriverInv, Returned
<1>4. FoundListed' /\ CppFound' /\ NothingYet'
  BY DEF FoundListed, CppFound, NothingYet, Recording
<1> QED BY <1>2, <1>3, <1>4

(* A step on the same graph.                                               *)
LEMMA DriverStays ==
  ASSUME DriverInv, stage \in Driving \ {"resolved"}, stage' \in Recording, next' \in Nat \ {0},
         UNCHANGED <<given, actions, results>>, closure' = closure
  PROVE  DriverInv'
<1>1. FactsGiven' /\ Returned' /\ FoundListed' /\ CppFound' /\ NothingYet'
  BY DriverKeeps
<1>2. PlanIsGraph
  BY DEF DriverInv
<1>3. PlanIsGraph'
  BY <1>2 DEF PlanIsGraph, Driving, Lifecycle!Actions
<1> QED BY <1>1, <1>3 DEF DriverInv

(* Nothing was recorded before there is a graph, and the books of the      *)
(* graph are those of what resolve returned.                               *)
LEMMA NewGraphKeeps ==
  ASSUME RecordsInv, NewGraph
  PROVE  RecordsInv' /\ Lifecycle!HonestStep
<1>1. /\ stage = "resolved" /\ stage' = "resolution"
      /\ next' = next /\ given' = given /\ actions' = actions /\ results' = results
      /\ operations' = operations
      /\ closure' = Graph(results[1].obligations, results[1].actions)
      /\ status' = closure'.status /\ required' = closure'.required
      /\ history' = [id \in DOMAIN closure'.kind |-> <<>>]
  BY DEF NewGraph
<1>2. closure = NoGraph /\ operations = {}
  BY <1>1 DEF RecordsInv, DriverInv, NothingYet, Recording
<1>3. Good(results[1].actions) /\ next \in Nat \ {0}
  BY <1>1 DEF RecordsInv, DriverInv, Returned
<1>4. PICK os, as, g : /\ os = results[1].obligations /\ as = results[1].actions
                       /\ g = Graph(os, as) /\ closure' = g
  BY <1>1
<1>5. /\ DOMAIN g.kind = DOMAIN os
      /\ g.status = [id \in DOMAIN os |-> g.status[id]]
      /\ g.required = [id \in DOMAIN os |-> g.required[id]]
      /\ DOMAIN g.actionKind = {a.id : a \in Elements(as)}
      /\ \A id \in DOMAIN g.actionKind : IsList(g.discharges[id])
  BY <1>3, <1>4, GraphIsListed
<1>6. /\ status' = g.status /\ required' = g.required
      /\ history' = [o \in DOMAIN os |-> <<>>] /\ operations' = {}
  BY <1>1, <1>2, <1>4, <1>5
<1>7. LifecycleInv'
  <2>1. PICK O : O = DOMAIN os
    OBVIOUS
  <2>2. /\ DOMAIN g.kind = O
        /\ g.status = [o \in O |-> g.status[o]] /\ g.required = [o \in O |-> g.required[o]]
        /\ history' = [o \in O |-> <<>>]
    BY <1>5, <1>6, <2>1
  <2>3. /\ \A a \in DOMAIN g.actionKind : IsList(g.discharges[a])
        /\ closure' = g /\ status' = g.status /\ required' = g.required /\ operations' = {}
    BY <1>4, <1>5, <1>6
  <2>4. Opened'
    BY <2>2, <2>3, Zenon DEF Opened
  <2> QED BY <2>4, OpenedBooks, PTL
<1>8. DriverInv'
  <2>1. FactsGiven' /\ Returned' /\ FoundListed' /\ CppFound' /\ NothingYet'
    BY <1>1, <1>3, DriverKeeps DEF RecordsInv, Driving, Recording
  <2>2. PlanIsGraph'
    BY <1>1, <1>4, <1>5 DEF PlanIsGraph, Lifecycle!Actions
  <2> QED BY <2>1, <2>2 DEF DriverInv
<1>9. Lifecycle!PublishedIsCaused'
  BY <1>7, InvIsHonest, PTL
<1>10. Lifecycle!Obligations = {}
  BY <1>2, EmptyGraph DEF Obs
<1> QED BY <1>7, <1>8, <1>9, <1>10 DEF RecordsInv, Lifecycle!HonestStep

(* An action of the plan is an action of the graph.                        *)
LEMMA RecordActionIsLawful ==
  ASSUME RecordsInv, RecordAction
  PROVE  Lawful
<1>1. PICK a : /\ a = Plan[next]
               /\ \/ Lifecycle!RecordRuntimeOperation(a.id, Sequence, Sequence + 1)
                  \/ Lifecycle!RecordOperation(a.id, Sequence)
  BY DEF RecordAction
<1>2. a.id \in Lifecycle!Actions
  <2>1. /\ stage = "operations" /\ next <= Len(Plan) /\ next \in Nat \ {0}
        /\ Good(Plan)
    BY DEF RecordAction, RecordsInv, DriverInv, Returned, Plan
  <2>2. next \in DOMAIN Plan
    <3>1. IsList(Plan) /\ DOMAIN Plan = 1 .. Len(Plan)
      BY <2>1, ListIsSeq DEF Good
    <3> QED BY <2>1, <3>1 DEF IsList
  <2>3. Lifecycle!Actions = {x.id : x \in Elements(Plan)}
    BY <2>1 DEF RecordsInv, DriverInv, PlanIsGraph, Plan
  <2> QED BY <1>1, <2>2, <2>3 DEF Elements
<1> QED BY <1>1, <1>2, RuntimeOperationIsLawful, OperationIsLawful DEF RecordsInv

(* Every step of the driver or of another caller keeps the invariant, and  *)
(* is honest if it touches the books at all.                               *)
Honest == Lifecycle!HonestStep \/ UNCHANGED productionVars

LEMMA UnchangedKeeps ==
  ASSUME LifecycleInv, UNCHANGED productionVars
  PROVE  LifecycleInv'
<1>1. /\ closure' = closure /\ status' = status /\ required' = required
      /\ history' = history /\ operations' = operations /\ contracts' = contracts
  BY DEF productionVars
<1>2. Obs' = Obs /\ Lifecycle!Actions' = Lifecycle!Actions /\ \A a : Discharges(a)' = Discharges(a)
  BY <1>1, SameObligations
<1>3. Booked'
  BY <1>1, <1>2 DEF LifecycleInv, Booked
<1>4. RecordsClose' /\ RequiredKept'
  BY <1>1, <1>2 DEF LifecycleInv, RecordsClose, RequiredKept, Lifecycle!Closed
<1>5. Justified'
  BY <1>1, <1>2 DEF LifecycleInv, Justified, Because, Final, Lifecycle!Final, Lifecycle!Closed,
                    Recorded, Lifecycle!Recorded
<1>6. RejectedStays'
  BY <1>1, <1>2 DEF LifecycleInv, RejectedStays
<1> QED BY <1>3, <1>4, <1>5, <1>6 DEF LifecycleInv

LEMMA ProductionKeeps ==
  ASSUME RecordsInv, Production
  PROVE  RecordsInv' /\ Honest
<1>1. CASE NewGraph
  BY <1>1, NewGraphKeeps DEF Honest
<1>2. ASSUME Lawful, DriverInv' PROVE RecordsInv' /\ Honest
  BY <1>2, LawfulKeeps, LawfulIsHonest DEF RecordsInv, Honest
<1>3. ASSUME UNCHANGED productionVars, DriverInv' PROVE RecordsInv' /\ Honest
  BY <1>3, UnchangedKeeps DEF RecordsInv, Honest
<1>4. stage \in Driving => next \in Nat \ {0}
  BY DEF RecordsInv, DriverInv, Returned, Driving
<1>5. CASE RecordDecisions
  <2>1. PICK list : \/ Lifecycle!RecordResolution(list, 1) /\ StageTo("operations")
                    \/ StageTo("failed") /\ UNCHANGED productionVars
    BY <1>5 DEF RecordDecisions
  <2>2. /\ stage = "resolution" /\ next' = next /\ stage' \in Recording
        /\ given' = given /\ actions' = actions /\ results' = results
    BY <1>5, <2>1 DEF RecordDecisions, StageTo, Recording
  <2>3. Lawful \/ UNCHANGED productionVars
    BY <2>1, ResolutionIsLawful DEF RecordsInv
  <2>4. closure' = closure
    BY <2>3 DEF Lawful, productionVars
  <2>5. DriverInv'
    BY <1>4, <2>2, <2>4, DriverStays DEF RecordsInv, Driving
  <2> QED BY <1>2, <1>3, <2>3, <2>5
<1>6. CASE RecordAction
  <2>1. Lawful
    BY <1>6, RecordActionIsLawful
  <2>2. /\ stage = "operations" /\ next' = next + 1 /\ stage' \in Recording
        /\ given' = given /\ actions' = actions /\ results' = results
    BY <1>6 DEF RecordAction, StageTo, Recording
  <2>3. next' \in Nat \ {0}
    BY <1>4, <2>2 DEF Driving
  <2>4. DriverInv'
    BY <2>1, <2>2, <2>3, DriverStays DEF RecordsInv, Driving, Lawful
  <2> QED BY <1>2, <2>1, <2>4
<1>7. CASE RefuseAction \/ Gate
  <2>1. /\ stage = "operations" /\ next' = next /\ stage' \in Recording
        /\ given' = given /\ actions' = actions /\ results' = results
        /\ UNCHANGED productionVars
    BY <1>7 DEF RefuseAction, Gate, StageTo, Recording
  <2>2. closure' = closure
    BY <2>1 DEF productionVars
  <2>3. DriverInv'
    BY <1>4, <2>1, <2>2, DriverStays DEF RecordsInv, Driving
  <2> QED BY <1>3, <2>1, <2>3
<1> QED BY <1>1, <1>5, <1>6, <1>7 DEF Production

LEMMA RecordsKept ==
  ASSUME Inv, [ProductionNext]_allVars
  PROVE  RecordsInv' /\ Honest
<1>1. ASSUME UNCHANGED productionVars, DriverInv' PROVE RecordsInv' /\ Honest
  BY <1>1, UnchangedKeeps DEF Inv, RecordsInv, Honest
<1>2. CASE Ingest /\ UNCHANGED productionVars
  BY <1>1, <1>2, IngestKeeps DEF Inv, RecordsInv
<1>3. CASE Resolve /\ UNCHANGED <<ingestVars, productionVars>>
  BY <1>1, <1>3, ResolveKeeps DEF Inv, RecordsInv
<1>4. CASE Production
  BY <1>4, ProductionKeeps DEF Inv
<1>5. CASE AnyRecord /\ UNCHANGED ingestVars
  <2>1. Lawful
    BY <1>5, NextIsLawful DEF AnyRecord, Inv, RecordsInv
  <2>2. /\ stage = "any order" /\ stage' = stage /\ given' = given /\ actions' = actions
        /\ results' = results /\ found' = found
    BY <1>5 DEF AnyRecord, vars, ingestVars
  <2>3. DriverInv'
    BY <2>2 DEF Inv, RecordsInv, DriverInv, FactsGiven, Returned, FoundListed, CppFound, NothingYet, PlanIsGraph,
                Recording, Resolving
  <2> QED BY <2>1, <2>3, LawfulKeeps, LawfulIsHonest DEF Inv, RecordsInv, Honest
<1>6. CASE UNCHANGED allVars
  <2>1. /\ stage' = stage /\ given' = given /\ actions' = actions /\ results' = results
        /\ next' = next /\ found' = found /\ UNCHANGED productionVars
    BY <1>6 DEF allVars, vars, ingestVars
  <2>2. closure' = closure /\ operations' = operations /\ contracts' = contracts
    BY <2>1 DEF productionVars
  <2>3. DriverInv'
    <3>1. FactsGiven' /\ Returned' /\ FoundListed' /\ CppFound'
      BY <2>1 DEF Inv, RecordsInv, DriverInv, FactsGiven, Returned, FoundListed, CppFound
    <3>2. NothingYet'
      BY <2>1, <2>2 DEF Inv, RecordsInv, DriverInv, NothingYet, NoGraph
    <3>3. PlanIsGraph'
      BY <2>1, <2>2 DEF Inv, RecordsInv, DriverInv, PlanIsGraph, Lifecycle!Actions
    <3> QED BY <3>1, <3>2, <3>3 DEF DriverInv
  <2> QED BY <1>1, <2>1, <2>3
<1> QED BY <1>2, <1>3, <1>4, <1>5, <1>6 DEF ProductionNext

LEMMA FilesKept ==
  ASSUME FilesInv, [ProductionNext]_allVars
  PROVE  FilesInv'
<1>1. CASE Ingest
  BY <1>1, ReadingKeepsFiles
<1>2. CASE UNCHANGED allVars
  <2>1. stage' = stage /\ workspace' = workspace /\ input' = input /\ found' = found
    BY <1>2 DEF allVars, vars, ingestVars
  <2> QED BY <2>1 DEF FilesInv, FilesGiven, CargoFound, RequiredFound, RequiredGiven, Plain, MainUsable, Asked
<1>3. ASSUME stage \notin Reading \cup {"refused"}, stage' \notin Reading \cup {"refused"},
             UNCHANGED <<workspace, input>>
      PROVE  FilesInv'
  BY <1>3, FilesStay
<1>4. CASE Resolve /\ UNCHANGED <<ingestVars, productionVars>>
  <2>1. /\ stage \in Resolving /\ input' = input
        /\ stage' \in Resolving \cup {"panicked", "resolved"}
    BY <1>4 DEF Resolving, Resolve, Register, RejectRoots, SelectRoots, RejectRequirement, SelectProvider,
                Panic, RejectUndeclared, RegisterRoots, BuildActions, Close, Goto, Reject, Return
  <2> QED BY <1>3, <1>4, <2>1 DEF Resolving, Reading, ingestVars
<1>5. CASE (Production \/ AnyRecord) /\ UNCHANGED ingestVars
  <2>1. /\ stage \in Driving \cup {"any order"} /\ input' = input
        /\ stage' \in Recording
    BY <1>5 DEF Production, NewGraph, RecordDecisions, RecordAction, RefuseAction, Gate, StageTo,
                AnyRecord, vars, Driving, Recording
  <2> QED BY <1>3, <1>5, <2>1 DEF Driving, Recording, Reading, ingestVars
<1> QED BY <1>1, <1>2, <1>4, <1>5 DEF ProductionNext

LEMMA StepKeeps ==
  ASSUME Inv, [ProductionNext]_allVars
  PROVE  Inv' /\ Honest
  BY RecordsKept, FilesKept DEF Inv

-----------------------------------------------------------------------------
(* What a set reaches *)

(* Induction over the naturals, for sets.                                  *)
LEMMA Induction ==
  ASSUME NEW S, 0 \in S, \A n \in Nat : n \in S => n + 1 \in S
  PROVE  Nat \subseteq S
<1> SUFFICES ASSUME NEW n \in Nat PROVE n \in S
  OBVIOUS
<1> DEFINE T == S \cap (0 .. n)
<1>1. 0 \in T /\ \A i \in 1 .. n : i - 1 \in T => i \in T
  <2>1. \A i \in 1 .. n : i - 1 \in Nat /\ (i - 1) + 1 = i
    OBVIOUS
  <2> QED BY <2>1
<1> HIDE DEF T
<1>2. 0 .. n \subseteq T
  BY <1>1, UpToInduction
<1>3. n \in T
  BY <1>2
<1> QED BY <1>3 DEF T

(* from[n] is what start reaches along s in at most n steps.               *)
Spreads(from, start, s) ==
  from[0] = start /\ \A n \in Nat : from[n + 1] = UNION {{x} \cup s[x] : x \in from[n]}

LEMMA SpreadExists ==
  ASSUME NEW U, NEW start \in SUBSET U, NEW s, \A x \in U : s[x] \subseteq U
  PROVE  \E f : /\ f = [n \in Nat |-> f[n]]
                /\ Spreads(f, start, s)
                /\ \A n \in Nat : f[n] \subseteq U
<1> DEFINE Path(p, n) == /\ p \in [0 .. n -> U] /\ p[0] \in start
                         /\ \A i \in 0 .. n - 1 : p[i+1] \in {p[i]} \cup s[p[i]]
           f == [n \in Nat |-> {y \in U : \E p : Path(p, n) /\ p[n] = y}]
<1>1. f[0] = start
  <2>1. ASSUME NEW y \in start PROVE y \in f[0]
    <3> DEFINE p == [i \in 0 .. 0 |-> y]
    <3>1. Path(p, 0) /\ p[0] = y
      OBVIOUS
    <3> HIDE DEF p, Path
    <3> QED BY <3>1
  <2> QED BY <2>1
<1>2. ASSUME NEW n \in Nat PROVE f[n + 1] = UNION {{x} \cup s[x] : x \in f[n]}
  <2>1. ASSUME NEW y \in f[n + 1] PROVE \E x \in f[n] : y \in {x} \cup s[x]
    <3>1. PICK p : Path(p, n + 1) /\ p[n + 1] = y
      <4> HIDE DEF Path
      <4>1. n + 1 \in Nat /\ y \in f[n + 1]
        BY <2>1
      <4>2. f[n + 1] = {z \in U : \E p : Path(p, n + 1) /\ p[n + 1] = z}
        BY <4>1
      <4> HIDE DEF f
      <4> QED BY <4>1, <4>2
    <3> DEFINE q == [i \in 0 .. n |-> p[i]]
    <3>2. Path(q, n) /\ q[n] = p[n]
      <4>1. p \in [0 .. n + 1 -> U] /\ p[0] \in start
        BY <3>1
      <4>2. \A i \in 0 .. n - 1 : p[i+1] \in {p[i]} \cup s[p[i]]
        <5>1. \A i \in 0 .. n - 1 : i \in 0 .. (n + 1) - 1
          OBVIOUS
        <5> QED BY <3>1, <5>1
      <4>3. \A i \in 0 .. n : i \in 0 .. n + 1 /\ q[i] = p[i]
        OBVIOUS
      <4>4. \A i \in 0 .. n - 1 : i \in 0 .. n /\ i + 1 \in 0 .. n
        OBVIOUS
      <4>5. q \in [0 .. n -> U]
        BY <4>1, <4>3
      <4>6. 0 \in 0 .. n /\ n \in 0 .. n
        OBVIOUS
      <4> HIDE DEF q
      <4> QED BY ONLY <4>1, <4>2, <4>3, <4>4, <4>5, <4>6
    <3>3. p[n] \in U /\ y \in {p[n]} \cup s[p[n]]
      BY <3>1
    <3> HIDE DEF q, Path
    <3>4. p[n] \in f[n]
      BY <3>2, <3>3
    <3> QED BY <3>3, <3>4
  <2>2. ASSUME NEW x \in f[n], NEW y \in {x} \cup s[x] PROVE y \in f[n + 1]
    <3>1. PICK p : Path(p, n) /\ p[n] = x
      BY <2>2
    <3> DEFINE q == [i \in 0 .. n + 1 |-> IF i = n + 1 THEN y ELSE p[i]]
    <3>2. y \in U
      BY <2>2
    <3>3. q \in [0 .. n + 1 -> U] /\ q[0] \in start /\ q[n + 1] = y
      BY <3>1, <3>2
    <3>4. ASSUME NEW i \in 0 .. (n + 1) - 1 PROVE q[i+1] \in {q[i]} \cup s[q[i]]
      <4>1. CASE i = n
        BY <3>1, <4>1
      <4>2. CASE i # n
        <5>1. i \in 0 .. n - 1 /\ q[i] = p[i] /\ q[i + 1] = p[i + 1]
          BY <4>2
        <5> HIDE DEF q
        <5> QED BY <3>1, <5>1
      <4> QED BY <4>1, <4>2
    <3> HIDE DEF q
    <3>5. Path(q, n + 1)
      BY <3>3, <3>4
    <3> HIDE DEF Path
    <3> QED BY <3>2, <3>3, <3>5
  <2> HIDE DEF f
  <2> QED BY <2>1, <2>2
<1>3. f = [n \in Nat |-> f[n]] /\ \A n \in Nat : f[n] \subseteq U
  OBVIOUS
<1> HIDE DEF f
<1> QED BY <1>1, <1>2, <1>3 DEF Spreads

(* Only what is in the start or in a finite set D leads anywhere.          *)
Confined(U, start, s, D) ==
  /\ start \subseteq U /\ \A x \in U : s[x] \subseteq U
  /\ IsFiniteSet(D) /\ \A x \in U \ (D \cup start) : s[x] = {}

(* R is the least set that has the start and is closed under s.            *)
LeastClosed(R, U, start, s) ==
  /\ start \subseteq R /\ R \subseteq U /\ \A x \in R : s[x] \subseteq R
  /\ \A S : start \subseteq S /\ (\A x \in S \cap U : s[x] \subseteq S) => R \subseteq S

(* After more steps than D has elements nothing more is reached.           *)
LEMMA SpreadSettles ==
  ASSUME NEW U, NEW start, NEW s, NEW D, Confined(U, start, s, D),
         NEW f, Spreads(f, start, s), NEW k \in Nat, Cardinality(D) < k
  PROVE  LeastClosed(f[k], U, start, s)
<1>0. /\ start \subseteq U /\ \A x \in U : s[x] \subseteq U
      /\ IsFiniteSet(D) /\ \A x \in U \ (D \cup start) : s[x] = {}
  BY DEF Confined
<1>1. /\ f[0] = start
      /\ \A n \in Nat : f[n + 1] = UNION {{x} \cup s[x] : x \in f[n]}
  BY DEF Spreads
<1>2. \A n \in Nat : f[n] \subseteq U
  <2> DEFINE T == {n \in Nat : f[n] \subseteq U}
  <2>1. 0 \in T
    BY <1>0, <1>1
  <2>2. ASSUME NEW n \in Nat, n \in T PROVE n + 1 \in T
    BY <1>0, <1>1, <2>2
  <2> HIDE DEF T
  <2>3. Nat \subseteq T
    BY <2>1, <2>2, Induction
  <2> QED BY <2>3 DEF T
<1>3. \A n \in Nat : f[n] \subseteq f[n + 1]
  BY <1>1
<1>4. ASSUME NEW S, start \subseteq S, \A x \in S \cap U : s[x] \subseteq S
      PROVE  f[k] \subseteq S
  <2> DEFINE T == {n \in Nat : f[n] \subseteq S}
  <2>1. 0 \in T
    BY <1>1, <1>4
  <2>2. ASSUME NEW n \in Nat, n \in T PROVE n + 1 \in T
    BY <1>1, <1>2, <1>4, <2>2
  <2> HIDE DEF T
  <2>3. Nat \subseteq T
    BY <2>1, <2>2, Induction
  <2> QED BY <2>3 DEF T
<1>5. \A n \in Nat : start \subseteq f[n]
  <2> DEFINE T == {n \in Nat : start \subseteq f[n]}
  <2>1. 0 \in T
    BY <1>1
  <2>2. ASSUME NEW n \in Nat, n \in T PROVE n + 1 \in T
    BY <1>3, <2>2
  <2> HIDE DEF T
  <2>3. Nat \subseteq T
    BY <2>1, <2>2, Induction
  <2> QED BY <2>3 DEF T
<1> DEFINE Live(n) == f[n] \cap D
<1>6. \A n \in Nat : /\ IsFiniteSet(Live(n)) /\ Cardinality(Live(n)) \in Nat
                     /\ Cardinality(Live(n)) <= Cardinality(D)
  BY <1>0, FS_Subset, FS_CardinalityType
<1>7. ASSUME NEW n \in Nat, Live(n + 1) # Live(n) PROVE Cardinality(Live(n + 1)) >= Cardinality(Live(n)) + 1
  <2>1. Live(n) \subseteq Live(n + 1)
    BY <1>3
  <2> HIDE DEF Live
  <2>2. Cardinality(Live(n)) <= Cardinality(Live(n + 1)) /\ Cardinality(Live(n)) # Cardinality(Live(n + 1))
    BY <1>6, <1>7, <2>1, FS_Subset
  <2> QED BY <1>6, <2>2
<1>8. ASSUME NEW n \in Nat, Live(n + 1) = Live(n) PROVE f[(n + 1) + 1] = f[n + 1]
  <2>1. /\ f[(n + 1) + 1] = UNION {{x} \cup s[x] : x \in f[n + 1]}
        /\ f[n + 1] = UNION {{x} \cup s[x] : x \in f[n]}
    BY <1>1
  <2>2. ASSUME NEW x \in f[n + 1] PROVE s[x] \subseteq f[n + 1]
    <3>1. CASE x \in D \cup start
      BY <1>5, <1>8, <2>1, <3>1
    <3>2. CASE x \notin D \cup start
      BY <1>0, <1>2, <3>2
    <3> QED BY <3>1, <3>2
  <2> QED BY <2>1, <2>2
<1>9. \A n \in Nat : Live(n + 1) = Live(n) \/ Cardinality(Live(n)) >= n
  <2> DEFINE T == {n \in Nat : Live(n + 1) = Live(n) \/ Cardinality(Live(n)) >= n}
  <2>1. 0 \in T
    BY <1>6
  <2>2. ASSUME NEW n \in Nat, n \in T PROVE n + 1 \in T
    <3>1. CASE Live(n + 1) = Live(n)
      BY <1>8, <3>1
    <3>2. CASE Live(n + 1) # Live(n)
      <4> HIDE DEF Live
      <4>1. Cardinality(Live(n)) >= n
        BY <2>2, <3>2
      <4>2. Cardinality(Live(n + 1)) >= n + 1
        BY <1>6, <1>7, <3>2, <4>1
      <4> QED BY <4>2
    <3> QED BY <3>1, <3>2
  <2> HIDE DEF T
  <2>3. Nat \subseteq T
    BY <2>1, <2>2, Induction
  <2> QED BY <2>3 DEF T
<1>10. f[k + 1] = f[k]
  <2>0. Cardinality(D) \in Nat
    BY <1>0, FS_CardinalityType
  <2>1. PICK n \in Nat : k = n + 1 /\ Cardinality(D) <= n
    <3>1. k - 1 \in Nat /\ k = (k - 1) + 1 /\ Cardinality(D) <= k - 1
      BY <2>0
    <3> QED BY <3>1
  <2>2. Live(n + 1) = Live(n)
    <3> HIDE DEF Live
    <3> SUFFICES ASSUME Live(n + 1) # Live(n) PROVE FALSE
      OBVIOUS
    <3>1. Cardinality(Live(n)) >= n /\ Cardinality(Live(n + 1)) >= Cardinality(Live(n)) + 1
      BY <1>7, <1>9
    <3>2. Cardinality(Live(n)) \in Nat /\ Cardinality(Live(n + 1)) \in Nat /\ Cardinality(Live(n + 1)) <= Cardinality(D)
      BY <1>6
    <3> QED BY <2>0, <2>1, <3>1, <3>2
  <2> QED BY <1>8, <2>1, <2>2
<1>11. ASSUME NEW x \in f[k] PROVE s[x] \subseteq f[k]
  <2>1. f[k] = UNION {{y} \cup s[y] : y \in f[k]}
    BY <1>1, <1>10
  <2>2. s[x] \subseteq UNION {{y} \cup s[y] : y \in f[k]}
    OBVIOUS
  <2> QED BY ONLY <2>1, <2>2
<1> QED BY <1>2, <1>4, <1>5, <1>11 DEF LeastClosed

(* The features that are activated are those of a plain build.             *)
LEMMA ActivatedIsBuilt ==
  ASSUME NEW features, IsFiniteSet(DOMAIN features)
  PROVE  Activated(features) = BuiltWith(features)
<1> DEFINE D == DOMAIN features
           U == {"default"} \cup D \cup UNION {features[x] : x \in D}
           Implied(x) == IF x \in D THEN features[x] ELSE {}
           s == [x \in U |-> Implied(x)]
           Body(f) == [n \in Nat |-> IF n = 0 THEN {"default"} ELSE UNION {{x} \cup Implied(x) : x \in f[n-1]}]
           from == CHOOSE f : f = Body(f)
           k == Cardinality(D) + 1
<1>1. {"default"} \in SUBSET U /\ \A x \in U : s[x] = Implied(x) /\ s[x] \subseteq U
  OBVIOUS
<1>2. Activated(features) = from[k]
  BY DEF Activated, Closure
<1>3. from = Body(from)
  <2>1. PICK f : /\ f = [n \in Nat |-> f[n]]
                 /\ Spreads(f, {"default"}, s)
                 /\ \A n \in Nat : f[n] \subseteq U
    <3> HIDE DEF U, s
    <3> QED BY <1>1, SpreadExists
  <2>2. ASSUME NEW n \in Nat PROVE f[n] = Body(f)[n]
    <3>1. CASE n = 0
      BY <2>1, <3>1 DEF Spreads
    <3>2. CASE n # 0
      <4>1. n - 1 \in Nat /\ (n - 1) + 1 = n
        BY <3>2
      <4> HIDE DEF U, s, Implied
      <4>2. f[n] = UNION {{x} \cup s[x] : x \in f[n-1]}
        BY <2>1, <4>1 DEF Spreads
      <4>3. \A x \in f[n-1] : s[x] = Implied(x)
        BY <1>1, <2>1, <4>1
      <4> QED BY <3>2, <4>2, <4>3
    <3> QED BY <3>1, <3>2
  <2>3. f = Body(f)
    <3> HIDE DEF Implied
    <3>1. Body(f) = [n \in Nat |-> Body(f)[n]]
      OBVIOUS
    <3> HIDE DEF Body
    <3> QED BY <2>1, <2>2, <3>1
  <2> HIDE DEF Body
  <2> QED BY <2>3
<1>4. /\ {"default"} \subseteq from[k] /\ from[k] \subseteq U
      /\ \A x \in from[k] : Implied(x) \subseteq from[k]
      /\ \A S : {"default"} \subseteq S /\ (\A x \in S \cap U : Implied(x) \subseteq S) => from[k] \subseteq S
  <2> DEFINE V == U \cup UNION {from[n] : n \in Nat}
             r == [x \in V |-> Implied(x)]
  <2>1. \A x \in V : r[x] = Implied(x) /\ r[x] \subseteq U
    OBVIOUS
  <2>2. Spreads(from, {"default"}, r)
    <3>1. from[0] = {"default"} /\ \A n \in Nat : from[n + 1] = UNION {{x} \cup Implied(x) : x \in from[n]}
      <4> HIDE DEF from, Implied
      <4>1. \A n \in Nat : from[n] = IF n = 0 THEN {"default"} ELSE UNION {{x} \cup Implied(x) : x \in from[n-1]}
        BY <1>3
      <4>2. \A n \in Nat : n + 1 \in Nat /\ n + 1 # 0 /\ (n + 1) - 1 = n
        OBVIOUS
      <4> QED BY <4>1, <4>2
    <3>2. \A n \in Nat : \A x \in from[n] : r[x] = Implied(x)
      <4> HIDE DEF from, Implied, U
      <4> QED OBVIOUS
    <3> HIDE DEF from, Implied, r
    <3> QED BY <3>1, <3>2 DEF Spreads
  <2>3. \A x \in U : r[x] = Implied(x) /\ r[x] \subseteq U
    <3> HIDE DEF r, U, Implied, from
    <3> QED BY <2>1
  <2>4. \A x \in U \ (D \cup {"default"}) : r[x] = {}
    <3> HIDE DEF r, U
    <3> QED BY <2>3
  <2>5. k \in Nat /\ Cardinality(D) < k
    BY FS_CardinalityType
  <2>6. IsFiniteSet(D)
    OBVIOUS
  <2> HIDE DEF r, U, D, from, k, Implied
  <2>7. Confined(U, {"default"}, r, D)
    BY <1>1, <2>3, <2>4, <2>6 DEF Confined
  <2>8. LeastClosed(from[k], U, {"default"}, r)
    BY <2>2, <2>5, <2>7, SpreadSettles
  <2> QED BY <2>3, <2>8 DEF LeastClosed
<1> DEFINE Closed(S) == "default" \in S /\ \A f \in S \cap DOMAIN features : features[f] \subseteq S
<1>5. BuiltWith(features) = {f \in U : \A S \in SUBSET U : Closed(S) => f \in S}
  BY DEF BuiltWith
<1> HIDE DEF from, k, U
<1>6. from[k] \in SUBSET U /\ Closed(from[k])
  BY <1>4
<1>7. ASSUME NEW S \in SUBSET U, Closed(S) PROVE from[k] \subseteq S
  BY <1>4, <1>7
<1> QED BY <1>2, <1>5, <1>6, <1>7

-----------------------------------------------------------------------------
(* The obligations that resolve registers *)

(* Whatever comes of it, an obligation is a record, and there are only     *)
(* finitely many of them.                                                  *)
Mapped(os) ==
  /\ IsFiniteSet(DOMAIN os)
  /\ \A id \in DOMAIN os : os[id] = Obligation(os[id].state, os[id].dependsOn, os[id].action)

Picked(os, c) == Selection(c) \in DOMAIN os /\ os[Selection(c)].state = "Selected"

(* A package is selected in one version, and a candidate that is looked at *)
(* is selected or rejected.                                                *)
Sound(facts, os) ==
  /\ Mapped(os)
  /\ \A id \in DOMAIN os : KindOf(id) = "PackageSelection" => os[id].state \in {"Selected", "Rejected"}
  /\ \A c, d \in Elements(facts.candidates) :
       Picked(os, c) /\ Picked(os, d) /\ c.package = d.package => c.version = d.version

(* The symbol of a requirement waits for a candidate that declares it,     *)
(* whether that one is still selected or not.                              *)
Bound(facts, os, r) ==
  \E c \in Matchers(facts, r) :
    /\ {Symbol(r), Abi(r), Selection(c)} \subseteq DOMAIN os
    /\ Abi(r) \in os[Symbol(r)].dependsOn /\ Selection(c) \in os[Abi(r)].dependsOn

AllBound(facts, os, R) == \A r \in R : Alone(facts, r) => Bound(facts, os, r)

(* What is inserted has nothing to do with the selections.                 *)
Quiet(os, new) ==
  /\ DOMAIN os \subseteq DOMAIN new
  /\ \A id \in DOMAIN new : KindOf(id) \in {"PackageSelection", "AbiTarget", "Symbol"} =>
       id \in DOMAIN os /\ new[id].state = os[id].state /\ new[id].dependsOn = os[id].dependsOn

LEMMA KindsOfIds ==
  /\ \A c : KindOf(Selection(c)) = "PackageSelection"
  /\ \A r : KindOf(Ffi(r)) = "SemanticFfi" /\ KindOf(Abi(r)) = "AbiTarget" /\ KindOf(Symbol(r)) = "Symbol"
  /\ \A o : KindOf(Artifact(o)) = "ArtifactProduction"
  /\ \A s : KindOf(Source(s)) = "SourceModule" /\ KindOf(Lowering(s)) = "Lowering"
  /\ KindOf(LinkOrder) = "LinkOrder" /\ KindOf(FinalLink) = "FinalLink" /\ KindOf(Runtime) = "Runtime"
  /\ KindOf(Provenance) = "Provenance" /\ KindOf(Demand) = "NativeExecutableDemand"
  BY DEF KindOf, Selection, Ffi, Abi, Symbol, Artifact, Source, Lowering, LinkOrder, FinalLink,
         Runtime, Provenance, Demand

LEMMA SameSelection ==
  ASSUME NEW c, NEW d, Selection(c) = Selection(d)
  PROVE  c.package = d.package /\ c.version = d.version
<1>1. Selection(c)[2] = c.package /\ Selection(c)[3] = c.version
  BY DEF Selection
<1>2. Selection(d)[2] = d.package /\ Selection(d)[3] = d.version
  BY DEF Selection
<1> QED BY <1>1, <1>2

LEMMA SameSymbol ==
  ASSUME NEW r, NEW q
  PROVE  /\ Symbol(r) = Symbol(q) => r.symbol = q.symbol
         /\ Abi(r) = Abi(q) => r.symbol = q.symbol
<1>1. Symbol(r)[2] = r.symbol /\ Symbol(q)[2] = q.symbol /\ Abi(r)[2] = r.symbol /\ Abi(q)[2] = q.symbol
  BY DEF Symbol, Abi
<1> QED BY <1>1

LEMMA ObligationFields ==
  ASSUME NEW s, NEW d, NEW a
  PROVE  /\ Obligation(s, d, a).state = s
         /\ Obligation(s, d, a).dependsOn = d
         /\ Obligation(s, d, a).action = a
  BY DEF Obligation

(* f is os with new, or with o under id, inserted.                         *)
WithAll(f, os, new) ==
  /\ DOMAIN f = DOMAIN os \cup DOMAIN new
  /\ \A i \in DOMAIN new : f[i] = new[i]
  /\ \A i \in DOMAIN os \ DOMAIN new : f[i] = os[i]

With(f, os, id, o) ==
  /\ DOMAIN f = DOMAIN os \cup {id} /\ f[id] = o
  /\ \A i \in DOMAIN os \ {id} : f[i] = os[i]

LEMMA InsertAllValues ==
  ASSUME NEW os, NEW new
  PROVE  WithAll(InsertAll(os, new), os, new)
  BY DEF InsertAll, WithAll

LEMMA InsertValues ==
  ASSUME NEW os, NEW id, NEW o
  PROVE  With(Insert(os, id, o), os, id, o)
<1>1. PICK new : new = [i \in {id} |-> o]
  OBVIOUS
<1>2. Insert(os, id, o) = InsertAll(os, new) /\ DOMAIN new = {id} /\ new[id] = o
  BY <1>1 DEF Insert
<1>3. WithAll(Insert(os, id, o), os, new)
  BY <1>2, InsertAllValues
<1> QED BY <1>2, <1>3 DEF With, WithAll

LEMMA InsertAllMapped ==
  ASSUME NEW os, NEW new, Mapped(os), Mapped(new)
  PROVE  Mapped(InsertAll(os, new))
<1>1. PICK f : f = InsertAll(os, new)
  OBVIOUS
<1>2. WithAll(f, os, new)
  BY <1>1, InsertAllValues
<1>3. IsFiniteSet(DOMAIN f)
  BY <1>2, FS_Union DEF Mapped, WithAll
<1>4. \A id \in DOMAIN f : f[id] = Obligation(f[id].state, f[id].dependsOn, f[id].action)
  BY <1>2 DEF Mapped, WithAll
<1> QED BY <1>1, <1>3, <1>4 DEF Mapped

LEMMA InsertMapped ==
  ASSUME NEW os, Mapped(os), NEW id, NEW s, NEW d, NEW a
  PROVE  Mapped(Insert(os, id, Obligation(s, d, a)))
<1>1. PICK new : new = [i \in {id} |-> Obligation(s, d, a)]
  OBVIOUS
<1>2. DOMAIN new = {id} /\ new[id] = Obligation(s, d, a)
  BY <1>1
<1>3. IsFiniteSet(DOMAIN new)
  BY <1>2, FewAreFinite
<1>4. Mapped(new)
  BY <1>2, <1>3, ObligationFields DEF Mapped
<1>5. Insert(os, id, Obligation(s, d, a)) = InsertAll(os, new)
  BY <1>1 DEF Insert
<1> QED BY <1>4, <1>5, InsertAllMapped

LEMMA QuietKeeps ==
  ASSUME NEW facts, NEW os, NEW new, Mapped(new), Quiet(os, new), Sound(facts, os),
         NEW R, AllBound(facts, os, R)
  PROVE  Sound(facts, new) /\ AllBound(facts, new, R)
<1>1. ASSUME NEW id \in DOMAIN new, KindOf(id) \in {"PackageSelection", "AbiTarget", "Symbol"}
      PROVE  id \in DOMAIN os /\ new[id].state = os[id].state /\ new[id].dependsOn = os[id].dependsOn
  BY <1>1 DEF Quiet
<1>2. ASSUME NEW c PROVE Picked(new, c) => Picked(os, c)
  BY <1>1, KindsOfIds DEF Picked
<1>3. Sound(facts, new)
  BY <1>1, <1>2 DEF Sound
<1>4. ASSUME NEW r \in R, Alone(facts, r) PROVE Bound(facts, new, r)
  <2>1. PICK c \in Matchers(facts, r) :
          /\ {Symbol(r), Abi(r), Selection(c)} \subseteq DOMAIN os
          /\ Abi(r) \in os[Symbol(r)].dependsOn /\ Selection(c) \in os[Abi(r)].dependsOn
    BY <1>4 DEF AllBound, Bound
  <2>2. {Symbol(r), Abi(r), Selection(c)} \subseteq DOMAIN new
    BY <2>1 DEF Quiet
  <2>3. new[Symbol(r)].dependsOn = os[Symbol(r)].dependsOn /\ new[Abi(r)].dependsOn = os[Abi(r)].dependsOn
    BY <1>1, <2>2, KindsOfIds
  <2> QED BY <2>1, <2>2, <2>3 DEF Bound
<1> QED BY <1>3, <1>4 DEF AllBound

(* What one requirement does to the map, given what is rejected for it.    *)
LEMMA ProviderBinds ==
  ASSUME NEW facts, NEW os, Sound(facts, os), NEW R, AllBound(facts, os, R),
         NEW r \in Elements(facts.requirements), NEW c \in Matchers(facts, r),
         NEW alt, Mapped(alt), \A id \in DOMAIN alt : alt[id].state = "Rejected",
         DOMAIN alt = {Selection(d) : d \in {x \in Elements(facts.candidates) :
                                               x.package = c.package /\ x.version # c.version}},
         NEW d1, NEW d2, NEW new,
         new = Insert(Insert(InsertAll(Insert(Insert(os, Ffi(r), Obligation("Satisfied", d1, {})),
                                              Selection(c), Obligation("Selected", d2, {})), alt),
                             Abi(r), Obligation("Satisfied", {Ffi(r), Selection(c)}, {})),
                      Symbol(r), Obligation("Satisfied", {Abi(r)}, {}))
  PROVE  Sound(facts, new) /\ AllBound(facts, new, R \cup {r})
<1>1. PICK f1, f2, f3, f4 :
        /\ f1 = Insert(os, Ffi(r), Obligation("Satisfied", d1, {}))
        /\ f2 = Insert(f1, Selection(c), Obligation("Selected", d2, {}))
        /\ f3 = InsertAll(f2, alt)
        /\ f4 = Insert(f3, Abi(r), Obligation("Satisfied", {Ffi(r), Selection(c)}, {}))
        /\ new = Insert(f4, Symbol(r), Obligation("Satisfied", {Abi(r)}, {}))
  OBVIOUS
<1>2. Mapped(f1) /\ Mapped(f2)
  BY <1>1, InsertMapped DEF Sound
<1>3. Mapped(f3)
  BY <1>1, <1>2, InsertAllMapped
<1>4. Mapped(f4) /\ Mapped(new)
  BY <1>1, <1>3, InsertMapped
<1>5. /\ With(f1, os, Ffi(r), Obligation("Satisfied", d1, {}))
      /\ With(f2, f1, Selection(c), Obligation("Selected", d2, {}))
      /\ WithAll(f3, f2, alt)
      /\ With(f4, f3, Abi(r), Obligation("Satisfied", {Ffi(r), Selection(c)}, {}))
      /\ With(new, f4, Symbol(r), Obligation("Satisfied", {Abi(r)}, {}))
  BY <1>1, InsertValues, InsertAllValues
<1>6. DOMAIN new = DOMAIN os \cup DOMAIN alt \cup {Ffi(r), Selection(c), Abi(r), Symbol(r)}
  BY <1>5 DEF With, WithAll
<1>7. ASSUME NEW id \in DOMAIN f3, id # Abi(r), id # Symbol(r) PROVE new[id] = f3[id]
  BY <1>5, <1>7 DEF With
<1>8. \A id \in DOMAIN alt : KindOf(id) = "PackageSelection"
  BY KindsOfIds
<1>9. ASSUME NEW id \in DOMAIN new, KindOf(id) = "PackageSelection"
      PROVE  \/ id \in DOMAIN alt /\ new[id].state = "Rejected"
             \/ id = Selection(c) /\ id \notin DOMAIN alt /\ new[id].state = "Selected"
             \/ id \notin DOMAIN alt /\ id # Selection(c) /\ id \in DOMAIN os /\ new[id] = os[id]
  <2>1. id # Symbol(r) /\ id # Abi(r) /\ id # Ffi(r)
    BY <1>9, KindsOfIds
  <2>2. id \in DOMAIN f3 /\ new[id] = f3[id]
    BY <1>5, <1>7, <2>1 DEF With
  <2>3. CASE id \in DOMAIN alt
    BY <1>5, <2>2, <2>3 DEF WithAll
  <2>4. CASE id \notin DOMAIN alt /\ id = Selection(c)
    <3>1. new[id] = Obligation("Selected", d2, {})
      BY <1>5, <2>2, <2>4 DEF With, WithAll
    <3> QED BY <2>4, <3>1, ObligationFields
  <2>5. CASE id \notin DOMAIN alt /\ id # Selection(c)
    BY <1>5, <2>1, <2>2, <2>5 DEF With, WithAll
  <2> QED BY <2>3, <2>4, <2>5
<1>10. \A id \in DOMAIN new : KindOf(id) = "PackageSelection" => new[id].state \in {"Selected", "Rejected"}
  BY <1>9 DEF Sound
<1>11. c \in Elements(facts.candidates) /\ c.package = r.provider
  BY DEF Matchers
<1>12. ASSUME NEW x \in Elements(facts.candidates), Picked(new, x)
       PROVE  \/ x.package = c.package /\ x.version = c.version
              \/ x.package # c.package /\ Picked(os, x)
  <2>1. /\ Selection(x) \in DOMAIN new /\ new[Selection(x)].state = "Selected"
        /\ KindOf(Selection(x)) = "PackageSelection"
    BY <1>12, KindsOfIds DEF Picked
  <2>2. Selection(x) \notin DOMAIN alt
    BY <1>9, <2>1
  <2>3. x.package = c.package => x.version = c.version
    BY <2>2
  <2>4. ASSUME x.package # c.package PROVE Picked(os, x)
    <3>1. Selection(x) # Selection(c)
      BY <2>4, SameSelection
    <3> QED BY <1>9, <2>1, <3>1 DEF Picked
  <2> QED BY <2>3, <2>4
<1>13. Sound(facts, new)
  <2>1. ASSUME NEW x \in Elements(facts.candidates), NEW y \in Elements(facts.candidates),
               Picked(new, x), Picked(new, y), x.package = y.package
        PROVE  x.version = y.version
    BY <1>12, <2>1 DEF Sound
  <2> QED BY <1>4, <1>10, <2>1 DEF Sound
<1>14. DOMAIN os \subseteq DOMAIN new
  BY <1>6
<1>15. Bound(facts, new, r)
  <2>1. {Symbol(r), Abi(r), Selection(c)} \subseteq DOMAIN new
    BY <1>6
  <2>2. Abi(r) # Symbol(r)
    BY KindsOfIds
  <2>3. /\ new[Abi(r)] = Obligation("Satisfied", {Ffi(r), Selection(c)}, {})
        /\ new[Symbol(r)] = Obligation("Satisfied", {Abi(r)}, {})
    BY <1>5, <2>2 DEF With
  <2>4. new[Symbol(r)].dependsOn = {Abi(r)}
    BY ONLY <2>3, ObligationFields
  <2>5. new[Abi(r)].dependsOn = {Ffi(r), Selection(c)}
    BY ONLY <2>3, ObligationFields
  <2> QED BY <2>1, <2>4, <2>5 DEF Bound
<1>16. ASSUME NEW q \in R, Alone(facts, q), q # r PROVE Bound(facts, new, q)
  <2>1. q.symbol # r.symbol
    BY <1>16 DEF Alone
  <2>2. PICK x \in Matchers(facts, q) :
          /\ {Symbol(q), Abi(q), Selection(x)} \subseteq DOMAIN os
          /\ Abi(q) \in os[Symbol(q)].dependsOn /\ Selection(x) \in os[Abi(q)].dependsOn
    BY <1>16 DEF AllBound, Bound
  <2>3. ASSUME NEW id \in {Symbol(q), Abi(q)} PROVE new[id] = os[id]
    <3>1. /\ id # Symbol(r) /\ id # Abi(r) /\ id # Ffi(r) /\ id # Selection(c) /\ id \notin DOMAIN alt
      BY <1>8, <2>1, <2>3, KindsOfIds, SameSymbol
    <3> QED BY <1>5, <2>2, <3>1 DEF With, WithAll
  <2> QED BY <1>14, <2>2, <2>3 DEF Bound
<1> QED BY <1>13, <1>15, <1>16 DEF AllBound

(* What loops over the candidates insert: all obligations of one state.    *)
LEMMA MadeMapped ==
  ASSUME NEW new, IsFiniteSet(DOMAIN new), NEW s,
         \A id \in DOMAIN new : \E d : new[id] = Obligation(s, d, {})
  PROVE  Mapped(new) /\ \A id \in DOMAIN new : new[id].state = s
<1>1. ASSUME NEW id \in DOMAIN new
      PROVE  new[id] = Obligation(new[id].state, new[id].dependsOn, new[id].action) /\ new[id].state = s
  <2>1. PICK d : new[id] = Obligation(s, d, {})
    OBVIOUS
  <2>2. new[id].state = s /\ new[id].dependsOn = d /\ new[id].action = {}
    BY <2>1, ObligationFields
  <2> QED BY <2>1, <2>2
<1> QED BY <1>1 DEF Mapped

LEMMA CandidatesAreFinite ==
  ASSUME Facts(given)
  PROVE  IsFiniteSet(DOMAIN given.candidates)
<1>1. PICK cs : cs = given.candidates
  OBVIOUS
<1>2. cs \in Seq(Elements(cs))
  BY <1>1 DEF Facts
<1>3. PICK n \in Nat : DOMAIN cs = 1 .. n
  BY <1>2
<1> QED BY <1>1, <1>3, FS_Interval

(* The other versions of a package, all rejected.                          *)
LEMMA Alternatives ==
  ASSUME Facts(given), NEW c
  PROVE  \E alt :
           /\ Mapped(alt) /\ \A id \in DOMAIN alt : alt[id].state = "Rejected"
           /\ DOMAIN alt = {Selection(d) : d \in {x \in Elements(given.candidates) :
                                                    x.package = c.package /\ x.version # c.version}}
           /\ \A os : AlternativesRejected(c, os) = InsertAll(os, alt)
<1>1. PICK cs : cs = given.candidates
  OBVIOUS
<1> DEFINE I == {i \in Candidates(c.package) : given.candidates[i].version # c.version}
           Key(i) == Selection(given.candidates[i])
           Last1(k) == CHOOSE i \in I : Key(i) = k /\ \A j \in I : Key(j) = k => j <= i
           Value(i) == Obligation("Rejected", SourcesOf(given.candidates[i]), {})
           S == {Key(i) : i \in I}
<1>2. IsFiniteSet(S)
  <2>1. IsFiniteSet(I)
    BY CandidatesAreFinite, FS_Subset DEF Candidates
  <2>2. PICK f : f = [i \in I |-> Key(i)]
    OBVIOUS
  <2>3. {f[i] : i \in I} = {Key(i) : i \in I}
    BY <2>2
  <2>4. IsFiniteSet({f[i] : i \in I})
    BY <2>1, MadeIsFinite
  <2> QED BY <2>3, <2>4
<1>3. PICK alt : alt = [k \in S |-> Value(Last1(k))]
  OBVIOUS
<1>4. Mapped(alt) /\ DOMAIN alt = S /\ \A id \in S : alt[id].state = "Rejected"
  <2>1. DOMAIN alt = S /\ \A k \in S : alt[k] = Value(Last1(k))
    BY <1>3
  <2>2. \A k \in S : \E d : alt[k] = Obligation("Rejected", d, {})
    <3> HIDE DEF S, Last1
    <3> QED BY <2>1
  <2> HIDE DEF S
  <2> QED BY <1>2, <2>1, <2>2, MadeMapped
<1>5. \A os : AlternativesRejected(c, os) = InsertAll(os, alt)
  BY <1>3 DEF AlternativesRejected, Inserted
<1>6. S = {Selection(x) : x \in {y \in Elements(given.candidates) :
                                   y.package = c.package /\ y.version # c.version}}
  BY DEF Candidates, Elements
<1> HIDE DEF S
<1> QED BY <1>4, <1>5, <1>6

(* Before any provider is chosen.                                          *)
Unchosen(os) == Mapped(os) /\ \A id \in DOMAIN os : KindOf(id) # "PackageSelection"

LEMMA RegisteredIsUnchosen ==
  ASSUME Facts(given), Register
  PROVE  Unchosen(obligations')
<1> DEFINE S == {Source(s.id) : s \in given.sources}
           L == {Lowering(p) : p \in DOMAIN given.lowerings}
<1>1. PICK own, lowered :
        /\ own = [id \in S |-> Satisfied({})]
        /\ lowered = [id \in L |-> Satisfied({Source(given.lowerings[id[2]])})]
        /\ obligations' = InsertAll(own, lowered)
  BY DEF Register
<1>2. IsFiniteSet(S)
  <2>1. PICK f : f = [s \in given.sources |-> Source(s.id)]
    OBVIOUS
  <2>2. {f[s] : s \in given.sources} = S
    BY <2>1
  <2>3. IsFiniteSet({f[s] : s \in given.sources})
    BY MadeIsFinite DEF Facts
  <2> QED BY <2>2, <2>3
<1>3. IsFiniteSet(L)
  <2>1. PICK f : f = [p \in DOMAIN given.lowerings |-> Lowering(p)]
    OBVIOUS
  <2>2. {f[p] : p \in DOMAIN given.lowerings} = L
    BY <2>1
  <2>3. IsFiniteSet({f[p] : p \in DOMAIN given.lowerings})
    BY MadeIsFinite DEF Facts
  <2> QED BY <2>2, <2>3
<1>4. \A id \in S \cup L : KindOf(id) # "PackageSelection"
  BY KindsOfIds
<1> HIDE DEF S, L
<1>5. DOMAIN own = S /\ DOMAIN lowered = L
  BY <1>1
<1>6. \A id \in DOMAIN own : \E d : own[id] = Obligation("Satisfied", d, {})
  BY <1>1, <1>5 DEF Satisfied
<1>7. \A id \in DOMAIN lowered : \E d : lowered[id] = Obligation("Satisfied", d, {})
  BY <1>1, <1>5 DEF Satisfied
<1>8. Mapped(own) /\ Mapped(lowered)
  BY <1>2, <1>3, <1>5, <1>6, <1>7, MadeMapped
<1>9. PICK os : os = InsertAll(own, lowered)
  OBVIOUS
<1>10. Mapped(os) /\ WithAll(os, own, lowered)
  BY <1>8, <1>9, InsertAllMapped, InsertAllValues
<1>11. DOMAIN os = S \cup L
  BY <1>5, <1>10 DEF WithAll
<1> QED BY <1>1, <1>4, <1>9, <1>10, <1>11 DEF Unchosen

(* A package is a root with one candidate.                                 *)
LEMMA RootsAreSound ==
  ASSUME Facts(given), Unchosen(obligations), SelectRoots
  PROVE  Sound(given, obligations') /\ AllBound(given, obligations', {})
<1> DEFINE Key(i) == Selection(given.candidates[i])
           Value(i) == Obligation("Selected", SourcesOf(given.candidates[i]), {})
           Last1(k) == CHOOSE i \in RootCandidates : Key(i) = k /\ \A j \in RootCandidates : Key(j) = k => j <= i
           S == {Key(i) : i \in RootCandidates}
<1>1. PICK new : new = [k \in S |-> Value(Last1(k))]
  OBVIOUS
<1>2. obligations' = InsertAll(obligations, new)
  BY <1>1 DEF SelectRoots, Inserted
<1>3. IsFiniteSet(S)
  <2>1. IsFiniteSet(RootCandidates)
    BY CandidatesAreFinite, FS_Subset DEF RootCandidates
  <2>2. PICK f : f = [i \in RootCandidates |-> Key(i)]
    OBVIOUS
  <2>3. {f[i] : i \in RootCandidates} = S
    BY <2>2
  <2>4. IsFiniteSet({f[i] : i \in RootCandidates})
    BY <2>1, MadeIsFinite
  <2> QED BY <2>3, <2>4
<1>4. Mapped(new) /\ DOMAIN new = S /\ \A id \in S : new[id].state = "Selected"
  <2>1. DOMAIN new = S /\ \A k \in S : new[k] = Value(Last1(k))
    BY <1>1
  <2>2. \A k \in S : \E d : new[k] = Obligation("Selected", d, {})
    <3> HIDE DEF S, Last1
    <3> QED BY <2>1
  <2> HIDE DEF S
  <2> QED BY <1>3, <2>1, <2>2, MadeMapped
<1>5. PICK os : os = InsertAll(obligations, new)
  OBVIOUS
<1>6. Mapped(os) /\ WithAll(os, obligations, new)
  BY <1>4, <1>5, InsertAllMapped, InsertAllValues DEF Unchosen
<1>7. ASSUME NEW id \in DOMAIN os, KindOf(id) = "PackageSelection"
      PROVE  id \in S /\ os[id].state = "Selected"
  <2> HIDE DEF S
  <2>1. id \notin DOMAIN obligations
    BY <1>7 DEF Unchosen
  <2>2. id \in S /\ os[id] = new[id]
    BY <1>4, <1>6, <2>1 DEF WithAll
  <2> QED BY <1>4, <2>2
<1>8. ASSUME NEW c \in Elements(given.candidates), Picked(os, c) PROVE c.package \in Roots
  <2>1. Selection(c) \in S
    BY <1>7, <1>8, KindsOfIds DEF Picked
  <2>2. PICK i \in RootCandidates : Selection(c) = Selection(given.candidates[i])
    BY <2>1
  <2>3. c.package = given.candidates[i].package
    BY <2>2, SameSelection
  <2> QED BY <2>3 DEF RootCandidates
<1>9. ASSUME NEW c \in Elements(given.candidates), NEW d \in Elements(given.candidates),
             Picked(os, c), Picked(os, d), c.package = d.package
      PROVE  c.version = d.version
  <2>1. Cardinality(Candidates(c.package)) = 1
    BY <1>8, <1>9 DEF SelectRoots
  <2>2. IsFiniteSet(Candidates(c.package))
    BY CandidatesAreFinite, FS_Subset DEF Candidates
  <2>3. PICK x : Candidates(c.package) = {x}
    BY <2>1, <2>2, FS_Singleton
  <2>4. PICK i \in DOMAIN given.candidates, j \in DOMAIN given.candidates :
          c = given.candidates[i] /\ d = given.candidates[j]
    BY DEF Elements
  <2>5. i \in Candidates(c.package) /\ j \in Candidates(c.package)
    BY <1>9, <2>4 DEF Candidates
  <2> QED BY <2>3, <2>4, <2>5
<1>10. Sound(given, os)
  BY <1>6, <1>7, <1>9 DEF Sound
<1> QED BY <1>2, <1>5, <1>10 DEF AllBound

(* The next requirement is bound to the candidate that resolve chose.      *)
Served == {given.requirements[i] : i \in 1 .. next - 1}

LEMMA NextIsServed ==
  ASSUME Facts(given), next \in Nat \ {0}, next <= Len(given.requirements)
  PROVE  /\ given.requirements[next] \in Elements(given.requirements)
         /\ {given.requirements[i] : i \in 1 .. (next + 1) - 1} = Served \cup {given.requirements[next]}
<1>1. PICK rs : rs = given.requirements
  OBVIOUS
<1>2. rs \in Seq(Elements(rs))
  BY <1>1 DEF Facts
<1>3. next \in DOMAIN rs
  BY <1>1, <1>2
<1>4. 1 .. (next + 1) - 1 = 1 .. next - 1 \cup {next}
  OBVIOUS
<1> QED BY <1>1, <1>3, <1>4 DEF Elements, Served

LEMMA AllAreServed ==
  ASSUME Facts(given), next \in Nat \ {0}, next > Len(given.requirements)
  PROVE  Elements(given.requirements) \subseteq Served
<1>1. PICK rs : rs = given.requirements
  OBVIOUS
<1>2. rs \in Seq(Elements(rs))
  BY <1>1 DEF Facts
<1>3. PICK n \in Nat : n = Len(rs) /\ DOMAIN rs = 1 .. n
  BY <1>2
<1>4. 1 .. n \subseteq 1 .. next - 1
  BY <1>1, <1>3
<1> QED BY <1>1, <1>3, <1>4 DEF Elements, Served

LEMMA ProviderKeepsSound ==
  ASSUME Facts(given), Sound(given, obligations), AllBound(given, obligations, Served),
         next \in Nat \ {0}, SelectProvider
  PROVE  /\ Sound(given, obligations')
         /\ AllBound(given, obligations', {given.requirements[i] : i \in 1 .. (next + 1) - 1})
<1>1. PICK r : r = given.requirements[next]
  OBVIOUS
<1>2. /\ r \in Elements(given.requirements)
      /\ {given.requirements[i] : i \in 1 .. (next + 1) - 1} = Served \cup {r}
  BY <1>1, NextIsServed DEF SelectProvider
<1>3. PICK i \in Matching(r, "Target") :
        LET c    == given.candidates[i]
            os   == Selected(r, c, obligations)
            outs == OutputsOf(c.package, ArchiveKind[c.ecosystem])
        IN IF outs # <<>> /\ c.package \notin registered
           THEN /\ registered' = registered \cup {c.package}
                /\ obligations' =
                     Insert(os, Artifact(outs[1].id), Satisfied(AfterLowering(c.package, Selection(c), os)))
           ELSE obligations' = os /\ UNCHANGED registered
  BY <1>1 DEF SelectProvider
<1>4. PICK c : c = given.candidates[i]
  OBVIOUS
<1>5. c \in Matchers(given, r)
  BY <1>3, <1>4 DEF Matching, Matchers, Candidates, Elements
<1>6. PICK os, o, d : /\ os = Selected(r, c, obligations)
                      /\ obligations' = os \/ obligations' = Insert(os, Artifact(o), Obligation("Satisfied", d, {}))
  BY <1>3, <1>4 DEF Satisfied
<1>7. PICK alt :
        /\ Mapped(alt) /\ \A id \in DOMAIN alt : alt[id].state = "Rejected"
        /\ DOMAIN alt = {Selection(x) : x \in {y \in Elements(given.candidates) :
                                                 y.package = c.package /\ y.version # c.version}}
        /\ \A m : AlternativesRejected(c, m) = InsertAll(m, alt)
  BY Alternatives
<1>8. PICK d1, d2 : d1 = {Source(r.source)} /\ d2 = SourcesOf(c)
  OBVIOUS
<1>9. os = Insert(Insert(InsertAll(Insert(Insert(obligations, Ffi(r), Obligation("Satisfied", d1, {})),
                                          Selection(c), Obligation("Selected", d2, {})), alt),
                         Abi(r), Obligation("Satisfied", {Ffi(r), Selection(c)}, {})),
                  Symbol(r), Obligation("Satisfied", {Abi(r)}, {}))
  BY <1>6, <1>7, <1>8 DEF Selected, Satisfied
<1>10. Sound(given, os) /\ AllBound(given, os, Served \cup {r})
  BY <1>2, <1>5, <1>7, <1>9, ProviderBinds
<1>11. CASE obligations' = os
  BY <1>2, <1>10, <1>11
<1>12. CASE obligations' = Insert(os, Artifact(o), Obligation("Satisfied", d, {}))
  <2>1. PICK new : new = Insert(os, Artifact(o), Obligation("Satisfied", d, {}))
    OBVIOUS
  <2>2. Mapped(new) /\ With(new, os, Artifact(o), Obligation("Satisfied", d, {}))
    BY <1>10, <2>1, InsertMapped, InsertValues DEF Sound
  <2>3. Quiet(os, new)
    BY <2>2, KindsOfIds DEF With, Quiet
  <2>4. Sound(given, new) /\ AllBound(given, new, Served \cup {r})
    BY <1>10, <2>2, <2>3, QuietKeeps
  <2> QED BY <1>2, <1>12, <2>1, <2>4
<1> QED BY <1>6, <1>11, <1>12

(* Then there is a candidate behind every requirement, and the rest of the *)
(* graph is built around the selections.                                   *)
Supplied(facts, os) == Sound(facts, os) /\ AllBound(facts, os, Elements(facts.requirements))

LEMMA QuietSupplies ==
  ASSUME NEW facts, NEW os, NEW new, Supplied(facts, os), Mapped(new), Quiet(os, new)
  PROVE  Supplied(facts, new)
  BY QuietKeeps DEF Supplied

LEMMA RootArtifactsAreQuiet ==
  ASSUME Facts(given), Supplied(given, obligations), RegisterRoots
  PROVE  Supplied(given, obligations')
<1> DEFINE Of1(i) == given.candidates[i]
           Outs(i) == OutputsOf(Of1(i).package, RootKind[Of1(i).ecosystem])
           I == {i \in RootCandidates : Outs(i) # <<>>}
           Key(i) == Artifact(Outs(i)[1].id)
           Value(i) == Satisfied(AfterLowering(Of1(i).package, Selection(Of1(i)), obligations))
           Last1(k) == CHOOSE i \in I : Key(i) = k /\ \A j \in I : Key(j) = k => j <= i
           S == {Key(i) : i \in I}
<1>1. PICK new : new = [k \in S |-> Value(Last1(k))]
  OBVIOUS
<1>2. obligations' = InsertAll(obligations, new)
  BY <1>1 DEF RegisterRoots, Inserted
<1>3. IsFiniteSet(S)
  <2>1. IsFiniteSet(I)
    <3>1. I \subseteq DOMAIN given.candidates
      BY DEF RootCandidates
    <3> HIDE DEF I
    <3> QED BY <3>1, CandidatesAreFinite, FS_Subset
  <2> HIDE DEF I, Outs
  <2>2. PICK f : f = [i \in I |-> Key(i)]
    OBVIOUS
  <2>3. {f[i] : i \in I} = S
    BY <2>2
  <2>4. IsFiniteSet({f[i] : i \in I})
    BY <2>1, MadeIsFinite
  <2> QED BY <2>3, <2>4
<1>4. \A id \in S : KindOf(id) = "ArtifactProduction"
  <2> HIDE DEF I, Outs
  <2> QED BY KindsOfIds
<1>5. DOMAIN new = S /\ \A k \in S : new[k] = Value(Last1(k))
  <2> HIDE DEF S, Last1
  <2> QED BY <1>1
<1>6. \A k \in S : \E d : new[k] = Obligation("Satisfied", d, {})
  <2> HIDE DEF S, Last1
  <2> QED BY <1>5 DEF Satisfied
<1> HIDE DEF S
<1>7. Mapped(new)
  BY <1>3, <1>5, <1>6, MadeMapped
<1>8. PICK os : os = InsertAll(obligations, new)
  OBVIOUS
<1>9. Mapped(os) /\ WithAll(os, obligations, new)
  BY <1>7, <1>8, InsertAllMapped, InsertAllValues DEF Supplied, Sound
<1>10. Quiet(obligations, os)
  BY <1>4, <1>5, <1>9 DEF WithAll, Quiet
<1> QED BY <1>2, <1>8, <1>9, <1>10, QuietSupplies

LEMMA AssignedIsQuiet ==
  ASSUME NEW facts, NEW os, Supplied(facts, os), NEW as
  PROVE  Supplied(facts, Assigned(os, as))
<1>1. PICK new : new = Assigned(os, as)
  OBVIOUS
<1>2. DOMAIN new = DOMAIN os
  BY <1>1 DEF Assigned
<1>3. ASSUME NEW id \in DOMAIN os
      PROVE  \E a : new[id] = Obligation(os[id].state, os[id].dependsOn, a)
  <2>1. PICK a : new[id] = os[id] \/ new[id] = [os[id] EXCEPT !.action = a]
    BY <1>1 DEF Assigned
  <2>2. PICK s, d, b : s = os[id].state /\ d = os[id].dependsOn /\ b = os[id].action
    OBVIOUS
  <2>3. os[id] = Obligation(s, d, b)
    BY <2>2 DEF Supplied, Sound, Mapped
  <2>4. [Obligation(s, d, b) EXCEPT !.action = a] = Obligation(s, d, a)
    BY DEF Obligation
  <2> QED BY <2>1, <2>2, <2>3, <2>4
<1>4. ASSUME NEW id \in DOMAIN os
      PROVE  /\ new[id].state = os[id].state /\ new[id].dependsOn = os[id].dependsOn
             /\ new[id] = Obligation(new[id].state, new[id].dependsOn, new[id].action)
  <2>1. PICK s, d, a : /\ s = os[id].state /\ d = os[id].dependsOn
                       /\ new[id] = Obligation(s, d, a)
    BY <1>3
  <2>2. new[id].state = s /\ new[id].dependsOn = d /\ new[id].action = a
    BY <2>1, ObligationFields
  <2> QED BY <2>1, <2>2
<1>5. Mapped(new)
  BY <1>2, <1>4 DEF Mapped, Supplied, Sound
<1>6. Quiet(os, new)
  BY <1>2, <1>4 DEF Quiet
<1> QED BY <1>1, <1>5, <1>6, QuietSupplies

(* The demand leads to the final link, which waits for every symbol.       *)
Chained(os) ==
  \E exe :
    /\ {Demand, Provenance, Runtime, Artifact(exe), FinalLink} \subseteq DOMAIN os
    /\ Provenance \in os[Demand].dependsOn /\ Runtime \in os[Provenance].dependsOn
    /\ Artifact(exe) \in os[Runtime].dependsOn /\ FinalLink \in os[Artifact(exe)].dependsOn
    /\ Of(os, "Symbol") \subseteq os[FinalLink].dependsOn

Delivered(facts, os) == Supplied(facts, os) /\ Chained(os)

LEMMA ClosingDelivers ==
  ASSUME NEW facts, NEW os, Supplied(facts, os), NEW exe
  PROVE  Delivered(facts, Closing(os, exe))
<1>1. PICK d1, d2, f1, f2, f3, f4, f5, new :
        /\ Of(os, "Symbol") \subseteq d2
        /\ f1 = Insert(os, LinkOrder, Obligation("Satisfied", d1, {<<"link">>}))
        /\ f2 = Insert(f1, FinalLink, Obligation("Satisfied", d2, {<<"link">>}))
        /\ f3 = Insert(f2, Artifact(exe), Obligation("Satisfied", {FinalLink}, {<<"link">>}))
        /\ f4 = Insert(f3, Runtime, Obligation("Satisfied", {Artifact(exe)}, {<<"preflight">>}))
        /\ f5 = Insert(f4, Provenance, Obligation("Satisfied", {Runtime}, {<<"publish">>}))
        /\ new = Insert(f5, Demand, Obligation("Satisfied", {Provenance}, {}))
        /\ Closing(os, exe) = new
  <2> DEFINE links == {Artifact(o) : o \in Linked(os)}
  <2>1. Of(os, "Symbol") \subseteq links \cup {LinkOrder} \cup Of(os, "Symbol")
    OBVIOUS
  <2>2. Closing(os, exe) =
          Insert(Insert(Insert(Insert(Insert(Insert(os,
            LinkOrder, Obligation("Satisfied", links, {<<"link">>})),
            FinalLink, Obligation("Satisfied", links \cup {LinkOrder} \cup Of(os, "Symbol"), {<<"link">>})),
            Artifact(exe), Obligation("Satisfied", {FinalLink}, {<<"link">>})),
            Runtime, Obligation("Satisfied", {Artifact(exe)}, {<<"preflight">>})),
            Provenance, Obligation("Satisfied", {Runtime}, {<<"publish">>})),
            Demand, Obligation("Satisfied", {Provenance}, {}))
    BY DEF Closing, Satisfied
  <2> HIDE DEF links
  <2> QED BY <2>1, <2>2
<1>2. Mapped(f1) /\ Mapped(f2) /\ Mapped(f3)
  BY <1>1, InsertMapped DEF Supplied, Sound
<1>3. Mapped(f4) /\ Mapped(f5) /\ Mapped(new)
  BY <1>1, <1>2, InsertMapped
<1>4. /\ With(f1, os, LinkOrder, Obligation("Satisfied", d1, {<<"link">>}))
      /\ With(f2, f1, FinalLink, Obligation("Satisfied", d2, {<<"link">>}))
      /\ With(f3, f2, Artifact(exe), Obligation("Satisfied", {FinalLink}, {<<"link">>}))
  BY <1>1, InsertValues
<1>5. /\ With(f4, f3, Runtime, Obligation("Satisfied", {Artifact(exe)}, {<<"preflight">>}))
      /\ With(f5, f4, Provenance, Obligation("Satisfied", {Runtime}, {<<"publish">>}))
      /\ With(new, f5, Demand, Obligation("Satisfied", {Provenance}, {}))
  BY <1>1, InsertValues
<1> DEFINE Six == {LinkOrder, FinalLink, Artifact(exe), Runtime, Provenance, Demand}
<1>6. DOMAIN new = DOMAIN os \cup Six
  BY <1>4, <1>5 DEF With
<1>7. \A id \in Six : KindOf(id) \notin {"PackageSelection", "AbiTarget", "Symbol"}
  BY KindsOfIds
<1>8. \A id \in DOMAIN os \ Six : new[id] = os[id]
  BY <1>4, <1>5 DEF With
<1>9. Quiet(os, new)
  <2> HIDE DEF Six
  <2> QED BY <1>6, <1>7, <1>8 DEF Quiet
<1>10. Supplied(facts, new)
  BY <1>3, <1>9, QuietSupplies
<1>11. /\ FinalLink # Artifact(exe) /\ FinalLink # Runtime /\ FinalLink # Provenance /\ FinalLink # Demand
       /\ Artifact(exe) # Runtime /\ Artifact(exe) # Provenance /\ Artifact(exe) # Demand
       /\ Runtime # Provenance /\ Runtime # Demand /\ Provenance # Demand
  BY KindsOfIds
<1>12. new[FinalLink] = f2[FinalLink] /\ new[Artifact(exe)] = f3[Artifact(exe)]
  BY <1>4, <1>5, <1>11 DEF With
<1>13. new[Runtime] = f4[Runtime] /\ new[Provenance] = f5[Provenance]
  BY <1>5, <1>11 DEF With
<1>14. /\ new[FinalLink] = Obligation("Satisfied", d2, {<<"link">>})
       /\ new[Artifact(exe)] = Obligation("Satisfied", {FinalLink}, {<<"link">>})
       /\ new[Runtime] = Obligation("Satisfied", {Artifact(exe)}, {<<"preflight">>})
       /\ new[Provenance] = Obligation("Satisfied", {Runtime}, {<<"publish">>})
       /\ new[Demand] = Obligation("Satisfied", {Provenance}, {})
  BY <1>4, <1>5, <1>12, <1>13 DEF With
<1>15. new[FinalLink].dependsOn = d2
  BY ONLY <1>14, ObligationFields
<1>16. new[Artifact(exe)].dependsOn = {FinalLink}
  BY ONLY <1>14, ObligationFields
<1>17. new[Runtime].dependsOn = {Artifact(exe)}
  BY ONLY <1>14, ObligationFields
<1>18. new[Provenance].dependsOn = {Runtime}
  BY ONLY <1>14, ObligationFields
<1>19. new[Demand].dependsOn = {Provenance}
  BY ONLY <1>14, ObligationFields
<1>20. Of(new, "Symbol") = Of(os, "Symbol")
  BY <1>6, <1>7 DEF Of
<1>21. Chained(new)
  BY <1>1, <1>6, <1>15, <1>16, <1>17, <1>18, <1>19, <1>20 DEF Chained
<1> QED BY <1>1, <1>10, <1>21 DEF Delivered

(* What resolve has established at each of its stages, in its first call.  *)
StageInv ==
  /\ given = input /\ next \in Nat \ {0}
  /\ stage \in {"register", "roots"} => next = 1
  /\ stage = "roots" => Unchosen(obligations)
  /\ stage = "requirements" => Sound(given, obligations) /\ AllBound(given, obligations, Served)
  /\ stage \in {"actions", "closing"} => Supplied(given, obligations)

ResolverInv ==
  /\ results = <<>> /\ stage \in Resolving => StageInv
  /\ results # <<>> /\ results[1].verdict = "accepted" => Delivered(input, results[1].obligations)

LEMMA FirstResult ==
  ASSUME Returned, NEW result, Return(result)
  PROVE  /\ results' # <<>> /\ input' = input
         /\ results = <<>> => results'[1] = result
         /\ results # <<>> => results'[1] = results[1]
<1>1. IsList(results) /\ results' = Append(results, result)
  BY DEF Returned, Return
<1>2. PICK n \in Nat : n = Len(results)
  BY <1>1 DEF IsList
<1>3. /\ IsList(results') /\ Len(results') = n + 1
      /\ results'[n + 1] = result /\ \A k \in 1 .. n : results'[k] = results[k]
  BY <1>1, <1>2, ListAppend
<1>4. n = 0 <=> results = <<>>
  <2>1. results \in Seq({results[i] : i \in 1 .. n})
    BY <1>1, <1>2, ListIsSeq
  <2> QED BY <1>2, <2>1
<1>5. results' # <<>>
  BY <1>2, <1>3
<1>6. n # 0 => 1 \in 1 .. n
  OBVIOUS
<1> QED BY <1>3, <1>4, <1>5, <1>6 DEF Return

LEMMA ResolveDelivers ==
  ASSUME FactsGiven, Returned, ResolverInv, Resolve
  PROVE  ResolverInv'
<1>1. stage \in Resolving
  BY DEF Resolving, Resolve, Register, RejectRoots, SelectRoots, RejectRequirement, SelectProvider,
         Panic, RejectUndeclared, RegisterRoots, BuildActions, Close
<1>2. ASSUME NEW result, Return(result),
             results = <<>> /\ result.verdict = "accepted" => Delivered(input, result.obligations)
      PROVE  ResolverInv'
  <2>1. /\ results' # <<>> /\ input' = input
        /\ results = <<>> => results'[1] = result
        /\ results # <<>> => results'[1] = results[1]
    BY <1>2, FirstResult
  <2>2. results'[1].verdict = "accepted" => Delivered(input', results'[1].obligations)
    BY <1>2, <2>1 DEF ResolverInv
  <2> QED BY <2>1, <2>2 DEF ResolverInv
<1>3. ASSUME NEW reason, Reject(reason), reason # "accepted" PROVE ResolverInv'
  <2>1. PICK result : result = Result(reason, <<>>, <<>>, {})
    OBVIOUS
  <2>2. Return(result) /\ result.verdict = reason
    BY <1>3, <2>1 DEF Reject, Result
  <2> QED BY <1>2, <1>3, <2>2
<1>4. ASSUME NEW to \in Resolving \cup {"panicked"}, Goto(to), results = <<>> /\ to # "panicked" => StageInv'
      PROVE  ResolverInv'
  <2>1. stage' = to /\ results' = results /\ input' = input
    BY <1>4 DEF Goto
  <2>2. results' # <<>> /\ results'[1].verdict = "accepted" => Delivered(input', results'[1].obligations)
    BY <2>1 DEF ResolverInv
  <2>3. results' = <<>> /\ stage' \in Resolving => StageInv'
    BY <1>4, <2>1 DEF Resolving
  <2> QED BY <2>2, <2>3 DEF ResolverInv
<1>5. results = <<>> => StageInv /\ Facts(given)
  BY <1>1 DEF ResolverInv, FactsGiven
<1>6. CASE Register
  <2>1. stage = "register" /\ Goto("roots") /\ next' = next
    BY <1>6 DEF Register
  <2>2. ASSUME results = <<>> PROVE StageInv'
    <3>1. Unchosen(obligations')
      BY <1>5, <1>6, <2>2, RegisteredIsUnchosen
    <3>2. given' = input' /\ next' = 1 /\ stage' = "roots"
      BY <1>5, <2>1, <2>2 DEF StageInv, Goto
    <3> QED BY <3>1, <3>2 DEF StageInv
  <2> QED BY <1>4, <2>1, <2>2 DEF Resolving
<1>7. CASE SelectRoots
  <2>1. stage = "roots" /\ Goto("requirements") /\ next' = next
    BY <1>7 DEF SelectRoots
  <2>2. ASSUME results = <<>> PROVE StageInv'
    <3>1. Sound(given, obligations') /\ AllBound(given, obligations', {})
      BY <1>5, <1>7, <2>1, <2>2, RootsAreSound DEF StageInv
    <3>2. given' = input' /\ given' = given /\ next' = 1 /\ stage' = "requirements"
      BY <1>5, <2>1, <2>2 DEF StageInv, Goto
    <3>3. Served' = {}
      BY <3>2 DEF Served
    <3> QED BY <3>1, <3>2, <3>3 DEF StageInv
  <2> QED BY <1>4, <2>1, <2>2 DEF Resolving
<1>8. CASE SelectProvider
  <2>1. stage = "requirements" /\ Goto("requirements") /\ next' = next + 1
    BY <1>8 DEF SelectProvider
  <2>2. ASSUME results = <<>> PROVE StageInv'
    <3>1. /\ Sound(given, obligations')
          /\ AllBound(given, obligations', {given.requirements[i] : i \in 1 .. (next + 1) - 1})
      BY <1>5, <1>8, <2>1, <2>2, ProviderKeepsSound DEF StageInv
    <3>2. given' = input' /\ given' = given /\ next' \in Nat \ {0} /\ stage' = "requirements"
      BY <1>5, <2>1, <2>2 DEF StageInv, Goto
    <3>3. Served' = {given.requirements[i] : i \in 1 .. (next + 1) - 1}
      BY <2>1, <3>2 DEF Served
    <3> QED BY <3>1, <3>2, <3>3 DEF StageInv
  <2> QED BY <1>4, <2>1, <2>2 DEF Resolving
<1>9. CASE RegisterRoots
  <2>1. /\ stage = "requirements" /\ Goto("actions") /\ next' = next
        /\ next > Len(given.requirements)
    BY <1>9 DEF RegisterRoots
  <2>2. ASSUME results = <<>> PROVE StageInv'
    <3>1. Supplied(given, obligations)
      <4>1. Elements(given.requirements) \subseteq Served
        BY <1>5, <2>1, <2>2, AllAreServed DEF StageInv
      <4> QED BY <1>5, <2>1, <2>2, <4>1 DEF StageInv, Supplied, AllBound
    <3>2. Supplied(given, obligations')
      BY <1>5, <1>9, <2>2, <3>1, RootArtifactsAreQuiet
    <3>3. given' = input' /\ given' = given /\ next' \in Nat \ {0} /\ stage' = "actions"
      BY <1>5, <2>1, <2>2 DEF StageInv, Goto
    <3> QED BY <3>2, <3>3 DEF StageInv
  <2> QED BY <1>4, <2>1, <2>2 DEF Resolving
<1>10. CASE BuildActions
  <2>1. /\ stage = "actions" /\ Goto("closing") /\ next' = next
        /\ obligations' = Assigned(obligations, actions')
    BY <1>10 DEF BuildActions
  <2>2. ASSUME results = <<>> PROVE StageInv'
    <3>1. Supplied(given, obligations)
      BY <1>5, <2>1, <2>2 DEF StageInv
    <3>2. PICK facts, os, as : facts = given /\ os = obligations /\ as = actions'
      OBVIOUS
    <3>3. Supplied(facts, Assigned(os, as))
      BY <3>1, <3>2, AssignedIsQuiet
    <3>4. given' = input' /\ given' = given /\ next' \in Nat \ {0} /\ stage' = "closing"
      BY <1>5, <2>1, <2>2 DEF StageInv, Goto
    <3> QED BY <2>1, <3>2, <3>3, <3>4 DEF StageInv
  <2> QED BY <1>4, <2>1, <2>2 DEF Resolving
<1>11. CASE Close
  <2>1. PICK exe, os, as, v : /\ stage = "closing" /\ os = Closing(obligations, exe)
                              /\ Return(Result("accepted", os, as, v))
    BY <1>11 DEF Close
  <2>2. PICK result : result = Result("accepted", os, as, v)
    OBVIOUS
  <2>3. Return(result) /\ result.obligations = os
    BY <2>1, <2>2 DEF Result
  <2>4. ASSUME results = <<>> PROVE Delivered(input, os)
    <3>1. Supplied(input, obligations)
      BY <1>5, <2>1, <2>4 DEF StageInv
    <3> QED BY <2>1, <3>1, ClosingDelivers
  <2> QED BY <1>2, <2>3, <2>4
<1>12. CASE Panic
  BY <1>4, <1>12 DEF Panic
<1>13. CASE RejectRoots \/ RejectRequirement \/ RejectUndeclared
  <2>1. PICK reason : Reject(reason) /\ reason # "accepted"
    BY <1>13 DEF RejectRoots, RejectRequirement, RejectUndeclared, Refusals
  <2> QED BY <1>3, <2>1
<1> QED BY <1>6, <1>7, <1>8, <1>9, <1>10, <1>11, <1>12, <1>13 DEF Resolve

-----------------------------------------------------------------------------
(* What the gate lets through *)

(* The instance's Cardinality is the same.                                 *)
LEMMA OneCardinality ==
  ASSUME NEW S
  PROVE  Lifecycle!Cardinality(S) = Cardinality(S)
  BY Zenon DEF Lifecycle!Cardinality, Cardinality

(* What the demand reaches is the least set that is closed under the edges *)
(* of the graph.                                                           *)
Demands   == {o \in Obs : closure.kind[o] = "NativeExecutableDemand"}
Edges(r)  == \A o \in Obs : r[o] = closure.depends[o] \cap Obs

LEMMA ReachableIsLeast ==
  ASSUME IsFiniteSet(Obs), NEW demand \in Obs, closure.kind[demand] = "NativeExecutableDemand"
  PROVE  \E r : Edges(r) /\ LeastClosed(Lifecycle!Reachable, Obs, Demands, r)
<1> DEFINE Waits(o) == closure.depends[o] \cap Obs
           start == {o \in Obs : closure.kind[o] = "NativeExecutableDemand"}
           D == Obs \ start
           s == [o \in Obs |-> Waits(o)]
           Body(f) == [n \in Nat |-> IF n = 0 THEN start ELSE UNION {{o} \cup Waits(o) : o \in f[n-1]}]
           from == CHOOSE f : f = Body(f)
           k == Cardinality(Obs)
<1>1. start \in SUBSET Obs /\ \A o \in Obs : s[o] = Waits(o) /\ s[o] \subseteq Obs
  OBVIOUS
<1>2. Lifecycle!Reachable = from[k]
  <2>1. Lifecycle!Reachable = from[Lifecycle!Cardinality(Obs)]
    BY DEF Lifecycle!Reachable, Lifecycle!Closure, Obs
  <2> HIDE DEF from
  <2> QED BY <2>1, OneCardinality
<1>3. from = Body(from)
  <2>1. PICK f : /\ f = [n \in Nat |-> f[n]]
                 /\ Spreads(f, start, s)
                 /\ \A n \in Nat : f[n] \subseteq Obs
    <3> HIDE DEF start, s
    <3> QED BY <1>1, SpreadExists
  <2>2. ASSUME NEW n \in Nat PROVE f[n] = Body(f)[n]
    <3>1. CASE n = 0
      <4> HIDE DEF start, Waits
      <4> QED BY <2>1, <3>1 DEF Spreads
    <3>2. CASE n # 0
      <4>1. n - 1 \in Nat /\ (n - 1) + 1 = n
        BY <3>2
      <4> HIDE DEF start, s, Waits
      <4>2. f[n] = UNION {{o} \cup s[o] : o \in f[n-1]}
        BY <2>1, <4>1 DEF Spreads
      <4>3. \A o \in f[n-1] : s[o] = Waits(o)
        BY <1>1, <2>1, <4>1
      <4> QED BY <3>2, <4>2, <4>3
    <3> QED BY <3>1, <3>2
  <2>3. f = Body(f)
    <3> HIDE DEF Waits, start
    <3>1. Body(f) = [n \in Nat |-> Body(f)[n]]
      OBVIOUS
    <3> HIDE DEF Body
    <3> QED BY <2>1, <2>2, <3>1
  <2> HIDE DEF Body
  <2> QED BY <2>3
<1>4. \E r : (\A o \in Obs : r[o] = Waits(o)) /\ LeastClosed(from[k], Obs, start, r)
  <2> DEFINE V == Obs \cup UNION {from[n] : n \in Nat}
             r == [o \in V |-> Waits(o)]
  <2>1. \A o \in V : r[o] = Waits(o) /\ r[o] \subseteq Obs
    OBVIOUS
  <2>2. Spreads(from, start, r)
    <3>1. from[0] = start /\ \A n \in Nat : from[n + 1] = UNION {{o} \cup Waits(o) : o \in from[n]}
      <4> HIDE DEF from, Waits, start
      <4>1. \A n \in Nat : from[n] = IF n = 0 THEN start ELSE UNION {{o} \cup Waits(o) : o \in from[n-1]}
        BY <1>3
      <4>2. \A n \in Nat : n + 1 \in Nat /\ n + 1 # 0 /\ (n + 1) - 1 = n
        OBVIOUS
      <4> QED BY <4>1, <4>2
    <3>2. \A n \in Nat : \A o \in from[n] : r[o] = Waits(o)
      <4> HIDE DEF from, Waits
      <4> QED OBVIOUS
    <3> HIDE DEF from, Waits, r, start
    <3> QED BY <3>1, <3>2 DEF Spreads
  <2>3. \A o \in Obs : r[o] = Waits(o) /\ r[o] \subseteq Obs
    <3> HIDE DEF r, Waits, from
    <3> QED BY <2>1
  <2>4. IsFiniteSet(D) /\ k \in Nat /\ Cardinality(D) < k
    <3>1. D \subseteq Obs \ {demand} /\ IsFiniteSet(Obs \ {demand})
      BY FS_RemoveElement
    <3>2. Cardinality(Obs \ {demand}) = k - 1 /\ k \in Nat
      BY FS_RemoveElement, FS_CardinalityType
    <3> HIDE DEF D, k
    <3>3. IsFiniteSet(D) /\ Cardinality(D) <= Cardinality(Obs \ {demand}) /\ Cardinality(D) \in Nat
      BY <3>1, FS_Subset, FS_CardinalityType
    <3> QED BY <3>2, <3>3
  <2>5. \A o \in Obs \ (D \cup start) : r[o] = {}
    OBVIOUS
  <2> HIDE DEF r, D, from, k, Waits, start
  <2>6. Confined(Obs, start, r, D)
    BY <1>1, <2>3, <2>4, <2>5 DEF Confined
  <2>7. LeastClosed(from[k], Obs, start, r)
    BY <2>2, <2>4, <2>6, SpreadSettles
  <2> QED BY <2>3, <2>7
<1> HIDE DEF from, k
<1> QED BY <1>2, <1>4 DEF Demands, Edges

LEMMA ReachableIsClosed ==
  ASSUME IsFiniteSet(Obs), NEW demand \in Obs, closure.kind[demand] = "NativeExecutableDemand"
  PROVE  /\ demand \in Lifecycle!Reachable /\ Lifecycle!Reachable \subseteq Obs
         /\ \A o \in Lifecycle!Reachable : closure.depends[o] \cap Obs \subseteq Lifecycle!Reachable
<1>1. PICK r : Edges(r) /\ LeastClosed(Lifecycle!Reachable, Obs, Demands, r)
  BY ReachableIsLeast
<1>2. demand \in Demands
  BY DEF Demands
<1> QED BY <1>1, <1>2 DEF LeastClosed, Edges

LEMMA GraphFields ==
  ASSUME NEW os, NEW as, NEW g, g = Graph(os, as)
  PROVE  /\ DOMAIN g.kind = DOMAIN os
         /\ \A id \in DOMAIN os : /\ g.kind[id] = KindOf(id) /\ g.depends[id] = os[id].dependsOn
                                  /\ g.status[id] = os[id].state
<1>1. /\ g.kind = [id \in DOMAIN os |-> KindOf(id)]
      /\ g.depends = [id \in DOMAIN os |-> os[id].dependsOn]
      /\ g.status = [id \in DOMAIN os |-> os[id].state]
  BY DEF Graph
<1> QED BY <1>1

(* The graph that is recorded is the one resolve returned.                 *)
GraphInv ==
  stage \in {"resolution", "operations", "failed", "published", "blocked"} =>
    /\ results # <<>> /\ results[1].verdict = "accepted"
    /\ closure = Graph(results[1].obligations, results[1].actions)

(* The demand reaches every symbol, behind it the candidate it waits for;  *)
(* where the gate opens that one is closed, so it was never rejected.      *)
LEMMA GateMeets ==
  ASSUME LifecycleInv, ResolverInv, GraphInv, stage = "operations", Lifecycle!Publishable(<<"link">>)
  PROVE  /\ Met(input, results[1])
         /\ \A c, d \in Elements(input.candidates) :
              Chose(results[1], c) /\ Chose(results[1], d) /\ c.package = d.package => c.version = d.version
<1>1. PICK os, as, facts : /\ os = results[1].obligations /\ as = results[1].actions /\ facts = input
                           /\ closure = Graph(os, as)
  BY DEF GraphInv
<1>2. Sound(facts, os) /\ AllBound(facts, os, Elements(facts.requirements)) /\ Chained(os)
  BY <1>1 DEF GraphInv, ResolverInv, Delivered, Supplied
<1>3. /\ DOMAIN closure.kind = DOMAIN os
      /\ \A id \in DOMAIN os : /\ closure.kind[id] = KindOf(id) /\ closure.depends[id] = os[id].dependsOn
                               /\ closure.status[id] = os[id].state
  <2>1. PICK g : g = Graph(os, as)
    OBVIOUS
  <2> QED BY <1>1, <2>1, GraphFields
<1>4. Obs = DOMAIN os
  BY <1>3 DEF Obs, Lifecycle!Obligations
<1>5. \A c : Chose(results[1], c) <=> Picked(os, c)
  BY <1>1 DEF Chose, Picked
<1>6. PICK exe :
        /\ {Demand, Provenance, Runtime, Artifact(exe), FinalLink} \subseteq DOMAIN os
        /\ Provenance \in os[Demand].dependsOn /\ Runtime \in os[Provenance].dependsOn
        /\ Artifact(exe) \in os[Runtime].dependsOn /\ FinalLink \in os[Artifact(exe)].dependsOn
        /\ Of(os, "Symbol") \subseteq os[FinalLink].dependsOn
  BY <1>2 DEF Chained
<1>7. /\ Demand \in Lifecycle!Reachable
      /\ \A o \in Lifecycle!Reachable : closure.depends[o] \cap Obs \subseteq Lifecycle!Reachable
  <2>1. IsFiniteSet(Obs)
    BY <1>2, <1>4 DEF Sound, Mapped
  <2>2. Demand \in Obs /\ closure.kind[Demand] = "NativeExecutableDemand"
    BY <1>3, <1>4, <1>6, KindsOfIds
  <2> QED BY <2>1, <2>2, ReachableIsClosed
<1>8. ASSUME NEW o \in DOMAIN os, NEW p \in DOMAIN os, o \in Lifecycle!Reachable, p \in os[o].dependsOn
      PROVE  p \in Lifecycle!Reachable
  BY <1>3, <1>4, <1>7, <1>8
<1>9. FinalLink \in Lifecycle!Reachable
  BY <1>6, <1>7, <1>8
<1>10. ASSUME NEW id \in DOMAIN os, id \in Lifecycle!Reachable PROVE os[id].state # "Rejected"
  <2>1. status[id] \in Lifecycle!Closed
    BY <1>4, <1>10 DEF Lifecycle!Publishable, Obs
  <2>2. status[id] # "Rejected"
    BY <2>1 DEF Lifecycle!Closed
  <2> QED BY <1>3, <1>4, <2>2 DEF LifecycleInv, RejectedStays
<1>11. ASSUME NEW r \in Elements(facts.requirements), Alone(facts, r)
       PROVE  \E c \in Matchers(facts, r) : Picked(os, c)
  <2>1. PICK c \in Matchers(facts, r) :
          /\ {Symbol(r), Abi(r), Selection(c)} \subseteq DOMAIN os
          /\ Abi(r) \in os[Symbol(r)].dependsOn /\ Selection(c) \in os[Abi(r)].dependsOn
    BY <1>2, <1>11 DEF AllBound, Bound
  <2>2. Symbol(r) \in os[FinalLink].dependsOn
    BY <1>6, <2>1, KindsOfIds DEF Of
  <2>3. Symbol(r) \in Lifecycle!Reachable
    BY <1>6, <1>8, <1>9, <2>1, <2>2
  <2>4. Selection(c) \in Lifecycle!Reachable
    BY <1>8, <2>1, <2>3
  <2>5. os[Selection(c)].state # "Rejected"
    BY <1>10, <2>1, <2>4
  <2>6. os[Selection(c)].state = "Selected"
    BY <1>2, <2>1, <2>5, KindsOfIds DEF Sound
  <2> QED BY <2>1, <2>6 DEF Picked
<1>12. Met(input, results[1])
  BY <1>1, <1>5, <1>11 DEF Met
<1>13. \A c, d \in Elements(input.candidates) :
         Chose(results[1], c) /\ Chose(results[1], d) /\ c.package = d.package => c.version = d.version
  BY <1>1, <1>2, <1>5 DEF Sound
<1> QED BY <1>12, <1>13

ReadInv == stage \in Reading => results = <<>> /\ (stage = "facts" => next = 1)

DeliveryInv == ReadInv /\ ResolverInv /\ GraphInv /\ PublishedMeetsRequirements

LEMMA DeliveryInit ==
  ASSUME ProductionInit
  PROVE  DeliveryInv
<1>1. results = <<>> /\ stage \notin {"resolution", "operations", "failed", "published", "blocked"}
  BY DEF ProductionInit, DriverInit, CallerInit, Init, IngestInit
<1>2. stage \in Resolving \cup {"facts"} => stage = "register" /\ given = input /\ next = 1
  BY DEF ProductionInit, DriverInit, CallerInit, Init, IngestInit, Resolving
<1>3. ReadInv /\ ResolverInv
  BY <1>1, <1>2 DEF ReadInv, ResolverInv, StageInv, Resolving
<1> QED BY <1>1, <1>3 DEF DeliveryInv, GraphInv, PublishedMeetsRequirements

(* A step of the driver.                                                   *)
LEMMA DrivingDelivers ==
  ASSUME RecordsInv, DeliveryInv, Production
  PROVE  DeliveryInv'
<1>1. /\ results' = results /\ input' = input
      /\ stage' \in {"resolution", "operations", "failed", "published", "blocked"}
  BY DEF Production, NewGraph, RecordDecisions, RecordAction, RefuseAction, Gate, StageTo
<1>2. ReadInv' /\ ResolverInv'
  BY <1>1 DEF DeliveryInv, ReadInv, ResolverInv, Reading, Resolving
<1>3. CASE NewGraph
  <2>1. stage' = "resolution" /\ results # <<>> /\ results[1].verdict = "accepted"
    BY <1>3 DEF NewGraph, RecordsInv, DriverInv, Returned
  <2>2. closure' = Graph(results[1].obligations, results[1].actions)
    BY <1>3 DEF NewGraph
  <2>3. GraphInv'
    BY <1>1, <2>1, <2>2 DEF GraphInv
  <2>4. PublishedMeetsRequirements'
    BY <2>1 DEF PublishedMeetsRequirements
  <2> QED BY <1>2, <2>3, <2>4 DEF DeliveryInv
<1>4. ASSUME closure' = closure, stage \in {"resolution", "operations"} PROVE GraphInv'
  BY <1>1, <1>4 DEF DeliveryInv, GraphInv
<1>5. CASE RecordDecisions
  <2>1. PICK list : \/ Lifecycle!RecordResolution(list, 1) /\ StageTo("operations")
                    \/ StageTo("failed") /\ UNCHANGED productionVars
    BY <1>5 DEF RecordDecisions
  <2>2. closure' = closure
    BY <2>1, ResolutionIsLawful DEF RecordsInv, Lawful, productionVars
  <2>3. stage = "resolution" /\ stage' # "published"
    BY <1>5, <2>1 DEF RecordDecisions, StageTo
  <2> QED BY <1>2, <1>4, <2>2, <2>3 DEF DeliveryInv, PublishedMeetsRequirements
<1>6. CASE RecordAction
  <2>1. closure' = closure
    BY <1>6, RecordActionIsLawful DEF Lawful
  <2>2. stage = "operations" /\ stage' # "published"
    BY <1>6 DEF RecordAction, StageTo
  <2> QED BY <1>2, <1>4, <2>1, <2>2 DEF DeliveryInv, PublishedMeetsRequirements
<1>7. CASE RefuseAction \/ Gate
  <2>1. stage = "operations" /\ closure' = closure
    BY <1>7 DEF RefuseAction, Gate, productionVars
  <2>2. stage' = "published" => Lifecycle!Publishable(<<"link">>)
    BY <1>7 DEF RefuseAction, Gate, StageTo
  <2>3. ASSUME stage' = "published" PROVE PublishedMeetsRequirements'
    <3>1. /\ Met(input, results[1])
          /\ \A c, d \in Elements(input.candidates) :
               Chose(results[1], c) /\ Chose(results[1], d) /\ c.package = d.package => c.version = d.version
      BY <2>1, <2>2, <2>3, GateMeets DEF DeliveryInv, RecordsInv
    <3> QED BY <1>1, <3>1 DEF PublishedMeetsRequirements
  <2>4. PublishedMeetsRequirements'
    BY <2>3 DEF PublishedMeetsRequirements
  <2> QED BY <1>2, <1>4, <2>1, <2>4 DEF DeliveryInv
<1> QED BY <1>3, <1>5, <1>6, <1>7 DEF Production

LEMMA DeliveryKept ==
  ASSUME Inv, DeliveryInv, [ProductionNext]_allVars
  PROVE  DeliveryInv'
<1>1. CASE Ingest
  <2>1. /\ stage \in Reading /\ results' = results /\ stage' \in Reading \cup {"refused", "register"}
        /\ stage' = "facts" => next' = 1
    BY <1>1 DEF Ingest, ReadTriple, ReadCargo, ReadNimble, ReadMain, ReadExports, ReadCadd, ReadCppmax,
                Refuse, HandOver, Found, Reading
  <2>2. ReadInv' /\ GraphInv' /\ PublishedMeetsRequirements'
    BY <2>1 DEF DeliveryInv, ReadInv, GraphInv, PublishedMeetsRequirements, Reading
  <2>3. stage' = "register" => given' = input' /\ next' = 1
    <3>1. CASE HandOver
      BY <3>1 DEF HandOver, DeliveryInv, ReadInv, Reading
    <3>2. ASSUME stage' = "register" PROVE HandOver
      BY <1>1, <3>2 DEF Ingest, ReadTriple, ReadCargo, ReadNimble, ReadMain, ReadExports, ReadCadd, ReadCppmax,
                        Refuse, Found
    <3> QED BY <3>1, <3>2
  <2>4. ResolverInv'
    BY <2>1, <2>3 DEF DeliveryInv, ReadInv, ResolverInv, StageInv, Resolving, Reading
  <2> QED BY <2>2, <2>4 DEF DeliveryInv
<1>2. CASE Resolve
  <2>1. ResolverInv'
    BY <1>2, ResolveDelivers DEF Inv, RecordsInv, DriverInv, DeliveryInv
  <2>2. stage' \in Resolving \cup {"panicked", "resolved"}
    BY <1>2 DEF Resolving, Resolve, Register, RejectRoots, SelectRoots, RejectRequirement, SelectProvider,
                Panic, RejectUndeclared, RegisterRoots, BuildActions, Close, Goto, Reject, Return
  <2>3. ReadInv' /\ GraphInv' /\ PublishedMeetsRequirements'
    BY <2>2 DEF ReadInv, GraphInv, PublishedMeetsRequirements, Reading, Resolving
  <2> QED BY <2>1, <2>3 DEF DeliveryInv
<1>3. CASE Production
  BY <1>3, DrivingDelivers DEF Inv
<1>4. CASE AnyRecord
  <2>1. stage' = "any order" /\ results' = results /\ input' = input
    BY <1>4 DEF AnyRecord, vars
  <2> QED BY <2>1 DEF DeliveryInv, ReadInv, ResolverInv, GraphInv, PublishedMeetsRequirements, Reading, Resolving
<1>5. CASE UNCHANGED allVars
  <2>1. /\ stage' = stage /\ results' = results /\ input' = input /\ given' = given /\ next' = next
        /\ obligations' = obligations /\ closure' = closure
    BY <1>5 DEF allVars, vars, productionVars
  <2>2. ReadInv' /\ GraphInv' /\ PublishedMeetsRequirements'
    BY <2>1 DEF DeliveryInv, ReadInv, GraphInv, PublishedMeetsRequirements
  <2>3. ResolverInv'
    BY <2>1 DEF DeliveryInv, ResolverInv, StageInv, Served
  <2> QED BY <2>2, <2>3 DEF DeliveryInv
<1> QED BY <1>1, <1>2, <1>3, <1>4, <1>5 DEF ProductionNext

(* The features found are those of a plain build, and what its blocks name *)
(* is required of the facts.                                               *)
LEMMA DeclarationsMet ==
  ASSUME FilesInv, PublishedMeetsRequirements
  PROVE  PublishedMeetsDeclarations
<1> SUFFICES ASSUME stage = "published", workspace # None, NEW i \in Asked,
                    NEW b \in Elements(workspace.main),
                    Active(b, BuiltWith(workspace.packages[i].features), workspace.unix),
                    NEW f \in Elements(b.functions), Alone(input, RequirementOf(b, f))
             PROVE  \E c \in Matchers(input, RequirementOf(b, f)) : Chose(results[1], c)
  BY DEF PublishedMeetsDeclarations
<1>1. PICK w, features : w = workspace /\ features = w.packages[i].features
  OBVIOUS
<1>2. w \in Workspaces
  BY <1>1 DEF FilesInv, FilesGiven
<1>3. /\ w.packages # None /\ w.main # None /\ features # None
      /\ input.requirements = Required(w.main, Activated(features), w.unix)
  BY <1>1 DEF FilesInv, RequiredGiven, Reading, Plain, MainUsable
<1>4. IsFiniteSet(DOMAIN features)
  <2>1. w.packages[i] \in Elements(w.packages)
    BY <1>1 DEF Asked, Elements
  <2> QED BY <1>1, <1>2, <1>3, <2>1, WorkspacesAssumption
<1>5. Activated(features) = BuiltWith(features)
  BY <1>4, ActivatedIsBuilt
<1>6. RequirementOf(b, f) \in Elements(Required(w.main, BuiltWith(features), w.unix))
  BY <1>1, <1>2, <1>3, RequiredHolds
<1>7. RequirementOf(b, f) \in Elements(input.requirements)
  BY <1>3, <1>5, <1>6
<1> QED BY <1>7 DEF PublishedMeetsRequirements, Met

(* Nothing is published on a promise, whoever records, in whatever order:  *)
(* behind a published artifact there is a recorded cause for every         *)
(* obligation that the demand reaches, and after a record that failed      *)
(* half-way nothing is published from the graph any more.                  *)
THEOREM GateIsHonestHolds == ProductionSpec => GateIsHonest
<1>1. ProductionInit => Inv
  BY InitInv
<1>2. Inv /\ [ProductionNext]_allVars => Inv' /\ [Lifecycle!HonestStep]_productionVars
  BY StepKeeps DEF Honest
<1> QED BY <1>1, <1>2, PTL DEF ProductionSpec, GateIsHonest

(* What is published was linked from one version of each provider, and     *)
(* from one that declares what is required of it by a symbol that only one *)
(* requirement names; so it has a linked package behind every foreign      *)
(* function that a plain build of the workspace compiles.  Whatever the    *)
(* facts and the files are.                                                *)
THEOREM PublishedMeetsSourcesHolds == ProductionSpec => []PublishedMeetsSources
<1>1. ProductionInit => Inv /\ DeliveryInv
  BY InitInv, DeliveryInit
<1>2. Inv /\ DeliveryInv /\ [ProductionNext]_allVars => Inv' /\ DeliveryInv'
  BY StepKeeps, DeliveryKept
<1>3. Inv /\ DeliveryInv => PublishedMeetsSources
  BY DeclarationsMet DEF Inv, DeliveryInv, PublishedMeetsSources
<1> QED BY <1>1, <1>2, <1>3, PTL DEF ProductionSpec

-----------------------------------------------------------------------------
(* Lists of which some elements are left out *)

Thin(s, K) == Filtered(s, LAMBDA x : x \in K)

(* t is s without what is not in K; e says where its elements were.        *)
Places(e, t, s) ==
  /\ \A x \in 1 .. Len(t) : e[x] \in 1 .. Len(s) /\ t[x] = s[e[x]]
  /\ \A x, y \in 1 .. Len(t) : x < y => e[x] < e[y]

Thinned(e, t, s, K) ==
  /\ IsList(t) /\ Places(e, t, s)
  /\ \A m \in 1 .. Len(s) : s[m] \in K <=> \E x \in 1 .. Len(t) : e[x] = m

ThinStep(l, K, x) == IF x \in K THEN Append(l, x) ELSE l

LEMMA ThinUnfolds ==
  ASSUME NEW s, IsList(s), NEW K
  PROVE  \E f : /\ Thin(s, K) = f[Len(s)] /\ f[0] = <<>>
                /\ \A n \in 1 .. Len(s) : f[n] = ThinStep(f[n-1], K, s[n])
<1>1. PICK len \in Nat : len = Len(s)
  BY DEF IsList
<1> DEFINE Step(l, i) == IF s[i] \in K THEN Append(l, s[i]) ELSE l
           Body(h) == [n \in 0 .. len |-> IF n = 0 THEN <<>> ELSE Step(h[n-1], n)]
           Solved(f, m) == /\ f = [i \in 0 .. m |-> f[i]] /\ f[0] = <<>>
                           /\ \A i \in 1 .. m : f[i] = Step(f[i-1], i)
           S == {m \in 0 .. len : \E f : Solved(f, m)}
           upTo == CHOOSE h : h = Body(h)
<1>2. 0 \in S
  <2> DEFINE g == [i \in 0 .. 0 |-> <<>>]
  <2>1. Solved(g, 0)
    OBVIOUS
  <2> HIDE DEF g, Solved
  <2> QED BY <2>1
<1>3. ASSUME NEW m \in 1 .. len, m - 1 \in S PROVE m \in S
  <2>1. PICK f : Solved(f, m - 1)
    BY <1>3
  <2> DEFINE g == [i \in 0 .. m |-> IF i = m THEN Step(f[m-1], m) ELSE f[i]]
  <2> HIDE DEF Step
  <2>2. g[0] = <<>> /\ g = [i \in 0 .. m |-> g[i]]
    BY <2>1
  <2>3. ASSUME NEW i \in 1 .. m PROVE g[i] = Step(g[i-1], i)
    <3>1. i - 1 \in 0 .. m - 1 /\ i \in 0 .. m /\ i - 1 \in 0 .. m /\ i - 1 # m
      OBVIOUS
    <3>2. g[i-1] = f[i-1]
      BY <3>1
    <3>3. CASE i = m
      BY <3>1, <3>2, <3>3
    <3>4. CASE i # m
      <4>1. i \in 1 .. m - 1 /\ g[i] = f[i]
        BY <3>4
      <4> QED BY <2>1, <3>2, <4>1
    <3> QED BY <3>3, <3>4
  <2> HIDE DEF g
  <2>4. Solved(g, m)
    BY <2>2, <2>3
  <2> HIDE DEF Solved
  <2> QED BY <2>4
<1>4. len \in S
  <2> HIDE DEF S
  <2>1. 0 .. len \subseteq S
    BY <1>2, <1>3, UpToInduction
  <2> QED BY <2>1
<1>5. upTo = Body(upTo)
  <2>1. PICK f : Solved(f, len)
    BY <1>4
  <2> HIDE DEF Step
  <2>2. f = Body(f)
    BY <2>1
  <2> HIDE DEF Body
  <2> QED BY <2>2
<1>6. Thin(s, K) = upTo[len]
  BY <1>1 DEF Thin, Filtered
<1>7. upTo[0] = <<>> /\ \A n \in 1 .. len : upTo[n] = Step(upTo[n-1], n)
  <2>1. ASSUME NEW h PROVE Body(h)[0] = <<>> /\ \A n \in 1 .. len : Body(h)[n] = Step(h[n-1], n)
    OBVIOUS
  <2> HIDE DEF Body, upTo, Step
  <2> QED BY <1>5, <2>1
<1> HIDE DEF upTo
<1> QED BY <1>1, <1>6, <1>7 DEF ThinStep

LEMMA ThinPlaces ==
  ASSUME NEW s, IsList(s), NEW K
  PROVE  \E e : Thinned(e, Thin(s, K), s, K)
<1>1. PICK len \in Nat : len = Len(s)
  BY DEF IsList
<1>2. PICK f : /\ Thin(s, K) = f[Len(s)] /\ f[0] = <<>>
               /\ \A n \in 1 .. Len(s) : f[n] = ThinStep(f[n-1], K, s[n])
  BY ThinUnfolds
<1> DEFINE Known(n, e, t) == 
             /\ IsList(t)
             /\ \A x \in 1 .. Len(t) : e[x] \in 1 .. n /\ t[x] = s[e[x]]
             /\ \A x, y \in 1 .. Len(t) : x < y => e[x] < e[y]
             /\ \A m \in 1 .. n : s[m] \in K <=> \E x \in 1 .. Len(t) : e[x] = m
           S == {n \in 0 .. len : \E e : Known(n, e, f[n])}
<1>3. 0 \in S
  <2>1. \A e : Known(0, e, <<>>)
    BY EmptyList
  <2> HIDE DEF Known
  <2> QED BY <1>2, <2>1
<1>4. ASSUME NEW n \in 1 .. len, n - 1 \in S PROVE n \in S
  <2>1. PICK e : Known(n - 1, e, f[n-1])
    BY <1>4
  <2>2. PICK t : t = f[n-1]
    OBVIOUS
  <2>3. PICK k \in Nat : k = Len(t)
    BY <2>1, <2>2 DEF IsList
  <2>4. \A x \in 1 .. k : e[x] \in 1 .. n - 1 /\ e[x] \in 1 .. n /\ t[x] = s[e[x]]
    BY <2>1, <2>2, <2>3
  <2>5. \A x, y \in 1 .. k : x < y => e[x] < e[y]
    BY <2>1, <2>2, <2>3
  <2>6. \A m \in 1 .. n - 1 : s[m] \in K <=> \E x \in 1 .. k : e[x] = m
    BY <2>1, <2>2, <2>3
  <2>7. IsList(t)
    BY <2>1, <2>2
  <2>8. CASE s[n] \in K
    <3> DEFINE d == [x \in 1 .. k + 1 |-> IF x = k + 1 THEN n ELSE e[x]]
               u == Append(t, s[n])
    <3>1. /\ IsList(u) /\ Len(u) = k + 1 /\ u[k + 1] = s[n]
          /\ \A i \in 1 .. k : u[i] = t[i]
      BY <2>3, <2>7, ListAppend
    <3>2. d[k + 1] = n /\ \A x \in 1 .. k : d[x] = e[x]
      OBVIOUS
    <3>3. f[n] = u
      BY <1>1, <1>2, <2>2, <2>8 DEF ThinStep
    <3> HIDE DEF d, u
    <3>4. \A x \in 1 .. k + 1 : x \in 1 .. k \/ x = k + 1
      OBVIOUS
    <3>5. \A x \in 1 .. k + 1 : d[x] \in 1 .. n /\ u[x] = s[d[x]]
      BY <2>4, <3>1, <3>2, <3>4
    <3>6. \A x, y \in 1 .. k + 1 : x < y => d[x] < d[y]
      <4>1. ASSUME NEW x \in 1 .. k + 1, NEW y \in 1 .. k + 1, x < y PROVE d[x] < d[y]
        <5>1. x \in 1 .. k /\ d[x] = e[x]
          BY <3>2, <4>1
        <5>2. CASE y = k + 1
          BY <2>4, <3>2, <5>1, <5>2
        <5>3. CASE y # k + 1
          BY <2>5, <3>2, <4>1, <5>1, <5>3
        <5> QED BY <5>2, <5>3
      <4> QED BY <4>1
    <3>7. \A m \in 1 .. n : s[m] \in K <=> \E x \in 1 .. k + 1 : d[x] = m
      <4>1. ASSUME NEW m \in 1 .. n PROVE s[m] \in K <=> \E x \in 1 .. k + 1 : d[x] = m
        <5>1. CASE m = n
          <6>1. k + 1 \in 1 .. k + 1
            OBVIOUS
          <6> QED BY <2>8, <3>2, <5>1, <6>1
        <5>2. CASE m # n
          <6>1. m \in 1 .. n - 1 /\ \A x \in 1 .. k : x \in 1 .. k + 1
            BY <5>2
          <6>2. \A x \in 1 .. k + 1 : d[x] = m => x \in 1 .. k /\ e[x] = m
            BY <3>2, <3>4, <5>2
          <6> QED BY <2>6, <3>2, <6>1, <6>2
        <5> QED BY <5>1, <5>2
      <4> QED BY <4>1
    <3>8. Known(n, d, u)
      BY <3>1, <3>5, <3>6, <3>7
    <3> HIDE DEF Known
    <3> QED BY <3>3, <3>8
  <2>9. CASE s[n] \notin K
    <3>1. f[n] = t
      BY <1>1, <1>2, <2>2, <2>9 DEF ThinStep
    <3>2. \A m \in 1 .. n : s[m] \in K <=> \E x \in 1 .. k : e[x] = m
      <4>1. ASSUME NEW m \in 1 .. n PROVE s[m] \in K <=> \E x \in 1 .. k : e[x] = m
        <5>1. CASE m = n
          BY <2>4, <2>9, <5>1
        <5>2. CASE m # n
          <6>1. m \in 1 .. n - 1
            BY <5>2
          <6> QED BY <2>6, <6>1
        <5> QED BY <5>1, <5>2
      <4> QED BY <4>1
    <3>3. Known(n, e, t)
      BY <2>3, <2>4, <2>5, <2>7, <3>2
    <3> HIDE DEF Known
    <3> QED BY <3>1, <3>3
  <2> QED BY <2>8, <2>9
<1>5. len \in S
  <2> HIDE DEF S
  <2>1. 0 .. len \subseteq S
    BY <1>3, <1>4, UpToInduction
  <2> QED BY <2>1
<1>6. PICK e : Known(len, e, f[len])
  BY <1>5
<1>7. PICK t : t = f[len]
  OBVIOUS
<1>8. Thin(s, K) = t
  BY <1>1, <1>2, <1>7
<1>9. Thinned(e, t, s, K)
  BY <1>1, <1>6, <1>7 DEF Thinned, Places
<1> QED BY <1>8, <1>9

LEMMA ThinNothing ==
  ASSUME NEW K
  PROVE  Thin(<<>>, K) = <<>>
<1>1. PICK f : Thin(<<>>, K) = f[Len(<<>>)] /\ f[0] = <<>>
  BY EmptyList, ThinUnfolds
<1> QED BY <1>1, EmptyList

LEMMA ThinAppend ==
  ASSUME NEW s, IsList(s), NEW K, NEW x
  PROVE  Thin(Append(s, x), K) = ThinStep(Thin(s, K), K, x)
<1>2. PICK len \in Nat : len = Len(s)
  BY DEF IsList
<1>3. PICK u : u = Append(s, x)
  OBVIOUS
<1>4. IsList(u) /\ Len(u) = len + 1 /\ u[len + 1] = x /\ \A i \in 1 .. len : u[i] = s[i]
  BY <1>2, <1>3, ListAppend
<1>5. PICK f : /\ Thin(s, K) = f[Len(s)] /\ f[0] = <<>>
               /\ \A n \in 1 .. Len(s) : f[n] = ThinStep(f[n-1], K, s[n])
  BY ThinUnfolds
<1>6. PICK h : /\ Thin(u, K) = h[Len(u)] /\ h[0] = <<>>
               /\ \A n \in 1 .. Len(u) : h[n] = ThinStep(h[n-1], K, u[n])
  <2>1. IsList(u)
    BY <1>4
  <2> QED BY <2>1, ThinUnfolds
<1> DEFINE S == {n \in 0 .. len : f[n] = h[n]}
<1>7. 0 \in S
  BY <1>5, <1>6
<1>8. ASSUME NEW n \in 1 .. len, n - 1 \in S PROVE n \in S
  <2>1. f[n-1] = h[n-1] /\ n \in 1 .. len + 1 /\ u[n] = s[n]
    BY <1>4, <1>8
  <2> HIDE DEF S
  <2>2. f[n] = ThinStep(f[n-1], K, s[n]) /\ h[n] = ThinStep(h[n-1], K, u[n])
    BY <1>2, <1>4, <1>5, <1>6, <2>1
  <2>3. f[n] = h[n]
    BY <2>1, <2>2
  <2> QED BY <2>3 DEF S
<1>9. len \in S
  <2> HIDE DEF S
  <2>1. 0 .. len \subseteq S
    BY <1>7, <1>8, UpToInduction
  <2> QED BY <2>1
<1>10. h[len + 1] = ThinStep(h[len], K, x)
  <2>1. len + 1 \in 1 .. len + 1 /\ (len + 1) - 1 = len
    OBVIOUS
  <2> QED BY <1>4, <1>6, <2>1
<1> QED BY <1>2, <1>3, <1>4, <1>5, <1>6, <1>9, <1>10

LEMMA ThinElements ==
  ASSUME NEW s, IsList(s), NEW K
  PROVE  IsList(Thin(s, K)) /\ Elements(Thin(s, K)) = Elements(s) \cap K
<1>1. PICK t, e : t = Thin(s, K) /\ Thinned(e, t, s, K)
  BY ThinPlaces
<1>2. IsList(t) /\ DOMAIN t = 1 .. Len(t) /\ DOMAIN s = 1 .. Len(s)
  BY <1>1, ListIsSeq DEF Thinned
<1>3. ASSUME NEW x \in 1 .. Len(t) PROVE t[x] \in Elements(s) \cap K
  BY <1>1, <1>2 DEF Thinned, Places, Elements
<1>4. ASSUME NEW m \in 1 .. Len(s), s[m] \in K PROVE \E x \in 1 .. Len(t) : t[x] = s[m]
  BY <1>1, <1>4 DEF Thinned, Places
<1> QED BY <1>1, <1>2, <1>3, <1>4 DEF Elements

LEMMA ThinTwice ==
  ASSUME NEW s, IsList(s), NEW K, NEW L, L \subseteq K
  PROVE  Thin(Thin(s, K), L) = Thin(s, L)
<1>1. PICK len \in Nat : len = Len(s)
  BY DEF IsList
<1>2. PICK f : /\ Thin(s, K) = f[Len(s)] /\ f[0] = <<>>
               /\ \A n \in 1 .. Len(s) : f[n] = ThinStep(f[n-1], K, s[n])
  BY ThinUnfolds
<1>3. PICK g : /\ Thin(s, L) = g[Len(s)] /\ g[0] = <<>>
               /\ \A n \in 1 .. Len(s) : g[n] = ThinStep(g[n-1], L, s[n])
  BY ThinUnfolds
<1> DEFINE S == {n \in 0 .. len : IsList(f[n]) /\ Thin(f[n], L) = g[n]}
<1>4. 0 \in S
  BY <1>2, <1>3, EmptyList, ThinNothing
<1>5. ASSUME NEW n \in 1 .. len, n - 1 \in S PROVE n \in S
  <2>1. PICK l : l = f[n-1]
    OBVIOUS
  <2>2. IsList(l) /\ Thin(l, L) = g[n-1]
    BY <1>5, <2>1
  <2> HIDE DEF S
  <2>3. f[n] = ThinStep(l, K, s[n]) /\ g[n] = ThinStep(Thin(l, L), L, s[n])
    BY <1>1, <1>2, <1>3, <2>1, <2>2
  <2>4. IsList(Append(l, s[n])) /\ Thin(Append(l, s[n]), L) = ThinStep(Thin(l, L), L, s[n])
    BY <2>2, ListAppend, ThinAppend
  <2>5. IsList(f[n]) /\ Thin(f[n], L) = g[n]
    <3>1. CASE s[n] \in K
      BY <2>3, <2>4, <3>1 DEF ThinStep
    <3>2. CASE s[n] \notin K
      <4>1. s[n] \notin L
        BY <3>2
      <4> QED BY <2>2, <2>3, <3>2, <4>1 DEF ThinStep
    <3> QED BY <3>1, <3>2
  <2> QED BY <2>5 DEF S
<1>6. len \in S
  <2> HIDE DEF S
  <2>1. 0 .. len \subseteq S
    BY <1>4, <1>5, UpToInduction
  <2> QED BY <2>1
<1> QED BY <1>1, <1>2, <1>3, <1>6

-----------------------------------------------------------------------------
(* What resolve makes of facts that name each output once and split no     *)
(* package, said of the facts alone                                        *)

ProvidersIn(facts)  == {r.provider : r \in Elements(facts.requirements)}
MatchIn(facts, r)   ==
  {i \in DOMAIN facts.candidates : /\ facts.candidates[i].package = r.provider
                                   /\ facts.candidates[i].role = "Target" /\ Declares(facts.candidates[i], r)}
TripleFor(facts, r) == IF r.symbol \in DOMAIN facts.constraints THEN facts.constraints[r.symbol] ELSE facts.triple
Suits(facts, r)     == \E i : MatchIn(facts, r) = {i} /\ facts.candidates[i].triple = TripleFor(facts, r)

DeclaredBy(facts, p, kind) == {o \in Elements(facts.outputs) : o.package = p /\ o.kind = kind}
OutputsIn(facts, p, kind)  == Thin(facts.outputs, DeclaredBy(facts, p, kind))
ExecutablesIn(facts)       == Thin(facts.outputs, {o \in Elements(facts.outputs) : o.kind = "NativeExecutable"})

RootsIn(facts)      == {i \in DOMAIN facts.candidates : facts.candidates[i].package \notin ProvidersIn(facts)}
ServedIn(facts, n)  == {i \in DOMAIN facts.candidates : \E k \in 1 .. n : i \in MatchIn(facts, facts.requirements[k])}
ChosenIn(facts)     == RootsIn(facts) \cup
                       {i \in DOMAIN facts.candidates : \E r \in Elements(facts.requirements) : i \in MatchIn(facts, r)}
OneRoot(facts)      ==
  \A i, j \in RootsIn(facts) : facts.candidates[i].package = facts.candidates[j].package => i = j

DeclaredOnce(facts) == \A o, x \in Elements(facts.outputs) : o.id = x.id => o = x
Regular(facts)      == Facts(facts) /\ ~Split(facts) /\ DeclaredOnce(facts)
Decided(facts)      == /\ OneRoot(facts) /\ ExecutablesIn(facts) # <<>>
                       /\ \A r \in Elements(facts.requirements) : Suits(facts, r)

LEMMA FactsAreLists ==
  ASSUME NEW facts, Facts(facts)
  PROVE  /\ IsList(facts.requirements) /\ DOMAIN facts.requirements = 1 .. Len(facts.requirements)
         /\ IsList(facts.candidates) /\ DOMAIN facts.candidates = 1 .. Len(facts.candidates)
         /\ IsList(facts.outputs) /\ DOMAIN facts.outputs = 1 .. Len(facts.outputs)
<1>1. PICK rs, cs, os : rs = facts.requirements /\ cs = facts.candidates /\ os = facts.outputs
  OBVIOUS
<1>2. rs \in Seq(Elements(rs)) /\ cs \in Seq(Elements(cs)) /\ os \in Seq(Elements(os))
  BY <1>1 DEF Facts
<1>3. IsList(rs) /\ IsList(cs) /\ IsList(os)
  BY <1>2, SeqIsList
<1> QED BY <1>1, <1>3, ListIsSeq

(* They are what resolve looks up in the facts it is given.                *)
LEMMA GivenOutputs ==
  ASSUME Facts(given), NEW p, NEW kind
  PROVE  OutputsOf(p, kind) = OutputsIn(given, p, kind)
<1>1. PICK s, K : s = given.outputs /\ K = DeclaredBy(given, p, kind)
  OBVIOUS
<1>2. IsList(s) /\ DOMAIN s = 1 .. Len(s) /\ Len(s) \in Nat
  BY <1>1, FactsAreLists DEF IsList
<1> DEFINE F(h) == [n \in 0 .. Len(s) |-> IF n = 0 THEN <<>>
                     ELSE LET kept == h[n-1] IN IF s[n].package = p /\ s[n].kind = kind THEN Append(kept, s[n]) ELSE kept]
           G(h) == [n \in 0 .. Len(s) |-> IF n = 0 THEN <<>>
                     ELSE LET kept == h[n-1] IN IF s[n] \in K THEN Append(kept, s[n]) ELSE kept]
<1>3. ASSUME NEW n \in 1 .. Len(s) PROVE s[n] \in K <=> s[n].package = p /\ s[n].kind = kind
  BY <1>1, <1>2 DEF DeclaredBy, Elements
<1>4. \A h : F(h) = G(h)
  BY <1>2, <1>3
<1>5. (CHOOSE h : h = F(h)) = (CHOOSE h : h = G(h))
  <2> HIDE DEF F, G
  <2> QED BY <1>4
<1>6. (CHOOSE h : h = F(h))[Len(s)] = (CHOOSE h : h = G(h))[Len(s)]
  <2> HIDE DEF F, G
  <2> QED BY <1>5
<1> QED BY <1>1, <1>6 DEF OutputsOf, OutputsIn, Thin, Filtered

LEMMA GivenExecutables ==
  ASSUME Facts(given)
  PROVE  Executables = ExecutablesIn(given)
<1>1. PICK s, K : s = given.outputs /\ K = {o \in Elements(given.outputs) : o.kind = "NativeExecutable"}
  OBVIOUS
<1>2. IsList(s) /\ DOMAIN s = 1 .. Len(s) /\ Len(s) \in Nat
  BY <1>1, FactsAreLists DEF IsList
<1> DEFINE F(h) == [n \in 0 .. Len(s) |-> IF n = 0 THEN <<>>
                     ELSE LET kept == h[n-1] IN IF s[n].kind = "NativeExecutable" THEN Append(kept, s[n]) ELSE kept]
           G(h) == [n \in 0 .. Len(s) |-> IF n = 0 THEN <<>>
                     ELSE LET kept == h[n-1] IN IF s[n] \in K THEN Append(kept, s[n]) ELSE kept]
<1>3. ASSUME NEW n \in 1 .. Len(s) PROVE s[n] \in K <=> s[n].kind = "NativeExecutable"
  BY <1>1, <1>2 DEF Elements
<1>4. \A h : F(h) = G(h)
  BY <1>2, <1>3
<1>5. (CHOOSE h : h = F(h)) = (CHOOSE h : h = G(h))
  <2> HIDE DEF F, G
  <2> QED BY <1>4
<1>6. (CHOOSE h : h = F(h))[Len(s)] = (CHOOSE h : h = G(h))[Len(s)]
  <2> HIDE DEF F, G
  <2> QED BY <1>5
<1> QED BY <1>1, <1>6 DEF Executables, ExecutablesIn, Thin, Filtered

LEMMA GivenMatches ==
  ASSUME NEW r
  PROVE  /\ Matching(r, "Target") = MatchIn(given, r) /\ ExpectedTriple(r) = TripleFor(given, r)
         /\ Providers = ProvidersIn(given) /\ RootCandidates = RootsIn(given)
  BY DEF Matching, MatchIn, Candidates, ExpectedTriple, TripleFor, Providers, ProvidersIn,
         RootCandidates, Roots, RootsIn, Elements

LEMMA AcceptedSuits ==
  ASSUME Facts(given), NEW r
  PROVE  Refusals(r) = {} <=> Suits(given, r)
<1>1. PICK T : T = MatchIn(given, r)
  OBVIOUS
<1>2. Matching(r, "Target") = T /\ ExpectedTriple(r) = TripleFor(given, r)
  BY <1>1, GivenMatches
<1>3. IsFiniteSet(T)
  <2>1. T \subseteq DOMAIN given.candidates
    BY <1>1 DEF MatchIn
  <2> QED BY <2>1, CandidatesAreFinite, FS_Subset
<1>4. Ambiguous(r) <=> Cardinality(T) > 1
  BY <1>2 DEF Ambiguous
<1>5. CASE \E i : T = {i}
  <2>1. PICK i : T = {i}
    BY <1>5
  <2>2. Cardinality(T) = 1
    BY <1>3, <2>1, FS_Singleton
  <2>3. ~Ambiguous(r) /\ T # {}
    BY <1>4, <2>1, <2>2
  <2>4. Refusals(r) = {"IncompatibleAbi" : j \in {j \in T : given.candidates[j].triple # TripleFor(given, r)}}
    BY <1>2, <2>3 DEF Refusals
  <2>5. Suits(given, r) <=> given.candidates[i].triple = TripleFor(given, r)
    BY <1>1, <2>1 DEF Suits
  <2> QED BY <2>1, <2>4, <2>5
<1>6. CASE ~ \E i : T = {i}
  <2>1. ~Suits(given, r)
    BY <1>1, <1>6 DEF Suits
  <2>2. CASE T = {}
    <3>1. ~Ambiguous(r)
      BY <1>3, <1>4, <2>2, FS_EmptySet
    <3> QED BY <1>2, <2>1, <2>2, <3>1 DEF Refusals
  <2>3. CASE T # {}
    <3>1. Cardinality(T) \in Nat /\ Cardinality(T) # 0 /\ Cardinality(T) # 1
      BY <1>3, <1>6, <2>3, FS_CardinalityType, FS_EmptySet, FS_Singleton
    <3>2. Ambiguous(r)
      BY <1>4, <3>1
    <3> QED BY <2>1, <3>2 DEF Refusals
  <2> QED BY <2>2, <2>3
<1> QED BY <1>5, <1>6

LEMMA SingleRoots ==
  ASSUME Facts(given)
  PROVE  /\ (\A p \in Roots : Cardinality(Candidates(p)) = 1) => OneRoot(given)
         /\ OneRoot(given) => \A p \in Roots : ~(Cardinality(Candidates(p)) > 1)
<1>1. ASSUME NEW p PROVE IsFiniteSet(Candidates(p)) /\ Cardinality(Candidates(p)) \in Nat
  BY CandidatesAreFinite, FS_Subset, FS_CardinalityType DEF Candidates
<1>2. \A i \in RootsIn(given) : given.candidates[i].package \in Roots /\ i \in Candidates(given.candidates[i].package)
  BY DEF RootsIn, Roots, Candidates, Elements, Providers, ProvidersIn
<1>3. ASSUME \A p \in Roots : Cardinality(Candidates(p)) = 1 PROVE OneRoot(given)
  <2>1. ASSUME NEW i \in RootsIn(given), NEW j \in RootsIn(given),
               given.candidates[i].package = given.candidates[j].package
        PROVE  i = j
    <3>1. PICK p : p = given.candidates[i].package
      OBVIOUS
    <3>2. p \in Roots /\ i \in Candidates(p) /\ j \in Candidates(p)
      BY <1>2, <2>1, <3>1
    <3>3. PICK x : Candidates(p) = {x}
      BY <1>1, <1>3, <3>2, FS_Singleton
    <3> QED BY <3>2, <3>3
  <2> QED BY <2>1 DEF OneRoot
<1>4. ASSUME OneRoot(given), NEW p \in Roots PROVE ~(Cardinality(Candidates(p)) > 1)
  <2>1. Candidates(p) \subseteq RootsIn(given) /\ \A i \in Candidates(p) : given.candidates[i].package = p
    BY DEF Candidates, RootsIn, Roots, Providers, ProvidersIn
  <2>2. \A i, j \in Candidates(p) : i = j
    BY <1>4, <2>1 DEF OneRoot
  <2>3. CASE Candidates(p) = {}
    BY <2>3, FS_EmptySet
  <2>4. CASE Candidates(p) # {}
    <3>1. PICK x : Candidates(p) = {x}
      BY <2>2, <2>4
    <3>2. Cardinality(Candidates(p)) = 1
      BY <3>1, FS_Singleton
    <3> QED BY <3>2
  <2> QED BY <2>3, <2>4
<1> QED BY <1>3, <1>4

(* Of a package that is not split all requirements select one candidate.   *)
LEMMA OneMatch ==
  ASSUME NEW facts, ~Split(facts), NEW r \in Elements(facts.requirements), NEW q \in Elements(facts.requirements),
         r.provider = q.provider, Suits(facts, r), NEW i \in MatchIn(facts, r), NEW j \in MatchIn(facts, q)
  PROVE  i = j
<1>1. Matchers(facts, r) = Matchers(facts, q)
  BY DEF Split
<1>2. facts.candidates[j] \in Matchers(facts, q)
  BY DEF MatchIn, Matchers, Elements
<1>3. j \in MatchIn(facts, r)
  BY <1>1, <1>2 DEF MatchIn, Matchers
<1> QED BY <1>3 DEF Suits

LEMMA OneChosen ==
  ASSUME NEW facts, Regular(facts), OneRoot(facts), \A r \in Elements(facts.requirements) : Suits(facts, r),
         NEW i \in ChosenIn(facts), NEW j \in ChosenIn(facts),
         facts.candidates[i].package = facts.candidates[j].package
  PROVE  i = j
<1>1. \A k \in ChosenIn(facts) \ RootsIn(facts) :
        \E r \in Elements(facts.requirements) : k \in MatchIn(facts, r) /\ r.provider = facts.candidates[k].package
  BY DEF ChosenIn, MatchIn
<1>2. i \in RootsIn(facts) <=> j \in RootsIn(facts)
  BY DEF ChosenIn, RootsIn
<1>3. CASE i \in RootsIn(facts)
  BY <1>2, <1>3 DEF OneRoot
<1>4. CASE i \notin RootsIn(facts)
  BY <1>1, <1>2, <1>4, OneMatch DEF Regular
<1> QED BY <1>3, <1>4

-----------------------------------------------------------------------------
(* The obligations that resolve makes of them                              *)

Taken(c)   == Obligation("Selected", SourcesOf(c), {})
Refused(c) == Obligation("Rejected", SourcesOf(c), {})

Has(os, id, o) == id \in DOMAIN os /\ os[id] = o

IdAt(facts, i) == Selection(facts.candidates[i])

(* A candidate of another version, and the last one of it.                 *)
Rival(facts, i, j) ==
  /\ facts.candidates[j].package = facts.candidates[i].package
  /\ facts.candidates[j].version # facts.candidates[i].version
  /\ \A k \in DOMAIN facts.candidates : IdAt(facts, k) = IdAt(facts, j) => k <= j

(* The last one of the first n that names its symbol.                      *)
LastAsked(facts, n, k) ==
  \A m \in 1 .. n : facts.requirements[m].symbol = facts.requirements[k].symbol => m <= k

Binds(facts, os, r) ==
  /\ Has(os, Ffi(r), Satisfied({Source(r.source)}))
  /\ \E i \in MatchIn(facts, r) : Has(os, Abi(r), Satisfied({Ffi(r), IdAt(facts, i)}))
  /\ Has(os, Symbol(r), Satisfied({Abi(r)}))

(* The artifact of a chosen candidate.                                     *)
MadeBy(facts, i) ==
  LET c == facts.candidates[i] IN
  OutputsIn(facts, c.package, IF c.package \in ProvidersIn(facts) THEN ArchiveKind[c.ecosystem]
                              ELSE RootKind[c.ecosystem])
Makes(facts, i)      == MadeBy(facts, i) # <<>>
ArtifactAt(facts, i) == Artifact(MadeBy(facts, i)[1].id)
MadeFrom(facts, i)   ==
  Satisfied({IdAt(facts, i)} \cup {Lowering(p) : p \in {facts.candidates[i].package} \cap DOMAIN facts.lowerings})

HasBasis(facts, os) ==
  /\ \A s \in facts.sources : Has(os, Source(s.id), Satisfied({}))
  /\ \A p \in DOMAIN facts.lowerings : Has(os, Lowering(p), Satisfied({Source(facts.lowerings[p])}))
HasChoice(facts, I, os) ==
  \A i \in I : /\ Has(os, IdAt(facts, i), Taken(facts.candidates[i]))
               /\ \A j \in DOMAIN facts.candidates :
                    Rival(facts, i, j) => Has(os, IdAt(facts, j), Refused(facts.candidates[j]))
HasBindings(facts, n, os) ==
  \A k \in 1 .. n : LastAsked(facts, n, k) => Binds(facts, os, facts.requirements[k])
HasArtifacts(facts, J, os) ==
  \A i \in J : Makes(facts, i) => Has(os, ArtifactAt(facts, i), MadeFrom(facts, i))

(* Nothing else is in the map.                                             *)
Named(facts, id) ==
  \/ \E s \in facts.sources : id = Source(s.id)
  \/ \E p \in DOMAIN facts.lowerings : id = Lowering(p)
  \/ \E i \in DOMAIN facts.candidates : id = IdAt(facts, i)
  \/ \E r \in Elements(facts.requirements) : id \in {Ffi(r), Abi(r), Symbol(r)}
  \/ \E i \in ChosenIn(facts) : Makes(facts, i) /\ id = ArtifactAt(facts, i)
AllNamed(facts, os) == \A id \in DOMAIN os : Named(facts, id)

(* After n requirements, with the artifacts of the candidates J.           *)
Built(facts, n, J, os) ==
  /\ HasBasis(facts, os) /\ HasChoice(facts, RootsIn(facts) \cup ServedIn(facts, n), os)
  /\ HasBindings(facts, n, os) /\ HasArtifacts(facts, J, os) /\ AllNamed(facts, os)

(* Insertions of other kinds leave an obligation alone.                    *)
Keeps(os, new, kinds) ==
  \A id \in DOMAIN os : KindOf(id) \in kinds => Has(new, id, os[id])

LEMMA KeepsBasis ==
  ASSUME NEW facts, NEW os, NEW new, HasBasis(facts, os), Keeps(os, new, {"SourceModule", "Lowering"})
  PROVE  HasBasis(facts, new)
  BY KindsOfIds DEF HasBasis, Keeps, Has

LEMMA KeepsChoice ==
  ASSUME NEW facts, NEW I, NEW os, NEW new, HasChoice(facts, I, os), Keeps(os, new, {"PackageSelection"})
  PROVE  HasChoice(facts, I, new)
<1>1. \A i : KindOf(IdAt(facts, i)) = "PackageSelection"
  BY KindsOfIds DEF IdAt
<1> QED BY <1>1 DEF HasChoice, Keeps, Has

LEMMA KeepsBindings ==
  ASSUME NEW facts, NEW n, NEW os, NEW new, HasBindings(facts, n, os),
         Keeps(os, new, {"SemanticFfi", "AbiTarget", "Symbol"})
  PROVE  HasBindings(facts, n, new)
<1>1. ASSUME NEW id, NEW o, Has(os, id, o), KindOf(id) \in {"SemanticFfi", "AbiTarget", "Symbol"}
      PROVE  Has(new, id, o)
  BY <1>1 DEF Keeps, Has
<1>2. ASSUME NEW r, Binds(facts, os, r) PROVE Binds(facts, new, r)
  BY <1>1, <1>2, KindsOfIds DEF Binds
<1> QED BY <1>2 DEF HasBindings

LEMMA KeepsArtifacts ==
  ASSUME NEW facts, NEW J, NEW os, NEW new, HasArtifacts(facts, J, os), Keeps(os, new, {"ArtifactProduction"})
  PROVE  HasArtifacts(facts, J, new)
<1>1. \A i : KindOf(ArtifactAt(facts, i)) = "ArtifactProduction"
  BY KindsOfIds DEF ArtifactAt
<1> QED BY <1>1 DEF HasArtifacts, Keeps, Has

LEMMA SameIds ==
  /\ \A s, t : Source(s) = Source(t) => s = t
  /\ \A s, t : Lowering(s) = Lowering(t) => s = t
  /\ \A s, t : Artifact(s) = Artifact(t) => s = t
  /\ \A r, q : Ffi(r) = Ffi(q) => r.symbol = q.symbol
<1>1. /\ \A s : Source(s)[2] = s /\ Lowering(s)[2] = s /\ Artifact(s)[2] = s
      /\ \A r : Ffi(r)[2] = r.symbol
  BY DEF Source, Lowering, Artifact, Ffi
<1> QED BY <1>1

LEMMA RegisterBuilds ==
  ASSUME Register
  PROVE  HasBasis(given, obligations') /\ AllNamed(given, obligations')
<1> DEFINE S == {Source(s.id) : s \in given.sources}
           L == {Lowering(p) : p \in DOMAIN given.lowerings}
<1>1. PICK own, lowered :
        /\ own = [id \in S |-> Satisfied({})]
        /\ lowered = [id \in L |-> Satisfied({Source(given.lowerings[id[2]])})]
        /\ obligations' = InsertAll(own, lowered)
  BY DEF Register
<1>2. DOMAIN own = S /\ DOMAIN lowered = L
  <2> HIDE DEF S, L
  <2> QED BY <1>1
<1>3. PICK os : os = obligations'
  OBVIOUS
<1>4. WithAll(os, own, lowered)
  BY <1>1, <1>3, InsertAllValues
<1>5. ASSUME NEW s \in given.sources PROVE Has(os, Source(s.id), Satisfied({}))
  <2>1. Source(s.id) \in S /\ Source(s.id) \notin L
    BY KindsOfIds
  <2> HIDE DEF S, L
  <2> QED BY <1>1, <1>2, <1>4, <2>1 DEF WithAll, Has
<1>6. ASSUME NEW p \in DOMAIN given.lowerings
      PROVE  Has(os, Lowering(p), Satisfied({Source(given.lowerings[p])}))
  <2>1. Lowering(p) \in L /\ Lowering(p)[2] = p
    BY DEF Lowering
  <2> HIDE DEF S, L
  <2> QED BY <1>1, <1>2, <1>4, <2>1 DEF WithAll, Has
<1>7. \A id \in DOMAIN os : id \in S \/ id \in L
  <2> HIDE DEF S, L
  <2> QED BY <1>2, <1>4 DEF WithAll
<1>8. AllNamed(given, os)
  BY <1>7 DEF AllNamed, Named
<1> QED BY <1>3, <1>5, <1>6, <1>8 DEF HasBasis

LEMMA RootsBuild ==
  ASSUME Facts(given), HasBasis(given, obligations), AllNamed(given, obligations), SelectRoots
  PROVE  OneRoot(given) /\ Built(given, 0, {}, obligations')
<1> DEFINE R == RootCandidates
           Key(i) == Selection(given.candidates[i])
           Value(i) == Obligation("Selected", SourcesOf(given.candidates[i]), {})
           Last1(k) == CHOOSE i \in R : Key(i) = k /\ \A j \in R : Key(j) = k => j <= i
           S == {Key(i) : i \in R}
<1>1. PICK chosen : chosen = [k \in S |-> Value(Last1(k))]
  OBVIOUS
<1>2. obligations' = InsertAll(obligations, chosen)
  BY <1>1 DEF SelectRoots, Inserted
<1>3. PICK new : new = obligations'
  OBVIOUS
<1>4. WithAll(new, obligations, chosen)
  BY <1>2, <1>3, InsertAllValues
<1>5. R = RootsIn(given) /\ R \subseteq DOMAIN given.candidates /\ DOMAIN given.candidates \subseteq Nat
  BY GivenMatches, FactsAreLists DEF RootsIn
<1>6. OneRoot(given)
  BY SingleRoots DEF SelectRoots
<1>7. \A i, j \in R : Key(i) = Key(j) => i = j
  BY <1>5, <1>6, SameSelection DEF OneRoot
<1> HIDE DEF R
<1>8. DOMAIN chosen = S /\ \A k \in S : chosen[k] = Value(Last1(k))
  <2> HIDE DEF S, Last1, Value
  <2> QED BY <1>1
<1>9. ASSUME NEW i \in R PROVE Key(i) \in DOMAIN chosen /\ chosen[Key(i)] = Taken(given.candidates[i])
  <2>1. Key(i) \in S
    OBVIOUS
  <2>2. i <= i /\ \A j \in R : Key(j) = Key(i) => j <= i
    BY <1>5, <1>7
  <2>3. Last1(Key(i)) = i
    <3> HIDE DEF Key
    <3> QED BY <1>7, <2>2
  <2>4. chosen[Key(i)] = Value(i)
    <3> HIDE DEF S, Last1, Value, Key
    <3> QED BY <1>8, <2>1, <2>3
  <2> QED BY <1>8, <2>1, <2>4 DEF Taken
<1>10. \A id \in S : KindOf(id) = "PackageSelection" /\ \E i \in R : id = Key(i)
  BY KindsOfIds
<1> HIDE DEF S
<1>11. \A i \in R : Has(new, IdAt(given, i), Taken(given.candidates[i]))
  BY <1>4, <1>9 DEF WithAll, Has, IdAt
<1>12. ASSUME NEW i \in R, NEW j \in DOMAIN given.candidates, Rival(given, i, j) PROVE FALSE
  <2>1. given.candidates[j].package = given.candidates[i].package
        /\ given.candidates[j].version # given.candidates[i].version
    BY <1>12 DEF Rival
  <2>2. j \in R
    BY <1>5, <2>1 DEF RootsIn
  <2> QED BY <1>5, <1>6, <2>1, <2>2 DEF OneRoot
<1>13. ServedIn(given, 0) = {}
  BY DEF ServedIn
<1>14. HasChoice(given, RootsIn(given) \cup ServedIn(given, 0), new)
  BY <1>5, <1>11, <1>12, <1>13 DEF HasChoice
<1>15. Keeps(obligations, new, {"SourceModule", "Lowering"})
  BY <1>4, <1>8, <1>10 DEF WithAll, Keeps, Has
<1>16. HasBasis(given, new)
  BY <1>15, KeepsBasis
<1>17. AllNamed(given, new)
  <2>1. \A id \in DOMAIN new : id \in DOMAIN obligations \/ \E i \in R : id = Key(i)
    BY <1>4, <1>8, <1>10 DEF WithAll
  <2> QED BY <1>5, <2>1 DEF AllNamed, Named, IdAt
<1>18. HasBindings(given, 0, new) /\ HasArtifacts(given, {}, new)
  BY DEF HasBindings, HasArtifacts
<1> QED BY <1>3, <1>6, <1>14, <1>16, <1>17, <1>18 DEF Built

(* What the other versions of a selected candidate get.                    *)
LEMMA AlternativesRefuse ==
  ASSUME Facts(given), NEW i \in DOMAIN given.candidates
  PROVE  \E alt :
           /\ \A os : AlternativesRejected(given.candidates[i], os) = InsertAll(os, alt)
           /\ \A id \in DOMAIN alt : \E j \in DOMAIN given.candidates :
                /\ id = IdAt(given, j) /\ given.candidates[j].package = given.candidates[i].package
                /\ given.candidates[j].version # given.candidates[i].version
           /\ \A j \in DOMAIN given.candidates : Rival(given, i, j) =>
                Has(alt, IdAt(given, j), Refused(given.candidates[j]))
<1> DEFINE c == given.candidates[i]
           I == {j \in Candidates(c.package) : given.candidates[j].version # c.version}
           Key(j) == Selection(given.candidates[j])
           Last1(k) == CHOOSE j \in I : Key(j) = k /\ \A m \in I : Key(m) = k => m <= j
           Value(j) == Obligation("Rejected", SourcesOf(given.candidates[j]), {})
           S == {Key(j) : j \in I}
<1>1. PICK alt : alt = [k \in S |-> Value(Last1(k))]
  OBVIOUS
<1>2. \A os : AlternativesRejected(c, os) = InsertAll(os, alt)
  BY <1>1 DEF AlternativesRejected, Inserted
<1>3. I \subseteq DOMAIN given.candidates /\ DOMAIN given.candidates \subseteq Nat
  BY FactsAreLists DEF Candidates
<1>4. \A j \in I : given.candidates[j].package = c.package /\ given.candidates[j].version # c.version
  BY DEF Candidates
<1>5. DOMAIN alt = S /\ \A k \in S : alt[k] = Value(Last1(k))
  <2> HIDE DEF S, Last1, Value
  <2> QED BY <1>1
<1>6. \A id \in S : \E j \in I : id = Key(j)
  OBVIOUS
<1>7. ASSUME NEW j \in DOMAIN given.candidates, Rival(given, i, j)
      PROVE  Has(alt, IdAt(given, j), Refused(given.candidates[j]))
  <2>1. j \in I
    BY <1>7 DEF Rival, Candidates
  <2>2. Key(j) \in S
    BY <2>1
  <2>3. \A m \in I : Key(m) = Key(j) => m <= j
    BY <1>3, <1>7 DEF Rival, IdAt
  <2>4. Last1(Key(j)) = j
    <3> HIDE DEF I, Key
    <3>1. \A m \in I : (Key(m) = Key(j) /\ \A l \in I : Key(l) = Key(j) => l <= m) => m = j
      <4>1. ASSUME NEW m \in I, Key(m) = Key(j), \A l \in I : Key(l) = Key(j) => l <= m PROVE m = j
        <5>1. j <= m /\ m <= j /\ m \in Nat /\ j \in Nat
          BY <1>3, <2>1, <2>3, <4>1
        <5> QED BY <5>1
      <4> QED BY <4>1
    <3> QED BY <2>1, <2>3, <3>1
  <2>5. alt[Key(j)] = Value(j)
    <3> HIDE DEF S, Last1, Value, Key
    <3> QED BY <1>5, <2>2, <2>4
  <2> QED BY <1>5, <2>2, <2>5 DEF Has, IdAt, Refused
<1>8. \A id \in DOMAIN alt : \E j \in DOMAIN given.candidates :
        /\ id = IdAt(given, j) /\ given.candidates[j].package = given.candidates[i].package
        /\ given.candidates[j].version # given.candidates[i].version
  <2> HIDE DEF S, I
  <2> QED BY <1>3, <1>4, <1>5, <1>6 DEF IdAt
<1> HIDE DEF S, I
<1> QED BY <1>2, <1>7, <1>8

(* One requirement, without the artifact of its provider.                  *)
Bounds(facts, os, i, r, alt, new) ==
  \E f1, f2, f3, f4 :
    /\ With(f1, os, Ffi(r), Satisfied({Source(r.source)}))
    /\ With(f2, f1, IdAt(facts, i), Taken(facts.candidates[i]))
    /\ WithAll(f3, f2, alt)
    /\ With(f4, f3, Abi(r), Satisfied({Ffi(r), IdAt(facts, i)}))
    /\ With(new, f4, Symbol(r), Satisfied({Abi(r)}))

Refuses(facts, i, alt) ==
  /\ \A id \in DOMAIN alt : \E j \in DOMAIN facts.candidates :
       /\ id = IdAt(facts, j) /\ facts.candidates[j].package = facts.candidates[i].package
       /\ facts.candidates[j].version # facts.candidates[i].version
  /\ \A j \in DOMAIN facts.candidates : Rival(facts, i, j) =>
       Has(alt, IdAt(facts, j), Refused(facts.candidates[j]))

LEMMA BoundValues ==
  ASSUME NEW facts, NEW os, NEW i, NEW r, NEW alt, NEW new,
         Bounds(facts, os, i, r, alt, new), Refuses(facts, i, alt)
  PROVE  /\ Has(new, Ffi(r), Satisfied({Source(r.source)})) /\ Has(new, Symbol(r), Satisfied({Abi(r)}))
         /\ Has(new, Abi(r), Satisfied({Ffi(r), IdAt(facts, i)}))
         /\ Has(new, IdAt(facts, i), Taken(facts.candidates[i]))
         /\ \A id \in DOMAIN alt : Has(new, id, alt[id])
         /\ \A id \in DOMAIN new :
              id \in DOMAIN os \/ id \in DOMAIN alt \/ id \in {Ffi(r), IdAt(facts, i), Abi(r), Symbol(r)}
         /\ \A id \in DOMAIN os :
              id \notin DOMAIN alt /\ id \notin {Ffi(r), IdAt(facts, i), Abi(r), Symbol(r)} => Has(new, id, os[id])
<1>1. PICK f1, f2, f3, f4 :
        /\ With(f1, os, Ffi(r), Satisfied({Source(r.source)}))
        /\ With(f2, f1, IdAt(facts, i), Taken(facts.candidates[i]))
        /\ WithAll(f3, f2, alt)
        /\ With(f4, f3, Abi(r), Satisfied({Ffi(r), IdAt(facts, i)}))
        /\ With(new, f4, Symbol(r), Satisfied({Abi(r)}))
  BY DEF Bounds
<1>2. KindOf(IdAt(facts, i)) = "PackageSelection" /\ \A id \in DOMAIN alt : KindOf(id) = "PackageSelection"
  BY KindsOfIds DEF IdAt, Refuses
<1>3. /\ Ffi(r) \notin DOMAIN alt /\ Abi(r) \notin DOMAIN alt /\ Symbol(r) \notin DOMAIN alt
      /\ Ffi(r) # IdAt(facts, i) /\ Abi(r) # IdAt(facts, i) /\ Symbol(r) # IdAt(facts, i)
      /\ Ffi(r) # Abi(r) /\ Ffi(r) # Symbol(r) /\ Abi(r) # Symbol(r)
  BY <1>2, KindsOfIds
<1>4. IdAt(facts, i) \notin DOMAIN alt
  BY SameSelection DEF Refuses, IdAt
<1>5. Has(new, Ffi(r), Satisfied({Source(r.source)})) /\ Has(new, Symbol(r), Satisfied({Abi(r)}))
  BY <1>1, <1>3 DEF With, WithAll, Has
<1>6. Has(new, Abi(r), Satisfied({Ffi(r), IdAt(facts, i)}))
  BY <1>1, <1>3 DEF With, WithAll, Has
<1>7. Has(new, IdAt(facts, i), Taken(facts.candidates[i]))
  BY <1>1, <1>3, <1>4 DEF With, WithAll, Has
<1>8. \A id \in DOMAIN alt : Has(new, id, alt[id])
  BY <1>1, <1>3 DEF With, WithAll, Has
<1>9. \A id \in DOMAIN new :
        id \in DOMAIN os \/ id \in DOMAIN alt \/ id \in {Ffi(r), IdAt(facts, i), Abi(r), Symbol(r)}
  BY <1>1 DEF With, WithAll
<1>10. \A id \in DOMAIN os :
         id \notin DOMAIN alt /\ id \notin {Ffi(r), IdAt(facts, i), Abi(r), Symbol(r)} => Has(new, id, os[id])
  BY <1>1 DEF With, WithAll, Has
<1> QED BY <1>5, <1>6, <1>7, <1>8, <1>9, <1>10

ServedSuit(facts, n) == \A k \in 1 .. n : Suits(facts, facts.requirements[k])

LEMMA ServedNext ==
  ASSUME NEW facts, NEW n \in Nat \ {0}, NEW i, MatchIn(facts, facts.requirements[n]) = {i}
  PROVE  ServedIn(facts, n) = ServedIn(facts, n - 1) \cup {i}
<1>1. 1 .. n = 1 .. n - 1 \cup {n}
  OBVIOUS
<1>2. i \in DOMAIN facts.candidates
  BY DEF MatchIn
<1> QED BY <1>1, <1>2 DEF ServedIn

(* Before, no other candidate of that package was chosen.                  *)
LEMMA ChosenBefore ==
  ASSUME NEW facts, Facts(facts), ~Split(facts), NEW n \in Nat \ {0}, n <= Len(facts.requirements),
         ServedSuit(facts, n), NEW i \in MatchIn(facts, facts.requirements[n]),
         NEW j \in RootsIn(facts) \cup ServedIn(facts, n - 1),
         facts.candidates[j].package = facts.candidates[i].package
  PROVE  j = i
<1>1. \A k \in 1 .. n : facts.requirements[k] \in Elements(facts.requirements)
  BY FactsAreLists DEF Elements, IsList
<1>2. n \in 1 .. n /\ \A k \in 1 .. n - 1 : k \in 1 .. n
  OBVIOUS
<1>3. j \notin RootsIn(facts)
  BY <1>1, <1>2 DEF RootsIn, ProvidersIn, MatchIn
<1>4. PICK k \in 1 .. n - 1 : j \in MatchIn(facts, facts.requirements[k])
  BY <1>3 DEF ServedIn
<1>5. facts.requirements[k].provider = facts.requirements[n].provider
  BY <1>4 DEF MatchIn
<1> QED BY <1>1, <1>2, <1>4, <1>5, OneMatch DEF ServedSuit

LEMMA BoundBuilds ==
  ASSUME NEW facts, Facts(facts), ~Split(facts), NEW n \in Nat \ {0}, n <= Len(facts.requirements),
         ServedSuit(facts, n), NEW i, MatchIn(facts, facts.requirements[n]) = {i},
         NEW J, NEW os, Built(facts, n - 1, J, os), NEW alt, NEW new,
         Bounds(facts, os, i, facts.requirements[n], alt, new), Refuses(facts, i, alt)
  PROVE  Built(facts, n, J, new)
<1>1. PICK r : r = facts.requirements[n]
  OBVIOUS
<1> DEFINE fresh == {Ffi(r), IdAt(facts, i), Abi(r), Symbol(r)}
<1>2. /\ Has(new, Ffi(r), Satisfied({Source(r.source)})) /\ Has(new, Symbol(r), Satisfied({Abi(r)}))
      /\ Has(new, Abi(r), Satisfied({Ffi(r), IdAt(facts, i)}))
      /\ Has(new, IdAt(facts, i), Taken(facts.candidates[i]))
      /\ \A id \in DOMAIN alt : Has(new, id, alt[id])
      /\ \A id \in DOMAIN new : id \in DOMAIN os \/ id \in DOMAIN alt \/ id \in fresh
      /\ \A id \in DOMAIN os : id \notin DOMAIN alt /\ id \notin fresh => Has(new, id, os[id])
  BY <1>1, BoundValues
<1>3. KindOf(IdAt(facts, i)) = "PackageSelection" /\ \A id \in DOMAIN alt : KindOf(id) = "PackageSelection"
  BY KindsOfIds DEF IdAt, Refuses
<1>4. Keeps(os, new, {"SourceModule", "Lowering"}) /\ Keeps(os, new, {"ArtifactProduction"})
  BY <1>2, <1>3, KindsOfIds DEF Keeps
<1>5. HasBasis(facts, new) /\ HasArtifacts(facts, J, new)
  BY <1>4, KeepsBasis, KeepsArtifacts DEF Built
<1>6. i \in DOMAIN facts.candidates /\ r \in Elements(facts.requirements)
  BY <1>1, FactsAreLists DEF MatchIn, Elements, IsList
<1>7. HasChoice(facts, RootsIn(facts) \cup ServedIn(facts, n), new)
  <2>1. ASSUME NEW j \in RootsIn(facts) \cup ServedIn(facts, n)
        PROVE  /\ Has(new, IdAt(facts, j), Taken(facts.candidates[j]))
               /\ \A k \in DOMAIN facts.candidates :
                    Rival(facts, j, k) => Has(new, IdAt(facts, k), Refused(facts.candidates[k]))
    <3>1. CASE j = i
      BY <1>2, <3>1 DEF Refuses, Has
    <3>2. CASE j # i
      <4>1. j \in RootsIn(facts) \cup ServedIn(facts, n - 1)
        BY <3>2, ServedNext
      <4>2. facts.candidates[j].package # facts.candidates[i].package
        BY <3>2, <4>1, ChosenBefore
      <4>3. \A k : facts.candidates[k].package = facts.candidates[j].package =>
              IdAt(facts, k) \notin DOMAIN alt /\ IdAt(facts, k) # IdAt(facts, i)
        BY <4>2, SameSelection DEF Refuses, IdAt
      <4>4. \A k : KindOf(IdAt(facts, k)) = "PackageSelection"
        BY KindsOfIds DEF IdAt
      <4>5. ASSUME NEW k, facts.candidates[k].package = facts.candidates[j].package, NEW o,
                   Has(os, IdAt(facts, k), o)
            PROVE  Has(new, IdAt(facts, k), o)
        BY <1>2, <4>3, <4>4, <4>5, KindsOfIds DEF Has
      <4>6. /\ Has(os, IdAt(facts, j), Taken(facts.candidates[j]))
            /\ \A k \in DOMAIN facts.candidates :
                 Rival(facts, j, k) => Has(os, IdAt(facts, k), Refused(facts.candidates[k]))
        BY <4>1 DEF Built, HasChoice
      <4> QED BY <4>5, <4>6 DEF Rival
    <3> QED BY <3>1, <3>2
  <2> QED BY <2>1 DEF HasChoice
<1>8. HasBindings(facts, n, new)
  <2>1. ASSUME NEW k \in 1 .. n, LastAsked(facts, n, k) PROVE Binds(facts, new, facts.requirements[k])
    <3>1. CASE k = n
      <4>1. i \in MatchIn(facts, r)
        BY <1>1
      <4> QED BY <1>1, <1>2, <3>1, <4>1 DEF Binds
    <3>2. CASE k # n
      <4>1. k \in 1 .. n - 1 /\ n \in 1 .. n /\ ~(n <= k) /\ \A m \in 1 .. n - 1 : m \in 1 .. n
        BY <3>2
      <4>2. PICK q : q = facts.requirements[k]
        OBVIOUS
      <4>3. q.symbol # r.symbol /\ LastAsked(facts, n - 1, k)
        BY <1>1, <2>1, <4>1, <4>2 DEF LastAsked
      <4>4. Binds(facts, os, q)
        BY <4>1, <4>2, <4>3 DEF Built, HasBindings
      <4>5. \A id \in {Ffi(q), Abi(q), Symbol(q)} : id \notin DOMAIN alt /\ id \notin fresh
        BY <1>3, <4>3, KindsOfIds, SameIds, SameSymbol
      <4>6. \A id \in {Ffi(q), Abi(q), Symbol(q)} : \A o : Has(os, id, o) => Has(new, id, o)
        <5> HIDE DEF fresh
        <5> QED BY <1>2, <4>5 DEF Has
      <4> QED BY <4>2, <4>4, <4>6 DEF Binds
    <3> QED BY <3>1, <3>2
  <2> QED BY <2>1 DEF HasBindings
<1>9. AllNamed(facts, new)
  <2>1. \A id \in DOMAIN alt : Named(facts, id)
    BY DEF Refuses, Named
  <2>2. \A id \in fresh : Named(facts, id)
    BY <1>6 DEF Named
  <2> QED BY <1>2, <2>1, <2>2 DEF Built, AllNamed
<1> QED BY <1>5, <1>7, <1>8, <1>9 DEF Built

(* An artifact is made for one package.                                    *)
LEMMA MadeOnce ==
  ASSUME NEW facts, Facts(facts), DeclaredOnce(facts), NEW i, NEW j, Makes(facts, i), Makes(facts, j),
         ArtifactAt(facts, i) = ArtifactAt(facts, j)
  PROVE  facts.candidates[i].package = facts.candidates[j].package
<1>1. ASSUME NEW k, Makes(facts, k)
      PROVE  MadeBy(facts, k)[1] \in Elements(facts.outputs) /\ MadeBy(facts, k)[1].package = facts.candidates[k].package
  <2>1. PICK p, kind, outs : /\ p = facts.candidates[k].package /\ outs = MadeBy(facts, k)
                             /\ outs = Thin(facts.outputs, DeclaredBy(facts, p, kind))
    BY DEF MadeBy, OutputsIn
  <2>2. IsList(outs) /\ Elements(outs) = Elements(facts.outputs) \cap DeclaredBy(facts, p, kind)
    BY <2>1, FactsAreLists, ThinElements
  <2>3. outs # <<>>
    BY <1>1, <2>1 DEF Makes
  <2>4. DOMAIN outs = 1 .. Len(outs) /\ Len(outs) \in Nat /\ Len(outs) # 0
    BY <2>2, <2>3, ListIsSeq DEF IsList
  <2>5. outs[1] \in Elements(outs)
    BY <2>4 DEF Elements
  <2> QED BY <2>1, <2>2, <2>5 DEF DeclaredBy
<1>2. MadeBy(facts, i)[1].id = MadeBy(facts, j)[1].id
  BY SameIds DEF ArtifactAt
<1> QED BY <1>1, <1>2 DEF DeclaredOnce

LEMMA ArtifactBuilds ==
  ASSUME NEW facts, Facts(facts), DeclaredOnce(facts), NEW n, NEW J, NEW os, Built(facts, n, J, os),
         NEW i \in ChosenIn(facts), Makes(facts, i),
         \A j \in J : facts.candidates[j].package = facts.candidates[i].package => j = i,
         NEW new, With(new, os, ArtifactAt(facts, i), MadeFrom(facts, i))
  PROVE  Built(facts, n, J \cup {i}, new)
<1>1. KindOf(ArtifactAt(facts, i)) = "ArtifactProduction"
  BY KindsOfIds DEF ArtifactAt
<1>2. /\ Keeps(os, new, {"SourceModule", "Lowering"}) /\ Keeps(os, new, {"PackageSelection"})
      /\ Keeps(os, new, {"SemanticFfi", "AbiTarget", "Symbol"})
  BY <1>1 DEF Keeps, With, Has
<1>3. /\ HasBasis(facts, new) /\ HasChoice(facts, RootsIn(facts) \cup ServedIn(facts, n), new)
      /\ HasBindings(facts, n, new)
  BY <1>2, KeepsBasis, KeepsChoice, KeepsBindings DEF Built
<1>4. AllNamed(facts, new)
  BY DEF AllNamed, Built, With, Named
<1>5. HasArtifacts(facts, J \cup {i}, new)
  <2>1. ASSUME NEW j \in J \cup {i}, Makes(facts, j)
        PROVE  Has(new, ArtifactAt(facts, j), MadeFrom(facts, j))
    <3>1. CASE j = i
      BY <3>1 DEF With, Has
    <3>2. CASE j # i
      <4>1. Has(os, ArtifactAt(facts, j), MadeFrom(facts, j))
        BY <2>1, <3>2 DEF Built, HasArtifacts
      <4>2. ArtifactAt(facts, j) # ArtifactAt(facts, i)
        BY <2>1, <3>2, MadeOnce
      <4> QED BY <4>1, <4>2 DEF With, Has
    <3> QED BY <3>1, <3>2
  <2> QED BY <2>1 DEF HasArtifacts
<1> QED BY <1>3, <1>4, <1>5 DEF Built

(* The lowering that an artifact waits for.                                *)
LEMMA LoweringNamed ==
  ASSUME NEW facts, NEW os, HasBasis(facts, os), AllNamed(facts, os), NEW i
  PROVE  Satisfied(AfterLowering(facts.candidates[i].package, IdAt(facts, i), os)) = MadeFrom(facts, i)
<1>1. PICK p : p = facts.candidates[i].package
  OBVIOUS
<1>2. \A k : KindOf(IdAt(facts, k)) = "PackageSelection" /\ KindOf(ArtifactAt(facts, k)) = "ArtifactProduction"
  BY KindsOfIds DEF IdAt, ArtifactAt
<1>3. Lowering(p) \in DOMAIN os <=> p \in DOMAIN facts.lowerings
  <2>1. p \in DOMAIN facts.lowerings => Lowering(p) \in DOMAIN os
    BY DEF HasBasis, Has
  <2>2. Named(facts, Lowering(p)) => p \in DOMAIN facts.lowerings
    BY <1>2, KindsOfIds, SameIds DEF Named
  <2> QED BY <2>1, <2>2 DEF AllNamed
<1>4. AfterLowering(p, IdAt(facts, i), os) =
        {IdAt(facts, i)} \cup {Lowering(q) : q \in {p} \cap DOMAIN facts.lowerings}
  BY <1>3 DEF AfterLowering
<1> QED BY <1>1, <1>4 DEF MadeFrom

Registers(facts, n, reg) ==
  reg = {facts.candidates[j].package : j \in {k \in ServedIn(facts, n) : Makes(facts, k)}}

LEMMA ServedIsChosen ==
  ASSUME NEW facts, Facts(facts), NEW n \in Nat, n <= Len(facts.requirements)
  PROVE  ServedIn(facts, n) \subseteq ChosenIn(facts)
<1>1. \A k \in 1 .. n : facts.requirements[k] \in Elements(facts.requirements)
  BY FactsAreLists DEF Elements, IsList
<1> QED BY <1>1 DEF ServedIn, ChosenIn

LEMMA ProviderBuilds ==
  ASSUME Regular(given), next \in Nat \ {0}, ServedSuit(given, next - 1),
         Built(given, next - 1, ServedIn(given, next - 1), obligations),
         Registers(given, next - 1, registered), SelectProvider
  PROVE  /\ ServedSuit(given, next) /\ Built(given, next, ServedIn(given, next), obligations')
         /\ Registers(given, next, registered')
<1>1. PICK r, n : r = given.requirements[next] /\ n = next
  OBVIOUS
<1>2. n \in Nat \ {0} /\ n <= Len(given.requirements) /\ Refusals(r) = {} /\ Facts(given)
  BY <1>1 DEF SelectProvider, Regular
<1>3. Suits(given, r)
  BY <1>2, AcceptedSuits
<1>4. ServedSuit(given, n)
  <2>1. \A k \in 1 .. n : k \in 1 .. n - 1 \/ k = n
    BY <1>2
  <2> QED BY <1>1, <1>3, <2>1 DEF ServedSuit
<1>5. PICK i \in Matching(r, "Target") :
        LET c    == given.candidates[i]
            os   == Selected(r, c, obligations)
            outs == OutputsOf(c.package, ArchiveKind[c.ecosystem])
        IN IF outs # <<>> /\ c.package \notin registered
           THEN /\ registered' = registered \cup {c.package}
                /\ obligations' =
                     Insert(os, Artifact(outs[1].id), Satisfied(AfterLowering(c.package, Selection(c), os)))
           ELSE obligations' = os /\ UNCHANGED registered
  BY <1>1 DEF SelectProvider
<1>6. MatchIn(given, r) = {i} /\ i \in DOMAIN given.candidates
  BY <1>3, <1>5, GivenMatches DEF Suits, MatchIn
<1>7. PICK c, os : c = given.candidates[i] /\ os = Selected(r, c, obligations)
  OBVIOUS
<1>8. /\ c.package = r.provider /\ r \in Elements(given.requirements) /\ i \in ChosenIn(given)
      /\ c.package \in ProvidersIn(given)
  BY <1>1, <1>2, <1>6, <1>7, FactsAreLists DEF MatchIn, Elements, IsList, ChosenIn, ProvidersIn
<1>9. OutputsOf(c.package, ArchiveKind[c.ecosystem]) = MadeBy(given, i)
  BY <1>2, <1>7, <1>8, GivenOutputs DEF MadeBy
<1>10. PICK alt : /\ \A m : AlternativesRejected(c, m) = InsertAll(m, alt)
                  /\ Refuses(given, i, alt)
  BY <1>2, <1>6, <1>7, AlternativesRefuse DEF Refuses
<1>11. Bounds(given, obligations, i, r, alt, os)
  <2>1. PICK f1, f2, f3, f4 :
          /\ f1 = Insert(obligations, Ffi(r), Satisfied({Source(r.source)}))
          /\ f2 = Insert(f1, Selection(c), Obligation("Selected", SourcesOf(c), {}))
          /\ f3 = InsertAll(f2, alt)
          /\ f4 = Insert(f3, Abi(r), Satisfied({Ffi(r), Selection(c)}))
    OBVIOUS
  <2>2. os = Insert(f4, Symbol(r), Satisfied({Abi(r)}))
    BY <1>7, <1>10, <2>1 DEF Selected
  <2>3. /\ With(f1, obligations, Ffi(r), Satisfied({Source(r.source)}))
        /\ With(f2, f1, Selection(c), Obligation("Selected", SourcesOf(c), {}))
        /\ WithAll(f3, f2, alt)
        /\ With(f4, f3, Abi(r), Satisfied({Ffi(r), Selection(c)}))
        /\ With(os, f4, Symbol(r), Satisfied({Abi(r)}))
    BY <2>1, <2>2, InsertValues, InsertAllValues
  <2>4. Selection(c) = IdAt(given, i) /\ Obligation("Selected", SourcesOf(c), {}) = Taken(given.candidates[i])
    BY <1>7 DEF IdAt, Taken
  <2> QED BY ONLY <2>3, <2>4 DEF Bounds
<1>12. Built(given, n, ServedIn(given, n - 1), os)
  BY <1>1, <1>2, <1>4, <1>6, <1>10, <1>11, BoundBuilds DEF Regular
<1>13. ServedIn(given, n) = ServedIn(given, n - 1) \cup {i}
  <2>1. MatchIn(given, given.requirements[n]) = {i} /\ n \in Nat \ {0}
    BY <1>1, <1>2, <1>6
  <2> QED BY ONLY <2>1, ServedNext
<1>14. ASSUME NEW j \in ServedIn(given, n - 1), given.candidates[j].package = c.package PROVE j = i
  BY <1>1, <1>2, <1>4, <1>6, <1>7, <1>14, ChosenBefore DEF Regular
<1>15. c.package \in registered <=> i \in ServedIn(given, n - 1) /\ Makes(given, i)
  BY <1>1, <1>7, <1>14 DEF Registers
<1>16. CASE MadeBy(given, i) # <<>> /\ c.package \notin registered
  <2>1. /\ registered' = registered \cup {c.package}
        /\ obligations' = Insert(os, Artifact(MadeBy(given, i)[1].id),
                                 Satisfied(AfterLowering(c.package, Selection(c), os)))
    BY <1>5, <1>7, <1>9, <1>16
  <2>2. Satisfied(AfterLowering(c.package, Selection(c), os)) = MadeFrom(given, i)
    <3>1. HasBasis(given, os) /\ AllNamed(given, os)
      BY <1>12 DEF Built
    <3>2. Satisfied(AfterLowering(given.candidates[i].package, IdAt(given, i), os)) = MadeFrom(given, i)
      BY ONLY <3>1, LoweringNamed
    <3> QED BY <1>7, <3>2 DEF IdAt
  <2>3. PICK new : new = obligations'
    OBVIOUS
  <2>4. With(new, os, ArtifactAt(given, i), MadeFrom(given, i))
    BY <2>1, <2>2, <2>3, InsertValues DEF ArtifactAt
  <2>5. Makes(given, i)
    BY <1>16 DEF Makes
  <2>6. Built(given, n, ServedIn(given, n - 1) \cup {i}, new)
    BY <1>2, <1>7, <1>8, <1>12, <1>14, <2>4, <2>5, ArtifactBuilds DEF Regular
  <2>7. Registers(given, n, registered')
    BY <1>1, <1>7, <1>13, <2>1, <2>5 DEF Registers
  <2> QED BY <1>1, <1>4, <1>13, <2>3, <2>6, <2>7
<1>17. CASE ~(MadeBy(given, i) # <<>> /\ c.package \notin registered)
  <2>1. obligations' = os /\ registered' = registered
    BY <1>5, <1>7, <1>9, <1>17
  <2>2. Makes(given, i) => i \in ServedIn(given, n - 1)
    BY <1>15, <1>17 DEF Makes
  <2>3. Registers(given, n, registered)
    BY <1>1, <1>13, <2>2 DEF Registers
  <2>4. HasArtifacts(given, ServedIn(given, n), os)
    BY <1>12, <1>13, <2>2 DEF Built, HasArtifacts
  <2>5. Built(given, n, ServedIn(given, n), os)
    BY <1>12, <2>4 DEF Built
  <2> QED BY <1>1, <1>4, <2>1, <2>3, <2>5
<1> QED BY <1>16, <1>17

(* All requirements served, and an artifact of every chosen candidate; the *)
(* roots are ours.                                                         *)
Finished(facts, os) ==
  /\ Built(facts, Len(facts.requirements), ChosenIn(facts), os)
  /\ \A i \in RootsIn(facts) : facts.candidates[i].ecosystem \in {"Cargo", "Nimble"}

LEMMA AllServed ==
  ASSUME NEW facts, Facts(facts)
  PROVE  ChosenIn(facts) = RootsIn(facts) \cup ServedIn(facts, Len(facts.requirements))
<1>1. DOMAIN facts.requirements = 1 .. Len(facts.requirements)
  BY FactsAreLists
<1> QED BY <1>1 DEF ChosenIn, ServedIn, Elements

LEMMA RootArtifactsBuild ==
  ASSUME Regular(given), OneRoot(given), NEW n \in Nat, n = Len(given.requirements), ServedSuit(given, n),
         Built(given, n, ServedIn(given, n), obligations), RegisterRoots
  PROVE  Decided(given) /\ Finished(given, obligations')
<1> DEFINE Of1(i) == given.candidates[i]
           Outs(i) == OutputsOf(Of1(i).package, RootKind[Of1(i).ecosystem])
           I == {i \in RootCandidates : Outs(i) # <<>>}
           Key(i) == Artifact(Outs(i)[1].id)
           Value(i) == Satisfied(AfterLowering(Of1(i).package, Selection(Of1(i)), obligations))
           Last1(k) == CHOOSE i \in I : Key(i) = k /\ \A j \in I : Key(j) = k => j <= i
           S == {Key(i) : i \in I}
<1>1. Facts(given) /\ RootCandidates = RootsIn(given) /\ HasBasis(given, obligations) /\ AllNamed(given, obligations)
  BY GivenMatches DEF Regular, Built
<1>2. PICK made : made = [k \in S |-> Value(Last1(k))]
  OBVIOUS
<1>3. obligations' = InsertAll(obligations, made)
  BY <1>2 DEF RegisterRoots, Inserted
<1>4. PICK new : new = obligations'
  OBVIOUS
<1>5. WithAll(new, obligations, made)
  BY <1>3, <1>4, InsertAllValues
<1>6. ASSUME NEW i \in RootsIn(given)
      PROVE  Outs(i) = MadeBy(given, i) /\ Value(i) = MadeFrom(given, i)
  <2>1. Outs(i) = MadeBy(given, i)
    BY <1>1, GivenOutputs DEF MadeBy, RootsIn
  <2>2. Satisfied(AfterLowering(given.candidates[i].package, IdAt(given, i), obligations)) = MadeFrom(given, i)
    BY <1>1, LoweringNamed
  <2> QED BY <2>1, <2>2 DEF IdAt
<1>7. DOMAIN made = S /\ \A k \in S : made[k] = Value(Last1(k))
  <2> HIDE DEF S, Last1, Value
  <2> QED BY <1>2
<1> HIDE DEF Outs, Value
<1>8. I \subseteq RootsIn(given) /\ \A i \in I : Makes(given, i) /\ Key(i) = ArtifactAt(given, i)
  BY <1>1, <1>6 DEF Makes, ArtifactAt
<1>9. \A i \in RootsIn(given) : Makes(given, i) => i \in I
  BY <1>1, <1>6 DEF Makes
<1>10. RootsIn(given) \subseteq Nat /\ RootsIn(given) \subseteq ChosenIn(given)
  BY <1>1, FactsAreLists DEF RootsIn, ChosenIn
<1>11. \A i, j \in I : Key(i) = Key(j) => i = j
  <2>1. ASSUME NEW i \in I, NEW j \in I, Key(i) = Key(j) PROVE i = j
    <3> HIDE DEF I, Key
    <3>1. i \in RootsIn(given) /\ j \in RootsIn(given) /\ Makes(given, i) /\ Makes(given, j)
          /\ ArtifactAt(given, i) = ArtifactAt(given, j)
      BY <1>8, <2>1
    <3>2. given.candidates[i].package = given.candidates[j].package
      BY <1>1, <3>1, MadeOnce DEF Regular
    <3> QED BY <3>1, <3>2 DEF OneRoot
  <2> QED BY <2>1
<1> HIDE DEF I
<1>12. ASSUME NEW i \in I PROVE Key(i) \in DOMAIN made /\ made[Key(i)] = MadeFrom(given, i)
  <2>1. Key(i) \in S
    OBVIOUS
  <2>2. i <= i /\ \A j \in I : Key(j) = Key(i) => j <= i
    BY <1>8, <1>10, <1>11
  <2>3. Last1(Key(i)) = i
    <3> HIDE DEF Key
    <3> QED BY <1>11, <2>2
  <2>4. made[Key(i)] = Value(i)
    <3> HIDE DEF S, Last1, Key
    <3> QED BY <1>7, <2>1, <2>3
  <2> QED BY <1>6, <1>7, <1>8, <2>1, <2>4
<1>13. \A id \in S : \E i \in I : id = Key(i)
  OBVIOUS
<1> HIDE DEF S, Key
<1>14. \A id \in DOMAIN made : KindOf(id) = "ArtifactProduction" /\ \E i \in ChosenIn(given) :
         Makes(given, i) /\ id = ArtifactAt(given, i)
  BY <1>7, <1>8, <1>10, <1>13, KindsOfIds DEF ArtifactAt
<1>15. /\ Keeps(obligations, new, {"SourceModule", "Lowering"}) /\ Keeps(obligations, new, {"PackageSelection"})
       /\ Keeps(obligations, new, {"SemanticFfi", "AbiTarget", "Symbol"})
  BY <1>5, <1>14 DEF Keeps, WithAll, Has
<1>16. /\ HasBasis(given, new) /\ HasChoice(given, RootsIn(given) \cup ServedIn(given, n), new)
       /\ HasBindings(given, n, new)
  BY <1>15, KeepsBasis, KeepsChoice, KeepsBindings DEF Built
<1>17. AllNamed(given, new)
  BY <1>1, <1>5, <1>14 DEF AllNamed, WithAll, Named
<1>18. HasArtifacts(given, ChosenIn(given), new)
  <2>1. ASSUME NEW i \in ChosenIn(given), Makes(given, i)
        PROVE  Has(new, ArtifactAt(given, i), MadeFrom(given, i))
    <3>1. CASE i \in RootsIn(given)
      BY <1>5, <1>8, <1>9, <1>12, <2>1, <3>1 DEF WithAll, Has
    <3>2. CASE i \notin RootsIn(given)
      <4>1. i \in ServedIn(given, n)
        BY <1>1, <2>1, <3>2, AllServed
      <4>2. Has(obligations, ArtifactAt(given, i), MadeFrom(given, i))
        BY <2>1, <4>1 DEF Built, HasArtifacts
      <4>3. ASSUME ArtifactAt(given, i) \in DOMAIN made PROVE FALSE
        <5>1. PICK j \in I : ArtifactAt(given, i) = Key(j)
          BY <1>7, <1>13, <4>3
        <5>2. j \in RootsIn(given) /\ Makes(given, j) /\ ArtifactAt(given, i) = ArtifactAt(given, j)
          BY <1>8, <5>1
        <5>3. given.candidates[i].package = given.candidates[j].package
          BY <1>1, <2>1, <5>2, MadeOnce DEF Regular
        <5> QED BY <2>1, <3>2, <5>2, <5>3 DEF RootsIn, ChosenIn
      <4> QED BY <1>5, <4>2, <4>3 DEF WithAll, Has
    <3> QED BY <3>1, <3>2
  <2> QED BY <2>1 DEF HasArtifacts
<1>19. Built(given, n, ChosenIn(given), new)
  BY <1>16, <1>17, <1>18 DEF Built
<1>20. \A r \in Elements(given.requirements) : Suits(given, r)
  <2>1. DOMAIN given.requirements = 1 .. Len(given.requirements)
    BY <1>1, FactsAreLists
  <2> QED BY <2>1 DEF ServedSuit, Elements
<1>21. ExecutablesIn(given) # <<>>
  BY <1>1, GivenExecutables DEF RegisterRoots
<1>22. \A i \in RootsIn(given) : given.candidates[i].ecosystem \in {"Cargo", "Nimble"}
  <2> SUFFICES ASSUME NEW i \in RootsIn(given) PROVE Of1(i).ecosystem \in {"Cargo", "Nimble"}
    OBVIOUS
  <2>1. Of1(i) \in Elements(given.candidates) /\ Of1(i).package \in Roots
    BY <1>1 DEF RootCandidates, Elements
  <2>2. DOMAIN RootKind = {"Cargo", "Nimble"}
    BY DEF RootKind
  <2> QED BY <2>1, <2>2 DEF RegisterRoots, ForeignRoots
<1> QED BY <1>4, <1>19, <1>20, <1>21, <1>22 DEF Finished, Decided

(* The actions that discharge them.                                        *)
CompileIn(facts, c, kind, outputKind) ==
  IF c.package \notin DOMAIN facts.lowerings THEN <<>>
  ELSE LET outs == OutputsIn(facts, c.package, outputKind) IN
       <<Action(<<kind, c.package>>, kind, {Source(facts.lowerings[c.package])},
                First(outs), Artifacts(outs), {})>>

ArchiveIn(facts, c, kind, compiles, objects) ==
  LET outs == OutputsIn(facts, c.package, ArchiveKind[c.ecosystem]) IN
  Action(<<kind, c.package, c.version>>, kind,
         IF c.ecosystem = "C" THEN All(objects) ELSE First(objects),
         First(outs), Artifacts(outs), {a.id : a \in Elements(compiles)})

ArchivedIn(facts, c, kind, objectKind) ==
  LET objects  == OutputsIn(facts, c.package, objectKind)
      compiles == CompileObjects(c, kind, objects)
  IN Append(compiles, ArchiveIn(facts, c, "ArchiveStaticLibrary", compiles, objects))

ChainIn(facts, c) ==
  CASE c.ecosystem = "Cargo"  -> CompileIn(facts, c, "CompileRustObject", "RustObject")
    [] c.ecosystem = "Nimble" -> CompileIn(facts, c, "CompileNimStaticLibrary", "NimStaticLibrary")
    [] c.ecosystem = "C"      -> ArchivedIn(facts, c, "CompileCObject", "CObject")
    [] c.ecosystem = "Cpp"    -> ArchivedIn(facts, c, "CompileCppAdapterObject", "CppAdapterObject")

Block(facts, os, c)  == IF Picked(os, c) THEN ChainIn(facts, c) ELSE <<>>
Planned(facts, os)   == FlattenSeq([i \in DOMAIN facts.candidates |-> Block(facts, os, facts.candidates[i])])

(* What resolve returns when it accepts them.                              *)
Accepted(facts, result) ==
  /\ result.verdict = "accepted" /\ Decided(facts)
  /\ \E os, as, exe :
       /\ Finished(facts, os) /\ as = Planned(facts, os) /\ exe = ExecutablesIn(facts)[1].id
       /\ result.obligations = Closing(Assigned(os, as), exe)
       /\ result.actions = as \o LinkAndPublish(Assigned(os, as), as, exe)
  /\ result.violations = Violations(facts, result.obligations, result.actions)

LEMMA GivenChain ==
  ASSUME Facts(given), NEW c, c.ecosystem \in {"Cargo", "Nimble", "C", "Cpp"}
  PROVE  Chain(c) = ChainIn(given, c)
<1>1. ASSUME NEW kind, NEW outputKind PROVE Compile(c, kind, outputKind) = CompileIn(given, c, kind, outputKind)
  <2>1. OutputsOf(c.package, outputKind) = OutputsIn(given, c.package, outputKind)
    BY GivenOutputs
  <2> QED BY <2>1 DEF Compile, CompileIn
<1>2. ASSUME NEW kind, NEW objectKind PROVE CompileAndArchive(c, kind, objectKind) = ArchivedIn(given, c, kind, objectKind)
  <2>1. /\ OutputsOf(c.package, objectKind) = OutputsIn(given, c.package, objectKind)
        /\ OutputsOf(c.package, ArchiveKind[c.ecosystem]) = OutputsIn(given, c.package, ArchiveKind[c.ecosystem])
    BY GivenOutputs
  <2>2. PICK objects, compiles : /\ objects = OutputsIn(given, c.package, objectKind)
                                 /\ compiles = CompileObjects(c, kind, objects)
    OBVIOUS
  <2>3. Archive(c, "ArchiveStaticLibrary", compiles, objects) = ArchiveIn(given, c, "ArchiveStaticLibrary", compiles, objects)
    BY <2>1 DEF Archive, ArchiveIn
  <2> QED BY <2>1, <2>2, <2>3 DEF CompileAndArchive, ArchivedIn
<1>3. CASE c.ecosystem = "Cargo"
  BY <1>1, <1>3 DEF Chain, ChainIn
<1>4. CASE c.ecosystem = "Nimble"
  BY <1>1, <1>4 DEF Chain, ChainIn
<1>5. CASE c.ecosystem = "C"
  BY <1>2, <1>5 DEF Chain, ChainIn
<1>6. CASE c.ecosystem = "Cpp"
  BY <1>2, <1>6 DEF Chain, ChainIn
<1> QED BY <1>3, <1>4, <1>5, <1>6

LEMMA GivenPlan ==
  ASSUME Facts(given), BuildActions
  PROVE  actions' = Planned(given, obligations) /\ obligations' = Assigned(obligations, actions')
<1>1. ASSUME NEW i \in DOMAIN given.candidates
      PROVE  (IF IsSelected(given.candidates[i]) THEN Chain(given.candidates[i]) ELSE <<>>)
             = Block(given, obligations, given.candidates[i])
  <2>1. given.candidates[i].ecosystem \in {"Cargo", "Nimble", "C", "Cpp"}
    BY DEF Facts, Elements
  <2>2. Chain(given.candidates[i]) = ChainIn(given, given.candidates[i])
    BY <2>1, GivenChain
  <2>3. IsSelected(given.candidates[i]) <=> Picked(obligations, given.candidates[i])
    BY DEF IsSelected, Picked
  <2> QED BY <2>2, <2>3 DEF Block
<1>2. [i \in DOMAIN given.candidates |-> IF IsSelected(given.candidates[i]) THEN Chain(given.candidates[i]) ELSE <<>>]
      = [i \in DOMAIN given.candidates |-> Block(given, obligations, given.candidates[i])]
  BY <1>1
<1> QED BY <1>2 DEF BuildActions, Planned

LEMMA CloseAccepts ==
  ASSUME Regular(given), Decided(given), NEW os, Finished(given, os),
         actions = Planned(given, os), obligations = Assigned(os, actions), Close
  PROVE  \E result : Return(result) /\ Accepted(given, result)
<1>1. PICK exe : exe = Executables[1].id
  OBVIOUS
<1>2. PICK result :
        result = Result("accepted", Closing(obligations, exe), actions \o LinkAndPublish(obligations, actions, exe),
                        Violations(given, Closing(obligations, exe), actions \o LinkAndPublish(obligations, actions, exe)))
  OBVIOUS
<1>3. Return(result)
  BY <1>1, <1>2 DEF Close
<1>4. /\ result.verdict = "accepted" /\ result.obligations = Closing(obligations, exe)
      /\ result.actions = actions \o LinkAndPublish(obligations, actions, exe)
      /\ result.violations = Violations(given, result.obligations, result.actions)
  BY <1>2 DEF Result
<1>5. exe = ExecutablesIn(given)[1].id
  BY <1>1, GivenExecutables DEF Regular
<1> QED BY <1>3, <1>4, <1>5 DEF Accepted

-----------------------------------------------------------------------------
(* What the demand reaches *)

(* Where all but the start is in D, as many steps as D has elements do.    *)
LEMMA SpreadFills ==
  ASSUME NEW U, NEW start, NEW s, NEW D, Confined(U, start, s, D), U = start \cup D,
         NEW f, Spreads(f, start, s), NEW k \in Nat, Cardinality(D) <= k
  PROVE  LeastClosed(f[k], U, start, s)
<1>1. /\ f[0] = start
      /\ \A n \in Nat : f[n + 1] = UNION {{x} \cup s[x] : x \in f[n]}
  BY DEF Spreads
<1>2. /\ start \subseteq U /\ (\A x \in U : s[x] \subseteq U)
      /\ IsFiniteSet(D) /\ Cardinality(D) \in Nat
  BY FS_CardinalityType DEF Confined
<1>3. \A n \in Nat : f[n] \subseteq U
  <2> DEFINE T == {n \in Nat : f[n] \subseteq U}
  <2>1. 0 \in T
    BY <1>1, <1>2
  <2>2. ASSUME NEW n \in Nat, n \in T PROVE n + 1 \in T
    BY <1>1, <1>2, <2>2
  <2> HIDE DEF T
  <2>3. Nat \subseteq T
    BY <2>1, <2>2, Induction
  <2> QED BY <2>3 DEF T
<1>4. \A n \in Nat : f[n] \subseteq f[n + 1]
  BY <1>1
<1>5. \A n \in Nat : start \subseteq f[n]
  <2> DEFINE T == {n \in Nat : start \subseteq f[n]}
  <2>1. 0 \in T
    BY <1>1
  <2>2. ASSUME NEW n \in Nat, n \in T PROVE n + 1 \in T
    BY <1>4, <2>2
  <2> HIDE DEF T
  <2>3. Nat \subseteq T
    BY <2>1, <2>2, Induction
  <2> QED BY <2>3 DEF T
<1> DEFINE New(n) == f[n] \ start
<1>6. \A n \in Nat : /\ IsFiniteSet(New(n)) /\ Cardinality(New(n)) \in Nat
                     /\ Cardinality(New(n)) <= Cardinality(D)
  <2>1. \A n \in Nat : New(n) \subseteq D
    BY <1>3
  <2> HIDE DEF New
  <2> QED BY <1>2, <2>1, FS_Subset, FS_CardinalityType
<1>7. ASSUME NEW n \in Nat, f[n + 1] # f[n] PROVE Cardinality(New(n + 1)) >= Cardinality(New(n)) + 1
  <2>1. New(n) \subseteq New(n + 1) /\ New(n) # New(n + 1)
    BY <1>4, <1>5, <1>7
  <2> HIDE DEF New
  <2>2. Cardinality(New(n)) <= Cardinality(New(n + 1)) /\ Cardinality(New(n)) # Cardinality(New(n + 1))
    BY <1>6, <2>1, FS_Subset
  <2> QED BY <1>6, <2>2
<1>8. \A n \in Nat : f[n + 1] = f[n] \/ Cardinality(New(n + 1)) >= n + 1
  <2> DEFINE T == {n \in Nat : f[n + 1] = f[n] \/ Cardinality(New(n + 1)) >= n + 1}
  <2>1. 0 \in T
    <3> HIDE DEF New
    <3>1. Cardinality(New(0)) \in Nat /\ Cardinality(New(0 + 1)) \in Nat
      BY <1>6
    <3>2. f[0 + 1] # f[0] => Cardinality(New(0 + 1)) >= 1
      BY <1>7, <3>1
    <3> QED BY <3>2
  <2>2. ASSUME NEW n \in Nat, n \in T PROVE n + 1 \in T
    <3>1. CASE f[n + 1] = f[n]
      <4>1. f[(n + 1) + 1] = f[n + 1]
        <5>1. n + 1 \in Nat
          OBVIOUS
        <5>2. /\ f[(n + 1) + 1] = UNION {{x} \cup s[x] : x \in f[n + 1]}
              /\ f[n + 1] = UNION {{x} \cup s[x] : x \in f[n]}
          BY <1>1, <5>1
        <5> QED BY <3>1, <5>2
      <4> HIDE DEF New
      <4> QED BY <4>1
    <3>2. CASE f[n + 1] # f[n]
      <4> HIDE DEF New
      <4>1. Cardinality(New(n + 1)) >= n + 1
        BY <2>2, <3>2
      <4>2. f[(n + 1) + 1] # f[n + 1] => Cardinality(New((n + 1) + 1)) >= Cardinality(New(n + 1)) + 1
        BY <1>7
      <4>3. Cardinality(New(n + 1)) \in Nat /\ Cardinality(New((n + 1) + 1)) \in Nat
        BY <1>6
      <4> QED BY <4>1, <4>2, <4>3
    <3> QED BY <3>1, <3>2
  <2> HIDE DEF T
  <2>3. Nat \subseteq T
    BY <2>1, <2>2, Induction
  <2> QED BY <2>3 DEF T
<1>9. f[k + 1] = f[k]
  <2> HIDE DEF New
  <2>1. Cardinality(New(k + 1)) \in Nat /\ Cardinality(New(k + 1)) <= Cardinality(D)
    BY <1>6
  <2>2. ~(Cardinality(New(k + 1)) >= k + 1)
    BY <1>2, <2>1
  <2> QED BY <1>8, <2>2
<1>10. LeastClosed(f[k + 1], U, start, s)
  <2>1. k + 1 \in Nat /\ Cardinality(D) < k + 1
    BY <1>2
  <2> QED BY <2>1, SpreadSettles
<1> QED BY <1>9, <1>10

(* What the sources of a package require.                                  *)
RequiredBy(facts, p) ==
  {r.provider : r \in {q \in Elements(facts.requirements) :
     \E s \in facts.sources : s.id = q.source /\ s.package = p}}

LEMMA FewProviders ==
  ASSUME NEW facts, Facts(facts)
  PROVE  /\ IsFiniteSet(ProvidersIn(facts)) /\ Len(facts.requirements) \in Nat
         /\ Cardinality(ProvidersIn(facts)) <= Len(facts.requirements)
<1>1. PICK rs, n : rs = facts.requirements /\ n = Len(rs)
  OBVIOUS
<1>2. DOMAIN rs = 1 .. n /\ n \in Nat
  BY <1>1, FactsAreLists DEF IsList
<1> DEFINE P == {rs[i].provider : i \in 1 .. n}
           f == [i \in 1 .. n |-> rs[i].provider]
<1>3. ProvidersIn(facts) = P
  BY <1>1, <1>2 DEF ProvidersIn, Elements
<1>4. f \in Surjection(1 .. n, P)
  BY DEF Surjection
<1>5. ExistsSurjection(1 .. n, P)
  <2> HIDE DEF f, P
  <2> QED BY <1>4 DEF ExistsSurjection
<1>6. IsFiniteSet(1 .. n)
  BY <1>2, FS_Interval
<1> HIDE DEF f, P
<1>7. IsFiniteSet(P)
  BY <1>4, <1>6, FS_Surjection
<1>8. Cardinality(P) <= n
  BY <1>2, <1>5, FS_SurjCardinalityBound
<1> QED BY <1>1, <1>2, <1>3, <1>7, <1>8

LEMMA ReachedIsLeast ==
  ASSUME NEW facts, Facts(facts)
  PROVE  /\ facts.demand \in Reached(facts)
         /\ \A p \in Reached(facts) : RequiredBy(facts, p) \subseteq Reached(facts)
         /\ \A S : facts.demand \in S /\ (\A p \in S : RequiredBy(facts, p) \subseteq S) => Reached(facts) \subseteq S
<1> DEFINE start == {facts.demand}
           D == ProvidersIn(facts)
           U == start \cup D
           Next1(p) == RequiredBy(facts, p)
           s == [p \in U |-> Next1(p)]
           Body(f) == [n \in Nat |-> IF n = 0 THEN start ELSE UNION {{p} \cup Next1(p) : p \in f[n-1]}]
           from == CHOOSE f : f = Body(f)
           k == Len(facts.requirements)
<1>0. \A p : Next1(p) \subseteq D
  BY DEF RequiredBy, ProvidersIn
<1>1. start \in SUBSET U /\ \A p \in U : s[p] = Next1(p) /\ s[p] \subseteq U
  <2> HIDE DEF D, Next1
  <2> QED BY <1>0
<1>2. Reached(facts) = from[k]
  BY DEF Reached, Closure, RequiredBy
<1>3. from = Body(from)
  <2>1. PICK f : /\ f = [n \in Nat |-> f[n]]
                 /\ Spreads(f, start, s)
                 /\ \A n \in Nat : f[n] \subseteq U
    <3> HIDE DEF U, s, start
    <3> QED BY <1>1, SpreadExists
  <2>2. ASSUME NEW n \in Nat PROVE f[n] = Body(f)[n]
    <3>1. CASE n = 0
      <4> HIDE DEF Next1, U, s
      <4> QED BY <2>1, <3>1 DEF Spreads
    <3>2. CASE n # 0
      <4>1. n - 1 \in Nat /\ (n - 1) + 1 = n
        BY <3>2
      <4> HIDE DEF U, s, Next1, start
      <4>2. f[n] = UNION {{p} \cup s[p] : p \in f[n-1]}
        BY <2>1, <4>1 DEF Spreads
      <4>3. \A p \in f[n-1] : s[p] = Next1(p)
        BY <1>1, <2>1, <4>1
      <4> QED BY <3>2, <4>2, <4>3
    <3> QED BY <3>1, <3>2
  <2>3. f = Body(f)
    <3> HIDE DEF Next1
    <3>1. Body(f) = [n \in Nat |-> Body(f)[n]]
      OBVIOUS
    <3> HIDE DEF Body
    <3> QED BY <2>1, <2>2, <3>1
  <2> HIDE DEF Body
  <2> QED BY <2>3
<1>4. /\ start \subseteq from[k] /\ from[k] \subseteq U
      /\ \A p \in from[k] : Next1(p) \subseteq from[k]
      /\ \A S : start \subseteq S /\ (\A p \in S \cap U : Next1(p) \subseteq S) => from[k] \subseteq S
  <2> DEFINE V == U \cup UNION {from[n] : n \in Nat}
             r == [p \in V |-> Next1(p)]
  <2>1. \A p \in V : r[p] = Next1(p) /\ r[p] \subseteq U
    <3> HIDE DEF Next1, D, from, start
    <3> QED BY <1>0
  <2>2. Spreads(from, start, r)
    <3>1. from[0] = start /\ \A n \in Nat : from[n + 1] = UNION {{p} \cup Next1(p) : p \in from[n]}
      <4> HIDE DEF from, Next1, start
      <4>1. \A n \in Nat : from[n] = IF n = 0 THEN start ELSE UNION {{p} \cup Next1(p) : p \in from[n-1]}
        BY <1>3
      <4>2. \A n \in Nat : n + 1 \in Nat /\ n + 1 # 0 /\ (n + 1) - 1 = n
        OBVIOUS
      <4> QED BY <4>1, <4>2
    <3>2. \A n \in Nat : \A p \in from[n] : r[p] = Next1(p)
      <4> HIDE DEF from, Next1, U
      <4> QED OBVIOUS
    <3> HIDE DEF from, Next1, r, start
    <3> QED BY <3>1, <3>2 DEF Spreads
  <2>3. \A p \in U : r[p] = Next1(p) /\ r[p] \subseteq U
    <3> HIDE DEF r, U, Next1, from
    <3> QED BY <2>1
  <2>4. IsFiniteSet(D) /\ k \in Nat /\ Cardinality(D) <= k
    BY FewProviders
  <2>5. U = start \cup D
    OBVIOUS
  <2> HIDE DEF r, D, from, k, Next1, start, U
  <2>6. Confined(U, start, r, D)
    BY <1>1, <2>3, <2>4, <2>5 DEF Confined
  <2>7. LeastClosed(from[k], U, start, r)
    BY <2>2, <2>4, <2>5, <2>6, SpreadFills
  <2> QED BY <2>3, <2>7 DEF LeastClosed
<1> HIDE DEF from, k, U, D
<1> QED BY <1>2, <1>4

(* A requirement that the pruned facts keep: a source of a package that is *)
(* reached has it.  What is reached, the demand apart, provides for one.   *)
KeptIn(facts, r) == \E s \in facts.sources : s.package \in Reached(facts) /\ s.id = r.source

LEMMA ReachedByKept ==
  ASSUME NEW facts, Facts(facts)
  PROVE  /\ facts.demand \in Reached(facts)
         /\ \A r \in Elements(facts.requirements) : KeptIn(facts, r) => r.provider \in Reached(facts)
         /\ \A p \in Reached(facts) : p = facts.demand \/
              \E r \in Elements(facts.requirements) : KeptIn(facts, r) /\ r.provider = p
<1>1. PICK R : R = Reached(facts)
  OBVIOUS
<1>2. /\ facts.demand \in R /\ \A p \in R : RequiredBy(facts, p) \subseteq R
      /\ \A S : facts.demand \in S /\ (\A p \in S : RequiredBy(facts, p) \subseteq S) => R \subseteq S
  BY <1>1, ReachedIsLeast
<1>3. \A r \in Elements(facts.requirements) : KeptIn(facts, r) <=> \E p \in R : r.provider \in RequiredBy(facts, p)
        /\ \E s \in facts.sources : s.id = r.source /\ s.package = p
  BY <1>1 DEF KeptIn, RequiredBy
<1>4. \A r \in Elements(facts.requirements) : KeptIn(facts, r) => r.provider \in R
  BY <1>2, <1>3
<1> DEFINE S == {p \in R : p = facts.demand \/ \E r \in Elements(facts.requirements) : KeptIn(facts, r) /\ r.provider = p}
<1>5. ASSUME NEW p \in S PROVE RequiredBy(facts, p) \subseteq S
  <2>1. RequiredBy(facts, p) \subseteq R
    BY <1>2
  <2>2. ASSUME NEW q \in RequiredBy(facts, p)
        PROVE  \E r \in Elements(facts.requirements) : KeptIn(facts, r) /\ r.provider = q
    <3>1. PICK r \in Elements(facts.requirements) :
            r.provider = q /\ \E s \in facts.sources : s.id = r.source /\ s.package = p
      BY DEF RequiredBy
    <3>2. KeptIn(facts, r)
      BY <1>1, <3>1 DEF KeptIn
    <3> QED BY <3>1, <3>2
  <2> QED BY <2>1, <2>2
<1>6. R \subseteq S
  <2>1. facts.demand \in S
    BY <1>2
  <2> HIDE DEF S
  <2> QED BY <1>2, <1>5, <2>1
<1> QED BY <1>1, <1>2, <1>4, <1>6

-----------------------------------------------------------------------------
(* The pruned facts *)

KeptCandidates(facts)   == {c \in Elements(facts.candidates) : c.package \in Reached(facts)}
KeptRequirements(facts) == {r \in Elements(facts.requirements) : KeptIn(facts, r)}
KeptOutputs(facts)      == {o \in Elements(facts.outputs) : o.package \in Reached(facts)}

LEMMA PrunedFields ==
  ASSUME NEW facts, Facts(facts)
  PROVE  /\ Pruned(facts).demand = facts.demand /\ Pruned(facts).triple = facts.triple
         /\ Pruned(facts).constraints = facts.constraints
         /\ Pruned(facts).sources = {s \in facts.sources : s.package \in Reached(facts)}
         /\ Pruned(facts).lowerings = [p \in DOMAIN facts.lowerings \cap Reached(facts) |-> facts.lowerings[p]]
         /\ Pruned(facts).candidates = Thin(facts.candidates, KeptCandidates(facts))
         /\ Pruned(facts).requirements = Thin(facts.requirements, KeptRequirements(facts))
         /\ Pruned(facts).outputs = Thin(facts.outputs, KeptOutputs(facts))
         /\ Pruned(facts) = DependencyResolutionInput(Pruned(facts).demand, Pruned(facts).triple,
              Pruned(facts).sources, Pruned(facts).candidates, Pruned(facts).requirements,
              Pruned(facts).lowerings, Pruned(facts).constraints, Pruned(facts).outputs)
<1>1. PICK reached, kept : reached = Reached(facts) /\ kept = {s \in facts.sources : s.package \in reached}
  OBVIOUS
<1> DEFINE cs == Filtered(facts.candidates, LAMBDA c : c.package \in reached)
           rs == Filtered(facts.requirements, LAMBDA r : \E s \in kept : s.id = r.source)
           os == Filtered(facts.outputs, LAMBDA o : o.package \in reached)
           ls == [p \in DOMAIN facts.lowerings \cap reached |-> facts.lowerings[p]]
<1>2. facts = DependencyResolutionInput(facts.demand, facts.triple, facts.sources, facts.candidates,
                facts.requirements, facts.lowerings, facts.constraints, facts.outputs)
  BY DEF Facts
<1>3. Pruned(facts) = [facts EXCEPT !.sources = kept, !.candidates = cs, !.requirements = rs, !.lowerings = ls, !.outputs = os]
  BY <1>1 DEF Pruned
<1>4. Pruned(facts) = DependencyResolutionInput(facts.demand, facts.triple, kept, cs, rs, ls, facts.constraints, os)
  <2> HIDE DEF cs, rs, os, ls
  <2> QED BY <1>2, <1>3 DEF DependencyResolutionInput
<1>5. cs = Thin(facts.candidates, KeptCandidates(facts))
  <2>1. PICK t, S : t = facts.candidates /\ S = KeptCandidates(facts)
    OBVIOUS
  <2>2. IsList(t) /\ DOMAIN t = 1 .. Len(t) /\ Len(t) \in Nat
    BY <2>1, FactsAreLists DEF IsList
  <2>3. \A n \in 1 .. Len(t) : t[n] \in S <=> t[n].package \in reached
    BY <1>1, <2>1, <2>2 DEF KeptCandidates, Elements
  <2> DEFINE F(h) == [n \in 0 .. Len(t) |-> IF n = 0 THEN <<>>
                       ELSE LET l == h[n-1] IN IF t[n].package \in reached THEN Append(l, t[n]) ELSE l]
             G(h) == [n \in 0 .. Len(t) |-> IF n = 0 THEN <<>>
                       ELSE LET l == h[n-1] IN IF t[n] \in S THEN Append(l, t[n]) ELSE l]
  <2>4. \A h : F(h) = G(h)
    BY <2>2, <2>3
  <2>5. (CHOOSE h : h = F(h)) = (CHOOSE h : h = G(h))
    <3> HIDE DEF F, G
    <3> QED BY <2>4
  <2>6. (CHOOSE h : h = F(h))[Len(t)] = (CHOOSE h : h = G(h))[Len(t)]
    <3> HIDE DEF F, G
    <3> QED BY <2>5
  <2> QED BY <2>1, <2>6 DEF Thin, Filtered
<1>6. rs = Thin(facts.requirements, KeptRequirements(facts))
  <2>1. PICK t, S : t = facts.requirements /\ S = KeptRequirements(facts)
    OBVIOUS
  <2>2. IsList(t) /\ DOMAIN t = 1 .. Len(t) /\ Len(t) \in Nat
    BY <2>1, FactsAreLists DEF IsList
  <2>3. \A n \in 1 .. Len(t) : t[n] \in S <=> (\E s \in kept : s.id = t[n].source)
    BY <1>1, <2>1, <2>2 DEF KeptRequirements, Elements, KeptIn
  <2> DEFINE F(h) == [n \in 0 .. Len(t) |-> IF n = 0 THEN <<>>
                       ELSE LET l == h[n-1] IN IF (\E s \in kept : s.id = t[n].source) THEN Append(l, t[n]) ELSE l]
             G(h) == [n \in 0 .. Len(t) |-> IF n = 0 THEN <<>>
                       ELSE LET l == h[n-1] IN IF t[n] \in S THEN Append(l, t[n]) ELSE l]
  <2>4. \A h : F(h) = G(h)
    BY <2>2, <2>3
  <2>5. (CHOOSE h : h = F(h)) = (CHOOSE h : h = G(h))
    <3> HIDE DEF F, G
    <3> QED BY <2>4
  <2>6. (CHOOSE h : h = F(h))[Len(t)] = (CHOOSE h : h = G(h))[Len(t)]
    <3> HIDE DEF F, G
    <3> QED BY <2>5
  <2> QED BY <2>1, <2>6 DEF Thin, Filtered
<1>7. os = Thin(facts.outputs, KeptOutputs(facts))
  <2>1. PICK t, S : t = facts.outputs /\ S = KeptOutputs(facts)
    OBVIOUS
  <2>2. IsList(t) /\ DOMAIN t = 1 .. Len(t) /\ Len(t) \in Nat
    BY <2>1, FactsAreLists DEF IsList
  <2>3. \A n \in 1 .. Len(t) : t[n] \in S <=> t[n].package \in reached
    BY <1>1, <2>1, <2>2 DEF KeptOutputs, Elements
  <2> DEFINE F(h) == [n \in 0 .. Len(t) |-> IF n = 0 THEN <<>>
                       ELSE LET l == h[n-1] IN IF t[n].package \in reached THEN Append(l, t[n]) ELSE l]
             G(h) == [n \in 0 .. Len(t) |-> IF n = 0 THEN <<>>
                       ELSE LET l == h[n-1] IN IF t[n] \in S THEN Append(l, t[n]) ELSE l]
  <2>4. \A h : F(h) = G(h)
    BY <2>2, <2>3
  <2>5. (CHOOSE h : h = F(h)) = (CHOOSE h : h = G(h))
    <3> HIDE DEF F, G
    <3> QED BY <2>4
  <2>6. (CHOOSE h : h = F(h))[Len(t)] = (CHOOSE h : h = G(h))[Len(t)]
    <3> HIDE DEF F, G
    <3> QED BY <2>5
  <2> QED BY <2>1, <2>6 DEF Thin, Filtered
<1> HIDE DEF cs, rs, os, ls
<1>8. PICK g : g = Pruned(facts)
  OBVIOUS
<1>9. g = DependencyResolutionInput(facts.demand, facts.triple, kept, cs, rs, ls, facts.constraints, os)
  BY <1>4, <1>8
<1>10. /\ g.demand = facts.demand /\ g.triple = facts.triple /\ g.constraints = facts.constraints
       /\ g.sources = kept /\ g.lowerings = ls /\ g.candidates = cs /\ g.requirements = rs /\ g.outputs = os
  BY <1>9 DEF DependencyResolutionInput
<1>11. g = DependencyResolutionInput(g.demand, g.triple, g.sources, g.candidates, g.requirements,
             g.lowerings, g.constraints, g.outputs)
  BY <1>9, <1>10
<1> QED BY <1>1, <1>5, <1>6, <1>7, <1>8, <1>10, <1>11 DEF ls

LEMMA PrunedLists ==
  ASSUME NEW facts, Facts(facts)
  PROVE  /\ Elements(Pruned(facts).candidates) = KeptCandidates(facts) /\ IsList(Pruned(facts).candidates)
         /\ Elements(Pruned(facts).requirements) = KeptRequirements(facts) /\ IsList(Pruned(facts).requirements)
         /\ Elements(Pruned(facts).outputs) = KeptOutputs(facts) /\ IsList(Pruned(facts).outputs)
<1>1. IsList(facts.candidates) /\ IsList(facts.requirements) /\ IsList(facts.outputs)
  BY FactsAreLists
<1>2. /\ Elements(facts.candidates) \cap KeptCandidates(facts) = KeptCandidates(facts)
      /\ Elements(facts.requirements) \cap KeptRequirements(facts) = KeptRequirements(facts)
      /\ Elements(facts.outputs) \cap KeptOutputs(facts) = KeptOutputs(facts)
  BY DEF KeptCandidates, KeptRequirements, KeptOutputs
<1>3. /\ IsList(Thin(facts.candidates, KeptCandidates(facts)))
      /\ Elements(Thin(facts.candidates, KeptCandidates(facts))) = KeptCandidates(facts)
  BY <1>1, <1>2, ThinElements
<1>4. /\ IsList(Thin(facts.requirements, KeptRequirements(facts)))
      /\ Elements(Thin(facts.requirements, KeptRequirements(facts))) = KeptRequirements(facts)
  BY <1>1, <1>2, ThinElements
<1>5. /\ IsList(Thin(facts.outputs, KeptOutputs(facts)))
      /\ Elements(Thin(facts.outputs, KeptOutputs(facts))) = KeptOutputs(facts)
  BY <1>1, <1>2, ThinElements
<1> QED BY <1>3, <1>4, <1>5, PrunedFields

LEMMA PrunedIsFacts ==
  ASSUME NEW facts, Facts(facts)
  PROVE  Facts(Pruned(facts))
<1>1. PICK g : g = Pruned(facts)
  OBVIOUS
<1>2. IsFiniteSet(g.sources) /\ IsFiniteSet(DOMAIN g.lowerings)
  <2>1. g.sources \subseteq facts.sources /\ DOMAIN g.lowerings \subseteq DOMAIN facts.lowerings
    BY <1>1, PrunedFields
  <2> QED BY <2>1, FS_Subset DEF Facts
<1>3. /\ IsList(g.candidates) /\ IsList(g.requirements) /\ IsList(g.outputs)
      /\ Elements(g.candidates) = KeptCandidates(facts) /\ Elements(g.outputs) = KeptOutputs(facts)
  BY <1>1, PrunedLists
<1>4. \A s : IsList(s) => s \in Seq(Elements(s))
  BY ListIsSeq DEF Elements
<1>5. /\ g.candidates \in Seq(Elements(g.candidates)) /\ g.requirements \in Seq(Elements(g.requirements))
      /\ g.outputs \in Seq(Elements(g.outputs))
  BY <1>3, <1>4
<1>6. \A c \in Elements(g.candidates) : /\ c.ecosystem \in {"Cargo", "Nimble", "C", "Cpp"}
                                        /\ c.ecosystem = "Cargo" => c.exports = {}
  BY <1>3 DEF KeptCandidates, Facts
<1>7. \A o \in Elements(g.outputs) : IsFiniteSet(o.sources)
  BY <1>3 DEF KeptOutputs, Facts
<1>8. g = DependencyResolutionInput(g.demand, g.triple, g.sources, g.candidates, g.requirements,
            g.lowerings, g.constraints, g.outputs)
  BY <1>1, PrunedFields
<1> QED BY <1>1, <1>2, <1>5, <1>6, <1>7, <1>8 DEF Facts

LEMMA PrunedIsRegular ==
  ASSUME NEW facts, Regular(facts)
  PROVE  Regular(Pruned(facts))
<1>1. PICK g : g = Pruned(facts)
  OBVIOUS
<1>2. Facts(facts) /\ Facts(g)
  BY <1>1, PrunedIsFacts DEF Regular
<1>3. /\ Elements(g.candidates) = KeptCandidates(facts) /\ Elements(g.requirements) = KeptRequirements(facts)
      /\ Elements(g.outputs) = KeptOutputs(facts)
  BY <1>1, <1>2, PrunedLists
<1>4. \A r \in Elements(g.requirements) : r \in Elements(facts.requirements) /\ r.provider \in Reached(facts)
  BY <1>2, <1>3, ReachedByKept DEF KeptRequirements
<1>5. \A r \in Elements(g.requirements) : Matchers(g, r) = Matchers(facts, r)
  BY <1>3, <1>4 DEF Matchers, KeptCandidates
<1>6. ~Split(g)
  BY <1>4, <1>5 DEF Regular, Split
<1>7. DeclaredOnce(g)
  BY <1>3 DEF Regular, DeclaredOnce, KeptOutputs
<1> QED BY <1>1, <1>2, <1>6, <1>7 DEF Regular

(* Where the candidates and the requirements that are kept were.           *)
CandidatesPlaced(facts, e) ==
  /\ \A x \in DOMAIN Pruned(facts).candidates :
       e[x] \in DOMAIN facts.candidates /\ Pruned(facts).candidates[x] = facts.candidates[e[x]]
  /\ \A x, y \in DOMAIN Pruned(facts).candidates : x < y => e[x] < e[y]
  /\ \A i \in DOMAIN facts.candidates :
       facts.candidates[i].package \in Reached(facts) <=> \E x \in DOMAIN Pruned(facts).candidates : e[x] = i

RequirementsPlaced(facts, e) ==
  /\ \A x \in DOMAIN Pruned(facts).requirements :
       e[x] \in DOMAIN facts.requirements /\ Pruned(facts).requirements[x] = facts.requirements[e[x]]
  /\ \A x, y \in DOMAIN Pruned(facts).requirements : x < y => e[x] < e[y]
  /\ \A k \in DOMAIN facts.requirements :
       KeptIn(facts, facts.requirements[k]) <=> \E x \in DOMAIN Pruned(facts).requirements : e[x] = k

LEMMA AllPlaced ==
  ASSUME NEW facts, Facts(facts)
  PROVE  (\E e : CandidatesPlaced(facts, e)) /\ (\E e : RequirementsPlaced(facts, e))
<1>1. PICK cs, rs, ds, qs : /\ cs = facts.candidates /\ rs = facts.requirements
                            /\ ds = Pruned(facts).candidates /\ qs = Pruned(facts).requirements
  OBVIOUS
<1>2. /\ IsList(cs) /\ IsList(rs) /\ DOMAIN cs = 1 .. Len(cs) /\ DOMAIN rs = 1 .. Len(rs)
      /\ ds = Thin(cs, KeptCandidates(facts)) /\ qs = Thin(rs, KeptRequirements(facts))
  BY <1>1, FactsAreLists, PrunedFields
<1>3. \E e : CandidatesPlaced(facts, e)
  <2>1. PICK e : Thinned(e, ds, cs, KeptCandidates(facts))
    BY <1>2, ThinPlaces
  <2>2. DOMAIN ds = 1 .. Len(ds)
    BY <2>1, ListIsSeq DEF Thinned
  <2>3. \A i \in DOMAIN cs : cs[i] \in KeptCandidates(facts) <=> cs[i].package \in Reached(facts)
    BY <1>1 DEF KeptCandidates, Elements
  <2>4. CandidatesPlaced(facts, e)
    BY <1>1, <1>2, <2>1, <2>2, <2>3 DEF CandidatesPlaced, Thinned, Places
  <2> QED BY <2>4
<1>4. \E e : RequirementsPlaced(facts, e)
  <2>1. PICK e : Thinned(e, qs, rs, KeptRequirements(facts))
    BY <1>2, ThinPlaces
  <2>2. DOMAIN qs = 1 .. Len(qs)
    BY <2>1, ListIsSeq DEF Thinned
  <2>3. \A k \in DOMAIN rs : rs[k] \in KeptRequirements(facts) <=> KeptIn(facts, rs[k])
    BY <1>1 DEF KeptRequirements, Elements
  <2>4. RequirementsPlaced(facts, e)
    BY <1>1, <1>2, <2>1, <2>2, <2>3 DEF RequirementsPlaced, Thinned, Places
  <2> QED BY <2>4
<1> QED BY <1>3, <1>4

(* For a package that is reached both have the same.                       *)
LEMMA PrunedOutputs ==
  ASSUME NEW facts, Facts(facts), NEW p \in Reached(facts), NEW kind
  PROVE  OutputsIn(Pruned(facts), p, kind) = OutputsIn(facts, p, kind)
<1>1. PICK g, os : g = Pruned(facts) /\ os = facts.outputs
  OBVIOUS
<1>2. IsList(os) /\ g.outputs = Thin(os, KeptOutputs(facts)) /\ Elements(g.outputs) = KeptOutputs(facts)
  BY <1>1, FactsAreLists, PrunedFields, PrunedLists
<1>3. DeclaredBy(g, p, kind) = DeclaredBy(facts, p, kind) /\ DeclaredBy(facts, p, kind) \subseteq KeptOutputs(facts)
  BY <1>1, <1>2 DEF DeclaredBy, KeptOutputs
<1>4. Thin(Thin(os, KeptOutputs(facts)), DeclaredBy(facts, p, kind)) = Thin(os, DeclaredBy(facts, p, kind))
  BY <1>2, <1>3, ThinTwice
<1> QED BY <1>1, <1>2, <1>3, <1>4 DEF OutputsIn

LEMMA PrunedExecutables ==
  ASSUME NEW facts, Facts(facts), Apart(facts)
  PROVE  ExecutablesIn(Pruned(facts)) = ExecutablesIn(facts)
<1>1. PICK g, os, L : g = Pruned(facts) /\ os = facts.outputs
                      /\ L = {o \in Elements(facts.outputs) : o.kind = "NativeExecutable"}
  OBVIOUS
<1>2. IsList(os) /\ g.outputs = Thin(os, KeptOutputs(facts)) /\ Elements(g.outputs) = KeptOutputs(facts)
  BY <1>1, FactsAreLists, PrunedFields, PrunedLists
<1>3. L \subseteq KeptOutputs(facts)
  BY <1>1 DEF Apart, KeptOutputs
<1>4. {o \in Elements(g.outputs) : o.kind = "NativeExecutable"} = L
  BY <1>1, <1>2, <1>3 DEF KeptOutputs
<1>5. Thin(Thin(os, KeptOutputs(facts)), L) = Thin(os, L)
  BY <1>2, <1>3, ThinTwice
<1> QED BY <1>1, <1>2, <1>4, <1>5 DEF ExecutablesIn

LEMMA PrunedChain ==
  ASSUME NEW facts, Facts(facts), NEW c, c.package \in Reached(facts),
         c.ecosystem \in {"Cargo", "Nimble", "C", "Cpp"}
  PROVE  ChainIn(Pruned(facts), c) = ChainIn(facts, c)
<1>1. PICK g, p : g = Pruned(facts) /\ p = c.package
  OBVIOUS
<1>2. \A kind : OutputsIn(g, p, kind) = OutputsIn(facts, p, kind)
  BY <1>1, PrunedOutputs
<1>3. /\ p \in DOMAIN g.lowerings <=> p \in DOMAIN facts.lowerings
      /\ p \in DOMAIN facts.lowerings => g.lowerings[p] = facts.lowerings[p]
  <2>1. PICK l, R : l = facts.lowerings /\ R = Reached(facts)
    OBVIOUS
  <2>2. g.lowerings = [q \in DOMAIN l \cap R |-> l[q]]
    BY <1>1, <2>1, PrunedFields
  <2>3. p \in R
    BY <1>1, <2>1
  <2> QED BY ONLY <2>1, <2>2, <2>3
<1>4. ASSUME NEW kind, NEW outputKind PROVE CompileIn(g, c, kind, outputKind) = CompileIn(facts, c, kind, outputKind)
  BY <1>1, <1>2, <1>3 DEF CompileIn
<1>5. ASSUME NEW kind, NEW objectKind PROVE ArchivedIn(g, c, kind, objectKind) = ArchivedIn(facts, c, kind, objectKind)
  <2>1. /\ OutputsIn(g, p, objectKind) = OutputsIn(facts, p, objectKind)
        /\ OutputsIn(g, p, ArchiveKind[c.ecosystem]) = OutputsIn(facts, p, ArchiveKind[c.ecosystem])
    BY <1>2
  <2>2. PICK objects, compiles : /\ objects = OutputsIn(facts, p, objectKind)
                                 /\ compiles = CompileObjects(c, kind, objects)
    OBVIOUS
  <2>3. ArchiveIn(g, c, "ArchiveStaticLibrary", compiles, objects)
          = ArchiveIn(facts, c, "ArchiveStaticLibrary", compiles, objects)
    BY <1>1, <2>1 DEF ArchiveIn
  <2> QED BY <1>1, <2>1, <2>2, <2>3 DEF ArchivedIn
<1>6. CASE c.ecosystem = "Cargo"
  BY <1>1, <1>4, <1>6 DEF ChainIn
<1>7. CASE c.ecosystem = "Nimble"
  BY <1>1, <1>4, <1>7 DEF ChainIn
<1>8. CASE c.ecosystem = "C"
  BY <1>1, <1>5, <1>8 DEF ChainIn
<1>9. CASE c.ecosystem = "Cpp"
  BY <1>1, <1>5, <1>9 DEF ChainIn
<1> QED BY <1>6, <1>7, <1>8, <1>9

(* A package that is reached is required of, or not, by both.              *)
LEMMA PrunedProviders ==
  ASSUME NEW facts, Facts(facts), Apart(facts), NEW p \in Reached(facts)
  PROVE  /\ p \in ProvidersIn(Pruned(facts)) <=> p \in ProvidersIn(facts)
         /\ p \in ProvidersIn(facts) <=> \E r \in Elements(Pruned(facts).requirements) : r.provider = p
<1>1. Elements(Pruned(facts).requirements) = KeptRequirements(facts)
  BY PrunedLists
<1>2. \A q \in Elements(facts.requirements) : ~KeptIn(facts, q) => q.provider # facts.demand
  BY DEF Apart, KeptIn
<1>3. ASSUME p \in ProvidersIn(facts) PROVE \E r \in KeptRequirements(facts) : r.provider = p
  <2>1. CASE p = facts.demand
    <3>1. PICK q \in Elements(facts.requirements) : q.provider = p
      BY <1>3 DEF ProvidersIn
    <3> QED BY <1>2, <2>1, <3>1 DEF KeptRequirements
  <2>2. CASE p # facts.demand
    BY <2>2, ReachedByKept DEF KeptRequirements
  <2> QED BY <2>1, <2>2
<1> QED BY <1>1, <1>3 DEF ProvidersIn, KeptRequirements

LEMMA PrunedMatches ==
  ASSUME NEW facts, Facts(facts), NEW e, CandidatesPlaced(facts, e),
         NEW r \in Elements(Pruned(facts).requirements)
  PROVE  /\ \A x \in DOMAIN Pruned(facts).candidates :
              x \in MatchIn(Pruned(facts), r) <=> e[x] \in MatchIn(facts, r)
         /\ \A i \in MatchIn(facts, r) : \E x \in MatchIn(Pruned(facts), r) : e[x] = i
         /\ TripleFor(Pruned(facts), r) = TripleFor(facts, r)
<1>1. PICK g : g = Pruned(facts)
  OBVIOUS
<1>2. r \in Elements(facts.requirements) /\ r.provider \in Reached(facts)
  <2>1. r \in KeptRequirements(facts)
    BY PrunedLists
  <2> QED BY <2>1, ReachedByKept DEF KeptRequirements
<1>3. \A x \in DOMAIN g.candidates : x \in MatchIn(g, r) <=> e[x] \in MatchIn(facts, r)
  BY <1>1 DEF CandidatesPlaced, MatchIn
<1>4. \A i \in MatchIn(facts, r) : \E x \in DOMAIN g.candidates : e[x] = i
  BY <1>1, <1>2 DEF CandidatesPlaced, MatchIn
<1>5. TripleFor(g, r) = TripleFor(facts, r)
  BY <1>1, PrunedFields DEF TripleFor
<1> QED BY <1>1, <1>3, <1>4, <1>5 DEF MatchIn

LEMMA PlacedOnce ==
  ASSUME NEW facts, Facts(facts)
  PROVE  /\ \A e : CandidatesPlaced(facts, e) =>
              \A x, y \in DOMAIN Pruned(facts).candidates : e[x] = e[y] => x = y
         /\ \A e : RequirementsPlaced(facts, e) =>
              \A x, y \in DOMAIN Pruned(facts).requirements : e[x] = e[y] => x = y
<1>1. /\ DOMAIN Pruned(facts).candidates \subseteq Nat /\ DOMAIN facts.candidates \subseteq Nat
      /\ DOMAIN Pruned(facts).requirements \subseteq Nat /\ DOMAIN facts.requirements \subseteq Nat
  <2>1. PICK g : g = Pruned(facts)
    OBVIOUS
  <2>2. Facts(g)
    BY <2>1, PrunedIsFacts
  <2> QED BY <2>1, <2>2, FactsAreLists
<1>2. \A m, n \in Nat : m < n \/ n < m \/ m = n
  OBVIOUS
<1>3. \A m \in Nat : ~(m < m)
  OBVIOUS
<1>4. ASSUME NEW e, CandidatesPlaced(facts, e), NEW x \in DOMAIN Pruned(facts).candidates,
             NEW y \in DOMAIN Pruned(facts).candidates, e[x] = e[y]
      PROVE  x = y
  BY <1>1, <1>2, <1>3, <1>4 DEF CandidatesPlaced
<1>5. ASSUME NEW e, RequirementsPlaced(facts, e), NEW x \in DOMAIN Pruned(facts).requirements,
             NEW y \in DOMAIN Pruned(facts).requirements, e[x] = e[y]
      PROVE  x = y
  BY <1>1, <1>2, <1>3, <1>5 DEF RequirementsPlaced
<1> QED BY <1>4, <1>5

LEMMA PrunedSuits ==
  ASSUME NEW facts, Facts(facts), NEW r \in Elements(Pruned(facts).requirements), Suits(facts, r)
  PROVE  Suits(Pruned(facts), r)
<1>1. PICK g, e : g = Pruned(facts) /\ CandidatesPlaced(facts, e)
  BY AllPlaced
<1>2. PICK i : MatchIn(facts, r) = {i} /\ facts.candidates[i].triple = TripleFor(facts, r)
  BY DEF Suits
<1>3. /\ \A x \in DOMAIN g.candidates : x \in MatchIn(g, r) <=> e[x] \in MatchIn(facts, r)
      /\ \A j \in MatchIn(facts, r) : \E x \in MatchIn(g, r) : e[x] = j
      /\ TripleFor(g, r) = TripleFor(facts, r)
  BY <1>1, PrunedMatches
<1>4. PICK x \in MatchIn(g, r) : e[x] = i
  BY <1>2, <1>3
<1>5. \A y \in MatchIn(g, r) : y \in DOMAIN g.candidates
  BY DEF MatchIn
<1>6. \A y \in MatchIn(g, r) : y = x
  BY <1>1, <1>2, <1>3, <1>4, <1>5, PlacedOnce
<1>7. g.candidates[x] = facts.candidates[i]
  BY <1>1, <1>4, <1>5 DEF CandidatesPlaced
<1> QED BY <1>1, <1>2, <1>3, <1>4, <1>6, <1>7 DEF Suits

LEMMA PrunedRoots ==
  ASSUME NEW facts, Facts(facts), Apart(facts), NEW e, CandidatesPlaced(facts, e),
         NEW x \in DOMAIN Pruned(facts).candidates
  PROVE  x \in RootsIn(Pruned(facts)) <=> e[x] \in RootsIn(facts)
<1>1. /\ e[x] \in DOMAIN facts.candidates /\ Pruned(facts).candidates[x] = facts.candidates[e[x]]
      /\ facts.candidates[e[x]].package \in Reached(facts)
  BY DEF CandidatesPlaced
<1> QED BY <1>1, PrunedProviders DEF RootsIn

LEMMA PrunedIsDecided ==
  ASSUME NEW facts, Regular(facts), Apart(facts), Decided(facts)
  PROVE  Decided(Pruned(facts))
<1>1. PICK g, e : g = Pruned(facts) /\ CandidatesPlaced(facts, e) /\ Facts(facts)
  BY AllPlaced DEF Regular
<1>2. OneRoot(g)
  <2>1. ASSUME NEW x \in RootsIn(g), NEW y \in RootsIn(g), g.candidates[x].package = g.candidates[y].package
        PROVE  x = y
    <3>1. x \in DOMAIN g.candidates /\ y \in DOMAIN g.candidates
      BY DEF RootsIn
    <3>2. /\ e[x] \in RootsIn(facts) /\ e[y] \in RootsIn(facts)
          /\ facts.candidates[e[x]] = g.candidates[x] /\ facts.candidates[e[y]] = g.candidates[y]
      BY <1>1, <3>1, PrunedRoots DEF CandidatesPlaced
    <3>3. e[x] = e[y]
      BY <2>1, <3>2 DEF Decided, OneRoot
    <3> QED BY <1>1, <3>1, <3>3, PlacedOnce
  <2> QED BY <2>1 DEF OneRoot
<1>3. ExecutablesIn(g) # <<>>
  BY <1>1, PrunedExecutables DEF Decided
<1>4. \A r \in Elements(g.requirements) : Suits(g, r)
  <2>1. Elements(g.requirements) \subseteq Elements(facts.requirements)
    BY <1>1, PrunedLists DEF KeptRequirements
  <2> QED BY <1>1, <2>1, PrunedSuits DEF Decided
<1> QED BY <1>1, <1>2, <1>3, <1>4 DEF Decided

LEMMA PrunedChosen ==
  ASSUME NEW facts, Regular(facts), Apart(facts), Decided(facts), NEW e, CandidatesPlaced(facts, e),
         NEW x \in DOMAIN Pruned(facts).candidates
  PROVE  x \in ChosenIn(Pruned(facts)) <=> e[x] \in ChosenIn(facts)
<1>1. PICK g, i : g = Pruned(facts) /\ i = e[x] /\ Facts(facts)
  BY DEF Regular
<1>2. /\ i \in DOMAIN facts.candidates /\ g.candidates[x] = facts.candidates[i] /\ x \in DOMAIN g.candidates
      /\ facts.candidates[i].package \in Reached(facts)
  BY <1>1 DEF CandidatesPlaced
<1>3. x \in RootsIn(g) <=> i \in RootsIn(facts)
  BY <1>1, PrunedRoots
<1>4. \A r \in Elements(g.requirements) : r \in Elements(facts.requirements)
  BY <1>1, PrunedLists DEF KeptRequirements
<1>5. ASSUME NEW r \in Elements(g.requirements) PROVE x \in MatchIn(g, r) <=> i \in MatchIn(facts, r)
  BY <1>1, <1>5, PrunedMatches
<1>6. ASSUME NEW q \in Elements(facts.requirements), i \in MatchIn(facts, q)
      PROVE  \E r \in Elements(g.requirements) : i \in MatchIn(facts, r)
  <2>1. facts.candidates[i].package \in ProvidersIn(facts) /\ q.provider = facts.candidates[i].package
    BY <1>6 DEF MatchIn, ProvidersIn
  <2>2. PICK r \in Elements(g.requirements) : r.provider = facts.candidates[i].package
    BY <1>1, <1>2, <2>1, PrunedProviders
  <2>3. r \in Elements(facts.requirements) /\ Suits(facts, r) /\ ~Split(facts)
    BY <1>4, <2>2 DEF Decided, Regular
  <2>4. PICK j : j \in MatchIn(facts, r)
    BY <2>3 DEF Suits
  <2>5. j = i
    BY <1>6, <2>1, <2>2, <2>3, <2>4, OneMatch
  <2> QED BY <2>2, <2>4, <2>5
<1> QED BY <1>1, <1>2, <1>3, <1>4, <1>5, <1>6 DEF ChosenIn

LEMMA PrunedMade ==
  ASSUME NEW facts, Facts(facts), Apart(facts), NEW e, CandidatesPlaced(facts, e),
         NEW x \in DOMAIN Pruned(facts).candidates
  PROVE  /\ MadeBy(Pruned(facts), x) = MadeBy(facts, e[x]) /\ MadeFrom(Pruned(facts), x) = MadeFrom(facts, e[x])
         /\ IdAt(Pruned(facts), x) = IdAt(facts, e[x])
<1>1. PICK g, i, p : g = Pruned(facts) /\ i = e[x] /\ p = facts.candidates[i].package
  OBVIOUS
<1>2. i \in DOMAIN facts.candidates /\ g.candidates[x] = facts.candidates[i] /\ p \in Reached(facts)
  BY <1>1 DEF CandidatesPlaced
<1>3. p \in ProvidersIn(g) <=> p \in ProvidersIn(facts)
  BY <1>1, <1>2, PrunedProviders
<1>4. \A kind : OutputsIn(g, p, kind) = OutputsIn(facts, p, kind)
  BY <1>1, <1>2, PrunedOutputs
<1>5. MadeBy(g, x) = MadeBy(facts, i)
  BY <1>1, <1>2, <1>3, <1>4 DEF MadeBy
<1>6. DOMAIN g.lowerings = DOMAIN facts.lowerings \cap Reached(facts)
  BY <1>1, PrunedFields
<1>7. {p} \cap DOMAIN g.lowerings = {p} \cap DOMAIN facts.lowerings
  BY <1>2, <1>6
<1>8. IdAt(g, x) = IdAt(facts, i)
  BY <1>2 DEF IdAt
<1>9. MadeFrom(g, x) = MadeFrom(facts, i)
  BY <1>1, <1>2, <1>7, <1>8 DEF MadeFrom
<1> QED BY <1>1, <1>5, <1>8, <1>9

-----------------------------------------------------------------------------
(* Both maps, of all the facts and of the pruned ones *)
LEMMA LastExists ==
  ASSUME NEW n \in Nat, NEW S, S \subseteq 1 .. n, NEW i \in S
  PROVE  \E m \in S : \A j \in S : j <= m
<1> DEFINE T == {d \in 0 .. n : \A j \in S : j <= n - d}
<1>1. ASSUME ~\E m \in S : \A j \in S : j <= m PROVE FALSE
  <2>1. 0 \in T
    OBVIOUS
  <2>2. ASSUME NEW d \in 1 .. n, d - 1 \in T PROVE d \in T
    <3>1. \A j \in S : j <= n - (d - 1)
      BY <2>2
    <3>2. n - (d - 1) \notin S
      BY <1>1, <3>1
    <3>3. \A j \in S : j <= n - d
      <4> SUFFICES ASSUME NEW j \in S PROVE j <= n - d
        OBVIOUS
      <4>1. j \in 1 .. n /\ j <= n - (d - 1) /\ j # n - (d - 1)
        BY <3>1, <3>2
      <4> QED BY <4>1
    <3> QED BY <3>3
  <2>3. n \in T
    <3> HIDE DEF T
    <3>1. 0 .. n \subseteq T
      BY <2>1, <2>2, UpToInduction
    <3> QED BY <3>1
  <2>4. i <= n - n /\ i \in 1 .. n
    BY <2>3
  <2> QED BY <2>4
<1> QED BY <1>1

(* What resolve built of all the facts, and of what the demand reaches.    *)
Twice(facts, os, ps) ==
  /\ Regular(facts) /\ Apart(facts) /\ Decided(facts)
  /\ Finished(facts, os) /\ Finished(Pruned(facts), ps)
Same2(os, ps, id) == id \in DOMAIN os /\ id \in DOMAIN ps /\ os[id] = ps[id]

LEMMA ChosenAgree ==
  ASSUME NEW facts, NEW os, NEW ps, Twice(facts, os, ps), NEW e, CandidatesPlaced(facts, e),
         NEW y \in ChosenIn(Pruned(facts))
  PROVE  Same2(os, ps, IdAt(Pruned(facts), y))
<1>1. PICK g : g = Pruned(facts)
  OBVIOUS
<1>2. Facts(facts) /\ Facts(g)
  BY <1>1, PrunedIsFacts DEF Twice, Regular
<1>3. y \in DOMAIN g.candidates
  BY <1>1 DEF ChosenIn, RootsIn
<1>4. e[y] \in ChosenIn(facts) /\ g.candidates[y] = facts.candidates[e[y]]
  BY <1>1, <1>3, PrunedChosen DEF Twice, CandidatesPlaced
<1>5. /\ ChosenIn(g) = RootsIn(g) \cup ServedIn(g, Len(g.requirements))
      /\ ChosenIn(facts) = RootsIn(facts) \cup ServedIn(facts, Len(facts.requirements))
  BY <1>2, AllServed
<1>6. Has(ps, IdAt(g, y), Taken(g.candidates[y]))
  BY <1>1, <1>5 DEF Twice, Finished, Built, HasChoice
<1>7. Has(os, IdAt(facts, e[y]), Taken(facts.candidates[e[y]]))
  BY <1>4, <1>5 DEF Twice, Finished, Built, HasChoice
<1> QED BY <1>1, <1>4, <1>6, <1>7 DEF Has, IdAt, Same2

LEMMA RivalPlaced ==
  ASSUME NEW facts, Facts(facts), NEW e, CandidatesPlaced(facts, e),
         NEW y \in DOMAIN Pruned(facts).candidates, NEW z \in DOMAIN Pruned(facts).candidates,
         Rival(Pruned(facts), y, z)
  PROVE  Rival(facts, e[y], e[z])
<1>1. PICK g : g = Pruned(facts)
  OBVIOUS
<1>2. DOMAIN g.candidates \subseteq Nat /\ DOMAIN facts.candidates \subseteq Nat
  BY <1>1, PrunedIsFacts, FactsAreLists
<1>3. \A x \in DOMAIN g.candidates : e[x] \in DOMAIN facts.candidates /\ g.candidates[x] = facts.candidates[e[x]]
  BY <1>1 DEF CandidatesPlaced
<1>4. y \in DOMAIN g.candidates /\ z \in DOMAIN g.candidates
  BY <1>1
<1>5. ASSUME NEW k \in DOMAIN facts.candidates, IdAt(facts, k) = IdAt(facts, e[z]) PROVE k <= e[z]
  <2>1. facts.candidates[k].package = facts.candidates[e[z]].package
    BY <1>5, SameSelection DEF IdAt
  <2>2. facts.candidates[e[z]].package \in Reached(facts)
    BY <1>1, <1>3, <1>4 DEF CandidatesPlaced
  <2>3. PICK w \in DOMAIN g.candidates : e[w] = k
    BY <1>1, <2>1, <2>2 DEF CandidatesPlaced
  <2>4. IdAt(g, w) = IdAt(g, z)
    BY <1>3, <1>4, <1>5, <2>3 DEF IdAt
  <2>5. w <= z
    BY <1>1, <2>3, <2>4 DEF Rival
  <2>6. w = z \/ w < z
    BY <1>2, <1>4, <2>3, <2>5
  <2>7. CASE w = z
    BY <1>2, <2>3, <2>7
  <2>8. CASE w < z
    <3>1. e[w] < e[z]
      BY <1>1, <1>4, <2>3, <2>8 DEF CandidatesPlaced
    <3> QED BY <1>2, <1>3, <1>4, <2>3, <3>1
  <2> QED BY <2>6, <2>7, <2>8
<1> QED BY <1>1, <1>3, <1>4, <1>5 DEF Rival

(* Every candidate of a package that is reached is selected in both maps,  *)
(* or rejected in both.                                                    *)
LEMMA SelectionsAgree ==
  ASSUME NEW facts, NEW os, NEW ps, Twice(facts, os, ps), NEW e, CandidatesPlaced(facts, e),
         NEW x \in DOMAIN Pruned(facts).candidates
  PROVE  Same2(os, ps, IdAt(Pruned(facts), x))
<1>1. PICK g, c : g = Pruned(facts) /\ c = g.candidates[x]
  OBVIOUS
<1>2. Facts(facts) /\ Facts(g) /\ x \in DOMAIN g.candidates
  BY <1>1, PrunedIsFacts DEF Twice, Regular
<1>3. /\ ChosenIn(g) = RootsIn(g) \cup ServedIn(g, Len(g.requirements))
      /\ ChosenIn(facts) = RootsIn(facts) \cup ServedIn(facts, Len(facts.requirements))
  BY <1>2, AllServed
<1>4. PICK y \in ChosenIn(g) : g.candidates[y].package = c.package
  <2>1. CASE x \in RootsIn(g)
    BY <1>1, <2>1 DEF ChosenIn
  <2>2. CASE x \notin RootsIn(g)
    <3>1. PICK r \in Elements(g.requirements) : r.provider = c.package
      BY <1>1, <1>2, <2>2 DEF RootsIn, ProvidersIn
    <3>2. Suits(g, r)
      BY <1>1, <3>1, PrunedIsDecided DEF Twice, Decided
    <3>3. PICK y \in MatchIn(g, r) : TRUE
      BY <3>2 DEF Suits
    <3> QED BY <3>1, <3>3 DEF ChosenIn, MatchIn
  <2> QED BY <2>1, <2>2
<1>5. y \in DOMAIN g.candidates
  BY DEF ChosenIn, RootsIn
<1>6. CASE c.version = g.candidates[y].version
  <2>1. IdAt(g, x) = IdAt(g, y)
    BY <1>1, <1>4, <1>6 DEF IdAt, Selection
  <2> QED BY <1>1, <2>1, ChosenAgree
<1>7. CASE c.version # g.candidates[y].version
  <2>1. PICK n \in Nat : DOMAIN g.candidates = 1 .. n
    BY <1>2, FactsAreLists DEF IsList
  <2>2. PICK z \in {k \in 1 .. n : IdAt(g, k) = IdAt(g, x)} :
                 \A k \in {k \in 1 .. n : IdAt(g, k) = IdAt(g, x)} : k <= z
    <3>1. x \in {k \in 1 .. n : IdAt(g, k) = IdAt(g, x)}
      BY <1>2, <2>1
    <3> QED BY <3>1, LastExists
  <2>3. z \in DOMAIN g.candidates /\ IdAt(g, z) = IdAt(g, x) /\ \A k \in DOMAIN g.candidates : IdAt(g, k) = IdAt(g, z) => k <= z
    BY <2>1, <2>2
  <2>4. g.candidates[z].package = c.package /\ g.candidates[z].version = c.version
    BY <1>1, <2>3, SameSelection DEF IdAt
  <2>5. Rival(g, y, z)
    BY <1>4, <1>7, <2>3, <2>4 DEF Rival
  <2>6. Has(ps, IdAt(g, z), Refused(g.candidates[z]))
    BY <1>1, <1>3, <2>3, <2>5 DEF Twice, Finished, Built, HasChoice
  <2>7. Rival(facts, e[y], e[z]) /\ e[y] \in ChosenIn(facts)
    BY <1>1, <1>2, <1>5, <2>3, <2>5, RivalPlaced, PrunedChosen DEF Twice
  <2>8. e[z] \in DOMAIN facts.candidates /\ g.candidates[z] = facts.candidates[e[z]]
    BY <1>1, <2>3 DEF CandidatesPlaced
  <2>9. Has(os, IdAt(facts, e[z]), Refused(facts.candidates[e[z]]))
    BY <1>3, <2>7, <2>8 DEF Twice, Finished, Built, HasChoice
  <2>10. IdAt(facts, e[z]) = IdAt(g, x)
    BY <2>3, <2>8 DEF IdAt
  <2> QED BY <1>1, <2>3, <2>6, <2>8, <2>9, <2>10 DEF Has, Same2
<1> QED BY <1>6, <1>7

LEMMA LastPlaced ==
  ASSUME NEW facts, Facts(facts), Apart(facts), NEW e, RequirementsPlaced(facts, e),
         NEW x \in DOMAIN Pruned(facts).requirements,
         LastAsked(Pruned(facts), Len(Pruned(facts).requirements), x)
  PROVE  LastAsked(facts, Len(facts.requirements), e[x])
<1>1. PICK g, n, l : g = Pruned(facts) /\ n = Len(facts.requirements) /\ l = Len(g.requirements)
  OBVIOUS
<1>2. /\ DOMAIN g.requirements \subseteq Nat /\ DOMAIN facts.requirements \subseteq Nat
      /\ DOMAIN facts.requirements = 1 .. n /\ DOMAIN g.requirements = 1 .. l
  BY <1>1, PrunedIsFacts, FactsAreLists
<1>3. \A y \in DOMAIN g.requirements : e[y] \in DOMAIN facts.requirements /\ g.requirements[y] = facts.requirements[e[y]]
  BY <1>1 DEF RequirementsPlaced
<1>4. x \in DOMAIN g.requirements /\ KeptIn(facts, facts.requirements[e[x]])
  BY <1>1, <1>3 DEF RequirementsPlaced
<1>5. \A q \in Elements(facts.requirements) : ~KeptIn(facts, q) =>
        \A r \in Elements(facts.requirements) : KeptIn(facts, r) => r.symbol # q.symbol
  BY DEF Apart, KeptIn
<1>6. ASSUME NEW m \in 1 .. n, facts.requirements[m].symbol = facts.requirements[e[x]].symbol PROVE m <= e[x]
  <2>1. m \in DOMAIN facts.requirements /\ e[x] \in DOMAIN facts.requirements
    BY <1>2, <1>3, <1>4
  <2>2. KeptIn(facts, facts.requirements[m])
    BY <1>4, <1>5, <1>6, <2>1 DEF Elements
  <2>3. PICK w \in DOMAIN g.requirements : e[w] = m
    BY <1>1, <2>1, <2>2 DEF RequirementsPlaced
  <2>4. w <= x
    BY <1>1, <1>2, <1>3, <1>4, <1>6, <2>3 DEF LastAsked
  <2>5. w = x \/ w < x
    BY <1>2, <1>4, <2>3, <2>4
  <2>6. CASE w = x
    BY <2>3, <2>6
  <2>7. CASE w < x
    <3>1. e[w] < e[x]
      BY <1>1, <1>4, <2>3, <2>7 DEF RequirementsPlaced
    <3> QED BY <1>2, <2>1, <2>3, <3>1
  <2> QED BY <2>5, <2>6, <2>7
<1> QED BY <1>1, <1>6 DEF LastAsked

LEMMA BindingsAgree ==
  ASSUME NEW facts, NEW os, NEW ps, Twice(facts, os, ps), NEW r \in Elements(Pruned(facts).requirements)
  PROVE  Same2(os, ps, Ffi(r)) /\ Same2(os, ps, Abi(r)) /\ Same2(os, ps, Symbol(r))
<1>1. PICK g, e, d, n, l : /\ g = Pruned(facts) /\ RequirementsPlaced(facts, e) /\ CandidatesPlaced(facts, d)
                     /\ n = Len(facts.requirements) /\ l = Len(g.requirements)
  BY AllPlaced DEF Twice, Regular
<1>2. /\ Facts(facts) /\ DOMAIN facts.requirements = 1 .. n /\ DOMAIN g.requirements = 1 .. l /\ l \in Nat
  BY <1>1, PrunedIsFacts, FactsAreLists DEF Twice, Regular, IsList
<1>3. PICK y \in 1 .. l : g.requirements[y] = r
  BY <1>1, <1>2 DEF Elements
<1>4. PICK x \in {k \in 1 .. l : g.requirements[k].symbol = r.symbol} :
              \A k \in {k \in 1 .. l : g.requirements[k].symbol = r.symbol} : k <= x
  <2>1. y \in {k \in 1 .. l : g.requirements[k].symbol = r.symbol}
    BY <1>3
  <2> QED BY <1>2, <2>1, LastExists
<1>5. x \in 1 .. l /\ LastAsked(g, l, x) /\ g.requirements[x].symbol = r.symbol
  BY <1>4 DEF LastAsked
<1>6. PICK q : q = g.requirements[x]
  OBVIOUS
<1>7. /\ e[x] \in 1 .. n /\ q = facts.requirements[e[x]] /\ LastAsked(facts, n, e[x])
      /\ q \in Elements(g.requirements) /\ q \in Elements(facts.requirements)
  <2>1. x \in DOMAIN g.requirements
    BY <1>2, <1>5
  <2>2. LastAsked(facts, n, e[x])
    BY <1>1, <1>2, <1>5, <2>1, LastPlaced DEF Twice
  <2> QED BY <1>1, <1>2, <1>6, <2>1, <2>2 DEF RequirementsPlaced, Elements
<1>8. Binds(g, ps, q) /\ Binds(facts, os, q)
  BY <1>1, <1>5, <1>6, <1>7 DEF Twice, Finished, Built, HasBindings
<1>9. PICK k \in MatchIn(g, q) : Has(ps, Abi(q), Satisfied({Ffi(q), IdAt(g, k)}))
  BY <1>8 DEF Binds
<1>10. PICK i \in MatchIn(facts, q) : Has(os, Abi(q), Satisfied({Ffi(q), IdAt(facts, i)}))
  BY <1>8 DEF Binds
<1>11. IdAt(g, k) = IdAt(facts, i)
  <2>1. k \in DOMAIN g.candidates
    BY DEF MatchIn
  <2>2. d[k] \in MatchIn(facts, q) /\ g.candidates[k] = facts.candidates[d[k]]
    BY <1>1, <1>2, <1>7, <2>1, PrunedMatches DEF CandidatesPlaced
  <2>3. d[k] = i
    BY <1>7, <2>2 DEF Twice, Decided, Suits
  <2> QED BY <2>2, <2>3 DEF IdAt
<1>12. Same2(os, ps, Ffi(q)) /\ Same2(os, ps, Abi(q)) /\ Same2(os, ps, Symbol(q))
  BY <1>8, <1>9, <1>10, <1>11 DEF Binds, Has, Same2
<1>13. Ffi(q) = Ffi(r) /\ Abi(q) = Abi(r) /\ Symbol(q) = Symbol(r)
  BY <1>5, <1>6 DEF Ffi, Abi, Symbol
<1> QED BY <1>12, <1>13

(* The map of the pruned facts is a part of the map of all of them.        *)
LEMMA MapsAgree ==
  ASSUME NEW facts, NEW os, NEW ps, Twice(facts, os, ps), NEW id \in DOMAIN ps
  PROVE  Same2(os, ps, id)
<1>1. PICK g, e : g = Pruned(facts) /\ CandidatesPlaced(facts, e)
  BY AllPlaced DEF Twice, Regular
<1>2. Named(g, id)
  BY <1>1 DEF Twice, Finished, Built, AllNamed
<1>3. HasBasis(g, ps) /\ HasBasis(facts, os) /\ Facts(facts)
  BY <1>1 DEF Twice, Finished, Built, Regular
<1>4. CASE \E s \in g.sources : id = Source(s.id)
  <2>1. g.sources \subseteq facts.sources
    BY <1>1, <1>3, PrunedFields
  <2> QED BY <1>3, <1>4, <2>1 DEF HasBasis, Has, Same2
<1>5. CASE \E p \in DOMAIN g.lowerings : id = Lowering(p)
  <2>1. PICK l, R : l = facts.lowerings /\ R = Reached(facts)
    OBVIOUS
  <2>2. g.lowerings = [q \in DOMAIN l \cap R |-> l[q]]
    BY <1>1, <1>3, <2>1, PrunedFields
  <2>3. PICK p \in DOMAIN g.lowerings : id = Lowering(p)
    BY <1>5
  <2>4. p \in DOMAIN l /\ g.lowerings[p] = l[p]
    BY ONLY <2>2, p \in DOMAIN g.lowerings
  <2> QED BY <1>3, <2>1, <2>3, <2>4 DEF HasBasis, Has, Same2
<1>6. CASE \E x \in DOMAIN g.candidates : id = IdAt(g, x)
  BY <1>1, <1>6, SelectionsAgree
<1>7. CASE \E r \in Elements(g.requirements) : id \in {Ffi(r), Abi(r), Symbol(r)}
  BY <1>1, <1>7, BindingsAgree
<1>8. CASE \E x \in ChosenIn(g) : Makes(g, x) /\ id = ArtifactAt(g, x)
  <2>1. PICK x \in ChosenIn(g) : Makes(g, x) /\ id = ArtifactAt(g, x)
    BY <1>8
  <2>2. x \in DOMAIN g.candidates
    BY DEF ChosenIn, RootsIn
  <2>3. e[x] \in ChosenIn(facts) /\ MadeBy(g, x) = MadeBy(facts, e[x]) /\ MadeFrom(g, x) = MadeFrom(facts, e[x])
    BY <1>1, <1>3, <2>2, PrunedChosen, PrunedMade DEF Twice
  <2>4. Makes(facts, e[x]) /\ ArtifactAt(facts, e[x]) = id
    BY <2>1, <2>3 DEF Makes, ArtifactAt
  <2>5. Has(os, id, MadeFrom(facts, e[x]))
    BY <2>3, <2>4 DEF Twice, Finished, Built, HasArtifacts
  <2>6. Has(ps, id, MadeFrom(g, x))
    BY <1>1, <2>1 DEF Twice, Finished, Built, HasArtifacts
  <2> QED BY <2>3, <2>5, <2>6 DEF Has, Same2
<1> QED BY <1>2, <1>4, <1>5, <1>6, <1>7, <1>8 DEF Named

(* Whatever of a reached package is named in the map of all the facts is   *)
(* in that of the pruned ones.                                             *)
LEMMA ReachedSelections ==
  ASSUME NEW facts, NEW os, NEW ps, Twice(facts, os, ps), NEW id \in DOMAIN os,
         KindOf(id) = "PackageSelection", id[2] \in Reached(facts)
  PROVE  id \in DOMAIN ps
<1>1. PICK g, e : g = Pruned(facts) /\ CandidatesPlaced(facts, e)
  BY AllPlaced DEF Twice, Regular
<1>2. Named(facts, id)
  BY DEF Twice, Finished, Built, AllNamed
<1>3. PICK i \in DOMAIN facts.candidates : id = IdAt(facts, i)
  <2>1. \A k : KindOf(ArtifactAt(facts, k)) = "ArtifactProduction"
    BY KindsOfIds DEF ArtifactAt
  <2> QED BY <1>2, <2>1, KindsOfIds DEF Named
<1>4. facts.candidates[i].package \in Reached(facts)
  BY <1>3 DEF IdAt, Selection
<1>5. PICK x \in DOMAIN g.candidates : e[x] = i
  BY <1>1, <1>4 DEF CandidatesPlaced
<1>6. IdAt(g, x) = id
  BY <1>1, <1>3, <1>5 DEF IdAt, CandidatesPlaced
<1> QED BY <1>1, <1>6, SelectionsAgree DEF Same2

-----------------------------------------------------------------------------
(* What an action of a package discharges is the artifact, or a source, of *)
(* one of its outputs.                                                     *)
OfPackage(facts, p, id) ==
  \E o \in Elements(facts.outputs) :
    o.package = p /\ (id = Artifact(o.id) \/ \E s \in o.sources : id = Source(s))
Fits(facts, p, as) ==
  Good(as) /\ \A k \in 1 .. Len(as) : \A id \in Elements(as[k].discharges) : OfPackage(facts, p, id)

LEMMA OrderedElements ==
  ASSUME NEW S, IsFiniteSet(S)
  PROVE  IsList(SetToSeq(S)) /\ Elements(SetToSeq(S)) \subseteq S
<1>1. PICK n \in Nat : n = Cardinality(S) /\ ExistsBijection(1 .. n, S)
  BY FS_CardinalityType
<1>2. \E f \in [1 .. n -> S] : IsInjective(f)
  BY <1>1 DEF ExistsBijection, Bijection, Injection
<1>3. SetToSeq(S) \in [1 .. n -> S]
  BY <1>1, <1>2 DEF SetToSeq
<1> QED BY <1>3, OrderedIsList DEF Elements

LEMMA DeclaredOutputs ==
  ASSUME NEW facts, Facts(facts), NEW p, NEW kind, NEW outs, outs = OutputsIn(facts, p, kind)
  PROVE  /\ IsList(outs)
         /\ \A k \in DOMAIN outs : /\ outs[k] \in Elements(facts.outputs) /\ outs[k].package = p
                                   /\ IsFiniteSet(outs[k].sources)
         /\ outs # <<>> => 1 \in DOMAIN outs
<1>1. IsList(outs) /\ Elements(outs) = Elements(facts.outputs) \cap DeclaredBy(facts, p, kind)
  BY FactsAreLists, ThinElements DEF OutputsIn
<1>2. ASSUME NEW k \in DOMAIN outs
      PROVE  /\ outs[k] \in Elements(facts.outputs) /\ outs[k].package = p /\ IsFiniteSet(outs[k].sources)
  <2>1. outs[k] \in Elements(outs)
    BY DEF Elements
  <2>2. outs[k] \in Elements(facts.outputs) /\ outs[k].package = p
    BY <1>1, <2>1 DEF DeclaredBy
  <2> QED BY <2>2 DEF Facts
<1>3. outs # <<>> => 1 \in DOMAIN outs
  <2>1. DOMAIN outs = 1 .. Len(outs) /\ Len(outs) \in Nat
    BY <1>1, ListIsSeq DEF IsList
  <2> QED BY <1>1, <2>1 DEF IsList
<1> QED BY <1>1, <1>2, <1>3

LEMMA ArtifactFits ==
  ASSUME NEW facts, Facts(facts), NEW p, NEW kind, NEW list, list = Artifacts(OutputsIn(facts, p, kind))
  PROVE  IsList(list) /\ \A id \in Elements(list) : OfPackage(facts, p, id)
<1>1. PICK outs : outs = OutputsIn(facts, p, kind)
  OBVIOUS
<1>2. IsList(list)
  BY ArtifactsAreList
<1>3. CASE outs = <<>>
  <2>1. list = <<>>
    BY <1>1, <1>3 DEF Artifacts
  <2>2. Elements(<<>>) = {}
    BY DEF Elements
  <2> QED BY <1>2, <2>1, <2>2
<1>4. CASE outs # <<>>
  <2>1. PICK o : o = outs[1] /\ o \in Elements(facts.outputs) /\ o.package = p
    BY <1>1, <1>4, DeclaredOutputs
  <2>2. list = <<Artifact(o.id)>>
    BY <1>1, <1>4, <2>1 DEF Artifacts
  <2>3. ASSUME NEW x PROVE Elements(<<x>>) = {x}
    BY DEF Elements
  <2>4. \A id \in Elements(list) : id = Artifact(o.id)
    BY <2>2, <2>3
  <2> QED BY <1>2, <2>1, <2>4 DEF OfPackage
<1> QED BY <1>3, <1>4

LEMMA FitsOne ==
  ASSUME NEW facts, NEW p, NEW a, IsList(a.discharges), \A id \in Elements(a.discharges) : OfPackage(facts, p, id)
  PROVE  Fits(facts, p, <<a>>)
<1>1. Good(<<a>>)
  BY GoodOne
<1>2. \A k \in 1 .. Len(<<a>>) : <<a>>[k] = a
  OBVIOUS
<1> QED BY <1>1, <1>2 DEF Fits

LEMMA FitsNothing ==
  ASSUME NEW facts, NEW p
  PROVE  Fits(facts, p, <<>>)
  BY ShortLists DEF Fits, Good

LEMMA FitsAppend ==
  ASSUME NEW facts, NEW p, NEW as, Fits(facts, p, as),
         NEW a, IsList(a.discharges), \A id \in Elements(a.discharges) : OfPackage(facts, p, id)
  PROVE  Fits(facts, p, Append(as, a))
<1>1. PICK len \in Nat : len = Len(as)
  BY DEF Fits, Good, IsList
<1>2. /\ IsList(Append(as, a)) /\ Len(Append(as, a)) = len + 1
      /\ \A k \in 1 .. len : Append(as, a)[k] = as[k]
      /\ Append(as, a)[len + 1] = a
  BY <1>1, ListAppend DEF Fits, Good
<1>3. \A k \in 1 .. len + 1 : k \in 1 .. len \/ k = len + 1
  OBVIOUS
<1>4. \A k \in 1 .. len + 1 : IsList(Append(as, a)[k].discharges)
                            /\ \A id \in Elements(Append(as, a)[k].discharges) : OfPackage(facts, p, id)
  BY <1>1, <1>2, <1>3 DEF Fits, Good
<1> QED BY <1>2, <1>4 DEF Fits, Good

LEMMA ActionDischarges ==
  ASSUME NEW id, NEW kind, NEW inputs, NEW outputs, NEW list, NEW needs
  PROVE  /\ Action(id, kind, inputs, outputs, list, needs).discharges = list
         /\ Action(id, kind, inputs, outputs, list, needs).kind = kind
         /\ Action(id, kind, inputs, outputs, list, needs).id = id
  BY DEF Action

LEMMA CompileFits ==
  ASSUME NEW facts, Facts(facts), NEW c, NEW kind, NEW outputKind
  PROVE  Fits(facts, c.package, CompileIn(facts, c, kind, outputKind))
<1>1. PICK list : list = Artifacts(OutputsIn(facts, c.package, outputKind))
  OBVIOUS
<1>2. PICK a : a = Action(<<kind, c.package>>, kind, {Source(facts.lowerings[c.package])},
                          First(OutputsIn(facts, c.package, outputKind)), list, {})
  OBVIOUS
<1>3. IsList(list) /\ \A id \in Elements(list) : OfPackage(facts, c.package, id)
  BY <1>1, ArtifactFits
<1>4. a.discharges = list
  BY <1>2, ActionDischarges
<1>5. Fits(facts, c.package, <<a>>)
  BY <1>3, <1>4, FitsOne
<1> QED BY <1>1, <1>2, <1>5, FitsNothing DEF CompileIn

LEMMA FiniteSources ==
  ASSUME NEW S, IsFiniteSet(S)
  PROVE  IsFiniteSet({Source(s) : s \in S})
<1> DEFINE f == [x \in S |-> Source(x)]
<1>1. f \in Surjection(S, {Source(x) : x \in S})
  BY DEF Surjection
<1> QED BY <1>1, FS_Surjection

LEMMA ObjectsFit ==
  ASSUME NEW facts, Facts(facts), NEW c, NEW kind, NEW objectKind,
         NEW objects, objects = OutputsIn(facts, c.package, objectKind)
  PROVE  Fits(facts, c.package, CompileObjects(c, kind, objects))
<1>0. /\ IsList(objects)
      /\ \A k \in DOMAIN objects : /\ objects[k] \in Elements(facts.outputs) /\ objects[k].package = c.package
                                   /\ IsFiniteSet(objects[k].sources)
  BY DeclaredOutputs
<1>1. CASE PerSource(c, objects)
  <2> DEFINE Ids(i) == {Source(s) : s \in objects[i].sources}
             One(i) == Action(<<kind, c.package, c.version, objects[i].id>>, kind, Ids(i),
                              {Output(objects[i].id)}, SetToSeq(Ids(i)), {})
  <2>1. PICK len \in Nat : len = Len(objects) /\ DOMAIN objects = 1 .. len
    BY <1>0, ListIsSeq DEF IsList
  <2>2. CompileObjects(c, kind, objects) = [i \in 1 .. len |-> One(i)]
    BY <1>1, <2>1 DEF CompileObjects
  <2>3. ASSUME NEW i \in 1 .. len
        PROVE  IsList(One(i).discharges) /\ \A id \in Elements(One(i).discharges) : OfPackage(facts, c.package, id)
    <3>1. IsFiniteSet(Ids(i))
      BY <1>0, <2>1, FiniteSources
    <3>2. \A id \in Ids(i) : OfPackage(facts, c.package, id)
      BY <1>0, <2>1 DEF OfPackage
    <3>3. One(i).discharges = SetToSeq(Ids(i))
      BY ActionDischarges
    <3> HIDE DEF Ids, One
    <3>4. IsList(SetToSeq(Ids(i))) /\ Elements(SetToSeq(Ids(i))) \subseteq Ids(i)
      BY <3>1, OrderedElements
    <3> QED BY <3>2, <3>3, <3>4
  <2> HIDE DEF One
  <2>4. PICK as : as = [i \in 1 .. len |-> One(i)]
    OBVIOUS
  <2>5. as = [i \in 1 .. len |-> as[i]] /\ \A i \in 1 .. len : as[i] = One(i)
    BY <2>4
  <2>6. Len(as) = len /\ IsList(as)
    BY <2>5, FunctionIsList
  <2> QED BY <2>2, <2>3, <2>4, <2>5, <2>6 DEF Good, Fits
<1>2. CASE ~PerSource(c, objects)
  <2>1. PICK a : a = Action(<<kind, c.package, c.version>>, kind, SourcesOf(c), First(objects), <<>>, {})
    OBVIOUS
  <2>2. a.discharges = <<>>
    BY <2>1, ActionDischarges
  <2>3. IsList(<<>>) /\ Elements(<<>>) = {}
    BY EmptyList DEF Elements
  <2>4. Fits(facts, c.package, <<a>>)
    BY <2>2, <2>3, FitsOne
  <2> QED BY <1>2, <2>1, <2>4 DEF CompileObjects
<1> QED BY <1>1, <1>2

LEMMA ArchiveFits ==
  ASSUME NEW facts, Facts(facts), NEW c, NEW kind, NEW objectKind
  PROVE  Fits(facts, c.package, ArchivedIn(facts, c, kind, objectKind))
<1>1. PICK objects, compiles, a :
        /\ objects = OutputsIn(facts, c.package, objectKind) /\ compiles = CompileObjects(c, kind, objects)
        /\ a = ArchiveIn(facts, c, "ArchiveStaticLibrary", compiles, objects)
  OBVIOUS
<1>2. Fits(facts, c.package, compiles)
  BY <1>1, ObjectsFit
<1>3. a.discharges = Artifacts(OutputsIn(facts, c.package, ArchiveKind[c.ecosystem]))
  BY <1>1, ActionDischarges DEF ArchiveIn
<1>4. IsList(a.discharges) /\ \A id \in Elements(a.discharges) : OfPackage(facts, c.package, id)
  BY <1>3, ArtifactFits
<1>5. Fits(facts, c.package, Append(compiles, a))
  BY <1>2, <1>4, FitsAppend
<1> QED BY <1>1, <1>5 DEF ArchivedIn

LEMMA ChainFits ==
  ASSUME NEW facts, Facts(facts), NEW c, c.ecosystem \in {"Cargo", "Nimble", "C", "Cpp"}
  PROVE  Fits(facts, c.package, ChainIn(facts, c))
<1>1. CASE c.ecosystem = "Cargo"
  BY <1>1, CompileFits DEF ChainIn
<1>2. CASE c.ecosystem = "Nimble"
  BY <1>2, CompileFits DEF ChainIn
<1>3. CASE c.ecosystem = "C"
  BY <1>3, ArchiveFits DEF ChainIn
<1>4. CASE c.ecosystem = "Cpp"
  BY <1>4, ArchiveFits DEF ChainIn
<1> QED BY <1>1, <1>2, <1>3, <1>4

LEMMA BlockFits ==
  ASSUME NEW facts, Facts(facts), NEW os, NEW c \in Elements(facts.candidates)
  PROVE  Fits(facts, c.package, Block(facts, os, c))
<1>1. c.ecosystem \in {"Cargo", "Nimble", "C", "Cpp"}
  BY DEF Facts
<1> QED BY <1>1, ChainFits, FitsNothing DEF Block

(* What the demand does not reach discharges nothing of the pruned map.    *)
LEMMA UnreachedIsNotNamed ==
  ASSUME NEW facts, Regular(facts), Apart(facts), NEW p, p \notin Reached(facts),
         NEW id, OfPackage(facts, p, id)
  PROVE  ~Named(Pruned(facts), id)
<1>1. PICK g : g = Pruned(facts)
  OBVIOUS
<1>2. Facts(facts) /\ Facts(g)
  BY <1>1, PrunedIsFacts DEF Regular
<1>3. PICK o \in Elements(facts.outputs) : o.package = p /\ (id = Artifact(o.id) \/ \E s \in o.sources : id = Source(s))
  BY DEF OfPackage
<1>4. CASE id = Artifact(o.id)
  <2>1. ASSUME NEW x \in ChosenIn(g), Makes(g, x), id = ArtifactAt(g, x) PROVE FALSE
    <3>1. PICK q, kind, outs : outs = MadeBy(g, x) /\ outs = OutputsIn(g, q, kind)
      BY DEF MadeBy
    <3>2. outs[1] \in Elements(g.outputs)
      BY <1>2, <2>1, <3>1, DeclaredOutputs DEF Makes
    <3>3. outs[1] \in Elements(facts.outputs) /\ outs[1].package \in Reached(facts)
      BY <1>1, <1>2, <3>2, PrunedLists DEF KeptOutputs
    <3>4. outs[1].id = o.id
      BY <1>4, <2>1, <3>1, SameIds DEF ArtifactAt
    <3> QED BY <1>3, <3>3, <3>4 DEF Regular, DeclaredOnce
  <2> QED BY <1>1, <1>4, <2>1, KindsOfIds DEF Named, IdAt
<1>5. CASE \E s \in o.sources : id = Source(s)
  <2>1. PICK s \in o.sources : id = Source(s)
    BY <1>5
  <2>2. ASSUME NEW t \in g.sources, id = Source(t.id) PROVE FALSE
    <3>1. t.id = s
      BY <2>1, <2>2, SameIds
    <3>2. g.sources = {u \in facts.sources : u.package \in Reached(facts)}
      BY <1>1, <1>2, PrunedFields
    <3>3. t \in facts.sources /\ t.package \in Reached(facts) /\ t.id \in o.sources
      BY <2>1, <3>1, <3>2
    <3> QED BY <1>3, <3>3 DEF Apart
  <2>3. \A k : KindOf(ArtifactAt(g, k)) = "ArtifactProduction"
    BY KindsOfIds DEF ArtifactAt
  <2> QED BY <1>1, <2>1, <2>2, <2>3, KindsOfIds DEF Named, IdAt
<1> QED BY <1>3, <1>4, <1>5

-----------------------------------------------------------------------------
(* The last action of a list that discharges an obligation *)
Discharger(as, id) == {k \in DOMAIN as : id \in Elements(as[k].discharges)}
LastOf(as, id)     == CHOOSE k \in Discharger(as, id) : \A j \in Discharger(as, id) : j <= k
Closer(as, id)     == IF Discharger(as, id) = {} THEN {} ELSE {as[LastOf(as, id)].id}

LEMMA AssignedByCloser ==
  ASSUME NEW os, NEW as
  PROVE  /\ DOMAIN Assigned(os, as) = DOMAIN os
         /\ \A id \in DOMAIN os : Assigned(os, as)[id] =
              IF Closer(as, id) = {} THEN os[id] ELSE [os[id] EXCEPT !.action = Closer(as, id)]
<1> DEFINE Value(id) == IF Discharger(as, id) = {} THEN os[id] ELSE [os[id] EXCEPT !.action = {as[LastOf(as, id)].id}]
<1>1. Assigned(os, as) = [id \in DOMAIN os |-> Value(id)]
  BY DEF Assigned, Discharger, LastOf
<1>2. ASSUME NEW id
      PROVE  Value(id) = IF Closer(as, id) = {} THEN os[id] ELSE [os[id] EXCEPT !.action = Closer(as, id)]
  BY DEF Closer
<1> HIDE DEF Value
<1> QED BY <1>1, <1>2

LEMMA CloserIs ==
  ASSUME NEW as, IsList(as), NEW id, NEW k \in 1 .. Len(as), id \in Elements(as[k].discharges),
         \A j \in 1 .. Len(as) : id \in Elements(as[j].discharges) => j <= k
  PROVE  Closer(as, id) = {as[k].id}
<1>1. PICK n \in Nat : n = Len(as) /\ DOMAIN as = 1 .. n
  BY ListIsSeq DEF IsList
<1>2. PICK D : D = Discharger(as, id)
  OBVIOUS
<1>3. k \in D /\ D \subseteq 1 .. n /\ \A j \in D : j <= k
  BY <1>1, <1>2 DEF Discharger
<1>4. \A m \in D : (\A j \in D : j <= m) => m = k
  <2> SUFFICES ASSUME NEW m \in D, \A j \in D : j <= m PROVE m = k
    OBVIOUS
  <2>1. m \in Nat /\ k \in Nat /\ m <= k /\ k <= m
    BY <1>1, <1>3
  <2> QED BY <2>1
<1>5. LastOf(as, id) = k
  BY <1>2, <1>3, <1>4 DEF LastOf
<1> QED BY <1>2, <1>3, <1>5 DEF Closer

LEMMA CloserNone ==
  ASSUME NEW as, IsList(as), NEW id, \A j \in 1 .. Len(as) : id \notin Elements(as[j].discharges)
  PROVE  Closer(as, id) = {}
<1>1. DOMAIN as = 1 .. Len(as)
  BY ListIsSeq
<1> QED BY <1>1 DEF Closer, Discharger

LEMMA CloserCases ==
  ASSUME NEW as, IsList(as), NEW id
  PROVE  \/ \A j \in 1 .. Len(as) : id \notin Elements(as[j].discharges)
         \/ \E k \in 1 .. Len(as) : /\ id \in Elements(as[k].discharges)
                                    /\ \A j \in 1 .. Len(as) : id \in Elements(as[j].discharges) => j <= k
<1>1. PICK n \in Nat : n = Len(as)
  BY DEF IsList
<1>2. SUFFICES ASSUME NEW i \in 1 .. n, id \in Elements(as[i].discharges)
      PROVE  \E k \in 1 .. n : /\ id \in Elements(as[k].discharges)
                               /\ \A j \in 1 .. n : id \in Elements(as[j].discharges) => j <= k
  BY <1>1
<1>3. PICK S : S = {j \in 1 .. n : id \in Elements(as[j].discharges)}
  OBVIOUS
<1>4. S \subseteq 1 .. n /\ i \in S
  BY <1>2, <1>3
<1>5. PICK k \in S : \A j \in S : j <= k
  BY <1>4, LastExists
<1> QED BY <1>3, <1>5

LEMMA CloserConcat ==
  ASSUME NEW s, IsList(s), NEW t, IsList(t), NEW id
  PROVE  Closer(s \o t, id) = IF Closer(t, id) # {} THEN Closer(t, id) ELSE Closer(s, id)
<1>1. PICK m, n : m \in Nat /\ n \in Nat /\ m = Len(s) /\ n = Len(t)
  BY DEF IsList
<1>2. PICK u : u = s \o t
  OBVIOUS
<1>3. IsList(u) /\ Len(u) = m + n /\ \A k \in 1 .. m + n : u[k] = IF k <= m THEN s[k] ELSE t[k - m]
  BY <1>1, <1>2, ConcatList
<1>4. ASSUME NEW k \in 1 .. m + n PROVE (k \in 1 .. m /\ u[k] = s[k]) \/ (k - m \in 1 .. n /\ u[k] = t[k - m])
  <2>1. (k <= m /\ k \in 1 .. m) \/ (~(k <= m) /\ k - m \in 1 .. n)
    BY <1>1
  <2> QED BY <1>3, <2>1
<1>5. CASE \E k \in 1 .. n : /\ id \in Elements(t[k].discharges)
                             /\ \A j \in 1 .. n : id \in Elements(t[j].discharges) => j <= k
  <2>1. PICK k \in 1 .. n : /\ id \in Elements(t[k].discharges)
                            /\ \A j \in 1 .. n : id \in Elements(t[j].discharges) => j <= k
    BY <1>5
  <2>2. Closer(t, id) = {t[k].id}
    BY <1>1, <2>1, CloserIs
  <2>3. m + k \in 1 .. m + n /\ u[m + k] = t[k]
    <3>1. m + k \in 1 .. m + n /\ ~(m + k <= m) /\ (m + k) - m = k
      BY <1>1
    <3> QED BY <1>3, <3>1
  <2>4. ASSUME NEW j \in 1 .. m + n, id \in Elements(u[j].discharges) PROVE j <= m + k
    <3>1. CASE j \in 1 .. m
      BY <1>1, <3>1
    <3>2. CASE j - m \in 1 .. n /\ u[j] = t[j - m]
      <4>1. j - m <= k
        BY <2>1, <2>4, <3>2
      <4> QED BY <1>1, <4>1
    <3> QED BY <1>4, <3>1, <3>2
  <2>5. Closer(u, id) = {u[m + k].id}
    BY <1>3, <2>1, <2>3, <2>4, CloserIs
  <2> QED BY <1>2, <2>2, <2>3, <2>5
<1>6. CASE \A j \in 1 .. n : id \notin Elements(t[j].discharges)
  <2>1. Closer(t, id) = {}
    BY <1>1, <1>6, CloserNone
  <2>2. CASE \A j \in 1 .. m : id \notin Elements(s[j].discharges)
    <3>1. Closer(s, id) = {}
      BY <1>1, <2>2, CloserNone
    <3>2. \A j \in 1 .. m + n : id \notin Elements(u[j].discharges)
      BY <1>4, <1>6, <2>2
    <3>3. Closer(u, id) = {}
      BY <1>3, <3>2, CloserNone
    <3> QED BY <1>2, <2>1, <3>1, <3>3
  <2>3. CASE \E k \in 1 .. m : /\ id \in Elements(s[k].discharges)
                               /\ \A j \in 1 .. m : id \in Elements(s[j].discharges) => j <= k
    <3>1. PICK k \in 1 .. m : /\ id \in Elements(s[k].discharges)
                              /\ \A j \in 1 .. m : id \in Elements(s[j].discharges) => j <= k
      BY <2>3
    <3>2. Closer(s, id) = {s[k].id}
      BY <1>1, <3>1, CloserIs
    <3>3. k \in 1 .. m + n /\ u[k] = s[k]
      <4>1. k \in 1 .. m + n /\ k <= m
        BY <1>1
      <4> QED BY <1>3, <4>1
    <3>4. ASSUME NEW j \in 1 .. m + n, id \in Elements(u[j].discharges) PROVE j <= k
      BY <1>4, <1>6, <3>1, <3>4
    <3>5. Closer(u, id) = {u[k].id}
      BY <1>3, <3>1, <3>3, <3>4, CloserIs
    <3> QED BY <1>2, <2>1, <3>2, <3>3, <3>5
  <2> QED BY <1>1, <2>2, <2>3, CloserCases
<1> QED BY <1>1, <1>5, <1>6, CloserCases

-----------------------------------------------------------------------------
(* Plans of which some blocks are left out *)
LEMMA EmptyConcat ==
  ASSUME NEW t, IsList(t)
  PROVE  <<>> \o t = t
<1>1. t \in Seq({t[i] : i \in 1 .. Len(t)})
  BY ListIsSeq
<1> QED BY <1>1

Beginnings(f, seqs, n) ==
  /\ f[0] = <<>> /\ FlattenSeq(seqs) = f[n]
  /\ \A i \in 0 .. n : IsList(f[i])
  /\ \A i \in 1 .. n : f[i] = f[i-1] \o seqs[i]

LEMMA FlattenBeginnings ==
  ASSUME NEW seqs, IsList(seqs), \A i \in 1 .. Len(seqs) : IsList(seqs[i])
  PROVE  \E f : Beginnings(f, seqs, Len(seqs))
<1>1. PICK len \in Nat : len = Len(seqs)
  BY DEF IsList
<1>2. CASE len = 0
  <2>1. FlattenSeq(seqs) = seqs
    BY <1>1, <1>2 DEF FlattenSeq
  <2>2. seqs = <<>>
    BY <1>1, <1>2 DEF IsList
  <2>3. PICK f : f = [i \in {0} |-> <<>>]
    OBVIOUS
  <2>4. f[0] = <<>> /\ \A i \in 0 .. len : i = 0
    BY <1>2, <2>3
  <2>5. \A i \in 1 .. len : FALSE
    BY <1>2
  <2> QED BY <1>1, <1>2, <2>1, <2>2, <2>4, <2>5, EmptyList DEF Beginnings
<1>3. CASE len # 0
  <2>1. PICK h : FlattenSeq(seqs) = h[len] /\ Appends(h, seqs)
    BY <1>1, <1>3, FlattenUnfolds
  <2>2. PICK f : f = [i \in 0 .. len |-> IF i = 0 THEN <<>> ELSE h[i]]
    OBVIOUS
  <2>3. f[0] = <<>> /\ \A i \in 1 .. len : f[i] = h[i]
    BY <2>2
  <2>4. ASSUME NEW i \in 1 .. len PROVE f[i] = f[i-1] \o seqs[i]
    <3>1. CASE i = 1
      <4>1. h[i] = seqs[i]
        BY <1>1, <2>1, <3>1 DEF Appends
      <4>2. f[i-1] = <<>> /\ f[i] = seqs[i] /\ IsList(seqs[i])
        BY <1>1, <2>3, <3>1, <4>1
      <4> QED BY <4>2, EmptyConcat
    <3>2. CASE i # 1
      <4>1. h[i] = h[i-1] \o seqs[i]
        BY <1>1, <2>1, <3>2 DEF Appends
      <4>2. i - 1 \in 1 .. len
        BY <3>2
      <4> QED BY <2>3, <4>1, <4>2
    <3> QED BY <3>1, <3>2
  <2> DEFINE T == {i \in 0 .. len : IsList(f[i])}
  <2>5. 0 .. len \subseteq T
    <3>1. 0 \in T
      BY <2>3, EmptyList
    <3>2. ASSUME NEW i \in 1 .. len, i - 1 \in T PROVE i \in T
      <4>1. IsList(f[i-1]) /\ IsList(seqs[i])
        BY <1>1, <3>2
      <4>2. IsList(f[i-1] \o seqs[i])
        BY <4>1, ConcatList
      <4>3. f[i] = f[i-1] \o seqs[i]
        BY <2>4
      <4>4. IsList(f[i]) /\ i \in 0 .. len
        BY <4>2, <4>3
      <4> QED BY <4>4
    <3> HIDE DEF T
    <3> QED BY <3>1, <3>2, UpToInduction
  <2>6. FlattenSeq(seqs) = f[len] /\ \A i \in 0 .. len : IsList(f[i])
    BY <1>3, <2>1, <2>3, <2>5
  <2> QED BY <1>1, <2>3, <2>4, <2>6 DEF Beginnings
<1> QED BY <1>2, <1>3

(* The blocks that are left out discharge nothing in D; then what is in D  *)
(* is discharged by the same actions, with them or without them.           *)
Leaves(e, B, A, D) ==
  /\ IsList(A) /\ IsList(B) /\ Places(e, B, A)
  /\ \A m \in 1 .. Len(A) : IsList(A[m])
  /\ \A m \in 1 .. Len(A) : (\E x \in 1 .. Len(B) : e[x] = m) \/ \A id \in D : Closer(A[m], id) = {}

(* Of the first m blocks, k are in both.                                   *)
Counts(e, B, m, k) == \A x \in 1 .. Len(B) : x <= k <=> e[x] <= m
Merged(a, b, D) ==
  Elements(b) \subseteq Elements(a) /\ \A id \in D : Closer(a, id) = Closer(b, id)

LEMMA ElementsOfConcat ==
  ASSUME NEW s, IsList(s), NEW t, IsList(t)
  PROVE  Elements(s \o t) = Elements(s) \cup Elements(t)
<1>1. PICK m, n : m \in Nat /\ n \in Nat /\ m = Len(s) /\ n = Len(t)
  BY DEF IsList
<1>2. PICK u : u = s \o t
  OBVIOUS
<1>3. IsList(u) /\ Len(u) = m + n /\ \A k \in 1 .. m + n : u[k] = IF k <= m THEN s[k] ELSE t[k - m]
  BY <1>1, <1>2, ConcatList
<1>4. DOMAIN u = 1 .. m + n /\ DOMAIN s = 1 .. m /\ DOMAIN t = 1 .. n
  BY <1>1, <1>3, ListIsSeq
<1>5. ASSUME NEW k \in 1 .. m + n PROVE u[k] \in Elements(s) \cup Elements(t)
  <2>1. (k <= m /\ k \in 1 .. m) \/ (~(k <= m) /\ k - m \in 1 .. n)
    BY <1>1
  <2> QED BY <1>3, <1>4, <2>1 DEF Elements
<1>6. Elements(u) \subseteq Elements(s) \cup Elements(t)
  BY <1>4, <1>5 DEF Elements
<1> QED BY <1>2, <1>6, ConcatElements

LEMMA MergedStep ==
  ASSUME NEW a, IsList(a), NEW b, IsList(b), NEW D, Merged(a, b, D), NEW t, IsList(t)
  PROVE  /\ Merged(a \o t, b \o t, D)
         /\ (\A id \in D : Closer(t, id) = {}) => Merged(a \o t, b, D)
<1>1. /\ Elements(a \o t) = Elements(a) \cup Elements(t) /\ Elements(b \o t) = Elements(b) \cup Elements(t)
  BY ElementsOfConcat
<1>2. ASSUME NEW id \in D
      PROVE  /\ Closer(a \o t, id) = IF Closer(t, id) # {} THEN Closer(t, id) ELSE Closer(a, id)
             /\ Closer(b \o t, id) = IF Closer(t, id) # {} THEN Closer(t, id) ELSE Closer(b, id)
  BY CloserConcat
<1> QED BY <1>1, <1>2 DEF Merged

LEMMA FlattenMerged ==
  ASSUME NEW A, NEW B, NEW e, NEW D, Leaves(e, B, A, D)
  PROVE  Merged(FlattenSeq(A), FlattenSeq(B), D)
<1>1. PICK N, M : N \in Nat /\ M \in Nat /\ N = Len(A) /\ M = Len(B)
  BY DEF Leaves, IsList
<1>2. /\ \A x \in 1 .. M : e[x] \in 1 .. N /\ B[x] = A[e[x]]
      /\ \A x, y \in 1 .. M : x < y => e[x] < e[y]
      /\ \A m \in 1 .. N : IsList(A[m])
      /\ \A m \in 1 .. N : (\E x \in 1 .. M : e[x] = m) \/ \A id \in D : Closer(A[m], id) = {}
  BY <1>1 DEF Leaves, Places
<1>3. PICK f, h : Beginnings(f, A, N) /\ Beginnings(h, B, M)
  <2>1. /\ IsList(A) /\ \A i \in 1 .. Len(A) : IsList(A[i])
        /\ IsList(B) /\ \A i \in 1 .. Len(B) : IsList(B[i])
    BY <1>1, <1>2 DEF Leaves
  <2>2. (\E f : Beginnings(f, A, Len(A))) /\ \E h : Beginnings(h, B, Len(B))
    BY <2>1, FlattenBeginnings
  <2> QED BY <1>1, <2>2
<1>4. /\ f[0] = <<>> /\ FlattenSeq(A) = f[N] /\ \A i \in 0 .. N : IsList(f[i])
      /\ \A i \in 1 .. N : f[i] = f[i-1] \o A[i]
      /\ h[0] = <<>> /\ FlattenSeq(B) = h[M] /\ \A i \in 0 .. M : IsList(h[i])
      /\ \A i \in 1 .. M : h[i] = h[i-1] \o B[i]
  BY <1>3 DEF Beginnings
<1> DEFINE T == {m \in 0 .. N : \E k \in 0 .. M : Counts(e, B, m, k) /\ Merged(f[m], h[k], D)}
<1>5. 0 \in T
  <2>1. Counts(e, B, 0, 0)
    BY <1>1, <1>2 DEF Counts
  <2>2. Merged(<<>>, <<>>, D)
    BY DEF Merged
  <2> QED BY <1>1, <1>3, <1>4, <2>1, <2>2
<1>6. ASSUME NEW m \in 1 .. N, m - 1 \in T PROVE m \in T
  <2>1. PICK k \in 0 .. M : Counts(e, B, m - 1, k) /\ Merged(f[m-1], h[k], D)
    BY <1>6
  <2>2. \A x \in 1 .. M : x <= k <=> e[x] <= m - 1
    BY <1>1, <2>1 DEF Counts
  <2>3. /\ IsList(f[m-1]) /\ IsList(h[k]) /\ IsList(A[m]) /\ f[m] = f[m-1] \o A[m]
    <3>1. m - 1 \in 0 .. N
      BY <1>1
    <3> QED BY <1>2, <1>4, <3>1
  <2>4. CASE \E x \in 1 .. M : e[x] = m
    <3>1. PICK x \in 1 .. M : e[x] = m
      BY <2>4
    <3>2. ~(x <= k)
      BY <2>2, <3>1
    <3>3. x = k + 1
      <4>1. SUFFICES ASSUME k + 1 < x PROVE FALSE
        BY <1>1, <3>2
      <4>2. k + 1 \in 1 .. M
        BY <1>1, <4>1
      <4>3. e[k+1] < e[x] /\ e[k+1] \in 1 .. N
        BY <1>2, <4>1, <4>2
      <4>4. e[k+1] <= m - 1
        BY <1>1, <3>1, <4>3
      <4>5. k + 1 <= k
        BY <2>2, <4>2, <4>4
      <4> QED BY <1>1, <4>5
    <3>4. ASSUME NEW y \in 1 .. M PROVE y <= x <=> e[y] <= m
      <4>1. e[y] \in 1 .. N
        BY <1>2
      <4>2. y < x => e[y] < m
        BY <1>2, <3>1
      <4>3. x < y => m < e[y]
        BY <1>2, <3>1
      <4>4. y < x \/ x < y \/ x = y
        BY <1>1
      <4> QED BY <1>1, <3>1, <4>1, <4>2, <4>3, <4>4
    <3>5. Counts(e, B, m, x)
      BY <1>1, <3>4 DEF Counts
    <3>6. h[x] = h[k] \o A[m]
      <4>1. h[x] = h[x-1] \o B[x] /\ x - 1 = k
        <5>1. x - 1 = k
          BY <1>1, <3>3
        <5> QED BY <1>4, <5>1
      <4> QED BY <1>2, <3>1, <4>1
    <3>7. Merged(f[m], h[x], D)
      BY <2>1, <2>3, <3>6, MergedStep
    <3>8. x \in 0 .. M
      BY <1>1
    <3> QED BY <3>5, <3>7, <3>8
  <2>5. CASE ~\E x \in 1 .. M : e[x] = m
    <3>1. \A id \in D : Closer(A[m], id) = {}
      BY <1>2, <2>5
    <3>2. ASSUME NEW y \in 1 .. M PROVE y <= k <=> e[y] <= m
      <4>1. e[y] \in 1 .. N /\ e[y] # m
        BY <1>2, <2>5
      <4>2. e[y] <= m <=> e[y] <= m - 1
        BY <1>1, <4>1
      <4> QED BY <2>2, <4>2
    <3>3. Counts(e, B, m, k)
      BY <1>1, <3>2 DEF Counts
    <3>4. Merged(f[m], h[k], D)
      BY <2>1, <2>3, <3>1, MergedStep
    <3> QED BY <3>3, <3>4
  <2> QED BY <2>4, <2>5
<1>7. N \in T
  <2> HIDE DEF T
  <2>1. 0 .. N \subseteq T
    BY <1>1, <1>5, <1>6, UpToInduction
  <2> QED BY <1>1, <2>1
<1>8. PICK k \in 0 .. M : Counts(e, B, N, k) /\ Merged(f[N], h[k], D)
  BY <1>7
<1>9. k = M
  <2>1. SUFFICES ASSUME k # M PROVE FALSE
    OBVIOUS
  <2>2. M \in 1 .. M /\ e[M] \in 1 .. N
    BY <1>1, <1>2, <2>1
  <2>3. M <= k
    BY <1>1, <1>8, <2>2 DEF Counts
  <2> QED BY <1>1, <2>1, <2>3
<1> QED BY <1>4, <1>8, <1>9

(* Of all the facts and of the pruned ones.                                *)
LEMMA PlansAgree ==
  ASSUME NEW facts, NEW os, NEW ps, Twice(facts, os, ps)
  PROVE  Merged(Planned(facts, os), Planned(Pruned(facts), ps), DOMAIN ps)
<1>1. PICK g, e : g = Pruned(facts) /\ CandidatesPlaced(facts, e)
  BY AllPlaced DEF Twice, Regular
<1>2. Facts(facts) /\ Facts(g)
  BY <1>1, PrunedIsFacts DEF Twice, Regular
<1>3. PICK N, M : /\ N \in Nat /\ M \in Nat /\ DOMAIN facts.candidates = 1 .. N /\ DOMAIN g.candidates = 1 .. M
  BY <1>2, FactsAreLists DEF IsList
<1>4. PICK A, B : /\ A = [i \in 1 .. N |-> Block(facts, os, facts.candidates[i])]
                  /\ B = [i \in 1 .. M |-> Block(g, ps, g.candidates[i])]
  OBVIOUS
<1>5. Planned(facts, os) = FlattenSeq(A) /\ Planned(g, ps) = FlattenSeq(B)
  BY <1>3, <1>4 DEF Planned
<1>6. /\ A = [i \in 1 .. N |-> A[i]] /\ \A i \in 1 .. N : A[i] = Block(facts, os, facts.candidates[i])
      /\ B = [i \in 1 .. M |-> B[i]] /\ \A i \in 1 .. M : B[i] = Block(g, ps, g.candidates[i])
  BY <1>4
<1>7. IsList(A) /\ Len(A) = N /\ IsList(B) /\ Len(B) = M
  BY <1>3, <1>6, FunctionIsList
<1>8. ASSUME NEW x \in 1 .. M PROVE B[x] = A[e[x]] /\ e[x] \in 1 .. N
  <2>1. PICK c : c = g.candidates[x]
    OBVIOUS
  <2>2. e[x] \in 1 .. N /\ c = facts.candidates[e[x]] /\ c.package \in Reached(facts)
    BY <1>1, <1>3, <2>1 DEF CandidatesPlaced
  <2>3. c.ecosystem \in {"Cargo", "Nimble", "C", "Cpp"}
    BY <1>2, <1>3, <2>1 DEF Facts, Elements
  <2>4. ChainIn(g, c) = ChainIn(facts, c)
    BY <1>1, <1>2, <2>2, <2>3, PrunedChain
  <2>5. Picked(ps, c) <=> Picked(os, c)
    <3>1. Same2(os, ps, IdAt(g, x))
      BY <1>1, <1>3, SelectionsAgree
    <3> QED BY <2>1, <3>1 DEF Picked, Same2, IdAt
  <2>6. Block(g, ps, c) = Block(facts, os, c)
    BY <2>4, <2>5 DEF Block
  <2> QED BY <1>6, <2>1, <2>2, <2>6
<1>9. ASSUME NEW m \in 1 .. N
      PROVE  IsList(A[m]) /\ ((\E x \in 1 .. M : e[x] = m) \/ \A id \in DOMAIN ps : Closer(A[m], id) = {})
  <2>1. PICK c : c = facts.candidates[m]
    OBVIOUS
  <2>2. c \in Elements(facts.candidates) /\ A[m] = Block(facts, os, c)
    BY <1>3, <1>6, <2>1 DEF Elements
  <2>3. Fits(facts, c.package, A[m])
    BY <1>2, <2>2, BlockFits
  <2>4. c.package \in Reached(facts) <=> \E x \in 1 .. M : e[x] = m
    BY <1>1, <1>3, <2>1 DEF CandidatesPlaced
  <2>5. ASSUME c.package \notin Reached(facts), NEW id \in DOMAIN ps PROVE Closer(A[m], id) = {}
    <3>1. Named(g, id)
      BY <1>1 DEF Twice, Finished, Built, AllNamed
    <3>2. ~OfPackage(facts, c.package, id)
      BY <1>1, <2>5, <3>1, UnreachedIsNotNamed DEF Twice
    <3>3. \A j \in 1 .. Len(A[m]) : id \notin Elements(A[m][j].discharges)
      BY <2>3, <3>2 DEF Fits
    <3> QED BY <2>3, <3>3, CloserNone DEF Fits, Good
  <2> QED BY <2>3, <2>4, <2>5 DEF Fits, Good
<1>10. \A x, y \in 1 .. M : x < y => e[x] < e[y]
  BY <1>1, <1>3 DEF CandidatesPlaced
<1>11. Leaves(e, B, A, DOMAIN ps)
  BY <1>7, <1>8, <1>9, <1>10 DEF Leaves, Places
<1>12. Merged(FlattenSeq(A), FlattenSeq(B), DOMAIN ps)
  BY <1>11, FlattenMerged
<1> QED BY <1>1, <1>5, <1>12

(* Their actions are assigned alike.                                       *)
LEMMA AssignedAgree ==
  ASSUME NEW facts, NEW os, NEW ps, Twice(facts, os, ps), NEW as, as = Planned(facts, os),
         NEW bs, bs = Planned(Pruned(facts), ps), NEW id \in DOMAIN ps
  PROVE  Same2(Assigned(os, as), Assigned(ps, bs), id)
<1>1. Same2(os, ps, id)
  BY MapsAgree
<1>2. Closer(as, id) = Closer(bs, id)
  BY PlansAgree DEF Merged
<1>3. /\ DOMAIN Assigned(os, as) = DOMAIN os /\ DOMAIN Assigned(ps, bs) = DOMAIN ps
      /\ Assigned(os, as)[id] = IF Closer(as, id) = {} THEN os[id] ELSE [os[id] EXCEPT !.action = Closer(as, id)]
      /\ Assigned(ps, bs)[id] = IF Closer(bs, id) = {} THEN ps[id] ELSE [ps[id] EXCEPT !.action = Closer(bs, id)]
  BY <1>1, AssignedByCloser DEF Same2
<1> QED BY <1>1, <1>2, <1>3 DEF Same2

-----------------------------------------------------------------------------
(* Both results *)
(* Whatever is in ps is in os, and the same unless it is in X.             *)
Covers(os, ps, X) == \A id \in DOMAIN ps : id \in DOMAIN os /\ (id \notin X => os[id] = ps[id])

LEMMA InsertCovers ==
  ASSUME NEW os, NEW ps, NEW X, Covers(os, ps, X), NEW id, NEW o, NEW x, o = x \/ id \in X
  PROVE  Covers(Insert(os, id, o), Insert(ps, id, x), X)
<1>1. PICK f, h : f = Insert(os, id, o) /\ h = Insert(ps, id, x)
  OBVIOUS
<1>2. With(f, os, id, o) /\ With(h, ps, id, x)
  BY <1>1, InsertValues
<1>3. ASSUME NEW i \in DOMAIN h PROVE i \in DOMAIN f /\ (i \notin X => f[i] = h[i])
  <2>1. CASE i = id
    BY <1>2, <2>1 DEF With
  <2>2. CASE i # id
    BY <1>2, <1>3, <2>2 DEF With, Covers
  <2> QED BY <2>1, <2>2
<1> QED BY <1>1, <1>3 DEF Covers

(* Its last obligations, with what waits for the link left open.           *)
Ended(os, order, link, exe) ==
  Insert(Insert(Insert(Insert(Insert(Insert(os, LinkOrder, order), FinalLink, link),
    Artifact(exe), Obligation("Satisfied", {FinalLink}, {<<"link">>})),
    Runtime, Obligation("Satisfied", {Artifact(exe)}, {<<"preflight">>})),
    Provenance, Obligation("Satisfied", {Runtime}, {<<"publish">>})),
    Demand, Satisfied({Provenance}))

LEMMA ClosingEnds ==
  ASSUME NEW os, NEW exe
  PROVE  \E order, link : Closing(os, exe) = Ended(os, order, link, exe)
<1> DEFINE artifacts == {Artifact(o) : o \in Linked(os)}
           order == Obligation("Satisfied", artifacts, {<<"link">>})
           tied == Obligation("Satisfied", artifacts \cup {LinkOrder} \cup Of(os, "Symbol"), {<<"link">>})
<1>1. Closing(os, exe) = Ended(os, order, tied, exe)
  BY Zenon DEF Closing, Ended
<1> HIDE DEF order, tied
<1> QED BY <1>1

LEMMA ClosingCovers ==
  ASSUME NEW os, NEW ps, NEW exe, Covers(os, ps, {})
  PROVE  /\ Covers(Closing(os, exe), Closing(ps, exe), {FinalLink, LinkOrder})
         /\ DOMAIN ps \subseteq DOMAIN Closing(ps, exe)
         /\ \A id \in DOMAIN Closing(os, exe) : KindOf(id) = "PackageSelection" => id \in DOMAIN os
<1>1. PICK X : X = {FinalLink, LinkOrder}
  OBVIOUS
<1>2. PICK order, link, order1, link1 :
        Closing(os, exe) = Ended(os, order, link, exe) /\ Closing(ps, exe) = Ended(ps, order1, link1, exe)
  BY ClosingEnds
<1>3. Covers(os, ps, X) /\ FinalLink \in X /\ LinkOrder \in X
  BY <1>1 DEF Covers
<1>4. PICK o3, o4, o5, o6 :
        /\ o3 = Obligation("Satisfied", {FinalLink}, {<<"link">>})
        /\ o4 = Obligation("Satisfied", {Artifact(exe)}, {<<"preflight">>})
        /\ o5 = Obligation("Satisfied", {Runtime}, {<<"publish">>})
        /\ o6 = Satisfied({Provenance})
  OBVIOUS
<1>5. PICK f1, f2, f3, f4, f5, f6 :
        /\ f1 = Insert(os, LinkOrder, order) /\ f2 = Insert(f1, FinalLink, link)
        /\ f3 = Insert(f2, Artifact(exe), o3) /\ f4 = Insert(f3, Runtime, o4)
        /\ f5 = Insert(f4, Provenance, o5) /\ f6 = Insert(f5, Demand, o6)
  OBVIOUS
<1>6. PICK h1, h2, h3, h4, h5, h6 :
        /\ h1 = Insert(ps, LinkOrder, order1) /\ h2 = Insert(h1, FinalLink, link1)
        /\ h3 = Insert(h2, Artifact(exe), o3) /\ h4 = Insert(h3, Runtime, o4)
        /\ h5 = Insert(h4, Provenance, o5) /\ h6 = Insert(h5, Demand, o6)
  OBVIOUS
<1>7. Closing(os, exe) = f6 /\ Closing(ps, exe) = h6
  BY <1>2, <1>4, <1>5, <1>6, Zenon DEF Ended
<1>8. Covers(f6, h6, X)
  <2>1. Covers(f1, h1, X)
    BY <1>3, <1>5, <1>6, InsertCovers
  <2>2. Covers(f2, h2, X)
    BY <1>3, <1>5, <1>6, <2>1, InsertCovers
  <2>3. Covers(f3, h3, X)
    BY <1>5, <1>6, <2>2, InsertCovers
  <2>4. Covers(f4, h4, X)
    BY <1>5, <1>6, <2>3, InsertCovers
  <2>5. Covers(f5, h5, X)
    BY <1>5, <1>6, <2>4, InsertCovers
  <2> QED BY <1>5, <1>6, <2>5, InsertCovers
<1>9. /\ With(f1, os, LinkOrder, order) /\ With(f2, f1, FinalLink, link) /\ With(f3, f2, Artifact(exe), o3)
      /\ With(f4, f3, Runtime, o4) /\ With(f5, f4, Provenance, o5) /\ With(f6, f5, Demand, o6)
      /\ With(h1, ps, LinkOrder, order1) /\ With(h2, h1, FinalLink, link1) /\ With(h3, h2, Artifact(exe), o3)
      /\ With(h4, h3, Runtime, o4) /\ With(h5, h4, Provenance, o5) /\ With(h6, h5, Demand, o6)
  BY <1>5, <1>6, InsertValues
<1>10. DOMAIN ps \subseteq DOMAIN h6
  BY <1>9 DEF With
<1>11. \A id \in DOMAIN f6 : id \in DOMAIN os \/ id \in {LinkOrder, FinalLink, Artifact(exe), Runtime, Provenance, Demand}
  BY <1>9 DEF With
<1>12. \A id \in DOMAIN f6 : KindOf(id) = "PackageSelection" => id \in DOMAIN os
  BY <1>11, KindsOfIds
<1> QED BY <1>1, <1>7, <1>8, <1>10, <1>12

(* The preflight and the publication depend on the executable alone.       *)
LEMMA ClosingActions ==
  ASSUME NEW os, NEW as, NEW ps, NEW bs, NEW exe, NEW a \in Elements(LinkAndPublish(ps, bs, exe)),
         a.kind # "LinkNativeExecutable"
  PROVE  a \in Elements(LinkAndPublish(os, as, exe))
<1>1. PICK y, z : /\ y = Action(<<"preflight">>, "PreflightRuntimeContract", {Output(exe)}, {}, <<Runtime>>, {<<"link">>})
                  /\ z = Action(<<"publish">>, "PublishProvenance", {Output(exe)}, {<<"provenance", exe>>},
                                <<Provenance>>, {<<"preflight">>})
  OBVIOUS
<1>2. ASSUME NEW ms, NEW ls
      PROVE  \E x : LinkAndPublish(ms, ls, exe) = <<x, y, z>> /\ x.kind = "LinkNativeExecutable"
  <2>1. PICK i, o, w, x : /\ LinkAndPublish(ms, ls, exe) = <<x, y, z>>
                          /\ x = Action(<<"link">>, "LinkNativeExecutable", i, o, <<FinalLink, LinkOrder, Artifact(exe)>>, w)
    BY <1>1, Zenon DEF LinkAndPublish
  <2> QED BY <2>1, ActionDischarges
<1>3. ASSUME NEW x PROVE Elements(<<x, y, z>>) = {x, y, z}
  BY DEF Elements
<1>4. PICK x, w : /\ LinkAndPublish(os, as, exe) = <<x, y, z>>
                  /\ LinkAndPublish(ps, bs, exe) = <<w, y, z>> /\ w.kind = "LinkNativeExecutable"
  BY <1>2
<1>5. a \in {w, y, z} /\ Elements(LinkAndPublish(os, as, exe)) = {x, y, z}
  BY <1>3, <1>4
<1> QED BY <1>4, <1>5

LEMMA PlannedIsList ==
  ASSUME NEW facts, Facts(facts), NEW os
  PROVE  IsList(Planned(facts, os))
<1>1. PICK N \in Nat : DOMAIN facts.candidates = 1 .. N
  BY FactsAreLists DEF IsList
<1>2. PICK A : A = [i \in 1 .. N |-> Block(facts, os, facts.candidates[i])]
  OBVIOUS
<1>3. A = [i \in 1 .. N |-> A[i]] /\ \A i \in 1 .. N : A[i] = Block(facts, os, facts.candidates[i])
  BY <1>2
<1>4. IsList(A) /\ Len(A) = N
  BY <1>3, FunctionIsList
<1>5. \A i \in 1 .. N : Good(A[i])
  <2> SUFFICES ASSUME NEW i \in 1 .. N PROVE Good(A[i])
    OBVIOUS
  <2>1. facts.candidates[i] \in Elements(facts.candidates)
    BY <1>1 DEF Elements
  <2> QED BY <1>3, <2>1, BlockFits DEF Fits
<1>6. Good(FlattenSeq(A))
  BY <1>4, <1>5, FlattenGood
<1> QED BY <1>1, <1>2, <1>6 DEF Planned, Good

(* What DemandDrivenAgrees says of the two results.                        *)
Agreed(facts, full, pruned) ==
  /\ pruned.verdict = "accepted"
  /\ \A id \in DOMAIN pruned.obligations :
       /\ id \in DOMAIN full.obligations
       /\ id \notin {FinalLink, LinkOrder} => full.obligations[id] = pruned.obligations[id]
  /\ \A id \in DOMAIN full.obligations :
       KindOf(id) = "PackageSelection" /\ id[2] \in Reached(facts) => id \in DOMAIN pruned.obligations
  /\ \A a \in Elements(pruned.actions) : a.kind # "LinkNativeExecutable" => a \in Elements(full.actions)

LEMMA ResultsAgree ==
  ASSUME NEW facts, Regular(facts), Apart(facts), NEW full, NEW pruned,
         Accepted(facts, full), Accepted(Pruned(facts), pruned)
  PROVE  Agreed(facts, full, pruned)
<1>1. PICK g : g = Pruned(facts)
  OBVIOUS
<1>2. PICK os, as, exe :
       /\ Finished(facts, os) /\ as = Planned(facts, os) /\ exe = ExecutablesIn(facts)[1].id
       /\ full.obligations = Closing(Assigned(os, as), exe)
       /\ full.actions = as \o LinkAndPublish(Assigned(os, as), as, exe)
  BY DEF Accepted
<1>3. PICK ps, bs, ex :
       /\ Finished(g, ps) /\ bs = Planned(g, ps) /\ ex = ExecutablesIn(g)[1].id
       /\ pruned.obligations = Closing(Assigned(ps, bs), ex)
       /\ pruned.actions = bs \o LinkAndPublish(Assigned(ps, bs), bs, ex)
  BY <1>1 DEF Accepted
<1>4. Facts(facts) /\ Facts(g) /\ ex = exe
  BY <1>1, <1>2, <1>3, PrunedIsFacts, PrunedExecutables DEF Regular
<1>5. Twice(facts, os, ps)
  BY <1>1, <1>2, <1>3 DEF Twice, Accepted
<1>6. PICK om, pm : om = Assigned(os, as) /\ pm = Assigned(ps, bs)
  OBVIOUS
<1>7. DOMAIN om = DOMAIN os /\ DOMAIN pm = DOMAIN ps
  BY <1>6, AssignedByCloser
<1>8. Covers(om, pm, {})
  <2> SUFFICES ASSUME NEW id \in DOMAIN ps PROVE Same2(om, pm, id)
    BY <1>7 DEF Covers, Same2
  <2> QED BY <1>1, <1>2, <1>3, <1>5, <1>6, AssignedAgree
<1>9. /\ Covers(full.obligations, pruned.obligations, {FinalLink, LinkOrder})
      /\ DOMAIN ps \subseteq DOMAIN pruned.obligations
      /\ \A id \in DOMAIN full.obligations : KindOf(id) = "PackageSelection" => id \in DOMAIN os
  <2>1. full.obligations = Closing(om, exe) /\ pruned.obligations = Closing(pm, exe)
    BY <1>2, <1>3, <1>4, <1>6
  <2>2. /\ Covers(Closing(om, exe), Closing(pm, exe), {FinalLink, LinkOrder})
        /\ DOMAIN pm \subseteq DOMAIN Closing(pm, exe)
        /\ \A id \in DOMAIN Closing(om, exe) : KindOf(id) = "PackageSelection" => id \in DOMAIN om
    BY <1>8, ClosingCovers
  <2> QED BY <1>7, <2>1, <2>2
<1>10. \A id \in DOMAIN full.obligations :
         KindOf(id) = "PackageSelection" /\ id[2] \in Reached(facts) => id \in DOMAIN pruned.obligations
  BY <1>5, <1>9, ReachedSelections
<1>11. ASSUME NEW a \in Elements(pruned.actions), a.kind # "LinkNativeExecutable"
       PROVE  a \in Elements(full.actions)
  <2>1. PICK l, m : l = LinkAndPublish(om, as, exe) /\ m = LinkAndPublish(pm, bs, exe)
    OBVIOUS
  <2>2. IsList(as) /\ IsList(bs) /\ IsList(l) /\ IsList(m)
    BY <1>2, <1>3, <1>4, <2>1, PlannedIsList, ClosingIsGood DEF Good
  <2>3. full.actions = as \o l /\ pruned.actions = bs \o m
    BY <1>2, <1>3, <1>4, <1>6, <2>1
  <2>4. Elements(full.actions) = Elements(as) \cup Elements(l)
    BY <2>2, <2>3, ElementsOfConcat
  <2>5. Elements(pruned.actions) = Elements(bs) \cup Elements(m)
    BY <2>2, <2>3, ElementsOfConcat
  <2>6. Elements(bs) \subseteq Elements(as)
    BY <1>1, <1>2, <1>3, <1>5, PlansAgree DEF Merged
  <2>7. CASE a \in Elements(m)
    <3>1. a \in Elements(l)
      BY <1>11, <2>1, <2>7, ClosingActions
    <3> QED BY <2>4, <3>1
  <2> QED BY <2>4, <2>5, <2>6, <2>7
<1> QED BY <1>9, <1>10, <1>11 DEF Agreed, Covers, Accepted

-----------------------------------------------------------------------------
(* Both calls *)
(* What either call has established of the facts it is given, at each      *)
(* stage.                                                                  *)
MadeAt(facts, at, n, os, reg, as) ==
  /\ n \in Nat \ {0}
  /\ at \in {"register", "roots"} => n = 1 /\ reg = {}
  /\ at = "roots" => HasBasis(facts, os) /\ AllNamed(facts, os)
  /\ at = "requirements" =>
       /\ OneRoot(facts) /\ n - 1 <= Len(facts.requirements) /\ ServedSuit(facts, n - 1)
       /\ Built(facts, n - 1, ServedIn(facts, n - 1), os) /\ Registers(facts, n - 1, reg)
  /\ at = "actions" => Decided(facts) /\ Finished(facts, os)
  /\ at = "closing" => /\ Decided(facts)
                       /\ \E ms : Finished(facts, ms) /\ as = Planned(facts, ms) /\ os = Assigned(ms, as)

CallInv ==
  stage \in Resolving =>
    /\ Len(results) \in {0, 1}
    /\ Len(results) = 0 => given = input
    /\ Len(results) = 1 => given = Pruned(input)
    /\ Regular(given) => MadeAt(given, stage, next, obligations, registered, actions)
AcceptInv ==
  /\ Len(results) # 0 => Facts(input)
  /\ Len(results) # 0 /\ Regular(input) /\ results[1].verdict = "accepted" => Accepted(input, results[1])
  /\ Len(results) = 2 /\ Regular(input) /\ Apart(input) /\ results[1].verdict = "accepted" =>
       Accepted(Pruned(input), results[2])
AgreeInv == CallInv /\ AcceptInv /\ (stage \in Reading => registered = {})

LEMMA ReturnAgrees ==
  ASSUME FactsGiven, Returned, AgreeInv, stage \in Resolving, NEW result, Return(result),
         Regular(given) /\ result.verdict = "accepted" => Accepted(given, result),
         Regular(given) /\ Decided(given) => result.verdict = "accepted"
  PROVE  AgreeInv'
<1>1. IsList(results) /\ results' = Append(results, result)
  BY DEF Returned, Return
<1>2. PICK n \in Nat : n = Len(results)
  BY <1>1 DEF IsList
<1>3. /\ Len(results') = n + 1 /\ results'[n + 1] = result /\ \A k \in 1 .. n : results'[k] = results[k]
  BY <1>1, <1>2, ListAppend
<1>4. results = <<>> <=> n = 0
  <2>1. results = <<>> => n = 0
    BY <1>2, EmptyList
  <2>2. n = 0 => results = <<>>
    BY <1>1, <1>2 DEF IsList
  <2> QED BY <2>1, <2>2
<1>5. /\ n \in {0, 1} /\ (n = 0 => given = input) /\ (n = 1 => given = Pruned(input))
  BY <1>2 DEF AgreeInv, CallInv
<1>6. /\ input' = input /\ next' = 1 /\ registered' = {}
      /\ n = 0 => stage' = "register" /\ given' = Pruned(input)
      /\ n = 1 => stage' = "resolved"
  BY <1>4 DEF Return
<1>7. stage' \notin Reading
  BY <1>5, <1>6 DEF Reading
<1>8. CASE n = 0
  <2>1. Facts(input)
    BY <1>4, <1>5, <1>8 DEF FactsGiven
  <2>2. Regular(input) /\ result.verdict = "accepted" => Accepted(input, result)
    BY <1>5, <1>8
  <2>3. Len(results') = 1 /\ results'[1] = result
    BY <1>3, <1>8
  <2>4. AcceptInv'
    BY <1>6, <2>1, <2>2, <2>3 DEF AcceptInv
  <2>5. MadeAt(given', stage', next', obligations', registered', actions')
    BY <1>6, <1>8 DEF MadeAt
  <2>6. CallInv'
    BY <1>6, <1>8, <2>3, <2>5 DEF CallInv
  <2> QED BY <1>7, <2>4, <2>6 DEF AgreeInv
<1>9. CASE n = 1
  <2>1. Len(results') = 2 /\ results'[1] = results[1] /\ results'[2] = result
    BY <1>3, <1>9
  <2>2. /\ Facts(input)
        /\ Regular(input) /\ results[1].verdict = "accepted" => Accepted(input, results[1])
    BY <1>2, <1>9 DEF AgreeInv, AcceptInv
  <2>3. ASSUME Regular(input), Apart(input), results[1].verdict = "accepted"
        PROVE  Accepted(Pruned(input), result)
    <3>1. Decided(input)
      BY <2>2, <2>3 DEF Accepted
    <3>2. Regular(Pruned(input)) /\ Decided(Pruned(input))
      BY <2>3, <3>1, PrunedIsRegular, PrunedIsDecided
    <3> QED BY <1>5, <1>9, <3>2
  <2>4. AcceptInv'
    BY <1>6, <2>1, <2>2, <2>3 DEF AcceptInv
  <2>5. CallInv'
    BY <1>6, <1>9 DEF CallInv, Resolving
  <2> QED BY <1>7, <2>4, <2>5 DEF AgreeInv
<1> QED BY <1>5, <1>8, <1>9

LEMMA GotoAgrees ==
  ASSUME AgreeInv, stage \in Resolving, NEW to \in Resolving \cup {"panicked"}, Goto(to),
         Regular(given) /\ to # "panicked" => MadeAt(given, to, next', obligations', registered', actions')
  PROVE  AgreeInv'
<1>1. stage' = to /\ input' = input /\ given' = given /\ results' = results
  BY DEF Goto
<1>2. CallInv'
  BY <1>1 DEF AgreeInv, CallInv, Resolving
<1>3. AcceptInv'
  BY <1>1 DEF AgreeInv, AcceptInv
<1> QED BY <1>1, <1>2, <1>3 DEF AgreeInv, Resolving, Reading

LEMMA ResolveAgrees ==
  ASSUME FactsGiven, Returned, AgreeInv, Resolve
  PROVE  AgreeInv'
<1>1. stage \in Resolving
  BY DEF Resolving, Resolve, Register, RejectRoots, SelectRoots, RejectRequirement, SelectProvider,
         Panic, RejectUndeclared, RegisterRoots, BuildActions, Close
<1>2. Regular(given) => MadeAt(given, stage, next, obligations, registered, actions) /\ Facts(given)
  BY <1>1 DEF AgreeInv, CallInv, Regular
<1>3. ASSUME NEW reason, Reject(reason), reason # "accepted", ~(Regular(given) /\ Decided(given)) PROVE AgreeInv'
  <2>1. PICK result : result = Result(reason, <<>>, <<>>, {})
    OBVIOUS
  <2>2. Return(result) /\ result.verdict = reason
    BY <1>3, <2>1 DEF Reject, Result
  <2> QED BY <1>1, <1>3, <2>2, ReturnAgrees
<1>4. CASE Register
  <2>1. stage = "register" /\ Goto("roots") /\ next' = next /\ registered' = registered
    BY <1>4 DEF Register
  <2>2. ASSUME Regular(given) PROVE MadeAt(given, "roots", next', obligations', registered', actions')
    <3>1. HasBasis(given, obligations') /\ AllNamed(given, obligations')
      BY <1>4, RegisterBuilds
    <3>2. next = 1 /\ registered = {}
      BY <1>2, <2>1, <2>2 DEF MadeAt
    <3> QED BY <2>1, <3>1, <3>2 DEF MadeAt
  <2> QED BY <1>1, <2>1, <2>2, GotoAgrees DEF Resolving
<1>5. CASE SelectRoots
  <2>1. stage = "roots" /\ Goto("requirements") /\ next' = next /\ registered' = registered
    BY <1>5 DEF SelectRoots
  <2>2. ASSUME Regular(given) PROVE MadeAt(given, "requirements", next', obligations', registered', actions')
    <3>1. next = 1 /\ registered = {} /\ HasBasis(given, obligations) /\ AllNamed(given, obligations)
      BY <1>2, <2>1, <2>2 DEF MadeAt
    <3>2. OneRoot(given) /\ Built(given, 0, {}, obligations')
      BY <1>2, <1>5, <2>2, <3>1, RootsBuild
    <3>3. ServedIn(given, 0) = {} /\ ServedSuit(given, 0)
      BY DEF ServedIn, ServedSuit
    <3>4. Registers(given, 0, {})
      BY <3>3 DEF Registers
    <3>5. 0 <= Len(given.requirements)
      BY <1>2, <2>2, FactsAreLists DEF IsList
    <3>6. next' - 1 = 0 /\ next' \in Nat \ {0} /\ registered' = {}
      BY <2>1, <3>1
    <3> QED BY <3>2, <3>3, <3>4, <3>5, <3>6 DEF MadeAt
  <2> QED BY <1>1, <2>1, <2>2, GotoAgrees DEF Resolving
<1>6. CASE SelectProvider
  <2>1. /\ stage = "requirements" /\ Goto("requirements") /\ next' = next + 1
        /\ next <= Len(given.requirements)
    BY <1>6 DEF SelectProvider
  <2>2. ASSUME Regular(given) PROVE MadeAt(given, "requirements", next', obligations', registered', actions')
    <3>1. /\ OneRoot(given) /\ next \in Nat \ {0} /\ ServedSuit(given, next - 1)
          /\ Built(given, next - 1, ServedIn(given, next - 1), obligations) /\ Registers(given, next - 1, registered)
      BY <1>2, <2>1, <2>2 DEF MadeAt
    <3>2. /\ ServedSuit(given, next) /\ Built(given, next, ServedIn(given, next), obligations')
          /\ Registers(given, next, registered')
      BY <1>6, <2>2, <3>1, ProviderBuilds
    <3>3. next' - 1 = next /\ next' \in Nat \ {0}
      BY <2>1, <3>1
    <3> QED BY <2>1, <3>1, <3>2, <3>3 DEF MadeAt
  <2> QED BY <1>1, <2>1, <2>2, GotoAgrees DEF Resolving
<1>7. CASE RegisterRoots
  <2>1. /\ stage = "requirements" /\ Goto("actions") /\ next' = next
        /\ next > Len(given.requirements)
    BY <1>7 DEF RegisterRoots
  <2>2. ASSUME Regular(given) PROVE MadeAt(given, "actions", next', obligations', registered', actions')
    <3>1. /\ OneRoot(given) /\ next \in Nat \ {0} /\ ServedSuit(given, next - 1) /\ next - 1 <= Len(given.requirements)
          /\ Built(given, next - 1, ServedIn(given, next - 1), obligations)
      BY <1>2, <2>1, <2>2 DEF MadeAt
    <3>2. PICK n \in Nat : n = Len(given.requirements)
      BY <1>2, <2>2, FactsAreLists DEF IsList
    <3>3. next - 1 = n
      BY <2>1, <3>1, <3>2
    <3>4. Decided(given) /\ Finished(given, obligations')
      BY <1>7, <2>2, <3>1, <3>2, <3>3, RootArtifactsBuild
    <3> QED BY <2>1, <3>1, <3>4 DEF MadeAt
  <2> QED BY <1>1, <2>1, <2>2, GotoAgrees DEF Resolving
<1>8. CASE BuildActions
  <2>1. stage = "actions" /\ Goto("closing") /\ next' = next
    BY <1>8 DEF BuildActions
  <2>2. ASSUME Regular(given) PROVE MadeAt(given, "closing", next', obligations', registered', actions')
    <3>1. next \in Nat \ {0} /\ Decided(given) /\ Finished(given, obligations)
      BY <1>2, <2>1, <2>2 DEF MadeAt
    <3>2. actions' = Planned(given, obligations) /\ obligations' = Assigned(obligations, actions')
      BY <1>2, <1>8, <2>2, GivenPlan
    <3>3. PICK ms, as, os : ms = obligations /\ as = actions' /\ os = obligations'
      OBVIOUS
    <3>4. Finished(given, ms) /\ as = Planned(given, ms) /\ os = Assigned(ms, as)
      BY <3>1, <3>2, <3>3
    <3> QED BY <2>1, <3>1, <3>3, <3>4 DEF MadeAt
  <2> QED BY <1>1, <2>1, <2>2, GotoAgrees DEF Resolving
<1>9. CASE Close
  <2>1. CASE Regular(given)
    <3>1. PICK ms : Decided(given) /\ Finished(given, ms) /\ actions = Planned(given, ms) /\ obligations = Assigned(ms, actions)
      BY <1>2, <1>9, <2>1 DEF MadeAt, Close
    <3>2. PICK result : Return(result) /\ Accepted(given, result)
      BY <1>9, <2>1, <3>1, CloseAccepts
    <3> QED BY <1>1, <3>2, ReturnAgrees DEF Accepted
  <2>2. CASE ~Regular(given)
    <3>1. PICK result : Return(result)
      BY <1>9 DEF Close
    <3> QED BY <1>1, <2>2, <3>1, ReturnAgrees
  <2> QED BY <2>1, <2>2
<1>10. CASE Panic
  BY <1>1, <1>10, GotoAgrees DEF Panic
<1>11. CASE RejectRoots
  <2>1. Reject("VersionConflict") /\ \E p \in Roots : Cardinality(Candidates(p)) > 1
    BY <1>11 DEF RejectRoots
  <2>2. ~(Regular(given) /\ Decided(given))
    BY <1>2, <2>1, SingleRoots DEF Decided
  <2> QED BY <1>3, <2>1, <2>2
<1>12. CASE RejectRequirement
  <2>1. PICK r : r = given.requirements[next]
    OBVIOUS
  <2>2. stage = "requirements" /\ next <= Len(given.requirements) /\ \E reason \in Refusals(r) : Reject(reason)
    BY <1>12, <2>1 DEF RejectRequirement
  <2>3. PICK reason \in Refusals(r) : Reject(reason)
    BY <2>2
  <2>4. reason # "accepted"
    BY DEF Refusals
  <2>5. ASSUME Regular(given), Decided(given) PROVE FALSE
    <3>1. next \in Nat \ {0} /\ Facts(given)
      BY <1>2, <2>5 DEF MadeAt
    <3>2. PICK n \in Nat : n = Len(given.requirements) /\ DOMAIN given.requirements = 1 .. n
      BY <3>1, FactsAreLists DEF IsList
    <3>3. next \in 1 .. n
      BY <2>2, <3>1, <3>2
    <3>4. r \in Elements(given.requirements)
      BY <2>1, <3>2, <3>3 DEF Elements
    <3>5. Suits(given, r)
      BY <2>5, <3>4 DEF Decided
    <3>6. Refusals(r) = {}
      BY <3>1, <3>5, AcceptedSuits
    <3> QED BY <3>6
  <2> QED BY <1>3, <2>3, <2>4, <2>5
<1>13. CASE RejectUndeclared
  <2>1. Reject("UnsupportedConstruct") /\ Executables = <<>>
    BY <1>13 DEF RejectUndeclared
  <2>2. ~(Regular(given) /\ Decided(given))
    BY <1>2, <2>1, GivenExecutables DEF Decided
  <2> QED BY <1>3, <2>1, <2>2
<1> QED BY <1>4, <1>5, <1>6, <1>7, <1>8, <1>9, <1>10, <1>11, <1>12, <1>13 DEF Resolve

LEMMA AgreeInit ==
  ASSUME ProductionInit
  PROVE  AgreeInv
<1>1. Len(results) = 0
  BY EmptyList DEF ProductionInit, DriverInit, CallerInit, Init, IngestInit
<1>2. stage \in Resolving => stage = "register" /\ given = input /\ next = 1 /\ registered = {}
  BY DEF ProductionInit, DriverInit, CallerInit, Init, IngestInit, Resolving
<1>3. registered = {}
  BY DEF ProductionInit, DriverInit, CallerInit, Init, IngestInit
<1>4. CallInv
  BY <1>1, <1>2 DEF CallInv, MadeAt
<1>5. AcceptInv
  BY <1>1 DEF AcceptInv
<1> QED BY <1>3, <1>4, <1>5 DEF AgreeInv

LEMMA AgreeKept ==
  ASSUME Inv, DeliveryInv, AgreeInv, [ProductionNext]_allVars
  PROVE  AgreeInv'
<1>1. ASSUME stage' \notin Resolving \cup Reading, input' = input, results' = results PROVE AgreeInv'
  BY <1>1 DEF AgreeInv, CallInv, AcceptInv
<1>2. CASE Ingest
  <2>1. /\ stage \in Reading /\ results' = results /\ stage' \in Reading \cup {"refused", "register"}
        /\ registered' = registered
    BY <1>2 DEF Ingest, ReadTriple, ReadCargo, ReadNimble, ReadMain, ReadExports, ReadCadd, ReadCppmax,
                Refuse, HandOver, Found, Reading
  <2>2. results = <<>> /\ registered = {}
    BY <2>1 DEF DeliveryInv, ReadInv, AgreeInv
  <2>3. Len(results') = 0
    BY <2>1, <2>2, EmptyList
  <2>4. AcceptInv'
    BY <2>3 DEF AcceptInv
  <2>5. stage' = "register" => given' = input' /\ next' = 1
    <3>1. CASE HandOver
      BY <3>1 DEF HandOver, DeliveryInv, ReadInv, Reading
    <3>2. ASSUME stage' = "register" PROVE HandOver
      BY <1>2, <3>2 DEF Ingest, ReadTriple, ReadCargo, ReadNimble, ReadMain, ReadExports, ReadCadd, ReadCppmax,
                        Refuse, Found
    <3> QED BY <3>1, <3>2
  <2>6. stage' \in Resolving => stage' = "register"
    BY <2>1 DEF Resolving, Reading
  <2>7. CallInv'
    BY <2>1, <2>2, <2>3, <2>5, <2>6 DEF CallInv, MadeAt
  <2> QED BY <2>1, <2>2, <2>4, <2>7 DEF AgreeInv
<1>3. CASE Resolve
  BY <1>3, ResolveAgrees DEF Inv, RecordsInv, DriverInv
<1>4. CASE Production
  <2>1. /\ results' = results /\ input' = input
        /\ stage' \in {"resolution", "operations", "failed", "published", "blocked"}
    BY <1>4 DEF Production, NewGraph, RecordDecisions, RecordAction, RefuseAction, Gate, StageTo
  <2> QED BY <1>1, <2>1 DEF Resolving, Reading
<1>5. CASE AnyRecord
  <2>1. stage' = "any order" /\ results' = results /\ input' = input
    BY <1>5 DEF AnyRecord, vars
  <2> QED BY <1>1, <2>1 DEF Resolving, Reading
<1>6. CASE UNCHANGED allVars
  <2>1. /\ stage' = stage /\ results' = results /\ input' = input /\ given' = given /\ next' = next
        /\ obligations' = obligations /\ registered' = registered /\ actions' = actions
    BY <1>6 DEF allVars, vars
  <2> QED BY <2>1 DEF AgreeInv, CallInv, AcceptInv
<1> QED BY <1>2, <1>3, <1>4, <1>5, <1>6 DEF ProductionNext

LEMMA AgreeMeets ==
  ASSUME AgreeInv
  PROVE  DemandDrivenAgrees
<1>1. SUFFICES ASSUME Len(results) = 2, results[1].verdict = "accepted", ~Split(input), Apart(input)
      PROVE  Agreed(input, results[1], results[2])
  BY DEF DemandDrivenAgrees, Agreed
<1>2. Facts(input)
  BY <1>1 DEF AgreeInv, AcceptInv
<1>3. DeclaredOnce(input)
  BY <1>1 DEF Apart, DeclaredOnce, Elements
<1>4. Regular(input)
  BY <1>1, <1>2, <1>3 DEF Regular
<1>5. Accepted(input, results[1]) /\ Accepted(Pruned(input), results[2])
  BY <1>1, <1>4 DEF AgreeInv, AcceptInv
<1> QED BY <1>1, <1>4, <1>5, ResultsAgree

(* Where what the demand does not reach is apart, and no package is split: *)
(* if resolve accepts all the facts it accepts the pruned ones, and makes  *)
(* of them the same candidates, edges and actions.  Whatever the facts are.*)
THEOREM DemandDrivenAgreesHolds == ProductionSpec => []DemandDrivenAgrees
<1>1. ProductionInit => Inv /\ DeliveryInv /\ AgreeInv
  BY InitInv, DeliveryInit, AgreeInit
<1>2. Inv /\ DeliveryInv /\ AgreeInv /\ [ProductionNext]_allVars => Inv' /\ DeliveryInv' /\ AgreeInv'
  BY StepKeeps, DeliveryKept, AgreeKept
<1>3. AgreeInv => DemandDrivenAgrees
  BY AgreeMeets
<1> QED BY <1>1, <1>2, <1>3, PTL DEF ProductionSpec
=============================================================================
