------------------------ MODULE RecordsAndMerges_proofs ------------------------
(***************************************************************************)
(* Decisions.  A locked one binds, for any gates, any number of rows and   *)
(* reloads: the store looks at nobody's status, so what keeps an approval  *)
(* off a locked decision is that the page offers it only for what it shows *)
(* as proposed, that it makes one call at a time, and that what it shows   *)
(* is out of date only where an answer on its way will say so.             *)
(*                                                                         *)
(* Merges.  A fan-in loses no work, for any set of paths and directories   *)
(* among them: what diffWorktree() captures of a branch names every path   *)
(* at which the branch differs from the commit, so that two branches whose *)
(* paths neither meet nor lie above each other can be put together.        *)
(*                                                                         *)
(* The log.  Dropping the tables of a project and deriving them from its   *)
(* log again changes no row, and neither does applying the end of a log    *)
(* once more, for logs of any length.  An event is seen row by row: what   *)
(* it makes of the rows with one key depends on these rows alone, except   *)
(* that the database refuses a row whose parent is missing.                *)
(***************************************************************************)
EXTENDS DecisionLog, ChangeMerge, ReadModels,
        SequenceTheorems, FiniteSetTheorems, WellFoundedInduction, TLAPS

-----------------------------------------------------------------------------
(* Decisions.                                                              *)

\* The word that stands for no gate is no gate.
GatesHaveNames == NoGate \notin Gates

Statuses == {"proposed", "approved", "locked", "superseded"}

Rows == [status : Statuses, lockedAt : BOOLEAN, supersededBy : Nat,
         gate : Gates \cup {NoGate}, verdict : {"approved", "rejected", NoGate}]

Lists    == [op : {"list"}, load : Nat]
OnRows   == [op : {"approve", "lock", "supersede"}, id : Nat]
Requests == Lists \cup [op : {"propose"}] \cup OnRows

Readings == UNION {[D -> Rows] : D \in SUBSET Nat}
Answers  == [to : Requests, rows : Readings, ok : BOOLEAN]

TypeOK ==
  /\ log \in Seq(Rows) /\ requests \in Seq(Requests) /\ replies \in Seq(Answers)
  /\ shown \in Readings /\ busy \in BOOLEAN
  /\ forms \subseteq Nat /\ epoch \in Nat /\ blocked \subseteq Gates

\* A gate's row is born locked; each gate has one that is in force.
RowsAreSound ==
  /\ \A d \in DOMAIN log :
       /\ Readable(log[d])
       /\ log[d].gate # NoGate => log[d].status \in {"locked", "superseded"}
  /\ \A d, e \in DOMAIN log :
       log[d].gate # NoGate /\ log[d].gate = log[e].gate
         /\ log[d].status = "locked" /\ log[e].status = "locked" => d = e

IsCall(request) == request.op # "list"

\* One isSubmitting for all the cards: there is at most one call, on its way there or back.
OneCall ==
  /\ \A i \in DOMAIN requests : IsCall(requests[i]) =>
       /\ busy
       /\ \A j \in DOMAIN requests : IsCall(requests[j]) => j = i
       /\ \A k \in DOMAIN replies : ~IsCall(replies[k].to)
  /\ \A k \in DOMAIN replies : IsCall(replies[k].to) =>
       /\ busy
       /\ \A j \in DOMAIN replies : IsCall(replies[j].to) => j = k

\* A call that waits to be served finds the row as it was when the button was pressed.
CallsFit ==
  \A i \in DOMAIN requests :
    /\ requests[i].op \in {"approve", "lock", "supersede"} => requests[i].id \in DOMAIN log
    /\ requests[i].op = "approve" => log[requests[i].id].status = "proposed"
    /\ requests[i].op = "lock" => log[requests[i].id].status \in {"proposed", "approved"}

\* An answer behind the i-th reply tells what became of d.
Told(d, i) ==
  \E k \in DOMAIN replies : k > i /\ IsCall(replies[k].to) /\ d \in DOMAIN replies[k].rows

\* What was read at the i-th place is the log's, unless an answer behind it says otherwise.
UpToDate(rows, i) ==
  \A d \in DOMAIN rows :
    d \in DOMAIN log /\ (rows[d].status = log[d].status \/ Told(d, i))

PageFollows ==
  /\ UpToDate(shown, 0)
  /\ \A i \in DOMAIN replies : UpToDate(replies[i].rows, i) /\ replies[i].ok
  /\ forms \subseteq DOMAIN log

LogInv == TypeOK /\ RowsAreSound /\ OneCall /\ CallsFit /\ PageFollows

-----------------------------------------------------------------------------
(* Queues.                                                                  *)

LEMMA Shifted ==
  ASSUME NEW S, NEW q \in Seq(S), q # << >>
  PROVE  /\ Head(q) = q[1] /\ 1 \in DOMAIN q /\ q[1] \in S
         /\ Tail(q) \in Seq(S)
         /\ \A i \in DOMAIN Tail(q) : Tail(q)[i] = q[i + 1] /\ i + 1 \in DOMAIN q /\ i \in Nat
         /\ \A i \in DOMAIN q : i # 1 => i - 1 \in DOMAIN Tail(q)
         /\ \A i \in DOMAIN q : i \in Nat /\ i > 0
<1>1. Len(q) \in Nat /\ Len(q) > 0 /\ DOMAIN q = 1..Len(q)
  BY EmptySeq
<1>2. Tail(q) \in Seq(S) /\ Len(Tail(q)) = Len(q) - 1
  BY HeadTailProperties
<1>3. \A i \in 1..(Len(q) - 1) : Tail(q)[i] = q[i + 1]
  BY <1>1
<1>4. DOMAIN Tail(q) = 1..(Len(q) - 1)
  BY <1>1, <1>2
<1> QED BY <1>1, <1>2, <1>3, <1>4

LEMMA Joined ==
  ASSUME NEW S, NEW q \in Seq(S), NEW x \in S
  PROVE  /\ Append(q, x) \in Seq(S) /\ Len(q) \in Nat /\ Len(Append(q, x)) = Len(q) + 1
         /\ DOMAIN Append(q, x) = DOMAIN q \cup {Len(q) + 1}
         /\ Len(q) + 1 \notin DOMAIN q
         /\ Append(q, x)[Len(q) + 1] = x
         /\ \A i \in DOMAIN q : Append(q, x)[i] = q[i] /\ i \in Nat /\ i < Len(q) + 1 /\ i > 0
<1>1. /\ Len(q) \in Nat /\ DOMAIN q = 1..Len(q)
  OBVIOUS
<1>2. /\ Append(q, x) \in Seq(S) /\ Len(Append(q, x)) = Len(q) + 1
      /\ Append(q, x)[Len(q) + 1] = x
      /\ \A i \in 1..Len(q) : Append(q, x)[i] = q[i]
  BY AppendProperties
<1>3. DOMAIN Append(q, x) = 1..(Len(q) + 1)
  BY <1>1, <1>2
<1> QED BY <1>1, <1>2, <1>3

-----------------------------------------------------------------------------
(* What a call makes of the rows.                                           *)

\* What no step does to the rows.
RowsAreBinding ==
  /\ \A d \in DOMAIN log :
       /\ d \in DOMAIN log'
       /\ log[d].status = "locked" => log'[d].status \in {"locked", "superseded"}
       /\ log[d].status = "superseded" => log'[d].status = "superseded"
       /\ log'[d].supersededBy # log[d].supersededBy =>
            log'[log'[d].supersededBy].status = "locked"

\* The rows of ids change, everything else is as it was; new rows may have come.
Grows(ids) ==
  /\ log' \in Seq(Rows) /\ DOMAIN log \subseteq DOMAIN log'
  /\ \A d \in DOMAIN log \ ids : log'[d].status = log[d].status

\* Locking what was born locked changes nothing.
LEMMA BornLocked ==
  ASSUME NEW rows \in Seq(Rows), NEW new \in Rows, new.status = "locked", new.lockedAt
  PROVE  Locked(Append(rows, new), Len(rows) + 1) = Append(rows, new)
<1> DEFINE n == Len(rows) + 1
           grown == Append(rows, new)
           both == Locked(grown, n)
<1>1. n \in DOMAIN grown /\ grown[n] = new /\ grown \in Seq(Rows)
  BY Joined
<1> HIDE DEF n
<1> HIDE DEF grown
<1>2. [grown[n] EXCEPT !.status = "locked", !.lockedAt = TRUE] = grown[n]
  BY <1>1 DEF Rows
<1>3. both = [grown EXCEPT ![n] = grown[n]]
  BY <1>1, <1>2 DEF Locked
<1>4. /\ \A d \in DOMAIN grown : both[d] = grown[d]
      /\ DOMAIN both = DOMAIN grown /\ both = [d \in DOMAIN both |-> both[d]]
  BY <1>1, <1>3
<1>5. grown = [d \in DOMAIN grown |-> grown[d]]
  BY <1>1
<1> HIDE DEF both
<1>6. both = grown
  BY <1>4, <1>5
<1> QED BY <1>6 DEF both, grown, n

LEMMA NewRow ==
  ASSUME GatesHaveNames, TypeOK, RowsAreSound, NEW status \in {"proposed", "locked"},
         NEW g \in Gates \cup {NoGate}, NEW verdict \in {"approved", "rejected", NoGate},
         (g = NoGate) <=> (verdict = NoGate), g # NoGate => status = "locked",
         g # NoGate => GateDecision(log, g) = {},
         log' = Append(log, Row(status, g, verdict))
  PROVE  RowsAreSound' /\ RowsAreBinding /\ Grows({}) /\ Len(log) + 1 \in DOMAIN log'
<1> DEFINE row == Row(status, g, verdict)
           n == Len(log) + 1
<1>1. /\ row \in Rows /\ row.status = status /\ row.gate = g /\ Readable(row)
  BY DEF Row, Rows, Statuses, Readable
<1> HIDE DEF row
<1>2. /\ log' \in Seq(Rows) /\ DOMAIN log' = DOMAIN log \cup {n} /\ n \notin DOMAIN log
      /\ log'[n] = row /\ \A d \in DOMAIN log : log'[d] = log[d]
  <2>1. log \in Seq(Rows)
    BY DEF TypeOK
  <2>2. log' = Append(log, row)
    BY DEF row
  <2> QED BY <1>1, <2>1, <2>2, Joined
<1> HIDE DEF n
<1>3. \A d \in DOMAIN log' :
        /\ Readable(log'[d])
        /\ log'[d].gate # NoGate => log'[d].status \in {"locked", "superseded"}
  BY <1>1, <1>2 DEF RowsAreSound
<1>4. \A d, e \in DOMAIN log' :
        log'[d].gate # NoGate /\ log'[d].gate = log'[e].gate
          /\ log'[d].status = "locked" /\ log'[e].status = "locked" => d = e
  <2>1. g # NoGate => \A d \in DOMAIN log : ~(log[d].gate = g /\ log[d].status = "locked")
    BY DEF GateDecision
  <2> QED BY <1>1, <1>2, <2>1 DEF RowsAreSound
<1>5. RowsAreSound'
  BY <1>3, <1>4 DEF RowsAreSound, Readable
<1>6. RowsAreBinding /\ Grows({})
  BY <1>2 DEF RowsAreBinding, Grows
<1> QED BY <1>2, <1>5, <1>6 DEF n

LEMMA ApprovedRow ==
  ASSUME TypeOK, RowsAreSound, NEW id \in DOMAIN log, log[id].status = "proposed",
         log' = Approved(log, id)
  PROVE  RowsAreSound' /\ RowsAreBinding /\ Grows({id}) /\ id \in DOMAIN log'
<1> DEFINE row == [log[id] EXCEPT !.status = "approved"]
<1>1. /\ log \in Seq(Rows) /\ log[id] \in Rows /\ Readable(log[id]) /\ log[id].gate = NoGate
  BY DEF TypeOK, RowsAreSound
<1>2. /\ row \in Rows /\ row.status = "approved" /\ row.gate = NoGate
      /\ row.supersededBy = log[id].supersededBy /\ row.verdict = log[id].verdict
  BY <1>1 DEF Rows, Statuses
<1> HIDE DEF row
<1>3. Readable(row)
  BY <1>1, <1>2 DEF Readable
<1>4. log' = [log EXCEPT ![id] = row]
  BY DEF Approved, row
<1>5. /\ log' \in Seq(Rows) /\ DOMAIN log' = DOMAIN log
      /\ \A d \in DOMAIN log : log'[d] = IF d = id THEN row ELSE log[d]
  BY <1>1, <1>2, <1>4
<1>6. RowsAreSound'
  BY <1>2, <1>3, <1>5 DEF RowsAreSound, Readable
<1> QED BY <1>2, <1>5, <1>6 DEF RowsAreBinding, Grows

LEMMA LockedRow ==
  ASSUME TypeOK, RowsAreSound, NEW id \in DOMAIN log, log[id].status \in {"proposed", "approved"},
         log' = Locked(log, id)
  PROVE  RowsAreSound' /\ RowsAreBinding /\ Grows({id}) /\ id \in DOMAIN log'
<1> DEFINE row == [log[id] EXCEPT !.status = "locked", !.lockedAt = TRUE]
<1>1. /\ log \in Seq(Rows) /\ log[id] \in Rows /\ Readable(log[id]) /\ log[id].gate = NoGate
  BY DEF TypeOK, RowsAreSound
<1>2. /\ row \in Rows /\ row.status = "locked" /\ row.gate = NoGate /\ row.lockedAt
      /\ row.supersededBy = log[id].supersededBy /\ row.verdict = log[id].verdict
  BY <1>1 DEF Rows, Statuses
<1> HIDE DEF row
<1>3. Readable(row)
  BY <1>1, <1>2 DEF Readable
<1>4. log' = [log EXCEPT ![id] = row]
  BY <1>1 DEF Locked, row
<1>5. /\ log' \in Seq(Rows) /\ DOMAIN log' = DOMAIN log
      /\ \A d \in DOMAIN log : log'[d] = IF d = id THEN row ELSE log[d]
  BY <1>1, <1>2, <1>4
<1>6. RowsAreSound'
  BY <1>2, <1>3, <1>5 DEF RowsAreSound, Readable
<1> QED BY <1>2, <1>5, <1>6 DEF RowsAreBinding, Grows

LEMMA SupersededRow ==
  ASSUME GatesHaveNames, TypeOK, RowsAreSound, NEW id \in DOMAIN log, log' = Superseded(log, id)
  PROVE  RowsAreSound' /\ RowsAreBinding /\ Grows({id}) /\ {id, Len(log')} \subseteq DOMAIN log'
<1> DEFINE n == Len(log) + 1
           new == Row("locked", NoGate, NoGate)
           grown == Append(log, new)
           both == Locked(grown, n)
           row == [log[id] EXCEPT !.status = "superseded", !.supersededBy = n]
<1>1. /\ log \in Seq(Rows) /\ log[id] \in Rows /\ Readable(log[id]) /\ Len(log) \in Nat
  BY DEF TypeOK, RowsAreSound
<1>2. new \in Rows /\ new.status = "locked" /\ new.lockedAt /\ new.gate = NoGate /\ Readable(new)
  BY DEF Row, Rows, Statuses, Readable
<1> HIDE DEF new
<1>3. /\ grown \in Seq(Rows) /\ DOMAIN grown = DOMAIN log \cup {n} /\ n \notin DOMAIN log
      /\ Len(grown) = n /\ grown[n] = new /\ \A d \in DOMAIN log : grown[d] = log[d]
  BY <1>1, <1>2, Joined
<1> HIDE DEF grown
<1>4. both = grown
  BY <1>1, <1>2, BornLocked DEF grown
<1>0. n \in Nat /\ n # 0
  BY <1>1
<1>5. /\ row \in Rows /\ row.status = "superseded" /\ row.gate = log[id].gate
      /\ row.supersededBy = n /\ row.verdict = log[id].verdict
  <2> HIDE DEF n
  <2> QED BY <1>1, <1>0 DEF Rows, Statuses
<1> HIDE DEF row
<1>6. Readable(row) /\ n # 0
  BY <1>1, <1>0, <1>5 DEF Readable
<1>7. log' = [grown EXCEPT ![id] = row]
  <2>1. log' = [both EXCEPT ![id].status = "superseded", ![id].supersededBy = Len(both)]
    BY DEF Superseded, Proposed, grown, new
  <2>2. grown[id] = log[id] /\ id \in DOMAIN grown
    BY <1>3
  <2> HIDE DEF both, n
  <2> QED BY <1>3, <1>4, <2>1, <2>2 DEF row
<1>8. /\ log' \in Seq(Rows) /\ DOMAIN log' = DOMAIN log \cup {n} /\ Len(log') = n
      /\ \A d \in DOMAIN log : log'[d] = IF d = id THEN row ELSE log[d]
      /\ log'[n] = new
  BY <1>3, <1>5, <1>7
<1> HIDE DEF n, both
<1>9. RowsAreSound'
  BY <1>2, <1>3, <1>5, <1>6, <1>8 DEF RowsAreSound, Readable
<1> QED BY <1>2, <1>3, <1>5, <1>8, <1>9 DEF RowsAreBinding, Grows

-----------------------------------------------------------------------------
(* The main process answers.                                                *)

LEMMA RequestKinds ==
  ASSUME NEW r \in Requests
  PROVE  /\ r.op \in {"list", "propose", "approve", "lock", "supersede"}
         /\ r.op \in {"approve", "lock", "supersede"} => r.id \in Nat
BY DEF Requests, Lists, OnRows

\* What the call read back is what it changed: whoever has an older reading will be told.
Answered(request, read) ==
  /\ RowsAreSound' /\ RowsAreBinding /\ log' \in Seq(Rows) /\ read \subseteq DOMAIN log'
  /\ request.op = "list" => log' = log
  /\ \A d \in DOMAIN log :
       d \in DOMAIN log' /\ (d \notin read => log'[d].status = log[d].status)

LEMMA CallIsAnswered ==
  ASSUME GatesHaveNames, LogInv, requests # << >>, log' = After(Head(requests))
  PROVE  Answered(Head(requests), ReadBack(Head(requests), log'))
<1> DEFINE request == Head(requests)
<1>1. /\ request = requests[1] /\ 1 \in DOMAIN requests /\ request \in Requests
  <2>1. requests \in Seq(Requests)
    BY DEF LogInv, TypeOK
  <2> QED BY <2>1, Shifted
<1>2. /\ request.op \in {"approve", "lock", "supersede"} => request.id \in DOMAIN log
      /\ request.op = "approve" => log[request.id].status = "proposed"
      /\ request.op = "lock" => log[request.id].status \in {"proposed", "approved"}
  BY <1>1 DEF LogInv, CallsFit
<1>3. TypeOK /\ RowsAreSound
  BY DEF LogInv
<1> HIDE DEF request
<1>4. log' = After(request)
  BY DEF request
<1>5. CASE request.op = "list"
  <2>1. log' = log /\ ReadBack(request, log') = DOMAIN log'
    BY <1>4, <1>5 DEF After, ReadBack
  <2>2. RowsAreSound' /\ log' \in Seq(Rows)
    BY <1>3, <2>1 DEF RowsAreSound, Readable, TypeOK
  <2>3. RowsAreBinding
    BY <2>1 DEF RowsAreBinding
  <2> QED BY <2>1, <2>2, <2>3 DEF Answered, request
<1>6. CASE request.op = "propose"
  <2>1. log' = Append(log, Row("proposed", NoGate, NoGate)) /\ ReadBack(request, log') = {Len(log')}
    BY <1>4, <1>6 DEF After, ReadBack, Proposed
  <2>2. RowsAreSound' /\ RowsAreBinding /\ Grows({}) /\ Len(log) + 1 \in DOMAIN log'
    BY <1>3, <2>1, NewRow
  <2>3. Len(log') = Len(log) + 1
    BY <1>3, <2>1 DEF TypeOK
  <2> QED BY <1>6, <2>1, <2>2, <2>3 DEF Answered, Grows, request
<1>7. CASE request.op = "approve"
  <2>1. log' = Approved(log, request.id) /\ ReadBack(request, log') = {request.id}
    BY <1>4, <1>7 DEF After, ReadBack
  <2>2. RowsAreSound' /\ RowsAreBinding /\ Grows({request.id}) /\ request.id \in DOMAIN log'
    BY <1>2, <1>3, <1>7, <2>1, ApprovedRow
  <2> QED BY <1>7, <2>1, <2>2 DEF Answered, Grows, request
<1>8. CASE request.op = "lock"
  <2>1. log' = Locked(log, request.id) /\ ReadBack(request, log') = {request.id}
    BY <1>4, <1>8 DEF After, ReadBack
  <2>2. RowsAreSound' /\ RowsAreBinding /\ Grows({request.id}) /\ request.id \in DOMAIN log'
    BY <1>2, <1>3, <1>8, <2>1, LockedRow
  <2> QED BY <1>8, <2>1, <2>2 DEF Answered, Grows, request
<1>9. CASE request.op = "supersede"
  <2>1. log' = Superseded(log, request.id) /\ ReadBack(request, log') = {request.id, Len(log')}
    BY <1>4, <1>9 DEF After, ReadBack
  <2>2. /\ RowsAreSound' /\ RowsAreBinding /\ Grows({request.id})
        /\ {request.id, Len(log')} \subseteq DOMAIN log'
    BY <1>2, <1>3, <1>9, <2>1, SupersededRow
  <2> QED BY <1>9, <2>1, <2>2 DEF Answered, Grows, request
<1> QED BY <1>1, <1>5, <1>6, <1>7, <1>8, <1>9, RequestKinds

LEMMA ServePreservesInv ==
  ASSUME GatesHaveNames, LogInv, Serve
  PROVE  LogInv' /\ RowsAreBinding
<1> DEFINE request == Head(requests)
           read == ReadBack(request, log')
           answer == [to |-> request, rows |-> [d \in read |-> log'[d]],
                      ok |-> \A d \in read : Readable(log'[d])]
           n == Len(replies) + 1
<1>1. /\ requests # << >> /\ requests' = Tail(requests) /\ log' = After(request)
      /\ replies' = Append(replies, answer)
      /\ UNCHANGED <<shown, busy, forms, epoch, blocked>>
  BY DEF Serve
<1>2. /\ request = requests[1] /\ 1 \in DOMAIN requests /\ request \in Requests
      /\ requests' \in Seq(Requests)
      /\ \A i \in DOMAIN requests' :
           requests'[i] = requests[i + 1] /\ i + 1 \in DOMAIN requests /\ i \in Nat /\ i + 1 # 1
  <2>1. requests \in Seq(Requests)
    BY DEF LogInv, TypeOK
  <2>2. \A i \in DOMAIN requests' :
           requests'[i] = requests[i + 1] /\ i + 1 \in DOMAIN requests /\ i \in Nat
    BY <1>1, <2>1, Shifted
  <2>3. \A i \in DOMAIN requests' : i \in Nat /\ i > 0
    <3>1. requests' \in Seq(Requests)
      BY <1>1, <2>1, Shifted
    <3> QED BY <3>1
  <2> QED BY <1>1, <2>1, <2>2, <2>3, Shifted
<1>3. Answered(request, read)
  BY <1>1, CallIsAnswered
<1> HIDE DEF request
<1> HIDE DEF read
<1>4. /\ answer.to = request /\ answer.ok /\ DOMAIN answer.rows = read
      /\ \A d \in read : answer.rows[d] = log'[d]
      /\ answer \in Answers
  <2>1. \A d \in read : log'[d] \in Rows /\ d \in Nat /\ d \in DOMAIN log'
    BY <1>3 DEF Answered
  <2>2. \A d \in read : Readable(log'[d])
    BY <1>3 DEF Answered, RowsAreSound, Readable
  <2>3. [d \in read |-> log'[d]] \in Readings
    BY <2>1 DEF Readings
  <2> QED BY <1>2, <2>2, <2>3 DEF Answers
<1> HIDE DEF answer
<1>5. /\ replies' \in Seq(Answers) /\ DOMAIN replies' = DOMAIN replies \cup {n}
      /\ n \notin DOMAIN replies /\ replies'[n] = answer /\ n \in Nat
      /\ \A i \in DOMAIN replies : replies'[i] = replies[i] /\ i < n /\ i \in Nat /\ i > 0
  <2>1. replies \in Seq(Answers)
    BY DEF LogInv, TypeOK
  <2> QED BY <1>1, <1>4, <2>1, Joined
<1>6. n > 0
  BY DEF LogInv, TypeOK
<1> HIDE DEF n
<1>7. TypeOK'
  BY <1>1, <1>2, <1>3, <1>5 DEF LogInv, TypeOK, Answered
<1>8. OneCall'
  <2>1. \A i \in DOMAIN requests' : IsCall(requests'[i]) =>
          /\ busy' /\ ~IsCall(request)
          /\ \A j \in DOMAIN requests' : IsCall(requests'[j]) => j = i
          /\ \A k \in DOMAIN replies' : ~IsCall(replies'[k].to)
    <3>1. \A i \in DOMAIN requests : IsCall(requests[i]) =>
            /\ busy
            /\ \A j \in DOMAIN requests : IsCall(requests[j]) => j = i
            /\ \A k \in DOMAIN replies : ~IsCall(replies[k].to)
      BY DEF LogInv, OneCall
    <3> SUFFICES ASSUME NEW i \in DOMAIN requests', IsCall(requests'[i])
                 PROVE  /\ busy' /\ ~IsCall(request)
                        /\ \A j \in DOMAIN requests' : IsCall(requests'[j]) => j = i
                        /\ \A k \in DOMAIN replies' : ~IsCall(replies'[k].to)
      OBVIOUS
    <3>2. IsCall(requests[i + 1]) /\ i + 1 \in DOMAIN requests /\ i + 1 # 1
      BY <1>2
    <3>3. busy' /\ ~IsCall(request)
      BY <1>1, <1>2, <3>1, <3>2
    <3>4. \A j \in DOMAIN requests' : IsCall(requests'[j]) => j = i
      <4> SUFFICES ASSUME NEW j \in DOMAIN requests', IsCall(requests'[j])
                   PROVE  j = i
        OBVIOUS
      <4>1. IsCall(requests[j + 1]) /\ j + 1 \in DOMAIN requests
        BY <1>2
      <4>2. j + 1 = i + 1
        BY <3>1, <3>2, <4>1
      <4> QED BY <1>2, <4>2
    <3>5. \A k \in DOMAIN replies' : ~IsCall(replies'[k].to)
      BY <1>4, <1>5, <3>1, <3>2, <3>3
    <3> QED BY <3>3, <3>4, <3>5
  <2>2. \A k \in DOMAIN replies' : IsCall(replies'[k].to) =>
          /\ busy'
          /\ \A j \in DOMAIN replies' : IsCall(replies'[j].to) => j = k
    <3>1. IsCall(request) => busy /\ \A k \in DOMAIN replies : ~IsCall(replies[k].to)
      BY <1>2 DEF LogInv, OneCall
    <3>2. \A k \in DOMAIN replies : IsCall(replies[k].to) =>
            /\ busy /\ \A j \in DOMAIN replies : IsCall(replies[j].to) => j = k
      BY DEF LogInv, OneCall
    <3> QED BY <1>1, <1>4, <1>5, <3>1, <3>2
  <2> QED BY <2>1, <2>2 DEF OneCall, IsCall
<1>9. CallsFit'
  <2> SUFFICES ASSUME NEW i \in DOMAIN requests'
               PROVE  LET r == requests'[i] IN
                      /\ r.op \in {"approve", "lock", "supersede"} => r.id \in DOMAIN log'
                      /\ r.op = "approve" => log'[r.id].status = "proposed"
                      /\ r.op = "lock" => log'[r.id].status \in {"proposed", "approved"}
    BY DEF CallsFit
  <2> DEFINE r == requests[i + 1]
  <2>1. requests'[i] = r /\ i + 1 \in DOMAIN requests /\ i + 1 # 1
    BY <1>2
  <2>2. /\ r.op \in {"approve", "lock", "supersede"} => r.id \in DOMAIN log
        /\ r.op = "approve" => log[r.id].status = "proposed"
        /\ r.op = "lock" => log[r.id].status \in {"proposed", "approved"}
    BY <2>1 DEF LogInv, CallsFit
  <2>3. IsCall(r) => ~IsCall(request)
    BY <1>2, <2>1 DEF LogInv, OneCall
  <2>4. IsCall(r) => log' = log
    BY <1>3, <2>3 DEF Answered, IsCall
  <2> HIDE DEF r
  <2> QED BY <2>1, <2>2, <2>4 DEF IsCall
<1>10. PageFollows'
  <2>1. \A d \in DOMAIN log :
          /\ d \in DOMAIN log'
          /\ log'[d].status = log[d].status \/ (IsCall(request) /\ d \in read)
    BY <1>3 DEF Answered, IsCall
  <2>2. ASSUME NEW d, NEW i \in Nat, i < n,
               d \in DOMAIN log, NEW status, status = log[d].status \/ Told(d, i)
        PROVE  d \in DOMAIN log' /\ (status = log'[d].status \/ Told(d, i)')
    <3>1. Told(d, i) => Told(d, i)'
      BY <1>5 DEF Told, IsCall
    <3>2. IsCall(request) /\ d \in read => Told(d, i)'
      BY <1>4, <1>5, <2>2 DEF Told, IsCall
    <3> QED BY <2>1, <2>2, <3>1, <3>2
  <2>3. UpToDate(shown, 0)'
    <3> SUFFICES ASSUME NEW d \in DOMAIN shown
                 PROVE  d \in DOMAIN log' /\ (shown[d].status = log'[d].status \/ Told(d, 0)')
      BY <1>1 DEF UpToDate
    <3>1. d \in DOMAIN log /\ (shown[d].status = log[d].status \/ Told(d, 0))
      BY DEF LogInv, PageFollows, UpToDate
    <3> QED BY <1>5, <1>6, <2>2, <3>1
  <2>4. ASSUME NEW i \in DOMAIN replies'
        PROVE  UpToDate(replies[i].rows, i)' /\ replies'[i].ok
    <3>1. CASE i = n
      BY <1>3, <1>4, <1>5, <3>1 DEF UpToDate, Answered
    <3>2. CASE i \in DOMAIN replies
      <4>1. replies'[i] = replies[i] /\ i < n /\ i \in Nat
        BY <1>5, <3>2
      <4>2. replies[i].ok
        BY <3>2 DEF LogInv, PageFollows
      <4> SUFFICES ASSUME NEW d \in DOMAIN replies[i].rows
                   PROVE  /\ d \in DOMAIN log'
                          /\ replies[i].rows[d].status = log'[d].status \/ Told(d, i)'
        BY <4>1, <4>2 DEF UpToDate
      <4>3. d \in DOMAIN log /\ (replies[i].rows[d].status = log[d].status \/ Told(d, i))
        BY <3>2 DEF LogInv, PageFollows, UpToDate
      <4> QED BY <2>2, <4>1, <4>3
    <3> QED BY <1>5, <3>1, <3>2
  <2>5. (forms \subseteq DOMAIN log)'
    BY <1>1, <2>1 DEF LogInv, PageFollows
  <2> QED BY <2>3, <2>4, <2>5 DEF PageFollows
<1> QED BY <1>3, <1>7, <1>8, <1>9, <1>10 DEF LogInv, Answered

-----------------------------------------------------------------------------
(* Rows that come from elsewhere.                                           *)

LEMMA GrowthPreservesInv ==
  ASSUME LogInv, RowsAreSound', Grows({}),
         UNCHANGED <<requests, replies, shown, busy, forms, epoch>>, (blocked \subseteq Gates)'
  PROVE  LogInv'
<1>1. \A d \in DOMAIN log : d \in DOMAIN log' /\ log'[d].status = log[d].status
  BY DEF Grows
<1>2. TypeOK' /\ OneCall'
  BY DEF LogInv, TypeOK, OneCall, IsCall, Grows
<1>3. CallsFit'
  BY <1>1 DEF LogInv, CallsFit
<1>4. PageFollows'
  <2>1. \A d, i : Told(d, i)' <=> Told(d, i)
    BY DEF Told, IsCall
  <2>2. ASSUME NEW rows, NEW i, UpToDate(rows, i)
        PROVE  \A d \in DOMAIN rows :
                 d \in DOMAIN log' /\ (rows[d].status = log'[d].status \/ Told(d, i)')
    BY <1>1, <2>1, <2>2 DEF UpToDate
  <2>3. UpToDate(shown, 0)'
    BY <2>2 DEF UpToDate, LogInv, PageFollows
  <2>4. \A i \in DOMAIN replies' : UpToDate(replies[i].rows, i)' /\ replies'[i].ok
    BY <2>2 DEF UpToDate, LogInv, PageFollows
  <2> QED BY <1>1, <2>3, <2>4 DEF LogInv, PageFollows
<1> QED BY <1>2, <1>3, <1>4 DEF LogInv

LEMMA PromotionPreservesInv ==
  ASSUME GatesHaveNames, LogInv, PromoteFromQuestion
  PROVE  LogInv' /\ RowsAreBinding
<1>1. /\ log' = Append(log, Row("locked", NoGate, NoGate))
      /\ UNCHANGED <<requests, replies, shown, busy, forms, epoch, blocked>>
  BY DEF PromoteFromQuestion, Proposed
<1>2. RowsAreSound' /\ RowsAreBinding /\ Grows({})
  BY <1>1, NewRow DEF LogInv
<1> QED BY <1>1, <1>2, GrowthPreservesInv DEF LogInv, TypeOK

LEMMA RecordPreservesInv ==
  ASSUME GatesHaveNames, LogInv, RecordGate
  PROVE  LogInv' /\ RowsAreBinding
<1>1. PICK g \in blocked, verdict \in {"approved", "rejected"} :
        /\ GateDecision(log, g) = {}
        /\ log' = Locked(Append(log, Row("locked", g, verdict)), Len(log) + 1)
  BY DEF RecordGate, Proposed
<1>2. UNCHANGED <<requests, replies, shown, busy, forms, epoch, blocked>>
  BY DEF RecordGate
<1>3. g \in Gates /\ g # NoGate /\ verdict # NoGate
  BY DEF LogInv, TypeOK, GatesHaveNames, NoGate
<1> DEFINE new == Row("locked", g, verdict)
<1>4. new \in Rows /\ new.status = "locked" /\ new.lockedAt
  BY <1>3 DEF Row, Rows, Statuses
<1>5. Locked(Append(log, new), Len(log) + 1) = Append(log, new)
  <2> HIDE DEF new
  <2>1. log \in Seq(Rows)
    BY DEF LogInv, TypeOK
  <2> QED BY <1>4, <2>1, BornLocked
<1>6. RowsAreSound' /\ RowsAreBinding /\ Grows({})
  <2>1. log' = Append(log, new)
    BY <1>1, <1>5
  <2> QED BY <1>1, <1>3, <2>1, NewRow DEF LogInv
<1> QED BY <1>2, <1>6, GrowthPreservesInv DEF LogInv, TypeOK

-----------------------------------------------------------------------------
(* The page.                                                                *)

\* While nothing is submitted, what the page shows is what the log holds.
LEMMA IdlePageIsRight ==
  ASSUME LogInv, ~busy
  PROVE  /\ \A i \in DOMAIN requests : ~IsCall(requests[i])
         /\ \A k \in DOMAIN replies : ~IsCall(replies[k].to)
         /\ \A d \in DOMAIN shown : d \in DOMAIN log /\ shown[d].status = log[d].status
BY DEF LogInv, OneCall, PageFollows, UpToDate, Told

\* The request is right for the log as it stands.
Belongs(request) ==
  /\ request.op \in {"approve", "lock", "supersede"} => request.id \in DOMAIN log
  /\ request.op = "approve" => log[request.id].status = "proposed"
  /\ request.op = "lock" => log[request.id].status \in {"proposed", "approved"}

LEMMA SendingPreservesInv ==
  ASSUME LogInv, NEW request \in Requests, requests' = Append(requests, request), Belongs(request),
         IF IsCall(request) THEN ~busy /\ busy' = TRUE ELSE busy' = busy,
         UNCHANGED <<log, replies, shown, blocked>>, forms' \subseteq forms, epoch' \in Nat
  PROVE  LogInv'
<1> DEFINE n == Len(requests) + 1
<1>1. /\ requests' \in Seq(Requests) /\ DOMAIN requests' = DOMAIN requests \cup {n}
      /\ n \notin DOMAIN requests /\ requests'[n] = request
      /\ \A i \in DOMAIN requests : requests'[i] = requests[i]
  <2>1. requests \in Seq(Requests)
    BY DEF LogInv, TypeOK
  <2> QED BY <2>1, Joined
<1> HIDE DEF n
<1>2. TypeOK'
  BY <1>1 DEF LogInv, TypeOK
<1>3. RowsAreSound'
  BY DEF LogInv, RowsAreSound, Readable
<1>4. OneCall'
  <2>1. CASE IsCall(request)
    <3>1. /\ \A i \in DOMAIN requests : ~IsCall(requests[i])
          /\ \A k \in DOMAIN replies : ~IsCall(replies[k].to)
      BY <2>1, IdlePageIsRight
    <3> QED BY <1>1, <2>1, <3>1 DEF OneCall, IsCall
  <2>2. CASE ~IsCall(request)
    BY <1>1, <2>2 DEF LogInv, OneCall, IsCall
  <2> QED BY <2>1, <2>2
<1>5. CallsFit'
  BY <1>1 DEF LogInv, CallsFit, Belongs
<1>6. PageFollows'
  BY DEF LogInv, PageFollows, UpToDate, Told, IsCall
<1> QED BY <1>2, <1>3, <1>4, <1>5, <1>6 DEF LogInv

LEMMA ListRequest ==
  ASSUME NEW n \in Nat
  PROVE  LET request == [op |-> "list", load |-> n]
         IN  request \in Requests /\ ~IsCall(request) /\ Belongs(request)
BY DEF Requests, Lists, IsCall, Belongs

LEMMA ClicksPreserveInv ==
  ASSUME LogInv, ProposeClicked \/ CardClicked \/ FormSubmitted
  PROVE  LogInv'
<1>0. shown \in Readings /\ forms \subseteq Nat /\ epoch \in Nat
  BY DEF LogInv, TypeOK
<1>1. ASSUME ProposeClicked PROVE LogInv'
  <2> DEFINE request == [op |-> "propose"]
  <2>1. request \in Requests /\ IsCall(request) /\ Belongs(request)
    BY DEF Requests, IsCall, Belongs
  <2> QED BY <1>0, <1>1, <2>1, SendingPreservesInv DEF ProposeClicked, Enabled, Call
<1>2. ASSUME CardClicked PROVE LogInv'
  <2>1. PICK d \in DOMAIN shown :
          \/ shown[d].status = "proposed" /\ Call([op |-> "approve", id |-> d])
          \/ shown[d].status \in {"proposed", "approved"} /\ Call([op |-> "lock", id |-> d])
    BY <1>2 DEF CardClicked
  <2>2. /\ ~busy /\ UNCHANGED <<log, replies, shown, forms, epoch, blocked>>
    BY <1>2 DEF CardClicked, Enabled
  <2>3. d \in DOMAIN log /\ shown[d].status = log[d].status /\ d \in Nat
    BY <1>0, <2>2, IdlePageIsRight DEF Readings
  <2>4. CASE shown[d].status = "proposed" /\ Call([op |-> "approve", id |-> d])
    <3> DEFINE request == [op |-> "approve", id |-> d]
    <3>1. request \in Requests /\ IsCall(request) /\ Belongs(request)
      BY <2>3, <2>4 DEF Requests, OnRows, IsCall, Belongs
    <3> QED BY <1>0, <2>2, <2>4, <3>1, SendingPreservesInv DEF Call
  <2>5. CASE shown[d].status \in {"proposed", "approved"} /\ Call([op |-> "lock", id |-> d])
    <3> DEFINE request == [op |-> "lock", id |-> d]
    <3>1. request \in Requests /\ IsCall(request) /\ Belongs(request)
      BY <2>3, <2>5 DEF Requests, OnRows, IsCall, Belongs
    <3> QED BY <1>0, <2>2, <2>5, <3>1, SendingPreservesInv DEF Call
  <2> QED BY <2>1, <2>4, <2>5
<1>3. ASSUME FormSubmitted PROVE LogInv'
  <2>1. PICK d \in forms : Call([op |-> "supersede", id |-> d]) /\ forms' = forms \ {d}
    BY <1>3 DEF FormSubmitted
  <2> DEFINE request == [op |-> "supersede", id |-> d]
  <2>2. d \in DOMAIN log /\ d \in Nat
    BY <1>0 DEF LogInv, PageFollows
  <2>3. request \in Requests /\ IsCall(request) /\ Belongs(request)
    BY <2>2 DEF Requests, OnRows, IsCall, Belongs
  <2> QED BY <1>0, <1>3, <2>1, <2>3, SendingPreservesInv DEF FormSubmitted, Enabled, Call
<1> QED BY <1>1, <1>2, <1>3

\* What touches neither the channel nor the log.
LEMMA FormsPreserveInv ==
  ASSUME LogInv, UNCHANGED <<log, requests, replies, shown, busy, epoch>>,
         (blocked \subseteq Gates)', forms' \subseteq DOMAIN log, forms' \subseteq Nat
  PROVE  LogInv'
<1>1. TypeOK' /\ RowsAreSound' /\ OneCall' /\ CallsFit'
  BY DEF LogInv, TypeOK, RowsAreSound, Readable, OneCall, CallsFit, IsCall
<1>2. PageFollows'
  BY DEF LogInv, PageFollows, UpToDate, Told, IsCall
<1> QED BY <1>1, <1>2 DEF LogInv

LEMMA ReloadPreservesInv ==
  ASSUME LogInv, Reload
  PROVE  LogInv'
<1>1. epoch + 1 \in Nat
  BY DEF LogInv, TypeOK
<1> QED BY <1>1, ListRequest, SendingPreservesInv DEF Reload, Load

\* The answer at the head of the queue is taken off it.
LEMMA Received ==
  ASSUME LogInv, replies # << >>, replies' = Tail(replies), log' = log
  PROVE  /\ replies' \in Seq(Answers) /\ 1 \in DOMAIN replies /\ Head(replies) = replies[1]
         /\ Head(replies) \in Answers
         /\ \A i \in DOMAIN replies' : replies'[i] = replies[i + 1] /\ i + 1 \in DOMAIN replies
                                      /\ i \in Nat /\ i + 1 # 1
         /\ \A i \in DOMAIN replies' : UpToDate(replies[i].rows, i)' /\ replies'[i].ok
         /\ \A d : Told(d, 1) => Told(d, 0)'
         /\ \A d : Told(d, 0) =>
              Told(d, 0)' \/ (IsCall(Head(replies).to) /\ d \in DOMAIN Head(replies).rows)
<1>1. replies \in Seq(Answers)
  BY DEF LogInv, TypeOK
<1>2. /\ replies' \in Seq(Answers) /\ 1 \in DOMAIN replies /\ Head(replies) = replies[1]
      /\ replies[1] \in Answers
      /\ \A i \in DOMAIN replies' : replies'[i] = replies[i + 1] /\ i + 1 \in DOMAIN replies
      /\ \A i \in DOMAIN replies : i # 1 => i - 1 \in DOMAIN replies'
      /\ \A i \in DOMAIN replies : i \in Nat /\ i > 0
  BY <1>1, Shifted
<1>3. \A i \in DOMAIN replies' : i \in Nat /\ i > 0
  BY <1>2
<1>4. \A i \in DOMAIN replies : i # 1 => replies'[i - 1] = replies[i]
  BY <1>2
<1>5. ASSUME NEW d, NEW i \in Nat, Told(d, i + 1)
      PROVE  Told(d, i)'
  <2>1. PICK k \in DOMAIN replies :
          k > i + 1 /\ IsCall(replies[k].to) /\ d \in DOMAIN replies[k].rows
    BY <1>5 DEF Told
  <2>2. k - 1 \in DOMAIN replies' /\ replies'[k - 1] = replies[k] /\ k - 1 > i
    BY <1>2, <1>4, <2>1
  <2> QED BY <2>1, <2>2 DEF Told, IsCall
<1>6. ASSUME NEW i \in DOMAIN replies'
      PROVE  UpToDate(replies[i].rows, i)' /\ replies'[i].ok
  <2>1. replies'[i] = replies[i + 1] /\ i + 1 \in DOMAIN replies /\ i \in Nat
    BY <1>2, <1>3
  <2>2. UpToDate(replies[i + 1].rows, i + 1) /\ replies[i + 1].ok
    BY <2>1 DEF LogInv, PageFollows
  <2> QED BY <1>5, <2>1, <2>2 DEF UpToDate
<1>7. ASSUME NEW d, Told(d, 0)
      PROVE  Told(d, 0)' \/ (IsCall(Head(replies).to) /\ d \in DOMAIN Head(replies).rows)
  <2>1. PICK k \in DOMAIN replies :
          k > 0 /\ IsCall(replies[k].to) /\ d \in DOMAIN replies[k].rows
    BY <1>7 DEF Told
  <2>2. CASE k = 1
    <3>1. Head(replies) = replies[1]
      BY <1>2
    <3> QED BY <2>1, <2>2, <3>1
  <2>3. CASE k # 1
    <3>1. k - 1 \in DOMAIN replies' /\ k - 1 > 0 /\ k \in Nat
      BY <1>2, <2>1, <2>3
    <3>2. replies'[k - 1] = replies[(k - 1) + 1] /\ (k - 1) + 1 = k
      BY <1>2, <3>1
    <3> QED BY <2>1, <3>1, <3>2 DEF Told
  <2> QED BY <2>2, <2>3
<1>8. \A d : Told(d, 1) => Told(d, 0)'
  BY <1>5
<1> QED BY <1>2, <1>3, <1>6, <1>7, <1>8

\* An answer that is taken off the queue leaves at most the call there was.
LEMMA FewerReplies ==
  ASSUME OneCall, UNCHANGED <<requests, busy>>,
         \A i \in DOMAIN replies' :
           replies'[i] = replies[i + 1] /\ i + 1 \in DOMAIN replies /\ i \in Nat
  PROVE  OneCall'
<1>1. \A i \in DOMAIN requests' : IsCall(requests'[i]) =>
        /\ busy'
        /\ \A j \in DOMAIN requests' : IsCall(requests'[j]) => j = i
        /\ \A k \in DOMAIN replies' : ~IsCall(replies'[k].to)
  BY DEF OneCall
<1>2. ASSUME NEW k \in DOMAIN replies', IsCall(replies'[k].to),
             NEW j \in DOMAIN replies', IsCall(replies'[j].to)
      PROVE  j = k
  <2>1. /\ IsCall(replies[k + 1].to) /\ k + 1 \in DOMAIN replies
        /\ IsCall(replies[j + 1].to) /\ j + 1 \in DOMAIN replies
    BY <1>2
  <2>2. k + 1 = j + 1
    BY <2>1 DEF OneCall
  <2> QED BY <2>2
<1>3. \A k \in DOMAIN replies' : IsCall(replies'[k].to) => busy'
  BY DEF OneCall
<1> QED BY <1>1, <1>2, <1>3 DEF OneCall, IsCall

LEMMA ListPreservesInv ==
  ASSUME LogInv, ListArrives
  PROVE  LogInv'
<1> DEFINE reply == Head(replies)
<1>1. /\ replies # << >> /\ replies' = Tail(replies) /\ ~IsCall(reply.to)
      /\ UNCHANGED <<log, requests, busy, epoch, blocked>>
      /\ (shown' = reply.rows /\ forms' = forms \cap DOMAIN reply.rows)
           \/ UNCHANGED <<shown, forms>>
  BY DEF ListArrives, Show, IsCall
<1>2. /\ replies' \in Seq(Answers) /\ 1 \in DOMAIN replies /\ reply = replies[1]
      /\ reply \in Answers
      /\ \A i \in DOMAIN replies' : replies'[i] = replies[i + 1] /\ i + 1 \in DOMAIN replies
                                   /\ i \in Nat /\ i + 1 # 1
      /\ \A i \in DOMAIN replies' : UpToDate(replies[i].rows, i)' /\ replies'[i].ok
      /\ \A d : Told(d, 1) => Told(d, 0)'
      /\ \A d : Told(d, 0) => Told(d, 0)'
  BY <1>1, Received
<1> HIDE DEF reply
<1>3. reply.rows \in Readings
  BY <1>2 DEF Answers
<1>4. TypeOK'
  BY <1>1, <1>2, <1>3 DEF LogInv, TypeOK
<1>5. RowsAreSound' /\ CallsFit'
  BY <1>1 DEF LogInv, RowsAreSound, Readable, CallsFit
<1>6. OneCall'
  BY <1>1, <1>2, FewerReplies DEF LogInv
<1>7. UpToDate(shown, 0)'
  <2>1. CASE shown' = reply.rows
    <3>1. UpToDate(reply.rows, 1)
      BY <1>2 DEF LogInv, PageFollows
    <3> QED BY <1>1, <1>2, <2>1, <3>1 DEF UpToDate
  <2>2. CASE shown' = shown
    BY <1>1, <1>2, <2>2 DEF LogInv, PageFollows, UpToDate
  <2> QED BY <1>1, <2>1, <2>2
<1>8. (forms \subseteq DOMAIN log)'
  BY <1>1 DEF LogInv, PageFollows
<1> QED BY <1>2, <1>4, <1>5, <1>6, <1>7, <1>8 DEF LogInv, PageFollows

LEMMA AnswerPreservesInv ==
  ASSUME LogInv, AnswerArrives
  PROVE  LogInv'
<1> DEFINE reply == Head(replies)
           list == [op |-> "list", load |-> epoch + 1]
           q == Len(requests) + 1
<1>0. replies # << >> /\ replies' = Tail(replies) /\ UNCHANGED <<log, blocked>>
  BY DEF AnswerArrives
<1>1. /\ replies' \in Seq(Answers) /\ 1 \in DOMAIN replies /\ reply = replies[1]
      /\ reply \in Answers
      /\ \A i \in DOMAIN replies' : replies'[i] = replies[i + 1] /\ i + 1 \in DOMAIN replies
                                   /\ i \in Nat /\ i + 1 # 1
      /\ \A i \in DOMAIN replies' : UpToDate(replies[i].rows, i)' /\ replies'[i].ok
      /\ \A d : Told(d, 1) => Told(d, 0)'
      /\ \A d : Told(d, 0) => Told(d, 0)' \/ (IsCall(reply.to) /\ d \in DOMAIN reply.rows)
  BY <1>0, Received
<1>2. IsCall(reply.to) /\ reply.ok
  BY <1>1 DEF AnswerArrives, IsCall, LogInv, PageFollows
<1>3. /\ busy' = FALSE /\ shown' = Merged(reply.rows)
      /\ forms' = forms \cap DOMAIN Merged(reply.rows)
      /\ epoch' = epoch + 1 /\ requests' = Append(requests, list)
  BY <1>2 DEF AnswerArrives, Show, Load
<1>4. epoch + 1 \in Nat /\ requests \in Seq(Requests) /\ shown \in Readings
  BY DEF LogInv, TypeOK
<1>5. list \in Requests /\ ~IsCall(list) /\ Belongs(list)
  BY <1>4, ListRequest
<1> HIDE DEF reply
<1> HIDE DEF list
<1>6. /\ requests' \in Seq(Requests) /\ DOMAIN requests' = DOMAIN requests \cup {q}
      /\ requests'[q] = list
      /\ \A i \in DOMAIN requests : requests'[i] = requests[i]
  BY <1>3, <1>4, <1>5, Joined
<1> HIDE DEF q
<1>7. /\ shown' \in Readings /\ DOMAIN shown' = DOMAIN shown \cup DOMAIN reply.rows
      /\ \A d \in DOMAIN shown' :
           shown'[d] = IF d \in DOMAIN reply.rows THEN reply.rows[d] ELSE shown[d]
  <2>1. reply.rows \in Readings
    BY <1>1 DEF Answers
  <2>2. ASSUME NEW f \in Readings
        PROVE  DOMAIN f \subseteq Nat /\ \A d \in DOMAIN f : f[d] \in Rows
    BY <2>2 DEF Readings
  <2> DEFINE D == DOMAIN shown \cup DOMAIN reply.rows
  <2>3. /\ DOMAIN shown' = D
        /\ shown' = [d \in D |-> IF d \in DOMAIN reply.rows THEN reply.rows[d] ELSE shown[d]]
    BY <1>3 DEF Merged
  <2>4. shown' \in [D -> Rows] /\ D \in SUBSET Nat
    BY <1>4, <2>1, <2>2, <2>3
  <2> HIDE DEF D
  <2>5. shown' \in Readings
    BY <2>4 DEF Readings
  <2> QED BY <2>3, <2>5 DEF D
<1>8. TypeOK'
  BY <1>0, <1>1, <1>3, <1>4, <1>6, <1>7 DEF LogInv, TypeOK
<1>9. RowsAreSound'
  BY <1>0 DEF LogInv, RowsAreSound, Readable
<1>10. CallsFit'
  BY <1>0, <1>5, <1>6 DEF LogInv, CallsFit, Belongs
<1>11. OneCall'
  <2>1. \A i \in DOMAIN requests : ~IsCall(requests[i])
    BY <1>1, <1>2 DEF LogInv, OneCall
  <2>2. \A i \in DOMAIN requests' : ~IsCall(requests'[i])
    BY <1>5, <1>6, <2>1
  <2>3. \A k \in DOMAIN replies : IsCall(replies[k].to) => k = 1
    BY <1>1, <1>2 DEF LogInv, OneCall
  <2>4. \A k \in DOMAIN replies' : ~IsCall(replies'[k].to)
    BY <1>1, <2>3
  <2> QED BY <2>2, <2>4 DEF OneCall, IsCall
<1>12. UpToDate(shown, 0)'
  <2>1. UpToDate(reply.rows, 1) /\ UpToDate(shown, 0)
    BY <1>1 DEF LogInv, PageFollows
  <2> SUFFICES ASSUME NEW d \in DOMAIN shown'
               PROVE  d \in DOMAIN log' /\ (shown'[d].status = log'[d].status \/ Told(d, 0)')
    BY DEF UpToDate
  <2>2. CASE d \in DOMAIN reply.rows
    BY <1>0, <1>1, <1>7, <2>1, <2>2 DEF UpToDate
  <2>3. CASE d \notin DOMAIN reply.rows
    BY <1>0, <1>1, <1>7, <2>1, <2>3 DEF UpToDate
  <2> QED BY <2>2, <2>3
<1>13. (forms \subseteq DOMAIN log)'
  BY <1>0, <1>3 DEF LogInv, PageFollows
<1> QED BY <1>1, <1>8, <1>9, <1>10, <1>11, <1>12, <1>13 DEF LogInv, PageFollows

-----------------------------------------------------------------------------
(* What the invariant is for.                                               *)

LEMMA InitIsSound ==
  ASSUME DecisionsInit
  PROVE  LogInv
<1>1. /\ log = << >> /\ replies = << >> /\ shown = << >> /\ forms = {} /\ epoch = 1
      /\ busy = FALSE /\ blocked = {}
  BY DEF DecisionsInit
<1> DEFINE list == [op |-> "list", load |-> 1]
<1>2. list \in Requests /\ ~IsCall(list) /\ Belongs(list)
  BY ListRequest
<1>3. requests = <<list>>
  BY DEF DecisionsInit
<1> HIDE DEF list
<1>4. DOMAIN log = {} /\ DOMAIN replies = {} /\ DOMAIN shown = {}
  BY <1>1
<1>5. log \in Seq(Rows) /\ replies \in Seq(Answers) /\ shown \in [{} -> Rows]
  BY <1>1
<1>6. requests \in Seq(Requests) /\ DOMAIN requests = {1} /\ requests[1] = list
  BY <1>2, <1>3
<1>7. TypeOK
  <2>1. shown \in Readings
    BY <1>5 DEF Readings
  <2> QED BY <1>1, <1>5, <1>6, <2>1 DEF TypeOK
<1>8. RowsAreSound /\ OneCall /\ CallsFit /\ PageFollows
  BY <1>1, <1>2, <1>4, <1>6 DEF RowsAreSound, OneCall, CallsFit, PageFollows, UpToDate, Belongs
<1> QED BY <1>7, <1>8 DEF LogInv

LEMMA NextIsSound ==
  ASSUME GatesHaveNames, LogInv, [DecisionsNext]_decisionVars
  PROVE  LogInv' /\ (log' # log => RowsAreBinding)
<1>1. CASE Serve
  BY <1>1, ServePreservesInv
<1>2. CASE PromoteFromQuestion
  BY <1>2, PromotionPreservesInv
<1>3. CASE RecordGate
  BY <1>3, RecordPreservesInv
<1>4. CASE GateAsks \/ GateGoesOn \/ FormOpened \/ FormCancelled
  <2>1. UNCHANGED <<log, requests, replies, shown, busy, epoch>>
    BY <1>4 DEF GateAsks, GateGoesOn, FormOpened, FormCancelled
  <2>2. (blocked \subseteq Gates)'
    BY <1>4 DEF LogInv, TypeOK, GateAsks, GateGoesOn, FormOpened, FormCancelled
  <2>3. forms \subseteq DOMAIN log /\ forms \subseteq Nat /\ shown \in Readings
    BY DEF LogInv, PageFollows, TypeOK
  <2>4. DOMAIN shown \subseteq DOMAIN log /\ DOMAIN shown \subseteq Nat
    BY <2>3 DEF LogInv, PageFollows, UpToDate, Readings
  <2>5. forms' \subseteq forms \cup DOMAIN shown
    BY <1>4 DEF GateAsks, GateGoesOn, FormOpened, FormCancelled
  <2> QED BY <2>1, <2>2, <2>3, <2>4, <2>5, FormsPreserveInv
<1>5. CASE ProposeClicked \/ CardClicked \/ FormSubmitted
  BY <1>5, ClicksPreserveInv DEF ProposeClicked, CardClicked, FormSubmitted
<1>6. CASE Reload
  BY <1>6, ReloadPreservesInv DEF Reload
<1>7. CASE ListArrives
  BY <1>7, ListPreservesInv DEF ListArrives
<1>8. CASE AnswerArrives
  BY <1>8, AnswerPreservesInv DEF AnswerArrives
<1>9. CASE UNCHANGED decisionVars
  BY <1>9, FormsPreserveInv DEF decisionVars, LogInv, TypeOK, PageFollows
<1> QED BY <1>1, <1>2, <1>3, <1>4, <1>5, <1>6, <1>7, <1>8, <1>9 DEF DecisionsNext

LEMMA OneVerdict ==
  ASSUME NEW rows, NEW g,
         \A d, e \in DOMAIN rows :
           rows[d].gate = g /\ rows[d].status = "locked"
             /\ rows[e].gate = g /\ rows[e].status = "locked" => d = e
  PROVE  Cardinality(GateDecision(rows, g)) <= 1
<1>1. CASE GateDecision(rows, g) = {}
  BY <1>1, FS_EmptySet
<1>2. CASE GateDecision(rows, g) # {}
  <2>1. PICK d : d \in GateDecision(rows, g)
    BY <1>2
  <2>2. GateDecision(rows, g) = {d}
    BY <2>1 DEF GateDecision
  <2>3. Cardinality({d}) = 1
    BY FS_Singleton
  <2> QED BY <2>2, <2>3
<1> QED BY <1>1, <1>2

\* Whatever the page does with lists and answers under way, with any number of rows,
\* reloads and gates: every row stays readable, a locked decision is replaced only by a
\* locked one, what was replaced is never in force again, and a gate has one verdict
\* (DecisionsPage.tsx's one isSubmitting over DecisionStore's unguarded projections).
THEOREM LockedDecisionsBind ==
  ASSUME GatesHaveNames
  PROVE  DecisionsInit /\ [][DecisionsNext]_decisionVars => LockedIsBinding
<1>1. DecisionsInit => LogInv
  BY InitIsSound
<1>2. LogInv /\ [DecisionsNext]_decisionVars => LogInv'
  BY NextIsSound
<1>3. LogInv /\ LogInv' /\ [DecisionsNext]_decisionVars =>
        [/\ \A d \in DOMAIN log' : Readable(log'[d])
         /\ \A d \in DOMAIN log :
              /\ log[d].status = "locked" => log'[d].status \in {"locked", "superseded"}
              /\ log[d].status = "superseded" => log'[d].status = "superseded"
              /\ log'[d].supersededBy # log[d].supersededBy =>
                   log'[log'[d].supersededBy].status = "locked"
         /\ \A g \in Gates : Cardinality(GateDecision(log', g)) <= 1]_log
  <2> SUFFICES ASSUME LogInv, LogInv', [DecisionsNext]_decisionVars, log' # log
               PROVE  /\ \A d \in DOMAIN log' : Readable(log'[d])
                      /\ \A d \in DOMAIN log :
                           /\ log[d].status = "locked" =>
                                log'[d].status \in {"locked", "superseded"}
                           /\ log[d].status = "superseded" => log'[d].status = "superseded"
                           /\ log'[d].supersededBy # log[d].supersededBy =>
                                log'[log'[d].supersededBy].status = "locked"
                      /\ \A g \in Gates : Cardinality(GateDecision(log', g)) <= 1
    OBVIOUS
  <2>1. RowsAreBinding
    BY NextIsSound
  <2>2. \A d \in DOMAIN log' : Readable(log'[d])
    BY DEF LogInv, RowsAreSound, Readable
  <2>3. \A g \in Gates : Cardinality(GateDecision(log', g)) <= 1
    <3>1. \A g \in Gates : \A d, e \in DOMAIN log' :
            log'[d].gate = g /\ log'[d].status = "locked"
              /\ log'[e].gate = g /\ log'[e].status = "locked" => d = e
      BY DEF LogInv, RowsAreSound, GatesHaveNames
    <3> QED BY <3>1, OneVerdict
  <2> QED BY <2>1, <2>2, <2>3 DEF RowsAreBinding
<1> QED BY <1>1, <1>2, <1>3, PTL DEF LockedIsBinding

-----------------------------------------------------------------------------
(* Merges.                                                                 *)

\* No file has the name that stands for no file.
FilesHaveNames == "none" \notin FilePaths

\* No patch ends in an empty line of context: one that does is refused.
PatchesEndInText == "blank" \notin Endings

Kinds == {"added", "renamed", "deleted", "modified"}

\* What the entries of a diff say of the tree, and that nothing is left unsaid.
Describes(from, tree, ops) ==
  /\ DOMAIN from \subseteq FilePaths /\ DOMAIN tree \subseteq FilePaths
  /\ Consistent(DOMAIN tree)
  /\ \A op \in ops :
       /\ op.type \in Kinds
       /\ op.type \in {"added", "renamed"} => op.path \notin DOMAIN from
       /\ op.type \in {"deleted", "modified"} => op.path \in DOMAIN from
       /\ op.type = "renamed" => op.previous \in DOMAIN from /\ op.previous \notin DOMAIN tree
       /\ op.type # "renamed" => op.previous = "none"
       /\ op.type = "deleted" => op.path \notin DOMAIN tree
       /\ op.type # "deleted" => op.path \in DOMAIN tree /\ op.content = tree[op.path]
  /\ \A p \in FilePaths : p \notin TouchedPaths(ops) =>
       /\ p \in DOMAIN tree <=> p \in DOMAIN from
       /\ p \in DOMAIN tree => tree[p] = from[p]

Captured(b) == Describes(commit, branch[b].tree, branch[b].ops) /\ branch[b].ends # "blank"

MergeInv ==
  /\ commit \in Commits
  /\ DOMAIN branch = Branches
  /\ \A b \in Branches : branch[b] = NotCaptured \/ Captured(b)
  /\ MergeKeepsBothBranches

-----------------------------------------------------------------------------
\* With a commit whose files all differ, a rename names the one file that has moved.
LEMMA DiffDescribes ==
  ASSUME FilesHaveNames, NEW from \in Commits, NEW tree, NEW index \in {DOMAIN from, DOMAIN tree},
         DOMAIN tree \subseteq FilePaths, Consistent(DOMAIN tree)
  PROVE  Describes(from, tree, DiffWorktree(from, tree, index))
<1> DEFINE here == index \cap DOMAIN tree
           gone == DOMAIN from \ here
           New == here \ DOMAIN from
           Source(q) == {p \in gone : from[p] = tree[q]}
           renamed == {q \in New : Source(q) # {}}
           moved == UNION {Source(q) : q \in renamed}
           R == {Op("renamed", q, CHOOSE p \in Source(q) : TRUE, tree[q]) : q \in renamed}
           A == {Op("added", q, "none", tree[q]) : q \in New \ renamed}
           D == {Op("deleted", p, "none", "none") : p \in gone \ moved}
           M == {Op("modified", p, "none", tree[p]) :
                   p \in {r \in here \cap DOMAIN from : tree[r] # from[r]}}
           U == {Op("added", p, "none", tree[p]) : p \in DOMAIN tree \ index}
           ops == DiffWorktree(from, tree, index)
<1>1. ops = R \cup A \cup D \cup M \cup U
  BY DEF DiffWorktree, Tracked, Untracked
<1>2. DOMAIN from \subseteq FilePaths /\ \A p \in DOMAIN from : from[p] = p
  BY DEF Commits
<1>3. /\ gone = DOMAIN from \ DOMAIN tree
      /\ here \cap DOMAIN from = DOMAIN from \cap DOMAIN tree
      /\ New \cup (DOMAIN tree \ index) = DOMAIN tree \ DOMAIN from
  OBVIOUS
<1>4. \A q \in renamed : (CHOOSE p \in Source(q) : TRUE) \in Source(q)
  OBVIOUS
<1>5. \A q : \A p \in Source(q) : p = tree[q] /\ p \in gone
  BY <1>2
<1>6. \A op \in ops :
        /\ op.type \in Kinds
        /\ op.type \in {"added", "renamed"} => op.path \notin DOMAIN from
        /\ op.type \in {"deleted", "modified"} => op.path \in DOMAIN from
        /\ op.type = "renamed" => op.previous \in DOMAIN from /\ op.previous \notin DOMAIN tree
        /\ op.type # "renamed" => op.previous = "none"
        /\ op.type = "deleted" => op.path \notin DOMAIN tree
        /\ op.type # "deleted" => op.path \in DOMAIN tree /\ op.content = tree[op.path]
  <2> DEFINE Says(op) ==
        /\ op.type \in Kinds
        /\ op.type \in {"added", "renamed"} => op.path \notin DOMAIN from
        /\ op.type \in {"deleted", "modified"} => op.path \in DOMAIN from
        /\ op.type = "renamed" => op.previous \in DOMAIN from /\ op.previous \notin DOMAIN tree
        /\ op.type # "renamed" => op.previous = "none"
        /\ op.type = "deleted" => op.path \notin DOMAIN tree
        /\ op.type # "deleted" => op.path \in DOMAIN tree /\ op.content = tree[op.path]
  <2>1. \A op \in R : Says(op)
    <3> SUFFICES ASSUME NEW q \in renamed
                 PROVE  Says(Op("renamed", q, CHOOSE p \in Source(q) : TRUE, tree[q]))
      OBVIOUS
    <3>1. PICK p \in gone : p = CHOOSE s \in Source(q) : TRUE
      BY <1>4
    <3>2. p \in DOMAIN from /\ p \notin DOMAIN tree /\ q \in DOMAIN tree /\ q \notin DOMAIN from
      BY <1>3
    <3> HIDE DEF Source, renamed, gone
    <3> QED BY <3>1, <3>2 DEF Op, Kinds
  <2>2. \A op \in A : Says(op)
    BY DEF Op, Kinds
  <2>3. \A op \in D : Says(op)
    BY <1>3 DEF Op, Kinds
  <2>4. \A op \in M : Says(op)
    BY DEF Op, Kinds
  <2>5. \A op \in U : Says(op)
    BY <1>3 DEF Op, Kinds
  <2> HIDE DEF R, A, D, M, U, Says
  <2>6. \A op \in ops : Says(op)
    BY <1>1, <2>1, <2>2, <2>3, <2>4, <2>5
  <2> QED BY <2>6 DEF Says
<1>7. ASSUME NEW p \in FilePaths, p \notin TouchedPaths(ops)
      PROVE  /\ p \in DOMAIN tree <=> p \in DOMAIN from
             /\ p \in DOMAIN tree => tree[p] = from[p]
  <2>1. \A op \in ops : op.path # p /\ op.previous # p
    BY <1>7 DEF TouchedPaths, FilesHaveNames
  <2>2. p \notin New \cup (DOMAIN tree \ index)
    <3>1. \A q \in renamed : Op("renamed", q, CHOOSE s \in Source(q) : TRUE, tree[q]) \in ops
      BY <1>1
    <3>2. \A q \in New \ renamed : Op("added", q, "none", tree[q]) \in ops
      BY <1>1
    <3>3. \A q \in DOMAIN tree \ index : Op("added", q, "none", tree[q]) \in ops
      BY <1>1
    <3>4. renamed \subseteq New
      OBVIOUS
    <3> HIDE DEF ops, renamed, New, Source
    <3>5. \A q \in renamed : q # p
      BY <2>1, <3>1 DEF Op
    <3>6. \A q \in New \ renamed : q # p
      BY <2>1, <3>2 DEF Op
    <3>7. \A q \in DOMAIN tree \ index : q # p
      BY <2>1, <3>3 DEF Op
    <3> QED BY <3>5, <3>6, <3>7
  <2>3. p \notin gone
    <3>1. \A q \in gone \ moved : Op("deleted", q, "none", "none") \in ops
      BY <1>1
    <3>2. \A q \in renamed : Op("renamed", q, CHOOSE s \in Source(q) : TRUE, tree[q]) \in ops
      BY <1>1
    <3>3. p \notin gone \ moved
      <4> HIDE DEF ops, gone, moved
      <4> QED BY <2>1, <3>1 DEF Op
    <3>4. p \notin moved
      <4> SUFFICES ASSUME NEW q \in renamed, p \in Source(q)
                   PROVE  FALSE
        OBVIOUS
      <4>1. p = CHOOSE s \in Source(q) : TRUE
        BY <1>4, <1>5
      <4> HIDE DEF ops, renamed, Source
      <4> QED BY <2>1, <3>2, <4>1 DEF Op
    <3> QED BY <3>3, <3>4
  <2>4. p \in DOMAIN from \cap DOMAIN tree => tree[p] = from[p]
    <3>1. \A q \in DOMAIN from \cap DOMAIN tree :
            tree[q] # from[q] => Op("modified", q, "none", tree[q]) \in ops
      BY <1>1, <1>3
    <3> HIDE DEF ops
    <3> QED BY <2>1, <3>1 DEF Op
  <2> QED BY <1>3, <2>2, <2>3, <2>4
<1> HIDE DEF ops
<1> QED BY <1>2, <1>6, <1>7 DEF Describes, ops

\* What the join needs to know of a path, of either branch.
LEMMA TouchedIsKnown ==
  ASSUME FilesHaveNames, NEW from, NEW tree, NEW ops, Describes(from, tree, ops),
         NEW p \in FilePaths
  PROVE  /\ \A op \in ops : op.type # "deleted" /\ op.path = p =>
              p \in DOMAIN tree /\ op.content = tree[p] /\ p \in TouchedPaths(ops)
         /\ p \in UNION {Removes(op) : op \in ops} =>
              p \notin DOMAIN tree /\ p \in DOMAIN from /\ p \in TouchedPaths(ops)
         /\ p \in TouchedPaths(ops) =>
              \/ \E op \in ops : op.type # "deleted" /\ op.path = p
              \/ p \in UNION {Removes(op) : op \in ops}
         /\ p \notin TouchedPaths(ops) =>
              /\ p \in DOMAIN tree <=> p \in DOMAIN from
              /\ p \in DOMAIN tree => tree[p] = from[p]
<1>1. \A op \in ops : op.path \in TouchedPaths(ops)
  BY DEF TouchedPaths
<1>2. \A op \in ops : op.type = "renamed" => op.previous \in TouchedPaths(ops)
  BY DEF TouchedPaths, Describes, FilesHaveNames
<1>3. p \in UNION {Removes(op) : op \in ops} =>
        \E op \in ops : \/ op.type = "renamed" /\ p = op.previous
                        \/ op.type = "deleted" /\ p = op.path
  BY DEF Removes
<1>4. \A op \in ops : /\ op.type = "renamed" => op.previous \in UNION {Removes(o) : o \in ops}
                      /\ op.type = "deleted" => op.path \in UNION {Removes(o) : o \in ops}
  BY DEF Removes
<1>5. p \in TouchedPaths(ops) => \E op \in ops : p = op.path \/ (p = op.previous /\ p # "none")
  BY DEF TouchedPaths
<1>6. \A op \in ops : op.type # "deleted" /\ op.path = p =>
        p \in DOMAIN tree /\ op.content = tree[p] /\ p \in TouchedPaths(ops)
  BY <1>1 DEF Describes
<1>7. p \in UNION {Removes(op) : op \in ops} =>
        p \notin DOMAIN tree /\ p \in DOMAIN from /\ p \in TouchedPaths(ops)
  BY <1>1, <1>2, <1>3 DEF Describes
<1>8. p \in TouchedPaths(ops) =>
        \/ \E op \in ops : op.type # "deleted" /\ op.path = p
        \/ p \in UNION {Removes(op) : op \in ops}
  BY <1>4, <1>5 DEF Describes
<1> QED BY <1>6, <1>7, <1>8 DEF Describes

LEMMA JoinKeepsBoth ==
  ASSUME FilesHaveNames, MergeInv, NEW A, NEW B, NEW a, NEW b,
         Describes(commit, A, a), Describes(commit, B, b), ~Conflicts(a, b),
         NEW ends, "blank" \notin ends
  PROVE  /\ Applies(commit, commit, a \cup b, ends)
         /\ \A p \in FilePaths :
              LET At(t) == IF p \in DOMAIN t THEN t[p] ELSE "none"
              IN  At(Result(commit, a \cup b)) =
                    IF At(A) # At(commit) THEN At(A) ELSE At(B)
<1> DEFINE ops == a \cup b
           removed == UNION {Removes(op) : op \in ops}
           writes == {op \in ops : op.type # "deleted"}
           written == {op.path : op \in writes}
           tree == Result(commit, ops)
<1>1. /\ DOMAIN tree = (DOMAIN commit \ removed) \cup written
      /\ \A p \in DOMAIN tree :
           tree[p] = IF p \in written THEN (CHOOSE op \in writes : op.path = p).content
                     ELSE commit[p]
  BY DEF Result
<1>2. /\ DOMAIN commit \subseteq FilePaths
      /\ \A op \in ops : op.type # "deleted" => op.path \in FilePaths
  BY DEF Describes
<1>3. DOMAIN tree \subseteq FilePaths
  BY <1>1, <1>2
<1>4. \A p : ~(p \in TouchedPaths(a) /\ p \in TouchedPaths(b))
  BY DEF Conflicts
<1>5. removed = (UNION {Removes(op) : op \in a}) \cup (UNION {Removes(op) : op \in b})
  OBVIOUS
<1> HIDE DEF tree
<1>6. ASSUME NEW p \in FilePaths
      PROVE  /\ p \in TouchedPaths(a) =>
                  /\ p \in DOMAIN tree <=> p \in DOMAIN A
                  /\ p \in DOMAIN tree => tree[p] = A[p]
             /\ p \in TouchedPaths(b) =>
                  /\ p \in DOMAIN tree <=> p \in DOMAIN B
                  /\ p \in DOMAIN tree => tree[p] = B[p]
             /\ p \notin TouchedPaths(a) \cup TouchedPaths(b) =>
                  /\ p \in DOMAIN tree <=> p \in DOMAIN commit
                  /\ p \in DOMAIN tree => tree[p] = commit[p]
  <2>1. /\ \A op \in a : op.type # "deleted" /\ op.path = p =>
              p \in DOMAIN A /\ op.content = A[p] /\ p \in TouchedPaths(a)
        /\ p \in UNION {Removes(op) : op \in a} =>
              p \notin DOMAIN A /\ p \in DOMAIN commit /\ p \in TouchedPaths(a)
        /\ p \in TouchedPaths(a) =>
              \/ \E op \in a : op.type # "deleted" /\ op.path = p
              \/ p \in UNION {Removes(op) : op \in a}
    BY TouchedIsKnown
  <2>2. /\ \A op \in b : op.type # "deleted" /\ op.path = p =>
              p \in DOMAIN B /\ op.content = B[p] /\ p \in TouchedPaths(b)
        /\ p \in UNION {Removes(op) : op \in b} =>
              p \notin DOMAIN B /\ p \in DOMAIN commit /\ p \in TouchedPaths(b)
        /\ p \in TouchedPaths(b) =>
              \/ \E op \in b : op.type # "deleted" /\ op.path = p
              \/ p \in UNION {Removes(op) : op \in b}
    BY TouchedIsKnown
  <2>3. /\ p \in written <=> \/ \E op \in a : op.type # "deleted" /\ op.path = p
                             \/ \E op \in b : op.type # "deleted" /\ op.path = p
    OBVIOUS
  <2>4. p \in written =>
          \E op \in ops : /\ op.type # "deleted" /\ op.path = p
                          /\ op = CHOOSE o \in writes : o.path = p
    OBVIOUS
  <2>5. p \in written => tree[p] = (CHOOSE o \in writes : o.path = p).content
    BY <1>1
  <2>6. p \in DOMAIN tree <=> (p \in DOMAIN commit /\ p \notin removed) \/ p \in written
    BY <1>1
  <2>7. p \in DOMAIN tree /\ p \notin written => tree[p] = commit[p]
    BY <1>1
  <2> DEFINE chosen == CHOOSE o \in writes : o.path = p
  <2> HIDE DEF written, removed, chosen
  <2>8. p \in written => \/ chosen \in a /\ chosen.type # "deleted" /\ chosen.path = p
                         \/ chosen \in b /\ chosen.type # "deleted" /\ chosen.path = p
    BY <2>4 DEF chosen
  <2>9. p \in written => tree[p] = chosen.content
    BY <2>5 DEF chosen
  <2> QED BY <1>4, <1>5, <2>1, <2>2, <2>3, <2>6, <2>7, <2>8, <2>9
<1>7. Fits(commit, commit, ops)
  BY DEF Fits, Describes, Kinds
<1>8. Consistent(DOMAIN tree)
  <2> SUFFICES ASSUME NEW p \in DOMAIN tree, NEW q \in DOMAIN tree, <<p, q>> \in Above
               PROVE  FALSE
    BY DEF Consistent
  <2>1. p \in FilePaths /\ q \in FilePaths
    BY <1>3
  <2>2. p \notin TouchedPaths(b) => p \in DOMAIN A
    BY <1>6, <2>1 DEF Describes
  <2>3. q \notin TouchedPaths(b) => q \in DOMAIN A
    BY <1>6, <2>1 DEF Describes
  <2>4. p \notin TouchedPaths(a) => p \in DOMAIN B
    BY <1>6, <2>1 DEF Describes
  <2>5. q \notin TouchedPaths(a) => q \in DOMAIN B
    BY <1>6, <2>1 DEF Describes
  <2>6. Consistent(DOMAIN A) /\ Consistent(DOMAIN B)
    BY DEF Describes
  <2>7. ~(p \in TouchedPaths(a) /\ q \in TouchedPaths(b))
        /\ ~(q \in TouchedPaths(a) /\ p \in TouchedPaths(b))
    BY DEF Conflicts, Collide
  <2> QED BY <1>4, <2>2, <2>3, <2>4, <2>5, <2>6, <2>7 DEF Consistent
<1>9. \A p \in FilePaths :
        LET At(t) == IF p \in DOMAIN t THEN t[p] ELSE "none"
        IN  At(tree) = IF At(A) # At(commit) THEN At(A) ELSE At(B)
  BY <1>4, <1>6 DEF Describes
<1> QED BY <1>7, <1>8, <1>9 DEF Applies, tree

-----------------------------------------------------------------------------
LEMMA CapturePreservesInv ==
  ASSUME FilesHaveNames, PatchesEndInText, MergeInv,
         NEW b \in Branches, Capture(b), joined = NotJoined
  PROVE  MergeInv'
<1>0. PICK tree \in Trees(DOMAIN commit \cup {IF b = 1 THEN "one" ELSE "two"}), ends \in Endings :
        \E index \in {DOMAIN commit, DOMAIN tree} :
          branch' = [branch EXCEPT ![b] = [ops  |-> DiffWorktree(commit, tree, index),
                                           ends |-> ends, tree |-> tree]]
  <2>1. PICK tree \in Trees(DOMAIN commit \cup {IF b = 1 THEN "one" ELSE "two"}),
             ends \in Endings :
          \E index \in {DOMAIN commit, DOMAIN tree} :
            /\ \A p \in DOMAIN tree \cap DOMAIN commit : tree[p] \in {commit[p], "one", "two"}
            /\ \A p, q \in DOMAIN tree : p # q /\ tree[p] = tree[q] => tree[p] \in {"one", "two"}
            /\ LET ops == DiffWorktree(commit, tree, index)
               IN  /\ ends = "blank" =>
                        (\E op \in ops : op.type = "modified") /\ DOMAIN tree \subseteq index
                   /\ branch' = [branch EXCEPT ![b] = [ops |-> ops, ends |-> ends, tree |-> tree]]
    BY Zenon DEF Capture
  <2> QED BY <2>1
<1>1. PICK index \in {DOMAIN commit, DOMAIN tree} :
        branch' = [branch EXCEPT ![b] = [ops  |-> DiffWorktree(commit, tree, index),
                                         ends |-> ends, tree |-> tree]]
  BY <1>0
<1>2. DOMAIN tree \subseteq FilePaths /\ Consistent(DOMAIN tree)
  BY DEF Trees
<1>3. Describes(commit, tree, DiffWorktree(commit, tree, index))
  BY <1>2, DiffDescribes DEF MergeInv
<1>4. UNCHANGED <<commit, joined>>
  BY DEF Capture
<1> DEFINE ops == DiffWorktree(commit, tree, index)
<1> HIDE DEF ops
<1>5. /\ DOMAIN branch' = Branches
      /\ branch'[b].ops = ops /\ branch'[b].ends = ends /\ branch'[b].tree = tree
      /\ \A c \in Branches : c # b => branch'[c] = branch[c]
  BY <1>1 DEF MergeInv, ops
<1>6. ends # "blank"
  BY DEF PatchesEndInText
<1>7. \A c \in Branches : (branch[c] = NotCaptured \/ Captured(c))'
  BY <1>3, <1>4, <1>5, <1>6 DEF MergeInv, Captured, Describes, ops
<1>8. MergeKeepsBothBranches'
  BY <1>4 DEF MergeKeepsBothBranches, NotJoined
<1> QED BY <1>4, <1>5, <1>7, <1>8 DEF MergeInv

LEMMA JoinPreservesInv ==
  ASSUME FilesHaveNames, MergeInv, Join
  PROVE  MergeInv'
<1> DEFINE ops == UNION {branch[b].ops : b \in Branches}
           ends == {branch[b].ends : b \in Branches}
<1>1. UNCHANGED <<commit, branch>>
  BY DEF Join
<1>2. 1 \in Branches /\ 2 \in Branches /\ Branches = {1, 2}
  BY DEF Branches
<1>3. Captured(1) /\ Captured(2)
  BY <1>2 DEF Join, MergeInv
<1>4. ops = branch[1].ops \cup branch[2].ops /\ ends = {branch[1].ends, branch[2].ends}
  BY <1>2
<1>5. "blank" \notin ends
  BY <1>3, <1>4 DEF Captured
<1>6. joined' = IF Conflicts(branch[1].ops, branch[2].ops)
                THEN [NotJoined EXCEPT !.verdict = "conflict"]
                ELSE IF Applies(commit, commit, ops, ends)
                THEN [verdict |-> "merged", tree |-> Result(commit, ops)]
                ELSE [NotJoined EXCEPT !.verdict = "refused"]
  BY DEF Join
<1>7. CASE Conflicts(branch[1].ops, branch[2].ops)
  <2>1. joined'.verdict = "conflict"
    BY <1>6, <1>7 DEF NotJoined
  <2> QED BY <1>1, <2>1 DEF MergeInv, MergeKeepsBothBranches, Captured
<1>8. CASE ~Conflicts(branch[1].ops, branch[2].ops)
  <2> HIDE DEF ops, ends
  <2>1. /\ Applies(commit, commit, ops, ends)
        /\ \A p \in FilePaths :
             LET At(t) == IF p \in DOMAIN t THEN t[p] ELSE "none"
             IN  At(Result(commit, ops)) =
                   IF At(branch[1].tree) # At(commit) THEN At(branch[1].tree)
                   ELSE At(branch[2].tree)
    <3> DEFINE A == branch[1].tree
               B == branch[2].tree
               a == branch[1].ops
               b == branch[2].ops
    <3>1. Describes(commit, A, a) /\ Describes(commit, B, b) /\ ~Conflicts(a, b)
      BY <1>3, <1>8 DEF Captured
    <3>2. ops = a \cup b
      BY <1>4
    <3> HIDE DEF A, B, a, b
    <3>3. /\ Applies(commit, commit, a \cup b, ends)
          /\ \A p \in FilePaths :
               LET At(t) == IF p \in DOMAIN t THEN t[p] ELSE "none"
               IN  At(Result(commit, a \cup b)) =
                     IF At(A) # At(commit) THEN At(A) ELSE At(B)
      BY <1>5, <3>1, JoinKeepsBoth
    <3> QED BY <3>2, <3>3 DEF A, B
  <2>2. joined'.verdict = "merged" /\ joined'.tree = Result(commit, ops)
    BY <1>6, <1>8, <2>1
  <2>3. MergeKeepsBothBranches'
    BY <1>1, <2>1, <2>2 DEF MergeKeepsBothBranches
  <2> QED BY <1>1, <2>3 DEF MergeInv, Captured
<1> QED BY <1>7, <1>8

\* Whatever two branches do to whatever commit, staged or not: if their paths do not
\* conflict the patches apply together, and the join holds at every path what the branch
\* that changed it has there (mergeChangeSets() over diffWorktree() and applyPatch()).
THEOREM JoinsLoseNoWork ==
  ASSUME FilesHaveNames, PatchesEndInText
  PROVE  MergeInit /\ [][MergeNext]_mergeVars => []MergeKeepsBothBranches
<1>1. MergeInit => MergeInv /\ (joined # NotJoined => \A b \in Branches : branch[b] # NotCaptured)
  BY DEF MergeInit, MergeInv, MergeKeepsBothBranches, NotJoined
<1>2. ASSUME MergeInv, joined # NotJoined => \A b \in Branches : branch[b] # NotCaptured,
             [MergeNext]_mergeVars
      PROVE  MergeInv' /\ (joined # NotJoined => \A b \in Branches : branch[b] # NotCaptured)'
  <2>1. CASE Join
    BY <1>2, <2>1, JoinPreservesInv DEF Join
  <2>2. ASSUME NEW b \in Branches, Capture(b)
        PROVE  MergeInv' /\ (joined # NotJoined => \A c \in Branches : branch[c] # NotCaptured)'
    <3>1. joined = NotJoined
      BY <1>2, <2>2 DEF Capture
    <3> QED BY <2>2, <1>2, <3>1, CapturePreservesInv DEF Capture
  <2>3. CASE UNCHANGED mergeVars
    BY <1>2, <2>3 DEF mergeVars, MergeInv, Captured, MergeKeepsBothBranches
  <2> QED BY <1>2, <2>1, <2>2, <2>3 DEF MergeNext
<1>3. MergeInv => MergeKeepsBothBranches
  BY DEF MergeInv
<1> QED BY <1>1, <1>2, <1>3, PTL
-----------------------------------------------------------------------------
(* Numbers, and columns that lie over others.                              *)

LEMMA LeastNumber ==
  ASSUME NEW S \in SUBSET Nat, S # {}
  PROVE  \E n \in S : \A m \in S : n <= m
<1>1. \E n \in S : \A m \in S : ~(<<m, n>> \in OpToRel(<, Nat))
  BY NatLessThanWellFounded, WFMin
<1>2. PICK n \in S : \A m \in S : ~(<<m, n>> \in OpToRel(<, Nat))
  BY <1>1
<1>3. \A m \in S : ~(m < n)
  BY <1>2 DEF OpToRel
<1> QED BY <1>3

LEMMA OverTwice ==
  ASSUME NEW f, NEW g
  PROVE  Over(f, Over(f, g)) = Over(f, g)
<1>1. \A c \in DOMAIN f \cup DOMAIN g : Over(f, g)[c] = IF c \in DOMAIN f THEN f[c] ELSE g[c]
  BY DEF Over
<1>2. DOMAIN Over(f, g) = DOMAIN f \cup DOMAIN g
  BY DEF Over
<1>3. Over(f, Over(f, g)) =
        [c \in DOMAIN f \cup DOMAIN Over(f, g) |-> IF c \in DOMAIN f THEN f[c] ELSE Over(f, g)[c]]
  BY DEF Over
<1>4. Over(f, Over(f, g)) = [c \in DOMAIN f \cup DOMAIN g |-> IF c \in DOMAIN f THEN f[c] ELSE g[c]]
  BY <1>1, <1>2, <1>3
<1> QED BY <1>4 DEF Over

\* What f hides is hidden also when another change d lies between.
LEMMA OverBoth ==
  ASSUME NEW f, NEW g, NEW h, NEW d, Over(f, g) = Over(f, h)
  PROVE  Over(f, Over(d, g)) = Over(f, Over(d, h))
<1>1. ASSUME NEW u, NEW v
      PROVE  Over(u, v) = [c \in DOMAIN u \cup DOMAIN v |-> IF c \in DOMAIN u THEN u[c] ELSE v[c]]
  BY DEF Over
<1>2. DOMAIN f \cup DOMAIN g = DOMAIN f \cup DOMAIN h
  <2>1. DOMAIN Over(f, g) = DOMAIN f \cup DOMAIN g /\ DOMAIN Over(f, h) = DOMAIN f \cup DOMAIN h
    BY DEF Over
  <2> QED BY <2>1
<1>3. \A c \in DOMAIN f \cup DOMAIN g : c \notin DOMAIN f => g[c] = h[c]
  <2> TAKE c \in DOMAIN f \cup DOMAIN g
  <2>1. Over(f, g)[c] = IF c \in DOMAIN f THEN f[c] ELSE g[c]
    BY DEF Over
  <2>2. Over(f, h)[c] = IF c \in DOMAIN f THEN f[c] ELSE h[c]
    BY <1>2 DEF Over
  <2> QED BY <2>1, <2>2
<1>4. DOMAIN Over(d, g) = DOMAIN d \cup DOMAIN g /\ DOMAIN Over(d, h) = DOMAIN d \cup DOMAIN h
  BY DEF Over
<1>5. DOMAIN f \cup DOMAIN Over(d, g) = DOMAIN f \cup DOMAIN Over(d, h)
  BY <1>2, <1>4
<1>6. \A c \in DOMAIN f \cup DOMAIN Over(d, g) : c \notin DOMAIN f => Over(d, g)[c] = Over(d, h)[c]
  <2> SUFFICES ASSUME NEW c \in DOMAIN d \cup DOMAIN g, c \notin DOMAIN f
               PROVE  Over(d, g)[c] = Over(d, h)[c]
    BY <1>4
  <2>1. c \in DOMAIN d \cup DOMAIN h
    BY <1>2
  <2>2. Over(d, g)[c] = IF c \in DOMAIN d THEN d[c] ELSE g[c]
    BY DEF Over
  <2>3. Over(d, h)[c] = IF c \in DOMAIN d THEN d[c] ELSE h[c]
    BY <2>1 DEF Over
  <2>4. c \notin DOMAIN d => g[c] = h[c]
    BY <1>3
  <2> QED BY <2>2, <2>3, <2>4
<1>7. [c \in DOMAIN f \cup DOMAIN Over(d, g) |-> IF c \in DOMAIN f THEN f[c] ELSE Over(d, g)[c]]
      = [c \in DOMAIN f \cup DOMAIN Over(d, h) |-> IF c \in DOMAIN f THEN f[c] ELSE Over(d, h)[c]]
  BY <1>5, <1>6
<1> QED BY <1>1, <1>7

-----------------------------------------------------------------------------
(* Tables key by key: the rows with a key are one or none.                 *)

At(X, x) == {X[y] : y \in {x} \cap DOMAIN X}

IsTable(X) == X = [k \in DOMAIN X |-> X[k]] /\ \A k \in DOMAIN X : k[1] # "refused"

\* The parent of what is inserted or updated is there, as the database wants it.
HasParent(X, e) == e.type \in Upserts => e.key = Parent(e.key) \/ Parent(e.key) \in DOMAIN X

FullRow(e)   == Over(Initially(e.type), e.row)
KnownRow(e)  == [c \in DOMAIN FullRow(e) \ KeptOnConflict(e.type) |-> FullRow(e)[c]]

\* What e makes of the rows with key x.
StepAt(a, x, e) ==
  IF e.type \in Upserts
  THEN IF x # e.key THEN a
       ELSE IF a = {} THEN {FullRow(e)} ELSE {Over(KnownRow(e), r) : r \in a}
  ELSE IF e.type = "rule.removed"
  THEN IF x[1] = e.key[1] /\ \E r \in a : r.id = e.row.id THEN {} ELSE a
  ELSE IF e.type = "account.removed"
  THEN IF x = e.key /\ x[1] = e.key[1] THEN {} ELSE a
  ELSE IF x # e.key THEN a ELSE {Over(e.row, r) : r \in a}

LEMMA AtOf ==
  ASSUME NEW X, NEW x
  PROVE  /\ x \in DOMAIN X => At(X, x) = {X[x]}
         /\ x \notin DOMAIN X => At(X, x) = {}
         /\ x \in DOMAIN X <=> At(X, x) # {}
BY DEF At

LEMMA SameAt ==
  ASSUME NEW X, NEW Y, IsTable(X), IsTable(Y), \A x : At(X, x) = At(Y, x)
  PROVE  X = Y
<1>1. \A x : x \in DOMAIN X <=> x \in DOMAIN Y
  BY AtOf
<1>2. DOMAIN X = DOMAIN Y
  BY <1>1
<1>3. ASSUME NEW x \in DOMAIN X PROVE X[x] = Y[x]
  <2>1. At(X, x) = {X[x]} /\ At(Y, x) = {Y[x]}
    BY <1>2, AtOf
  <2>2. At(X, x) = At(Y, x)
    OBVIOUS
  <2>3. {X[x]} = {Y[x]}
    BY <2>1, <2>2
  <2> QED BY <2>3
<1> QED BY <1>2, <1>3 DEF IsTable

LEMMA NotRefused == ASSUME NEW X, IsTable(X) PROVE X # Refused
<1>1. DOMAIN Refused = {<<"refused", none, none>>}
  BY DEF Refused
<1>2. <<"refused", none, none>> \in DOMAIN Refused /\ <<"refused", none, none>>[1] = "refused"
  BY <1>1
<1> QED BY <1>2 DEF IsTable

\* applyEvent() is StepAt at every key, and removes no row but rules and accounts.
LEMMA ApplyIsStepAt ==
  ASSUME NEW X, IsTable(X), NEW e, HasParent(X, e), e.key[1] # "refused"
  PROVE  /\ IsTable(applyEvent(X, e))
         /\ \A x : At(applyEvent(X, e), x) = StepAt(At(X, x), x, e)
         /\ \A x \in DOMAIN X : x[1] # e.key[1] \/ e.type \notin Deletes
              => x \in DOMAIN applyEvent(X, e)
<1>1. X # Refused
  BY NotRefused
<1>2. CASE e.type \in Upserts
  <2> DEFINE row == IF e.key \in DOMAIN X THEN Over(KnownRow(e), X[e.key]) ELSE FullRow(e)
  <2>1. FullRow(e) = [c \in DOMAIN FullRow(e) \ {} |-> FullRow(e)[c]]
    BY DEF FullRow, Over
  <2>d. e.type \notin Deletes
    BY <1>2 DEF Upserts, Deletes
  <2>0. applyEvent(X, e) = Upserted(X, e)
    BY <1>1, <1>2, <2>d DEF applyEvent
  <2>f. ~(e.key # Parent(e.key) /\ Parent(e.key) \notin DOMAIN X)
    BY <1>2 DEF HasParent
  <2>u. Upserted(X, e) =
          With(X, e.key,
               IF e.key \in DOMAIN X
               THEN Over([c \in DOMAIN FullRow(e) \
                            (IF e.key \in DOMAIN X THEN KeptOnConflict(e.type) ELSE {})
                            |-> FullRow(e)[c]], X[e.key])
               ELSE [c \in DOMAIN FullRow(e) \
                       (IF e.key \in DOMAIN X THEN KeptOnConflict(e.type) ELSE {})
                       |-> FullRow(e)[c]])
    BY <2>f DEF Upserted, FullRow
  <2>2. applyEvent(X, e) = With(X, e.key, row)
    <3>1. CASE e.key \in DOMAIN X
      BY <2>0, <2>u, <3>1 DEF KnownRow
    <3>2. CASE e.key \notin DOMAIN X
      BY <2>0, <2>u, <2>1, <3>2
    <3> QED BY <3>1, <3>2
  <2>3. With(X, e.key, row) = [k \in DOMAIN X \cup {e.key} |-> IF k = e.key THEN row ELSE X[k]]
    BY DEF With
  <2>4. applyEvent(X, e) = [k \in DOMAIN X \cup {e.key} |-> IF k = e.key THEN row ELSE X[k]]
    BY <2>2, <2>3
  <2> HIDE DEF row
  <2>5. IsTable(applyEvent(X, e))
    BY <2>4 DEF IsTable
  <2>6. ASSUME NEW x PROVE At(applyEvent(X, e), x) = StepAt(At(X, x), x, e)
    <3>1. CASE x = e.key
      <4>1. At(applyEvent(X, e), x) = {row}
        BY <2>4, <3>1 DEF At
      <4>2. CASE x \in DOMAIN X
        <5>1. At(X, x) = {X[x]} /\ row = Over(KnownRow(e), X[x])
          BY <3>1, <4>2, AtOf DEF row
        <5> QED BY <1>2, <3>1, <4>1, <5>1 DEF StepAt
      <4>3. CASE x \notin DOMAIN X
        <5>1. At(X, x) = {} /\ row = FullRow(e)
          BY <3>1, <4>3, AtOf DEF row
        <5> QED BY <1>2, <3>1, <4>1, <5>1 DEF StepAt
      <4> QED BY <4>2, <4>3
    <3>2. CASE x # e.key
      <4>1. At(applyEvent(X, e), x) = At(X, x)
        BY <2>4, <3>2 DEF At
      <4> QED BY <1>2, <3>2, <4>1 DEF StepAt
    <3> QED BY <3>1, <3>2
  <2> QED BY <2>4, <2>5, <2>6
<1>3. CASE e.type \in Deletes
  <2> DEFINE gone == {k \in DOMAIN X : k[1] = e.key[1]
                        /\ IF e.type = "rule.removed" THEN X[k].id = e.row.id ELSE k = e.key}
  <2>1. e.type \notin Upserts
    BY <1>3 DEF Upserts, Deletes
  <2>2. applyEvent(X, e) = [k \in DOMAIN X \ gone |-> X[k]]
    BY <1>1, <1>3, <2>1 DEF applyEvent, Deleted, Without
  <2>3. IsTable(applyEvent(X, e))
    BY <2>2 DEF IsTable
  <2>4. \A x \in DOMAIN X : x[1] # e.key[1] => x \in DOMAIN applyEvent(X, e)
    BY <2>2
  <2>5. ASSUME NEW x PROVE At(applyEvent(X, e), x) = StepAt(At(X, x), x, e)
    <3>1. At(applyEvent(X, e), x) = IF x \in gone THEN {} ELSE At(X, x)
      <4> HIDE DEF gone
      <4> QED BY <2>2 DEF At
    <3>2. CASE x \notin DOMAIN X
      <4>1. At(X, x) = {} /\ x \notin gone
        BY <3>2, AtOf
      <4>2. StepAt({}, x, e) = {}
        BY <2>1, <1>3 DEF StepAt, Deletes
      <4> QED BY <3>1, <4>1, <4>2
    <3>3. CASE x \in DOMAIN X
      <4>1. At(X, x) = {X[x]}
        BY <3>3, AtOf
      <4>2. CASE e.type = "rule.removed"
        <5>1. x \in gone <=> x[1] = e.key[1] /\ X[x].id = e.row.id
          BY <3>3, <4>2
        <5>2. StepAt({X[x]}, x, e) =
                IF x[1] = e.key[1] /\ X[x].id = e.row.id THEN {} ELSE {X[x]}
          BY <2>1, <4>2 DEF StepAt
        <5> QED BY <3>1, <4>1, <5>1, <5>2
      <4>3. CASE e.type = "account.removed"
        <5>1. x \in gone <=> x[1] = e.key[1] /\ x = e.key
          BY <3>3, <4>3
        <5>2. StepAt({X[x]}, x, e) = IF x = e.key /\ x[1] = e.key[1] THEN {} ELSE {X[x]}
          BY <2>1, <4>3 DEF StepAt
        <5> QED BY <3>1, <4>1, <5>1, <5>2
      <4> QED BY <1>3, <4>2, <4>3 DEF Deletes
    <3> QED BY <3>2, <3>3
  <2> QED BY <1>3, <2>3, <2>4, <2>5
<1>4. CASE e.type \notin Upserts \cup Deletes
  <2>1. applyEvent(X, e) = [k \in DOMAIN X |-> IF k = e.key THEN Over(e.row, X[k]) ELSE X[k]]
    BY <1>1, <1>4 DEF applyEvent, Updated, IsTable
  <2>2. IsTable(applyEvent(X, e))
    BY <2>1 DEF IsTable
  <2>3. ASSUME NEW x PROVE At(applyEvent(X, e), x) = StepAt(At(X, x), x, e)
    <3>1. StepAt(At(X, x), x, e) = IF x # e.key THEN At(X, x) ELSE {Over(e.row, r) : r \in At(X, x)}
      BY <1>4 DEF StepAt, Deletes
    <3>2. At(applyEvent(X, e), x) =
            IF x # e.key THEN At(X, x) ELSE {Over(e.row, X[y]) : y \in {x} \cap DOMAIN X}
      BY <2>1 DEF At
    <3>3. {Over(e.row, X[y]) : y \in {x} \cap DOMAIN X} = {Over(e.row, r) : r \in At(X, x)}
      BY DEF At
    <3> QED BY <3>1, <3>2, <3>3
  <2> QED BY <2>1, <2>2, <2>3
<1> QED BY <1>2, <1>3, <1>4
-----------------------------------------------------------------------------
(* Runs of applyEvent() along the places j + 1 to n of a log.              *)

Runs(R, L, j, n) ==
  /\ \A i \in j..n : IsTable(R[i])
  /\ \A i \in (j + 1)..n : HasParent(R[i - 1], L[i]) /\ R[i] = applyEvent(R[i - 1], L[i])

Leads(X, L, j, n, Z) ==
  \E R : R = [i \in j..n |-> R[i]] /\ Runs(R, L, j, n) /\ R[j] = X /\ R[n] = Z

LEMMA LeadsStart ==
  ASSUME NEW X, IsTable(X), NEW L, NEW j \in Nat
  PROVE  Leads(X, L, j, j, X)
<1> DEFINE R == [i \in j..j |-> X]
<1>1. j \in j..j /\ (j + 1)..j = {}
  OBVIOUS
<1>2. R = [i \in j..j |-> R[i]] /\ R[j] = X
  BY <1>1
<1>3. Runs(R, L, j, j)
  BY <1>1 DEF Runs
<1> HIDE DEF R
<1> QED BY <1>2, <1>3 DEF Leads

LEMMA LeadsTables ==
  ASSUME NEW X, NEW L, NEW j \in Nat, NEW n \in Nat, j <= n, NEW Z, Leads(X, L, j, n, Z)
  PROVE  IsTable(X) /\ IsTable(Z)
<1>1. PICK R : Runs(R, L, j, n) /\ R[j] = X /\ R[n] = Z
  BY DEF Leads
<1>2. j \in j..n /\ n \in j..n
  OBVIOUS
<1> QED BY <1>1, <1>2 DEF Runs

LEMMA LeadsStep ==
  ASSUME NEW X, NEW L, NEW j \in Nat, NEW n \in Nat, j <= n, NEW Y, Leads(X, L, j, n, Y),
         HasParent(Y, L[n + 1]), L[n + 1].key[1] # "refused"
  PROVE  Leads(X, L, j, n + 1, applyEvent(Y, L[n + 1]))
<1>1. PICK R : R = [i \in j..n |-> R[i]] /\ Runs(R, L, j, n) /\ R[j] = X /\ R[n] = Y
  BY DEF Leads
<1>2. IsTable(Y)
  BY LeadsTables
<1>3. IsTable(applyEvent(Y, L[n + 1]))
  BY <1>2, ApplyIsStepAt
<1> DEFINE Z == applyEvent(Y, L[n + 1])
           Q == [i \in j..(n + 1) |-> IF i = n + 1 THEN Z ELSE R[i]]
<1> HIDE DEF Z
<1>4. Q[n + 1] = Z /\ \A i \in j..n : Q[i] = R[i]
  OBVIOUS
<1>5. Q = [i \in j..(n + 1) |-> Q[i]]
  OBVIOUS
<1> HIDE DEF Q
<1>6. Q[j] = X
  BY <1>1, <1>4
<1>7. Runs(Q, L, j, n + 1)
  <2>1. ASSUME NEW i \in j..(n + 1) PROVE IsTable(Q[i])
    <3>1. CASE i = n + 1
      BY <1>3, <1>4, <3>1 DEF Z
    <3>2. CASE i \in j..n
      BY <1>1, <1>4, <3>2 DEF Runs
    <3> QED BY <3>1, <3>2
  <2>2. ASSUME NEW i \in (j + 1)..(n + 1)
        PROVE  HasParent(Q[i - 1], L[i]) /\ Q[i] = applyEvent(Q[i - 1], L[i])
    <3>1. CASE i = n + 1
      <4>1. i - 1 = n /\ n \in j..n
        BY <3>1
      <4>2. Q[i - 1] = Y
        BY <1>1, <1>4, <4>1
      <4> QED BY <1>4, <3>1, <4>2 DEF Z
    <3>2. CASE i \in (j + 1)..n
      <4>1. i \in j..n /\ i - 1 \in j..n
        BY <3>2
      <4>2. Q[i - 1] = R[i - 1] /\ Q[i] = R[i]
        BY <1>4, <4>1
      <4> QED BY <1>1, <3>2, <4>2 DEF Runs
    <3> QED BY <3>1, <3>2
  <2> QED BY <2>1, <2>2 DEF Runs
<1> QED BY <1>4, <1>5, <1>6, <1>7 DEF Leads, Z

\* What comes after n does not matter.
LEMMA LeadsSame ==
  ASSUME NEW X, NEW L, NEW M, NEW j \in Nat, NEW n \in Nat, NEW Z, Leads(X, L, j, n, Z),
         \A i \in (j + 1)..n : M[i] = L[i]
  PROVE  Leads(X, M, j, n, Z)
<1>1. PICK R : R = [i \in j..n |-> R[i]] /\ Runs(R, L, j, n) /\ R[j] = X /\ R[n] = Z
  BY DEF Leads
<1>2. Runs(R, M, j, n)
  BY <1>1 DEF Runs
<1> QED BY <1>1, <1>2 DEF Leads

LEMMA ReplayedIs ==
  ASSUME NEW X, NEW s, NEW N \in Nat, Len(s) = N, NEW R,
         R = [n \in 0..N |-> IF n = 0 THEN X ELSE applyEvent(R[n - 1], s[n])]
  PROVE  Replayed(X, s) = R[N]
<1> DEFINE G(f) == [n \in 0..N |-> IF n = 0 THEN X ELSE applyEvent(f[n - 1], s[n])]
           C == CHOOSE f : f = G(f)
<1>1. C = G(C)
  <2>1. R = G(R)
    OBVIOUS
  <2>2. \E f : f = G(f)
    BY <2>1
  <2> QED BY <2>2
<1>2. \A n \in 0..N : C[n] = IF n = 0 THEN X ELSE applyEvent(C[n - 1], s[n])
  <2> HIDE DEF C
  <2> QED BY <1>1
<1>3. \A n \in 0..N : R[n] = IF n = 0 THEN X ELSE applyEvent(R[n - 1], s[n])
  OBVIOUS
<1>4. Replayed(X, s) = C[N]
  BY DEF Replayed
<1> HIDE DEF C, G
<1> DEFINE Bad == {n \in 0..N : C[n] # R[n]}
<1>5. Bad = {}
  <2> SUFFICES ASSUME Bad # {} PROVE FALSE
    OBVIOUS
  <2>1. Bad \in SUBSET Nat
    OBVIOUS
  <2>2. PICK n \in Bad : \A m \in Bad : n <= m
    BY <2>1, LeastNumber
  <2>3. n # 0
    <3>1. 0 \in 0..N
      OBVIOUS
    <3>2. C[0] = X /\ R[0] = X
      BY <1>2, <1>3, <3>1
    <3> QED BY <3>2
  <2>4. n - 1 \in 0..N /\ n - 1 \notin Bad
    BY <2>2, <2>3
  <2>5. C[n - 1] = R[n - 1]
    BY <2>4
  <2>6. C[n] = applyEvent(C[n - 1], s[n]) /\ R[n] = applyEvent(R[n - 1], s[n])
    BY <1>2, <1>3, <2>3
  <2> QED BY <2>5, <2>6
<1>6. N \in 0..N
  OBVIOUS
<1> QED BY <1>4, <1>5, <1>6

\* The end of a log from its place j + 1 on.
LEMMA LeadsReplayed ==
  ASSUME NEW X, NEW L, NEW s, NEW j \in Nat, NEW n \in Nat, j <= n, NEW Z,
         Leads(X, L, j, n, Z), Len(s) = n - j, \A i \in 1..(n - j) : s[i] = L[j + i]
  PROVE  Replayed(X, s) = Z
<1>1. PICK R : R = [i \in j..n |-> R[i]] /\ Runs(R, L, j, n) /\ R[j] = X /\ R[n] = Z
  BY DEF Leads
<1> DEFINE N == n - j
           Q == [i \in 0..N |-> R[j + i]]
<1>2. N \in Nat /\ j + N = n /\ N \in 0..N
  OBVIOUS
<1>3. ASSUME NEW i \in 0..N
      PROVE  Q[i] = IF i = 0 THEN X ELSE applyEvent(Q[i - 1], s[i])
  <2>1. CASE i = 0
    BY <1>1, <2>1
  <2>2. CASE i # 0
    <3>1. j + i \in (j + 1)..n /\ i \in 1..N /\ i - 1 \in 0..N /\ (j + i) - 1 = j + (i - 1)
      BY <2>2
    <3>2. R[j + i] = applyEvent(R[(j + i) - 1], L[j + i])
      BY <1>1, <3>1 DEF Runs
    <3>3. Q[i - 1] = R[(j + i) - 1] /\ s[i] = L[j + i]
      BY <3>1
    <3> QED BY <2>2, <3>2, <3>3
  <2> QED BY <2>1, <2>2
<1>4. Q = [i \in 0..N |-> IF i = 0 THEN X ELSE applyEvent(Q[i - 1], s[i])]
  <2>1. Q = [i \in 0..N |-> Q[i]]
    OBVIOUS
  <2> HIDE DEF Q, N
  <2> QED BY <1>3, <2>1
<1>5. Q[N] = Z
  BY <1>1, <1>2
<1>6. Len(s) = N
  OBVIOUS
<1> HIDE DEF Q, N
<1>7. Replayed(X, s) = Q[N]
  BY ONLY <1>2, <1>4, <1>6, ReplayedIs
<1> QED BY <1>5, <1>7
-----------------------------------------------------------------------------
(* One event more: what the tables it leaves and those it was applied to   *)
(* have in common while the end of the log is applied to both.             *)

IsEvent(e) ==
  /\ e.key[1] \notin {"refused", "runs"}
  /\ e.key[1] = "rules" => e.type \in {"rule.set", "rule.removed"}
  /\ e.type \in {"rule.set", "rule.removed"} => e.key[1] = "rules"
  /\ e.type = "rule.set" => "id" \in DOMAIN e.row
  /\ e.type = "account.removed" => e.key[1] = "accounts"
  /\ Parent(e.key) # e.key => Parent(e.key)[1] \notin {"rules", "accounts", "runs"}

\* e is about to be logged, with the tables T.
IsNext(e, T) ==
  /\ IsEvent(e)
  /\ HasParent(T, e)
  /\ e.type = "rule.set" /\ e.key \in DOMAIN T => e.row.id = T[e.key].id
  /\ e.type \notin Upserts \cup {"rule.removed"} => e.key \in DOMAIN T

\* f came before e.
Precedes(f, e, T) ==
  /\ IsEvent(f)
  /\ HasParent(T, f)
  /\ f.key = e.key /\ e.key \notin DOMAIN T /\ e.type \in Upserts =>
       e.type = "rule.set" /\ e.row.id # f.row.id

SetBy(e) == IF e.type \in Upserts THEN KnownRow(e) ELSE e.row

SameId(a, b) ==
  \/ a = {} /\ b = {}
  \/ \E r, s : a = {r} /\ b = {s} /\ r.id = s.id

Gone(e, a, b) == a = {} /\ \E r : b = {r} /\ r.id = e.row.id

Alike(e, a, b) ==
  \/ a = b
  \/ \E r, s : /\ a = {r} /\ b = {s} /\ Over(SetBy(e), r) = Over(SetBy(e), s)
               /\ e.key[1] = "rules" => r.id = s.id

\* The rows with key x: a in tables that e was applied to first, b in those it was not.
Near(e, T, x, a, b) ==
  CASE e.type = "rule.removed" ->
         IF x[1] = "rules" /\ \E r \in At(T, x) : r.id = e.row.id
         THEN SameId(a, b) \/ Gone(e, a, b)
         ELSE a = b
    [] e.type = "account.removed" -> x # e.key => a = b
    [] OTHER ->
         IF x # e.key THEN a = b
         ELSE IF x \in DOMAIN T THEN Alike(e, a, b)
         ELSE IF e.type = "rule.set"
         THEN \/ b = {} /\ a \in SUBSET {FullRow(e)}
              \/ \E r, s : a = {r} /\ b = {s} /\ r.id = s.id /\ r.id # e.row.id
         ELSE b = {} /\ a = {FullRow(e)}

LEMMA OverColumn ==
  ASSUME NEW f, NEW g, NEW c \in DOMAIN f
  PROVE  Over(f, g)[c] = f[c]
BY DEF Over

LEMMA RuleIds ==
  ASSUME NEW f, f.type = "rule.set", "id" \in DOMAIN f.row
  PROVE  /\ FullRow(f).id = f.row.id
         /\ \A r : Over(KnownRow(f), r).id = f.row.id
<1>1. Initially(f.type) = Nothing /\ DOMAIN Nothing = {}
  BY DEF Initially, Nothing
<1>2. DOMAIN FullRow(f) = DOMAIN f.row
  BY <1>1 DEF FullRow, Over
<1>3. FullRow(f)["id"] = f.row["id"]
  BY <1>1 DEF FullRow, Over
<1>4. KeptOnConflict(f.type) = {"createdAt"}
  BY <1>1 DEF KeptOnConflict
<1>5. "id" \in DOMAIN KnownRow(f) /\ KnownRow(f)["id"] = f.row["id"]
  BY <1>2, <1>3, <1>4 DEF KnownRow
<1> QED BY <1>3, <1>5, OverColumn

LEMMA FullOverKnown ==
  ASSUME NEW e
  PROVE  Over(KnownRow(e), FullRow(e)) = FullRow(e)
<1>1. FullRow(e) = [c \in DOMAIN FullRow(e) |-> FullRow(e)[c]]
  BY DEF FullRow, Over
<1>2. Over(KnownRow(e), FullRow(e)) =
        [c \in DOMAIN KnownRow(e) \cup DOMAIN FullRow(e) |->
           IF c \in DOMAIN KnownRow(e) THEN KnownRow(e)[c] ELSE FullRow(e)[c]]
  BY DEF Over
<1>3. DOMAIN KnownRow(e) \cup DOMAIN FullRow(e) = DOMAIN FullRow(e)
  BY DEF KnownRow
<1>4. \A c \in DOMAIN KnownRow(e) : KnownRow(e)[c] = FullRow(e)[c]
  BY DEF KnownRow
<1> QED BY <1>1, <1>2, <1>3, <1>4

\* What StepAt is for the rows of an event that neither removes nor is about another row.
LEMMA StepAtOwn ==
  ASSUME NEW e, e.type \notin Deletes, NEW r
  PROVE  /\ StepAt({r}, e.key, e) = {Over(SetBy(e), r)}
         /\ e.type \in Upserts => StepAt({}, e.key, e) = {FullRow(e)}
         /\ e.type \notin Upserts => StepAt({}, e.key, e) = {}
<1>1. {r} # {} /\ {Over(KnownRow(e), q) : q \in {r}} = {Over(KnownRow(e), r)}
      /\ {Over(e.row, q) : q \in {r}} = {Over(e.row, r)} /\ {Over(e.row, q) : q \in {}} = {}
  OBVIOUS
<1> QED BY <1>1 DEF StepAt, SetBy, Deletes

LEMMA StepAtOther ==
  ASSUME NEW e, NEW x, x # e.key, e.type # "rule.removed", NEW a
  PROVE  StepAt(a, x, e) = a
BY DEF StepAt

LEMMA StepAtRemoved ==
  ASSUME NEW e, e.type = "rule.removed", e.key[1] = "rules", NEW x, NEW r
  PROVE  /\ StepAt({}, x, e) = {}
         /\ StepAt({r}, x, e) = IF x[1] = "rules" /\ r.id = e.row.id THEN {} ELSE {r}
<1>1. e.type \notin Upserts
  BY DEF Upserts
<1> QED BY <1>1 DEF StepAt

LEMMA StepAtKept ==
  ASSUME NEW e, e.type = "rule.removed", e.key[1] = "rules", NEW x, x[1] # "rules", NEW a
  PROVE  StepAt(a, x, e) = a
<1>1. e.type \notin Upserts
  BY DEF Upserts
<1> QED BY <1>1 DEF StepAt

LEMMA NearStart ==
  ASSUME NEW e, NEW T, IsTable(T), IsNext(e, T), NEW x
  PROVE  Near(e, T, x, StepAt(At(T, x), x, e), At(T, x))
<1>1. CASE e.type = "rule.removed"
  <2>1. e.key[1] = "rules"
    BY <1>1 DEF IsNext, IsEvent
  <2>2. CASE x \notin DOMAIN T
    <3>1. At(T, x) = {}
      BY <2>2, AtOf
    <3>2. StepAt({}, x, e) = {}
      BY <1>1, <2>1, StepAtRemoved
    <3> QED BY <1>1, <3>1, <3>2 DEF Near
  <2>3. CASE x \in DOMAIN T
    <3>1. At(T, x) = {T[x]}
      BY <2>3, AtOf
    <3>2. StepAt({T[x]}, x, e) = IF x[1] = "rules" /\ T[x].id = e.row.id THEN {} ELSE {T[x]}
      BY <1>1, <2>1, StepAtRemoved
    <3>3. CASE x[1] = "rules" /\ T[x].id = e.row.id
      <4>1. StepAt({T[x]}, x, e) = {}
        BY <3>2, <3>3
      <4>2. Gone(e, {}, {T[x]})
        BY <3>3 DEF Gone
      <4>3. \E r \in At(T, x) : r.id = e.row.id
        BY <3>1, <3>3
      <4> QED BY <1>1, <3>1, <3>3, <4>1, <4>2, <4>3 DEF Near
    <3>4. CASE ~(x[1] = "rules" /\ T[x].id = e.row.id)
      <4>1. StepAt({T[x]}, x, e) = {T[x]}
        BY <3>2, <3>4
      <4>2. ~(x[1] = "rules" /\ \E r \in At(T, x) : r.id = e.row.id)
        BY <3>1, <3>4
      <4> QED BY <1>1, <3>1, <4>1, <4>2 DEF Near
    <3> QED BY <3>3, <3>4
  <2> QED BY <2>2, <2>3
<1>2. CASE e.type = "account.removed"
  <2>1. x # e.key => StepAt(At(T, x), x, e) = At(T, x)
    BY <1>2, StepAtOther
  <2> QED BY <1>2, <2>1 DEF Near
<1>3. CASE e.type \notin Deletes
  <2>0. e.type # "rule.removed" /\ e.type # "account.removed"
    BY <1>3 DEF Deletes
  <2>1. CASE x # e.key
    <3>1. StepAt(At(T, x), x, e) = At(T, x)
      BY <2>0, <2>1, StepAtOther
    <3> QED BY <2>0, <2>1, <3>1 DEF Near
  <2>2. CASE x = e.key /\ x \in DOMAIN T
    <3>1. At(T, x) = {T[x]}
      BY <2>2, AtOf
    <3>2. StepAt(At(T, x), x, e) = {Over(SetBy(e), T[x])}
      BY <1>3, <2>2, <3>1, StepAtOwn
    <3>3. Over(SetBy(e), Over(SetBy(e), T[x])) = Over(SetBy(e), T[x])
      BY OverTwice
    <3>4. e.key[1] = "rules" => Over(SetBy(e), T[x]).id = T[x].id
      <4>1. SUFFICES ASSUME e.key[1] = "rules" PROVE Over(SetBy(e), T[x]).id = T[x].id
        OBVIOUS
      <4>2. e.type = "rule.set" /\ "id" \in DOMAIN e.row
        BY <2>0, <4>1 DEF IsNext, IsEvent
      <4>3. e.row.id = T[x].id
        BY <2>2, <4>2 DEF IsNext
      <4>4. SetBy(e) = KnownRow(e)
        BY <4>2 DEF SetBy, Upserts
      <4> QED BY <4>2, <4>3, <4>4, RuleIds
    <3>5. Alike(e, {Over(SetBy(e), T[x])}, {T[x]})
      BY <3>3, <3>4 DEF Alike
    <3> QED BY <2>0, <2>2, <3>1, <3>2, <3>5 DEF Near
  <2>3. CASE x = e.key /\ x \notin DOMAIN T
    <3>1. At(T, x) = {}
      BY <2>3, AtOf
    <3>2. e.type \in Upserts
      BY <2>0, <2>3 DEF IsNext
    <3>3. StepAt(At(T, x), x, e) = {FullRow(e)}
      BY <1>3, <2>3, <3>1, <3>2, StepAtOwn
    <3>4. {FullRow(e)} \in SUBSET {FullRow(e)}
      OBVIOUS
    <3> QED BY <2>0, <2>3, <3>1, <3>3, <3>4 DEF Near
  <2> QED BY <2>1, <2>2, <2>3
<1> QED BY <1>1, <1>2, <1>3 DEF Deletes

LEMMA NearEnd ==
  ASSUME NEW e, NEW T, IsTable(T), IsNext(e, T), NEW x, NEW a, Near(e, T, x, a, At(T, x))
  PROVE  StepAt(a, x, e) = StepAt(At(T, x), x, e)
<1>1. CASE e.type = "rule.removed"
  <2>1. e.key[1] = "rules"
    BY <1>1 DEF IsNext, IsEvent
  <2>2. CASE x[1] = "rules" /\ \E r \in At(T, x) : r.id = e.row.id
    <3>1. x \in DOMAIN T /\ At(T, x) = {T[x]}
      BY <2>2, AtOf
    <3>2. T[x].id = e.row.id
      BY <2>2, <3>1
    <3>3. StepAt({T[x]}, x, e) = {} /\ StepAt({}, x, e) = {}
      BY <1>1, <2>1, <2>2, <3>2, StepAtRemoved
    <3>4. a = {} \/ \E r, s : a = {r} /\ {T[x]} = {s} /\ r.id = s.id
      BY <1>1, <2>2, <3>1 DEF Near, SameId, Gone
    <3>5. CASE a = {}
      BY <3>1, <3>3, <3>5
    <3>6. CASE \E r, s : a = {r} /\ {T[x]} = {s} /\ r.id = s.id
      <4>1. PICK r, s : a = {r} /\ {T[x]} = {s} /\ r.id = s.id
        BY <3>6
      <4>2. s = T[x]
        BY <4>1
      <4>3. StepAt({r}, x, e) = {}
        BY <1>1, <2>1, <2>2, <3>2, <4>1, <4>2, StepAtRemoved
      <4> QED BY <3>1, <3>3, <4>1, <4>3
    <3> QED BY <3>4, <3>5, <3>6
  <2>3. CASE ~(x[1] = "rules" /\ \E r \in At(T, x) : r.id = e.row.id)
    <3>1. a = At(T, x)
      BY <1>1, <2>3 DEF Near
    <3> QED BY <3>1
  <2> QED BY <2>2, <2>3
<1>2. CASE e.type = "account.removed"
  <2>1. CASE x # e.key
    BY <1>2, <2>1 DEF Near
  <2>2. CASE x = e.key
    <3>1. e.type \notin Upserts /\ e.type # "rule.removed"
      BY <1>2 DEF Upserts
    <3> QED BY <1>2, <2>2, <3>1 DEF StepAt
  <2> QED BY <2>1, <2>2
<1>3. CASE e.type \notin Deletes
  <2>0. e.type # "rule.removed" /\ e.type # "account.removed"
    BY <1>3 DEF Deletes
  <2>1. CASE x # e.key
    <3>1. a = At(T, x)
      BY <2>0, <2>1 DEF Near
    <3> QED BY <3>1
  <2>2. CASE x = e.key /\ x \in DOMAIN T
    <3>1. Alike(e, a, At(T, x))
      BY <2>0, <2>2 DEF Near
    <3>2. CASE a = At(T, x)
      BY <3>2
    <3>3. CASE \E r, s : a = {r} /\ At(T, x) = {s} /\ Over(SetBy(e), r) = Over(SetBy(e), s)
      <4>1. PICK r, s : a = {r} /\ At(T, x) = {s} /\ Over(SetBy(e), r) = Over(SetBy(e), s)
        BY <3>3
      <4>2. StepAt({r}, x, e) = {Over(SetBy(e), r)} /\ StepAt({s}, x, e) = {Over(SetBy(e), s)}
        BY <1>3, <2>2, StepAtOwn
      <4> QED BY <4>1, <4>2
    <3> QED BY <3>1, <3>2, <3>3 DEF Alike
  <2>3. CASE x = e.key /\ x \notin DOMAIN T
    <3>1. At(T, x) = {}
      BY <2>3, AtOf
    <3>2. e.type \in Upserts
      BY <2>0, <2>3 DEF IsNext
    <3>3. StepAt(At(T, x), x, e) = {FullRow(e)}
      BY <1>3, <2>3, <3>1, <3>2, StepAtOwn
    <3>4. a = {} \/ a = {FullRow(e)}
      BY <2>0, <2>3, <3>1 DEF Near
    <3>5. SetBy(e) = KnownRow(e)
      BY <3>2 DEF SetBy
    <3>6. StepAt({FullRow(e)}, x, e) = {FullRow(e)}
      BY <1>3, <2>3, <3>5, StepAtOwn, FullOverKnown
    <3>7. CASE a = {}
      BY <3>1, <3>7
    <3>8. CASE a = {FullRow(e)}
      BY <3>3, <3>6, <3>8
    <3> QED BY <3>4, <3>7, <3>8
  <2> QED BY <2>1, <2>2, <2>3
<1> QED BY <1>1, <1>2, <1>3 DEF Deletes
LEMMA StepSameId ==
  ASSUME NEW f, IsEvent(f), NEW x, x[1] = "rules", NEW a, NEW b, SameId(a, b)
  PROVE  SameId(StepAt(a, x, f), StepAt(b, x, f))
<1>1. CASE f.type = "rule.removed"
  <2>1. f.key[1] = "rules"
    BY <1>1 DEF IsEvent
  <2>2. CASE a = {} /\ b = {}
    <3>1. StepAt({}, x, f) = {}
      BY <1>1, <2>1, StepAtRemoved
    <3> QED BY <2>2, <3>1 DEF SameId
  <2>3. CASE \E r, s : a = {r} /\ b = {s} /\ r.id = s.id
    <3>1. PICK r, s : a = {r} /\ b = {s} /\ r.id = s.id
      BY <2>3
    <3>2. /\ StepAt({r}, x, f) = IF x[1] = "rules" /\ r.id = f.row.id THEN {} ELSE {r}
          /\ StepAt({s}, x, f) = IF x[1] = "rules" /\ s.id = f.row.id THEN {} ELSE {s}
      BY <1>1, <2>1, StepAtRemoved
    <3> QED BY <3>1, <3>2 DEF SameId
  <2> QED BY <2>2, <2>3 DEF SameId
<1>2. CASE f.type # "rule.removed" /\ x # f.key
  BY <1>2, StepAtOther
<1>3. CASE f.type # "rule.removed" /\ x = f.key
  <2>1. f.type = "rule.set" /\ "id" \in DOMAIN f.row
    BY <1>3 DEF IsEvent
  <2>2. f.type \in Upserts /\ f.type \notin Deletes /\ SetBy(f) = KnownRow(f)
    BY <2>1 DEF Upserts, Deletes, SetBy
  <2>3. CASE a = {} /\ b = {}
    <3>1. StepAt({}, x, f) = {FullRow(f)}
      BY <1>3, <2>2, StepAtOwn
    <3> QED BY <2>3, <3>1 DEF SameId
  <2>4. CASE \E r, s : a = {r} /\ b = {s} /\ r.id = s.id
    <3>1. PICK r, s : a = {r} /\ b = {s} /\ r.id = s.id
      BY <2>4
    <3>2. StepAt({r}, x, f) = {Over(KnownRow(f), r)} /\ StepAt({s}, x, f) = {Over(KnownRow(f), s)}
      BY <1>3, <2>2, StepAtOwn
    <3>3. Over(KnownRow(f), r).id = f.row.id /\ Over(KnownRow(f), s).id = f.row.id
      BY <2>1, RuleIds
    <3> QED BY <3>1, <3>2, <3>3 DEF SameId
  <2> QED BY <2>3, <2>4 DEF SameId
<1> QED BY <1>1, <1>2, <1>3

LEMMA StepAlike ==
  ASSUME NEW e, NEW x, x = e.key, NEW f, IsEvent(f), NEW a, NEW b, Alike(e, a, b)
  PROVE  Alike(e, StepAt(a, x, f), StepAt(b, x, f))
<1>1. CASE a = b
  BY <1>1 DEF Alike
<1>2. CASE a # b
  <2>1. PICK r, s : /\ a = {r} /\ b = {s} /\ Over(SetBy(e), r) = Over(SetBy(e), s)
                    /\ e.key[1] = "rules" => r.id = s.id
    BY <1>2 DEF Alike
  <2>2. CASE f.type = "rule.removed"
    <3>1. f.key[1] = "rules"
      BY <2>2 DEF IsEvent
    <3>r. StepAt({r}, x, f) = IF x[1] = "rules" /\ r.id = f.row.id THEN {} ELSE {r}
      BY ONLY <2>2, <3>1, StepAtRemoved
    <3>s. StepAt({s}, x, f) = IF x[1] = "rules" /\ s.id = f.row.id THEN {} ELSE {s}
      BY ONLY <2>2, <3>1, StepAtRemoved
    <3>3. CASE x[1] = "rules" /\ r.id = f.row.id
      <4>1. StepAt(a, x, f) = StepAt(b, x, f)
        BY <2>1, <3>r, <3>s, <3>3
      <4> QED BY <4>1 DEF Alike
    <3>4. CASE ~(x[1] = "rules" /\ r.id = f.row.id)
      <4>1. StepAt(a, x, f) = a /\ StepAt(b, x, f) = b
        BY <2>1, <3>r, <3>s, <3>4
      <4> QED BY <4>1
    <3> QED BY <3>3, <3>4
  <2>3. CASE f.type # "rule.removed" /\ x # f.key
    <3>1. StepAt(a, x, f) = a /\ StepAt(b, x, f) = b
      BY <2>3, StepAtOther
    <3> QED BY <3>1
  <2>4. CASE f.type = "account.removed" /\ x = f.key
    <3>1. f.type \notin Upserts /\ f.type # "rule.removed"
      BY <2>4 DEF Upserts
    <3>2. StepAt(a, x, f) = {} /\ StepAt(b, x, f) = {}
      BY <2>4, <3>1 DEF StepAt
    <3> QED BY <3>2 DEF Alike
  <2>5. CASE f.type \notin Deletes /\ x = f.key
    <3>1. StepAt({r}, x, f) = {Over(SetBy(f), r)} /\ StepAt({s}, x, f) = {Over(SetBy(f), s)}
      BY <2>5, StepAtOwn
    <3>2. Over(SetBy(e), Over(SetBy(f), r)) = Over(SetBy(e), Over(SetBy(f), s))
      BY <2>1, OverBoth
    <3>3. e.key[1] = "rules" => Over(SetBy(f), r).id = Over(SetBy(f), s).id
      <4>1. SUFFICES ASSUME e.key[1] = "rules"
                     PROVE  Over(SetBy(f), r).id = Over(SetBy(f), s).id
        OBVIOUS
      <4>2. f.type = "rule.set" /\ "id" \in DOMAIN f.row
        BY <2>5, <4>1 DEF IsEvent, Deletes
      <4>3. SetBy(f) = KnownRow(f)
        BY <4>2 DEF SetBy, Upserts
      <4> QED BY <4>2, <4>3, RuleIds
    <3> QED BY <2>1, <3>1, <3>2, <3>3 DEF Alike
  <2> QED BY <2>2, <2>3, <2>4, <2>5 DEF Deletes
<1> QED BY <1>1, <1>2

LEMMA NearStep ==
  ASSUME NEW e, NEW T, IsTable(T), IsNext(e, T), NEW f, Precedes(f, e, T),
         NEW x, NEW a, NEW b, Near(e, T, x, a, b)
  PROVE  Near(e, T, x, StepAt(a, x, f), StepAt(b, x, f))
<1>0. IsEvent(f)
  BY DEF Precedes
<1>1. CASE e.type = "rule.removed"
  <2>1. CASE x[1] = "rules" /\ \E r \in At(T, x) : r.id = e.row.id
    <3>n. ASSUME NEW c, NEW d PROVE Near(e, T, x, c, d) <=> SameId(c, d) \/ Gone(e, c, d)
      BY <1>1, <2>1 DEF Near
    <3>s. ASSUME NEW c, NEW d, SameId(c, d) PROVE Near(e, T, x, c, d)
      BY <3>n, <3>s
    <3>r. ASSUME NEW r, r.id = e.row.id PROVE Near(e, T, x, {}, {r})
      <4>1. Gone(e, {}, {r})
        BY <3>r DEF Gone
      <4> QED BY <3>n, <4>1
    <3>1. CASE SameId(a, b)
      <4>1. SameId(StepAt(a, x, f), StepAt(b, x, f))
        BY <1>0, <2>1, <3>1, StepSameId
      <4> QED BY <3>s, <4>1
    <3>2. CASE Gone(e, a, b)
      <4>0. a = {}
        BY <3>2 DEF Gone
      <4>1. PICK r : b = {r} /\ r.id = e.row.id
        BY <3>2 DEF Gone
      <4>2. CASE f.type = "rule.removed"
        <5>1. f.key[1] = "rules"
          BY <1>0, <4>2 DEF IsEvent
        <5>2. StepAt({}, x, f) = {}
          BY <4>2, <5>1, StepAtRemoved
        <5>3. StepAt({r}, x, f) = IF x[1] = "rules" /\ r.id = f.row.id THEN {} ELSE {r}
          BY <4>2, <5>1, StepAtRemoved
        <5>4. SameId({}, {})
          BY DEF SameId
        <5>5. CASE StepAt(b, x, f) = {}
          BY <3>s, <4>0, <5>2, <5>4, <5>5
        <5>6. CASE StepAt(b, x, f) = {r}
          BY <3>r, <4>0, <4>1, <5>2, <5>6
        <5> QED BY <4>1, <5>3, <5>5, <5>6
      <4>3. CASE f.type # "rule.removed" /\ x # f.key
        <5>1. StepAt(a, x, f) = a /\ StepAt(b, x, f) = b
          BY <4>3, StepAtOther
        <5> QED BY <5>1
      <4>4. CASE f.type # "rule.removed" /\ x = f.key
        <5>1. f.type = "rule.set" /\ "id" \in DOMAIN f.row
          BY <1>0, <2>1, <4>4 DEF IsEvent
        <5>2. f.type \in Upserts /\ f.type \notin Deletes /\ SetBy(f) = KnownRow(f)
          BY <5>1 DEF Upserts, Deletes, SetBy
        <5>3. StepAt({}, x, f) = {FullRow(f)} /\ StepAt({r}, x, f) = {Over(KnownRow(f), r)}
          BY <4>4, <5>2, StepAtOwn
        <5>4. FullRow(f).id = Over(KnownRow(f), r).id
          BY <5>1, RuleIds
        <5>5. SameId(StepAt(a, x, f), StepAt(b, x, f))
          BY <4>0, <4>1, <5>3, <5>4 DEF SameId
        <5> QED BY <3>s, <5>5
      <4> QED BY <4>2, <4>3, <4>4
    <3> QED BY <3>n, <3>1, <3>2
  <2>2. CASE ~(x[1] = "rules" /\ \E r \in At(T, x) : r.id = e.row.id)
    <3>1. a = b
      BY <1>1, <2>2 DEF Near
    <3> QED BY <1>1, <2>2, <3>1 DEF Near
  <2> QED BY <2>1, <2>2
<1>2. CASE e.type = "account.removed"
  BY <1>2 DEF Near
<1>3. CASE e.type \notin Deletes
  <2>0. e.type # "rule.removed" /\ e.type # "account.removed"
    BY <1>3 DEF Deletes
  <2>1. CASE x # e.key
    <3>1. a = b
      BY <2>0, <2>1 DEF Near
    <3> QED BY <2>0, <2>1, <3>1 DEF Near
  <2>2. CASE x = e.key /\ x \in DOMAIN T
    <3>1. Alike(e, a, b)
      BY <2>0, <2>2 DEF Near
    <3>2. Alike(e, StepAt(a, x, f), StepAt(b, x, f))
      BY <1>0, <2>2, <3>1, StepAlike
    <3> QED BY <2>0, <2>2, <3>2 DEF Near
  <2>3. CASE x = e.key /\ x \notin DOMAIN T /\ e.type # "rule.set"
    <3>1. e.type \in Upserts
      BY <2>0, <2>3 DEF IsNext
    <3>2. f.key # x
      BY <2>3, <3>1 DEF Precedes
    <3>3. x[1] # "rules"
      BY <2>0, <2>3 DEF IsNext, IsEvent
    <3>4. StepAt(a, x, f) = a /\ StepAt(b, x, f) = b
      <4>1. CASE f.type = "rule.removed"
        <5>1. f.key[1] = "rules"
          BY <1>0, <4>1 DEF IsEvent
        <5> QED BY <3>3, <4>1, <5>1, StepAtKept
      <4>2. CASE f.type # "rule.removed"
        BY <3>2, <4>2, StepAtOther
      <4> QED BY <4>1, <4>2
    <3> QED BY <3>4
  <2>4. CASE x = e.key /\ x \notin DOMAIN T /\ e.type = "rule.set"
    <3>0. x[1] = "rules"
      BY <2>4 DEF IsNext, IsEvent
    <3>n. \A c, d : Near(e, T, x, c, d) <=>
             \/ d = {} /\ c \in SUBSET {FullRow(e)}
             \/ \E r, s : c = {r} /\ d = {s} /\ r.id = s.id /\ r.id # e.row.id
      BY <2>0, <2>4 DEF Near
    <3>1. CASE f.type = "rule.removed"
      <4>1. f.key[1] = "rules"
        BY <1>0, <3>1 DEF IsEvent
      <4>2. StepAt({}, x, f) = {} /\ \A r : StepAt({r}, x, f) \in SUBSET {r}
        <5>1. StepAt({}, x, f) = {}
          BY <3>1, <4>1, StepAtRemoved
        <5>2. ASSUME NEW r PROVE StepAt({r}, x, f) \in SUBSET {r}
          <6>1. StepAt({r}, x, f) = IF x[1] = "rules" /\ r.id = f.row.id THEN {} ELSE {r}
            BY <3>1, <4>1, StepAtRemoved
          <6> QED BY <6>1
        <5> QED BY <5>1, <5>2
      <4>3. CASE b = {} /\ a \in SUBSET {FullRow(e)}
        <5>1. a = {} \/ a = {FullRow(e)}
          BY <4>3
        <5>2. StepAt(b, x, f) = {} /\ StepAt(a, x, f) \in SUBSET {FullRow(e)}
          BY <4>2, <4>3, <5>1
        <5> QED BY <3>n, <5>2
      <4>4. CASE \E r, s : a = {r} /\ b = {s} /\ r.id = s.id /\ r.id # e.row.id
        <5>1. PICK r, s : a = {r} /\ b = {s} /\ r.id = s.id /\ r.id # e.row.id
          BY <4>4
        <5>2. /\ StepAt({r}, x, f) = IF x[1] = "rules" /\ r.id = f.row.id THEN {} ELSE {r}
              /\ StepAt({s}, x, f) = IF x[1] = "rules" /\ s.id = f.row.id THEN {} ELSE {s}
          BY <3>1, <4>1, StepAtRemoved
        <5>3. \/ StepAt(a, x, f) = {} /\ StepAt(b, x, f) = {}
              \/ StepAt(a, x, f) = a /\ StepAt(b, x, f) = b
          BY <5>1, <5>2
        <5>4. {} \in SUBSET {FullRow(e)}
          OBVIOUS
        <5> QED BY <3>n, <5>3, <5>4
      <4> QED BY <3>n, <4>3, <4>4
    <3>2. CASE f.type # "rule.removed" /\ x # f.key
      <4>1. StepAt(a, x, f) = a /\ StepAt(b, x, f) = b
        BY <3>2, StepAtOther
      <4> QED BY <4>1
    <3>3. CASE f.type # "rule.removed" /\ x = f.key
      <4>1. f.type = "rule.set" /\ "id" \in DOMAIN f.row
        BY <1>0, <3>0, <3>3 DEF IsEvent
      <4>2. f.type \in Upserts /\ f.type \notin Deletes /\ SetBy(f) = KnownRow(f)
        BY <4>1 DEF Upserts, Deletes, SetBy
      <4>3. StepAt({}, x, f) = {FullRow(f)} /\ \A r : StepAt({r}, x, f) = {Over(KnownRow(f), r)}
        BY <3>3, <4>2, StepAtOwn
      <4>4. FullRow(f).id = f.row.id /\ \A r : Over(KnownRow(f), r).id = f.row.id
        BY <4>1, RuleIds
      <4>5. f.row.id # e.row.id
        <5>1. e.type \in Upserts
          BY <2>4 DEF Upserts
        <5> QED BY <2>4, <3>3, <5>1 DEF Precedes
      <4>6. (a = {} \/ \E r : a = {r}) /\ (b = {} \/ \E r : b = {r})
        <5>1. CASE b = {} /\ a \in SUBSET {FullRow(e)}
          <6>1. a = {} \/ a = {FullRow(e)}
            BY <5>1
          <6> QED BY <5>1, <6>1
        <5>2. CASE \E r, s : a = {r} /\ b = {s} /\ r.id = s.id /\ r.id # e.row.id
          <6>1. PICK r, s : a = {r} /\ b = {s} /\ r.id = s.id /\ r.id # e.row.id
            BY <5>2
          <6>2. (\E q : a = {q}) /\ (\E q : b = {q})
            BY <6>1
          <6> QED BY <6>2
        <5>3. \/ b = {} /\ a \in SUBSET {FullRow(e)}
              \/ \E r, s : a = {r} /\ b = {s} /\ r.id = s.id /\ r.id # e.row.id
          BY <3>n
        <5> QED BY <5>1, <5>2, <5>3
      <4>7. \E r : StepAt(a, x, f) = {r} /\ r.id = f.row.id
        <5>1. CASE a = {}
          BY <4>3, <4>4, <5>1
        <5>2. CASE \E r : a = {r}
          BY <4>3, <4>4, <5>2
        <5> QED BY <4>6, <5>1, <5>2
      <4>8. \E r : StepAt(b, x, f) = {r} /\ r.id = f.row.id
        <5>1. CASE b = {}
          BY <4>3, <4>4, <5>1
        <5>2. CASE \E r : b = {r}
          BY <4>3, <4>4, <5>2
        <5> QED BY <4>6, <5>1, <5>2
      <4>9. PICK r, s : /\ StepAt(a, x, f) = {r} /\ r.id = f.row.id
                        /\ StepAt(b, x, f) = {s} /\ s.id = f.row.id
        BY <4>7, <4>8
      <4> QED BY <3>n, <4>5, <4>9
    <3> QED BY <3>1, <3>2, <3>3
  <2> QED BY <2>1, <2>2, <2>3, <2>4
<1> QED BY <1>1, <1>2, <1>3 DEF Deletes
-----------------------------------------------------------------------------
(* Rows that stay, and rows that are out of the way.                       *)

Stands(T, X) == \A x \in DOMAIN T : x[1] \notin {"rules", "accounts"} => x \in DOMAIN X

LEMMA StandsFits ==
  ASSUME NEW T, NEW X, Stands(T, X), NEW f, IsEvent(f), HasParent(T, f)
  PROVE  HasParent(X, f)
<1> SUFFICES ASSUME f.type \in Upserts, f.key # Parent(f.key)
             PROVE  Parent(f.key) \in DOMAIN X
  BY DEF HasParent
<1>1. Parent(f.key) \in DOMAIN T
  BY DEF HasParent
<1>2. Parent(f.key)[1] \notin {"rules", "accounts"}
  BY DEF IsEvent
<1> QED BY <1>1, <1>2 DEF Stands

LEMMA StandsStep ==
  ASSUME NEW T, NEW X, Stands(T, X), IsTable(X), NEW f, IsEvent(f), HasParent(X, f)
  PROVE  Stands(T, applyEvent(X, f))
<1>1. f.key[1] # "refused"
  BY DEF IsEvent
<1>2. \A x \in DOMAIN X : x[1] # f.key[1] \/ f.type \notin Deletes => x \in DOMAIN applyEvent(X, f)
  BY <1>1, ApplyIsStepAt
<1>3. f.type \in Deletes => f.key[1] \in {"rules", "accounts"}
  BY DEF IsEvent, Deletes
<1> QED BY <1>2, <1>3 DEF Stands

\* An event more at the end of a log whose end, applied to the tables again, changes
\* nothing: the same is true of the tables it leaves.
LEMMA OnceMore ==
  ASSUME NEW T, IsTable(T), NEW L, NEW j \in Nat, NEW n \in Nat, j <= n, Leads(T, L, j, n, T),
         NEW e, e = L[n + 1], IsNext(e, T), \A i \in (j + 1)..n : Precedes(L[i], e, T)
  PROVE  Leads(applyEvent(T, e), L, j, n + 1, applyEvent(T, e))
<1> DEFINE T1 == applyEvent(T, e)
<1>0. IsEvent(e) /\ HasParent(T, e) /\ e.key[1] # "refused"
  BY DEF IsNext, IsEvent
<1>1. PICK R : R = [i \in j..n |-> R[i]] /\ Runs(R, L, j, n) /\ R[j] = T /\ R[n] = T
  BY DEF Leads
<1>2. IsTable(T1) /\ \A x : At(T1, x) = StepAt(At(T, x), x, e)
  BY <1>0, ApplyIsStepAt
<1>3. Stands(T, T1)
  BY <1>0, StandsStep DEF Stands
<1> HIDE DEF T1
<1> DEFINE Good(m) == \E X : /\ Leads(T1, L, j, m, X) /\ Stands(T, X)
                             /\ \A x : Near(e, T, x, At(X, x), At(R[m], x))
           Bad == {m \in j..n : ~Good(m)}
<1>4. Good(j)
  <2>1. Leads(T1, L, j, j, T1)
    BY <1>2, LeadsStart
  <2>2. ASSUME NEW x PROVE Near(e, T, x, At(T1, x), At(R[j], x))
    <3>1. Near(e, T, x, StepAt(At(T, x), x, e), At(T, x))
      BY NearStart
    <3> QED BY <1>1, <1>2, <3>1
  <2> QED BY <1>3, <2>1, <2>2
<1>5. ASSUME NEW m \in j..n, m # n, Good(m) PROVE Good(m + 1)
  <2> DEFINE f == L[m + 1]
  <2>0. m \in Nat /\ m + 1 \in (j + 1)..n /\ (m + 1) - 1 = m /\ m \in j..n /\ j <= m
    BY <1>5
  <2>1. PICK X : /\ Leads(T1, L, j, m, X) /\ Stands(T, X)
                 /\ \A x : Near(e, T, x, At(X, x), At(R[m], x))
    BY <1>5
  <2>2. Precedes(f, e, T) /\ IsEvent(f) /\ HasParent(T, f) /\ f.key[1] # "refused"
    BY <2>0 DEF Precedes, IsEvent
  <2>3. IsTable(X)
    BY <2>0, <2>1, LeadsTables
  <2> HIDE DEF f
  <2>4. HasParent(X, f)
    BY <2>1, <2>2, StandsFits
  <2>5. Leads(T1, L, j, m + 1, applyEvent(X, f))
    BY <2>0, <2>1, <2>2, <2>4, LeadsStep DEF f
  <2>6. Stands(T, applyEvent(X, f))
    BY <2>1, <2>2, <2>3, <2>4, StandsStep
  <2>7. IsTable(R[m]) /\ HasParent(R[m], f) /\ R[m + 1] = applyEvent(R[m], f)
    BY <1>1, <2>0 DEF Runs, f
  <2>8. ASSUME NEW x PROVE Near(e, T, x, At(applyEvent(X, f), x), At(R[m + 1], x))
    <3>1. At(applyEvent(X, f), x) = StepAt(At(X, x), x, f)
      BY <2>2, <2>3, <2>4, ApplyIsStepAt
    <3>2. At(R[m + 1], x) = StepAt(At(R[m], x), x, f)
      BY <2>2, <2>7, ApplyIsStepAt
    <3>3. Near(e, T, x, At(X, x), At(R[m], x))
      BY <2>1
    <3>4. Near(e, T, x, StepAt(At(X, x), x, f), StepAt(At(R[m], x), x, f))
      BY <2>2, <3>3, NearStep
    <3> QED BY <3>1, <3>2, <3>4
  <2> QED BY <2>5, <2>6, <2>8
<1>6. Bad = {}
  <2> SUFFICES ASSUME Bad # {} PROVE FALSE
    OBVIOUS
  <2> HIDE DEF Good
  <2>1. Bad \in SUBSET Nat
    OBVIOUS
  <2>2. PICK m \in Bad : \A k \in Bad : m <= k
    BY <2>1, LeastNumber
  <2>3. m # j
    BY <1>4
  <2>4. m - 1 \in j..n /\ m - 1 # n /\ m - 1 \notin Bad /\ (m - 1) + 1 = m
    BY <2>2, <2>3
  <2>5. Good(m - 1)
    BY <2>4
  <2>6. Good((m - 1) + 1)
    BY <1>5, <2>4, <2>5
  <2> QED BY <2>2, <2>4, <2>6
<1>7. PICK X : Leads(T1, L, j, n, X) /\ Stands(T, X) /\ \A x : Near(e, T, x, At(X, x), At(T, x))
  <2>1. n \in j..n
    OBVIOUS
  <2> HIDE DEF Good
  <2>2. Good(n)
    BY <1>6, <2>1
  <2> USE DEF Good
  <2> QED BY <1>1, <2>2
<1>8. IsTable(X)
  BY <1>7, LeadsTables
<1>9. HasParent(X, e)
  BY <1>0, <1>7, StandsFits
<1>10. Leads(T1, L, j, n + 1, applyEvent(X, e))
  BY <1>0, <1>7, <1>9, LeadsStep
<1>11. applyEvent(X, e) = T1
  <2>1. IsTable(applyEvent(X, e)) /\ \A x : At(applyEvent(X, e), x) = StepAt(At(X, x), x, e)
    BY <1>0, <1>8, <1>9, ApplyIsStepAt
  <2>2. ASSUME NEW x PROVE At(applyEvent(X, e), x) = At(T1, x)
    <3>1. Near(e, T, x, At(X, x), At(T, x))
      BY <1>7
    <3>2. StepAt(At(X, x), x, e) = StepAt(At(T, x), x, e)
      BY <3>1, NearEnd
    <3> QED BY <1>2, <2>1, <3>2
  <2> QED BY <1>2, <2>1, <2>2, SameAt
<1> QED BY <1>10, <1>11 DEF T1

\* The events of a log neither touch the rows G nor depend on them.
Spares(G, f) ==
  \A x \in G : x # f.key /\ x # Parent(f.key) /\ (f.type = "rule.removed" => x[1] # "rules")

\* Y is X but for the rows G, which it has from W.
Mixed(Y, X, W, G) ==
  IsTable(Y) /\ \A x : At(Y, x) = IF x \in G THEN At(W, x) ELSE At(X, x)

LEMMA Sparing ==
  ASSUME NEW G, NEW f, IsEvent(f), Spares(G, f), NEW x \in G, NEW a
  PROVE  StepAt(a, x, f) = a
<1>1. CASE f.type = "rule.removed"
  <2>1. f.key[1] = "rules" /\ x[1] # "rules"
    BY <1>1 DEF IsEvent, Spares
  <2> QED BY <1>1, <2>1, StepAtKept
<1>2. CASE f.type # "rule.removed"
  <2>1. x # f.key
    BY DEF Spares
  <2> QED BY <1>2, <2>1, StepAtOther
<1> QED BY <1>1, <1>2

LEMMA Beside ==
  ASSUME NEW X, NEW L, NEW j \in Nat, NEW n \in Nat, j <= n, NEW Z, Leads(X, L, j, n, Z),
         NEW G, NEW W, NEW X2, NEW Z2, Mixed(X2, X, W, G), Mixed(Z2, Z, W, G),
         \A i \in (j + 1)..n : IsEvent(L[i]) /\ Spares(G, L[i])
  PROVE  Leads(X2, L, j, n, Z2)
<1>1. PICK R : R = [i \in j..n |-> R[i]] /\ Runs(R, L, j, n) /\ R[j] = X /\ R[n] = Z
  BY DEF Leads
<1> DEFINE Good(m) == \E Y : Leads(X2, L, j, m, Y) /\ Mixed(Y, R[m], W, G)
           Bad == {m \in j..n : ~Good(m)}
<1>4. Good(j)
  <2>1. IsTable(X2)
    BY DEF Mixed
  <2>2. Leads(X2, L, j, j, X2)
    BY <2>1, LeadsStart
  <2> QED BY <1>1, <2>2
<1>5. ASSUME NEW m \in j..n, m # n, Good(m) PROVE Good(m + 1)
  <2> DEFINE f == L[m + 1]
  <2>0. m \in Nat /\ m + 1 \in (j + 1)..n /\ (m + 1) - 1 = m /\ m \in j..n /\ j <= m
    BY <1>5
  <2>1. PICK Y : Leads(X2, L, j, m, Y) /\ Mixed(Y, R[m], W, G)
    BY <1>5
  <2>2. IsEvent(f) /\ Spares(G, f) /\ f.key[1] # "refused"
    BY <2>0 DEF IsEvent
  <2>3. IsTable(R[m]) /\ HasParent(R[m], f) /\ R[m + 1] = applyEvent(R[m], f)
    BY <1>1, <2>0 DEF Runs
  <2> HIDE DEF f
  <2>4. IsTable(Y)
    BY <2>1 DEF Mixed
  <2>5. HasParent(Y, f)
    <3> SUFFICES ASSUME f.type \in Upserts, f.key # Parent(f.key)
                 PROVE  Parent(f.key) \in DOMAIN Y
      BY DEF HasParent
    <3>1. Parent(f.key) \in DOMAIN R[m]
      BY <2>3 DEF HasParent
    <3>2. Parent(f.key) \notin G
      BY <2>2 DEF Spares
    <3>3. At(Y, Parent(f.key)) = At(R[m], Parent(f.key))
      BY <2>1, <3>2 DEF Mixed
    <3> QED BY <3>1, <3>3, AtOf
  <2>6. Leads(X2, L, j, m + 1, applyEvent(Y, f))
    BY <2>0, <2>1, <2>2, <2>5, LeadsStep DEF f
  <2>7. IsTable(applyEvent(Y, f)) /\ \A x : At(applyEvent(Y, f), x) = StepAt(At(Y, x), x, f)
    BY <2>2, <2>4, <2>5, ApplyIsStepAt
  <2>8. \A x : At(R[m + 1], x) = StepAt(At(R[m], x), x, f)
    BY <2>2, <2>3, ApplyIsStepAt
  <2>9. ASSUME NEW x
        PROVE  At(applyEvent(Y, f), x) = IF x \in G THEN At(W, x) ELSE At(R[m + 1], x)
    <3>1. CASE x \in G
      <4>1. At(Y, x) = At(W, x)
        BY <2>1, <3>1 DEF Mixed
      <4>2. StepAt(At(W, x), x, f) = At(W, x)
        BY <2>2, <3>1, Sparing
      <4> QED BY <2>7, <3>1, <4>1, <4>2
    <3>2. CASE x \notin G
      <4>1. At(Y, x) = At(R[m], x)
        BY <2>1, <3>2 DEF Mixed
      <4> QED BY <2>7, <2>8, <3>2, <4>1
    <3> QED BY <3>1, <3>2
  <2>10. Mixed(applyEvent(Y, f), R[m + 1], W, G)
    BY <2>7, <2>9 DEF Mixed
  <2> QED BY <2>6, <2>10
<1>6. Bad = {}
  <2> SUFFICES ASSUME Bad # {} PROVE FALSE
    OBVIOUS
  <2> HIDE DEF Good
  <2>1. Bad \in SUBSET Nat
    OBVIOUS
  <2>2. PICK m \in Bad : \A k \in Bad : m <= k
    BY <2>1, LeastNumber
  <2>3. m # j
    BY <1>4
  <2>4. m - 1 \in j..n /\ m - 1 # n /\ m - 1 \notin Bad /\ (m - 1) + 1 = m
    BY <2>2, <2>3
  <2>5. Good(m - 1)
    BY <2>4
  <2>6. Good((m - 1) + 1)
    BY <1>5, <2>4, <2>5
  <2> QED BY <2>2, <2>4, <2>6
<1>7. PICK Y : Leads(X2, L, j, n, Y) /\ Mixed(Y, Z, W, G)
  <2>1. n \in j..n
    OBVIOUS
  <2> HIDE DEF Good
  <2>2. Good(n)
    BY <1>6, <2>1
  <2> USE DEF Good
  <2> QED BY <1>1, <2>2
<1>8. Y = Z2
  <2>1. IsTable(Y) /\ IsTable(Z2)
    BY <1>7 DEF Mixed
  <2>2. \A x : At(Y, x) = At(Z2, x)
    BY <1>7 DEF Mixed
  <2> QED BY <2>1, <2>2, SameAt
<1> QED BY <1>7, <1>8
-----------------------------------------------------------------------------
(* Tables without some of their rows.                                      *)

LEMMA WithoutAt ==
  ASSUME NEW X, IsTable(X), NEW G
  PROVE  IsTable(Without(X, G)) /\ \A x : At(Without(X, G), x) = IF x \in G THEN {} ELSE At(X, x)
<1>1. Without(X, G) = [k \in DOMAIN X \ G |-> X[k]]
  BY DEF Without
<1>2. IsTable(Without(X, G))
  BY <1>1 DEF IsTable
<1>3. ASSUME NEW x PROVE At(Without(X, G), x) = IF x \in G THEN {} ELSE At(X, x)
  <2>1. CASE x \in DOMAIN X \ G
    <3>1. x \in DOMAIN Without(X, G) /\ Without(X, G)[x] = X[x]
      BY <1>1, <2>1
    <3>2. At(Without(X, G), x) = {X[x]} /\ At(X, x) = {X[x]}
      BY <2>1, <3>1, AtOf
    <3> QED BY <2>1, <3>2
  <2>2. CASE x \notin DOMAIN X \ G
    <3>1. x \notin DOMAIN Without(X, G)
      BY <1>1, <2>2
    <3>2. At(Without(X, G), x) = {}
      BY <3>1, AtOf
    <3>3. x \notin G => At(X, x) = {}
      BY <2>2, AtOf
    <3> QED BY <3>2, <3>3
  <2> QED BY <2>1, <2>2
<1> QED BY <1>2, <1>3

LEMMA Parents ==
  ASSUME NEW key
  PROVE  Parent(key) = key \/ Parent(key) \in {TheProject, Task, Workflow}
BY DEF Parent

LEMMA OwnParents ==
  ASSUME NEW key, Parent(key) # key
  PROVE  Parent(key)[1] \notin {"rules", "accounts", "runs"}
<1>1. TheProject[1] = "projects" /\ Task[1] = "tasks" /\ Workflow[1] = "workflows"
  BY DEF TheProject, Task, Workflow
<1> QED BY <1>1, Parents

LEMMA NewKeys ==
  ASSUME NEW X, IsTable(X), NEW e, IsEvent(e), HasParent(X, e)
  PROVE  \A x \in DOMAIN applyEvent(X, e) : x \in DOMAIN X \/ x = e.key
<1>1. e.key[1] # "refused"
  BY DEF IsEvent
<1>2. ASSUME NEW x, x \notin DOMAIN X, x # e.key PROVE x \notin DOMAIN applyEvent(X, e)
  <2>1. At(X, x) = {}
    BY <1>2, AtOf
  <2>2. StepAt({}, x, e) = {}
    <3>1. CASE e.type = "rule.removed"
      <4>1. e.key[1] = "rules"
        BY <3>1 DEF IsEvent
      <4> QED BY <3>1, <4>1, StepAtRemoved
    <3>2. CASE e.type # "rule.removed"
      BY <1>2, <3>2, StepAtOther
    <3> QED BY <3>1, <3>2
  <2>3. At(applyEvent(X, e), x) = StepAt(At(X, x), x, e)
    BY <1>1, ApplyIsStepAt
  <2>4. At(applyEvent(X, e), x) = {}
    BY <2>1, <2>2, <2>3
  <2> QED BY <2>4, AtOf
<1> QED BY <1>2

LEMMA OwnKey ==
  ASSUME NEW X, IsTable(X), NEW e, IsEvent(e), HasParent(X, e), e.type \notin Deletes,
         e.type \in Upserts \/ e.key \in DOMAIN X
  PROVE  e.key \in DOMAIN applyEvent(X, e)
<1>1. e.key[1] # "refused"
  BY DEF IsEvent
<1>2. At(applyEvent(X, e), e.key) = StepAt(At(X, e.key), e.key, e)
  BY <1>1, ApplyIsStepAt
<1>3. CASE e.key \in DOMAIN X
  <2>1. At(X, e.key) = {X[e.key]}
    BY <1>3, AtOf
  <2>2. StepAt({X[e.key]}, e.key, e) = {Over(SetBy(e), X[e.key])}
    BY StepAtOwn
  <2> QED BY <1>2, <2>1, <2>2, AtOf
<1>4. CASE e.key \notin DOMAIN X
  <2>1. At(X, e.key) = {}
    BY <1>4, AtOf
  <2>2. StepAt({}, e.key, e) = {FullRow(e)}
    BY <1>4, StepAtOwn
  <2> QED BY <1>2, <2>1, <2>2, AtOf
<1> QED BY <1>3, <1>4

\* The rows of e, and no others, change.
LEMMA OtherRows ==
  ASSUME NEW X, IsTable(X), NEW e, IsEvent(e), HasParent(X, e), NEW x, x # e.key,
         e.key[1] = "rules" => x[1] # "rules"
  PROVE  At(applyEvent(X, e), x) = At(X, x)
<1>1. e.key[1] # "refused"
  BY DEF IsEvent
<1>2. StepAt(At(X, x), x, e) = At(X, x)
  <2>1. CASE e.type = "rule.removed"
    <3>1. e.key[1] = "rules" /\ x[1] # "rules"
      BY <2>1 DEF IsEvent
    <3> QED BY <2>1, <3>1, StepAtKept
  <2>2. CASE e.type # "rule.removed"
    BY <2>2, StepAtOther
  <2> QED BY <2>1, <2>2
<1> QED BY <1>1, <1>2, ApplyIsStepAt

-----------------------------------------------------------------------------
(* The logs P of the project and A of the account, and the tables T.       *)

IsLog(L) == \E S : L \in Seq(S)

LEMMA LogGrows ==
  ASSUME NEW L, IsLog(L), NEW e
  PROVE  /\ IsLog(L \o <<e>>) /\ Len(L) \in Nat
         /\ Len(L \o <<e>>) = Len(L) + 1
         /\ (L \o <<e>>)[Len(L) + 1] = e
         /\ \A i \in 1..Len(L) : (L \o <<e>>)[i] = L[i]
<1>1. PICK S : L \in Seq(S)
  BY DEF IsLog
<1>2. L \in Seq(S \cup {e}) /\ <<e>> \in Seq(S \cup {e})
  BY <1>1
<1>3. L \o <<e>> \in Seq(S \cup {e})
  BY <1>2
<1>4. Len(L \o <<e>>) = Len(L) + 1
  BY <1>2
<1>5. Len(L) \in Nat
  BY <1>1
<1>6. (L \o <<e>>)[Len(L) + 1] = e
  BY <1>2, <1>5
<1>7. \A i \in 1..Len(L) : (L \o <<e>>)[i] = L[i]
  BY <1>2, <1>5
<1> QED BY <1>3, <1>4, <1>5, <1>6, <1>7 DEF IsLog

\* The number of an event brings at most one new rule.
LoggedOfProject(f, n, T) ==
  /\ IsEvent(f) /\ f.key[1] # "accounts" /\ HasParent(T, f)
  /\ f.key[1] # "rules" => f.key \in DOMAIN T
  /\ f.key[1] = "rules" => f.row.id \in Nat /\ f.row.id <= n

LoggedOfAccount(f) == IsEvent(f) /\ f.key = TheAccount

KeysAreKnown(T) ==
  \A x \in DOMAIN T :
    /\ x # TheAccount => x[2] = Project /\ x[1] # "accounts"
    /\ x[1] = "runs" => x = DirectRun

RulesAreNumbered(T, n) ==
  \A x \in DOMAIN T : x[1] = "rules" => T[x].id \in Nat /\ T[x].id <= n

OfAccount(T) == Without(T, DOMAIN T \ {TheAccount})
Logs(T)      == Without(T, {DirectRun})

Truth(P, A, T) ==
  /\ IsTable(T) /\ IsLog(P) /\ IsLog(A)
  /\ KeysAreKnown(T) /\ RulesAreNumbered(T, Len(P))
  /\ \A i \in 1..Len(P) : LoggedOfProject(P[i], Len(P), T)
  /\ \A i \in 1..Len(A) : LoggedOfAccount(A[i])
  /\ Leads(OfAccount(T), P, 0, Len(P), Logs(T))
  /\ \A j \in 0..Len(P) : Leads(T, P, j, Len(P), T)
  /\ \A j \in 0..Len(A) : Leads(T, A, j, Len(A), T)

LEMMA AccountAt ==
  ASSUME NEW T, IsTable(T)
  PROVE  /\ IsTable(OfAccount(T)) /\ IsTable(Logs(T))
         /\ \A x : At(OfAccount(T), x) = IF x = TheAccount THEN At(T, x) ELSE {}
         /\ \A x : At(Logs(T), x) = IF x = DirectRun THEN {} ELSE At(T, x)
<1>1. IsTable(OfAccount(T)) /\ IsTable(Logs(T))
  BY WithoutAt DEF OfAccount, Logs
<1>2. ASSUME NEW x PROVE At(OfAccount(T), x) = IF x = TheAccount THEN At(T, x) ELSE {}
  <2>1. At(OfAccount(T), x) = IF x \in DOMAIN T \ {TheAccount} THEN {} ELSE At(T, x)
    BY WithoutAt DEF OfAccount
  <2>2. x \notin DOMAIN T => At(T, x) = {}
    BY AtOf
  <2> QED BY <2>1, <2>2
<1>3. ASSUME NEW x PROVE At(Logs(T), x) = IF x = DirectRun THEN {} ELSE At(T, x)
  <2>1. At(Logs(T), x) = IF x \in {DirectRun} THEN {} ELSE At(T, x)
    BY WithoutAt DEF Logs
  <2> QED BY <2>1
<1> QED BY <1>1, <1>2, <1>3

LEMMA KeysDiffer ==
  /\ TheAccount[1] = "accounts" /\ Parent(TheAccount) = TheAccount
  /\ DirectRun[1] = "runs" /\ DirectRun # TheAccount /\ DirectRun[2] = Project
BY DEF TheAccount, DirectRun, Parent

\* The events of the project have to do neither with the account nor with direct runs, and
\* those of the account with nothing else.
LEMMA ProjectSpares ==
  ASSUME NEW f, IsEvent(f), f.key[1] # "accounts"
  PROVE  Spares({TheAccount}, f) /\ Spares({DirectRun}, f)
<1>1. f.key # TheAccount /\ f.key # DirectRun
  BY KeysDiffer DEF IsEvent
<1>2. Parent(f.key) # TheAccount /\ Parent(f.key) # DirectRun
  BY <1>1, OwnParents, KeysDiffer
<1> QED BY <1>1, <1>2, KeysDiffer DEF Spares

LEMMA AccountSpares ==
  ASSUME NEW f, LoggedOfAccount(f), NEW G, TheAccount \notin G
  PROVE  Spares(G, f)
<1>1. f.key = TheAccount /\ Parent(f.key) = TheAccount /\ f.type # "rule.removed"
  BY KeysDiffer DEF LoggedOfAccount, IsEvent
<1> QED BY <1>1 DEF Spares
\* What the project may log next.
NextOfProject(e, n, T) ==
  /\ IsNext(e, T) /\ e.key[1] # "accounts" /\ e.key[2] = Project
  /\ e.key[1] = "rules" =>
       /\ e.row.id \in Nat /\ e.row.id <= n + 1
       /\ e.type = "rule.set" /\ e.key \notin DOMAIN T => e.row.id = n + 1

NextOfAccount(e, A, T) ==
  IsNext(e, T) /\ LoggedOfAccount(e) /\ (e.type \in Upserts => A = <<>>)

LEMMA LogOfProjectGrows ==
  ASSUME NEW T, IsTable(T), NEW n \in Nat, NEW e, NextOfProject(e, n, T), KeysAreKnown(T),
         RulesAreNumbered(T, n)
  PROVE  /\ KeysAreKnown(applyEvent(T, e)) /\ RulesAreNumbered(applyEvent(T, e), n + 1)
         /\ LoggedOfProject(e, n + 1, applyEvent(T, e))
<1> DEFINE Z == applyEvent(T, e)
<1>0. /\ IsEvent(e) /\ HasParent(T, e) /\ IsNext(e, T)
      /\ e.key[1] \notin {"refused", "runs", "accounts"}
      /\ e.key[2] = Project
  BY DEF NextOfProject, IsNext, IsEvent
<1>1. IsTable(Z) /\ \A x : At(Z, x) = StepAt(At(T, x), x, e)
  BY <1>0, ApplyIsStepAt
<1>2. \A x \in DOMAIN Z : x \in DOMAIN T \/ x = e.key
  BY <1>0, NewKeys
<1>3. Stands(T, Z)
  BY <1>0, StandsStep DEF Stands
<1>4. HasParent(Z, e)
  BY <1>0, <1>3, StandsFits
<1>5. e.key[1] # "rules" => e.key \in DOMAIN Z
  <2> SUFFICES ASSUME e.key[1] # "rules" PROVE e.key \in DOMAIN Z
    OBVIOUS
  <2>1. e.type \notin Deletes
    BY <1>0 DEF IsEvent, Deletes
  <2>2. e.type \in Upserts \/ e.key \in DOMAIN T
    BY <1>0, <2>1 DEF IsNext, Deletes
  <2> QED BY <1>0, <2>1, <2>2, OwnKey
<1>6. ASSUME NEW x \in DOMAIN Z, x[1] = "rules"
      PROVE  Z[x].id \in Nat /\ Z[x].id <= n + 1
  <2>1. At(Z, x) = {Z[x]}
    BY AtOf
  <2>2. x \in DOMAIN T => T[x].id \in Nat /\ T[x].id <= n + 1
    BY <1>6 DEF RulesAreNumbered
  <2>3. CASE x \in DOMAIN T /\ (x # e.key \/ e.type # "rule.set")
    <3>1. At(T, x) = {T[x]}
      BY <2>3, AtOf
    <3>2. StepAt({T[x]}, x, e) = {} \/ StepAt({T[x]}, x, e) = {T[x]}
      <4>1. CASE e.type = "rule.removed"
        <5>1. e.key[1] = "rules"
          BY <1>0, <4>1 DEF IsEvent
        <5>2. StepAt({T[x]}, x, e) = IF x[1] = "rules" /\ T[x].id = e.row.id THEN {} ELSE {T[x]}
          BY <4>1, <5>1, StepAtRemoved
        <5> QED BY <5>2
      <4>2. CASE e.type # "rule.removed"
        <5>1. x # e.key
          BY <1>0, <1>6, <2>3, <4>2 DEF IsEvent
        <5> QED BY <4>2, <5>1, StepAtOther
      <4> QED BY <4>1, <4>2
    <3>3. {Z[x]} = StepAt({T[x]}, x, e)
      BY <1>1, <2>1, <3>1
    <3>4. Z[x] = T[x]
      BY <3>2, <3>3
    <3> QED BY <2>2, <2>3, <3>4
  <2>4. CASE x = e.key /\ e.type = "rule.set"
    <3>1. "id" \in DOMAIN e.row
      BY <1>0, <2>4 DEF IsEvent
    <3>2. e.type \in Upserts /\ e.type \notin Deletes /\ SetBy(e) = KnownRow(e)
      BY <2>4 DEF Upserts, Deletes, SetBy
    <3>3. Z[x].id = e.row.id
      <4>1. CASE x \in DOMAIN T
        <5>1. At(T, x) = {T[x]}
          BY <4>1, AtOf
        <5>2. StepAt({T[x]}, x, e) = {Over(KnownRow(e), T[x])}
          BY <2>4, <3>2, StepAtOwn
        <5>3. Z[x] = Over(KnownRow(e), T[x])
          BY <1>1, <2>1, <5>1, <5>2
        <5> QED BY <2>4, <3>1, <5>3, RuleIds
      <4>2. CASE x \notin DOMAIN T
        <5>1. At(T, x) = {}
          BY <4>2, AtOf
        <5>2. StepAt({}, x, e) = {FullRow(e)}
          BY <2>4, <3>2, StepAtOwn
        <5>3. Z[x] = FullRow(e)
          BY <1>1, <2>1, <5>1, <5>2
        <5> QED BY <2>4, <3>1, <5>3, RuleIds
      <4> QED BY <4>1, <4>2
    <3> QED BY <1>6, <2>4, <3>3 DEF NextOfProject
  <2>5. CASE x \notin DOMAIN T /\ e.type # "rule.set"
    <3>1. x = e.key
      BY <1>2, <2>5
    <3>2. e.type = "rule.removed" /\ e.key[1] = "rules"
      BY <1>0, <1>6, <2>5, <3>1 DEF IsEvent
    <3>3. At(T, x) = {}
      BY <2>5, AtOf
    <3>4. StepAt({}, x, e) = {}
      BY <3>2, StepAtRemoved
    <3> QED BY <1>1, <2>1, <3>3, <3>4
  <2> QED BY <1>2, <2>3, <2>4, <2>5
<1>7. KeysAreKnown(Z)
  BY <1>0, <1>2 DEF KeysAreKnown
<1>8. LoggedOfProject(e, n + 1, Z)
  BY <1>0, <1>4, <1>5 DEF LoggedOfProject, NextOfProject
<1>9. RulesAreNumbered(Z, n + 1)
  BY <1>6 DEF RulesAreNumbered
<1> QED BY <1>7, <1>8, <1>9

LEMMA StillLogged ==
  ASSUME NEW T, NEW Z, Stands(T, Z), NEW n \in Nat, NEW f, LoggedOfProject(f, n, T)
  PROVE  LoggedOfProject(f, n, Z) /\ LoggedOfProject(f, n + 1, Z)
<1>1. IsEvent(f) /\ f.key[1] # "accounts" /\ HasParent(T, f)
  BY DEF LoggedOfProject
<1>2. HasParent(Z, f)
  BY <1>1, StandsFits
<1>3. f.key[1] # "rules" => f.key \in DOMAIN Z
  BY <1>1 DEF LoggedOfProject, Stands
<1>4. f.key[1] = "rules" => f.row.id \in Nat /\ f.row.id <= n /\ f.row.id <= n + 1
  BY DEF LoggedOfProject
<1> QED BY <1>1, <1>2, <1>3, <1>4 DEF LoggedOfProject

LEMMA AccountIsAside ==
  ASSUME NEW T, IsTable(T), NEW Z, IsTable(Z), \A x : x # TheAccount => At(Z, x) = At(T, x)
  PROVE  /\ Mixed(Z, T, Z, {TheAccount})
         /\ Mixed(OfAccount(Z), OfAccount(T), Z, {TheAccount})
         /\ Mixed(Logs(Z), Logs(T), Z, {TheAccount})
<1>1. Mixed(Z, T, Z, {TheAccount})
  BY DEF Mixed
<1>2. Mixed(OfAccount(Z), OfAccount(T), Z, {TheAccount})
  BY AccountAt DEF Mixed
<1>3. Mixed(Logs(Z), Logs(T), Z, {TheAccount})
  BY AccountAt, KeysDiffer DEF Mixed
<1> QED BY <1>1, <1>2, <1>3

LEMMA OthersAreAside ==
  ASSUME NEW T, IsTable(T), NEW Z, IsTable(Z), At(Z, TheAccount) = At(T, TheAccount)
  PROVE  Mixed(Z, T, Z, (DOMAIN T \cup DOMAIN Z) \ {TheAccount})
<1>1. ASSUME NEW x, x \notin (DOMAIN T \cup DOMAIN Z) \ {TheAccount} PROVE At(Z, x) = At(T, x)
  <2>1. CASE x = TheAccount
    BY <2>1
  <2>2. CASE x # TheAccount
    <3>1. x \notin DOMAIN T /\ x \notin DOMAIN Z
      BY <1>1, <2>2
    <3> QED BY <3>1, AtOf
  <2> QED BY <2>1, <2>2
<1> QED BY <1>1 DEF Mixed

LEMMA ProjectLogs ==
  ASSUME NEW P, NEW A, NEW T, Truth(P, A, T), NEW e, NextOfProject(e, Len(P), T)
  PROVE  Truth(P \o <<e>>, A, applyEvent(T, e))
<1> DEFINE n == Len(P)
           Q == P \o <<e>>
           Z == applyEvent(T, e)
<1>0. /\ IsEvent(e) /\ HasParent(T, e) /\ IsNext(e, T)
      /\ e.key[1] \notin {"refused", "runs", "accounts"}
      /\ e.key[2] = Project
  BY DEF NextOfProject, IsNext, IsEvent
<1>1. IsTable(T) /\ IsLog(P) /\ IsLog(A) /\ KeysAreKnown(T) /\ RulesAreNumbered(T, n)
  BY DEF Truth
<1>2. /\ IsLog(Q) /\ n \in Nat /\ Len(Q) = n + 1 /\ Q[n + 1] = e
      /\ \A i \in 1..n : Q[i] = P[i]
  BY <1>1, LogGrows
<1>3. IsTable(Z) /\ Stands(T, Z)
  BY <1>0, <1>1, ApplyIsStepAt, StandsStep DEF Stands
<1>4. KeysAreKnown(Z) /\ RulesAreNumbered(Z, n + 1) /\ LoggedOfProject(e, n + 1, Z)
  BY <1>1, <1>2, LogOfProjectGrows
<1> HIDE DEF Q
<1>5. \A i \in 1..(n + 1) : LoggedOfProject(Q[i], n + 1, Z)
  <2> SUFFICES ASSUME NEW i \in 1..(n + 1) PROVE LoggedOfProject(Q[i], n + 1, Z)
    OBVIOUS
  <2>1. CASE i = n + 1
    BY <1>2, <1>4, <2>1
  <2>2. CASE i \in 1..n
    <3>1. LoggedOfProject(P[i], n, T)
      BY <2>2 DEF Truth
    <3>2. LoggedOfProject(P[i], n + 1, Z)
      BY <1>2, <1>3, <3>1, StillLogged
    <3> QED BY <1>2, <2>2, <3>2
  <2> QED BY <1>2, <2>1, <2>2
<1>6. \A i \in 1..Len(A) : LoggedOfAccount(A[i])
  BY DEF Truth
<1>7. At(Z, TheAccount) = At(T, TheAccount) /\ At(Z, DirectRun) = At(T, DirectRun)
  <2>1. TheAccount # e.key /\ DirectRun # e.key /\ TheAccount[1] # "rules" /\ DirectRun[1] # "rules"
    BY <1>0, KeysDiffer
  <2> QED BY <1>0, <1>1, <2>1, OtherRows
<1>8. OfAccount(Z) = OfAccount(T)
  <2>1. IsTable(OfAccount(Z)) /\ IsTable(OfAccount(T))
    BY <1>1, <1>3, AccountAt
  <2>2. \A x : At(OfAccount(Z), x) = At(OfAccount(T), x)
    BY <1>1, <1>3, <1>7, AccountAt
  <2> QED BY <2>1, <2>2, SameAt
<1>9. HasParent(Logs(T), e)
  <2> SUFFICES ASSUME e.type \in Upserts, e.key # Parent(e.key)
               PROVE  Parent(e.key) \in DOMAIN Logs(T)
    BY DEF HasParent
  <2>1. Parent(e.key) \in DOMAIN T
    BY <1>0 DEF HasParent
  <2>2. Parent(e.key) # DirectRun
    BY OwnParents, KeysDiffer
  <2>3. At(Logs(T), Parent(e.key)) = At(T, Parent(e.key))
    BY <1>1, <2>2, AccountAt
  <2> QED BY <2>1, <2>3, AtOf
<1>10. applyEvent(Logs(T), e) = Logs(Z)
  <2>1. IsTable(Logs(T)) /\ IsTable(Logs(Z))
    BY <1>1, <1>3, AccountAt
  <2>2. IsTable(applyEvent(Logs(T), e))
        /\ \A x : At(applyEvent(Logs(T), e), x) = StepAt(At(Logs(T), x), x, e)
    BY <1>0, <1>9, <2>1, ApplyIsStepAt
  <2>3. \A x : At(Z, x) = StepAt(At(T, x), x, e)
    BY <1>0, <1>1, ApplyIsStepAt
  <2>4. ASSUME NEW x PROVE At(applyEvent(Logs(T), e), x) = At(Logs(Z), x)
    <3>1. CASE x = DirectRun
      <4>1. x \in {DirectRun}
        BY <3>1
      <4>2. x # e.key /\ (e.key[1] = "rules" => x[1] # "rules")
        BY <1>0, <3>1, KeysDiffer
      <4>3. At(applyEvent(Logs(T), e), x) = At(Logs(T), x)
        BY <1>0, <1>9, <2>1, <4>2, OtherRows
      <4> QED BY <1>1, <1>3, <3>1, <4>3, AccountAt
    <3>2. CASE x # DirectRun
      <4>1. At(Logs(T), x) = At(T, x) /\ At(Logs(Z), x) = At(Z, x)
        BY <1>1, <1>3, <3>2, AccountAt
      <4> QED BY <2>2, <2>3, <4>1
    <3> QED BY <3>1, <3>2
  <2> HIDE DEF Z
  <2> QED BY <2>1, <2>2, <2>4, SameAt
<1>11. Leads(OfAccount(Z), Q, 0, n + 1, Logs(Z))
  <2>1. Leads(OfAccount(T), P, 0, n, Logs(T))
    BY DEF Truth
  <2>2. \A i \in (0 + 1)..n : Q[i] = P[i]
    BY <1>2
  <2>3. Leads(OfAccount(T), Q, 0, n, Logs(T))
    BY <1>2, <2>1, <2>2, LeadsSame
  <2>4. Leads(OfAccount(T), Q, 0, n + 1, applyEvent(Logs(T), Q[n + 1]))
    BY <1>0, <1>2, <1>9, <2>3, LeadsStep
  <2> QED BY <1>2, <1>8, <1>10, <2>4
<1>12. ASSUME NEW j \in 0..(n + 1) PROVE Leads(Z, Q, j, n + 1, Z)
  <2>1. CASE j = n + 1
    BY <1>2, <1>3, <2>1, LeadsStart
  <2>2. CASE j \in 0..n
    <3>1. j \in Nat /\ j <= n
      BY <1>2, <2>2
    <3>2. Leads(T, P, j, n, T)
      BY <2>2 DEF Truth
    <3>3. \A i \in (j + 1)..n : Q[i] = P[i] /\ i \in 1..n
      BY <1>2, <3>1
    <3>4. Leads(T, Q, j, n, T)
      BY <1>2, <3>1, <3>2, <3>3, LeadsSame
    <3>5. ASSUME NEW i \in (j + 1)..n PROVE Precedes(Q[i], e, T)
      <4> DEFINE f == P[i]
      <4>1. Q[i] = f /\ LoggedOfProject(f, n, T)
        BY <3>3 DEF Truth
      <4> HIDE DEF f
      <4>2. IsEvent(f) /\ HasParent(T, f)
        BY <4>1 DEF LoggedOfProject
      <4>3. ASSUME f.key = e.key, e.key \notin DOMAIN T, e.type \in Upserts
            PROVE  e.type = "rule.set" /\ e.row.id # f.row.id
        <5>1. f.key[1] = "rules"
          BY <4>1, <4>3 DEF LoggedOfProject
        <5>2. e.type = "rule.set"
          BY <1>0, <4>3, <5>1 DEF IsEvent, Upserts
        <5>3. e.row.id = n + 1 /\ f.row.id <= n /\ f.row.id \in Nat
          BY <4>1, <4>3, <5>1, <5>2 DEF LoggedOfProject, NextOfProject
        <5> QED BY <1>2, <5>2, <5>3
      <4> QED BY <4>1, <4>2, <4>3 DEF Precedes
    <3> HIDE DEF n, Z
    <3>6. Leads(applyEvent(T, e), Q, j, n + 1, applyEvent(T, e))
      BY <1>0, <1>1, <1>2, <3>1, <3>4, <3>5, OnceMore
    <3> QED BY <3>6 DEF Z
  <2> QED BY <1>2, <2>1, <2>2
<1>13. ASSUME NEW j \in 0..Len(A) PROVE Leads(Z, A, j, Len(A), Z)
  <2> DEFINE G == (DOMAIN T \cup DOMAIN Z) \ {TheAccount}
  <2>1. Leads(T, A, j, Len(A), T)
    BY DEF Truth
  <2>2. Len(A) \in Nat /\ j \in Nat /\ j <= Len(A)
    BY <1>1, LogGrows
  <2>3. Mixed(Z, T, Z, G)
    BY <1>1, <1>3, <1>7, OthersAreAside
  <2>4. TheAccount \notin G
    OBVIOUS
  <2> HIDE DEF G
  <2>5. ASSUME NEW i \in (j + 1)..Len(A) PROVE IsEvent(A[i]) /\ Spares(G, A[i])
    <3>1. i \in 1..Len(A)
      BY <2>2
    <3>2. LoggedOfAccount(A[i])
      BY <1>6, <3>1
    <3>3. IsEvent(A[i])
      BY <3>2 DEF LoggedOfAccount
    <3> QED BY <2>4, <3>2, <3>3, AccountSpares
  <2> HIDE DEF Z
  <2> QED BY <2>1, <2>2, <2>3, <2>5, Beside
<1> HIDE DEF n, Z
<1>14. /\ RulesAreNumbered(Z, Len(Q)) /\ \A i \in 1..Len(Q) : LoggedOfProject(Q[i], Len(Q), Z)
       /\ Leads(OfAccount(Z), Q, 0, Len(Q), Logs(Z))
       /\ \A j \in 0..Len(Q) : Leads(Z, Q, j, Len(Q), Z)
  BY <1>2, <1>4, <1>5, <1>11, <1>12
<1>15. Truth(Q, A, Z)
  BY <1>1, <1>2, <1>3, <1>4, <1>6, <1>13, <1>14 DEF Truth
<1> QED BY <1>15 DEF Q, Z
LEMMA BesideLog ==
  ASSUME NEW L, NEW n \in Nat, NEW j \in 0..n, NEW X, NEW Z, Leads(X, L, j, n, Z),
         NEW G, NEW W, NEW X2, NEW Z2, Mixed(X2, X, W, G), Mixed(Z2, Z, W, G),
         \A i \in 1..n : IsEvent(L[i]) /\ Spares(G, L[i])
  PROVE  Leads(X2, L, j, n, Z2)
<1>1. j \in Nat /\ j <= n
  OBVIOUS
<1>2. ASSUME NEW i \in (j + 1)..n PROVE IsEvent(L[i]) /\ Spares(G, L[i])
  <2>1. i \in 1..n
    OBVIOUS
  <2> QED BY <2>1
<1> QED BY <1>1, <1>2, Beside

LEMMA AccountLogs ==
  ASSUME NEW P, NEW A, NEW T, Truth(P, A, T), NEW e, NextOfAccount(e, A, T)
  PROVE  Truth(P, A \o <<e>>, applyEvent(T, e))
<1> DEFINE n == Len(A)
           Q == A \o <<e>>
           Z == applyEvent(T, e)
<1>0. IsEvent(e) /\ HasParent(T, e) /\ IsNext(e, T) /\ e.key = TheAccount /\ e.key[1] = "accounts"
      /\ e.key[1] # "refused"
  BY KeysDiffer DEF NextOfAccount, LoggedOfAccount, IsNext, IsEvent
<1>1. IsTable(T) /\ IsLog(P) /\ IsLog(A) /\ KeysAreKnown(T) /\ RulesAreNumbered(T, Len(P))
  BY DEF Truth
<1>2. /\ IsLog(Q) /\ n \in Nat /\ Len(Q) = n + 1 /\ Q[n + 1] = e
      /\ \A i \in 1..n : Q[i] = A[i]
  BY <1>1, LogGrows
<1>p. Len(P) \in Nat
  BY <1>1, LogGrows
<1>3. IsTable(Z) /\ Stands(T, Z)
  BY <1>0, <1>1, ApplyIsStepAt, StandsStep DEF Stands
<1>4. \A x : x # TheAccount => At(Z, x) = At(T, x)
  BY <1>0, <1>1, OtherRows
<1>5. KeysAreKnown(Z)
  <2>1. \A x \in DOMAIN Z : x \in DOMAIN T \/ x = TheAccount
    BY <1>0, <1>1, NewKeys
  <2> QED BY <1>1, <2>1, KeysDiffer DEF KeysAreKnown
<1>6. RulesAreNumbered(Z, Len(P))
  <2> SUFFICES ASSUME NEW x \in DOMAIN Z, x[1] = "rules"
               PROVE  Z[x].id \in Nat /\ Z[x].id <= Len(P)
    BY DEF RulesAreNumbered
  <2>1. x # TheAccount
    BY KeysDiffer
  <2>2. At(Z, x) = {Z[x]} /\ At(Z, x) = At(T, x)
    BY <1>4, <2>1, AtOf
  <2>3. x \in DOMAIN T /\ At(T, x) = {T[x]}
    BY <2>2, AtOf
  <2>4. Z[x] = T[x]
    BY <2>2, <2>3
  <2> QED BY <1>1, <2>3, <2>4 DEF RulesAreNumbered
<1> HIDE DEF Q
<1>7. \A i \in 1..(n + 1) : LoggedOfAccount(Q[i])
  <2> SUFFICES ASSUME NEW i \in 1..(n + 1) PROVE LoggedOfAccount(Q[i])
    OBVIOUS
  <2>1. CASE i = n + 1
    BY <1>2, <2>1 DEF NextOfAccount
  <2>2. CASE i \in 1..n
    <3>1. LoggedOfAccount(A[i])
      BY <2>2 DEF Truth
    <3> QED BY <1>2, <2>2, <3>1
  <2> QED BY <1>2, <2>1, <2>2
<1>8. \A i \in 1..Len(P) : LoggedOfProject(P[i], Len(P), T) /\ LoggedOfProject(P[i], Len(P), Z)
  <2> TAKE i \in 1..Len(P)
  <2>1. LoggedOfProject(P[i], Len(P), T)
    BY DEF Truth
  <2> QED BY <1>3, <1>p, <2>1, StillLogged
<1>9. \A i \in 1..Len(P) : IsEvent(P[i]) /\ Spares({TheAccount}, P[i])
  <2> TAKE i \in 1..Len(P)
  <2>1. IsEvent(P[i]) /\ P[i].key[1] # "accounts"
    BY <1>8 DEF LoggedOfProject
  <2> QED BY <2>1, ProjectSpares
<1>10. /\ Mixed(Z, T, Z, {TheAccount})
       /\ Mixed(OfAccount(Z), OfAccount(T), Z, {TheAccount})
       /\ Mixed(Logs(Z), Logs(T), Z, {TheAccount})
  BY <1>1, <1>3, <1>4, AccountIsAside
<1> HIDE DEF n, Z
<1>11. Leads(OfAccount(Z), P, 0, Len(P), Logs(Z))
  <2>1. Leads(OfAccount(T), P, 0, Len(P), Logs(T))
    BY DEF Truth
  <2>2. 0 \in 0..Len(P)
    BY <1>p
  <2> QED BY <1>p, <1>9, <1>10, <2>1, <2>2, BesideLog
<1>12. ASSUME NEW j \in 0..Len(P) PROVE Leads(Z, P, j, Len(P), Z)
  <2>1. Leads(T, P, j, Len(P), T)
    BY DEF Truth
  <2> QED BY <1>p, <1>9, <1>10, <2>1, BesideLog
<1>13. ASSUME NEW j \in 0..(n + 1) PROVE Leads(Z, Q, j, n + 1, Z)
  <2>1. CASE j = n + 1
    BY <1>2, <1>3, <2>1, LeadsStart
  <2>2. CASE j \in 0..n
    <3>1. j \in Nat /\ j <= n
      BY <1>2, <2>2
    <3>2. Leads(T, A, j, n, T)
      BY <2>2 DEF Truth, n
    <3>3. \A i \in (j + 1)..n : Q[i] = A[i] /\ i \in 1..n
      BY <1>2, <3>1
    <3>4. Leads(T, Q, j, n, T)
      BY <1>2, <3>1, <3>2, <3>3, LeadsSame
    <3>5. ASSUME NEW i \in (j + 1)..n PROVE Precedes(Q[i], e, T)
      <4>1. LoggedOfAccount(Q[i]) /\ i \in 1..n
        BY <1>2, <1>7, <3>3
      <4>2. IsEvent(Q[i]) /\ HasParent(T, Q[i])
        BY <4>1, KeysDiffer DEF LoggedOfAccount, HasParent
      <4>3. e.type \notin Upserts
        <5>1. A # <<>>
          BY <1>2, <4>1 DEF n
        <5> QED BY <5>1 DEF NextOfAccount
      <4> QED BY <4>2, <4>3 DEF Precedes
    <3>6. Leads(applyEvent(T, e), Q, j, n + 1, applyEvent(T, e))
      BY <1>0, <1>1, <1>2, <3>1, <3>4, <3>5, OnceMore
    <3> QED BY <3>6 DEF Z
  <2> QED BY <1>2, <2>1, <2>2
<1>14. \A i \in 1..Len(Q) : LoggedOfAccount(Q[i])
  BY <1>2, <1>7
<1>15. \A j \in 0..Len(Q) : Leads(Z, Q, j, Len(Q), Z)
  BY <1>2, <1>13
<1>16. Truth(P, Q, Z)
  BY <1>1, <1>2, <1>3, <1>5, <1>6, <1>8, <1>11, <1>12, <1>14, <1>15 DEF Truth
<1> QED BY <1>16 DEF Q, Z

\* Direct runs come and go beside the log.
LEMMA DirectRunsAreAside ==
  ASSUME NEW P, NEW A, NEW T, Truth(P, A, T), NEW Z, IsTable(Z),
         \A x : x # DirectRun => At(Z, x) = At(T, x)
  PROVE  Truth(P, A, Z)
<1>1. IsTable(T) /\ IsLog(P) /\ IsLog(A) /\ KeysAreKnown(T) /\ RulesAreNumbered(T, Len(P))
  BY DEF Truth
<1>2. Len(P) \in Nat /\ Len(A) \in Nat
  BY <1>1, LogGrows
<1>3. \A x : x # DirectRun =>
        (x \in DOMAIN Z <=> x \in DOMAIN T) /\ (x \in DOMAIN Z => Z[x] = T[x])
  <2> SUFFICES ASSUME NEW x, x # DirectRun
               PROVE  (x \in DOMAIN Z <=> x \in DOMAIN T) /\ (x \in DOMAIN Z => Z[x] = T[x])
    OBVIOUS
  <2>1. At(Z, x) = At(T, x)
    OBVIOUS
  <2>2. x \in DOMAIN Z <=> x \in DOMAIN T
    BY <2>1, AtOf
  <2>3. x \in DOMAIN Z => {Z[x]} = {T[x]}
    BY <2>1, <2>2, AtOf
  <2> QED BY <2>2, <2>3
<1>4. KeysAreKnown(Z)
  BY <1>1, <1>3, KeysDiffer DEF KeysAreKnown
<1>5. RulesAreNumbered(Z, Len(P))
  BY <1>1, <1>3, KeysDiffer DEF RulesAreNumbered
<1>6. Mixed(Z, T, Z, {DirectRun})
  BY DEF Mixed
<1>7. OfAccount(Z) = OfAccount(T) /\ Logs(Z) = Logs(T)
  <2>1. IsTable(OfAccount(Z)) /\ IsTable(OfAccount(T)) /\ IsTable(Logs(Z)) /\ IsTable(Logs(T))
    BY <1>1, AccountAt
  <2>2. \A x : At(OfAccount(Z), x) = At(OfAccount(T), x)
    BY <1>1, AccountAt, KeysDiffer
  <2>3. \A x : At(Logs(Z), x) = At(Logs(T), x)
    <3>1. \A x : At(Logs(T), x) = IF x = DirectRun THEN {} ELSE At(T, x)
      BY <1>1, AccountAt
    <3>2. \A x : At(Logs(Z), x) = IF x = DirectRun THEN {} ELSE At(Z, x)
      BY <1>1, AccountAt
    <3> QED BY <1>1, <3>1, <3>2
  <2>4. OfAccount(Z) = OfAccount(T)
    BY <2>1, <2>2, SameAt
  <2>5. Logs(Z) = Logs(T)
    BY <2>1, <2>3, SameAt
  <2> QED BY <2>4, <2>5
<1>8. \A i \in 1..Len(P) : LoggedOfProject(P[i], Len(P), Z)
  <2> TAKE i \in 1..Len(P)
  <2> DEFINE f == P[i]
  <2>1. LoggedOfProject(f, Len(P), T)
    BY DEF Truth
  <2> HIDE DEF f
  <2>2. IsEvent(f) /\ f.key # DirectRun /\ Parent(f.key) # DirectRun
    BY <2>1, OwnParents, KeysDiffer DEF LoggedOfProject, IsEvent
  <2>3. LoggedOfProject(f, Len(P), Z)
    BY <1>3, <2>1, <2>2 DEF LoggedOfProject, HasParent
  <2> QED BY <2>3 DEF f
<1>9. \A i \in 1..Len(P) : IsEvent(P[i]) /\ Spares({DirectRun}, P[i])
  <2> TAKE i \in 1..Len(P)
  <2>1. IsEvent(P[i]) /\ P[i].key[1] # "accounts"
    BY <1>8 DEF LoggedOfProject
  <2> QED BY <2>1, ProjectSpares
<1>10. \A i \in 1..Len(A) : LoggedOfAccount(A[i])
  BY DEF Truth
<1>11. \A i \in 1..Len(A) : IsEvent(A[i]) /\ Spares({DirectRun}, A[i])
  <2> TAKE i \in 1..Len(A)
  <2>1. LoggedOfAccount(A[i]) /\ IsEvent(A[i])
    BY <1>10 DEF LoggedOfAccount
  <2>2. TheAccount \notin {DirectRun}
    BY KeysDiffer
  <2> QED BY <2>1, <2>2, AccountSpares
<1>12. ASSUME NEW j \in 0..Len(P) PROVE Leads(Z, P, j, Len(P), Z)
  <2>1. Leads(T, P, j, Len(P), T)
    BY DEF Truth
  <2> QED BY <1>2, <1>6, <1>9, <2>1, BesideLog
<1>13. ASSUME NEW j \in 0..Len(A) PROVE Leads(Z, A, j, Len(A), Z)
  <2>1. Leads(T, A, j, Len(A), T)
    BY DEF Truth
  <2> QED BY <1>2, <1>6, <1>11, <2>1, BesideLog
<1>14. Leads(OfAccount(Z), P, 0, Len(P), Logs(Z))
  BY <1>7 DEF Truth
<1> QED BY <1>1, <1>4, <1>5, <1>8, <1>10, <1>12, <1>13, <1>14 DEF Truth

LEMMA NothingIsLogged == IsLog(<<>>) /\ Len(<<>>) = 0
<1>1. <<>> \in Seq({}) /\ Len(<<>>) = 0
  OBVIOUS
<1> QED BY <1>1 DEF IsLog

\* Without its project, only the account is left.
LEMMA NoProject ==
  ASSUME NEW P, NEW A, NEW T, Truth(P, A, T)
  PROVE  Truth(<<>>, A, OfAccount(T))
<1> DEFINE Z == OfAccount(T)
<1>1. IsTable(T) /\ IsLog(A)
  BY DEF Truth
<1>2. Len(A) \in Nat
  BY <1>1, LogGrows
<1>3. IsTable(Z) /\ \A x : At(Z, x) = IF x = TheAccount THEN At(T, x) ELSE {}
  BY <1>1, AccountAt
<1> HIDE DEF Z
<1>4. \A x \in DOMAIN Z : x = TheAccount
  BY <1>3, AtOf
<1>5. KeysAreKnown(Z) /\ RulesAreNumbered(Z, 0)
  BY <1>4, KeysDiffer DEF KeysAreKnown, RulesAreNumbered
<1>6. OfAccount(Z) = Z /\ Logs(Z) = Z
  <2>1. IsTable(OfAccount(Z)) /\ IsTable(Logs(Z))
    BY <1>3, AccountAt
  <2>2. \A x : At(OfAccount(Z), x) = At(Z, x)
    BY <1>3, AccountAt
  <2>3. \A x : At(Logs(Z), x) = At(Z, x)
    BY <1>3, AccountAt, KeysDiffer
  <2>4. OfAccount(Z) = Z
    BY <1>3, <2>1, <2>2, SameAt
  <2>5. Logs(Z) = Z
    BY <1>3, <2>1, <2>3, SameAt
  <2> QED BY <2>4, <2>5
<1>7. Leads(Z, <<>>, 0, 0, Z)
  BY <1>3, LeadsStart
<1>8. \A i \in 1..Len(A) : LoggedOfAccount(A[i])
  BY DEF Truth
<1>9. ASSUME NEW j \in 0..Len(A) PROVE Leads(Z, A, j, Len(A), Z)
  <2> DEFINE G == (DOMAIN T \cup DOMAIN Z) \ {TheAccount}
  <2>1. Leads(T, A, j, Len(A), T)
    BY DEF Truth
  <2>2. j \in Nat /\ j <= Len(A)
    BY <1>2
  <2>3. Mixed(Z, T, Z, G)
    BY <1>1, <1>3, OthersAreAside
  <2>4. TheAccount \notin G
    OBVIOUS
  <2> HIDE DEF G
  <2>5. ASSUME NEW i \in (j + 1)..Len(A) PROVE IsEvent(A[i]) /\ Spares(G, A[i])
    <3>1. i \in 1..Len(A)
      BY <1>2, <2>2
    <3>2. LoggedOfAccount(A[i]) /\ IsEvent(A[i])
      BY <1>8, <3>1 DEF LoggedOfAccount
    <3> QED BY <2>4, <3>2, AccountSpares
  <2> QED BY <1>2, <2>1, <2>2, <2>3, <2>5, Beside
<1>10. \A j \in 0..Len(<<>>) : Leads(Z, <<>>, j, Len(<<>>), Z)
  BY <1>7, NothingIsLogged
<1>11. Leads(OfAccount(Z), <<>>, 0, Len(<<>>), Logs(Z))
  BY <1>6, <1>7, NothingIsLogged
<1>12. RulesAreNumbered(Z, Len(<<>>)) /\ 1..Len(<<>>) = {}
  BY <1>5, NothingIsLogged
<1>13. Truth(<<>>, A, Z)
  BY <1>1, <1>3, <1>5, <1>8, <1>9, <1>10, <1>11, <1>12, NothingIsLogged DEF Truth
<1> QED BY <1>13 DEF Z
-----------------------------------------------------------------------------
(* Events in a row, in one transaction.                                    *)

LEMMA RefusedStays == ASSUME NEW e PROVE applyEvent(Refused, e) = Refused
BY DEF applyEvent

LEMMA FitsIfApplied ==
  ASSUME NEW X, IsTable(X), NEW e, applyEvent(X, e) # Refused
  PROVE  HasParent(X, e)
<1> SUFFICES ASSUME e.type \in Upserts, e.key # Parent(e.key), Parent(e.key) \notin DOMAIN X
             PROVE  FALSE
  BY DEF HasParent
<1>1. X # Refused /\ e.type \notin Deletes
  BY NotRefused DEF Upserts, Deletes
<1>2. applyEvent(X, e) = Upserted(X, e)
  BY <1>1 DEF applyEvent
<1>3. Upserted(X, e) = Refused
  BY DEF Upserted
<1> QED BY <1>2, <1>3

LEMMA ReplayedOne ==
  ASSUME NEW X, NEW a
  PROVE  Replayed(X, <<a>>) = applyEvent(X, a)
<1> DEFINE s == <<a>>
           R == [n \in 0..1 |-> IF n = 0 THEN X ELSE applyEvent(X, a)]
<1>1. Len(s) = 1 /\ s[1] = a
  OBVIOUS
<1>2. R[0] = X /\ R[1] = applyEvent(X, a)
  OBVIOUS
<1>3. R = [n \in 0..1 |-> R[n]]
  OBVIOUS
<1> HIDE DEF R, s
<1>4. \A n \in 0..1 : R[n] = IF n = 0 THEN X ELSE applyEvent(R[n - 1], s[n])
  <2> TAKE n \in 0..1
  <2>1. n = 0 \/ n = 1
    OBVIOUS
  <2> QED BY <1>1, <1>2, <2>1
<1>5. R = [n \in 0..1 |-> IF n = 0 THEN X ELSE applyEvent(R[n - 1], s[n])]
  BY <1>3, <1>4
<1>6. PICK N \in Nat : N = 1
  OBVIOUS
<1>7. Len(s) = N /\ R = [n \in 0..N |-> IF n = 0 THEN X ELSE applyEvent(R[n - 1], s[n])]
  BY <1>1, <1>5, <1>6
<1>8. Replayed(X, s) = R[N]
  BY ONLY <1>7, ReplayedIs
<1> QED BY <1>2, <1>6, <1>8 DEF s

LEMMA ReplayedTwo ==
  ASSUME NEW X, NEW a, NEW b
  PROVE  Replayed(X, <<a, b>>) = applyEvent(applyEvent(X, a), b)
<1> DEFINE s == <<a, b>>
           Y == applyEvent(X, a)
           Z == applyEvent(Y, b)
           R == [n \in 0..2 |-> IF n = 0 THEN X ELSE IF n = 1 THEN Y ELSE Z]
<1>1. Len(s) = 2 /\ s[1] = a /\ s[2] = b
  OBVIOUS
<1>y. Y = applyEvent(X, a) /\ Z = applyEvent(Y, b)
  OBVIOUS
<1> HIDE DEF Y, Z
<1>2. R[0] = X /\ R[1] = Y /\ R[2] = Z
  OBVIOUS
<1>3. R = [n \in 0..2 |-> R[n]]
  OBVIOUS
<1> HIDE DEF R, s
<1>4. \A n \in 0..2 : R[n] = IF n = 0 THEN X ELSE applyEvent(R[n - 1], s[n])
  <2> TAKE n \in 0..2
  <2>1. n = 0 \/ n = 1 \/ n = 2
    OBVIOUS
  <2> QED BY <1>1, <1>2, <1>y, <2>1
<1>5. R = [n \in 0..2 |-> IF n = 0 THEN X ELSE applyEvent(R[n - 1], s[n])]
  BY <1>3, <1>4
<1>6. PICK N \in Nat : N = 2
  OBVIOUS
<1>7. Len(s) = N /\ R = [n \in 0..N |-> IF n = 0 THEN X ELSE applyEvent(R[n - 1], s[n])]
  BY <1>1, <1>5, <1>6
<1>8. Replayed(X, s) = R[N]
  BY ONLY <1>7, ReplayedIs
<1> QED BY <1>2, <1>6, <1>8, <1>y DEF s

LEMMA ReplayedThree ==
  ASSUME NEW X, NEW a, NEW b, NEW c
  PROVE  Replayed(X, <<a, b, c>>) = applyEvent(applyEvent(applyEvent(X, a), b), c)
<1> DEFINE s == <<a, b, c>>
           Y == applyEvent(X, a)
           V == applyEvent(Y, b)
           Z == applyEvent(V, c)
           R == [n \in 0..3 |-> IF n = 0 THEN X ELSE IF n = 1 THEN Y ELSE IF n = 2 THEN V ELSE Z]
<1>1. Len(s) = 3 /\ s[1] = a /\ s[2] = b /\ s[3] = c
  OBVIOUS
<1>y. Y = applyEvent(X, a) /\ V = applyEvent(Y, b) /\ Z = applyEvent(V, c)
  OBVIOUS
<1> HIDE DEF Y, V, Z
<1>2. R[0] = X /\ R[1] = Y /\ R[2] = V /\ R[3] = Z
  OBVIOUS
<1>3. R = [n \in 0..3 |-> R[n]]
  OBVIOUS
<1> HIDE DEF R, s
<1>4. \A n \in 0..3 : R[n] = IF n = 0 THEN X ELSE applyEvent(R[n - 1], s[n])
  <2> TAKE n \in 0..3
  <2>1. n = 0 \/ n = 1 \/ n = 2 \/ n = 3
    OBVIOUS
  <2> QED BY <1>1, <1>2, <1>y, <2>1
<1>5. R = [n \in 0..3 |-> IF n = 0 THEN X ELSE applyEvent(R[n - 1], s[n])]
  BY <1>3, <1>4
<1>6. PICK N \in Nat : N = 3
  OBVIOUS
<1>7. Len(s) = N /\ R = [n \in 0..N |-> IF n = 0 THEN X ELSE applyEvent(R[n - 1], s[n])]
  BY <1>1, <1>5, <1>6
<1>8. Replayed(X, s) = R[N]
  BY ONLY <1>7, ReplayedIs
<1> QED BY <1>2, <1>6, <1>8, <1>y DEF s

\* Most events: about rows of the project that are never removed by events.
Plain(e) ==
  /\ e.key[1] \notin {"refused", "runs", "rules", "accounts"} /\ e.key[2] = Project
  /\ e.type \notin Deletes \cup {"rule.set"}

LEMMA PlainStep ==
  ASSUME NEW P, NEW A, NEW T, Truth(P, A, T), NEW e, Plain(e),
         e.type \in Upserts \/ e.key \in DOMAIN T, applyEvent(T, e) # Refused
  PROVE  /\ Truth(P \o <<e>>, A, applyEvent(T, e))
         /\ e.key \in DOMAIN applyEvent(T, e)
         /\ \A x \in DOMAIN T : x \in DOMAIN applyEvent(T, e)
<1>1. IsTable(T)
  BY DEF Truth
<1>2. HasParent(T, e)
  BY <1>1, FitsIfApplied
<1>3. IsEvent(e)
  BY OwnParents DEF Plain, IsEvent, Deletes
<1>4. IsNext(e, T)
  BY <1>2, <1>3 DEF IsNext, Plain, Deletes
<1>5. NextOfProject(e, Len(P), T)
  BY <1>4 DEF NextOfProject, Plain
<1>6. e.type \notin Deletes /\ e.key[1] # "refused"
  BY DEF Plain
<1>7. Truth(P \o <<e>>, A, applyEvent(T, e))
  BY <1>5, ProjectLogs
<1>8. e.key \in DOMAIN applyEvent(T, e)
  BY <1>1, <1>2, <1>3, <1>6, OwnKey
<1>9. \A x \in DOMAIN T : x \in DOMAIN applyEvent(T, e)
  BY <1>1, <1>2, <1>6, ApplyIsStepAt
<1> QED BY <1>7, <1>8, <1>9

LEMMA OneAndOne ==
  ASSUME NEW a, NEW b
  PROVE  <<a>> \o <<b>> = <<a, b>>
<1> DEFINE U == {a, b}
           s == <<a>>
           t == <<b>>
           u == <<a, b>>
<1>1. s \in Seq(U) /\ t \in Seq(U) /\ u \in Seq(U)
  OBVIOUS
<1>2. Len(s) = 1 /\ Len(t) = 1 /\ Len(u) = 2 /\ s[1] = a /\ t[1] = b /\ u[1] = a /\ u[2] = b
  OBVIOUS
<1> HIDE DEF s, t, u, U
<1>3. s \o t \in Seq(U) /\ Len(s \o t) = 2 /\ (s \o t)[1] = a /\ (s \o t)[2] = b
  <2>1. /\ s \o t \in Seq(U) /\ Len(s \o t) = Len(s) + Len(t)
        /\ \A i \in 1..(Len(s) + Len(t)) :
             (s \o t)[i] = IF i <= Len(s) THEN s[i] ELSE t[i - Len(s)]
    BY <1>1, ConcatProperties
  <2>2. Len(s) + Len(t) = 2 /\ 1 \in 1..(Len(s) + Len(t)) /\ 2 \in 1..(Len(s) + Len(t))
    BY <1>2
  <2> QED BY <1>2, <2>1, <2>2
<1>4. \A i \in 1..Len(s \o t) : (s \o t)[i] = u[i]
  <2> TAKE i \in 1..Len(s \o t)
  <2>1. i = 1 \/ i = 2
    BY <1>3
  <2> QED BY <1>2, <1>3, <2>1
<1>5. s \o t = u
  BY <1>1, <1>2, <1>3, <1>4, SeqEqual
<1> QED BY <1>5 DEF s, t, u

LEMMA TwoAndOne ==
  ASSUME NEW a, NEW b, NEW c
  PROVE  <<a, b>> \o <<c>> = <<a, b, c>>
<1> DEFINE U == {a, b, c}
           s == <<a, b>>
           t == <<c>>
           u == <<a, b, c>>
<1>1. s \in Seq(U) /\ t \in Seq(U) /\ u \in Seq(U)
  OBVIOUS
<1>2. /\ Len(s) = 2 /\ Len(t) = 1 /\ Len(u) = 3 /\ s[1] = a /\ s[2] = b /\ t[1] = c
      /\ u[1] = a /\ u[2] = b /\ u[3] = c
  OBVIOUS
<1> HIDE DEF s, t, u, U
<1>3. /\ s \o t \in Seq(U) /\ Len(s \o t) = 3
      /\ (s \o t)[1] = a /\ (s \o t)[2] = b /\ (s \o t)[3] = c
  <2>1. /\ s \o t \in Seq(U) /\ Len(s \o t) = Len(s) + Len(t)
        /\ \A i \in 1..(Len(s) + Len(t)) :
             (s \o t)[i] = IF i <= Len(s) THEN s[i] ELSE t[i - Len(s)]
    BY <1>1, ConcatProperties
  <2>2. /\ Len(s) + Len(t) = 3 /\ 1 \in 1..(Len(s) + Len(t))
        /\ 2 \in 1..(Len(s) + Len(t)) /\ 3 \in 1..(Len(s) + Len(t))
    BY <1>2
  <2> QED BY <1>2, <2>1, <2>2
<1>4. \A i \in 1..Len(s \o t) : (s \o t)[i] = u[i]
  <2> TAKE i \in 1..Len(s \o t)
  <2>1. i = 1 \/ i = 2 \/ i = 3
    BY <1>3
  <2> QED BY <1>2, <1>3, <2>1
<1>5. s \o t = u
  BY <1>1, <1>2, <1>3, <1>4, SeqEqual
<1> QED BY <1>5 DEF s, t, u

LEMMA LogJoin ==
  ASSUME NEW L, IsLog(L), NEW a, NEW b
  PROVE  (L \o <<a>>) \o <<b>> = L \o <<a, b>>
<1>1. PICK S : L \in Seq(S)
  BY DEF IsLog
<1> DEFINE U == S \cup {a, b}
<1>2. L \in Seq(U) /\ <<a>> \in Seq(U) /\ <<b>> \in Seq(U)
  BY <1>1
<1>3. (L \o <<a>>) \o <<b>> = L \o (<<a>> \o <<b>>)
  BY <1>2, ConcatAssociative
<1>4. <<a>> \o <<b>> = <<a, b>>
  BY OneAndOne
<1> QED BY <1>3, <1>4

LEMMA LogJoinThree ==
  ASSUME NEW L, IsLog(L), NEW a, NEW b, NEW c
  PROVE  (L \o <<a, b>>) \o <<c>> = L \o <<a, b, c>>
<1>1. PICK S : L \in Seq(S)
  BY DEF IsLog
<1> DEFINE U == S \cup {a, b, c}
<1>2. L \in Seq(U) /\ <<a, b>> \in Seq(U) /\ <<c>> \in Seq(U)
  BY <1>1
<1>3. (L \o <<a, b>>) \o <<c>> = L \o (<<a, b>> \o <<c>>)
  BY <1>2, ConcatAssociative
<1>4. <<a, b>> \o <<c>> = <<a, b, c>>
  BY TwoAndOne
<1> QED BY <1>3, <1>4

\* The events s after which P, A and T are as true as before.
Sound(P, A, T, s) == Truth(P \o s, A, Replayed(T, s))

LEMMA PlainOne ==
  ASSUME NEW P, NEW A, NEW T, Truth(P, A, T), NEW a, Plain(a),
         a.type \in Upserts \/ a.key \in DOMAIN T, Replayed(T, <<a>>) # Refused
  PROVE  Sound(P, A, T, <<a>>)
<1>1. Replayed(T, <<a>>) = applyEvent(T, a)
  BY ReplayedOne
<1>2. Truth(P \o <<a>>, A, applyEvent(T, a))
  BY <1>1, PlainStep
<1> QED BY <1>1, <1>2 DEF Sound

LEMMA PlainTwo ==
  ASSUME NEW P, NEW A, NEW T, Truth(P, A, T), NEW a, Plain(a),
         a.type \in Upserts \/ a.key \in DOMAIN T,
         NEW b, Plain(b), b.type \in Upserts \/ b.key \in DOMAIN T \cup {a.key},
         Replayed(T, <<a, b>>) # Refused
  PROVE  Sound(P, A, T, <<a, b>>)
<1> DEFINE Y == applyEvent(T, a)
<1>1. Replayed(T, <<a, b>>) = applyEvent(Y, b)
  BY ReplayedTwo
<1>2. Y # Refused
  BY <1>1, RefusedStays
<1>3. Truth(P \o <<a>>, A, Y) /\ a.key \in DOMAIN Y /\ \A x \in DOMAIN T : x \in DOMAIN Y
  BY <1>2, PlainStep
<1> HIDE DEF Y
<1>4. b.type \in Upserts \/ b.key \in DOMAIN Y
  BY <1>3
<1>5. Truth((P \o <<a>>) \o <<b>>, A, applyEvent(Y, b))
  BY <1>1, <1>3, <1>4, PlainStep
<1>6. IsLog(P)
  BY DEF Truth
<1>7. (P \o <<a>>) \o <<b>> = P \o <<a, b>>
  BY <1>6, LogJoin
<1> QED BY <1>1, <1>5, <1>7 DEF Sound

LEMMA PlainThree ==
  ASSUME NEW P, NEW A, NEW T, Truth(P, A, T), NEW a, Plain(a),
         a.type \in Upserts \/ a.key \in DOMAIN T,
         NEW b, Plain(b), b.type \in Upserts \/ b.key \in DOMAIN T \cup {a.key},
         NEW c, Plain(c), c.type \in Upserts \/ c.key \in DOMAIN T \cup {a.key, b.key},
         Replayed(T, <<a, b, c>>) # Refused
  PROVE  Sound(P, A, T, <<a, b, c>>)
<1> DEFINE Y == applyEvent(T, a)
           V == applyEvent(Y, b)
<1>1. Replayed(T, <<a, b, c>>) = applyEvent(V, c)
  BY ReplayedThree
<1>2. V # Refused
  BY <1>1, RefusedStays
<1>3. Y # Refused
  BY <1>2, RefusedStays
<1>4. Truth(P \o <<a>>, A, Y) /\ a.key \in DOMAIN Y /\ \A x \in DOMAIN T : x \in DOMAIN Y
  BY <1>3, PlainStep
<1> HIDE DEF Y
<1>5. b.type \in Upserts \/ b.key \in DOMAIN Y
  BY <1>4
<1>6. /\ Truth((P \o <<a>>) \o <<b>>, A, V) /\ b.key \in DOMAIN V
      /\ \A x \in DOMAIN Y : x \in DOMAIN V
  BY <1>2, <1>4, <1>5, PlainStep
<1> HIDE DEF V
<1>7. c.type \in Upserts \/ c.key \in DOMAIN V
  BY <1>4, <1>6
<1>8. Truth(((P \o <<a>>) \o <<b>>) \o <<c>>, A, applyEvent(V, c))
  BY <1>1, <1>6, <1>7, PlainStep
<1>9. IsLog(P)
  BY DEF Truth
<1>10. ((P \o <<a>>) \o <<b>>) \o <<c>> = P \o <<a, b, c>>
  <2>1. (P \o <<a>>) \o <<b>> = P \o <<a, b>>
    BY <1>9, LogJoin
  <2>2. (P \o <<a, b>>) \o <<c>> = P \o <<a, b, c>>
    BY <1>9, LogJoinThree
  <2> QED BY <2>1, <2>2
<1>11. Truth(P \o <<a, b, c>>, A, applyEvent(V, c))
  BY <1>8, <1>10
<1> QED BY <1>1, <1>11 DEF Sound
-----------------------------------------------------------------------------
(* Every operation keeps the logs true.                                    *)

LogsAreTrue ==
  /\ Truth(events[Project], events[Account], tables)
  /\ events = [o \in {Project, Account} |-> events[o]]
  /\ topic \in Topics

LEMMA ProjectRecords ==
  ASSUME LogsAreKnown, LogsAreTrue, NEW new, Record(Project, new),
         Sound(events[Project], events[Account], tables, new)
  PROVE  LogsAreTrue'
<1>1. events' = [events EXCEPT ![Project] = events[Project] \o new]
      /\ tables' = Replayed(tables, new) /\ topic' = topic
  BY DEF Record
<1>2. DOMAIN events = {Project, Account} /\ Project # Account
  BY DEF LogsAreTrue, LogsAreKnown
<1>3. events'[Project] = events[Project] \o new /\ events'[Account] = events[Account]
  BY <1>1, <1>2
<1>4. events' = [o \in {Project, Account} |-> events'[o]]
  BY <1>1, <1>2
<1>5. topic' \in Topics
  BY <1>1 DEF LogsAreTrue
<1> QED BY <1>1, <1>3, <1>4, <1>5 DEF LogsAreTrue, Sound

LEMMA AccountRecords ==
  ASSUME LogsAreKnown, LogsAreTrue, NEW e, Record(Account, <<e>>),
         NextOfAccount(e, events[Account], tables)
  PROVE  LogsAreTrue'
<1>1. events' = [events EXCEPT ![Account] = events[Account] \o <<e>>]
      /\ tables' = applyEvent(tables, e) /\ topic' = topic
  BY ReplayedOne DEF Record
<1>2. DOMAIN events = {Project, Account} /\ Project # Account
  BY DEF LogsAreTrue, LogsAreKnown
<1>3. events'[Account] = events[Account] \o <<e>> /\ events'[Project] = events[Project]
  BY <1>1, <1>2
<1>4. events' = [o \in {Project, Account} |-> events'[o]]
  BY <1>1, <1>2
<1>5. topic' \in Topics
  BY <1>1 DEF LogsAreTrue
<1>6. Truth(events[Project], events[Account] \o <<e>>, applyEvent(tables, e))
  BY AccountLogs DEF LogsAreTrue
<1> QED BY <1>1, <1>3, <1>4, <1>5, <1>6 DEF LogsAreTrue

LEMMA RecordsOne ==
  ASSUME LogsAreKnown, LogsAreTrue, NEW a, Record(Project, <<a>>), Plain(a),
         a.type \in Upserts \/ a.key \in DOMAIN tables
  PROVE  LogsAreTrue'
<1>1. Replayed(tables, <<a>>) # Refused
  BY DEF Record
<1>2. Sound(events[Project], events[Account], tables, <<a>>)
  BY <1>1, PlainOne DEF LogsAreTrue
<1> QED BY <1>2, ProjectRecords

LEMMA RecordsTwo ==
  ASSUME LogsAreKnown, LogsAreTrue, NEW a, NEW b, Record(Project, <<a, b>>), Plain(a), Plain(b),
         a.type \in Upserts \/ a.key \in DOMAIN tables,
         b.type \in Upserts \/ b.key \in DOMAIN tables \cup {a.key}
  PROVE  LogsAreTrue'
<1>1. Replayed(tables, <<a, b>>) # Refused
  BY DEF Record
<1>2. Sound(events[Project], events[Account], tables, <<a, b>>)
  BY <1>1, PlainTwo DEF LogsAreTrue
<1> QED BY <1>2, ProjectRecords

LEMMA RecordsThree ==
  ASSUME LogsAreKnown, LogsAreTrue, NEW a, NEW b, NEW c, Record(Project, <<a, b, c>>),
         Plain(a), Plain(b), Plain(c),
         a.type \in Upserts \/ a.key \in DOMAIN tables,
         b.type \in Upserts \/ b.key \in DOMAIN tables \cup {a.key},
         c.type \in Upserts \/ c.key \in DOMAIN tables \cup {a.key, b.key}
  PROVE  LogsAreTrue'
<1>1. Replayed(tables, <<a, b, c>>) # Refused
  BY DEF Record
<1>2. Sound(events[Project], events[Account], tables, <<a, b, c>>)
  BY <1>1, PlainThree DEF LogsAreTrue
<1> QED BY <1>2, ProjectRecords

LEMMA LoggedIs ==
  ASSUME NEW type, NEW key, NEW row
  PROVE  /\ Logged(type, key, row).type = type
         /\ Logged(type, key, row).key = key
         /\ Logged(type, key, row).row = row
BY DEF Logged

LEMMA PlainIs ==
  ASSUME NEW type, type \notin {"rule.removed", "account.removed", "rule.set"},
         NEW key, key[1] \notin {"refused", "runs", "rules", "accounts"}, key[2] = Project, NEW row
  PROVE  Plain(Logged(type, key, row))
BY LoggedIs DEF Plain, Deletes

LEMMA PlainKeys ==
  ASSUME NEW key, key \in {TheProject, Repository, Task, Workflow, Artifact, Changes, Question}
                  \/ \E k : key \in {Binding(k), Step(k), Decision(k)}
  PROVE  key[1] \notin {"refused", "runs", "rules", "accounts"} /\ key[2] = Project
BY DEF TheProject, Repository, Task, Workflow, Artifact, Changes, Question, Binding, Step, Decision

LEMMA RowsOfProject ==
  ASSUME LogsAreKnown, LogsAreTrue
  PROVE  /\ OwnedBy(tables, Project) = DOMAIN tables \ {TheAccount}
         /\ OwnedBy(tables, Account) = {}
         /\ Without(tables, OwnedBy(tables, Project)) = OfAccount(tables)
<1>1. KeysAreKnown(tables)
  BY DEF LogsAreTrue, Truth
<1>2. \A x \in DOMAIN tables : x \in OwnedBy(tables, Project) <=> x # TheAccount
  BY <1>1, KeysDiffer DEF KeysAreKnown, OwnedBy
<1>3. OwnedBy(tables, Project) = DOMAIN tables \ {TheAccount}
  BY <1>2 DEF OwnedBy
<1>4. \A x \in DOMAIN tables : x \notin OwnedBy(tables, Account)
  BY <1>1, KeysDiffer DEF KeysAreKnown, OwnedBy, LogsAreKnown
<1>5. OwnedBy(tables, Account) = {}
  BY <1>4 DEF OwnedBy
<1> QED BY <1>3, <1>5 DEF OfAccount

\* What the tables are when they are dropped and derived again.
LEMMA RebuiltIs ==
  ASSUME LogsAreKnown, LogsAreTrue
  PROVE  Rebuilt(tables, Project) = Logs(tables) /\ Rebuilt(tables, Account) = tables
<1> DEFINE P == events[Project]
           A == events[Account]
<1>1. IsTable(tables) /\ IsLog(P) /\ IsLog(A)
  BY DEF LogsAreTrue, Truth
<1>2. Len(P) \in Nat /\ Len(A) \in Nat
  BY <1>1, LogGrows
<1>3. Leads(OfAccount(tables), P, 0, Len(P), Logs(tables))
  BY DEF LogsAreTrue, Truth
<1>4. Leads(tables, A, 0, Len(A), tables)
  <2>1. 0 \in 0..Len(A)
    BY <1>2
  <2> QED BY <2>1 DEF LogsAreTrue, Truth
<1> HIDE DEF P, A
<1>5. Replayed(OfAccount(tables), P) = Logs(tables)
  <2>1. Len(P) = Len(P) - 0 /\ (\A i \in 1..(Len(P) - 0) : P[i] = P[0 + i]) /\ 0 <= Len(P)
    BY <1>2
  <2> QED BY <1>2, <1>3, <2>1, LeadsReplayed
<1>6. Replayed(tables, A) = tables
  <2>1. Len(A) = Len(A) - 0 /\ (\A i \in 1..(Len(A) - 0) : A[i] = A[0 + i]) /\ 0 <= Len(A)
    BY <1>2
  <2> QED BY <1>2, <1>4, <2>1, LeadsReplayed
<1>7. Without(tables, {}) = tables
  <2>1. Without(tables, {}) = [k \in DOMAIN tables |-> tables[k]]
    BY DEF Without
  <2> QED BY <1>1, <2>1 DEF IsTable
<1> QED BY <1>5, <1>6, <1>7, RowsOfProject DEF Rebuilt, P, A

LEMMA LogsStartTrue ==
  ASSUME LogsAreKnown, ReadInit
  PROVE  LogsAreTrue
<1>1. /\ topic \in Topics /\ tables = Nothing
      /\ events = [o \in {Project, Account} |-> events[o]]
      /\ events[Project] = <<>> /\ events[Account] = <<>>
  BY DEF ReadInit
<1>2. DOMAIN tables = {} /\ tables = [k \in DOMAIN tables |-> tables[k]]
  BY <1>1 DEF Nothing
<1>3. IsTable(tables)
  BY <1>2 DEF IsTable
<1>4. \A x : At(tables, x) = {}
  BY <1>2 DEF At
<1>5. OfAccount(tables) = tables /\ Logs(tables) = tables
  BY <1>2 DEF OfAccount, Logs, Without
<1>6. Leads(tables, <<>>, 0, 0, tables)
  BY <1>3, LeadsStart
<1>7. KeysAreKnown(tables) /\ RulesAreNumbered(tables, 0)
  BY <1>2 DEF KeysAreKnown, RulesAreNumbered
<1>8. Len(<<>>) = 0 /\ 1..Len(<<>>) = {} /\ 0..Len(<<>>) = {0}
  BY NothingIsLogged
<1>9. Truth(<<>>, <<>>, tables)
  BY <1>3, <1>5, <1>6, <1>7, <1>8, NothingIsLogged DEF Truth
<1> QED BY <1>1, <1>9 DEF LogsAreTrue

LEMMA RulesAreLogged ==
  ASSUME LogsAreKnown, LogsAreTrue, NEW k, NEW text, SetRule(k, text)
  PROVE  LogsAreTrue'
<1> DEFINE T == tables
           n == Len(events[Project])
           x == Rule(k)
           old == x \in DOMAIN T
           row == [id |-> IF old THEN T[x].id ELSE n + 1, statement |-> text,
                   createdAt |-> IF old THEN T[x].createdAt ELSE n]
           e == Logged("rule.set", x, row)
<1>1. Record(Project, <<e>>)
  BY DEF SetRule, Exists, RowOf, FreshId, Now
<1>2. x[1] = "rules" /\ x[2] = Project
  BY DEF Rule
<1>3. IsTable(T) /\ RulesAreNumbered(T, n) /\ n \in Nat /\ IsLog(events[Project])
  BY LogGrows DEF LogsAreTrue, Truth
<1>4. "id" \in DOMAIN row /\ row.id = IF old THEN T[x].id ELSE n + 1
  OBVIOUS
<1>5. old => T[x].id \in Nat /\ T[x].id <= n
  BY <1>2, <1>3 DEF RulesAreNumbered
<1>6. e.type = "rule.set" /\ e.key = x /\ e.row = row
  BY LoggedIs
<1>7. Replayed(T, <<e>>) = applyEvent(T, e) /\ applyEvent(T, e) # Refused
  BY <1>1, ReplayedOne DEF Record
<1> HIDE DEF row, e, x, T, n
<1>8. HasParent(T, e)
  BY <1>3, <1>7, FitsIfApplied
<1>9. IsEvent(e)
  BY <1>2, <1>4, <1>6, OwnParents DEF IsEvent
<1>10. IsNext(e, T)
  BY <1>4, <1>6, <1>8, <1>9 DEF IsNext, Upserts
<1>11. e.row.id \in Nat /\ e.row.id <= n + 1 /\ (e.key \notin DOMAIN T => e.row.id = n + 1)
  BY <1>3, <1>4, <1>5, <1>6
<1>12. NextOfProject(e, n, T)
  BY <1>2, <1>6, <1>10, <1>11 DEF NextOfProject
<1>13. Truth(events[Project] \o <<e>>, events[Account], applyEvent(T, e))
  BY <1>12, ProjectLogs DEF LogsAreTrue, n, T
<1>14. Sound(events[Project], events[Account], tables, <<e>>)
  BY <1>7, <1>13 DEF Sound, T
<1> QED BY <1>1, <1>14, ProjectRecords

LEMMA RemovalsAreLogged ==
  ASSUME LogsAreKnown, LogsAreTrue, NEW id \in 1..MaxEvents[topic], RemoveRule(id)
  PROVE  LogsAreTrue'
<1> DEFINE T == tables
           n == Len(events[Project])
           row == [id |-> id]
           e == Logged("rule.removed", Rule(none), row)
<1>1. Record(Project, <<e>>) /\ id <= n
  BY DEF RemoveRule, Now
<1>2. Rule(none)[1] = "rules" /\ Rule(none)[2] = Project
  BY DEF Rule
<1>3. IsTable(T) /\ n \in Nat
  BY LogGrows DEF LogsAreTrue, Truth
<1>4. MaxEvents[topic] \in Nat
  BY DEF LogsAreKnown, LogsAreTrue
<1>5. id \in Nat /\ row.id = id
  BY <1>4
<1>6. e.type = "rule.removed" /\ e.key = Rule(none) /\ e.row = row
  BY LoggedIs
<1>7. Replayed(T, <<e>>) = applyEvent(T, e) /\ applyEvent(T, e) # Refused
  BY <1>1, ReplayedOne DEF Record
<1> HIDE DEF row, e, T, n
<1>8. HasParent(T, e)
  BY <1>3, <1>7, FitsIfApplied
<1>9. IsEvent(e)
  BY <1>2, <1>6, OwnParents DEF IsEvent
<1>10. IsNext(e, T)
  BY <1>6, <1>8, <1>9 DEF IsNext, Upserts
<1>11. e.row.id \in Nat /\ e.row.id <= n + 1
  BY <1>1, <1>3, <1>5, <1>6
<1>12. NextOfProject(e, n, T)
  BY <1>2, <1>6, <1>10, <1>11 DEF NextOfProject
<1>13. Truth(events[Project] \o <<e>>, events[Account], applyEvent(T, e))
  BY <1>12, ProjectLogs DEF LogsAreTrue, n, T
<1>14. Sound(events[Project], events[Account], tables, <<e>>)
  BY <1>7, <1>13 DEF Sound, T
<1> QED BY <1>1, <1>14, ProjectRecords

LEMMA AccountEventsAreLogged ==
  ASSUME LogsAreKnown, LogsAreTrue, NEW type, NEW row,
         Record(Account, <<Logged(type, TheAccount, row)>>),
         \/ type = "account.registered" /\ events[Account] = <<>>
         \/ type \in {"account.status_updated", "account.removed"} /\ TheAccount \in DOMAIN tables
  PROVE  LogsAreTrue'
<1> DEFINE e == Logged(type, TheAccount, row)
<1>1. e.type = type /\ e.key = TheAccount /\ e.row = row
  BY LoggedIs
<1> HIDE DEF e
<1>2. IsEvent(e) /\ HasParent(tables, e)
  BY <1>1, KeysDiffer DEF IsEvent, HasParent
<1>3. IsNext(e, tables)
  BY <1>1, <1>2 DEF IsNext, Upserts
<1>4. NextOfAccount(e, events[Account], tables)
  BY <1>1, <1>2, <1>3 DEF NextOfAccount, LoggedOfAccount, Upserts
<1> QED BY <1>4, AccountRecords DEF e
LEMMA ProjectsAreLogged ==
  ASSUME LogsAreKnown, LogsAreTrue,
         CreateProject \/ \E name, settings : UpdateProject(name, settings)
  PROVE  LogsAreTrue'
<1>1. CASE CreateProject
  <2> DEFINE a == Logged("project.created", TheProject, [name |-> none, createdAt |-> Now])
             b == Logged("repository.bound", Repository, [settings |-> none])
  <2>1. Record(Project, <<a, b>>)
    BY <1>1 DEF CreateProject, ProjectCreated
  <2>2. Plain(a) /\ Plain(b)
    BY PlainIs, PlainKeys
  <2>3. a.type \in Upserts /\ b.type \in Upserts
    BY LoggedIs DEF Upserts
  <2> HIDE DEF a, b
  <2> QED BY <2>1, <2>2, <2>3, RecordsTwo
<1>2. CASE \E name, settings : UpdateProject(name, settings)
  <2>1. PICK name, settings : UpdateProject(name, settings)
    BY <1>2
  <2> DEFINE a == Logged("project.updated", TheProject, [name |-> name])
             b == Logged("repository.bound", Repository, [settings |-> settings])
  <2>2. TheProject \in DOMAIN tables
    BY <2>1 DEF UpdateProject, Exists
  <2>3. Record(Project, (IF name # RowOf(TheProject).name THEN <<a>> ELSE <<>>) \o <<b>>)
    BY <2>1 DEF UpdateProject
  <2>4. Plain(a) /\ Plain(b)
    BY PlainIs, PlainKeys
  <2>5. a.key \in DOMAIN tables /\ b.type \in Upserts
    BY <2>2, LoggedIs DEF Upserts
  <2> HIDE DEF a, b
  <2>6. CASE name # RowOf(TheProject).name
    <3>1. Record(Project, <<a, b>>)
      BY <2>3, <2>6, OneAndOne
    <3> QED BY <2>4, <2>5, <3>1, RecordsTwo
  <2>7. CASE name = RowOf(TheProject).name
    <3>1. <<>> \o <<b>> = <<b>>
      <4>1. <<b>> \in Seq({b})
        OBVIOUS
      <4> QED BY <4>1, ConcatEmptySeq
    <3>2. Record(Project, <<b>>)
      BY <2>3, <2>7, <3>1
    <3> QED BY <2>4, <2>5, <3>2, RecordsOne
  <2> QED BY <2>6, <2>7
<1> QED BY <1>1, <1>2

\* An event about a row of the project, on its own.
LEMMA OneIsLogged ==
  ASSUME LogsAreKnown, LogsAreTrue, NEW type, NEW key, NEW row,
         Record(Project, <<Logged(type, key, row)>>),
         key[1] \notin {"refused", "runs", "rules", "accounts"} /\ key[2] = Project,
         type \notin {"rule.removed", "account.removed", "rule.set"},
         type \in Upserts \/ key \in DOMAIN tables
  PROVE  LogsAreTrue'
<1> DEFINE a == Logged(type, key, row)
<1>1. Plain(a) /\ a.type = type /\ a.key = key
  BY PlainIs, LoggedIs
<1> HIDE DEF a
<1> QED BY <1>1, RecordsOne DEF a

LEMMA WorkIsLogged ==
  ASSUME LogsAreKnown, LogsAreTrue,
         \/ StartWorkflow \/ Checkpoint \/ RecordEvidence
         \/ \E s, verdict : StartStep(s) \/ FinishStep(s, verdict)
  PROVE  LogsAreTrue'
<1>1. CASE StartWorkflow
  <2> DEFINE a == Logged("task.created", Task, [scope |-> none, createdAt |-> Now])
             b == Logged("workflow.started", Workflow, [templateId |-> none])
  <2>1. Record(Project, <<a, b>>)
    BY <1>1 DEF StartWorkflow, TaskCreated
  <2>2. Plain(a) /\ Plain(b)
    BY PlainIs, PlainKeys
  <2>3. a.type \in Upserts /\ b.type \in Upserts
    BY LoggedIs DEF Upserts
  <2> HIDE DEF a, b
  <2> QED BY <2>1, <2>2, <2>3, RecordsTwo
<1>2. CASE Checkpoint
  <2>1. Workflow \in DOMAIN tables
    BY <1>2 DEF Checkpoint, Exists
  <2>2. Record(Project, <<Logged("workflow.checkpointed", Workflow, [checkpoint |-> Now])>>)
    BY <1>2 DEF Checkpoint
  <2> QED BY <2>1, <2>2, PlainKeys, OneIsLogged
<1>3. CASE RecordEvidence
  <2>1. Record(Project, <<Logged("evidence.recorded", Artifact, [outcome |-> none])>>)
    BY <1>3 DEF RecordEvidence, EvidenceRecorded
  <2>2. "evidence.recorded" \in Upserts
    BY DEF Upserts
  <2> QED BY <2>1, <2>2, PlainKeys, OneIsLogged
<1>4. ASSUME NEW s, StartStep(s) PROVE LogsAreTrue'
  <2>1. Record(Project, <<Logged("step.started", Step(s),
                 [startedAt |-> Now, verdict |-> none, finishedAt |-> never])>>)
    BY <1>4 DEF StartStep
  <2>2. "step.started" \in Upserts
    BY DEF Upserts
  <2>3. Step(s)[1] \notin {"refused", "runs", "rules", "accounts"} /\ Step(s)[2] = Project
    BY PlainKeys
  <2> QED BY <2>1, <2>2, <2>3, OneIsLogged
<1>5. ASSUME NEW s, NEW verdict, FinishStep(s, verdict) PROVE LogsAreTrue'
  <2>1. Record(Project, <<Logged("step.finished", Step(s),
                 [verdict |-> verdict, finishedAt |-> Now])>>)
    BY <1>5 DEF FinishStep
  <2>2. Step(s) \in DOMAIN tables
    BY <1>5 DEF FinishStep, Exists
  <2>3. Step(s)[1] \notin {"refused", "runs", "rules", "accounts"} /\ Step(s)[2] = Project
    BY PlainKeys
  <2> QED BY <2>1, <2>2, <2>3, OneIsLogged
<1> QED BY <1>1, <1>2, <1>3, <1>4, <1>5

LEMMA TriggersAreLogged ==
  ASSUME LogsAreKnown, LogsAreTrue, NEW to, NEW iteration, ApplyTrigger(to, iteration)
  PROVE  LogsAreTrue'
<1> DEFINE from == RowOf(Workflow).state
           a == Logged("workflow.transitioned", Workflow,
                  [state |-> to, iteration |-> iteration,
                   resumeState |-> IF to = "AWAITING_USER" THEN from ELSE none])
           b == Logged("workflow.halted", Workflow,
                  [state |-> to, haltReason |-> "limit", finishedAt |-> Now, checkpoint |-> never])
           c == Logged("workflow.finished", Workflow,
                  [state |-> to, finishedAt |-> Now, checkpoint |-> never])
<1>1. Record(Project, <<a>> \o (IF to = "HALTED_LIMIT" THEN <<b>> ELSE <<>>)
                            \o (IF to \in Terminal THEN <<c>> ELSE <<>>))
  BY DEF ApplyTrigger
<1>2. Workflow \in DOMAIN tables
  BY DEF ApplyTrigger, HasRunningWorkflow, Exists
<1>3. Plain(a) /\ Plain(b) /\ Plain(c)
  BY PlainIs, PlainKeys
<1>4. a.key \in DOMAIN tables /\ b.key \in DOMAIN tables /\ c.key \in DOMAIN tables
  BY <1>2, LoggedIs
<1> HIDE DEF a, b, c
<1>5. <<a>> \o <<>> = <<a>>
  <2>1. <<a>> \in Seq({a})
    OBVIOUS
  <2> QED BY <2>1, ConcatEmptySeq
<1>6. CASE to = "HALTED_LIMIT"
  <2>0. to \in Terminal
    BY <1>6 DEF Terminal
  <2>1. (<<a>> \o <<b>>) \o <<c>> = <<a, b, c>>
    <3>1. <<a>> \o <<b>> = <<a, b>>
      BY OneAndOne
    <3>2. <<a, b>> \o <<c>> = <<a, b, c>>
      BY TwoAndOne
    <3> QED BY <3>1, <3>2
  <2>2. Record(Project, (<<a>> \o <<b>>) \o <<c>>)
    BY <1>1, <1>6, <2>0
  <2>3. Record(Project, <<a, b, c>>)
    BY <2>1, <2>2
  <2> QED BY <1>3, <1>4, <2>3, RecordsThree
<1>7. CASE to # "HALTED_LIMIT" /\ to \in Terminal
  <2>1. Record(Project, <<a, c>>)
    BY <1>1, <1>5, <1>7, OneAndOne
  <2> QED BY <1>3, <1>4, <2>1, RecordsTwo
<1>8. CASE to \notin Terminal
  <2>1. to # "HALTED_LIMIT"
    BY <1>8 DEF Terminal
  <2>2. Record(Project, <<a>>)
    BY <1>1, <1>5, <1>8, <2>1
  <2> QED BY <1>3, <1>4, <2>2, RecordsOne
<1> QED BY <1>6, <1>7, <1>8

LEMMA AnswersAreLogged ==
  ASSUME LogsAreKnown, LogsAreTrue,
         RecordChanges \/ Ask \/ \E t : RecordReview(t) \/ Answer(t)
  PROVE  LogsAreTrue'
<1>1. CASE RecordChanges
  <2>1. Record(Project, <<Logged("changeset.captured", Changes, [reviewVerdict |-> none])>>)
    BY <1>1 DEF RecordChanges, ChangesCaptured
  <2>2. "changeset.captured" \in Upserts
    BY DEF Upserts
  <2> QED BY <2>1, <2>2, PlainKeys, OneIsLogged
<1>2. CASE Ask
  <2>1. Record(Project, <<Logged("question.asked", Question, [answer |-> none])>>)
    BY <1>2 DEF Ask, QuestionAsked
  <2>2. "question.asked" \in Upserts
    BY DEF Upserts
  <2> QED BY <2>1, <2>2, PlainKeys, OneIsLogged
<1>3. ASSUME NEW t, RecordReview(t) PROVE LogsAreTrue'
  <2>1. Record(Project, <<Logged("changeset.reviewed", Changes, [reviewVerdict |-> t])>>)
        /\ Changes \in DOMAIN tables
    BY <1>3 DEF RecordReview, Exists
  <2> QED BY <2>1, PlainKeys, OneIsLogged
<1>4. ASSUME NEW t, Answer(t) PROVE LogsAreTrue'
  <2>1. Record(Project, <<Logged("question.answered", Question, [answer |-> t])>>)
        /\ Question \in DOMAIN tables
    BY <1>4 DEF Answer, Exists
  <2> QED BY <2>1, PlainKeys, OneIsLogged
<1> QED BY <1>1, <1>2, <1>3, <1>4

LEMMA BindingsAreLogged ==
  ASSUME LogsAreKnown, LogsAreTrue, NEW r, NEW runtime, BindRole(r, runtime)
  PROVE  LogsAreTrue'
<1>1. Record(Project, <<Logged("binding.set", Binding(r),
                               [id |-> FreshId, runtimeId |-> runtime])>>)
  BY DEF BindRole, BindingSet
<1>2. "binding.set" \in Upserts
  BY DEF Upserts
<1>3. Binding(r)[1] \notin {"refused", "runs", "rules", "accounts"} /\ Binding(r)[2] = Project
  BY PlainKeys
<1> QED BY <1>1, <1>2, <1>3, OneIsLogged

LEMMA DecisionsAreLogged ==
  ASSUME LogsAreKnown, LogsAreTrue, NEW d,
         \/ Propose(d) \/ \E by : Supersede(d, by)
         \/ Decide(d, "decision.approved", "approved") \/ Decide(d, "decision.locked", "locked")
  PROVE  LogsAreTrue'
<1>0. \A k : Decision(k)[1] \notin {"refused", "runs", "rules", "accounts"}
             /\ Decision(k)[2] = Project
  BY PlainKeys
<1>1. CASE Propose(d)
  <2>1. Record(Project, <<Logged("decision.proposed", Decision(d),
                 [status |-> "proposed", supersededBy |-> none])>>)
    BY <1>1 DEF Propose, DecisionProposed
  <2>2. "decision.proposed" \in Upserts
    BY DEF Upserts
  <2> QED BY <1>0, <2>1, <2>2, OneIsLogged
<1>2. CASE Decide(d, "decision.approved", "approved")
  <2>1. Record(Project, <<Logged("decision.approved", Decision(d), [status |-> "approved"])>>)
        /\ Decision(d) \in DOMAIN tables
    BY <1>2 DEF Decide, Exists
  <2> QED BY <1>0, <2>1, OneIsLogged
<1>3. CASE Decide(d, "decision.locked", "locked")
  <2>1. Record(Project, <<Logged("decision.locked", Decision(d), [status |-> "locked"])>>)
        /\ Decision(d) \in DOMAIN tables
    BY <1>3 DEF Decide, Exists
  <2> QED BY <1>0, <2>1, OneIsLogged
<1>4. CASE \E by : Supersede(d, by)
  <2>1. PICK by : Supersede(d, by)
    BY <1>4
  <2> DEFINE a == Logged("decision.proposed", Decision(by),
                    [status |-> "locked", supersededBy |-> none])
             b == Logged("decision.locked", Decision(by), [status |-> "locked"])
             c == Logged("decision.superseded", Decision(d),
                    [status |-> "superseded", supersededBy |-> by])
  <2>2. Record(Project, <<a, b, c>>) /\ Decision(d) \in DOMAIN tables
    BY <2>1 DEF Supersede, DecisionProposed, Exists
  <2>3. Plain(a) /\ Plain(b) /\ Plain(c)
    BY <1>0, PlainIs
  <2>4. a.type \in Upserts /\ b.key = a.key /\ c.key \in DOMAIN tables
    BY <2>2, LoggedIs DEF Upserts
  <2> HIDE DEF a, b, c
  <2> QED BY <2>2, <2>3, <2>4, RecordsThree
<1> QED BY <1>1, <1>2, <1>3, <1>4

LEMMA AccountsAreLogged ==
  ASSUME LogsAreKnown, LogsAreTrue,
         RegisterAccount \/ RemoveAccount \/ \E status, used : UpdateAccount(status, used)
  PROVE  LogsAreTrue'
<1>1. CASE RegisterAccount
  <2>1. Record(Account, <<Logged("account.registered", TheAccount,
                 [status |-> "connected", lastUsedAt |-> none, createdAt |-> never])>>)
        /\ events[Account] = <<>>
    BY <1>1 DEF RegisterAccount, AccountRegistered
  <2> QED BY <2>1, AccountEventsAreLogged
<1>2. CASE RemoveAccount
  <2>1. Record(Account, <<Logged("account.removed", TheAccount, Nothing)>>)
        /\ TheAccount \in DOMAIN tables
    BY <1>2 DEF RemoveAccount, Exists
  <2> QED BY <2>1, AccountEventsAreLogged
<1>3. ASSUME NEW status, NEW used, UpdateAccount(status, used) PROVE LogsAreTrue'
  <2> DEFINE row == IF used = none THEN [status |-> status]
                    ELSE [status |-> status, lastUsedAt |-> used]
  <2>1. Record(Account, <<Logged("account.status_updated", TheAccount, row)>>)
        /\ TheAccount \in DOMAIN tables
    BY <1>3 DEF UpdateAccount, Exists
  <2> HIDE DEF row
  <2> QED BY <2>1, AccountEventsAreLogged
<1> QED BY <1>1, <1>2, <1>3

LEMMA OutsideTheLog ==
  ASSUME LogsAreKnown, LogsAreTrue,
         StartDirectRun \/ DeleteProject \/ Rebuild(Project) \/ Rebuild(Account)
  PROVE  LogsAreTrue'
<1>1. /\ Truth(events[Project], events[Account], tables) /\ IsTable(tables)
      /\ events = [o \in {Project, Account} |-> events[o]] /\ topic \in Topics
      /\ Project # Account
  BY DEF LogsAreTrue, Truth, LogsAreKnown
<1>2. CASE StartDirectRun
  <2>1. tables' = With(tables, DirectRun, Nothing) /\ UNCHANGED <<topic, events>>
    BY <1>2 DEF StartDirectRun
  <2>2. tables' = [k \in DOMAIN tables \cup {DirectRun} |->
                     IF k = DirectRun THEN Nothing ELSE tables[k]]
    BY <2>1 DEF With
  <2>3. IsTable(tables')
    BY <1>1, <2>2, KeysDiffer DEF IsTable
  <2>4. \A x : x # DirectRun => At(tables', x) = At(tables, x)
    BY <2>2 DEF At
  <2>5. Truth(events[Project], events[Account], tables')
    BY <1>1, <2>3, <2>4, DirectRunsAreAside
  <2> QED BY <1>1, <2>1, <2>5 DEF LogsAreTrue
<1>3. CASE DeleteProject
  <2>1. tables' = OfAccount(tables) /\ topic' = topic
        /\ events' = [events EXCEPT ![Project] = <<>>]
    BY <1>3, RowsOfProject DEF DeleteProject
  <2>2. events'[Project] = <<>> /\ events'[Account] = events[Account]
        /\ events' = [o \in {Project, Account} |-> events'[o]]
    BY <1>1, <2>1
  <2>3. Truth(<<>>, events[Account], OfAccount(tables))
    BY <1>1, NoProject
  <2> QED BY <1>1, <2>1, <2>2, <2>3 DEF LogsAreTrue
<1>4. CASE Rebuild(Project) \/ Rebuild(Account)
  <2>1. tables' \in {tables, Logs(tables)} /\ UNCHANGED <<topic, events>>
    BY <1>4, RebuiltIs DEF Rebuild
  <2>2. IsTable(Logs(tables)) /\ \A x : x # DirectRun => At(Logs(tables), x) = At(tables, x)
    BY <1>1, AccountAt
  <2>3. Truth(events[Project], events[Account], Logs(tables))
    BY <1>1, <2>2, DirectRunsAreAside
  <2> QED BY <1>1, <2>1, <2>3 DEF LogsAreTrue
<1> QED BY <1>2, <1>3, <1>4

LEMMA LogsStayTrue ==
  ASSUME LogsAreKnown, LogsAreTrue, [ReadNext]_readVars
  PROVE  LogsAreTrue'
<1>1. CASE UNCHANGED readVars
  BY <1>1 DEF readVars, LogsAreTrue
<1>2. CASE ReadNext
  <2>1. CASE \E t \in Texts :
               \/ UpdateProject(t, t) \/ UpdateAccount(t, none) \/ UpdateAccount(t, t)
               \/ FinishStep(none, t) \/ RecordReview(t) \/ Answer(t) \/ Propose(t)
               \/ Decide(t, "decision.approved", "approved")
               \/ Decide(t, "decision.locked", "locked")
    BY <2>1, ProjectsAreLogged, AccountsAreLogged, WorkIsLogged, AnswersAreLogged,
       DecisionsAreLogged
  <2>2. CASE \E t, u \in Texts : SetRule(t, u) \/ BindRole(t, u) \/ Supersede(t, u)
    BY <2>2, RulesAreLogged, BindingsAreLogged, DecisionsAreLogged
  <2>3. CASE \E id \in 1..MaxEvents[topic] : RemoveRule(id)
    BY <2>3, RemovalsAreLogged
  <2>4. CASE \E to \in States, i \in 0..1 : ApplyTrigger(to, i)
    BY <2>4, TriggersAreLogged
  <2>5. CASE \/ CreateProject \/ RegisterAccount \/ RemoveAccount \/ StartWorkflow \/ Checkpoint
             \/ StartStep(none) \/ RecordEvidence \/ RecordChanges \/ Ask
    BY <2>5, ProjectsAreLogged, AccountsAreLogged, WorkIsLogged, AnswersAreLogged
  <2>6. CASE StartDirectRun \/ DeleteProject \/ \E o \in {Project, Account} : Rebuild(o)
    BY <2>6, OutsideTheLog
  <2> QED BY <1>2, <2>1, <2>2, <2>3, <2>4, <2>5, <2>6 DEF ReadNext
<1> QED BY <1>1, <1>2

\* The log is the truth, for any texts, any bounds and logs of any length: whatever was
\* appended, the tables of a project can be dropped and derived again from its log without
\* a row changing (rebuildProjections()), and any end of a log can be applied once more to
\* the tables it led to (applyEvent() upserts, and names what it changes by key).
THEOREM TablesFollowTheLog ==
  ASSUME LogsAreKnown
  PROVE  ReadInit /\ [][ReadNext]_readVars => []LogIsTheTruth
<1>1. ReadInit => LogsAreTrue
  BY LogsStartTrue
<1>2. LogsAreTrue /\ [ReadNext]_readVars => LogsAreTrue'
  BY LogsStayTrue
<1>3. LogsAreTrue => LogIsTheTruth
  <2> SUFFICES ASSUME LogsAreTrue PROVE LogIsTheTruth
    OBVIOUS
  <2>1. Rebuilt(tables, Project) = Logs(tables) /\ Rebuilt(tables, Account) = tables
    BY RebuiltIs
  <2>2. Derived(Logs(tables)) = Derived(tables)
    <3>1. KeysAreKnown(tables)
      BY DEF LogsAreTrue, Truth
    <3>2. Logs(tables) = [k \in DOMAIN tables \ {DirectRun} |-> tables[k]]
      BY DEF Logs, Without
    <3>3. {k \in DOMAIN tables \ {DirectRun} : k[1] # "runs"} =
            {k \in DOMAIN tables : k[1] # "runs"}
      BY KeysDiffer
    <3>4. DOMAIN Logs(tables) = DOMAIN tables \ {DirectRun}
      BY <3>2
    <3>5. \A k \in DOMAIN tables \ {DirectRun} : Logs(tables)[k] = tables[k]
      BY <3>2
    <3> QED BY <3>3, <3>4, <3>5 DEF Derived
  <2>3. ASSUME NEW o \in {Project, Account}, NEW k \in 1..Len(events[o])
        PROVE  Replayed(tables, SubSeq(events[o], k, Len(events[o]))) = tables
    <3> DEFINE L == events[o]
               n == Len(L)
               s == SubSeq(L, k, n)
    <3>1. IsLog(L) /\ \A j \in 0..n : Leads(tables, L, j, n, tables)
      BY DEF LogsAreTrue, Truth
    <3>2. n \in Nat
      BY <3>1, LogGrows
    <3>3. k - 1 \in 0..n /\ k - 1 \in Nat /\ k - 1 <= n /\ k \in Int /\ k <= n /\ n \in Int
      BY <3>2
    <3>4. PICK S : L \in Seq(S)
      BY <3>1 DEF IsLog
    <3>5. \A i \in k..n : L[i] \in S
      BY <3>3, <3>4
    <3> HIDE DEF L, n
    <3>6. Len(s) = n - k + 1 /\ \A i \in 1..(n - k + 1) : s[i] = L[k + i - 1]
      BY <3>3, <3>5, SubSeqProperties
    <3> HIDE DEF s
    <3>7. Len(s) = n - (k - 1) /\ \A i \in 1..(n - (k - 1)) : s[i] = L[(k - 1) + i]
      BY <3>3, <3>6
    <3>8. Leads(tables, L, k - 1, n, tables)
      BY <3>1, <3>3
    <3>9. Replayed(tables, s) = tables
      BY <3>2, <3>3, <3>7, <3>8, LeadsReplayed
    <3> QED BY <3>9 DEF s, n, L
  <2> QED BY <2>1, <2>2, <2>3 DEF LogIsTheTruth
<1> QED BY <1>1, <1>2, <1>3, PTL
=============================================================================
