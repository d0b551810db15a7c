---------------------------- MODULE GraphStore_proofs ----------------------------
(* Type correctness of the graph tables and the integrity of loop            *)
(* iterations, for any number of nodes, connections, attempts and iterations. *)
EXTENDS GraphStore, TLAPS

\* A pending call still fits the table when it commits: histories only grow.
CallsFit ==
  \A c \in Conns :
    /\ call[c].op = "record" => call[c].k <= Len(attempts[call[c].node]) + 1
    /\ call[c].op = "update" => call[c].k <= Len(attempts[call[c].node])

\* The iteration of a stored run is a positive number, and transitions exist
\* only once the run does.
RunsBeforeTransitions == run = NoRun => trans = {}

IInv == TypeOK /\ CallsFit /\ RunsBeforeTransitions
          /\ IterationChain /\ OneTransitionPerSource

-----------------------------------------------------------------------------
(* The rows a record or an update leaves behind are rows of the schema, and *)
(* no history gets shorter.                                                 *)

LEMMA InsertKeepsShape ==
  ASSUME attempts \in [Nodes -> Seq(Attempt)],
         NEW n \in Nodes, NEW k \in Nat \ {0}, k <= Len(attempts[n]) + 1,
         NEW s \in {"ready", "running"}, NEW i \in 1..MaxIteration
  PROVE  /\ InsertAttempt(attempts, n, k, s, i) \in [Nodes -> Seq(Attempt)]
         /\ \A m \in Nodes :
              Len(attempts[m]) <= Len(InsertAttempt(attempts, n, k, s, i)[m])
  <1> DEFINE row == [status |-> s, iteration |-> i, note |-> "none", edge |-> NoEdge]
             new == InsertAttempt(attempts, n, k, s, i)
  <1>1. row \in Attempt
    BY DEF Attempt, AttemptStatuses, Notes
  <1>2. attempts[n] \in Seq(Attempt) /\ Len(attempts[n]) \in Nat
    OBVIOUS
  <1>3. CASE k = NextAttempt(attempts, n)
    <2>1. new = [attempts EXCEPT ![n] = Append(attempts[n], row)]
      BY <1>3 DEF InsertAttempt, NewAttempt
    <2>2. Append(attempts[n], row) \in Seq(Attempt)
            /\ Len(Append(attempts[n], row)) = Len(attempts[n]) + 1
      BY <1>1, <1>2
    <2> QED
      BY <1>2, <2>1, <2>2
  <1>4. CASE k # NextAttempt(attempts, n)
    <2> DEFINE over == [attempts[n][k] EXCEPT !.status = s, !.iteration = i]
    <2>1. k \in 1..Len(attempts[n])
      BY <1>2, <1>4 DEF NextAttempt
    <2>2. new = [attempts EXCEPT ![n] = [attempts[n] EXCEPT ![k] = over]]
      BY <1>4, <2>1 DEF InsertAttempt
    <2>3. over \in Attempt
      <3>1. attempts[n][k] \in Attempt
        BY <1>2, <2>1
      <3>2. s \in AttemptStatuses
        BY DEF AttemptStatuses
      <3> QED
        BY <3>1, <3>2 DEF Attempt
    <2>4. /\ [attempts[n] EXCEPT ![k] = over] \in Seq(Attempt)
          /\ Len([attempts[n] EXCEPT ![k] = over]) = Len(attempts[n])
      BY <1>2, <2>1, <2>3
    <2> QED
      BY <1>2, <2>2, <2>4
  <1> QED
    BY <1>3, <1>4

LEMMA SetKeepsShape ==
  ASSUME attempts \in [Nodes -> Seq(Attempt)],
         NEW n \in Nodes, NEW k \in Nat \ {0}, k <= Len(attempts[n]),
         NEW s \in TerminalStatuses
  PROVE  /\ SetAttempt(attempts, n, k, s, "none") \in [Nodes -> Seq(Attempt)]
         /\ \A m \in Nodes :
              Len(attempts[m]) = Len(SetAttempt(attempts, n, k, s, "none")[m])
  <1> DEFINE over == [attempts[n][k] EXCEPT !.status = s, !.note = "none"]
             new == SetAttempt(attempts, n, k, s, "none")
  <1>1. attempts[n] \in Seq(Attempt) /\ k \in 1..Len(attempts[n])
    OBVIOUS
  <1>2. new = [attempts EXCEPT ![n] = [attempts[n] EXCEPT ![k] = over]]
    BY <1>1 DEF SetAttempt
  <1>3. over \in Attempt
    <2>1. attempts[n][k] \in Attempt
      BY <1>1
    <2>2. s \in AttemptStatuses /\ "none" \in Notes
      BY DEF AttemptStatuses, Notes
    <2> QED
      BY <2>1, <2>2 DEF Attempt
  <1>4. /\ [attempts[n] EXCEPT ![k] = over] \in Seq(Attempt)
        /\ Len([attempts[n] EXCEPT ![k] = over]) = Len(attempts[n])
    BY <1>1, <1>3
  <1> QED
    BY <1>2, <1>4

-----------------------------------------------------------------------------
(* A record or an update leaves every other attempt as it is.               *)

LEMMA InsertWritesOne ==
  ASSUME attempts \in [Nodes -> Seq(Attempt)],
         NEW m \in Nodes, NEW j \in Nat \ {0}, j <= Len(attempts[m]) + 1,
         NEW s \in {"ready", "running"}, NEW i \in 1..MaxIteration,
         NEW n \in Nodes, NEW k \in 1..Len(attempts[n]), ~(m = n /\ j = k)
  PROVE  /\ k <= Len(InsertAttempt(attempts, m, j, s, i)[n])
         /\ InsertAttempt(attempts, m, j, s, i)[n][k] = attempts[n][k]
  <1> DEFINE new == InsertAttempt(attempts, m, j, s, i)
  <1> SUFFICES k <= Len(new[n]) /\ new[n][k] = attempts[n][k]
    OBVIOUS
  <1>1. /\ attempts[n] \in Seq(Attempt) /\ Len(attempts[n]) \in Nat
        /\ attempts[m] \in Seq(Attempt) /\ Len(attempts[m]) \in Nat
    OBVIOUS
  <1>2. CASE j = NextAttempt(attempts, m)
    <2>1. new = [attempts EXCEPT ![m] = Append(attempts[m], NewAttempt(s, i))]
      BY <1>2 DEF InsertAttempt
    <2> HIDE DEF new
    <2>2. CASE m = n
      BY <1>1, <2>1, <2>2
    <2>3. CASE m # n
      BY <1>1, <2>1, <2>3
    <2> QED
      BY <2>2, <2>3
  <1>3. CASE j # NextAttempt(attempts, m)
    <2> DEFINE over == [attempts[m][j] EXCEPT !.status = s, !.iteration = i]
    <2>1. j \in 1..Len(attempts[m])
      BY <1>1, <1>3 DEF NextAttempt
    <2>2. new = [attempts EXCEPT ![m] = [attempts[m] EXCEPT ![j] = over]]
      BY <1>3, <2>1 DEF InsertAttempt
    <2>3. k \in DOMAIN attempts[n] /\ Len(attempts[n]) <= Len(new[n])
      BY <1>1, InsertKeepsShape
    <2>4. Len(new[n]) \in Nat
      BY InsertKeepsShape
    <2> HIDE DEF new, over
    <2>5. CASE m = n
      <3>1. new[n] = [attempts[n] EXCEPT ![j] = over]
        BY <2>2, <2>5
      <3> QED
        BY <2>3, <2>4, <2>5, <3>1, <1>1
    <2>6. CASE m # n
      BY <1>1, <2>2, <2>3, <2>4, <2>6
    <2> QED
      BY <2>5, <2>6
  <1> QED
    BY <1>2, <1>3

\* The same of a step that leaves such an insert behind.
LEMMA InsertsKeepRows ==
  ASSUME attempts \in [Nodes -> Seq(Attempt)], NEW n \in Nodes, NEW k \in 1..Len(attempts[n])
  PROVE  \A m \in Nodes, j \in Nat \ {0}, i \in 1..MaxIteration :
         \A s \in {"ready", "running"} :
           /\ attempts' = InsertAttempt(attempts, m, j, s, i)
           /\ j <= Len(attempts[m]) + 1
           /\ ~(m = n /\ j = k)
           => k <= Len(attempts'[n]) /\ attempts'[n][k] = attempts[n][k]
  BY InsertWritesOne

LEMMA SetWritesOne ==
  ASSUME attempts \in [Nodes -> Seq(Attempt)],
         NEW m \in Nodes, NEW j \in Nat \ {0}, j <= Len(attempts[m]),
         NEW s \in TerminalStatuses,
         NEW n \in Nodes, NEW k \in 1..Len(attempts[n]), ~(m = n /\ j = k)
  PROVE  /\ k <= Len(SetAttempt(attempts, m, j, s, "none")[n])
         /\ SetAttempt(attempts, m, j, s, "none")[n][k] = attempts[n][k]
  <1> DEFINE over == [attempts[m][j] EXCEPT !.status = s, !.note = "none"]
             new == SetAttempt(attempts, m, j, s, "none")
  <1> SUFFICES k <= Len(new[n]) /\ new[n][k] = attempts[n][k]
    OBVIOUS
  <1>1. /\ attempts[n] \in Seq(Attempt) /\ Len(attempts[n]) \in Nat
        /\ attempts[m] \in Seq(Attempt) /\ j \in 1..Len(attempts[m])
    OBVIOUS
  <1>2. new = [attempts EXCEPT ![m] = [attempts[m] EXCEPT ![j] = over]]
    BY <1>1 DEF SetAttempt
  <1>3. k \in DOMAIN attempts[n] /\ Len(new[n]) = Len(attempts[n])
    BY <1>1, SetKeepsShape
  <1> HIDE DEF new, over
  <1>4. CASE m = n
    <2>1. new[n] = [attempts[n] EXCEPT ![j] = over]
      BY <1>2, <1>4
    <2> QED
      BY <1>1, <1>3, <1>4, <2>1
  <1>5. CASE m # n
    BY <1>1, <1>2, <1>3, <1>5
  <1> QED
    BY <1>4, <1>5

-----------------------------------------------------------------------------
(* The inductive invariant.                                                 *)

LEMMA InitIInv == Init => IInv
  <1> SUFFICES ASSUME Init PROVE IInv
    OBVIOUS
  <1>1. TypeOK
    BY DEF Init, TypeOK, Call
  <1>2. CallsFit
    BY DEF Init, CallsFit, Idle
  <1>3. IterationChain
    BY DEF Init, IterationChain, NoRun
  <1>4. RunsBeforeTransitions /\ OneTransitionPerSource
    BY DEF Init, RunsBeforeTransitions, OneTransitionPerSource
  <1> QED
    BY <1>1, <1>2, <1>3, <1>4 DEF IInv

\* The steps that touch one connection's call, or nothing but the run's status.
LEMMA CallOnlySteps ==
  ASSUME IInv, NEW c \in Conns, NEW d \in Call, UNCHANGED tables,
         call' = [call EXCEPT ![c] = d],
         d.op = "record" => d.k <= Len(attempts[d.node]) + 1,
         d.op = "update" => d.k <= Len(attempts[d.node])
  PROVE  IInv'
  <1>1. TypeOK'
    BY DEF IInv, TypeOK, tables
  <1>2. CallsFit'
    BY DEF IInv, TypeOK, CallsFit, tables
  <1> QED
    BY <1>1, <1>2 DEF IInv, tables, IterationChain, OneTransitionPerSource,
                      RunsBeforeTransitions, NoRun

\* A step that lengthens or keeps every history and ends one call leaves the
\* other calls fitting.
LEMMA CallsStillFit ==
  ASSUME IInv, NEW c \in Conns, call' = [call EXCEPT ![c] = Idle],
         attempts' \in [Nodes -> Seq(Attempt)],
         \A m \in Nodes : Len(attempts[m]) <= Len(attempts'[m])
  PROVE  CallsFit'
  <1> SUFFICES ASSUME NEW d \in Conns
               PROVE  /\ call'[d].op = "record"
                           => call'[d].k <= Len(attempts'[call'[d].node]) + 1
                      /\ call'[d].op = "update"
                           => call'[d].k <= Len(attempts'[call'[d].node])
    BY DEF CallsFit
  <1>1. CASE d = c
    BY <1>1 DEF IInv, TypeOK, Idle
  <1>2. CASE d # c
    <2>1. call'[d] = call[d] /\ call[d] \in Call
      BY <1>2 DEF IInv, TypeOK
    <2>2. CASE call[d].op \in {"record", "update"}
      <3>1. call[d].node \in Nodes /\ call[d].k \in Nat
        BY <2>1, <2>2 DEF Call, Idle, AdvanceRequest
      <3>2. /\ Len(attempts[call[d].node]) \in Nat
            /\ Len(attempts'[call[d].node]) \in Nat
            /\ Len(attempts[call[d].node]) <= Len(attempts'[call[d].node])
        BY <3>1 DEF IInv, TypeOK
      <3>3. /\ call[d].op = "record" => call[d].k <= Len(attempts[call[d].node]) + 1
            /\ call[d].op = "update" => call[d].k <= Len(attempts[call[d].node])
        BY DEF IInv, CallsFit
      <3> QED
        BY <2>1, <3>1, <3>2, <3>3
    <2> QED
      BY <2>1, <2>2
  <1> QED
    BY <1>1, <1>2

\* A step that writes one history and ends the call keeps everything else.
LEMMA HistorySteps ==
  ASSUME IInv, NEW c \in Conns,
         call' = [call EXCEPT ![c] = Idle], UNCHANGED <<run, trans>>,
         attempts' \in [Nodes -> Seq(Attempt)],
         \A m \in Nodes : Len(attempts[m]) <= Len(attempts'[m])
  PROVE  IInv'
  <1>1. TypeOK'
    BY DEF IInv, TypeOK, Call
  <1>2. CallsFit'
    BY CallsStillFit
  <1> QED
    BY <1>1, <1>2 DEF IInv, IterationChain, OneTransitionPerSource,
                      RunsBeforeTransitions, NoRun

\* What a committed advance does to the chain of iterations.
LEMMA AdvanceKeepsIInv ==
  ASSUME IInv, NEW c \in Conns, AdvanceCommit(c)
  PROVE  IInv'
  <1> DEFINE r == call[c]
             ta == NextAttempt(attempts, r.target)
             row == [source |-> r.source, sourceAttempt |-> r.k, target |-> r.target,
                     targetAttempt |-> ta, from |-> r.from, to |-> r.from + 1]
  <1>1. /\ r.source \in Nodes /\ r.k \in Nat \ {0}
        /\ r.target \in Nodes /\ r.from \in 1..(MaxIteration - 1)
    BY DEF IInv, TypeOK, Call, Idle, AdvanceRequest, AdvanceCommit
  <1>2. /\ run \in [status : RunStatuses, iteration : 1..MaxIteration]
        /\ run.iteration = r.from
        /\ run' = [run EXCEPT !.iteration = r.from + 1]
        /\ trans' = trans \cup {row}
    BY DEF IInv, TypeOK, AdvanceCommit, AdvanceAllowed, NoRun, Transition
  <1>3. run'.iteration = r.from + 1 /\ r.from \in Nat
          /\ run' \in [status : RunStatuses, iteration : 1..MaxIteration]
    <2>1. r.from + 1 \in 1..MaxIteration /\ r.from \in Nat
      BY <1>1, GraphStoreAssumption
    <2>2. run' = [status |-> run.status, iteration |-> r.from + 1]
      BY <1>2
    <2> QED
      BY <1>2, <2>1, <2>2
  <1>4. ta \in Nat \ {0} /\ ta <= Len(attempts[r.target]) + 1
    BY <1>1 DEF IInv, TypeOK, NextAttempt
  <1>5. /\ attempts' = InsertAttempt(attempts, r.target, ta, "ready", r.from + 1)
        /\ attempts' \in [Nodes -> Seq(Attempt)]
        /\ \A m \in Nodes : Len(attempts[m]) <= Len(attempts'[m])
    <2>1. attempts' = InsertAttempt(attempts, r.target, ta, "ready", r.from + 1)
      BY DEF AdvanceCommit, RecordAttempt
    <2>2. r.from + 1 \in 1..MaxIteration
      BY <1>1, GraphStoreAssumption
    <2> QED
      BY <1>1, <1>4, <2>1, <2>2, InsertKeepsShape DEF IInv, TypeOK
  <1>6. TypeOK'
    <2>1. row \in TransitionRow
      BY <1>1, <1>3, <1>4 DEF TransitionRow
    <2>2. call' \in [Conns -> Call]
      BY DEF IInv, TypeOK, AdvanceCommit, Call
    <2> QED
      BY <1>2, <1>3, <1>5, <2>1, <2>2 DEF IInv, TypeOK
  <1>7. CallsFit'
    BY <1>5, CallsStillFit DEF AdvanceCommit
  <1>8. RunsBeforeTransitions'
    BY <1>3 DEF RunsBeforeTransitions, NoRun
  <1>9. IterationChain'
    <2>1. \A t \in trans : t.to = t.from + 1 /\ t.to <= r.from
      BY <1>2 DEF IInv, IterationChain
    <2>2. \A t \in trans' : t.to = t.from + 1 /\ t.to <= run'.iteration
      <3> SUFFICES ASSUME NEW t \in trans'
                   PROVE  t.to = t.from + 1 /\ t.to <= run'.iteration
        OBVIOUS
      <3>1. CASE t \in trans
        <4>1. t.to \in Nat
          BY <3>1 DEF IInv, TypeOK, TransitionRow
        <4> QED
          BY <1>3, <2>1, <3>1, <4>1
      <3>2. CASE t = row
        BY <1>3, <3>2
      <3> QED
        BY <1>2, <3>1, <3>2
    <2>3. \A i \in 2..run'.iteration : \E t \in trans' : t.to = i
      <3> SUFFICES ASSUME NEW i \in 2..(r.from + 1)
                   PROVE  \E t \in trans' : t.to = i
        BY <1>3
      <3>1. CASE i = r.from + 1
        <4>1. row \in trans' /\ row.to = i
          BY <1>2, <3>1
        <4> QED
          BY <4>1
      <3>2. CASE i # r.from + 1
        <4>1. i \in 2..run.iteration
          BY <1>2, <1>3, <3>2
        <4>2. \E t \in trans : t.to = i
          BY <4>1 DEF IInv, IterationChain
        <4> QED
          BY <1>2, <4>2
      <3> QED
        BY <3>1, <3>2
    <2>4. \A t, u \in trans' : t.to = u.to => t = u
      <3>1. \A t \in trans : t.to # row.to
        <4> SUFFICES ASSUME NEW t \in trans PROVE t.to # r.from + 1
          OBVIOUS
        <4>1. t.to \in Nat
          BY DEF IInv, TypeOK, TransitionRow
        <4> QED
          BY <1>3, <2>1, <4>1
      <3> QED
        BY <1>2, <3>1 DEF IInv, IterationChain
    <2> QED
      BY <2>2, <2>3, <2>4 DEF IterationChain
  <1>10. OneTransitionPerSource'
    <2>1. \A t \in trans : ~(t.source = row.source /\ t.sourceAttempt = row.sourceAttempt)
      BY DEF AdvanceCommit, AdvanceAllowed, BySource
    <2> QED
      BY <1>2, <2>1 DEF IInv, OneTransitionPerSource
  <1> QED
    BY <1>6, <1>7, <1>8, <1>9, <1>10 DEF IInv

LEMMA StepKeepsIInv == IInv /\ [Next]_vars => IInv'
  <1> SUFFICES ASSUME IInv, [Next]_vars PROVE IInv'
    OBVIOUS
  <1>1. CASE UNCHANGED vars
    BY <1>1 DEF vars, IInv, TypeOK, CallsFit, RunsBeforeTransitions,
                IterationChain, OneTransitionPerSource, NoRun
  <1>2. ASSUME NEW c \in Conns, Step(c) PROVE IInv'
    <2>1. CASE StartGraphRun(c)
      <3>1. trans = {} /\ run = NoRun
        BY <2>1 DEF StartGraphRun, IInv, RunsBeforeTransitions
      <3>2. run' = [status |-> "running", iteration |-> 1]
              /\ UNCHANGED <<attempts, trans, call>>
        BY <2>1 DEF StartGraphRun
      <3>3. TypeOK'
        <4>1. 1 \in 1..MaxIteration /\ "running" \in RunStatuses
          BY GraphStoreAssumption DEF RunStatuses
        <4> QED
          BY <3>2, <4>1 DEF IInv, TypeOK
      <3>4. CallsFit'
        BY <3>2 DEF IInv, CallsFit
      <3> QED
        BY <3>1, <3>2, <3>3, <3>4 DEF IInv, IterationChain,
           OneTransitionPerSource, RunsBeforeTransitions, NoRun
    <2>2. ASSUME NEW status \in RunUpdates, UpdateGraphRunStatus(c, status)
          PROVE  IInv'
      <3>1. run \in [status : RunStatuses, iteration : 1..MaxIteration]
              /\ status \in RunStatuses
        BY <2>2, GraphStoreAssumption DEF UpdateGraphRunStatus, IInv, TypeOK
      <3>2. run' = [status |-> status, iteration |-> run.iteration]
              /\ UNCHANGED <<attempts, trans, call>>
        BY <2>2, <3>1 DEF UpdateGraphRunStatus
      <3>3. TypeOK'
        BY <3>1, <3>2 DEF IInv, TypeOK
      <3>4. CallsFit'
        BY <3>2 DEF IInv, CallsFit
      <3> QED
        BY <3>1, <3>2, <3>3, <3>4 DEF IInv, IterationChain,
           OneTransitionPerSource, RunsBeforeTransitions, NoRun, RunStatuses
    <2>3. ASSUME NEW n \in Nodes, NEW status \in {"ready", "running"},
                 NEW i \in 1..MaxIteration, RecordCheck(c, n, status, i)
          PROVE  IInv'
      <3> DEFINE d == [op |-> "record", node |-> n, k |-> NextAttempt(attempts, n),
                       status |-> status, iteration |-> i]
      <3>1. d \in Call /\ d.k <= Len(attempts[d.node]) + 1
        BY DEF Call, IInv, TypeOK, NextAttempt
      <3> QED
        BY <2>3, <3>1, CallOnlySteps DEF RecordCheck
    <2>4. CASE RecordCommit(c)
      <3>1. /\ call[c].node \in Nodes /\ call[c].k \in Nat \ {0}
            /\ call[c].status \in {"ready", "running"}
            /\ call[c].iteration \in 1..MaxIteration
            /\ call[c].k <= Len(attempts[call[c].node]) + 1
        BY <2>4 DEF RecordCommit, IInv, TypeOK, CallsFit, Call, Idle, AdvanceRequest
      <3>2. /\ attempts' \in [Nodes -> Seq(Attempt)]
            /\ \A m \in Nodes : Len(attempts[m]) <= Len(attempts'[m])
        BY <2>4, <3>1, InsertKeepsShape DEF RecordCommit, IInv, TypeOK
      <3> QED
        BY <2>4, <3>2, HistorySteps DEF RecordCommit
    <2>5. ASSUME NEW n \in Nodes, NEW k \in 1..MaxAttempts,
                 NEW status \in EndStatuses, UpdateCheck(c, n, k, status)
          PROVE  IInv'
      <3> DEFINE d == [op |-> "update", node |-> n, k |-> k, status |-> status]
      <3>1. d \in Call /\ d.k <= Len(attempts[d.node])
        BY <2>5, GraphStoreAssumption DEF Call, UpdateCheck
      <3> QED
        BY <2>5, <3>1, CallOnlySteps DEF UpdateCheck
    <2>6. CASE UpdateCommit(c)
      <3>1. /\ call[c].node \in Nodes /\ call[c].k \in Nat \ {0}
            /\ call[c].status \in TerminalStatuses
            /\ call[c].k <= Len(attempts[call[c].node])
        BY <2>6 DEF UpdateCommit, IInv, TypeOK, CallsFit, Call, Idle, AdvanceRequest
      <3>2. /\ attempts' \in [Nodes -> Seq(Attempt)]
            /\ \A m \in Nodes : Len(attempts[m]) = Len(attempts'[m])
        BY <2>6, <3>1, SetKeepsShape DEF UpdateCommit, IInv, TypeOK
      <3>3. \A m \in Nodes : Len(attempts[m]) <= Len(attempts'[m])
        <4>1. \A m \in Nodes : Len(attempts[m]) \in Nat
          BY DEF IInv, TypeOK
        <4> QED
          BY <3>2, <4>1
      <3> QED
        BY <2>6, <3>2, <3>3, HistorySteps DEF UpdateCommit
    <2>7. ASSUME NEW s \in Nodes, NEW t \in Nodes, NEW k \in 1..MaxAttempts,
                 NEW from \in 1..MaxIteration, AdvancePreflight(c, s, k, t, from)
          PROVE  IInv'
      <3> DEFINE d == [op |-> "advance", source |-> s, k |-> k, target |-> t,
                       from |-> from]
      <3>1. from \in 1..(MaxIteration - 1)
        BY <2>7, GraphStoreAssumption DEF AdvancePreflight
      <3>2. d \in Call
        BY <3>1, GraphStoreAssumption DEF Call, AdvanceRequest
      <3> QED
        BY <2>7, <3>2, CallOnlySteps DEF AdvancePreflight
    <2>8. CASE AdvanceCommit(c)
      BY <2>8, AdvanceKeepsIInv
    <2>9. CASE AdvanceRollback(c)
      BY <2>9, CallOnlySteps DEF AdvanceRollback, Call, Idle
    <2> QED
      BY <1>2, <2>1, <2>2, <2>3, <2>4, <2>5, <2>6, <2>7, <2>8, <2>9 DEF Step
  <1> QED
    BY <1>1, <1>2 DEF Next

LEMMA AlwaysIInv == Spec => []IInv
  BY InitIInv, StepKeepsIInv, PTL DEF Spec

-----------------------------------------------------------------------------
(* The tables and pending calls always have the shape of the schema, for   *)
(* any number of nodes, connections, attempts and iterations.              *)
THEOREM TypeCorrect == Spec => []TypeOK
  <1>1. IInv => TypeOK
    BY DEF IInv
  <1> QED
    BY AlwaysIInv, <1>1, PTL

(* advanceLoopIteration: whatever connections race, each iteration is      *)
(* entered by exactly one transition from the one before.                  *)
THEOREM IterationsFormAChain == Spec => []IterationChain
  <1>1. IInv => IterationChain
    BY DEF IInv
  <1> QED
    BY AlwaysIInv, <1>1, PTL

(* advanceLoopIteration: a source attempt loops back at most once, even    *)
(* when every connection retries the request.                              *)
THEOREM SourceLoopsOnce == Spec => []OneTransitionPerSource
  <1>1. IInv => OneTransitionPerSource
    BY DEF IInv
  <1> QED
    BY AlwaysIInv, <1>1, PTL

(* advanceLoopIteration: the compare-and-set, the transition row and the   *)
(* target's ready attempt are one step.                                    *)
THEOREM AdvancesAreAtomic == Spec => AdvanceIsAtomic
  <1> DEFINE Atomic ==
        run # NoRun /\ run'.iteration # run.iteration
          => /\ run.status = "running"
             /\ run'.iteration = run.iteration + 1
             /\ \E t \in trans' \ trans :
                  /\ t.from = run.iteration
                  /\ t.targetAttempt = Len(attempts[t.target]) + 1
                  /\ Len(attempts'[t.target]) = t.targetAttempt
  <1>1. ASSUME IInv, NEW c \in Conns, Step(c), run # NoRun,
               run'.iteration # run.iteration
        PROVE  AdvanceCommit(c)
    <2>1. ~StartGraphRun(c)
      BY <1>1 DEF StartGraphRun
    <2>2. ASSUME NEW status \in RunUpdates, UpdateGraphRunStatus(c, status)
          PROVE  FALSE
      <3>1. run \in [status : RunStatuses, iteration : 1..MaxIteration]
        BY <1>1 DEF IInv, TypeOK
      <3> QED
        BY <1>1, <2>2, <3>1 DEF UpdateGraphRunStatus
    <2> QED
      BY <1>1, <2>1, <2>2 DEF Step, RecordCheck, RecordCommit, UpdateCheck,
         UpdateCommit, AdvancePreflight, AdvanceRollback, tables
  <1>2. ASSUME IInv, NEW c \in Conns, AdvanceCommit(c), run # NoRun
        PROVE  Atomic
    <2> DEFINE r == call[c]
               ta == NextAttempt(attempts, r.target)
               row == [source |-> r.source, sourceAttempt |-> r.k,
                       target |-> r.target, targetAttempt |-> ta,
                       from |-> r.from, to |-> r.from + 1]
    <2>1. r.target \in Nodes /\ run.status = "running" /\ run.iteration = r.from
            /\ trans' = trans \cup {row} /\ BySource(trans, r.source, r.k) = {}
            /\ run' = [run EXCEPT !.iteration = r.from + 1]
            /\ attempts' = RecordAttempt(attempts, r.target, "ready", r.from + 1)
      BY <1>2 DEF IInv, TypeOK, Call, Idle, AdvanceRequest, AdvanceCommit,
                  AdvanceAllowed, Transition
    <2>2. run'.iteration = run.iteration + 1
      <3>1. run \in [status : RunStatuses, iteration : 1..MaxIteration]
        BY <1>2 DEF IInv, TypeOK
      <3> QED
        BY <2>1, <3>1
    <2>3. row \in trans' \ trans
      BY <2>1 DEF BySource
    <2>4. attempts[r.target] \in Seq(Attempt) /\ attempts \in [Nodes -> Seq(Attempt)]
      BY <1>2, <2>1 DEF IInv, TypeOK
    <2>5. attempts'[r.target] = Append(attempts[r.target], NewAttempt("ready", r.from + 1))
      BY <2>1, <2>4 DEF RecordAttempt, InsertAttempt
    <2>6. Len(attempts'[r.target]) = ta /\ ta = Len(attempts[r.target]) + 1
      BY <2>4, <2>5 DEF NextAttempt
    <2> QED
      BY <2>1, <2>2, <2>3, <2>6
  <1>3. IInv /\ [Next]_vars => [Atomic]_vars
    BY <1>1, <1>2 DEF Next
  <1> QED
    BY AlwaysIInv, <1>3, PTL DEF Spec, AdvanceIsAtomic

(* updateNodeAttempt over any number of connections: once an attempt has   *)
(* ended and no call under way is about to write it, no call ever will be, *)
(* and its row stays as it is.  A check refuses what has ended, a record   *)
(* asks for the number after the last, an advance appends, and histories   *)
(* never get shorter.                                                      *)
THEOREM OutcomesBecomeFinal == Spec => OutcomesSettle
  <1> DEFINE Final == \A n \in Nodes : \A k \in 1..Len(attempts[n]) :
                        Settled(n, k) => /\ Settled(n, k)'
                                         /\ attempts'[n][k] = attempts[n][k]
  <1>1. ASSUME IInv, NEW c \in Conns, Step(c),
               NEW n \in Nodes, NEW k \in 1..Len(attempts[n]), Settled(n, k)
        PROVE  Settled(n, k)' /\ attempts'[n][k] = attempts[n][k]
    <2> DEFINE Kept == /\ k <= Len(attempts'[n])
                       /\ attempts'[n][k] = attempts[n][k]
               Unaimed == /\ \A d \in Conns \ {c} : call'[d] = call[d]
                          /\ ~(/\ call'[c].op \in {"record", "update"}
                               /\ call'[c].node = n
                               /\ call'[c].k = k)
    <2>1. /\ attempts[n] \in Seq(Attempt) /\ Len(attempts[n]) \in Nat /\ k \in Nat \ {0}
          /\ attempts[n][k].status \in TerminalStatuses
          /\ call \in [Conns -> Call]
      BY <1>1 DEF IInv, TypeOK, Settled
    <2>2. \A d \in Conns : ~(/\ call[d].op \in {"record", "update"}
                            /\ call[d].node = n
                            /\ call[d].k = k)
      BY <1>1 DEF Settled, Aimed
    <2>3. ASSUME Kept, Unaimed
          PROVE  Settled(n, k)' /\ attempts'[n][k] = attempts[n][k]
      <3>1. Aimed(n, k)' = {}
        BY <2>2, <2>3 DEF Aimed
      <3> QED
        BY <1>1, <2>1, <2>3, <3>1 DEF Settled
    <2>4. ASSUME UNCHANGED attempts PROVE Kept
      BY <1>1, <2>1, <2>4
    <2>5. ASSUME call' = [call EXCEPT ![c] = Idle] PROVE Unaimed
      BY <2>1, <2>5 DEF Idle
    <2>6. CASE StartGraphRun(c)
      BY <2>2, <2>3, <2>4, <2>6 DEF StartGraphRun
    <2>7. ASSUME NEW status \in RunUpdates, UpdateGraphRunStatus(c, status)
          PROVE  Kept /\ Unaimed
      BY <2>2, <2>4, <2>7 DEF UpdateGraphRunStatus
    <2>8. ASSUME NEW m \in Nodes, NEW status, NEW i, RecordCheck(c, m, status, i)
          PROVE  Kept /\ Unaimed
      <3>1. m = n => NextAttempt(attempts, m) # k
        BY <2>1 DEF NextAttempt
      <3> QED
        BY <2>1, <2>4, <2>8, <3>1 DEF RecordCheck, tables
    <2>9. ASSUME RecordCommit(c) PROVE Kept /\ Unaimed
      <3>1. /\ call[c].node \in Nodes /\ call[c].k \in Nat \ {0}
            /\ call[c].k <= Len(attempts[call[c].node]) + 1
            /\ call[c].status \in {"ready", "running"}
            /\ call[c].iteration \in 1..MaxIteration
            /\ ~(call[c].node = n /\ call[c].k = k)
        BY <1>1, <2>1, <2>2, <2>9 DEF RecordCommit, IInv, TypeOK, CallsFit, Call, Idle,
                                      AdvanceRequest
      <3>2. /\ attempts \in [Nodes -> Seq(Attempt)]
            /\ attempts' = InsertAttempt(attempts, call[c].node, call[c].k,
                                         call[c].status, call[c].iteration)
        BY <1>1, <2>9 DEF RecordCommit, IInv, TypeOK
      <3>3. Kept
        BY <1>1, <3>1, <3>2, InsertsKeepRows
      <3> QED
        BY <2>5, <2>9, <3>3 DEF RecordCommit
    <2>10. ASSUME NEW m \in Nodes, NEW j, NEW status, UpdateCheck(c, m, j, status)
           PROVE  Kept /\ Unaimed
      <3>1. ~(m = n /\ j = k)
        BY <2>1, <2>10 DEF UpdateCheck
      <3> QED
        BY <2>1, <2>4, <2>10, <3>1 DEF UpdateCheck, tables
    <2>11. ASSUME UpdateCommit(c) PROVE Kept /\ Unaimed
      <3>1. /\ call[c].node \in Nodes /\ call[c].k \in Nat \ {0}
            /\ call[c].k <= Len(attempts[call[c].node])
            /\ call[c].status \in TerminalStatuses
            /\ ~(call[c].node = n /\ call[c].k = k)
        BY <1>1, <2>1, <2>2, <2>11 DEF UpdateCommit, IInv, TypeOK, CallsFit, Call, Idle,
                                       AdvanceRequest
      <3>2. Kept
        BY <1>1, <2>11, <3>1, SetWritesOne DEF UpdateCommit, IInv, TypeOK
      <3> QED
        BY <2>5, <2>11, <3>2 DEF UpdateCommit
    <2>12. ASSUME NEW s, NEW t, NEW j, NEW from, AdvancePreflight(c, s, j, t, from)
           PROVE  Kept /\ Unaimed
      BY <2>1, <2>4, <2>12 DEF AdvancePreflight, tables
    <2>13. ASSUME AdvanceCommit(c) PROVE Kept /\ Unaimed
      <3> DEFINE ta == NextAttempt(attempts, call[c].target)
      <3>1. call[c].target \in Nodes /\ call[c].from + 1 \in 1..MaxIteration
        BY <2>1, <2>13, GraphStoreAssumption DEF AdvanceCommit, Call, Idle, AdvanceRequest
      <3>2. /\ ta \in Nat \ {0} /\ ta <= Len(attempts[call[c].target]) + 1
            /\ ~(call[c].target = n /\ ta = k)
        BY <1>1, <2>1, <3>1 DEF NextAttempt, IInv, TypeOK
      <3>3. /\ attempts \in [Nodes -> Seq(Attempt)]
            /\ attempts' = InsertAttempt(attempts, call[c].target, ta, "ready",
                                         call[c].from + 1)
        BY <1>1, <2>13 DEF AdvanceCommit, RecordAttempt, IInv, TypeOK
      <3>4. Kept
        BY <1>1, <3>1, <3>2, <3>3, InsertsKeepRows
      <3> QED
        BY <2>5, <2>13, <3>4 DEF AdvanceCommit
    <2>14. ASSUME AdvanceRollback(c) PROVE Kept /\ Unaimed
      BY <2>4, <2>5, <2>14 DEF AdvanceRollback, tables
    <2> HIDE DEF Kept, Unaimed
    <2> QED
      BY <1>1, <2>3, <2>6, <2>7, <2>8, <2>9, <2>10, <2>11, <2>12, <2>13, <2>14 DEF Step
  <1>2. IInv /\ [Next]_vars => [Final]_vars
    BY <1>1 DEF Next
  <1> QED
    BY AlwaysIInv, <1>2, PTL DEF Spec, OutcomesSettle

-----------------------------------------------------------------------------
(* With a single connection nothing commits between a check and its        *)
(* transaction, and the checks are as good as the transaction's own.       *)

ChecksHold ==
  \A c \in Conns :
    /\ call[c].op = "record" => call[c].k = NextAttempt(attempts, call[c].node)
    /\ call[c].op = "update" =>
         attempts[call[c].node][call[c].k].status \notin TerminalStatuses
    /\ call[c].op = "advance" =>
         /\ call[c].k <= Len(attempts[call[c].source])
         /\ attempts[call[c].source][call[c].k].status = "completed"
         /\ attempts[call[c].source][call[c].k].iteration = call[c].from

SInv == IInv /\ ChecksHold /\ TransitionsGrounded

\* A history grows, keeps the iteration of every row and every terminal row.
Extends(old, new) ==
  /\ Len(old) <= Len(new)
  /\ \A k \in 1..Len(old) :
       /\ new[k].iteration = old[k].iteration
       /\ old[k].status \in TerminalStatuses => new[k] = old[k]

HistoriesExtend == \A n \in Nodes : Extends(attempts[n], attempts'[n])

\* Appending a row extends a history.
LEMMA AppendExtends ==
  ASSUME attempts \in [Nodes -> Seq(Attempt)], NEW n \in Nodes, NEW s, NEW i,
         attempts' = RecordAttempt(attempts, n, s, i)
  PROVE  /\ HistoriesExtend
         /\ Len(attempts'[n]) = NextAttempt(attempts, n)
         /\ attempts'[n][NextAttempt(attempts, n)].iteration = i
  <1>1. attempts' = [attempts EXCEPT ![n] = Append(attempts[n], NewAttempt(s, i))]
    BY DEF RecordAttempt, InsertAttempt
  <1>2. \A m \in Nodes : attempts[m] \in Seq(Attempt) /\ Len(attempts[m]) \in Nat
    OBVIOUS
  <1>3. ASSUME NEW m \in Nodes PROVE Extends(attempts[m], attempts'[m])
    <2>1. CASE m = n
      BY <1>1, <1>2, <2>1 DEF Extends
    <2>2. CASE m # n
      BY <1>1, <1>2, <2>2 DEF Extends
    <2> QED
      BY <2>1, <2>2
  <1> QED
    BY <1>1, <1>2, <1>3 DEF HistoriesExtend, NextAttempt, NewAttempt

\* Writing an attempt that is not terminal extends a history.
LEMMA SetExtends ==
  ASSUME attempts \in [Nodes -> Seq(Attempt)], NEW n \in Nodes,
         NEW k \in 1..Len(attempts[n]), NEW s,
         attempts[n][k].status \notin TerminalStatuses,
         attempts' = SetAttempt(attempts, n, k, s, "none")
  PROVE  HistoriesExtend
  <1> DEFINE over == [attempts[n][k] EXCEPT !.status = s, !.note = "none"]
  <1>1. attempts' = [attempts EXCEPT ![n] = [attempts[n] EXCEPT ![k] = over]]
    BY DEF SetAttempt
  <1>2. \A m \in Nodes : attempts[m] \in Seq(Attempt) /\ Len(attempts[m]) \in Nat
    OBVIOUS
  <1>3. over.iteration = attempts[n][k].iteration
    <2>1. attempts[n][k] \in Attempt
      BY <1>2
    <2> QED
      BY <2>1 DEF Attempt
  <1> HIDE DEF over
  <1>4. ASSUME NEW m \in Nodes PROVE Extends(attempts[m], attempts'[m])
    <2>1. CASE m = n
      BY <1>1, <1>2, <1>3, <2>1 DEF Extends
    <2>2. CASE m # n
      BY <1>1, <1>2, <2>2 DEF Extends
    <2> QED
      BY <2>1, <2>2
  <1> QED
    BY <1>4 DEF HistoriesExtend

\* No step of a connection whose checks still hold rewrites a history.
LEMMA StepExtends ==
  ASSUME IInv, ChecksHold, [Next]_vars
  PROVE  HistoriesExtend
  <1>1. CASE UNCHANGED attempts
    <2>1. \A m \in Nodes : Len(attempts[m]) \in Nat
      BY DEF IInv, TypeOK
    <2> QED
      BY <1>1, <2>1 DEF HistoriesExtend, Extends
  <1>2. ASSUME NEW c \in Conns, RecordCommit(c) PROVE HistoriesExtend
    <2>1. call[c].node \in Nodes
            /\ attempts' = RecordAttempt(attempts, call[c].node, call[c].status,
                                         call[c].iteration)
      BY <1>2 DEF RecordCommit, ChecksHold, RecordAttempt, IInv, TypeOK, Call,
                  Idle, AdvanceRequest
    <2> QED
      BY <2>1, AppendExtends DEF IInv, TypeOK
  <1>3. ASSUME NEW c \in Conns, UpdateCommit(c) PROVE HistoriesExtend
    <2>1. /\ call[c].node \in Nodes /\ call[c].k \in Nat \ {0}
          /\ call[c].k <= Len(attempts[call[c].node])
          /\ attempts[call[c].node][call[c].k].status \notin TerminalStatuses
      BY <1>3 DEF UpdateCommit, ChecksHold, IInv, TypeOK, CallsFit, Call, Idle,
                  AdvanceRequest
    <2>2. call[c].k \in 1..Len(attempts[call[c].node])
      BY <2>1 DEF IInv, TypeOK
    <2> QED
      BY <1>3, <2>1, <2>2, SetExtends DEF UpdateCommit, IInv, TypeOK
  <1>4. ASSUME NEW c \in Conns, AdvanceCommit(c) PROVE HistoriesExtend
    <2>1. call[c].target \in Nodes
      BY <1>4 DEF AdvanceCommit, IInv, TypeOK, Call, Idle, AdvanceRequest
    <2> QED
      BY <1>4, <2>1, AppendExtends DEF AdvanceCommit, IInv, TypeOK
  <1> QED
    BY <1>1, <1>2, <1>3, <1>4 DEF Next, Step, vars, tables, StartGraphRun,
       UpdateGraphRunStatus, RecordCheck, UpdateCheck, AdvancePreflight,
       AdvanceRollback

\* Rows already referred to survive a step that extends every history.
LEMMA GroundedSurvives ==
  ASSUME IInv, TransitionsGrounded, HistoriesExtend,
         attempts' \in [Nodes -> Seq(Attempt)], NEW t \in trans
  PROVE  /\ t.sourceAttempt <= Len(attempts'[t.source])
         /\ attempts'[t.source][t.sourceAttempt].status = "completed"
         /\ attempts'[t.source][t.sourceAttempt].iteration = t.from
         /\ t.targetAttempt <= Len(attempts'[t.target])
         /\ attempts'[t.target][t.targetAttempt].iteration = t.to
  <1>1. /\ t.source \in Nodes /\ t.target \in Nodes
        /\ t.sourceAttempt \in Nat \ {0} /\ t.targetAttempt \in Nat \ {0}
    BY DEF IInv, TypeOK, TransitionRow
  <1>2. /\ Len(attempts[t.source]) \in Nat /\ Len(attempts[t.target]) \in Nat
        /\ Len(attempts'[t.source]) \in Nat /\ Len(attempts'[t.target]) \in Nat
    BY <1>1 DEF IInv, TypeOK
  <1>3. /\ t.sourceAttempt \in 1..Len(attempts[t.source])
        /\ t.targetAttempt \in 1..Len(attempts[t.target])
    BY <1>1, <1>2 DEF TransitionsGrounded
  <1>4. /\ attempts'[t.source][t.sourceAttempt] = attempts[t.source][t.sourceAttempt]
        /\ attempts'[t.target][t.targetAttempt].iteration
             = attempts[t.target][t.targetAttempt].iteration
        /\ Len(attempts[t.source]) <= Len(attempts'[t.source])
        /\ Len(attempts[t.target]) <= Len(attempts'[t.target])
    BY <1>1, <1>3 DEF HistoriesExtend, Extends, TransitionsGrounded, TerminalStatuses
  <1> QED
    BY <1>1, <1>2, <1>3, <1>4 DEF TransitionsGrounded

LEMMA SingleStep ==
  ASSUME NEW c \in Conns, \A d \in Conns : d = c, SInv, [Next]_vars
  PROVE  SInv'
  <1>1. IInv'
    BY StepKeepsIInv DEF SInv
  <1>2. HistoriesExtend
    BY StepExtends DEF SInv
  <1>3. attempts' \in [Nodes -> Seq(Attempt)]
    BY <1>1 DEF IInv, TypeOK
  <1>4. CASE UNCHANGED vars
    BY <1>1, <1>4 DEF SInv, vars, ChecksHold, TransitionsGrounded
  <1>5. CASE Step(c)
    <2>1. ChecksHold'
      <3>1. ChecksHold' <=>
              /\ call'[c].op = "record" =>
                   call'[c].k = NextAttempt(attempts', call'[c].node)
              /\ call'[c].op = "update" =>
                   attempts'[call'[c].node][call'[c].k].status \notin TerminalStatuses
              /\ call'[c].op = "advance" =>
                   /\ call'[c].k <= Len(attempts'[call'[c].source])
                   /\ attempts'[call'[c].source][call'[c].k].status = "completed"
                   /\ attempts'[call'[c].source][call'[c].k].iteration = call'[c].from
        BY DEF ChecksHold
      <3>2. CASE call'[c] = Idle
        BY <3>1, <3>2 DEF Idle
      <3>3. call \in [Conns -> Call]
        BY DEF SInv, IInv, TypeOK
      <3>4. CASE StartGraphRun(c) \/ \E s \in RunUpdates : UpdateGraphRunStatus(c, s)
        BY <3>4 DEF StartGraphRun, UpdateGraphRunStatus, SInv, ChecksHold
      <3>5. ASSUME NEW n \in Nodes, NEW s \in {"ready", "running"},
                   NEW i \in 1..MaxIteration, RecordCheck(c, n, s, i)
            PROVE  ChecksHold'
        BY <3>1, <3>3, <3>5 DEF RecordCheck, tables
      <3>6. ASSUME NEW n \in Nodes, NEW k \in 1..MaxAttempts, NEW s \in EndStatuses,
                   UpdateCheck(c, n, k, s)
            PROVE  ChecksHold'
        BY <3>1, <3>3, <3>6 DEF UpdateCheck, tables
      <3>7. ASSUME NEW s \in Nodes, NEW t \in Nodes, NEW k \in 1..MaxAttempts,
                   NEW from \in 1..MaxIteration, AdvancePreflight(c, s, k, t, from)
            PROVE  ChecksHold'
        BY <3>1, <3>3, <3>7 DEF AdvancePreflight, tables
      <3>8. CASE RecordCommit(c) \/ UpdateCommit(c) \/ AdvanceCommit(c)
                   \/ AdvanceRollback(c)
        BY <3>2, <3>3, <3>8 DEF RecordCommit, UpdateCommit, AdvanceCommit,
                                AdvanceRollback
      <3> QED
        BY <1>5, <3>4, <3>5, <3>6, <3>7, <3>8 DEF Step
    <2>2. TransitionsGrounded'
      <3>1. CASE trans' = trans
        BY <1>2, <1>3, <3>1, GroundedSurvives DEF SInv, TransitionsGrounded
      <3>2. CASE AdvanceCommit(c)
        <4> DEFINE r == call[c]
                   ta == NextAttempt(attempts, r.target)
                   row == [source |-> r.source, sourceAttempt |-> r.k,
                           target |-> r.target, targetAttempt |-> ta,
                           from |-> r.from, to |-> r.from + 1]
        <4>1. /\ r.source \in Nodes /\ r.k \in Nat \ {0} /\ r.target \in Nodes
              /\ r.k <= Len(attempts[r.source])
              /\ attempts[r.source][r.k].status = "completed"
              /\ attempts[r.source][r.k].iteration = r.from
              /\ trans' = trans \cup {row}
              /\ attempts' = RecordAttempt(attempts, r.target, "ready", r.from + 1)
          BY <3>2 DEF SInv, IInv, TypeOK, Call, Idle, AdvanceRequest, ChecksHold,
                      AdvanceCommit, Transition
        <4>2. /\ Len(attempts'[r.target]) = ta
              /\ attempts'[r.target][ta].iteration = r.from + 1
          BY <4>1, AppendExtends DEF SInv, IInv, TypeOK
        <4>3. ta \in Nat /\ Len(attempts[r.source]) \in Nat
                /\ Len(attempts'[r.source]) \in Nat
          BY <1>3, <4>1 DEF SInv, IInv, TypeOK, NextAttempt
        <4>4. /\ attempts'[r.source][r.k] = attempts[r.source][r.k]
              /\ Len(attempts[r.source]) <= Len(attempts'[r.source])
          BY <1>2, <4>1, <4>3 DEF HistoriesExtend, Extends, TerminalStatuses
        <4>5. /\ row.sourceAttempt <= Len(attempts'[row.source])
              /\ attempts'[row.source][row.sourceAttempt].status = "completed"
              /\ attempts'[row.source][row.sourceAttempt].iteration = row.from
              /\ row.targetAttempt <= Len(attempts'[row.target])
              /\ attempts'[row.target][row.targetAttempt].iteration = row.to
          <5>1. r.k <= Len(attempts'[r.source])
            BY <4>1, <4>3, <4>4
          <5>2. /\ attempts'[r.source][r.k].status = "completed"
                /\ attempts'[r.source][r.k].iteration = r.from
            BY <4>1, <4>4
          <5>3. ta <= Len(attempts'[r.target])
            BY <4>2, <4>3
          <5> QED
            BY <4>2, <5>1, <5>2, <5>3
        <4> QED
          BY <1>2, <1>3, <4>1, <4>5, GroundedSurvives DEF SInv, TransitionsGrounded
      <3> QED
        BY <1>5, <3>1, <3>2 DEF Step, tables, StartGraphRun, UpdateGraphRunStatus,
           RecordCheck, RecordCommit, UpdateCheck, UpdateCommit, AdvancePreflight,
           AdvanceRollback
    <2> QED
      BY <1>1, <2>1, <2>2 DEF SInv
  <1> QED
    BY <1>4, <1>5 DEF Next

(* On one connection, what a transition refers to stays true for ever: the *)
(* source it looped back from is completed in the iteration it left, and   *)
(* the target it activated belongs to the next.                            *)
THEOREM TransitionsStayGrounded ==
  ASSUME NEW c \in Conns, \A d \in Conns : d = c
  PROVE  Spec => []TransitionsGrounded
  <1>1. Init => SInv
    BY InitIInv DEF Init, SInv, ChecksHold, Idle, TransitionsGrounded
  <1>2. SInv /\ [Next]_vars => SInv'
    BY SingleStep
  <1>3. SInv => TransitionsGrounded
    BY DEF SInv
  <1> QED
    BY <1>1, <1>2, <1>3, PTL DEF Spec

-----------------------------------------------------------------------------
(* RunHistory brings its own copies of the table operators; they are the   *)
(* same operators.                                                         *)
LEMMA SameTables ==
  ASSUME NEW s, NEW k, NEW t, NEW i
  PROVE  /\ History!NextAttempt(attempts, t) = NextAttempt(attempts, t)
         /\ History!RecordAttempt(attempts, t, s, i) = RecordAttempt(attempts, t, s, i)
         /\ History!BySource(trans, s, k) = BySource(trans, s, k)
  <1>1. History!NextAttempt(attempts, t) = NextAttempt(attempts, t)
    BY DEF History!NextAttempt, NextAttempt
  <1>2. History!NewAttempt(s, i) = NewAttempt(s, i)
    BY DEF History!NewAttempt, NewAttempt, History!NoEdge, NoEdge
  <1>3. History!RecordAttempt(attempts, t, s, i) = RecordAttempt(attempts, t, s, i)
    BY <1>1, <1>2 DEF History!RecordAttempt, RecordAttempt, History!InsertAttempt,
                      InsertAttempt
  <1>4. History!BySource(trans, s, k) = BySource(trans, s, k)
    BY DEF History!BySource, BySource
  <1> QED
    BY <1>1, <1>3, <1>4

\* A step that extends the histories and leaves the iteration and the transitions
\* alone is progress within the iteration.
LEMMA ProgressStep ==
  ASSUME HistoriesExtend, run'.iteration = run.iteration, trans' = trans,
         attempts \in [Nodes -> Seq(Attempt)], attempts' \in [Nodes -> Seq(Attempt)]
  PROVE  History!Next
  <1>1. ASSUME NEW n \in Nodes, NEW k \in 1..Len(attempts[n])
        PROVE  /\ k <= Len(attempts'[n])
               /\ attempts'[n][k].iteration = attempts[n][k].iteration
               /\ attempts[n][k].status \in TerminalStatuses
                    => attempts'[n][k] = attempts[n][k]
    <2>1. Extends(attempts[n], attempts'[n])
      BY DEF HistoriesExtend
    <2>2. Len(attempts[n]) \in Nat /\ Len(attempts'[n]) \in Nat
      OBVIOUS
    <2> QED
      BY <2>1, <2>2 DEF Extends
  <1>2. History!TerminalStatuses = TerminalStatuses
    BY DEF History!TerminalStatuses, TerminalStatuses
  <1>3. History!HistoryGrows
    BY <1>1, <1>2 DEF History!HistoryGrows
  <1> QED
    BY <1>3 DEF History!Next, History!Progress

\* The commit of an advance whose checks still hold enters the next iteration.
LEMMA AdvanceStep ==
  ASSUME IInv, ChecksHold, NEW c \in Conns, AdvanceCommit(c)
  PROVE  History!Next
  <1> DEFINE r == call[c]
  <1>1. /\ r.source \in Nodes /\ r.target \in Nodes /\ r.k \in Nat \ {0}
        /\ r.k <= Len(attempts[r.source])
        /\ attempts[r.source][r.k].status = "completed"
        /\ attempts[r.source][r.k].iteration = r.from
    BY DEF IInv, TypeOK, Call, Idle, AdvanceRequest, ChecksHold, AdvanceCommit
  <1>2. r.k \in 1..Len(attempts[r.source])
    BY <1>1 DEF IInv, TypeOK
  <1>3. /\ run.status = "running" /\ run.iteration = r.from
        /\ BySource(trans, r.source, r.k) = {}
        /\ run' = [run EXCEPT !.iteration = run.iteration + 1]
        /\ trans' = trans \cup
             {Transition(r.source, r.k, r.target, NextAttempt(attempts, r.target),
                         run.iteration)}
        /\ attempts' = RecordAttempt(attempts, r.target, "ready", run.iteration + 1)
    BY DEF AdvanceCommit, AdvanceAllowed
  <1>4. /\ trans' = trans \cup
             {History!Transition(r.source, r.k, r.target,
                         History!NextAttempt(attempts, r.target), run.iteration)}
        /\ attempts' = History!RecordAttempt(attempts, r.target, "ready",
                                             run.iteration + 1)
        /\ History!BySource(trans, r.source, r.k) = {}
    BY <1>3, SameTables DEF History!Transition, Transition
  <1> HIDE DEF r
  <1>5. History!Advance
    BY <1>1, <1>2, <1>3, <1>4 DEF History!Advance
  <1> QED
    BY <1>5 DEF History!Next

\* Every other step begins the run, makes progress or touches no table.
LEMMA StepRefines ==
  ASSUME SInv, SInv', [Next]_vars
  PROVE  [History!Next]_(History!vars)
  <1>1. HistoriesExtend
    BY StepExtends DEF SInv
  <1>2. /\ attempts \in [Nodes -> Seq(Attempt)]
        /\ attempts' \in [Nodes -> Seq(Attempt)]
    BY DEF SInv, IInv, TypeOK
  <1>3. CASE UNCHANGED tables
    BY <1>3 DEF tables, History!vars
  <1>4. ASSUME NEW c \in Conns, StartGraphRun(c) PROVE History!Next
    BY <1>4 DEF StartGraphRun, History!Next, History!Begin, History!NotStarted, NoRun
  <1>5. ASSUME NEW c \in Conns, NEW s \in RunUpdates, UpdateGraphRunStatus(c, s)
        PROVE  History!Next
    <2>1. run'.iteration = run.iteration
      BY <1>5 DEF UpdateGraphRunStatus, SInv, IInv, TypeOK
    <2> QED
      BY <1>1, <1>2, <1>5, <2>1, ProgressStep DEF UpdateGraphRunStatus
  <1>6. ASSUME NEW c \in Conns, RecordCommit(c) \/ UpdateCommit(c)
        PROVE  History!Next
    BY <1>1, <1>2, <1>6, ProgressStep DEF RecordCommit, UpdateCommit
  <1>7. ASSUME NEW c \in Conns, AdvanceCommit(c) PROVE History!Next
    BY <1>7, AdvanceStep DEF SInv
  <1> QED
    BY <1>3, <1>4, <1>5, <1>6, <1>7 DEF Next, Step, vars, tables, RecordCheck,
       UpdateCheck, AdvancePreflight, AdvanceRollback

(* On one connection the store implements the history it promises its      *)
(* readers: checks and commits of recordNodeAttempt, updateNodeAttempt and *)
(* advanceLoopIteration together change the tables as RunHistory says.     *)
THEOREM StoreImplementsHistory ==
  ASSUME NEW c \in Conns, \A d \in Conns : d = c
  PROVE  Spec => ImplementsHistory
  <1>1. Init => SInv
    BY InitIInv DEF Init, SInv, ChecksHold, Idle, TransitionsGrounded
  <1>2. SInv /\ [Next]_vars => SInv'
    BY SingleStep
  <1>3. Init => History!Init
    BY DEF Init, History!Init, History!NotStarted, NoRun
  <1>4. SInv /\ SInv' /\ [Next]_vars => [History!Next]_(History!vars)
    BY StepRefines
  <1> QED
    BY <1>1, <1>2, <1>3, <1>4, PTL DEF Spec, ImplementsHistory, History!Spec
=============================================================================
