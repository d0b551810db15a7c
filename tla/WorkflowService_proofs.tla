------------------------ MODULE WorkflowService_proofs ------------------------
(* The rows of linear workflows stay readable, what has finished stays       *)
(* finished, waits end only by their answers, what is done was verified and  *)
(* reviewed and corrections are bounded: for any workflows, projects,        *)
(* outcomes, fingerprints, iteration cap and process deaths.                 *)
EXTENDS WorkflowService, SequenceTheorems, FiniteSetTheorems, TLAPS

Resumable == ActiveStates \ {"AWAITING_USER"}

Rows == [state       : WorkflowStates \cup {None},
         iteration   : 0..MaxIterations,
         resumeState : Resumable \cup {None},
         blockedBy   : (Workflows \X Nat) \cup {None},
         halted : BOOLEAN, finished : BOOLEAN, checkpoint : BOOLEAN]

Steps == [role    : {"planner", "user", "implementer", "system", "reviewer", None},
          ended   : BOOLEAN,
          verdict : {None, "pass", "fail"}]

Execs == [pc : SyncPoints \cup AwaitPoints, state : WorkflowStates \cup {None},
          next : Nat, turns : Nat, prints : Seq(Prints),
          aborted : BOOLEAN, isolated : BOOLEAN]

Shape ==
  /\ rows \in [Workflows -> Rows] /\ steps \in [Workflows -> Seq(Steps)]
  /\ asked \in [Workflows -> Seq(BOOLEAN)] /\ exec \in [Workflows -> Execs]
  /\ locked \subseteq Projects /\ trees \subseteq Workflows
  /\ disposing \subseteq Workflows /\ crashes \in 0..MaxCrashes

\* A readable row whose resume state is kept exactly while it is needed.
GoodRow(row) ==
  /\ RowIsValid(row)
  /\ row.finished <=> row.state \in TerminalStates
  /\ row.finished => ~row.checkpoint
  /\ row.state # "AWAITING_USER" => row.resumeState = None
  /\ row.state = None => row = NoRow

\* A row and an execution that fit each other: whoever is executed does not
\* wait, and the loop looks at the row as it is.
Fits(w, row, e) ==
  /\ GoodRow(row)
  /\ row.state = "AWAITING_USER" => \E k \in DOMAIN asked[w] : row.blockedBy = <<w, k>>
  /\ e.pc # "idle" => row.state \notin {"AWAITING_USER", None}
  /\ e.pc = "loop" => e.state = row.state

AskedHasQuestion == \A w \in Workflows : exec[w].pc = "asked" => asked[w] # << >>

IInv == /\ Shape
        /\ \A w \in Workflows : Fits(w, rows[w], exec[w])
        /\ AskedHasQuestion

\* What no step may do to a row.
StaysFinal(w) == rows[w].finished => rows'[w] = rows[w]
WokenByAnswer(w) ==
  rows[w].state = "AWAITING_USER" /\ rows'[w].state \notin {"AWAITING_USER", "CANCELLED"} =>
    /\ asked'[rows[w].blockedBy[1]][rows[w].blockedBy[2]]
    /\ rows[w].blockedBy[1] = w
    /\ rows'[w].state = rows[w].resumeState

StepIsSafe == \A w \in Workflows : StaysFinal(w) /\ WokenByAnswer(w)

-----------------------------------------------------------------------------
(* The state machine.                                                       *)

LEMMA TableShape ==
  \A m \in Transitions :
    /\ m[1] \in ActiveStates
    /\ m[2] # "questionAnswered" => m[3] \in WorkflowStates
    /\ m[3] = "AWAITING_USER" /\ m[2] # "questionAnswered" => m[2] = "questionRaised"
    /\ m[2] = "questionAnswered" => m[1] = "AWAITING_USER"
    /\ m[2] = "questionRaised" => m[3] = "AWAITING_USER"
    /\ m[2] = "correctionStarted" => m[3] = "IMPLEMENTING"
    /\ m[2] = "cancelled" => m[3] = "CANCELLED"
  <1>1. \A m \in DirectedTransitions :
          /\ m[1] \in ActiveStates
          /\ m[2] # "questionAnswered" => m[3] \in WorkflowStates \ {"AWAITING_USER"}
          /\ m[2] = "questionAnswered" => m[1] = "AWAITING_USER"
          /\ m[2] = "correctionStarted" => m[3] = "IMPLEMENTING"
          /\ m[2] \notin {"questionRaised", "cancelled"}
    BY DEF DirectedTransitions, ActiveStates, TerminalStates, HaltedStates, WorkflowStates
  <1>2. \A u \in UniversalTransitions :
          /\ u[2] \in WorkflowStates
          /\ u[1] \notin {"questionAnswered", "correctionStarted"}
          /\ u[2] = "AWAITING_USER" <=> u[1] = "questionRaised"
          /\ u[1] = "cancelled" => u[2] = "CANCELLED"
    BY DEF UniversalTransitions, ActiveStates, TerminalStates, HaltedStates, WorkflowStates
  <1>3. \A m \in {<<from, u[1], u[2]>> : from \in ActiveStates, u \in UniversalTransitions} :
          \E u \in UniversalTransitions : m[1] \in ActiveStates /\ m[2] = u[1] /\ m[3] = u[2]
    OBVIOUS
  <1> QED
    BY <1>1, <1>2, <1>3 DEF Transitions

\* Where a legal trigger of a good row leads.
LEMMA DestinationShape ==
  ASSUME NEW row \in Rows, GoodRow(row), NEW trigger,
         CanTransition(row.state, trigger)
  PROVE  /\ Destination(row, trigger) \in WorkflowStates
         /\ row.state \in ActiveStates
         /\ Destination(row, trigger) = "AWAITING_USER" <=> trigger = "questionRaised"
         /\ trigger = "questionAnswered" => /\ row.state = "AWAITING_USER"
                                            /\ Destination(row, trigger) = row.resumeState
         /\ trigger = "correctionStarted" =>
              \/ Destination(row, trigger) = "HALTED_LIMIT"
              \/ Destination(row, trigger) = "IMPLEMENTING" /\ row.iteration + 1 =< MaxIterations
         /\ trigger = "cancelled" => Destination(row, trigger) = "CANCELLED"
  <1> DEFINE m == CHOOSE x \in Transitions : x[1] = row.state /\ x[2] = trigger
  <1>1. m \in Transitions /\ m[1] = row.state /\ m[2] = trigger
    BY DEF CanTransition
  <1>2. row.state \in ActiveStates
    BY <1>1, TableShape
  <1>3. CASE trigger = "questionAnswered"
    <2>1. row.state = "AWAITING_USER"
      BY <1>1, <1>3, TableShape
    <2>2. row.resumeState \in Resumable
      BY <2>1 DEF GoodRow, RowIsValid, Rows
    <2>3. Destination(row, trigger) = row.resumeState
      BY <1>3 DEF Destination
    <2> QED
      BY <1>2, <1>3, <2>1, <2>2, <2>3 DEF Resumable, WorkflowStates
  <1>4. CASE trigger = "correctionStarted" /\ row.iteration + 1 > MaxIterations
    <2>1. Destination(row, trigger) = "HALTED_LIMIT"
      BY <1>4 DEF Destination
    <2> QED
      BY <1>2, <1>4, <2>1 DEF WorkflowStates, TerminalStates, HaltedStates
  <1>5. CASE /\ trigger # "questionAnswered"
             /\ ~(trigger = "correctionStarted" /\ row.iteration + 1 > MaxIterations)
    <2>1. Destination(row, trigger) = m[3]
      BY <1>5 DEF Destination
    <2>2. row.iteration \in Nat /\ MaxIterations \in Nat
      BY WorkflowMachineAssumption DEF Rows
    <2> HIDE DEF m
    <2>3. /\ m[3] \in WorkflowStates
          /\ m[3] = "AWAITING_USER" <=> trigger = "questionRaised"
          /\ trigger = "correctionStarted" => m[3] = "IMPLEMENTING"
          /\ trigger = "cancelled" => m[3] = "CANCELLED"
      BY <1>1, <1>5, TableShape
    <2> QED
      BY <1>2, <1>5, <2>1, <2>2, <2>3
  <1> QED
    BY <1>3, <1>4, <1>5

\* The row that a legal trigger leaves.
LEMMA AppliedShape ==
  ASSUME NEW row \in Rows, GoodRow(row), NEW trigger, CanTransition(row.state, trigger),
         NEW q \in (Workflows \X Nat) \cup {None},
         row.state = "AWAITING_USER" => trigger # "questionRaised"
  PROVE  /\ Applied(row, trigger, q) \in Rows
         /\ GoodRow(Applied(row, trigger, q))
         /\ ~row.finished
         /\ Applied(row, trigger, q).state = Destination(row, trigger)
         /\ Applied(row, trigger, q).state # None
         /\ Applied(row, trigger, q).state = "AWAITING_USER"
              => Applied(row, trigger, q).blockedBy = q
  <1> DEFINE to  == Destination(row, trigger)
             new == Applied(row, trigger, q)
  <1>1. /\ to \in WorkflowStates /\ row.state \in ActiveStates
        /\ to = "AWAITING_USER" <=> trigger = "questionRaised"
        /\ trigger = "correctionStarted" =>
             to = "HALTED_LIMIT" \/ (to = "IMPLEMENTING" /\ row.iteration + 1 =< MaxIterations)
    BY DestinationShape
  <1>2. row.state \notin TerminalStates /\ ~row.finished
    BY <1>1 DEF GoodRow, ActiveStates, TerminalStates, HaltedStates
  <1>3. /\ new.state = to
        /\ new.iteration = IF trigger = "correctionStarted" /\ to = "IMPLEMENTING"
                             THEN row.iteration + 1 ELSE row.iteration
        /\ new.resumeState = IF to = "AWAITING_USER" THEN row.state ELSE None
        /\ new.blockedBy = IF to = "AWAITING_USER" THEN q ELSE None
        /\ new.halted = (row.halted \/ to \in HaltedStates)
        /\ new.finished = (to \in TerminalStates)
        /\ new.checkpoint = (row.checkpoint /\ to \notin TerminalStates)
    BY Zenon DEF Applied
  <1> DEFINE fields == [state |-> new.state, iteration |-> new.iteration,
                        resumeState |-> new.resumeState, blockedBy |-> new.blockedBy,
                        halted |-> new.halted, finished |-> new.finished,
                        checkpoint |-> new.checkpoint]
  <1>4. new = fields
    BY Zenon DEF Applied
  <1>5. new.iteration \in 0..MaxIterations
    BY <1>1, <1>3, WorkflowMachineAssumption DEF Rows
  <1>6. new.resumeState \in Resumable \cup {None}
    BY <1>1, <1>3 DEF Resumable
  <1>7. /\ new.halted \in BOOLEAN /\ new.finished \in BOOLEAN /\ new.checkpoint \in BOOLEAN
    <2>1. row.halted \in BOOLEAN /\ row.checkpoint \in BOOLEAN
      BY DEF Rows
    <2>2. new.finished \in BOOLEAN
      <3>1. new.finished = (to \in TerminalStates)
        BY <1>3
      <3>2. CASE to \in TerminalStates
        BY <3>1, <3>2
      <3>3. CASE to \notin TerminalStates
        BY <3>1, <3>3
      <3> QED
        BY <3>2, <3>3
    <2>3. new.halted \in BOOLEAN
      BY <1>3, <2>1, Zenon
    <2>4. new.checkpoint \in BOOLEAN
      BY <1>3, <2>1, Zenon
    <2> QED
      BY <2>2, <2>3, <2>4
  <1>8. new.state \in WorkflowStates /\ new.blockedBy \in (Workflows \X Nat) \cup {None}
    BY <1>1, <1>3
  <1>9. new.state # None
    BY <1>8, WorkflowServiceAssumption
  <1> HIDE DEF new
  <1>10. new \in Rows
    BY <1>4, <1>5, <1>6, <1>7, <1>8 DEF Rows
  <1>11. GoodRow(new)
    <2>1. new.state = "AWAITING_USER" => new.resumeState # None
      <3>1. row.state # None
        BY <1>1, WorkflowServiceAssumption DEF WorkflowStates
      <3> QED
        BY <1>3, <3>1
    <2>2. new.state # "AWAITING_USER" => new.blockedBy = None /\ new.resumeState = None
      BY <1>3
    <2>3. new.state \in HaltedStates => new.halted
      BY <1>3
    <2>4. new.iteration =< MaxIterations
      BY <1>5
    <2>5. /\ new.finished <=> new.state \in TerminalStates
          /\ new.finished => ~new.checkpoint
      BY <1>3
    <2> QED
      BY <1>9, <2>1, <2>2, <2>3, <2>4, <2>5 DEF GoodRow, RowIsValid
  <1> QED
    BY <1>2, <1>3, <1>9, <1>10, <1>11 DEF new

LEMMA FinishedAcceptsNothing ==
  ASSUME NEW row, GoodRow(row), row.finished, NEW trigger
  PROVE  ~CanTransition(row.state, trigger)
  <1>1. row.state \notin ActiveStates
    BY DEF GoodRow, ActiveStates, TerminalStates, HaltedStates
  <1> QED
    BY <1>1, TableShape DEF CanTransition

-----------------------------------------------------------------------------
(* Steps that concern one workflow.                                         *)

\* w moves to row r and execution e, in keeping with the invariant.
Proper(w, r, e) ==
  /\ r \in Rows /\ e \in Execs /\ Fits(w, r, e) /\ e.pc # "asked"
  /\ rows[w].finished => r = rows[w]
  /\ rows[w].state = "AWAITING_USER" => r.state \in {"AWAITING_USER", "CANCELLED"}

Moves(w) ==
  \E r \in Rows, e \in Execs :
    /\ Proper(w, r, e)
    /\ rows' = [rows EXCEPT ![w] = r] /\ exec' = [exec EXCEPT ![w] = e]

\* The rest of the state keeps its shape.
RestShape ==
  /\ steps' \in [Workflows -> Seq(Steps)]
  /\ locked' \subseteq Projects /\ trees' \subseteq Workflows
  /\ disposing' \subseteq Workflows /\ crashes' \in 0..MaxCrashes

LEMMA LocalStep ==
  ASSUME IInv, NEW w \in Workflows, Moves(w), RestShape, asked' = asked
  PROVE  IInv' /\ StepIsSafe
  <1> PICK r \in Rows, e \in Execs :
         /\ Proper(w, r, e)
         /\ rows' = [rows EXCEPT ![w] = r] /\ exec' = [exec EXCEPT ![w] = e]
    BY DEF Moves
  <1>1. Shape'
    BY DEF IInv, Shape, RestShape
  <1>2. ASSUME NEW v \in Workflows
        PROVE  /\ rows'[v] = IF v = w THEN r ELSE rows[v]
               /\ exec'[v] = IF v = w THEN e ELSE exec[v]
    BY DEF IInv, Shape
  <1>3. \A v \in Workflows : Fits(v, rows[v], exec[v])'
    <2> TAKE v \in Workflows
    <2>1. Fits(v, rows'[v], exec'[v])
      BY <1>2 DEF IInv, Proper
    <2> QED
      BY <2>1 DEF Fits, GoodRow, RowIsValid
  <1>4. AskedHasQuestion'
    BY <1>2 DEF IInv, AskedHasQuestion, Proper
  <1>5. StepIsSafe
    BY <1>2 DEF StepIsSafe, StaysFinal, WokenByAnswer, Proper
  <1> QED
    BY <1>1, <1>3, <1>4, <1>5 DEF IInv

LEMMA RestStep ==
  ASSUME IInv, UNCHANGED <<rows, exec, asked>>, RestShape
  PROVE  IInv' /\ StepIsSafe
  <1>1. Shape'
    BY DEF IInv, Shape, RestShape
  <1>2. (\A w \in Workflows : Fits(w, rows[w], exec[w]))' /\ AskedHasQuestion'
    BY DEF IInv, Fits, GoodRow, RowIsValid, AskedHasQuestion
  <1>3. StepIsSafe
    BY DEF StepIsSafe, StaysFinal, WokenByAnswer
  <1> QED
    BY <1>1, <1>2, <1>3 DEF IInv

LEMMA Members ==
  ASSUME IInv, NEW w \in Workflows
  PROVE  /\ rows[w] \in Rows /\ exec[w] \in Execs /\ steps[w] \in Seq(Steps)
         /\ asked[w] \in Seq(BOOLEAN) /\ Fits(w, rows[w], exec[w]) /\ GoodRow(rows[w])
  BY DEF IInv, Shape, Fits

LEMMA IdleShape == Idle \in Execs /\ Idle.pc = "idle"
  BY DEF Idle, Execs, SyncPoints, AwaitPoints

\* What the rest of the state looks like after a step that leaves it alone.
LEMMA SameRest ==
  ASSUME IInv
  PROVE  /\ steps' = steps => steps' \in [Workflows -> Seq(Steps)]
         /\ locked' = locked => locked' \subseteq Projects
         /\ trees' = trees => trees' \subseteq Workflows
         /\ disposing' = disposing => disposing' \subseteq Workflows
         /\ crashes' = crashes => crashes' \in 0..MaxCrashes
  BY DEF IInv, Shape

LEMMA Leaving ==
  ASSUME IInv, NEW w \in Workflows, Leave(w), rows' = rows
  PROVE  Moves(w) /\ disposing' \subseteq Workflows
  <1>1. Proper(w, rows[w], Idle)
    <2>1. Fits(w, rows[w], Idle)
      BY Members, IdleShape DEF Fits
    <2> QED
      BY <2>1, Members, IdleShape DEF Proper
  <1>2. rows' = [rows EXCEPT ![w] = rows[w]] /\ exec' = [exec EXCEPT ![w] = Idle]
    BY DEF Leave, IInv, Shape
  <1>3. disposing' \subseteq Workflows
    BY DEF Leave, IInv, Shape
  <1> QED
    BY <1>1, <1>2, <1>3, Members, IdleShape DEF Moves

\* The row of a running workflow after a legal trigger.
LEMMA AppliedRow ==
  ASSUME IInv, NEW w \in Workflows, exec[w].pc # "idle", NEW trigger,
         NEW q \in (Workflows \X Nat) \cup {None},
         CanTransition(rows[w].state, trigger)
  PROVE  /\ Applied(rows[w], trigger, q) \in Rows
         /\ GoodRow(Applied(rows[w], trigger, q))
         /\ ~rows[w].finished /\ rows[w].state # "AWAITING_USER"
         /\ Applied(rows[w], trigger, q).state \in WorkflowStates
         /\ Applied(rows[w], trigger, q).state # None
         /\ Applied(rows[w], trigger, q).state = "AWAITING_USER"
              => trigger = "questionRaised" /\ Applied(rows[w], trigger, q).blockedBy = q
  <1>1. rows[w].state # "AWAITING_USER" /\ rows[w] \in Rows /\ GoodRow(rows[w])
    BY Members DEF Fits
  <1>2. /\ Destination(rows[w], trigger) \in WorkflowStates
        /\ Destination(rows[w], trigger) = "AWAITING_USER" <=> trigger = "questionRaised"
    BY <1>1, DestinationShape
  <1>3. /\ Applied(rows[w], trigger, q) \in Rows
        /\ GoodRow(Applied(rows[w], trigger, q))
        /\ ~rows[w].finished
        /\ Applied(rows[w], trigger, q).state = Destination(rows[w], trigger)
        /\ Applied(rows[w], trigger, q).state # None
        /\ Applied(rows[w], trigger, q).state = "AWAITING_USER"
              => Applied(rows[w], trigger, q).blockedBy = q
    BY <1>1, AppliedShape
  <1> QED
    BY <1>1, <1>2, <1>3

LEMMA ApplyingAndLeaving ==
  ASSUME IInv, NEW w \in Workflows, exec[w].pc # "idle", NEW trigger,
         NEW q \in (Workflows \X Nat) \cup {None}, ApplyAndLeave(w, trigger, q),
         trigger = "questionRaised" => \E k \in DOMAIN asked[w] : q = <<w, k>>
  PROVE  Moves(w) /\ disposing' \subseteq Workflows
  <1>1. CASE ~CanTransition(rows[w].state, trigger)
    <2>1. rows' = rows /\ Leave(w)
      BY <1>1 DEF ApplyAndLeave
    <2> QED
      BY <2>1, Leaving
  <1>2. CASE CanTransition(rows[w].state, trigger)
    <2> DEFINE r == Applied(rows[w], trigger, q)
    <2>2. /\ r \in Rows /\ GoodRow(r) /\ ~rows[w].finished
          /\ rows[w].state # "AWAITING_USER"
          /\ r.state = "AWAITING_USER" => trigger = "questionRaised" /\ r.blockedBy = q
      BY <1>2, AppliedRow
    <2>3. rows' = [rows EXCEPT ![w] = r] /\ exec' = [exec EXCEPT ![w] = Idle]
      BY <1>2 DEF ApplyAndLeave, Leave
    <2> HIDE DEF r
    <2>4. Proper(w, r, Idle)
      BY <2>2, IdleShape DEF Proper, Fits
    <2>5. disposing' \subseteq Workflows
      BY DEF ApplyAndLeave, Leave, IInv, Shape
    <2> QED
      BY <2>2, <2>3, <2>4, <2>5, IdleShape DEF Moves
  <1> QED
    BY <1>1, <1>2

LEMMA Halting ==
  ASSUME IInv, NEW w \in Workflows, exec[w].pc # "idle", NEW trigger,
         trigger # "questionRaised", Halt(w, trigger)
  PROVE  Moves(w) /\ disposing' \subseteq Workflows
  BY ApplyingAndLeaving DEF Halt

\* The row of a running workflow after a trigger that asks nothing.
LEMMA AppliedRuns ==
  ASSUME IInv, NEW w \in Workflows, exec[w].pc # "idle", NEW trigger,
         trigger # "questionRaised", CanTransition(rows[w].state, trigger),
         NEW e \in Execs, e.pc # "asked",
         e.pc = "loop" => e.state = Applied(rows[w], trigger, None).state
  PROVE  /\ Applied(rows[w], trigger, None) \in Rows
         /\ Proper(w, Applied(rows[w], trigger, None), e)
  <1> DEFINE r == Applied(rows[w], trigger, None)
  <1>2. /\ r \in Rows /\ GoodRow(r) /\ ~rows[w].finished
        /\ rows[w].state # "AWAITING_USER"
        /\ r.state \notin {"AWAITING_USER", None}
    BY AppliedRow
  <1>1. e.pc = "loop" => e.state = r.state
    OBVIOUS
  <1> HIDE DEF r
  <1>3. Proper(w, r, e)
    BY <1>1, <1>2 DEF Proper, Fits
  <1> QED
    BY <1>2, <1>3 DEF r

LEMMA ApplyingThen ==
  ASSUME IInv, NEW w \in Workflows, exec[w].pc # "idle", NEW trigger,
         trigger # "questionRaised", NEW pc \in {"loop", "correct"},
         ApplyThen(w, trigger, pc)
  PROVE  Moves(w) /\ disposing' \subseteq Workflows
  <1>1. CASE ~CanTransition(rows[w].state, trigger)
    <2>1. rows' = rows /\ Leave(w)
      BY <1>1 DEF ApplyThen
    <2> QED
      BY <2>1, Leaving
  <1>2. CASE CanTransition(rows[w].state, trigger)
    <2> DEFINE r == Applied(rows[w], trigger, None)
               e == [exec[w] EXCEPT !.pc = pc, !.state = r.state,
                                    !.turns = IF pc = "loop" THEN exec[w].turns + 1
                                                             ELSE exec[w].turns]
    <2>1. r.state \in WorkflowStates
      BY <1>2, AppliedRow
    <2>2. rows' = [rows EXCEPT ![w] = r] /\ exec' = [exec EXCEPT ![w] = e]
      <3>1. rows' = [rows EXCEPT ![w] = r]
        BY <1>2 DEF ApplyThen
      <3>2. exec' = [exec EXCEPT ![w] = e]
        BY <1>2 DEF ApplyThen
      <3> QED
        BY <3>1, <3>2
    <2>3. disposing' \subseteq Workflows
      BY <1>2, SameRest DEF ApplyThen
    <2>4. e \in Execs /\ e.pc = pc /\ e.state = r.state
      <3> HIDE DEF r
      <3>1. exec[w] \in Execs
        BY Members
      <3>2. pc \in SyncPoints /\ (IF pc = "loop" THEN exec[w].turns + 1 ELSE exec[w].turns) \in Nat
        BY <3>1 DEF Execs, SyncPoints
      <3> QED
        BY <2>1, <3>1, <3>2 DEF Execs
    <2> HIDE DEF e
    <2>5. r \in Rows /\ Proper(w, r, e)
      BY <1>2, <2>4, AppliedRuns
    <2> HIDE DEF r
    <2> QED
      BY <2>2, <2>3, <2>4, <2>5 DEF Moves
  <1> QED
    BY <1>1, <1>2

LEMMA FinishingStep ==
  ASSUME IInv, NEW w \in Workflows, NEW verdict \in {"pass", "fail"},
         FinishStep(w, verdict)
  PROVE  steps' \in [Workflows -> Seq(Steps)]
  <1> DEFINE n == Len(steps[w])
             s == [steps[w] EXCEPT ![n] = [@ EXCEPT !.ended = TRUE, !.verdict = verdict]]
  <1>1. steps[w] \in Seq(Steps) /\ n \in Nat /\ DOMAIN steps[w] = 1..n
    BY Members
  <1>2. s \in Seq(Steps)
    <2>1. CASE n = 0
      <3>1. DOMAIN s = DOMAIN steps[w] /\ DOMAIN steps[w] = {}
        BY <1>1, <2>1
      <3>2. s = [i \in {} |-> steps[w][i]] /\ steps[w] = [i \in {} |-> steps[w][i]]
        BY <3>1, <1>1
      <3> QED
        BY <1>1, <3>2, Zenon
    <2>2. CASE n # 0
      <3>1. n \in 1..n /\ steps[w][n] \in Steps
        BY <1>1, <2>2
      <3>2. [steps[w][n] EXCEPT !.ended = TRUE, !.verdict = verdict] \in Steps
        BY <3>1 DEF Steps
      <3> QED
        BY <1>1, <3>1, <3>2
    <2> QED
      BY <2>1, <2>2
  <1>3. steps' = [steps EXCEPT ![w] = s]
    BY DEF FinishStep
  <1> QED
    BY <1>2, <1>3 DEF IInv, Shape

\* What startStep() leaves: a row more, or the end of the execution.
StepStarted(w, index, pc) ==
  /\ steps' \in [Workflows -> Seq(Steps)] /\ disposing' \subseteq Workflows
  /\ \/ exec' = [exec EXCEPT ![w] = [exec[w] EXCEPT !.pc = pc, !.next = index]]
     \/ exec' = [exec EXCEPT ![w] = Idle]

LEMMA StartingStep ==
  ASSUME IInv, NEW w \in Workflows, NEW index \in Nat,
         NEW role \in {"planner", "user", "implementer", "system", "reviewer", None},
         NEW pc, StartStep(w, index, role, pc)
  PROVE  StepStarted(w, index, pc)
  <1>1. CASE index > Len(steps[w])
    <2> DEFINE row == [role |-> role, ended |-> FALSE, verdict |-> None]
    <2>1. row \in Steps
      BY DEF Steps
    <2>2. Append(steps[w], row) \in Seq(Steps)
      BY <2>1, Members
    <2>3. steps' = [steps EXCEPT ![w] = Append(steps[w], row)] /\ disposing' = disposing
      BY <1>1 DEF StartStep
    <2>4. exec' = [exec EXCEPT ![w] = [exec[w] EXCEPT !.pc = pc, !.next = index]]
      BY <1>1, Members DEF StartStep, IInv, Shape, Execs
    <2> QED
      BY <2>2, <2>3, <2>4 DEF StepStarted, IInv, Shape
  <1>2. CASE ~(index > Len(steps[w]))
    <2>1. steps' = steps /\ Leave(w)
      BY <1>2 DEF StartStep
    <2> QED
      BY <2>1 DEF StepStarted, Leave, IInv, Shape
  <1> QED
    BY <1>1, <1>2

\* The thread goes on with the row as it is.
LEMMA Going ==
  ASSUME IInv, NEW w \in Workflows, exec[w].pc # "idle",
         NEW pc \in {"boot", "prepare", "compile", "agent", "assess", "verify", "approve"},
         NEW next \in Nat, rows' = rows,
         exec' = [exec EXCEPT ![w] = [exec[w] EXCEPT !.pc = pc, !.next = next]]
  PROVE  Moves(w)
  <1> DEFINE e == [exec[w] EXCEPT !.pc = pc, !.next = next]
  <1>1. e \in Execs /\ e.pc = pc
    BY Members DEF Execs, SyncPoints, AwaitPoints
  <1>2. exec' = [exec EXCEPT ![w] = e]
    OBVIOUS
  <1> HIDE DEF e
  <1>3. Proper(w, rows[w], e)
    BY <1>1, Members DEF Proper, Fits
  <1>4. rows' = [rows EXCEPT ![w] = rows[w]]
    BY DEF IInv, Shape
  <1> QED
    BY <1>1, <1>2, <1>3, <1>4, Members DEF Moves

LEMMA GoingOn ==
  ASSUME IInv, NEW w \in Workflows, exec[w].pc # "idle",
         NEW pc \in {"boot", "prepare", "compile", "agent", "assess", "verify", "approve"},
         rows' = rows, Go(w, pc)
  PROVE  Moves(w)
  <1>1. exec[w] = [exec[w] EXCEPT !.next = exec[w].next] /\ exec[w].next \in Nat
    BY Members DEF Execs
  <1>2. exec' = [exec EXCEPT ![w] = [exec[w] EXCEPT !.pc = pc, !.next = exec[w].next]]
    <2>1. [exec[w] EXCEPT !.pc = pc] = [exec[w] EXCEPT !.pc = pc, !.next = exec[w].next]
      BY Members DEF Execs
    <2> QED
      BY <2>1 DEF Go
  <1> QED
    BY <1>1, <1>2, Going

\* What an action of Work(w) other than Ask does.
LocalOutcome(w) == Moves(w) /\ RestShape /\ asked' = asked

LEMMA BootSteps ==
  ASSUME IInv, NEW w \in Workflows,
         Execute(w) \/ Reclaim(w) \/ Throw(w) \/ LoopEnds(w)
  PROVE  LocalOutcome(w)
  <1>1. CASE Execute(w)
    <2>1. Moves(w)
      <3>1. CASE rows[w].finished
        <4>1. Proper(w, rows[w], Idle)
          BY Members, IdleShape DEF Proper, Fits
        <4>2. rows' = [rows EXCEPT ![w] = rows[w]] /\ exec' = [exec EXCEPT ![w] = Idle]
          BY <1>1, <3>1 DEF Execute, IInv, Shape
        <4> QED
          BY <4>1, <4>2, Members, IdleShape DEF Moves
      <3>2. CASE ~rows[w].finished
        BY <1>1, <3>2, GoingOn DEF Execute, At
      <3> QED
        BY <3>1, <3>2
    <2> QED
      BY <1>1, <2>1, SameRest DEF Execute, LocalOutcome, RestShape
  <1>2. CASE Reclaim(w)
    <2>1. Moves(w)
      BY <1>2, GoingOn DEF Reclaim, At
    <2>2. trees' \subseteq Workflows
      BY <1>2 DEF Reclaim, IInv, Shape
    <2> QED
      BY <1>2, <2>1, <2>2, SameRest DEF Reclaim, LocalOutcome, RestShape
  <1>3. CASE Throw(w)
    <2>1. Moves(w) /\ disposing' \subseteq Workflows
      BY <1>3, Leaving DEF Throw
    <2> QED
      BY <1>3, <2>1, SameRest DEF Throw, LocalOutcome, RestShape
  <1>4. CASE LoopEnds(w)
    <2>1. Moves(w) /\ disposing' \subseteq Workflows
      BY <1>4, Leaving DEF LoopEnds
    <2> QED
      BY <1>4, <2>1, SameRest DEF LoopEnds, LocalOutcome, RestShape
  <1> QED
    BY <1>1, <1>2, <1>3, <1>4

LEMMA PrepareStep ==
  ASSUME IInv, NEW w \in Workflows, Prepare(w)
  PROVE  LocalOutcome(w)
  <1>1. PICK isolated \in BOOLEAN, runnable \in BOOLEAN :
          /\ trees' = IF isolated THEN trees \cup {w} ELSE trees
          /\ IF runnable /\ CanTransition(rows[w].state, "start")
             THEN LET row == Applied(rows[w], "start", None) IN
                  /\ rows' = [rows EXCEPT ![w] = row]
                  /\ exec' = [exec EXCEPT ![w] =
                                [exec[w] EXCEPT !.pc = "loop", !.state = row.state,
                                                !.isolated = isolated]]
                  /\ UNCHANGED disposing
             ELSE /\ exec' = [exec EXCEPT ![w] = Idle]
                  /\ disposing' = IF isolated THEN disposing \cup {w} ELSE disposing
                  /\ UNCHANGED rows
    BY DEF Prepare
  <1>2. exec[w].pc # "idle" /\ UNCHANGED <<steps, asked, locked, crashes>>
    BY DEF Prepare, At
  <1>3. trees' \subseteq Workflows /\ disposing' \subseteq Workflows
    BY <1>1 DEF IInv, Shape
  <1>4. Moves(w)
    <2>1. CASE runnable /\ CanTransition(rows[w].state, "start")
      <3> DEFINE r == Applied(rows[w], "start", None)
                 e == [exec[w] EXCEPT !.pc = "loop", !.state = r.state, !.isolated = isolated]
      <3>1. rows' = [rows EXCEPT ![w] = r] /\ exec' = [exec EXCEPT ![w] = e]
        BY <1>1, <2>1
      <3>2. r.state \in WorkflowStates
        BY <1>2, <2>1, AppliedRow
      <3>3. e \in Execs /\ e.pc = "loop" /\ e.state = r.state
        <4> HIDE DEF r
        <4> QED
          BY <3>2, Members DEF Execs, SyncPoints
      <3> HIDE DEF e
      <3>4. r \in Rows /\ Proper(w, r, e)
        BY <1>2, <2>1, <3>3, AppliedRuns
      <3> HIDE DEF r
      <3> QED
        BY <3>1, <3>3, <3>4 DEF Moves
    <2>2. CASE ~(runnable /\ CanTransition(rows[w].state, "start"))
      <3>1. Proper(w, rows[w], Idle)
        BY Members, IdleShape DEF Proper, Fits
      <3>2. rows' = [rows EXCEPT ![w] = rows[w]] /\ exec' = [exec EXCEPT ![w] = Idle]
        BY <1>1, <2>2 DEF IInv, Shape
      <3> QED
        BY <3>1, <3>2, Members, IdleShape DEF Moves
    <2> QED
      BY <2>1, <2>2
  <1> QED
    BY <1>2, <1>3, <1>4, SameRest DEF LocalOutcome, RestShape

LEMMA RoleShape ==
  ASSUME NEW state
  PROVE  RoleOf(state) \in {"planner", "user", "implementer", "system", "reviewer", None}
  BY DEF RoleOf

LEMMA LoopSteps ==
  ASSUME IInv, NEW w \in Workflows, LoopHalts(w) \/ LoopPasses(w) \/ Correct(w)
  PROVE  LocalOutcome(w)
  <1>1. CASE LoopHalts(w)
    <2>1. PICK trigger \in LoopEnders(w) : Halt(w, trigger)
      BY <1>1 DEF LoopHalts
    <2>2. trigger # "questionRaised" /\ exec[w].pc # "idle"
      BY <1>1, <2>1 DEF LoopEnders, LoopHalts, Running, At
    <2>3. Moves(w) /\ disposing' \subseteq Workflows
      BY <2>1, <2>2, Halting
    <2> QED
      BY <1>1, <2>3, SameRest DEF LoopHalts, LocalOutcome, RestShape
  <1>2. CASE LoopPasses(w)
    <2>1. Moves(w) /\ disposing' \subseteq Workflows
      BY <1>2, ApplyingThen DEF LoopPasses, MayBegin, Running, At
    <2> QED
      BY <1>2, <2>1, SameRest DEF LoopPasses, LocalOutcome, RestShape
  <1>3. CASE Correct(w)
    <2>1. Moves(w) /\ disposing' \subseteq Workflows
      BY <1>3, ApplyingThen DEF Correct, At
    <2> QED
      BY <1>3, <2>1, SameRest DEF Correct, LocalOutcome, RestShape
  <1> QED
    BY <1>1, <1>2, <1>3

LEMMA BeginStepStep ==
  ASSUME IInv, NEW w \in Workflows, BeginStep(w)
  PROVE  LocalOutcome(w)
  <1> DEFINE r == [rows[w] EXCEPT !.checkpoint = TRUE]
             role == RoleOf(exec[w].state)
  <1>1. /\ exec[w].pc = "loop" /\ exec[w].state = rows[w].state
        /\ rows[w].state \notin TerminalStates
        /\ rows[w].state \notin {"AWAITING_USER", None}
    BY Members DEF BeginStep, MayBegin, Running, At, Fits
  <1>2. rows[w] \in Rows /\ GoodRow(rows[w]) /\ ~rows[w].finished
    BY <1>1, Members DEF GoodRow
  <1>3. /\ r \in Rows
        /\ r.state = rows[w].state /\ r.iteration = rows[w].iteration
        /\ r.resumeState = rows[w].resumeState /\ r.blockedBy = rows[w].blockedBy
        /\ r.halted = rows[w].halted /\ r.finished = rows[w].finished
    BY <1>2 DEF Rows
  <1>4. rows' = [rows EXCEPT ![w] = r]
    BY DEF BeginStep
  <1> HIDE DEF r
  <1>5. GoodRow(r)
    BY <1>1, <1>2, <1>3 DEF GoodRow, RowIsValid
  <1>6. ASSUME NEW e \in Execs, e.pc \in {"approve", "verify", "compile", "idle"},
               exec' = [exec EXCEPT ![w] = e]
        PROVE  Moves(w)
    <2>1. Proper(w, r, e)
      BY <1>1, <1>2, <1>3, <1>5, <1>6 DEF Proper, Fits
    <2> QED
      BY <1>3, <1>4, <1>6, <2>1 DEF Moves
  <1>7. exec[w] \in Execs /\ exec[w].next + 1 \in Nat
    BY Members DEF Execs
  <1>8. /\ Moves(w) /\ disposing' \subseteq Workflows
        /\ steps' \in [Workflows -> Seq(Steps)]
    <2>1. ASSUME NEW pc \in {"approve", "verify"}, StartStep(w, exec[w].next + 1, role, pc)
          PROVE  /\ Moves(w) /\ disposing' \subseteq Workflows
                 /\ steps' \in [Workflows -> Seq(Steps)]
      <3>1. StepStarted(w, exec[w].next + 1, pc)
        BY <1>7, <2>1, RoleShape, StartingStep
      <3>2. /\ [exec[w] EXCEPT !.pc = pc, !.next = exec[w].next + 1] \in Execs
            /\ [exec[w] EXCEPT !.pc = pc, !.next = exec[w].next + 1].pc = pc
        BY <1>7 DEF Execs, SyncPoints, AwaitPoints
      <3> QED
        BY <1>6, <3>1, <3>2, IdleShape DEF StepStarted
    <2>2. CASE role = "user"
      BY <2>1, <2>2 DEF BeginStep
    <2>3. CASE role = "system"
      BY <2>1, <2>3 DEF BeginStep
    <2>4. CASE role \notin {"user", "system"}
      <3>1. /\ exec' = [exec EXCEPT ![w] =
                          [exec[w] EXCEPT !.pc = "compile", !.next = exec[w].next + 1]]
            /\ UNCHANGED <<steps, disposing>>
        BY <1>7, <2>4 DEF BeginStep, IInv, Shape, Execs
      <3>2. /\ [exec[w] EXCEPT !.pc = "compile", !.next = exec[w].next + 1] \in Execs
            /\ [exec[w] EXCEPT !.pc = "compile", !.next = exec[w].next + 1].pc = "compile"
        BY <1>7 DEF Execs, AwaitPoints
      <3> QED
        BY <1>6, <3>1, <3>2, SameRest
    <2> QED
      BY <2>2, <2>3, <2>4
  <1> QED
    BY <1>8, SameRest DEF BeginStep, LocalOutcome, RestShape

\* A step row ends and the trigger of its verdict is applied.
LEMMA FinishingThen ==
  ASSUME IInv, NEW w \in Workflows, exec[w].pc # "idle", NEW verdict \in {"pass", "fail"},
         NEW trigger, trigger # "questionRaised", NEW pc \in {"loop", "correct"},
         FinishStep(w, verdict), ApplyThen(w, trigger, pc),
         UNCHANGED <<asked, locked, trees, crashes>>
  PROVE  LocalOutcome(w)
  BY FinishingStep, ApplyingThen, SameRest DEF LocalOutcome, RestShape

LEMMA VerdictSteps ==
  ASSUME IInv, NEW w \in Workflows, Approve(w) \/ Verified(w)
  PROVE  LocalOutcome(w)
  <1>1. exec[w].pc # "idle" /\ UNCHANGED <<asked, locked, trees, crashes>>
    BY DEF Approve, Verified, At
  <1>2. CASE FinishStep(w, "pass") /\ ApplyThen(w, "userApproved", "loop")
    BY <1>1, <1>2, FinishingThen
  <1>3. CASE FinishStep(w, "fail") /\ ApplyThen(w, "cancelled", "loop")
    BY <1>1, <1>3, FinishingThen
  <1>4. CASE FinishStep(w, "pass") /\ ApplyThen(w, "verified", "loop")
    BY <1>1, <1>4, FinishingThen
  <1>5. CASE FinishStep(w, "fail") /\ ApplyThen(w, "verificationFailed", "correct")
    BY <1>1, <1>5, FinishingThen
  <1> QED
    BY <1>2, <1>3, <1>4, <1>5 DEF Approve, Verified

LEMMA CompiledStep ==
  ASSUME IInv, NEW w \in Workflows, Compiled(w)
  PROVE  LocalOutcome(w)
  <1>1. exec[w].pc # "idle" /\ exec[w].next \in Nat /\ rows' = rows
    BY Members DEF Compiled, At, Execs
  <1>2. StepStarted(w, exec[w].next, "agent")
    BY <1>1, RoleShape, StartingStep DEF Compiled
  <1>3. Moves(w)
    <2>1. CASE exec' = [exec EXCEPT ![w] =
                          [exec[w] EXCEPT !.pc = "agent", !.next = exec[w].next]]
      BY <1>1, <2>1, Going
    <2>2. CASE exec' = [exec EXCEPT ![w] = Idle]
      <3>1. Proper(w, rows[w], Idle)
        BY Members, IdleShape DEF Proper, Fits
      <3>2. rows' = [rows EXCEPT ![w] = rows[w]]
        BY <1>1 DEF IInv, Shape
      <3> QED
        BY <2>2, <3>1, <3>2, Members, IdleShape DEF Moves
    <2> QED
      BY <1>2, <2>1, <2>2 DEF StepStarted
  <1> QED
    BY <1>2, <1>3, SameRest DEF StepStarted, Compiled, LocalOutcome, RestShape

LEMMA ReportSteps ==
  ASSUME IInv, NEW w \in Workflows,
         NoReport(w) \/ HaltingReport(w) \/ Accepted(w) \/ Refused(w) \/ Planned(w)
  PROVE  LocalOutcome(w)
  <1>1. exec[w].pc # "idle"
    BY DEF NoReport, HaltingReport, Accepted, Refused, Planned, At
  <1>2. CASE NoReport(w)
    <2>1. steps' \in [Workflows -> Seq(Steps)]
      BY <1>2, FinishingStep, SameRest DEF NoReport
    <2>2. Moves(w) /\ disposing' \subseteq Workflows
      BY <1>1, <1>2, Halting DEF NoReport
    <2> QED
      BY <1>2, <2>1, <2>2, SameRest DEF NoReport, LocalOutcome, RestShape
  <1>3. CASE HaltingReport(w)
    BY <1>1, <1>3, FinishingStep, Halting, SameRest DEF HaltingReport, LocalOutcome, RestShape
  <1>4. CASE Accepted(w)
    <2>1. Moves(w)
      BY <1>1, <1>4, GoingOn DEF Accepted
    <2> QED
      BY <1>4, <2>1, FinishingStep, SameRest DEF Accepted, LocalOutcome, RestShape
  <1>5. CASE Refused(w)
    BY <1>1, <1>5, Halting, SameRest DEF Refused, LocalOutcome, RestShape
  <1>6. CASE Planned(w)
    <2>1. ApplyThen(w, "planProduced", "loop")
      BY <1>6 DEF Planned, AdvanceTrigger
    <2> QED
      BY <1>1, <1>6, <2>1, ApplyingThen, SameRest DEF Planned, LocalOutcome, RestShape
  <1> QED
    BY <1>2, <1>3, <1>4, <1>5, <1>6

LEMMA ReviewedStep ==
  ASSUME IInv, NEW w \in Workflows, Reviewed(w)
  PROVE  LocalOutcome(w)
  <1>1. exec[w].pc # "idle" /\ UNCHANGED <<asked, locked, trees, crashes>>
    BY DEF Reviewed, At
  <1>2. CASE FinishStep(w, "pass") /\ ApplyThen(w, "reviewPassed", "loop")
    BY <1>1, <1>2, FinishingThen
  <1>3. CASE FinishStep(w, "fail") /\ ApplyThen(w, "reviewFailed", "correct")
    BY <1>1, <1>3, FinishingThen
  <1>4. CASE UNCHANGED steps /\ Halt(w, "policyViolated")
    BY <1>1, <1>4, Halting, SameRest DEF LocalOutcome, RestShape
  <1> QED
    BY <1>2, <1>3, <1>4 DEF Reviewed

LEMMA RaisingStep ==
  ASSUME IInv, NEW w \in Workflows, RaiseQuestion(w)
  PROVE  LocalOutcome(w)
  <1> DEFINE k == Len(asked[w])
  <1>1. asked[w] \in Seq(BOOLEAN) /\ asked[w] # << >> /\ exec[w].pc # "idle"
    BY Members DEF RaiseQuestion, At, IInv, AskedHasQuestion
  <1>2. k \in DOMAIN asked[w] /\ k \in Nat
    BY <1>1
  <1>3. ApplyAndLeave(w, "questionRaised", <<w, k>>)
    BY DEF RaiseQuestion
  <1> HIDE DEF k
  <1>4. Moves(w) /\ disposing' \subseteq Workflows
    BY <1>1, <1>2, <1>3, ApplyingAndLeaving
  <1> QED
    BY <1>4, SameRest DEF RaiseQuestion, LocalOutcome, RestShape

LEMMA ImplementedStep ==
  ASSUME IInv, NEW w \in Workflows, Implemented(w)
  PROVE  LocalOutcome(w)
  <1>1. exec[w].pc # "idle" /\ exec[w] \in Execs
    BY Members DEF Implemented, At
  <1>2. PICK prints \in {exec[w].prints} \cup {Append(exec[w].prints, p) : p \in Prints} :
          IF prints # exec[w].prints /\ Stalled(prints)
          THEN Halt(w, "limitReached")
          ELSE IF CanTransition(rows[w].state, "implemented")
          THEN LET row == Applied(rows[w], "implemented", None) IN
               /\ rows' = [rows EXCEPT ![w] = row]
               /\ exec' = [exec EXCEPT ![w] =
                             [exec[w] EXCEPT !.pc = "loop", !.state = row.state,
                                  !.turns = exec[w].turns + 1, !.prints = prints]]
               /\ UNCHANGED disposing
          ELSE UNCHANGED rows /\ Leave(w)
    BY DEF Implemented
  <1>3. prints \in Seq(Prints)
    BY <1>1, <1>2 DEF Execs
  <1>4. Moves(w) /\ disposing' \subseteq Workflows
    <2>1. CASE Halt(w, "limitReached")
      BY <1>1, <2>1, Halting
    <2>2. CASE UNCHANGED rows /\ Leave(w)
      BY <2>2, Leaving
    <2>3. CASE /\ CanTransition(rows[w].state, "implemented")
               /\ ~Halt(w, "limitReached") /\ ~(UNCHANGED rows /\ Leave(w))
      <3> DEFINE r == Applied(rows[w], "implemented", None)
                 e == [exec[w] EXCEPT !.pc = "loop", !.state = r.state,
                                      !.turns = exec[w].turns + 1, !.prints = prints]
      <3>1. rows' = [rows EXCEPT ![w] = r] /\ exec' = [exec EXCEPT ![w] = e]
        BY <1>2, <2>3
      <3>2. disposing' \subseteq Workflows
        BY <1>2, <2>3, SameRest
      <3>3. r.state \in WorkflowStates
        BY <1>1, <2>3, AppliedRow
      <3>4. e \in Execs /\ e.pc = "loop" /\ e.state = r.state
        <4> HIDE DEF r
        <4>1. "loop" \in SyncPoints \cup AwaitPoints /\ exec[w].turns + 1 \in Nat
          BY <1>1 DEF SyncPoints, Execs
        <4>2. r.state \in WorkflowStates \cup {None}
          BY <3>3
        <4> QED
          BY <1>1, <1>3, <4>1, <4>2 DEF Execs
      <3> HIDE DEF e
      <3>5. r \in Rows /\ Proper(w, r, e)
        BY <1>1, <2>3, <3>4, AppliedRuns
      <3> HIDE DEF r
      <3> QED
        BY <3>1, <3>2, <3>4, <3>5 DEF Moves
    <2> QED
      BY <1>2, <2>1, <2>2, <2>3
  <1> QED
    BY <1>4, SameRest DEF Implemented, LocalOutcome, RestShape

\* The question is on record before the workflow waits for it.
LEMMA AskStep ==
  ASSUME IInv, NEW w \in Workflows, Ask(w)
  PROVE  IInv' /\ StepIsSafe
  <1> DEFINE e == [exec[w] EXCEPT !.pc = "asked"]
             q == Append(asked[w], FALSE)
  <1>1. exec' = [exec EXCEPT ![w] = e] /\ asked' = [asked EXCEPT ![w] = q]
        /\ rows' = rows /\ exec[w].pc = "agent"
    BY DEF Ask, Go, At
  <1>2. e \in Execs /\ e.pc = "asked"
    BY Members DEF Execs, SyncPoints
  <1>3. q \in Seq(BOOLEAN) /\ q # << >> /\ DOMAIN asked[w] \subseteq DOMAIN q
    <2>1. asked[w] \in Seq(BOOLEAN) /\ FALSE \in BOOLEAN
      BY Members
    <2>2. q \in Seq(BOOLEAN) /\ Len(q) = Len(asked[w]) + 1
      BY <2>1, AppendProperties
    <2>3. Len(asked[w]) \in Nat /\ DOMAIN asked[w] = 1..Len(asked[w])
      BY <2>1
    <2> HIDE DEF q
    <2>4. DOMAIN q = 1..Len(q) /\ Len(q) # 0
      BY <2>2, <2>3
    <2>5. q # << >>
      BY <2>2, <2>4
    <2>6. DOMAIN asked[w] \subseteq DOMAIN q
      BY <2>2, <2>3, <2>4
    <2> QED
      BY <2>2, <2>5, <2>6
  <1>4. Fits(w, rows[w], exec[w]) /\ rows[w].state \notin {"AWAITING_USER", None}
    BY <1>1, Members DEF Fits
  <1> HIDE DEF e, q
  <1>5. steps' \in [Workflows -> Seq(Steps)]
    BY FinishingStep DEF Ask
  <1>6. Shape'
    BY <1>1, <1>2, <1>3, <1>5 DEF Ask, IInv, Shape
  <1>7. (\A v \in Workflows : Fits(v, rows[v], exec[v]))'
    <2> TAKE v \in Workflows
    <2>1. rows'[v] = rows[v] /\ Fits(v, rows[v], exec[v]) /\ GoodRow(rows[v])
      BY <1>1, Members
    <2>2. CASE v = w
      <3>1. exec'[v] = e
        BY <1>1, <2>2 DEF IInv, Shape
      <3> QED
        BY <1>2, <1>4, <2>1, <2>2, <3>1 DEF Fits, GoodRow, RowIsValid
    <2>3. CASE v # w
      <3>1. exec'[v] = exec[v] /\ asked'[v] = asked[v]
        BY <1>1, <2>3 DEF IInv, Shape
      <3> QED
        BY <2>1, <3>1 DEF Fits, GoodRow, RowIsValid
    <2> QED
      BY <2>2, <2>3
  <1>8. AskedHasQuestion'
    BY <1>1, <1>2, <1>3 DEF IInv, Shape, AskedHasQuestion
  <1>9. StepIsSafe
    BY <1>1 DEF StepIsSafe, StaysFinal, WokenByAnswer
  <1> QED
    BY <1>6, <1>7, <1>8, <1>9 DEF IInv

LEMMA WorkStep ==
  ASSUME IInv, NEW w \in Workflows, Work(w)
  PROVE  IInv' /\ StepIsSafe
  <1>1. CASE Ask(w)
    BY <1>1, AskStep
  <1>2. CASE ~Ask(w)
    <2>1. LocalOutcome(w)
      BY <1>2, BootSteps, PrepareStep, LoopSteps, BeginStepStep, VerdictSteps, CompiledStep,
         ReportSteps, ReviewedStep, RaisingStep, ImplementedStep DEF Work
    <2> QED
      BY <2>1, LocalStep DEF LocalOutcome
  <1> QED
    BY <1>1, <1>2

-----------------------------------------------------------------------------
(* The user's calls and process death.                                      *)

LEMMA BlankRows ==
  /\ NoRow \in Rows /\ GoodRow(NoRow) /\ NoRow.state = None /\ ~NoRow.finished
  /\ NewRow \in Rows /\ GoodRow(NewRow) /\ NewRow.state = "DISCOVERY" /\ ~NewRow.finished
  <1>1. 0 \in 0..MaxIterations /\ 0 =< MaxIterations
    BY WorkflowMachineAssumption
  <1>2. /\ "DISCOVERY" \in WorkflowStates
        /\ "DISCOVERY" \notin TerminalStates /\ "DISCOVERY" \notin HaltedStates
    BY DEF WorkflowStates, ActiveStates, TerminalStates, HaltedStates
  <1>3. None \notin TerminalStates /\ None \notin HaltedStates /\ None # "AWAITING_USER"
    BY WorkflowServiceAssumption DEF WorkflowStates, TerminalStates, ActiveStates
  <1>4. /\ NoRow.state = None /\ NoRow.iteration = 0 /\ NoRow.resumeState = None
        /\ NoRow.blockedBy = None /\ ~NoRow.finished
    BY DEF NoRow
  <1>5. NoRow \in Rows /\ GoodRow(NoRow)
    BY <1>1, <1>3, <1>4 DEF NoRow, Rows, GoodRow, RowIsValid
  <1>6. NewRow \in Rows
    <2>1. NoRow \in Rows
      BY <1>5
    <2> QED
      BY <1>2, <2>1 DEF NewRow, Rows
  <1>7. /\ NewRow.state = "DISCOVERY" /\ NewRow.iteration = 0 /\ NewRow.resumeState = None
        /\ NewRow.blockedBy = None /\ ~NewRow.finished
    BY <1>4, <1>5 DEF NewRow, Rows
  <1>8. GoodRow(NewRow)
    <2>1. NewRow.state # None
      BY <1>2, <1>7, WorkflowServiceAssumption
    <2> QED
      BY <1>1, <1>2, <1>7, <2>1 DEF GoodRow, RowIsValid
  <1> QED
    BY <1>4, <1>5, <1>6, <1>7, <1>8

LEMMA StartAction ==
  ASSUME IInv, NEW w \in Workflows, Start(w)
  PROVE  IInv' /\ StepIsSafe
  <1>1. rows[w] = NoRow /\ exec[w].pc = "idle" /\ exec[w] \in Execs
    BY Members, BlankRows DEF Start, Fits
  <1>2. NewRow \in Rows /\ NewRow.state = "DISCOVERY" /\ ~NewRow.finished /\ GoodRow(NewRow)
    BY BlankRows
  <1>4. PICK autoRun \in BOOLEAN : IF autoRun THEN Go(w, "boot") ELSE UNCHANGED exec
    BY DEF Start
  <1>5. ASSUME NEW e \in Execs, e.pc \in {"idle", "boot"},
               exec' = [exec EXCEPT ![w] = e]
        PROVE  Moves(w)
    <2>1. NewRow.state \notin {"AWAITING_USER", None}
      BY <1>2, WorkflowServiceAssumption DEF WorkflowStates, ActiveStates
    <2>2. ~rows[w].finished /\ rows[w].state # "AWAITING_USER"
      BY <1>1, BlankRows, WorkflowServiceAssumption DEF WorkflowStates, ActiveStates
    <2>3. Proper(w, NewRow, e)
      BY <1>2, <1>5, <2>1, <2>2 DEF Proper, Fits
    <2>4. rows' = [rows EXCEPT ![w] = NewRow]
      BY DEF Start
    <2> QED
      BY <1>2, <1>5, <2>3, <2>4 DEF Moves
  <1>6. Moves(w)
    <2>1. CASE autoRun
      <3>1. exec' = [exec EXCEPT ![w] = [exec[w] EXCEPT !.pc = "boot"]]
        BY <1>4, <2>1 DEF Go
      <3>2. /\ [exec[w] EXCEPT !.pc = "boot"] \in Execs
            /\ [exec[w] EXCEPT !.pc = "boot"].pc = "boot"
        BY <1>1 DEF Execs, AwaitPoints
      <3> QED
        BY <1>5, <3>1, <3>2
    <2>2. CASE ~autoRun
      <3>1. exec' = [exec EXCEPT ![w] = exec[w]]
        BY <1>4, <2>2 DEF IInv, Shape
      <3> QED
        BY <1>1, <1>5, <3>1
    <2> QED
      BY <2>1, <2>2
  <1> QED
    BY <1>6, LocalStep, SameRest DEF Start, RestShape

LEMMA CancelAction ==
  ASSUME IInv, NEW w \in Workflows, Cancel(w)
  PROVE  IInv' /\ StepIsSafe
  <1> DEFINE r == Applied(rows[w], "cancelled", None)
             e == [exec[w] EXCEPT !.aborted = exec[w].aborted
                                                \/ exec[w].pc \notin {"idle", "spawn"}]
  <1>1. /\ rows[w] \in Rows /\ GoodRow(rows[w]) /\ exec[w] \in Execs
        /\ rows[w] # NoRow /\ ~rows[w].finished
    BY Members DEF Cancel
  <1>2. rows[w].state \in ActiveStates
    BY <1>1 DEF GoodRow, Rows, WorkflowStates
  <1>3. CanTransition(rows[w].state, "cancelled")
    <2>1. <<rows[w].state, "cancelled", "CANCELLED">> \in Transitions
      BY <1>2 DEF Transitions, UniversalTransitions
    <2> QED
      BY <2>1 DEF CanTransition
  <1>4. r \in Rows /\ GoodRow(r) /\ r.state = "CANCELLED"
    BY <1>1, <1>3, AppliedShape, DestinationShape
  <1>5. rows' = [rows EXCEPT ![w] = r] /\ exec' = [exec EXCEPT ![w] = e]
    BY DEF Cancel
  <1>6. e \in Execs /\ e.pc = exec[w].pc /\ e.pc \notin {"loop", "asked"}
    <2>1. exec[w].pc \notin SyncPoints
      BY DEF Cancel, Free
    <2>2. (exec[w].aborted \/ exec[w].pc \notin {"idle", "spawn"}) \in BOOLEAN
      BY <1>1, Zenon DEF Execs
    <2>3. e \in Execs /\ e.pc = exec[w].pc
      BY <1>1, <2>2 DEF Execs
    <2> QED
      BY <2>1, <2>3 DEF SyncPoints
  <1> HIDE DEF e, r
  <1>7. Proper(w, r, e)
    BY <1>1, <1>4, <1>6, WorkflowServiceAssumption
       DEF Proper, Fits, WorkflowStates, TerminalStates
  <1>8. Moves(w)
    BY <1>4, <1>5, <1>6, <1>7 DEF Moves
  <1> QED
    BY <1>8, LocalStep, SameRest DEF Cancel, RestShape

LEMMA ApproveAction ==
  ASSUME IInv, NEW w \in Workflows, ApproveAndStartImplementation(w)
  PROVE  IInv' /\ StepIsSafe
  <1> DEFINE r == Applied(rows[w], "userApproved", None)
             e == [Idle EXCEPT !.pc = "spawn"]
  <1>1. rows[w] \in Rows /\ GoodRow(rows[w]) /\ rows[w].state = "PLAN_READY"
    BY Members DEF ApproveAndStartImplementation
  <1>2. CanTransition(rows[w].state, "userApproved")
    <2>1. <<"PLAN_READY", "userApproved", "DECISIONS_LOCKED">> \in Transitions
      BY DEF Transitions, DirectedTransitions
    <2> QED
      BY <1>1, <2>1 DEF CanTransition
  <1>3. /\ r \in Rows /\ GoodRow(r) /\ ~rows[w].finished
        /\ r.state \notin {"AWAITING_USER", None}
    BY <1>1, <1>2, AppliedShape, DestinationShape
  <1>4. rows' = [rows EXCEPT ![w] = r] /\ exec' = [exec EXCEPT ![w] = e]
    BY DEF ApproveAndStartImplementation
  <1>5. e \in Execs /\ e.pc = "spawn"
    BY IdleShape DEF Execs, AwaitPoints
  <1> HIDE DEF e, r
  <1>6. Proper(w, r, e)
    BY <1>1, <1>3, <1>5 DEF Proper, Fits
  <1>7. Moves(w)
    BY <1>3, <1>4, <1>5, <1>6 DEF Moves
  <1> QED
    BY <1>7, LocalStep, SameRest DEF ApproveAndStartImplementation, RestShape

LEMMA RestActions ==
  ASSUME IInv,
         \/ \E w \in Workflows : Dispose(w)
         \/ \E p \in Projects : LockDecision(p)
         \/ UNCHANGED vars
  PROVE  IInv' /\ StepIsSafe
  <1>1. UNCHANGED <<rows, exec, asked, steps, crashes>>
    BY DEF Dispose, LockDecision, vars
  <1>2. locked' \subseteq Projects /\ trees' \subseteq Workflows /\ disposing' \subseteq Workflows
    BY DEF Dispose, LockDecision, vars, IInv, Shape
  <1> QED
    BY <1>1, <1>2, SameRest, RestStep DEF RestShape

\* Questions stay on record, and an answered one stays answered.
LEMMA AnsweredRecord ==
  ASSUME IInv, NEW w \in Workflows, NEW k \in DOMAIN asked[w],
         asked' = [asked EXCEPT ![w][k] = TRUE]
  PROVE  /\ asked' \in [Workflows -> Seq(BOOLEAN)]
         /\ asked'[w][k]
         /\ \A v \in Workflows : DOMAIN asked'[v] = DOMAIN asked[v]
  <1> DEFINE s == [asked[w] EXCEPT ![k] = TRUE]
  <1>1. asked[w] \in Seq(BOOLEAN)
    BY Members
  <1>2. s \in Seq(BOOLEAN) /\ DOMAIN s = DOMAIN asked[w] /\ s[k] = TRUE
    BY <1>1
  <1>3. asked' = [asked EXCEPT ![w] = s]
    OBVIOUS
  <1> HIDE DEF s
  <1> QED
    BY <1>2, <1>3 DEF IInv, Shape

LEMMA AnswerAction ==
  ASSUME IInv, NEW w \in Workflows, NEW promote \in BOOLEAN, NEW k \in 1..Len(asked[w]),
         AnswerQuestion(w, k, promote)
  PROVE  IInv' /\ StepIsSafe
  <1> DEFINE q == <<w, k>>
             woken == WokenBy(q)
             r == Applied(rows[w], "questionAnswered", None)
             e == [Idle EXCEPT !.pc = "spawn"]
  <1>1. k \in DOMAIN asked[w]
    BY Members
  <1>2. /\ asked' \in [Workflows -> Seq(BOOLEAN)] /\ asked'[w][k]
        /\ \A v \in Workflows : DOMAIN asked'[v] = DOMAIN asked[v]
    BY <1>1, AnsweredRecord DEF AnswerQuestion
  <1>3. ASSUME NEW v \in woken
        PROVE  v = w /\ rows[w].state = "AWAITING_USER" /\ rows[w].blockedBy = q
    <2>1. v \in Workflows /\ rows[v].state = "AWAITING_USER" /\ rows[v].blockedBy \in {None, q}
      BY <1>3 DEF WokenBy, WaitsFor
    <2>2. PICK j \in DOMAIN asked[v] : rows[v].blockedBy = <<v, j>>
      BY <2>1, Members DEF Fits
    <2>3. j \in Nat
      BY <2>1, <2>2, Members
    <2>4. rows[v].blockedBy # None
      BY <2>1, <2>2, <2>3, WorkflowServiceAssumption
    <2> QED
      BY <2>1, <2>2, <2>4
  <1>4. ASSUME w \in woken
        PROVE  /\ r \in Rows /\ GoodRow(r) /\ ~rows[w].finished
               /\ r.state = rows[w].resumeState /\ r.state \notin {"AWAITING_USER", None}
    <2>1. rows[w].state = "AWAITING_USER" /\ rows[w] \in Rows /\ GoodRow(rows[w])
      BY <1>3, <1>4, Members
    <2>2. CanTransition(rows[w].state, "questionAnswered")
      <3>1. <<"AWAITING_USER", "questionAnswered", None>> \in Transitions
        BY DEF Transitions, DirectedTransitions
      <3> QED
        BY <2>1, <3>1 DEF CanTransition
    <2> QED
      BY <2>1, <2>2, AppliedShape, DestinationShape
  <1>5. e \in Execs /\ e.pc = "spawn"
    BY IdleShape DEF Execs, AwaitPoints
  <1>6. ASSUME NEW v \in Workflows
        PROVE  \/ v = w /\ w \in woken /\ rows'[v] = r /\ exec'[v] = e
               \/ v \notin woken /\ rows'[v] = rows[v] /\ exec'[v] = exec[v]
    BY <1>3 DEF AnswerQuestion
  <1>7. /\ rows' = [v \in Workflows |-> rows'[v]] /\ exec' = [v \in Workflows |-> exec'[v]]
        /\ locked' \subseteq Projects
        /\ UNCHANGED <<steps, trees, disposing, crashes>>
    BY DEF AnswerQuestion, IInv, Shape
  <1> HIDE DEF e, r, woken
  <1>8. ASSUME NEW v \in Workflows
        PROVE  /\ rows'[v] \in Rows /\ exec'[v] \in Execs
               /\ exec'[v].pc # "asked" /\ Fits(v, rows[v], exec[v])'
    <2>1. CASE v = w /\ w \in woken /\ rows'[v] = r /\ exec'[v] = e
      BY <1>4, <1>5, <2>1 DEF Fits, GoodRow, RowIsValid
    <2>2. CASE rows'[v] = rows[v] /\ exec'[v] = exec[v]
      <3>1. Fits(v, rows[v], exec[v]) /\ rows[v] \in Rows /\ exec[v] \in Execs
        BY Members
      <3>2. exec[v].pc # "asked"
        BY DEF AnswerQuestion, Free, SyncPoints
      <3> QED
        BY <1>2, <2>2, <3>1, <3>2 DEF Fits, GoodRow, RowIsValid
    <2> QED
      BY <1>6, <2>1, <2>2
  <1>9. Shape'
    BY <1>2, <1>7, <1>8, SameRest DEF IInv, Shape
  <1>10. AskedHasQuestion'
    BY <1>8 DEF AskedHasQuestion
  <1>11. StepIsSafe
    <2> SUFFICES ASSUME NEW v \in Workflows
                 PROVE  StaysFinal(v) /\ WokenByAnswer(v)
      BY DEF StepIsSafe
    <2>1. CASE v = w /\ w \in woken /\ rows'[v] = r /\ exec'[v] = e
      <3>1. rows[w].blockedBy = <<w, k>>
        BY <1>3, <2>1
      <3> QED
        BY <1>2, <1>4, <2>1, <3>1 DEF StaysFinal, WokenByAnswer
    <2>2. CASE rows'[v] = rows[v]
      BY <2>2 DEF StaysFinal, WokenByAnswer
    <2> QED
      BY <1>6, <2>1, <2>2
  <1> QED
    BY <1>8, <1>9, <1>10, <1>11 DEF IInv

\* The process dies: what is on disk stays, nobody is executed any more.
LEMMA DeathAction ==
  ASSUME IInv, Crash \/ CrashInAnswer
  PROVE  IInv' /\ StepIsSafe
  <1>1. /\ exec' = [w \in Workflows |-> Idle] /\ disposing' = {} /\ crashes' \in 0..MaxCrashes
        /\ UNCHANGED <<rows, steps, locked, trees>>
    BY WorkflowServiceAssumption DEF Crash, CrashInAnswer, Die, IInv, Shape
  <1>2. /\ asked' \in [Workflows -> Seq(BOOLEAN)]
        /\ \A v \in Workflows : DOMAIN asked'[v] = DOMAIN asked[v]
    <2>1. CASE Crash
      BY <2>1 DEF Crash, IInv, Shape
    <2>2. CASE CrashInAnswer
      <3>1. PICK w \in Workflows : \E k \in 1..Len(asked[w]) :
              asked' = [asked EXCEPT ![w][k] = TRUE]
        BY <2>2 DEF CrashInAnswer
      <3>2. PICK k \in 1..Len(asked[w]) : asked' = [asked EXCEPT ![w][k] = TRUE]
        BY <3>1
      <3>3. k \in DOMAIN asked[w]
        BY <3>2, Members
      <3> QED
        BY <3>2, <3>3, AnsweredRecord
    <2> QED
      BY <2>1, <2>2
  <1>3. Shape'
    BY <1>1, <1>2, IdleShape, SameRest DEF IInv, Shape
  <1>4. ASSUME NEW v \in Workflows
        PROVE  Fits(v, rows[v], exec[v])' /\ exec'[v].pc # "asked"
    <2>1. rows'[v] = rows[v] /\ exec'[v] = Idle /\ Fits(v, rows[v], exec[v])
      BY <1>1, Members
    <2> QED
      BY <1>2, <2>1, IdleShape DEF Fits, GoodRow, RowIsValid
  <1>5. AskedHasQuestion' /\ StepIsSafe
    BY <1>1, <1>4 DEF AskedHasQuestion, StepIsSafe, StaysFinal, WokenByAnswer
  <1> QED
    BY <1>3, <1>4, <1>5 DEF IInv

-----------------------------------------------------------------------------
(* The theorems.                                                            *)

LEMMA InitIInv == Init => IInv
  <1> SUFFICES ASSUME Init PROVE IInv
    OBVIOUS
  <1>1. Shape
    BY BlankRows, IdleShape, WorkflowServiceAssumption DEF Init, Shape
  <1>2. ASSUME NEW w \in Workflows PROVE Fits(w, rows[w], exec[w])
    <2>1. rows[w] = NoRow /\ exec[w] = Idle
      BY DEF Init
    <2>2. None # "AWAITING_USER"
      BY WorkflowServiceAssumption DEF WorkflowStates, ActiveStates
    <2> QED
      BY <2>1, <2>2, BlankRows, IdleShape DEF Fits
  <1>3. AskedHasQuestion
    BY IdleShape DEF Init, AskedHasQuestion
  <1> QED
    BY <1>1, <1>2, <1>3 DEF IInv

LEMMA NextIsSafe ==
  ASSUME IInv, [Next]_vars
  PROVE  IInv' /\ StepIsSafe
  <1>1. CASE \E w \in Workflows : Work(w)
    BY <1>1, WorkStep
  <1>2. CASE \E w \in Workflows : Start(w)
    BY <1>2, StartAction
  <1>3. CASE \E w \in Workflows : Cancel(w)
    BY <1>3, CancelAction
  <1>4. CASE \E w \in Workflows : ApproveAndStartImplementation(w)
    BY <1>4, ApproveAction
  <1>5. CASE Answer
    BY <1>5, AnswerAction DEF Answer
  <1>6. CASE Crash \/ CrashInAnswer
    BY <1>6, DeathAction
  <1>7. CASE \/ \E w \in Workflows : Dispose(w)
             \/ \E p \in Projects : LockDecision(p)
             \/ UNCHANGED vars
    BY <1>7, RestActions
  <1> QED
    BY <1>1, <1>2, <1>3, <1>4, <1>5, <1>6, <1>7 DEF Next

\* The invariant is inductive: every row is readable and fits its execution,
\* and whoever waits names a question on record.
THEOREM IInvHolds == Spec => []IInv
  <1>1. Init => IInv
    BY InitIInv
  <1>2. IInv /\ [Next]_vars => IInv'
    BY NextIsSafe
  <1> QED
    BY <1>1, <1>2, PTL DEF Spec

\* The rows, steps, questions, executions and worktrees of any workflows keep
\* their types (workflowStore.ts, orchestrator.ts).
THEOREM TypeCorrect == Spec => []TypeOK
  <1>1. IInv => TypeOK
    <2> SUFFICES ASSUME IInv PROVE TypeOK
      OBVIOUS
    <2>1. ASSUME NEW w \in Workflows
          PROVE  /\ rows[w] = NoRow \/ rows[w].state \in WorkflowStates
                 /\ rows[w].iteration \in Nat
                 /\ rows[w].resumeState \in WorkflowStates \cup {None}
                 /\ {rows[w].halted, rows[w].finished, rows[w].checkpoint} \subseteq BOOLEAN
      BY Members, WorkflowMachineAssumption DEF Rows, GoodRow, Resumable, WorkflowStates
    <2>2. ASSUME NEW w \in Workflows, NEW i \in DOMAIN steps[w]
          PROVE  steps[w][i].verdict \in {None, "pass", "fail"}
      <3>1. steps[w] \in Seq(Steps) /\ steps[w][i] \in Steps
        BY Members
      <3> QED
        BY <3>1 DEF Steps
    <2>3. ASSUME NEW w \in Workflows
          PROVE  /\ asked[w] \in Seq(BOOLEAN) /\ exec[w].pc \in SyncPoints \cup AwaitPoints
                 /\ exec[w].prints \in Seq(Prints)
      BY Members DEF Execs
    <2>4. /\ locked \subseteq Projects /\ trees \subseteq Workflows
          /\ disposing \subseteq Workflows /\ crashes \in 0..MaxCrashes
      BY DEF IInv, Shape
    <2> QED
      BY <2>1, <2>2, <2>3, <2>4 DEF TypeOK
  <1> QED
    BY <1>1, IInvHolds, PTL

\* Whatever the agents, the user and process death do, every row of the
\* workflows table can be read back by workflowSchema, within the iteration
\* cap, and is finished exactly when its state is terminal.
THEOREM RowsStayReadable == Spec => []RowsCanBeRead
  <1>1. IInv => RowsCanBeRead
    BY DEF IInv, Fits, GoodRow, RowsCanBeRead
  <1> QED
    BY <1>1, IInvHolds, PTL

\* A workflow that awaits the user has a question on record that it names: the
\* question is stored before the workflow waits, even across process death.
THEOREM WaitersNameTheirQuestion == Spec => []WaitersHaveAQuestion
  <1>1. IInv => WaitersHaveAQuestion
    BY DEF IInv, Fits, WaitersHaveAQuestion
  <1> QED
    BY <1>1, IInvHolds, PTL

\* Nothing moves a finished workflow: no late agent, second cancel or answer.
THEOREM FinishedIsFinal == Spec => TerminalIsFinal
  <1>1. IInv /\ [Next]_vars => [\A w \in Workflows : rows[w].finished => rows'[w] = rows[w]]_vars
    BY NextIsSafe DEF StepIsSafe, StaysFinal
  <1> QED
    BY <1>1, IInvHolds, PTL DEF Spec, TerminalIsFinal

\* Of all the workflows of all the projects that answerQuestion() looks at, an
\* answer wakes only the one that asked, in the state in which it asked.
THEOREM WaitsEndByTheirAnswer == Spec => OnlyTheAnswerWakes
  <1> DEFINE A == \A w \in Workflows :
       rows[w].state = "AWAITING_USER" /\ rows'[w].state \notin {"AWAITING_USER", "CANCELLED"} =>
         /\ asked'[rows[w].blockedBy[1]][rows[w].blockedBy[2]]
         /\ rows[w].blockedBy[1] = w
         /\ rows'[w].state = rows[w].resumeState
  <1>1. IInv /\ [Next]_vars => [A]_vars
    BY NextIsSafe DEF StepIsSafe, WokenByAnswer
  <1> QED
    BY <1>1, IInvHolds, PTL DEF Spec, OnlyTheAnswerWakes

-----------------------------------------------------------------------------
(* The runs: an invariant of the one execution that gets past the trigger    *)
(* start.                                                                    *)

\* Before run() has applied its first trigger.
Fresh == {"idle", "spawn", "boot", "prepare"}

Implementers(s) == {i \in DOMAIN s : s[i].role = "implementer"}
Ended(s, k) == \A i \in 1..k : s[i].ended

\* The steps up to the k-th end with an implementation, its verification, its review.
MadeAt(s, k) == k > 0 /\ s[k].role = "implementer"
CheckedAt(s, k) ==
  k > 0 /\ s[k].role = "system" /\ s[k].verdict = "pass" /\ MadeAt(s, k - 1)
ReviewedAt(s, k) ==
  k > 0 /\ s[k].role = "reviewer" /\ s[k].verdict = "pass" /\ CheckedAt(s, k - 1)

\* The turns of the loop that it takes at most to come to a state, without corrections.
Rank(state) ==
  CASE state = "PLANNING" -> 0 [] state = "PLAN_READY" -> 1 [] state = "DECISIONS_LOCKED" -> 2
    [] state = "IMPLEMENTING" -> 3 [] state = "VERIFYING" -> 4
    [] state \in {"REVIEWING", "CORRECTION_REQUIRED"} -> 5 [] OTHER -> 6

LEMMA RankIs ==
  /\ Rank("PLANNING") = 0 /\ Rank("PLAN_READY") = 1 /\ Rank("DECISIONS_LOCKED") = 2
  /\ Rank("IMPLEMENTING") = 3 /\ Rank("VERIFYING") = 4 /\ Rank("REVIEWING") = 5
  /\ Rank("CORRECTION_REQUIRED") = 5
  /\ Rank("DONE") = 6 /\ Rank("CANCELLED") = 6 /\ Rank("HALTED_LIMIT") = 6
  /\ \A state : Rank(state) \in 0..6
BY DEF Rank

\* A turn more, a state further.
LEMMA TurnTaken ==
  ASSUME NEW turns \in Nat, NEW it \in Nat, NEW from, NEW to,
         turns =< Rank(from) + 3 * it
  PROVE  /\ Rank(from) < Rank(to) => turns + 1 =< Rank(to) + 3 * it
         /\ Rank(from) =< Rank(to) => turns =< Rank(to) + 3 * it
BY RankIs

\* The states in which a point of run() can be.
PointFits(e) ==
  /\ e.state \notin {None, "DISCOVERY", "AWAITING_USER"}
  /\ e.pc = "approve" => e.state = "PLAN_READY"
  /\ e.pc = "verify" => e.state = "VERIFYING"
  /\ e.pc = "correct" => e.state = "CORRECTION_REQUIRED"
  /\ e.pc \in {"compile", "agent", "assess"} =>
       e.state \in {"PLANNING", "IMPLEMENTING", "REVIEWING"}
  /\ e.pc = "asked" => e.state # "DONE"

\* The last steps are those that lead to the state.
StepsLeadHere(s, e) ==
  LET n == Len(s) IN
  /\ e.pc \in {"loop", "compile"} /\ e.state = "VERIFYING" => MadeAt(s, n)
  /\ e.pc \in {"loop", "compile"} /\ e.state = "REVIEWING" => CheckedAt(s, n)
  /\ e.pc \in {"approve", "verify", "agent", "assess"} => n > 0 /\ s[n].role = RoleOf(e.state)
  /\ e.pc = "verify" => MadeAt(s, n - 1)
  /\ e.pc \in {"agent", "assess"} /\ e.state = "REVIEWING" => CheckedAt(s, n - 1)

\* The implementation of this iteration is still to come.
ToImplement(e) ==
  \/ e.state \in {"PLANNING", "PLAN_READY", "DECISIONS_LOCKED"}
  \/ e.state = "IMPLEMENTING" /\ e.pc \in {"loop", "compile"}

\* run() counts its steps as the rows do, and its state is the row's unless that was cancelled.
UnderWay(r, s, e) ==
  /\ r.state \in {e.state, "CANCELLED"} /\ PointFits(e)
  /\ e.next = IF e.pc = "compile" THEN Len(s) + 1 ELSE Len(s)
  /\ Ended(s, IF e.pc \in {"approve", "verify", "agent"} THEN Len(s) - 1 ELSE Len(s))
  /\ StepsLeadHere(s, e)
  /\ ToImplement(e) => Cardinality(Implementers(s)) =< r.iteration
  /\ e.turns =< Rank(e.state) + 3 * r.iteration

\* What the row and the steps say whoever executes them.
Recorded(r, s) ==
  /\ r.state \in {None, "DISCOVERY"} => s = << >>
  /\ r.resumeState # "DISCOVERY"
  /\ r.state = "DONE" => ReviewedAt(s, Len(s)) /\ Ended(s, Len(s))
  /\ Cardinality(Implementers(s)) =< r.iteration + 1

NoneRepeats(prints) == \A i \in 2..Len(prints) : prints[i] # prints[i - 1]

Course(r, s, e) ==
  /\ Recorded(r, s) /\ NoneRepeats(e.prints)
  /\ e.pc \in Fresh => e.next = 0 /\ e.turns = 0 /\ e.prints = << >>
  /\ e.pc \notin Fresh => UnderWay(r, s, e)

CourseInv == \A w \in Workflows : Course(rows[w], steps[w], exec[w])

-----------------------------------------------------------------------------
(* Steps and their number.                                                  *)

LEMMA ImplementersCount ==
  ASSUME NEW s \in Seq(Steps)
  PROVE  IsFiniteSet(Implementers(s)) /\ Cardinality(Implementers(s)) \in Nat
<1>1. DOMAIN s = 1..Len(s) /\ Len(s) \in Nat
  OBVIOUS
<1>2. IsFiniteSet(1..Len(s))
  BY <1>1, FS_Interval
<1>3. IsFiniteSet(Implementers(s))
  BY <1>1, <1>2, FS_Subset DEF Implementers
<1> QED BY <1>3, FS_CardinalityType

\* Nobody has implemented yet.
LEMMA NoStepNoImplementer == Cardinality(Implementers(<< >>)) = 0
<1>1. Implementers(<< >>) = {}
  BY DEF Implementers
<1> QED BY <1>1, FS_EmptySet

\* finishStep() ends the last row and changes nothing else.
Finishes(s, t, verdict) ==
  /\ t \in Seq(Steps) /\ Len(t) = Len(s) /\ Implementers(t) = Implementers(s)
  /\ \A i \in 1..Len(s) : t[i].role = s[i].role
  /\ \A i \in 1..(Len(s) - 1) : t[i] = s[i]
  /\ t[Len(s)].ended /\ t[Len(s)].verdict = verdict

LEMMA FinishStepFinishes ==
  ASSUME IInv, NEW w \in Workflows, NEW verdict \in {"pass", "fail"}, Len(steps[w]) > 0,
         FinishStep(w, verdict)
  PROVE  Finishes(steps[w], steps'[w], verdict)
<1> DEFINE s == steps[w]
           n == Len(s)
           last == [s[n] EXCEPT !.ended = TRUE, !.verdict = verdict]
           t == [s EXCEPT ![n] = last]
<1>1. s \in Seq(Steps) /\ n \in Nat /\ DOMAIN s = 1..n /\ n \in 1..n /\ s[n] \in Steps
  BY Members
<1>2. steps'[w] = t
  BY DEF FinishStep, IInv, Shape
<1>3. last \in Steps /\ last.role = s[n].role /\ last.ended /\ last.verdict = verdict
  BY <1>1 DEF Steps
<1> HIDE DEF last
<1>4. t \in Seq(Steps) /\ DOMAIN t = 1..n /\ Len(t) = n /\ t[n] = last
  BY <1>1, <1>3
<1>5. \A i \in 1..n : t[i] = IF i = n THEN last ELSE s[i]
  BY <1>1
<1> HIDE DEF t
<1>6. \A i \in 1..n : t[i].role = s[i].role
  BY <1>3, <1>5
<1>7. Implementers(t) = Implementers(s)
  BY <1>1, <1>4, <1>6 DEF Implementers
<1>8. \A i \in 1..(n - 1) : t[i] = s[i]
  BY <1>1, <1>5
<1> QED BY <1>2, <1>3, <1>4, <1>6, <1>7, <1>8 DEF Finishes

\* startStep() adds a row.
Begins(s, t, role) ==
  /\ t \in Seq(Steps) /\ Len(t) = Len(s) + 1
  /\ \A i \in 1..Len(s) : t[i] = s[i]
  /\ t[Len(t)].role = role
  /\ Cardinality(Implementers(t)) =< Cardinality(Implementers(s)) + 1
  /\ role # "implementer" => Cardinality(Implementers(t)) = Cardinality(Implementers(s))

LEMMA AppendBegins ==
  ASSUME NEW s \in Seq(Steps), NEW row \in Steps
  PROVE  Begins(s, Append(s, row), row.role)
<1> DEFINE t == Append(s, row)
           n == Len(s)
<1>1. n \in Nat /\ DOMAIN s = 1..n
  OBVIOUS
<1>2. t \in Seq(Steps) /\ Len(t) = n + 1 /\ t[n + 1] = row /\ \A i \in 1..n : t[i] = s[i]
  BY AppendProperties
<1>3. DOMAIN t = 1..(n + 1)
  BY <1>1, <1>2
<1> HIDE DEF t
<1>4. n + 1 \notin Implementers(s)
  BY <1>1 DEF Implementers
<1>5. IsFiniteSet(Implementers(s)) /\ Cardinality(Implementers(s)) \in Nat
  BY ImplementersCount
<1>6. CASE row.role = "implementer"
  <2>1. Implementers(t) = Implementers(s) \cup {n + 1}
    BY <1>1, <1>2, <1>3, <1>6 DEF Implementers
  <2>2. Cardinality(Implementers(t)) = Cardinality(Implementers(s)) + 1
    BY <1>4, <1>5, <2>1, FS_AddElement
  <2> QED BY <1>2, <1>5, <1>6, <2>2 DEF Begins, t
<1>7. CASE row.role # "implementer"
  <2>1. Implementers(t) = Implementers(s)
    BY <1>1, <1>2, <1>3, <1>7 DEF Implementers
  <2> QED BY <1>2, <1>5, <1>7, <2>1 DEF Begins, t
<1> QED BY <1>6, <1>7

-----------------------------------------------------------------------------
(* Where the triggers of an execution lead.                                 *)

\* What leads from where, for the triggers of the loop, and where, for those that end it.
Leads(from, trigger, to) ==
  /\ trigger = "start" => from = "DISCOVERY" /\ to = "PLANNING"
  /\ trigger = "planProduced" => from = "PLANNING" /\ to = "PLAN_READY"
  /\ trigger = "userApproved" => from = "PLAN_READY" /\ to = "DECISIONS_LOCKED"
  /\ trigger = "implementationStarted" => from = "DECISIONS_LOCKED" /\ to = "IMPLEMENTING"
  /\ trigger = "implemented" => from = "IMPLEMENTING" /\ to = "VERIFYING"
  /\ trigger = "verified" => from = "VERIFYING" /\ to = "REVIEWING"
  /\ trigger = "verificationFailed" => from = "VERIFYING" /\ to = "CORRECTION_REQUIRED"
  /\ trigger = "reviewPassed" => from = "REVIEWING" /\ to = "DONE"
  /\ trigger = "reviewFailed" => from = "REVIEWING" /\ to = "CORRECTION_REQUIRED"
  /\ trigger = "correctionStarted" => from = "CORRECTION_REQUIRED"
  /\ trigger = "limitReached" => to = "HALTED_LIMIT"
  /\ trigger = "policyViolated" => to = "HALTED_POLICY"
  /\ trigger = "cancelled" => to = "CANCELLED"
  /\ trigger = "questionRaised" => to = "AWAITING_USER"

LEMMA TableLeads == \A m \in Transitions : Leads(m[1], m[2], m[3])
<1>1. \A m \in DirectedTransitions : Leads(m[1], m[2], m[3])
  BY DEF DirectedTransitions, Leads
<1>2. ASSUME NEW from \in ActiveStates, NEW u \in UniversalTransitions
      PROVE  Leads(from, u[1], u[2])
  BY DEF UniversalTransitions, Leads
<1>3. \A m \in {<<from, u[1], u[2]>> : from \in ActiveStates, u \in UniversalTransitions} :
        Leads(m[1], m[2], m[3])
  BY <1>2
<1> QED BY <1>1, <1>3 DEF Transitions

\* What a legal trigger of a run does to its row.
LEMMA AppliedLeads ==
  ASSUME NEW row \in Rows, GoodRow(row), NEW trigger, trigger # "questionAnswered",
         CanTransition(row.state, trigger), NEW q
  PROVE  LET new == Applied(row, trigger, q) IN
         /\ trigger # "correctionStarted" =>
              Leads(row.state, trigger, new.state) /\ new.iteration = row.iteration
         /\ trigger = "correctionStarted" =>
              /\ row.state = "CORRECTION_REQUIRED"
              /\ \/ new.state = "HALTED_LIMIT" /\ new.iteration = row.iteration
                 \/ new.state = "IMPLEMENTING" /\ new.iteration = row.iteration + 1
         /\ new.resumeState \in {row.state, None}
<1> DEFINE new == Applied(row, trigger, q)
           m == CHOOSE x \in Transitions : x[1] = row.state /\ x[2] = trigger
<1>1. m \in Transitions /\ m[1] = row.state /\ m[2] = trigger
  BY DEF CanTransition
<1>2. /\ new.state = Destination(row, trigger)
      /\ new.iteration =
           IF trigger = "correctionStarted" /\ Destination(row, trigger) = "IMPLEMENTING"
             THEN row.iteration + 1 ELSE row.iteration
      /\ new.resumeState \in {row.state, None}
  BY DEF Applied
<1> HIDE DEF new
<1>3. CASE trigger = "correctionStarted"
  <2>1. row.state = "CORRECTION_REQUIRED"
    BY <1>1, <1>3, TableLeads DEF Leads
  <2>2. Destination(row, trigger) \in {"HALTED_LIMIT", "IMPLEMENTING"}
    BY <1>3, DestinationShape
  <2> QED BY <1>2, <1>3, <2>1, <2>2 DEF new
<1>4. CASE trigger # "correctionStarted"
  <2>1. Destination(row, trigger) = m[3]
    BY <1>4 DEF Destination
  <2>2. Leads(row.state, trigger, m[3])
    <3> HIDE DEF m
    <3> QED BY <1>1, TableLeads
  <2> QED BY <1>2, <1>4, <2>1, <2>2 DEF new
<1> QED BY <1>3, <1>4

-----------------------------------------------------------------------------
(* Steps of one workflow.                                                   *)

\* The values of one workflow that the lemmas below speak of.
Typed(w) ==
  /\ rows[w] \in Rows /\ steps[w] \in Seq(Steps) /\ exec[w] \in Execs
  /\ rows[w].iteration \in Nat /\ Len(steps[w]) \in Nat
  /\ Cardinality(Implementers(steps[w])) \in Nat /\ exec[w].turns \in Nat

LEMMA AllTyped ==
  ASSUME IInv, NEW w \in Workflows PROVE Typed(w)
<1>1. rows[w] \in Rows /\ steps[w] \in Seq(Steps) /\ exec[w] \in Execs
  BY Members
<1>2. rows[w].iteration \in Nat
  BY <1>1, WorkflowMachineAssumption DEF Rows
<1>3. exec[w].turns \in Nat
  BY <1>1 DEF Execs
<1> QED BY <1>1, <1>2, <1>3, ImplementersCount DEF Typed

OthersStay(w) ==
  \A v \in Workflows \ {w} :
    rows'[v] = rows[v] /\ steps'[v] = steps[v] /\ exec'[v] = exec[v]

CourseAt(w)  == Course(rows[w], steps[w], exec[w])

LEMMA OneGoesOn ==
  ASSUME CourseInv, NEW w \in Workflows, OthersStay(w), CourseAt(w)' PROVE CourseInv'
<1> SUFFICES ASSUME NEW v \in Workflows PROVE CourseAt(v)'
  BY DEF CourseInv, CourseAt
<1>1. CASE v = w
  BY <1>1
<1>2. CASE v # w
  <2>1. CourseAt(v) /\ rows'[v] = rows[v] /\ steps'[v] = steps[v] /\ exec'[v] = exec[v]
    BY <1>2 DEF CourseInv, CourseAt, OthersStay
  <2> QED BY <2>1 DEF CourseAt
<1> QED BY <1>1, <1>2

LEMMA IdleIsFresh ==
  /\ Idle.pc = "idle" /\ Idle.next = 0 /\ Idle.turns = 0 /\ Idle.prints = << >>
  /\ NoneRepeats(Idle.prints)
BY DEF Idle, NoneRepeats

\* The execution is over.
LEMMA Stopping ==
  ASSUME NEW w \in Workflows, exec'[w] = Idle, Recorded(rows'[w], steps'[w])
  PROVE  CourseAt(w)'
BY IdleIsFresh DEF CourseAt, Course, Fresh

\* Whatever the steps are, a row in any other state is recorded well.
LEMMA PlainlyRecorded ==
  ASSUME NEW r, r.state \notin {None, "DISCOVERY", "DONE"}, r.resumeState # "DISCOVERY",
         NEW s, Cardinality(Implementers(s)) =< r.iteration + 1
  PROVE  Recorded(r, s)
BY DEF Recorded

\* While a step is under way the row is in none of the states that say more.
LEMMA MidwayIsPlain ==
  ASSUME IInv, CourseInv, NEW w \in Workflows, exec[w].pc \notin Fresh \cup {"loop"}
  PROVE  /\ rows[w].state \in {exec[w].state, "CANCELLED"}
         /\ rows[w].state \notin {None, "DISCOVERY", "DONE", "AWAITING_USER"}
         /\ rows[w].resumeState # "DISCOVERY"
         /\ UnderWay(rows[w], steps[w], exec[w])
<1>1. UnderWay(rows[w], steps[w], exec[w]) /\ Recorded(rows[w], steps[w]) /\ Typed(w)
  BY AllTyped DEF CourseInv, Course
<1>2. exec[w].pc \in {"approve", "asked", "correct", "compile", "agent", "assess", "verify"}
  BY <1>1 DEF Typed, Execs, SyncPoints, AwaitPoints, Fresh
<1>3. None # "CANCELLED"
  BY WorkflowServiceAssumption DEF WorkflowStates, TerminalStates
<1> QED BY <1>1, <1>2, <1>3 DEF UnderWay, PointFits, Recorded

\* An execution that leaves, with or without a last word on its row.
LEMMA LeavingCourse ==
  ASSUME IInv, CourseInv, NEW w \in Workflows, exec[w].pc \notin Fresh \cup {"loop"},
         exec'[w] = Idle, rows'[w] = rows[w],
         Cardinality(Implementers(steps'[w])) =< rows[w].iteration + 1
  PROVE  CourseAt(w)'
BY MidwayIsPlain, PlainlyRecorded, Stopping

\* The same row and the same steps, whatever the point.
LEMMA LeavingAsItIs ==
  ASSUME CourseInv, NEW w \in Workflows, exec'[w] = Idle,
         rows'[w] = rows[w], steps'[w] = steps[w]
  PROVE  CourseAt(w)'
BY Stopping DEF CourseInv, Course

\* Halt(), the question and their like.
LEMMA LeavingWithATrigger ==
  ASSUME IInv, CourseInv, NEW w \in Workflows, exec[w].pc \notin Fresh,
         NEW trigger \in {"limitReached", "policyViolated", "cancelled", "questionRaised"}, NEW q,
         ApplyAndLeave(w, trigger, q),
         \/ steps'[w] = steps[w]
         \/ /\ exec[w].pc # "loop"
            /\ Cardinality(Implementers(steps'[w])) =< rows[w].iteration + 1
  PROVE  CourseAt(w)'
<1>1. exec'[w] = Idle
  BY Members DEF ApplyAndLeave, Leave, IInv, Shape
<1>2. CASE ~CanTransition(rows[w].state, trigger)
  <2>1. rows'[w] = rows[w]
    BY <1>2 DEF ApplyAndLeave
  <2> QED BY <1>1, <2>1, LeavingCourse, LeavingAsItIs
<1>3. CASE CanTransition(rows[w].state, trigger)
  <2> DEFINE r == Applied(rows[w], trigger, q)
  <2>1. rows'[w] = r
    BY <1>3 DEF ApplyAndLeave, IInv, Shape
  <2>2. /\ Leads(rows[w].state, trigger, r.state) /\ r.iteration = rows[w].iteration
        /\ r.resumeState \in {rows[w].state, None}
    BY <1>3, Members, AppliedLeads
  <2> HIDE DEF r
  <2>3. r.state \in {"HALTED_LIMIT", "HALTED_POLICY", "CANCELLED", "AWAITING_USER"}
    BY <2>2 DEF Leads
  <2>4. rows[w].state # "DISCOVERY"
    BY DEF CourseInv, Course, UnderWay, PointFits
  <2>5. Cardinality(Implementers(steps'[w])) =< r.iteration + 1
    BY <2>2 DEF CourseInv, Course, Recorded
  <2>6. /\ None \notin {"HALTED_LIMIT", "HALTED_POLICY", "CANCELLED", "AWAITING_USER", "DISCOVERY"}
    BY WorkflowServiceAssumption DEF WorkflowStates, TerminalStates, ActiveStates, HaltedStates
  <2>7. Recorded(r, steps'[w])
    BY <2>2, <2>3, <2>4, <2>5, <2>6, PlainlyRecorded
  <2> QED BY <1>1, <2>1, <2>7, Stopping
<1> QED BY <1>2, <1>3

\* What ApplyThen() leaves behind.
LEMMA ThenFollows ==
  ASSUME IInv, NEW w \in Workflows, exec[w].pc # "idle", NEW trigger,
         trigger \notin {"questionAnswered", "questionRaised"}, NEW pc, ApplyThen(w, trigger, pc)
  PROVE  \/ exec'[w] = Idle /\ rows'[w] = rows[w]
         \/ /\ CanTransition(rows[w].state, trigger)
            /\ rows'[w] = Applied(rows[w], trigger, None)
            /\ exec'[w].pc = pc /\ exec'[w].state = rows'[w].state
            /\ exec'[w].next = exec[w].next /\ exec'[w].prints = exec[w].prints
            /\ exec'[w].turns = IF pc = "loop" THEN exec[w].turns + 1 ELSE exec[w].turns
<1>1. CASE ~CanTransition(rows[w].state, trigger)
  BY <1>1 DEF ApplyThen, Leave, IInv, Shape
<1>2. CASE CanTransition(rows[w].state, trigger)
  <2> DEFINE r == Applied(rows[w], trigger, None)
             e == [exec[w] EXCEPT !.pc = pc, !.state = r.state,
                                  !.turns = IF pc = "loop" THEN exec[w].turns + 1
                                                           ELSE exec[w].turns]
  <2>1. rows' = [rows EXCEPT ![w] = r] /\ exec' = [exec EXCEPT ![w] = e]
    <3>1. rows' = [rows EXCEPT ![w] = r]
      BY <1>2 DEF ApplyThen
    <3>2. exec' = [exec EXCEPT ![w] = e]
      BY <1>2 DEF ApplyThen
    <3> QED BY <3>1, <3>2
  <2>2. /\ e.pc = pc /\ e.state = r.state
        /\ e.next = exec[w].next /\ e.prints = exec[w].prints
        /\ e.turns = IF pc = "loop" THEN exec[w].turns + 1 ELSE exec[w].turns
    <3> HIDE DEF r
    <3>1. exec[w] \in Execs
      BY Members
    <3> QED BY <3>1 DEF Execs
  <2> HIDE DEF e, r
  <2>3. rows'[w] = r /\ exec'[w] = e
    BY <2>1 DEF IInv, Shape
  <2> QED BY <1>2, <2>2, <2>3 DEF r
<1> QED BY <1>1, <1>2

-----------------------------------------------------------------------------
(* Up to the loop.                                                          *)

LEMMA NoneIsNoState ==
  None \notin {"DISCOVERY", "PLANNING", "PLAN_READY", "DECISIONS_LOCKED", "IMPLEMENTING",
               "VERIFYING", "REVIEWING", "CORRECTION_REQUIRED", "AWAITING_USER", "DONE",
               "CANCELLED", "HALTED_LIMIT", "HALTED_POLICY"}
BY WorkflowServiceAssumption DEF WorkflowStates, TerminalStates, ActiveStates, HaltedStates

LEMMA BootCourse ==
  ASSUME IInv, CourseInv, NEW w \in Workflows,
         Execute(w) \/ Reclaim(w) \/ Throw(w) \/ LoopEnds(w)
  PROVE  CourseAt(w)'
<1>1. rows'[w] = rows[w] /\ steps'[w] = steps[w] /\ CourseAt(w) /\ exec[w] \in Execs
  BY Members DEF Execute, Reclaim, Throw, LoopEnds, CourseInv, CourseAt
<1>2. CASE exec'[w] = Idle
  BY <1>1, <1>2, LeavingAsItIs
<1>3. CASE exec[w].pc \in Fresh /\ \E pc \in {"boot", "prepare"} : Go(w, pc)
  <2>1. PICK pc \in {"boot", "prepare"} : exec'[w] = [exec[w] EXCEPT !.pc = pc]
    BY <1>3 DEF Go, IInv, Shape
  <2>2. /\ exec'[w].pc \in Fresh /\ exec'[w].next = exec[w].next
        /\ exec'[w].turns = exec[w].turns /\ exec'[w].prints = exec[w].prints
    BY <1>1, <2>1 DEF Execs, Fresh
  <2> QED BY <1>1, <1>3, <2>2 DEF CourseAt, Course
<1> QED BY <1>2, <1>3 DEF Execute, Reclaim, Throw, LoopEnds, Leave, At, Fresh, IInv, Shape

\* The trigger start is legal in DISCOVERY only, before which there were no steps.
LEMMA PrepareCourse ==
  ASSUME IInv, CourseInv, NEW w \in Workflows, Prepare(w)
  PROVE  CourseAt(w)'
<1> DEFINE r == Applied(rows[w], "start", None)
<1>1. /\ steps'[w] = steps[w] /\ exec[w].pc \in Fresh /\ CourseAt(w) /\ exec[w] \in Execs
      /\ rows[w] \in Rows /\ GoodRow(rows[w]) /\ rows[w].iteration \in Nat
  BY Members, AllTyped DEF Prepare, At, Fresh, CourseInv, CourseAt, Typed
<1>2. CASE exec'[w] = Idle /\ rows'[w] = rows[w]
  BY <1>1, <1>2, LeavingAsItIs
<1>3. CASE /\ CanTransition(rows[w].state, "start") /\ rows'[w] = r
           /\ \E isolated \in BOOLEAN :
                exec'[w] = [exec[w] EXCEPT !.pc = "loop", !.state = r.state, !.isolated = isolated]
  <2>1. /\ Leads(rows[w].state, "start", r.state) /\ r.iteration = rows[w].iteration
        /\ r.resumeState \in {rows[w].state, None}
    BY <1>1, <1>3, AppliedLeads
  <2>a. r.state # "AWAITING_USER" => r.resumeState = None
    BY DEF Applied
  <2>2. /\ exec'[w].pc = "loop" /\ exec'[w].state = r.state /\ exec'[w].next = exec[w].next
        /\ exec'[w].turns = exec[w].turns /\ exec'[w].prints = exec[w].prints
    <3> HIDE DEF r
    <3> QED BY <1>1, <1>3 DEF Execs
  <2> HIDE DEF r
  <2>3. rows[w].state = "DISCOVERY" /\ r.state = "PLANNING"
    BY <2>1 DEF Leads
  <2>4. steps[w] = << >> /\ Cardinality(Implementers(steps[w])) = 0
    BY <1>1, <2>3, NoStepNoImplementer DEF CourseAt, Course, Recorded
  <2>5. exec[w].next = 0 /\ exec[w].turns = 0 /\ NoneRepeats(exec[w].prints)
    BY <1>1 DEF CourseAt, Course
  <2>6. Recorded(r, steps[w])
    BY <1>1, <2>1, <2>a, <2>3, <2>4, NoneIsNoState DEF Recorded
  <2>7. UnderWay(r, steps[w], exec'[w])
    <3>1. PointFits(exec'[w])
      BY <2>2, <2>3, NoneIsNoState DEF PointFits
    <3>2. StepsLeadHere(steps[w], exec'[w])
      BY <2>2, <2>3 DEF StepsLeadHere
    <3>3. Len(steps[w]) = 0 /\ Ended(steps[w], 0)
      BY <2>4 DEF Ended
    <3>4. exec'[w].turns =< Rank("PLANNING") + 3 * r.iteration
      BY <1>1, <2>1, <2>2, <2>5 DEF Rank
    <3> QED BY <1>1, <2>1, <2>2, <2>3, <2>4, <2>5, <3>1, <3>2, <3>3, <3>4 DEF UnderWay
  <2> QED BY <1>1, <1>3, <2>2, <2>5, <2>6, <2>7 DEF CourseAt, Course, Fresh
<1>4. \/ exec'[w] = Idle /\ rows'[w] = rows[w]
      \/ /\ CanTransition(rows[w].state, "start") /\ rows'[w] = r
         /\ \E isolated \in BOOLEAN :
              exec'[w] = [exec[w] EXCEPT !.pc = "loop", !.state = r.state, !.isolated = isolated]
  <2> HIDE DEF r
  <2>1. PICK isolated \in BOOLEAN, runnable \in BOOLEAN :
          IF runnable /\ CanTransition(rows[w].state, "start")
          THEN /\ rows' = [rows EXCEPT ![w] = r]
               /\ exec' = [exec EXCEPT ![w] = [exec[w] EXCEPT !.pc = "loop", !.state = r.state,
                                                              !.isolated = isolated]]
          ELSE exec' = [exec EXCEPT ![w] = Idle] /\ UNCHANGED rows
    BY DEF Prepare, r
  <2> QED BY <2>1 DEF IInv, Shape
<1> QED BY <1>2, <1>3, <1>4

-----------------------------------------------------------------------------
(* The loop.                                                                *)

LEMMA LoopHaltsCourse ==
  ASSUME IInv, CourseInv, NEW w \in Workflows, LoopHalts(w) PROVE CourseAt(w)'
<1>1. steps'[w] = steps[w] /\ exec[w].pc \notin Fresh
  BY DEF LoopHalts, Running, At, Fresh
<1>2. PICK trigger \in {"cancelled", "limitReached"} : Halt(w, trigger)
  BY DEF LoopHalts, LoopEnders
<1> QED BY <1>1, <1>2, LeavingWithATrigger DEF Halt

Advances == {"planProduced", "userApproved", "implementationStarted", "implemented", "verified",
             "verificationFailed", "reviewPassed", "reviewFailed"}

\* A trigger that advances a run finds the row in the state of the run.
LEMMA AdvancedRow ==
  ASSUME IInv, CourseInv, NEW w \in Workflows, exec[w].pc \notin Fresh,
         NEW trigger \in Advances, CanTransition(rows[w].state, trigger)
  PROVE  LET r == Applied(rows[w], trigger, None) IN
         /\ Leads(exec[w].state, trigger, r.state) /\ r.iteration = rows[w].iteration
         /\ r.resumeState # "DISCOVERY" /\ rows[w].state = exec[w].state
         /\ UnderWay(rows[w], steps[w], exec[w]) /\ Typed(w) /\ NoneRepeats(exec[w].prints)
         /\ Cardinality(Implementers(steps[w])) =< rows[w].iteration + 1
<1> DEFINE r == Applied(rows[w], trigger, None)
<1>1. /\ UnderWay(rows[w], steps[w], exec[w]) /\ Typed(w) /\ NoneRepeats(exec[w].prints)
      /\ Recorded(rows[w], steps[w])
  BY AllTyped DEF CourseInv, Course
<1>2. /\ Leads(rows[w].state, trigger, r.state) /\ r.iteration = rows[w].iteration
      /\ r.resumeState \in {rows[w].state, None}
  BY Members, AppliedLeads DEF Advances
<1> HIDE DEF r
<1>3. rows[w].state # "CANCELLED"
  BY <1>2 DEF Leads, Advances
<1>4. rows[w].state = exec[w].state
  BY <1>1, <1>3 DEF UnderWay
<1>5. r.resumeState # "DISCOVERY"
  BY <1>1, <1>2, <1>4, NoneIsNoState DEF UnderWay, PointFits
<1>6. Cardinality(Implementers(steps[w])) =< rows[w].iteration + 1
  BY <1>1 DEF Recorded
<1> QED BY <1>1, <1>2, <1>4, <1>5, <1>6 DEF r

\* The row of a run advances, and the run goes on at the loop or at a correction.
LEMMA Advancing ==
  ASSUME IInv, CourseInv, NEW w \in Workflows,
         exec[w].pc \notin Fresh \cup {"compile"},
         NEW trigger \in Advances, CanTransition(rows[w].state, trigger),
         rows'[w] = Applied(rows[w], trigger, None),
         exec'[w].pc = IF trigger \in {"verificationFailed", "reviewFailed"}
                         THEN "correct" ELSE "loop",
         exec'[w].state = rows'[w].state, exec'[w].next = exec[w].next,
         NoneRepeats(exec'[w].prints),
         exec'[w].turns = IF exec'[w].pc = "loop" THEN exec[w].turns + 1 ELSE exec[w].turns,
         Len(steps'[w]) = Len(steps[w]), Implementers(steps'[w]) = Implementers(steps[w]),
         Ended(steps'[w], Len(steps'[w])),
         trigger = "implemented" => MadeAt(steps'[w], Len(steps'[w])),
         trigger = "verified" => CheckedAt(steps'[w], Len(steps'[w])),
         trigger = "reviewPassed" => ReviewedAt(steps'[w], Len(steps'[w]))
  PROVE  CourseAt(w)'
<1> DEFINE t == steps'[w]
           from == exec[w].state
           to == rows'[w].state
<1>1. /\ Leads(from, trigger, to) /\ rows'[w].iteration = rows[w].iteration
      /\ rows'[w].resumeState # "DISCOVERY"
      /\ UnderWay(rows[w], steps[w], exec[w]) /\ Typed(w)
      /\ Cardinality(Implementers(t)) =< rows'[w].iteration + 1
  BY AdvancedRow
<1>2. /\ to \in {"PLAN_READY", "DECISIONS_LOCKED", "IMPLEMENTING", "VERIFYING", "REVIEWING",
                 "CORRECTION_REQUIRED", "DONE"}
      /\ to = "DONE" => trigger = "reviewPassed"
      /\ to = "REVIEWING" => trigger = "verified"
      /\ to = "VERIFYING" => trigger = "implemented"
      /\ exec'[w].pc = "correct" => to = "CORRECTION_REQUIRED"
      /\ exec'[w].pc \in {"loop", "correct"}
  BY <1>1 DEF Leads, Advances
<1>3. Recorded(rows'[w], t)
  BY <1>1, <1>2, NoneIsNoState DEF Recorded
<1>4. PointFits(exec'[w])
  BY <1>2, NoneIsNoState DEF PointFits
<1>5. StepsLeadHere(t, exec'[w])
  BY <1>2 DEF StepsLeadHere
<1>6. ToImplement(exec'[w]) => Cardinality(Implementers(t)) =< rows'[w].iteration
  <2>1. ToImplement(exec'[w]) => ToImplement(exec[w])
    BY <1>1 DEF ToImplement, Leads, Advances
  <2> QED BY <1>1, <2>1 DEF UnderWay
<1>7. exec'[w].turns =< Rank(to) + 3 * rows'[w].iteration
  <2>1. exec[w].turns =< Rank(from) + 3 * rows[w].iteration
    BY <1>1 DEF UnderWay
  <2>2. CASE exec'[w].pc = "loop"
    <3>1. Rank(from) < Rank(to)
      BY <1>1, <2>2, RankIs DEF Leads, Advances
    <3>2. exec[w].turns + 1 =< Rank(to) + 3 * rows[w].iteration
      BY <1>1, <2>1, <3>1, TurnTaken DEF Typed
    <3> QED BY <1>1, <2>2, <3>2
  <2>3. CASE exec'[w].pc = "correct"
    <3>1. Rank(from) =< Rank(to)
      BY <1>1, <2>3, RankIs DEF Leads, Advances
    <3>2. exec[w].turns =< Rank(to) + 3 * rows[w].iteration
      BY <1>1, <2>1, <3>1, TurnTaken DEF Typed
    <3> QED BY <1>1, <2>3, <3>2
  <2> QED BY <1>2, <2>2, <2>3
<1>8. UnderWay(rows'[w], t, exec'[w])
  BY <1>1, <1>2, <1>4, <1>5, <1>6, <1>7 DEF UnderWay
<1> QED BY <1>2, <1>3, <1>8 DEF CourseAt, Course, Fresh

LEMMA LoopPassesCourse ==
  ASSUME IInv, CourseInv, NEW w \in Workflows, LoopPasses(w) PROVE CourseAt(w)'
<1>1. /\ steps'[w] = steps[w] /\ exec[w].pc = "loop" /\ exec[w].pc \notin Fresh
      /\ exec[w].pc # "idle" /\ exec[w].pc # "compile"
      /\ UnderWay(rows[w], steps[w], exec[w]) /\ NoneRepeats(exec[w].prints)
  BY DEF LoopPasses, MayBegin, Running, At, Fresh, CourseInv, Course
<1>2. ApplyThen(w, "implementationStarted", "loop")
  BY DEF LoopPasses
<1>3. CASE exec'[w] = Idle /\ rows'[w] = rows[w]
  BY <1>1, <1>3, LeavingAsItIs
<1>4. Ended(steps[w], Len(steps[w]))
  BY <1>1 DEF UnderWay
<1>5. CASE ~(exec'[w] = Idle /\ rows'[w] = rows[w])
  BY <1>1, <1>2, <1>4, <1>5, ThenFollows, Advancing DEF Advances
<1> QED BY <1>3, <1>5

\* Each correction counts.
LEMMA CorrectCourse ==
  ASSUME IInv, CourseInv, NEW w \in Workflows, Correct(w) PROVE CourseAt(w)'
<1> DEFINE r == Applied(rows[w], "correctionStarted", None)
<1>1. /\ steps'[w] = steps[w] /\ exec[w].pc = "correct" /\ exec[w].pc \notin Fresh
      /\ exec[w].pc # "idle"
      /\ UnderWay(rows[w], steps[w], exec[w]) /\ NoneRepeats(exec[w].prints)
      /\ Recorded(rows[w], steps[w]) /\ Typed(w)
  BY AllTyped DEF Correct, At, Fresh, CourseInv, Course
<1>2. ApplyThen(w, "correctionStarted", "loop")
  BY DEF Correct
<1>3. CASE exec'[w] = Idle /\ rows'[w] = rows[w]
  BY <1>1, <1>3, LeavingAsItIs
<1>4. CASE ~(exec'[w] = Idle /\ rows'[w] = rows[w])
  <2>1. /\ CanTransition(rows[w].state, "correctionStarted") /\ rows'[w] = r
        /\ exec'[w].pc = "loop" /\ exec'[w].state = rows'[w].state
        /\ exec'[w].next = exec[w].next /\ exec'[w].prints = exec[w].prints
        /\ exec'[w].turns = exec[w].turns + 1
    BY <1>1, <1>2, <1>4, ThenFollows
  <2>2. /\ \/ r.state = "HALTED_LIMIT" /\ r.iteration = rows[w].iteration
           \/ r.state = "IMPLEMENTING" /\ r.iteration = rows[w].iteration + 1
        /\ r.resumeState \in {rows[w].state, None} /\ rows[w].state = "CORRECTION_REQUIRED"
    BY <2>1, Members, AppliedLeads
  <2> HIDE DEF r
  <2>3. Recorded(r, steps[w])
    BY <1>1, <2>2, NoneIsNoState, PlainlyRecorded DEF Recorded, Typed
  <2>4. PointFits(exec'[w]) /\ StepsLeadHere(steps[w], exec'[w])
    BY <2>1, <2>2, NoneIsNoState DEF PointFits, StepsLeadHere
  <2>5. ToImplement(exec'[w]) => Cardinality(Implementers(steps[w])) =< r.iteration
    BY <1>1, <2>1, <2>2 DEF ToImplement, Recorded
  <2>6. exec'[w].turns =< Rank(r.state) + 3 * r.iteration
    <3>1. exec[w].turns =< 5 + 3 * rows[w].iteration
      BY <1>1, RankIs DEF UnderWay, PointFits
    <3>2. rows[w].iteration \in Nat /\ exec[w].turns \in Nat
      BY <1>1 DEF Typed
    <3>3. CASE r.state = "HALTED_LIMIT" /\ r.iteration = rows[w].iteration
      BY <2>1, <3>1, <3>2, <3>3, RankIs
    <3>4. CASE r.state = "IMPLEMENTING" /\ r.iteration = rows[w].iteration + 1
      <4>1. 3 * r.iteration = 3 * rows[w].iteration + 3
        BY <3>2, <3>4
      <4> QED BY <2>1, <3>1, <3>2, <3>4, <4>1, RankIs
    <3> QED BY <2>2, <3>3, <3>4
  <2>7. UnderWay(r, steps[w], exec'[w])
    BY <1>1, <2>1, <2>4, <2>5, <2>6 DEF UnderWay
  <2> QED BY <1>1, <2>1, <2>3, <2>7 DEF CourseAt, Course, Fresh
<1> QED BY <1>3, <1>4

-----------------------------------------------------------------------------
(* A step begins.                                                           *)

\* startStep() comes to the row that is due, since run() counts as the rows do.
LEMMA StartStepBegins ==
  ASSUME IInv, NEW w \in Workflows, NEW index \in Nat, index = Len(steps[w]) + 1,
         NEW role \in {"planner", "user", "implementer", "system", "reviewer", None},
         NEW pc, StartStep(w, index, role, pc)
  PROVE  /\ Begins(steps[w], steps'[w], role)
         /\ exec'[w].pc = pc /\ exec'[w].next = index /\ exec'[w].state = exec[w].state
         /\ exec'[w].turns = exec[w].turns /\ exec'[w].prints = exec[w].prints
<1> DEFINE row == [role |-> role, ended |-> FALSE, verdict |-> None]
<1>1. row \in Steps /\ row.role = role
  BY DEF Steps
<1>2. steps[w] \in Seq(Steps) /\ exec[w] \in Execs /\ index > Len(steps[w])
  BY Members
<1>3. steps'[w] = Append(steps[w], row)
  BY <1>2 DEF StartStep, IInv, Shape
<1>4. exec'[w] = [exec[w] EXCEPT !.pc = pc, !.next = index]
  BY <1>2 DEF StartStep, IInv, Shape, Execs
<1> HIDE DEF row
<1>5. Begins(steps[w], steps'[w], role)
  BY <1>1, <1>2, <1>3, AppendBegins
<1> QED BY <1>2, <1>4, <1>5 DEF Execs

\* After that the new row is the last, and those before are as they were.
LEMMA BegunSteps ==
  ASSUME NEW s \in Seq(Steps), NEW t, NEW role, Begins(s, t, role), Ended(s, Len(s))
  PROVE  /\ Len(t) - 1 = Len(s) /\ Len(t) > 0 /\ t[Len(t)].role = role
         /\ Ended(t, Len(t) - 1)
         /\ MadeAt(s, Len(s)) => MadeAt(t, Len(t) - 1)
         /\ CheckedAt(s, Len(s)) => CheckedAt(t, Len(t) - 1)
<1>1. Len(s) \in Nat /\ Len(t) = Len(s) + 1
  BY DEF Begins
<1>2. \A i \in 1..Len(s) : t[i] = s[i]
  BY DEF Begins
<1>3. Ended(t, Len(t) - 1)
  BY <1>1, <1>2 DEF Ended
<1>4. MadeAt(s, Len(s)) => MadeAt(t, Len(t) - 1)
  BY <1>1, <1>2 DEF MadeAt
<1>5. CheckedAt(s, Len(s)) => CheckedAt(t, Len(t) - 1)
  BY <1>1, <1>2 DEF MadeAt, CheckedAt
<1> QED BY <1>1, <1>3, <1>4, <1>5 DEF Begins

\* The point that a begun step is at, with the row as it was but for its checkpoint.
\* Only an implementation is a step of the implementer.
LEMMA OneImplements ==
  \A state \in {"PLANNING", "PLAN_READY", "VERIFYING", "REVIEWING"} :
    RoleOf(state) \in {"planner", "user", "system", "reviewer"}
BY DEF RoleOf

LEMMA BegunCourse ==
  ASSUME IInv, CourseInv, NEW w \in Workflows, exec[w].pc \in {"loop", "compile"},
         NEW role, Begins(steps[w], steps'[w], role),
         UnderWay(rows[w], steps[w], exec[w]), Recorded(rows[w], steps[w]),
         role = RoleOf(exec[w].state),
         rows'[w].state = rows[w].state, rows'[w].iteration = rows[w].iteration,
         rows'[w].resumeState = rows[w].resumeState, rows[w].state # "DONE",
         \/ exec'[w].pc = "approve" /\ exec[w].state = "PLAN_READY"
         \/ exec'[w].pc = "verify" /\ exec[w].state = "VERIFYING"
         \/ exec'[w].pc = "agent" /\ exec[w].state \in {"PLANNING", "IMPLEMENTING", "REVIEWING"},
         exec'[w].next = Len(steps[w]) + 1, exec'[w].state = exec[w].state,
         exec'[w].turns = exec[w].turns, exec'[w].prints = exec[w].prints
  PROVE  CourseAt(w)'
<1> DEFINE t == steps'[w]
<1>1. Typed(w) /\ NoneRepeats(exec[w].prints)
  BY AllTyped DEF CourseInv, Course
<1>2. /\ Ended(steps[w], Len(steps[w])) /\ PointFits(exec[w])
      /\ StepsLeadHere(steps[w], exec[w]) /\ rows[w].state \in {exec[w].state, "CANCELLED"}
  BY DEF UnderWay
<1>3. /\ Len(t) = Len(steps[w]) + 1 /\ Len(t) - 1 = Len(steps[w]) /\ Len(t) > 0
      /\ t[Len(t)].role = role /\ Ended(t, Len(t) - 1)
      /\ MadeAt(steps[w], Len(steps[w])) => MadeAt(t, Len(t) - 1)
      /\ CheckedAt(steps[w], Len(steps[w])) => CheckedAt(t, Len(t) - 1)
  BY <1>1, <1>2, BegunSteps DEF Begins, Typed
<1>4. PointFits(exec'[w])
  BY <1>2 DEF PointFits
<1>5. StepsLeadHere(t, exec'[w])
  BY <1>2, <1>3 DEF StepsLeadHere
<1>6. /\ ToImplement(exec'[w]) => Cardinality(Implementers(t)) =< rows[w].iteration
      /\ Cardinality(Implementers(t)) =< rows[w].iteration + 1
  <2>1. CASE exec[w].state = "IMPLEMENTING"
    <3>1. ToImplement(exec[w]) /\ ~ToImplement(exec'[w])
      BY <2>1 DEF ToImplement
    <3>2. Cardinality(Implementers(steps[w])) =< rows[w].iteration
      BY <3>1 DEF UnderWay
    <3>3. Cardinality(Implementers(t)) =< Cardinality(Implementers(steps[w])) + 1
      BY DEF Begins
    <3>4. t \in Seq(Steps) /\ Cardinality(Implementers(t)) \in Nat
      BY ImplementersCount DEF Begins
    <3> QED BY <1>1, <3>1, <3>2, <3>3, <3>4 DEF Typed
  <2>2. CASE exec[w].state # "IMPLEMENTING"
    <3>1. role # "implementer"
      BY <2>2, OneImplements
    <3>2. Cardinality(Implementers(t)) = Cardinality(Implementers(steps[w]))
      BY <3>1 DEF Begins
    <3>3. ToImplement(exec'[w]) => ToImplement(exec[w])
      BY <2>2 DEF ToImplement
    <3> QED BY <3>2, <3>3 DEF UnderWay, Recorded
  <2> QED BY <2>1, <2>2
<1>7. Recorded(rows'[w], t)
  BY <1>2, <1>6, NoneIsNoState DEF PointFits, Recorded
<1>8. UnderWay(rows'[w], t, exec'[w])
  BY <1>2, <1>3, <1>4, <1>5, <1>6 DEF UnderWay
<1> QED BY <1>1, <1>7, <1>8 DEF CourseAt, Course, Fresh

LEMMA BeginStepCourse ==
  ASSUME IInv, CourseInv, NEW w \in Workflows, BeginStep(w) PROVE CourseAt(w)'
<1> DEFINE role == RoleOf(exec[w].state)
<1>1. /\ exec[w].pc = "loop" /\ UnderWay(rows[w], steps[w], exec[w]) /\ role # None
      /\ Recorded(rows[w], steps[w]) /\ NoneRepeats(exec[w].prints) /\ Typed(w)
      /\ exec[w].state = rows[w].state /\ exec[w].state # "DONE"
  BY AllTyped, Members
     DEF BeginStep, MayBegin, Running, At, CourseInv, Course, Fresh, Fits, TerminalStates
<1>2. /\ rows'[w].state = rows[w].state /\ rows'[w].iteration = rows[w].iteration
      /\ rows'[w].resumeState = rows[w].resumeState
  <2>1. rows'[w] = [rows[w] EXCEPT !.checkpoint = TRUE] /\ rows[w] \in Rows
    BY Members DEF BeginStep, IInv, Shape
  <2> QED BY <2>1 DEF Rows
<1>3. exec[w].next = Len(steps[w])
  BY <1>1 DEF UnderWay
<1>4. exec[w].state \in {"PLANNING", "PLAN_READY", "IMPLEMENTING", "VERIFYING", "REVIEWING"}
  BY <1>1 DEF RoleOf
<1>5. CASE \E pc \in {"approve", "verify"} :
             /\ exec[w].state = IF pc = "approve" THEN "PLAN_READY" ELSE "VERIFYING"
             /\ StartStep(w, exec[w].next + 1, role, pc)
  <2>1. PICK pc \in {"approve", "verify"} :
             /\ exec[w].state = IF pc = "approve" THEN "PLAN_READY" ELSE "VERIFYING"
             /\ StartStep(w, exec[w].next + 1, role, pc)
    BY <1>5
  <2>2. exec[w].next + 1 \in Nat /\ exec[w].next + 1 = Len(steps[w]) + 1
    BY <1>1, <1>3 DEF Typed
  <2>3. /\ Begins(steps[w], steps'[w], role)
        /\ exec'[w].pc = pc /\ exec'[w].next = exec[w].next + 1
        /\ exec'[w].state = exec[w].state
        /\ exec'[w].turns = exec[w].turns /\ exec'[w].prints = exec[w].prints
    BY <2>1, <2>2, RoleShape, StartStepBegins
  <2> HIDE DEF role
  <2>4. role = RoleOf(exec[w].state)
    BY DEF role
  <2> QED BY <1>1, <1>2, <1>3, <2>1, <2>3, <2>4, BegunCourse
<1>6. CASE /\ exec[w].state \in {"PLANNING", "IMPLEMENTING", "REVIEWING"}
           /\ exec' = [exec EXCEPT ![w].pc = "compile", ![w].next = exec[w].next + 1]
           /\ steps' = steps
  <2>1. exec'[w] = [exec[w] EXCEPT !.pc = "compile", !.next = exec[w].next + 1]
    BY <1>1, <1>6 DEF IInv, Shape, Typed, Execs
  <2>2. /\ exec'[w].pc = "compile" /\ exec'[w].next = exec[w].next + 1
        /\ exec'[w].state = exec[w].state
        /\ exec'[w].turns = exec[w].turns /\ exec'[w].prints = exec[w].prints
    BY <1>1, <2>1 DEF Typed, Execs
  <2>3. PointFits(exec'[w]) /\ StepsLeadHere(steps[w], exec'[w])
    BY <1>1, <1>6, <2>2 DEF UnderWay, PointFits, StepsLeadHere
  <2>4. ToImplement(exec'[w]) => ToImplement(exec[w])
    BY <1>1, <2>2 DEF ToImplement
  <2>5. UnderWay(rows'[w], steps[w], exec'[w])
    BY <1>1, <1>2, <1>3, <2>2, <2>3, <2>4 DEF UnderWay
  <2>6. Recorded(rows'[w], steps[w])
    BY <1>1, <1>2 DEF Recorded
  <2> QED BY <1>1, <1>6, <2>2, <2>5, <2>6 DEF CourseAt, Course, Fresh
<1>7. CASE exec[w].state \in {"PLANNING", "IMPLEMENTING", "REVIEWING"}
  <2>1. role \notin {"user", "system"}
    BY <1>7 DEF RoleOf
  <2> QED BY <1>6, <1>7, <2>1 DEF BeginStep
<1>8. CASE exec[w].state = "PLAN_READY"
  <2>1. role = "user"
    BY <1>8 DEF RoleOf
  <2>2. StartStep(w, exec[w].next + 1, role, "approve")
    BY <2>1 DEF BeginStep
  <2> QED BY <1>5, <1>8, <2>2
<1>9. CASE exec[w].state = "VERIFYING"
  <2>1. role = "system"
    BY <1>9 DEF RoleOf
  <2>2. StartStep(w, exec[w].next + 1, role, "verify")
    BY <2>1 DEF BeginStep
  <2> QED BY <1>5, <1>9, <2>2
<1> QED BY <1>4, <1>7, <1>8, <1>9

LEMMA CompiledCourse ==
  ASSUME IInv, CourseInv, NEW w \in Workflows, Compiled(w) PROVE CourseAt(w)'
<1> DEFINE role == RoleOf(exec[w].state)
<1>1. /\ exec[w].pc = "compile" /\ UnderWay(rows[w], steps[w], exec[w])
      /\ Recorded(rows[w], steps[w]) /\ Typed(w) /\ rows' = rows
  BY AllTyped DEF Compiled, At, CourseInv, Course, Fresh
<1>2. /\ exec[w].next = Len(steps[w]) + 1 /\ exec[w].next \in Nat
      /\ exec[w].state \in {"PLANNING", "IMPLEMENTING", "REVIEWING"}
  BY <1>1 DEF UnderWay, PointFits, Typed
<1>3. /\ Begins(steps[w], steps'[w], role)
      /\ exec'[w].pc = "agent" /\ exec'[w].next = exec[w].next /\ exec'[w].state = exec[w].state
      /\ exec'[w].turns = exec[w].turns /\ exec'[w].prints = exec[w].prints
  <2>1. StartStep(w, exec[w].next, role, "agent")
    BY DEF Compiled
  <2>2. role \in {"planner", "user", "implementer", "system", "reviewer", None}
    BY RoleShape
  <2> HIDE DEF role
  <2> QED BY <1>2, <2>1, <2>2, StartStepBegins
<1>4. rows[w].state # "DONE"
  BY <1>1, MidwayIsPlain DEF Fresh
<1> HIDE DEF role
<1>5. role = RoleOf(exec[w].state)
  BY DEF role
<1> QED BY <1>1, <1>2, <1>3, <1>4, <1>5, BegunCourse

-----------------------------------------------------------------------------
(* A step ends.                                                             *)

LEMMA StepEnds ==
  ASSUME IInv, CourseInv, NEW w \in Workflows,
         exec[w].pc \in {"approve", "verify", "agent", "assess"},
         NEW verdict \in {"pass", "fail"}, FinishStep(w, verdict)
  PROVE  /\ Finishes(steps[w], steps'[w], verdict) /\ Ended(steps'[w], Len(steps'[w]))
         /\ Len(steps'[w]) > 0
         /\ \A k \in Nat : k < Len(steps[w]) =>
              /\ MadeAt(steps[w], k) => MadeAt(steps'[w], k)
              /\ CheckedAt(steps[w], k) => CheckedAt(steps'[w], k)
         /\ UnderWay(rows[w], steps[w], exec[w]) /\ Recorded(rows[w], steps[w]) /\ Typed(w)
         /\ NoneRepeats(exec[w].prints)
<1>1. /\ UnderWay(rows[w], steps[w], exec[w]) /\ Recorded(rows[w], steps[w]) /\ Typed(w)
      /\ NoneRepeats(exec[w].prints)
  BY AllTyped DEF CourseInv, Course, Fresh
<1>2. Len(steps[w]) > 0 /\ Len(steps[w]) \in Nat
  BY <1>1 DEF UnderWay, StepsLeadHere, Typed
<1>3. Finishes(steps[w], steps'[w], verdict)
  BY <1>2, FinishStepFinishes
<1>4. \A i \in 1..(Len(steps[w]) - 1) : steps[w][i].ended
  BY <1>1, <1>2 DEF UnderWay, Ended
<1>5. Ended(steps'[w], Len(steps'[w]))
  BY <1>2, <1>3, <1>4 DEF Finishes, Ended
<1>6. \A k \in Nat : k < Len(steps[w]) =>
        /\ MadeAt(steps[w], k) => MadeAt(steps'[w], k)
        /\ CheckedAt(steps[w], k) => CheckedAt(steps'[w], k)
  <2> SUFFICES ASSUME NEW k \in Nat, k < Len(steps[w])
               PROVE  /\ MadeAt(steps[w], k) => MadeAt(steps'[w], k)
                      /\ CheckedAt(steps[w], k) => CheckedAt(steps'[w], k)
    OBVIOUS
  <2>1. \A i \in 1..(Len(steps[w]) - 1) : steps'[w][i] = steps[w][i]
    BY <1>3 DEF Finishes
  <2>2. k > 0 => steps'[w][k] = steps[w][k]
    BY <1>2, <2>1
  <2>3. k - 1 > 0 => steps'[w][k - 1] = steps[w][k - 1]
    BY <1>2, <2>1
  <2> QED BY <2>2, <2>3 DEF MadeAt, CheckedAt
<1> QED BY <1>1, <1>2, <1>3, <1>5, <1>6 DEF Finishes

\* A step ends with a verdict, and the row takes the trigger of that verdict.
LEMMA EndedThenAdvanced ==
  ASSUME IInv, CourseInv, NEW w \in Workflows, exec[w].pc \in {"approve", "verify", "assess"},
         NEW verdict \in {"pass", "fail"}, FinishStep(w, verdict),
         NEW trigger \in Advances, trigger # "implemented", NEW pc,
         pc = IF trigger \in {"verificationFailed", "reviewFailed"} THEN "correct" ELSE "loop",
         ApplyThen(w, trigger, pc),
         trigger \in {"verified", "reviewPassed"} => verdict = "pass",
         trigger = "verified" => exec[w].pc = "verify",
         trigger = "reviewPassed" => exec[w].pc = "assess" /\ exec[w].state = "REVIEWING"
  PROVE  CourseAt(w)'
<1> DEFINE s == steps[w]
           t == steps'[w]
<1>1. /\ Finishes(s, t, verdict) /\ Ended(t, Len(t)) /\ Len(t) > 0
      /\ \A k \in Nat : k < Len(s) =>
           /\ MadeAt(s, k) => MadeAt(t, k)
           /\ CheckedAt(s, k) => CheckedAt(t, k)
      /\ UnderWay(rows[w], s, exec[w]) /\ Recorded(rows[w], s) /\ Typed(w)
      /\ NoneRepeats(exec[w].prints)
  BY StepEnds
<1>2. exec[w].pc \notin Fresh \cup {"loop", "compile", "idle"}
  BY DEF Fresh
<1>3. Len(t) = Len(s) /\ Implementers(t) = Implementers(s) /\ Len(s) \in Nat
  BY <1>1 DEF Finishes, Typed
<1>4. CASE exec'[w] = Idle /\ rows'[w] = rows[w]
  <2>1. Cardinality(Implementers(t)) =< rows[w].iteration + 1
    BY <1>1, <1>3 DEF Recorded
  <2> QED BY <1>2, <1>4, <2>1, LeavingCourse
<1>5. CASE ~(exec'[w] = Idle /\ rows'[w] = rows[w])
  <2>1. /\ CanTransition(rows[w].state, trigger)
        /\ rows'[w] = Applied(rows[w], trigger, None)
        /\ exec'[w].pc = pc /\ exec'[w].state = rows'[w].state
        /\ exec'[w].next = exec[w].next /\ exec'[w].prints = exec[w].prints
        /\ exec'[w].turns = IF pc = "loop" THEN exec[w].turns + 1 ELSE exec[w].turns
    BY <1>2, <1>5, ThenFollows DEF Advances
  <2>2. /\ t[Len(t)].role = RoleOf(exec[w].state) /\ t[Len(t)].verdict = verdict
        /\ StepsLeadHere(s, exec[w]) /\ PointFits(exec[w])
    BY <1>1, <1>3 DEF Finishes, UnderWay, StepsLeadHere
  <2>3. Len(t) - 1 \in Nat /\ Len(t) - 1 < Len(s)
    BY <1>1, <1>3
  <2>4. trigger = "verified" => CheckedAt(t, Len(t))
    <3> SUFFICES ASSUME trigger = "verified" PROVE CheckedAt(t, Len(t))
      OBVIOUS
    <3>1. MadeAt(t, Len(t) - 1)
      BY <1>1, <1>3, <2>2, <2>3 DEF StepsLeadHere
    <3>2. t[Len(t)].role = "system"
      BY <2>2 DEF RoleOf, PointFits
    <3> QED BY <1>1, <2>2, <3>1, <3>2 DEF CheckedAt
  <2>5. trigger = "reviewPassed" => ReviewedAt(t, Len(t))
    <3> SUFFICES ASSUME trigger = "reviewPassed" PROVE ReviewedAt(t, Len(t))
      OBVIOUS
    <3>1. CheckedAt(t, Len(t) - 1)
      BY <1>1, <1>3, <2>2, <2>3 DEF StepsLeadHere
    <3>2. t[Len(t)].role = "reviewer"
      BY <2>2 DEF RoleOf
    <3> QED BY <1>1, <2>2, <3>1, <3>2 DEF ReviewedAt
  <2> HIDE DEF s, t
  <2>6. exec'[w].pc \in {"loop", "correct"} /\ exec'[w].pc = pc
    BY <2>1
  <2> QED BY <1>1, <1>2, <1>3, <2>1, <2>4, <2>5, Advancing DEF s, t
<1> QED BY <1>4, <1>5

\* A plan that is declined.
LEMMA DeclinedCourse ==
  ASSUME IInv, CourseInv, NEW w \in Workflows, exec[w].pc = "approve",
         FinishStep(w, "fail"), ApplyThen(w, "cancelled", "loop")
  PROVE  CourseAt(w)'
<1> DEFINE r == Applied(rows[w], "cancelled", None)
<1>1. /\ Finishes(steps[w], steps'[w], "fail") /\ Ended(steps'[w], Len(steps'[w]))
      /\ UnderWay(rows[w], steps[w], exec[w]) /\ Recorded(rows[w], steps[w]) /\ Typed(w)
      /\ NoneRepeats(exec[w].prints)
  BY StepEnds
<1>2. exec[w].pc \notin Fresh \cup {"loop", "compile", "idle"}
  BY DEF Fresh
<1>3. /\ Len(steps'[w]) = Len(steps[w])
      /\ Cardinality(Implementers(steps'[w])) =< rows[w].iteration + 1
  BY <1>1 DEF Finishes, Recorded
<1>4. CASE exec'[w] = Idle /\ rows'[w] = rows[w]
  BY <1>2, <1>3, <1>4, LeavingCourse
<1>5. CASE ~(exec'[w] = Idle /\ rows'[w] = rows[w])
  <2>1. /\ CanTransition(rows[w].state, "cancelled") /\ rows'[w] = r
        /\ exec'[w].pc = "loop" /\ exec'[w].state = rows'[w].state
        /\ exec'[w].next = exec[w].next /\ exec'[w].prints = exec[w].prints
        /\ exec'[w].turns = exec[w].turns + 1
    BY <1>2, <1>5, ThenFollows
  <2>2. /\ Leads(rows[w].state, "cancelled", r.state) /\ r.iteration = rows[w].iteration
        /\ r.resumeState \in {rows[w].state, None}
    BY <2>1, Members, AppliedLeads
  <2> HIDE DEF r
  <2>3. r.state = "CANCELLED"
    BY <2>2 DEF Leads
  <2>4. r.resumeState # "DISCOVERY"
    BY <1>2, <2>2, MidwayIsPlain, NoneIsNoState
  <2>5. Recorded(r, steps'[w])
    BY <1>3, <2>2, <2>3, <2>4, NoneIsNoState, PlainlyRecorded
  <2>6. PointFits(exec'[w]) /\ StepsLeadHere(steps'[w], exec'[w]) /\ ~ToImplement(exec'[w])
    BY <2>1, <2>3, NoneIsNoState DEF PointFits, StepsLeadHere, ToImplement
  <2>7. exec'[w].turns =< Rank("CANCELLED") + 3 * r.iteration
    <3>1. exec[w].turns =< Rank("PLAN_READY") + 3 * rows[w].iteration
      BY <1>1 DEF UnderWay, PointFits
    <3>2. exec[w].turns + 1 =< Rank("CANCELLED") + 3 * rows[w].iteration
      BY <1>1, <3>1, RankIs, TurnTaken DEF Typed
    <3> QED BY <2>1, <2>2, <3>2
  <2>8. UnderWay(r, steps'[w], exec'[w])
    BY <1>1, <1>2, <1>3, <2>1, <2>3, <2>6, <2>7 DEF UnderWay
  <2> QED BY <1>1, <2>1, <2>5, <2>8 DEF CourseAt, Course, Fresh
<1> QED BY <1>4, <1>5

LEMMA VerdictCourse ==
  ASSUME IInv, CourseInv, NEW w \in Workflows, Approve(w) \/ Verified(w) PROVE CourseAt(w)'
<1>1. CASE Approve(w)
  <2>1. exec[w].pc = "approve"
    BY <1>1 DEF Approve, At
  <2>2. CASE FinishStep(w, "pass") /\ ApplyThen(w, "userApproved", "loop")
    BY <2>1, <2>2, EndedThenAdvanced DEF Advances
  <2>3. CASE FinishStep(w, "fail") /\ ApplyThen(w, "cancelled", "loop")
    BY <2>1, <2>3, DeclinedCourse
  <2> QED BY <1>1, <2>2, <2>3 DEF Approve
<1>2. CASE Verified(w)
  <2>1. exec[w].pc = "verify"
    BY <1>2 DEF Verified, At
  <2>2. CASE FinishStep(w, "pass") /\ ApplyThen(w, "verified", "loop")
    BY <2>1, <2>2, EndedThenAdvanced DEF Advances
  <2>3. CASE FinishStep(w, "fail") /\ ApplyThen(w, "verificationFailed", "correct")
    BY <2>1, <2>3, EndedThenAdvanced DEF Advances
  <2> QED BY <1>2, <2>2, <2>3 DEF Verified
<1> QED BY <1>1, <1>2

LEMMA ReviewedCourse ==
  ASSUME IInv, CourseInv, NEW w \in Workflows, Reviewed(w) PROVE CourseAt(w)'
<1>1. exec[w].pc = "assess" /\ exec[w].state = "REVIEWING" /\ exec[w].pc \notin Fresh
  BY DEF Reviewed, At, Fresh
<1>2. CASE FinishStep(w, "pass") /\ ApplyThen(w, "reviewPassed", "loop")
  BY <1>1, <1>2, EndedThenAdvanced DEF Advances
<1>3. CASE FinishStep(w, "fail") /\ ApplyThen(w, "reviewFailed", "correct")
  BY <1>1, <1>3, EndedThenAdvanced DEF Advances
<1>4. CASE UNCHANGED steps /\ Halt(w, "policyViolated")
  BY <1>1, <1>4, LeavingWithATrigger DEF Halt
<1> QED BY <1>2, <1>3, <1>4 DEF Reviewed

\* A report that ends the execution.
LEMMA ReportHaltsCourse ==
  ASSUME IInv, CourseInv, NEW w \in Workflows,
         NoReport(w) \/ HaltingReport(w) \/ Refused(w) \/ RaiseQuestion(w)
  PROVE  CourseAt(w)'
<1>1. exec[w].pc \in {"agent", "assess", "asked"} /\ exec[w].pc \notin Fresh \cup {"loop"}
  BY DEF NoReport, HaltingReport, Refused, RaiseQuestion, At, Fresh
<1>2. ASSUME exec[w].pc = "agent", FinishStep(w, "fail")
      PROVE  Cardinality(Implementers(steps'[w])) =< rows[w].iteration + 1
  BY <1>2, StepEnds DEF Finishes, Recorded
<1>3. CASE NoReport(w)
  BY <1>1, <1>2, <1>3, LeavingWithATrigger DEF NoReport, At, Halt
<1>4. CASE HaltingReport(w)
  BY <1>1, <1>2, <1>4, LeavingWithATrigger DEF HaltingReport, At, Halt
<1>5. CASE Refused(w)
  BY <1>1, <1>5, LeavingWithATrigger DEF Refused, Halt
<1>6. CASE RaiseQuestion(w)
  BY <1>1, <1>6, LeavingWithATrigger DEF RaiseQuestion
<1> QED BY <1>3, <1>4, <1>5, <1>6

\* The agent's step has ended, and its outcome is still to be assessed or asked about.
LEMMA ReportedCourse ==
  ASSUME IInv, CourseInv, NEW w \in Workflows, Accepted(w) \/ Ask(w) PROVE CourseAt(w)'
<1>1. PICK verdict \in {"pass", "fail"}, pc \in {"assess", "asked"} :
        FinishStep(w, verdict) /\ Go(w, pc)
  BY DEF Accepted, Ask
<1>2. exec[w].pc = "agent" /\ exec[w].pc \notin Fresh \cup {"loop"} /\ rows'[w] = rows[w]
  BY DEF Accepted, Ask, At, Fresh
<1> DEFINE t == steps'[w]
<1>3. /\ Finishes(steps[w], t, verdict) /\ Ended(t, Len(t)) /\ Len(t) > 0
      /\ \A k \in Nat : k < Len(steps[w]) /\ CheckedAt(steps[w], k) => CheckedAt(t, k)
      /\ UnderWay(rows[w], steps[w], exec[w]) /\ Recorded(rows[w], steps[w]) /\ Typed(w)
      /\ NoneRepeats(exec[w].prints)
  BY <1>1, <1>2, StepEnds
<1>4. Len(t) = Len(steps[w]) /\ Implementers(t) = Implementers(steps[w]) /\ Len(t) - 1 \in Nat
  BY <1>3 DEF Finishes, Typed
<1>5. exec'[w] = [exec[w] EXCEPT !.pc = pc] /\ exec[w] \in Execs
  BY <1>1, Members DEF Go, IInv, Shape
<1>6. /\ exec'[w].pc = pc /\ exec'[w].next = exec[w].next /\ exec'[w].state = exec[w].state
      /\ exec'[w].turns = exec[w].turns /\ exec'[w].prints = exec[w].prints
  BY <1>5 DEF Execs
<1>7. /\ exec[w].state \in {"PLANNING", "IMPLEMENTING", "REVIEWING"} /\ PointFits(exec[w])
      /\ t[Len(t)].role = RoleOf(exec[w].state)
      /\ exec[w].state = "REVIEWING" => CheckedAt(steps[w], Len(steps[w]) - 1)
  BY <1>2, <1>3, <1>4 DEF UnderWay, PointFits, StepsLeadHere, Finishes
<1>8. PointFits(exec'[w])
  BY <1>6, <1>7 DEF PointFits
<1>9. StepsLeadHere(t, exec'[w])
  <2>1. exec[w].state = "REVIEWING" => CheckedAt(t, Len(t) - 1)
    BY <1>3, <1>4, <1>7
  <2> QED BY <1>3, <1>6, <1>7, <2>1 DEF StepsLeadHere
<1>10. ToImplement(exec'[w]) => ToImplement(exec[w])
  BY <1>6 DEF ToImplement
<1> HIDE DEF t
<1>11. UnderWay(rows'[w], t, exec'[w])
  BY <1>2, <1>3, <1>4, <1>6, <1>8, <1>9, <1>10 DEF UnderWay
<1>12. Recorded(rows'[w], t)
  BY <1>2, <1>3, <1>4, MidwayIsPlain DEF Recorded
<1> QED BY <1>3, <1>6, <1>11, <1>12 DEF CourseAt, Course, Fresh, t

LEMMA PlannedCourse ==
  ASSUME IInv, CourseInv, NEW w \in Workflows, Planned(w) PROVE CourseAt(w)'
<1>1. /\ steps'[w] = steps[w] /\ exec[w].pc = "assess"
      /\ exec[w].pc \notin Fresh \cup {"compile"} /\ exec[w].pc # "idle"
      /\ UnderWay(rows[w], steps[w], exec[w]) /\ NoneRepeats(exec[w].prints)
  BY DEF Planned, At, Fresh, CourseInv, Course
<1>2. ApplyThen(w, "planProduced", "loop")
  BY DEF Planned, AdvanceTrigger
<1>3. CASE exec'[w] = Idle /\ rows'[w] = rows[w]
  BY <1>1, <1>3, LeavingAsItIs
<1>4. Ended(steps[w], Len(steps[w]))
  BY <1>1 DEF UnderWay
<1>5. CASE ~(exec'[w] = Idle /\ rows'[w] = rows[w])
  BY <1>1, <1>2, <1>4, <1>5, ThenFollows, Advancing DEF Advances
<1> QED BY <1>3, <1>5

\* An execution goes on only with a fingerprint that differs from the last.
LEMMA NewPrint ==
  ASSUME NEW prints \in Seq(Prints), NEW p \in Prints, NoneRepeats(prints),
         ~Stalled(Append(prints, p))
  PROVE  NoneRepeats(Append(prints, p))
<1> DEFINE more == Append(prints, p)
           n == Len(prints)
<1>1. n \in Nat /\ Len(more) = n + 1 /\ more[n + 1] = p /\ \A i \in 1..n : more[i] = prints[i]
  BY AppendProperties
<1> HIDE DEF more
<1>2. ASSUME NEW i \in 2..(n + 1) PROVE more[i] # more[i - 1]
  <2>1. CASE i = n + 1
    BY <1>1, <2>1 DEF Stalled, more
  <2>2. CASE i # n + 1
    <3>1. i \in 2..n /\ i \in 1..n /\ i - 1 \in 1..n
      BY <1>1, <2>2
    <3> QED BY <1>1, <3>1 DEF NoneRepeats
  <2> QED BY <2>1, <2>2
<1> QED BY <1>1, <1>2 DEF NoneRepeats, more

LEMMA ImplementedCourse ==
  ASSUME IInv, CourseInv, NEW w \in Workflows, Implemented(w) PROVE CourseAt(w)'
<1> DEFINE r == Applied(rows[w], "implemented", None)
<1>1. /\ steps'[w] = steps[w] /\ exec[w].pc = "assess" /\ exec[w].state = "IMPLEMENTING"
      /\ exec[w].pc \notin Fresh \cup {"compile"} /\ exec[w].pc # "idle"
      /\ UnderWay(rows[w], steps[w], exec[w]) /\ NoneRepeats(exec[w].prints)
      /\ exec[w] \in Execs /\ exec[w].prints \in Seq(Prints)
  BY Members DEF Implemented, At, Fresh, CourseInv, Course, Execs
<1>2. PICK prints \in {exec[w].prints} \cup {Append(exec[w].prints, p) : p \in Prints} :
        IF prints # exec[w].prints /\ Stalled(prints)
        THEN Halt(w, "limitReached")
        ELSE IF CanTransition(rows[w].state, "implemented")
        THEN /\ rows' = [rows EXCEPT ![w] = r]
             /\ exec' = [exec EXCEPT ![w] = [exec[w] EXCEPT !.pc = "loop", !.state = r.state,
                                        !.turns = exec[w].turns + 1, !.prints = prints]]
        ELSE UNCHANGED rows /\ Leave(w)
  BY DEF Implemented
<1>3. CASE Halt(w, "limitReached")
  BY <1>1, <1>3, LeavingWithATrigger DEF Halt
<1>4. CASE UNCHANGED rows /\ Leave(w)
  BY <1>1, <1>4, LeavingAsItIs DEF Leave, IInv, Shape
<1>5. CASE /\ ~(prints # exec[w].prints /\ Stalled(prints))
           /\ CanTransition(rows[w].state, "implemented")
  <2>1. NoneRepeats(prints)
    BY <1>1, <1>2, <1>5, NewPrint
  <2> HIDE DEF r
  <2>2. /\ rows'[w] = r
        /\ exec'[w] = [exec[w] EXCEPT !.pc = "loop", !.state = r.state,
                                      !.turns = exec[w].turns + 1, !.prints = prints]
    BY <1>2, <1>5 DEF IInv, Shape
  <2>3. /\ exec'[w].pc = "loop" /\ exec'[w].state = r.state /\ exec'[w].next = exec[w].next
        /\ exec'[w].turns = exec[w].turns + 1 /\ exec'[w].prints = prints
    BY <1>1, <2>2 DEF Execs
  <2>4. Ended(steps[w], Len(steps[w])) /\ MadeAt(steps[w], Len(steps[w]))
    BY <1>1 DEF UnderWay, StepsLeadHere, MadeAt, RoleOf
  <2> QED BY <1>1, <1>5, <2>1, <2>2, <2>3, <2>4, Advancing DEF Advances, r
<1> QED BY <1>2, <1>3, <1>4, <1>5

LEMMA OthersStayAtWork ==
  ASSUME IInv, NEW w \in Workflows, Work(w) PROVE OthersStay(w)
<1> SUFFICES ASSUME NEW v \in Workflows \ {w}
             PROVE  rows'[v] = rows[v] /\ steps'[v] = steps[v] /\ exec'[v] = exec[v]
  BY DEF OthersStay
<1>1. rows'[v] = rows[v] /\ exec'[v] = exec[v]
  <2>1. CASE Ask(w)
    BY <2>1 DEF Ask, Go, IInv, Shape
  <2>2. CASE ~Ask(w)
    <3>1. Moves(w)
      BY <2>2, BootSteps, PrepareStep, LoopSteps, BeginStepStep, VerdictSteps, CompiledStep,
         ReportSteps, ReviewedStep, RaisingStep, ImplementedStep DEF Work, LocalOutcome
    <3> QED BY <3>1 DEF Moves, IInv, Shape
  <2> QED BY <2>1, <2>2
<1>2. steps'[v] = steps[v]
  <2>1. ASSUME NEW verdict, FinishStep(w, verdict) PROVE steps'[v] = steps[v]
    BY <2>1 DEF FinishStep, IInv, Shape
  <2>2. ASSUME NEW index, NEW role, NEW pc, StartStep(w, index, role, pc)
        PROVE  steps'[v] = steps[v]
    BY <2>2 DEF StartStep, IInv, Shape
  <2>3. CASE BeginStep(w)
    BY <2>2, <2>3 DEF BeginStep
  <2>4. CASE Compiled(w)
    BY <2>2, <2>4 DEF Compiled
  <2>5. CASE Approve(w) \/ Verified(w) \/ Reviewed(w)
    BY <2>1, <2>5 DEF Approve, Verified, Reviewed
  <2>6. CASE NoReport(w) \/ HaltingReport(w) \/ Ask(w) \/ Accepted(w)
    BY <2>1, <2>6 DEF NoReport, HaltingReport, Ask, Accepted
  <2>7. CASE \/ Execute(w) \/ Reclaim(w) \/ Prepare(w) \/ Throw(w)
             \/ LoopEnds(w) \/ LoopHalts(w) \/ LoopPasses(w) \/ Correct(w)
             \/ RaiseQuestion(w) \/ Refused(w) \/ Planned(w) \/ Implemented(w)
    BY <2>7 DEF Execute, Reclaim, Prepare, Throw, LoopEnds, LoopHalts, LoopPasses, Correct,
                RaiseQuestion, Refused, Planned, Implemented
  <2> QED BY <2>3, <2>4, <2>5, <2>6, <2>7 DEF Work
<1> QED BY <1>1, <1>2

LEMMA WorkCourse ==
  ASSUME IInv, CourseInv, NEW w \in Workflows, Work(w) PROVE CourseInv'
<1>1. CourseAt(w)'
  BY BootCourse, PrepareCourse, LoopHaltsCourse, LoopPassesCourse, BeginStepCourse, VerdictCourse,
     CorrectCourse, CompiledCourse, ReportHaltsCourse, ReportedCourse, PlannedCourse,
     ImplementedCourse, ReviewedCourse DEF Work
<1> QED BY <1>1, OthersStayAtWork, OneGoesOn

-----------------------------------------------------------------------------
(* The user's calls and process death.                                      *)

\* Another execution that has not begun, or none.
LEMMA FreshCourse ==
  ASSUME NEW r, NEW s, Recorded(r, s), NEW e \in {Idle, [Idle EXCEPT !.pc = "spawn"]}
  PROVE  Course(r, s, e)
<1>1. e.pc \in Fresh /\ e.next = 0 /\ e.turns = 0 /\ e.prints = << >> /\ NoneRepeats(e.prints)
  BY IdleIsFresh DEF Idle, Fresh
<1> QED BY <1>1 DEF Course

LEMMA StartCourse ==
  ASSUME IInv, CourseInv, NEW w \in Workflows, Start(w) PROVE CourseInv'
<1>1. /\ rows[w] = NoRow /\ rows[w].state = None /\ rows'[w] = NewRow
      /\ steps'[w] = steps[w] /\ exec[w] \in Execs
  BY Members, BlankRows DEF Start, IInv, Shape
<1>2. steps[w] = << >> /\ CourseAt(w)
  BY <1>1 DEF CourseInv, CourseAt, Course, Recorded
<1>3. NewRow.state = "DISCOVERY" /\ NewRow.iteration = 0 /\ NewRow.resumeState = None
  BY BlankRows DEF NewRow, NoRow
<1>4. Recorded(NewRow, << >>)
  BY <1>3, NoStepNoImplementer, NoneIsNoState DEF Recorded
<1>5. exec[w].pc = "idle"
  BY <1>1, Members DEF Fits
<1>6. /\ exec'[w].pc \in Fresh /\ exec'[w].next = exec[w].next
      /\ exec'[w].turns = exec[w].turns /\ exec'[w].prints = exec[w].prints
  <2>1. exec'[w] = exec[w] \/ exec'[w] = [exec[w] EXCEPT !.pc = "boot"]
    BY DEF Start, Go, IInv, Shape
  <2> QED BY <1>1, <1>5, <2>1 DEF Execs, Fresh
<1>7. CourseAt(w)'
  BY <1>1, <1>2, <1>4, <1>5, <1>6 DEF CourseAt, Course, Fresh
<1>8. OthersStay(w)
  BY DEF Start, Go, OthersStay, IInv, Shape
<1> QED BY <1>7, <1>8, OneGoesOn

LEMMA CancelCourse ==
  ASSUME IInv, CourseInv, NEW w \in Workflows, Cancel(w) PROVE CourseInv'
<1> DEFINE r == Applied(rows[w], "cancelled", None)
<1>1. /\ rows'[w] = r /\ steps'[w] = steps[w] /\ rows[w] \in Rows /\ GoodRow(rows[w])
      /\ exec[w] \in Execs /\ Course(rows[w], steps[w], exec[w]) /\ exec[w].pc \notin SyncPoints
  BY Members DEF Cancel, Free, CourseInv, IInv, Shape
<1>2. CanTransition(rows[w].state, "cancelled")
  <2>1. rows[w].state \in ActiveStates
    BY <1>1, Members DEF Cancel, GoodRow, Rows, WorkflowStates
  <2>2. <<rows[w].state, "cancelled", "CANCELLED">> \in Transitions
    BY <2>1 DEF Transitions, UniversalTransitions
  <2> QED BY <2>2 DEF CanTransition
<1>3. r.state = "CANCELLED" /\ r.iteration = rows[w].iteration
  BY <1>1, <1>2, AppliedLeads DEF Leads
<1>4. r.resumeState = None
  <2>1. r.state # "AWAITING_USER"
    BY <1>3
  <2> QED BY <2>1 DEF Applied
<1> HIDE DEF r
<1>5. Recorded(r, steps[w])
  BY <1>1, <1>3, <1>4, NoneIsNoState DEF Recorded, Course
<1>6. /\ exec'[w].pc = exec[w].pc /\ exec'[w].next = exec[w].next
      /\ exec'[w].state = exec[w].state
      /\ exec'[w].turns = exec[w].turns /\ exec'[w].prints = exec[w].prints
  <2> DEFINE given == exec[w].aborted \/ exec[w].pc \notin {"idle", "spawn"}
  <2>1. exec'[w] = [exec[w] EXCEPT !.aborted = given]
    BY DEF Cancel, IInv, Shape
  <2> HIDE DEF given
  <2> QED BY <1>1, <2>1 DEF Execs
<1>7. exec[w].pc \notin Fresh => UnderWay(r, steps[w], exec'[w])
  BY <1>1, <1>3, <1>6
     DEF Course, UnderWay, PointFits, StepsLeadHere, ToImplement, SyncPoints
<1>8. CourseAt(w)'
  BY <1>1, <1>5, <1>6, <1>7 DEF CourseAt, Course
<1>9. OthersStay(w)
  BY DEF Cancel, OthersStay, IInv, Shape
<1> QED BY <1>8, <1>9, OneGoesOn

LEMMA ApproveCourse ==
  ASSUME IInv, CourseInv, NEW w \in Workflows, ApproveAndStartImplementation(w)
  PROVE  CourseInv'
<1> DEFINE r == Applied(rows[w], "userApproved", None)
<1>1. /\ rows'[w] = r /\ steps'[w] = steps[w] /\ rows[w] \in Rows /\ GoodRow(rows[w])
      /\ exec'[w] = [Idle EXCEPT !.pc = "spawn"] /\ rows[w].state = "PLAN_READY"
      /\ Recorded(rows[w], steps[w])
  BY Members DEF ApproveAndStartImplementation, CourseInv, Course, IInv, Shape
<1>2. CanTransition(rows[w].state, "userApproved")
  <2>1. <<"PLAN_READY", "userApproved", "DECISIONS_LOCKED">> \in Transitions
    BY DEF Transitions, DirectedTransitions
  <2> QED BY <1>1, <2>1 DEF CanTransition
<1>3. /\ r.state = "DECISIONS_LOCKED" /\ r.iteration = rows[w].iteration
      /\ r.resumeState # "DISCOVERY"
  BY <1>1, <1>2, AppliedLeads, NoneIsNoState DEF Leads
<1> HIDE DEF r
<1>4. Recorded(r, steps[w])
  BY <1>1, <1>3, NoneIsNoState DEF Recorded
<1>5. CourseAt(w)'
  BY <1>1, <1>4, FreshCourse DEF CourseAt
<1>6. OthersStay(w)
  BY DEF ApproveAndStartImplementation, OthersStay, IInv, Shape
<1> QED BY <1>5, <1>6, OneGoesOn

\* An answer leads back to the state of the question, in which no execution begins again.
LEMMA AnswerCourse ==
  ASSUME IInv, CourseInv, NEW w \in Workflows, NEW promote \in BOOLEAN, NEW k \in 1..Len(asked[w]),
         AnswerQuestion(w, k, promote)
  PROVE  CourseInv'
<1> SUFFICES ASSUME NEW v \in Workflows PROVE CourseAt(v)'
  BY DEF CourseInv, CourseAt
<1> DEFINE r == Applied(rows[v], "questionAnswered", None)
<1>1. /\ steps'[v] = steps[v] /\ CourseAt(v) /\ Recorded(rows[v], steps[v])
      /\ rows[v] \in Rows /\ GoodRow(rows[v])
  BY Members DEF AnswerQuestion, CourseInv, CourseAt, Course
<1>2. CASE v \in WokenBy(<<w, k>>)
  <2>1. rows'[v] = r /\ exec'[v] = [Idle EXCEPT !.pc = "spawn"] /\ rows[v].state = "AWAITING_USER"
    BY <1>2 DEF AnswerQuestion, WokenBy, WaitsFor
  <2>2. CanTransition(rows[v].state, "questionAnswered")
    <3>1. <<"AWAITING_USER", "questionAnswered", None>> \in Transitions
      BY DEF Transitions, DirectedTransitions
    <3> QED BY <2>1, <3>1 DEF CanTransition
  <2>3. r.state = rows[v].resumeState /\ r.iteration = rows[v].iteration
    BY DEF Applied, Destination
  <2>4. rows[v].resumeState \in Resumable
    BY <1>1, <2>1 DEF Rows, GoodRow, RowIsValid
  <2>5. r.resumeState = None
    <3>1. rows[v].resumeState # "AWAITING_USER"
      BY <2>4 DEF Resumable
    <3> QED BY <3>1 DEF Applied, Destination
  <2> HIDE DEF r
  <2>6. r.state \notin {None, "DISCOVERY", "DONE"}
    BY <1>1, <2>3, <2>4, NoneIsNoState
       DEF Recorded, Resumable, ActiveStates
  <2>7. Recorded(r, steps[v])
    BY <1>1, <2>3, <2>5, <2>6, NoneIsNoState DEF Recorded
  <2> QED BY <1>1, <2>1, <2>7, FreshCourse DEF CourseAt
<1>3. CASE v \notin WokenBy(<<w, k>>)
  BY <1>1, <1>3 DEF AnswerQuestion, CourseAt
<1> QED BY <1>2, <1>3

LEMMA DeathCourse ==
  ASSUME CourseInv, Crash \/ CrashInAnswer PROVE CourseInv'
<1> SUFFICES ASSUME NEW v \in Workflows PROVE CourseAt(v)'
  BY DEF CourseInv, CourseAt
<1>1. /\ rows'[v] = rows[v] /\ steps'[v] = steps[v] /\ exec'[v] = Idle
      /\ Recorded(rows[v], steps[v])
  BY DEF Crash, CrashInAnswer, Die, CourseInv, Course
<1> QED BY <1>1, FreshCourse DEF CourseAt

-----------------------------------------------------------------------------
(* The theorems.                                                            *)

LEMMA InitCourse == Init => CourseInv
<1> SUFFICES ASSUME Init, NEW w \in Workflows PROVE Course(rows[w], steps[w], exec[w])
  BY DEF CourseInv
<1>1. rows[w] = NoRow /\ steps[w] = << >> /\ exec[w] = Idle
  BY DEF Init
<1>2. Recorded(NoRow, << >>)
  BY NoStepNoImplementer, NoneIsNoState DEF Recorded, NoRow
<1> QED BY <1>1, <1>2, FreshCourse

LEMMA NextCourse ==
  ASSUME IInv, CourseInv, [Next]_vars PROVE CourseInv'
<1>1. CASE \E w \in Workflows : Work(w)
  BY <1>1, WorkCourse
<1>2. CASE \E w \in Workflows : Start(w)
  BY <1>2, StartCourse
<1>3. CASE \E w \in Workflows : Cancel(w)
  BY <1>3, CancelCourse
<1>4. CASE \E w \in Workflows : ApproveAndStartImplementation(w)
  BY <1>4, ApproveCourse
<1>5. CASE Answer
  BY <1>5, AnswerCourse DEF Answer
<1>6. CASE Crash \/ CrashInAnswer
  BY <1>6, DeathCourse
<1>7. CASE \/ \E w \in Workflows : Dispose(w)
           \/ \E p \in Projects : LockDecision(p)
           \/ UNCHANGED vars
  <2>1. UNCHANGED <<rows, steps, exec>>
    BY <1>7 DEF Dispose, LockDecision, vars
  <2> QED BY <2>1 DEF CourseInv
<1> QED BY <1>1, <1>2, <1>3, <1>4, <1>5, <1>6, <1>7 DEF Next

\* The rows, the steps and the execution of every workflow keep the course of the template.
THEOREM RunsKeepTheirCourse == Spec => [](IInv /\ CourseInv)
<1>1. Init => IInv /\ CourseInv
  BY InitIInv, InitCourse
<1>2. IInv /\ CourseInv /\ [Next]_vars => (IInv /\ CourseInv)'
  BY NextIsSafe, NextCourse
<1> QED BY <1>1, <1>2, PTL DEF Spec

\* The last of the steps with a role is the last step, if it has that role.
LEMMA LastIsLast ==
  ASSUME NEW w \in Workflows, steps[w] \in Seq(Steps), NEW k \in 1..Len(steps[w]), NEW role,
         steps[w][k].role = role, \A i \in (k + 1)..Len(steps[w]) : steps[w][i].role # role
  PROVE  LastOf(w, role) = k
<1> DEFINE is == {i \in DOMAIN steps[w] : steps[w][i].role = role}
<1>1. DOMAIN steps[w] = 1..Len(steps[w]) /\ Len(steps[w]) \in Nat
  OBVIOUS
<1>2. k \in is /\ \A j \in is : j =< k
  BY <1>1
<1>3. \A i \in is : (\A j \in is : j =< i) => i = k
  BY <1>1, <1>2
<1> HIDE DEF is
<1>4. is # {} /\ (CHOOSE i \in is : \A j \in is : j =< i) = k
  BY <1>2, <1>3
<1> QED BY <1>4 DEF LastOf, is

\* Whatever agents, users, other workflows and process deaths do, a workflow that is DONE was
\* implemented, then verified, then reviewed, and no step of it is open (orchestrator.ts).
THEOREM DoneWasVerified == Spec => []DoneIsVerified
<1>1. IInv /\ CourseInv => DoneIsVerified
  <2> SUFFICES ASSUME IInv, CourseInv, NEW w \in Workflows, rows[w].state = "DONE"
               PROVE  LET made == LastOf(w, "implementer")  checked == LastOf(w, "system")
                          read == LastOf(w, "reviewer") IN
                      /\ 0 < made /\ made < checked /\ checked < read
                      /\ steps[w][checked].verdict = "pass" /\ steps[w][read].verdict = "pass"
                      /\ \A i \in DOMAIN steps[w] : steps[w][i].ended
    BY DEF DoneIsVerified
  <2> DEFINE n == Len(steps[w])
  <2>1. steps[w] \in Seq(Steps) /\ n \in Nat /\ DOMAIN steps[w] = 1..n
    BY Members
  <2>2. ReviewedAt(steps[w], n) /\ Ended(steps[w], n)
    BY DEF CourseInv, Course, Recorded
  <2>3. /\ n > 2 /\ steps[w][n].role = "reviewer" /\ steps[w][n].verdict = "pass"
        /\ steps[w][n - 1].role = "system" /\ steps[w][n - 1].verdict = "pass"
        /\ steps[w][n - 2].role = "implementer"
    <3>1. (n - 1) - 1 = n - 2
      BY <2>1
    <3> QED BY <2>1, <2>2, <3>1 DEF ReviewedAt, CheckedAt, MadeAt
  <2>4. LastOf(w, "reviewer") = n
    BY <2>1, <2>3, LastIsLast
  <2>5. LastOf(w, "system") = n - 1
    BY <2>1, <2>3, LastIsLast
  <2>6. LastOf(w, "implementer") = n - 2
    <3>1. n - 2 \in 1..n /\ \A i \in ((n - 2) + 1)..n : i = n - 1 \/ i = n
      BY <2>1, <2>3
    <3> QED BY <2>1, <2>3, <3>1, LastIsLast
  <2> QED BY <2>1, <2>2, <2>3, <2>4, <2>5, <2>6 DEF Ended
<1> QED BY <1>1, RunsKeepTheirCourse, PTL

\* The correction loop ends for every cap on the iterations: the agent implements at most once
\* per iteration and once more, never twice in a row with the same changes, and the hard stop of
\* the loop is never reached (transitions.ts, orchestrator.ts).
THEOREM CorrectionsStayBounded == Spec => []CorrectionsAreBounded
<1>1. IInv /\ CourseInv => CorrectionsAreBounded
  <2> SUFFICES ASSUME IInv, CourseInv, NEW w \in Workflows
               PROVE  /\ Count(w, "implementer") =< rows[w].iteration + 1
                      /\ exec[w].turns < HardStop
                      /\ \A i \in 2..Len(exec[w].prints) : exec[w].prints[i] # exec[w].prints[i - 1]
    BY DEF CorrectionsAreBounded
  <2>1. Course(rows[w], steps[w], exec[w]) /\ Typed(w)
    BY AllTyped DEF CourseInv
  <2>2. Count(w, "implementer") =< rows[w].iteration + 1
    BY <2>1 DEF Course, Recorded, Count, Implementers
  <2>3. MaxIterations \in Nat /\ rows[w].iteration \in 0..MaxIterations
    BY Members, WorkflowMachineAssumption DEF Rows
  <2>4. exec[w].turns =< 6 + 3 * rows[w].iteration
    <3>1. CASE exec[w].pc \in Fresh
      <4>1. exec[w].turns = 0
        BY <2>1, <3>1 DEF Course
      <4> QED BY <2>3, <4>1
    <3>2. CASE exec[w].pc \notin Fresh
      <4>1. exec[w].turns =< Rank(exec[w].state) + 3 * rows[w].iteration
        BY <2>1, <3>2 DEF Course, UnderWay
      <4>2. Rank(exec[w].state) =< Rank("DONE") /\ Rank("DONE") = 6
        BY RankIs
      <4> QED BY <2>1, <4>1, <4>2, TurnTaken DEF Typed
    <3> QED BY <3>1, <3>2
  <2>5. exec[w].turns < HardStop
    <3>1. HardStop = 5 * MaxIterations + 20
      BY <2>3 DEF HardStop, TemplateLength
    <3> QED BY <2>1, <2>3, <2>4, <3>1 DEF Typed
  <2>6. NoneRepeats(exec[w].prints)
    BY <2>1 DEF Course
  <2> QED BY <2>2, <2>5, <2>6 DEF NoneRepeats
<1> QED BY <1>1, RunsKeepTheirCourse, PTL
=============================================================================
