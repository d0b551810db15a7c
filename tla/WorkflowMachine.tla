---------------------------- MODULE WorkflowMachine ----------------------------
(* The workflow state machine as data, and the row that one trigger leaves:  *)
(* transition() and WorkflowStore.apply().                                   *)
EXTENDS Naturals

CONSTANTS MaxIterations,   \* limits.maxIterations
          None             \* the null of a row's column

ASSUME WorkflowMachineAssumption == MaxIterations \in Nat \ {0}

HaltedStates   == {"HALTED_LIMIT", "HALTED_POLICY"}
TerminalStates == {"DONE", "CANCELLED"} \cup HaltedStates
ActiveStates   == {"DISCOVERY", "PLANNING", "PLAN_READY", "DECISIONS_LOCKED",
                   "IMPLEMENTING", "VERIFYING", "REVIEWING",
                   "CORRECTION_REQUIRED", "AWAITING_USER"}
WorkflowStates == ActiveStates \cup TerminalStates

\* <<from, trigger, to>>
DirectedTransitions ==
  { <<"DISCOVERY",           "start",                 "PLANNING">>,
    <<"PLANNING",            "planProduced",          "PLAN_READY">>,
    <<"PLAN_READY",          "userApproved",          "DECISIONS_LOCKED">>,
    <<"DECISIONS_LOCKED",    "implementationStarted", "IMPLEMENTING">>,
    <<"IMPLEMENTING",        "implemented",           "VERIFYING">>,
    <<"VERIFYING",           "verified",              "REVIEWING">>,
    <<"VERIFYING",           "verificationFailed",    "CORRECTION_REQUIRED">>,
    <<"REVIEWING",           "reviewPassed",          "DONE">>,
    <<"REVIEWING",           "reviewFailed",          "CORRECTION_REQUIRED">>,
    <<"CORRECTION_REQUIRED", "correctionStarted",     "IMPLEMENTING">>,
    <<"AWAITING_USER",       "questionAnswered",      None>> }

UniversalTransitions ==
  { <<"questionRaised", "AWAITING_USER">>, <<"limitReached",  "HALTED_LIMIT">>,
    <<"policyViolated", "HALTED_POLICY">>, <<"cancelled",     "CANCELLED">> }

\* Mutated form: the universal triggers apply to finished workflows too.
TransitionsOfAll ==
  DirectedTransitions
    \cup {<<from, u[1], u[2]>> : from \in WorkflowStates, u \in UniversalTransitions}

\* A terminal state accepts nothing, not even a cancel.
Transitions ==
  DirectedTransitions
    \cup {<<from, u[1], u[2]>> : from \in ActiveStates, u \in UniversalTransitions}

CanTransition(from, trigger) == \E m \in Transitions : m[1] = from /\ m[2] = trigger

\* Variant for mutation: no cap on corrections.
DestinationUncapped(row, trigger) ==
  IF trigger = "questionAnswered" THEN row.resumeState
  ELSE (CHOOSE m \in Transitions : m[1] = row.state /\ m[2] = trigger)[3]

\* Where a legal trigger leads: back to resumeState, into the iteration cap,
\* or where the table says.
Destination(row, trigger) ==
  CASE trigger = "questionAnswered" -> row.resumeState
    [] trigger = "correctionStarted" /\ row.iteration + 1 > MaxIterations -> "HALTED_LIMIT"
    [] OTHER -> (CHOOSE m \in Transitions : m[1] = row.state /\ m[2] = trigger)[3]

\* Mutated form: a correction does not count.
AppliedUncounted(row, trigger, questionId) ==
  LET to == Destination(row, trigger) IN
  [row EXCEPT !.state = to,
     !.resumeState = IF to = "AWAITING_USER" THEN row.state ELSE None,
     !.blockedBy   = IF to = "AWAITING_USER" THEN questionId ELSE None,
     !.halted = @ \/ to \in HaltedStates, !.finished = to \in TerminalStates,
     !.checkpoint = @ /\ to \notin TerminalStates]

\* The events that apply() writes in one transaction, projected on the row:
\* transitioned, halted and finished.
Applied(row, trigger, questionId) ==
  LET to == Destination(row, trigger) IN
  [state       |-> to,
   iteration   |-> IF trigger = "correctionStarted" /\ to = "IMPLEMENTING"
                     THEN row.iteration + 1 ELSE row.iteration,
   resumeState |-> IF to = "AWAITING_USER" THEN row.state ELSE None,
   blockedBy   |-> IF to = "AWAITING_USER" THEN questionId ELSE None,
   halted      |-> row.halted \/ to \in HaltedStates,
   finished    |-> to \in TerminalStates,
   checkpoint  |-> row.checkpoint /\ to \notin TerminalStates]

NoRow  == [state |-> None, iteration |-> 0, resumeState |-> None, blockedBy |-> None,
           halted |-> FALSE, finished |-> FALSE, checkpoint |-> FALSE]
NewRow == [NoRow EXCEPT !.state = "DISCOVERY"]

\* workflowSchema, which every read of a row enforces.
RowIsValid(row) ==
  /\ row.state = "AWAITING_USER" => row.resumeState # None
  /\ row.state # "AWAITING_USER" => row.blockedBy = None
  /\ row.state \in HaltedStates => row.halted
  /\ row.iteration =< MaxIterations
=============================================================================
