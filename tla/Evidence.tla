-------------------------------- MODULE Evidence --------------------------------
(***************************************************************************)
(* From evidence to a verdict: reconcile(), assessCompletion(),            *)
(* detectFalseClaims(), auditAdversarialEvidence() and the part of         *)
(* verifyStep() that puts them together.  Nothing here has state.          *)
(*                                                                         *)
(* The work w that is judged is a record:                                  *)
(*   reported     there is a report of the agent, and with it              *)
(*   status       "completed", "blocked" or "question",                    *)
(*   testsRun, assumed       what it says of tests, and that it assumes,   *)
(*   claimed      the paths it says it changed;                            *)
(*   reconciled   the diff was taken, and with it                          *)
(*   changed      the paths that are changed, and the scope of the task:   *)
(*   allowed, forbidden;                                                   *)
(*   criteria     the kinds of the task's completion criteria;             *)
(*   tooling      the kinds of command the project has, "build", "tests";  *)
(*   artifacts    a function from the kinds that were run to artifacts,    *)
(*                [outcome, exit, counts]: the exit code, 0 or 1, and      *)
(*                what the output says of tests, "none" if nothing,        *)
(*                "clean" or "failures".                                   *)
(* Strings are left out, and with them the findings.                       *)
(***************************************************************************)
EXTENDS FiniteSets, Naturals

Kinds == {"build", "tests"}

\* Variant for mutation: a command that has completed has passed.
EvidenceCompleted(a) == a.outcome = "completed" /\ a.counts # "failures"

EvidencePassed(a) == a.outcome = "completed" /\ a.exit = 0 /\ a.counts # "failures"

Ran(w, kind)    == kind \in DOMAIN w.artifacts
Passed(w, kind) == Ran(w, kind) /\ EvidencePassed(w.artifacts[kind])
Failed(w, kind) == Ran(w, kind) /\ ~EvidencePassed(w.artifacts[kind])

-----------------------------------------------------------------------------
(* reconcile().                                                            *)

\* A prohibition wins over a permission, and no permission at all permits all.
IsPathAllowed(w, path) ==
  path \notin w.forbidden /\ (w.allowed = {} \/ path \in w.allowed)

OutOfScope(w) == {path \in w.changed : ~IsPathAllowed(w, path)}

ClaimedButUnchanged(w) == w.claimed \ w.changed

-----------------------------------------------------------------------------
(* assessCompletion().                                                     *)

FromEvidence(w, kind) ==
  IF ~Ran(w, kind) THEN "unknown" ELSE IF Passed(w, kind) THEN "pass" ELSE "fail"

FromAssumptions(w) ==
  IF ~w.reported THEN "unknown" ELSE IF w.assumed THEN "fail" ELSE "pass"

FromScope(w) ==
  IF ~w.reconciled THEN "unknown" ELSE IF OutOfScope(w) = {} THEN "pass" ELSE "fail"

\* The other three kinds are judged by a review, by the paths that exist and by a
\* command of their own: no caller of verifyStep() supplies any of them.
CriterionVerdict(w, criterion) ==
  CASE criterion \in Kinds          -> FromEvidence(w, criterion)
    [] criterion = "no-assumptions" -> FromAssumptions(w)
    [] criterion = "diff-scope"     -> FromScope(w)
    [] OTHER                        -> "unknown"

\* A failure outranks what could not be checked, and neither is a pass.
Worst(verdicts) ==
  IF "fail" \in verdicts THEN "fail"
  ELSE IF verdicts = {} \/ "unknown" \in verdicts THEN "unknown"
  ELSE "pass"

AssessCompletion(w) == Worst({CriterionVerdict(w, c) : c \in w.criteria})

-----------------------------------------------------------------------------
(* verifyStep().                                                           *)

\* detectFalseClaims(): claims of the report that the evidence contradicts.
FalseClaims(w) ==
  /\ w.reported
  /\ \/ w.testsRun /\ "tests" \notin w.tooling
     \/ w.testsRun /\ Failed(w, "tests")
     \/ w.status = "completed" /\ \E kind \in Kinds : Failed(w, kind)
     \/ w.reconciled /\ w.status = "completed" /\ OutOfScope(w) # {}
     \/ w.reconciled /\ ClaimedButUnchanged(w) # {}

PhysicalChanges(w) == w.reconciled /\ w.changed # {}
RequiresChanges(w) == w.criteria \cap {"diff-scope", "file-exists"} # {} \/ w.allowed # {}

Contradictory(a) ==
  /\ a.outcome = "completed"
  /\ <<a.exit, a.counts>> \in {<<0, "failures">>, <<1, "clean">>}

\* auditAdversarialEvidence(): contradictory output, scope, and success that was
\* claimed without any change.
AuditFails(w) ==
  \/ \E kind \in DOMAIN w.artifacts : Contradictory(w.artifacts[kind])
  \/ w.reconciled /\ (OutOfScope(w) # {} \/ ClaimedButUnchanged(w) # {})
  \/ /\ w.reported /\ w.status = "completed"
     /\ \/ Failed(w, "build")
        \/ w.testsRun /\ Failed(w, "tests")
        \/ /\ w.reconciled /\ ~PhysicalChanges(w)
           /\ (RequiresChanges(w) /\ DOMAIN w.artifacts = {}) \/ w.claimed # {}

Verdict(w) ==
  IF AssessCompletion(w) = "pass" /\ (AuditFails(w) \/ FalseClaims(w))
  THEN "fail" ELSE AssessCompletion(w)

-----------------------------------------------------------------------------
(* What a direct task makes of it: its exit code, and the status of the    *)
(* run and the step.                                                       *)

ExitCode(w) ==
  IF OutOfScope(w) # {} THEN 2
  ELSE IF \/ w.status = "blocked" \/ Verdict(w) # "pass"
          \/ FalseClaims(w) \/ ClaimedButUnchanged(w) # {}
       THEN 1 ELSE 0

StatusOf(exitCode) ==
  CASE exitCode = 0 -> "completed" [] exitCode = 1 -> "failed" [] exitCode = 2 -> "halted"
=============================================================================
