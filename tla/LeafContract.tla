------------------------------ MODULE LeafContract ------------------------------
(***************************************************************************)
(* What the GraphExecutor relies on when it hands a node to a leaf: one    *)
(* answer, which is no better than what was claimed by whoever did the     *)
(* work, which is never a clean one for a read-only node whose worktree    *)
(* changed, and after which the worktree stays as it was measured.         *)
(***************************************************************************)
EXTENDS Naturals

VARIABLES
  readOnly,   \* whether the node must leave its worktree alone
  aborted,    \* the executor has given up on the node
  claims,     \* what the agent, the verifier or the approver has said
  writes,     \* how often the worktree was written to
  result      \* what execute() answered

Answers == {"completed", "waiting", "cancelled", "failed", "throws"}
Clean   == readOnly => writes = 0

Init ==
  /\ readOnly \in BOOLEAN /\ aborted = FALSE
  /\ claims = {} /\ writes = 0 /\ result = "none"

\* Work goes on, is reported on, is given up, but never beyond the answer.
Work ==
  /\ result = "none" /\ result' = "none"
  /\ writes' \in {writes, writes + 1}
  /\ claims \subseteq claims'
  /\ aborted => aborted'
  /\ UNCHANGED readOnly

\* A writable node may still complete that was given up while its change set was
\* captured: the executor looks at its own signal then.
Answer ==
  /\ result = "none" /\ result' \in Answers
  /\ result' = "completed" =>
       "completed" \in claims' /\ Clean /\ (readOnly => ~aborted)
  /\ result' = "waiting" => Clean /\ ~aborted
  /\ result' = "cancelled" => Clean /\ (aborted \/ "rejected" \in claims)
  /\ claims \subseteq claims'
  /\ UNCHANGED <<readOnly, aborted, writes>>

Next == Work \/ Answer

Spec == Init /\ [][Next]_<<readOnly, aborted, claims, writes, result>>
=============================================================================
