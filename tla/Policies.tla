-------------------------------- MODULE Policies --------------------------------
(***************************************************************************)
(* Who may do what: rules of every scope and the limits among them         *)
(* (domain/policy.ts, domain/limitRules.ts), the runtime and the           *)
(* permissions a step runs with (runtimes/bindings.ts,                     *)
(* workflows/roleResolution.ts, domain/rolePermission.ts), what it is told *)
(* (ContextPacket), and what its report is halted for                      *)
(* (domain/policyEngine.ts).                                               *)
(*                                                                         *)
(* All of these are functions: a question is asked, and answered in one    *)
(* step.  A statement of a limit is "default", "other", "outside" its      *)
(* range or "noise", no number at all; a command is of a class.            *)
(***************************************************************************)
EXTENDS Integers, FiniteSets, ContextPacket

CONSTANTS
  Questions,      \* what is asked, see Answer
  Capabilities    \* [registered runtime -> what it declares]

VARIABLES question, reply

policyVars == <<question, reply>>

-----------------------------------------------------------------------------
(* Rules: records of scope, key, statement and source.                     *)

\* Later scopes are more specific.
Specificity ==
  [global |-> 0, workspace |-> 1, project |-> 2, workflow |-> 3, agent |-> 4, task |-> 5]

\* Of one scope there are at most the rule of Forge and one of the user, whose sources
\* sort in this order.
SourceOrder == [forge |-> 0, user |-> 1]

Wider(r, s) ==
  \/ Specificity[r.scope] < Specificity[s.scope]
  \/ r.scope = s.scope /\ SourceOrder[r.source] < SourceOrder[s.source]

EffectivePolicy(rules) ==
  {[rule |-> r, shadowed |-> {s \in rules : s.key = r.key} \ {r}] :
     r \in {w \in rules : \A s \in rules \ {w} : s.key = w.key => Wider(s, w)}}

-----------------------------------------------------------------------------
(* Limits: rules of a known key.  One number outside of its range is one   *)
(* too many: every limit is the default again.                             *)

KnownLimits == {"maxIterations", "maxRetries"}

LimitRules(rules) == {e.rule : e \in {e \in EffectivePolicy(rules) : e.rule.key \in KnownLimits}}
Understood(rules) == {r \in LimitRules(rules) : r.statement # "noise"}
OutOfRange(rules) == {r \in Understood(rules) : r.statement = "outside"}

Limits(rules) ==
  [problems |-> {r.key : r \in OutOfRange(rules) \cup (LimitRules(rules) \ Understood(rules))},
   values |-> [k \in KnownLimits |->
     IF OutOfRange(rules) = {} /\ \E r \in Understood(rules) : r.key = k
     THEN (CHOOSE r \in Understood(rules) : r.key = k).statement
     ELSE "default"]]

-----------------------------------------------------------------------------
(* Roles and bindings.  A binding is a record of runtime and permissions.  *)

RoleDefaults ==
  [planner     |-> {},
   implementer |-> {"writeFiles", "runTests", "runBuild"},
   reviewer    |-> {"runTests"},
   tester      |-> {"runTests", "runBuild"}]

RoleRequires ==
  [planner     |-> {"repo-read", "plan"},
   implementer |-> {"repo-read", "file-write"},
   reviewer    |-> {"repo-read", "review"},
   tester      |-> {"repo-read", "test"}]

CanHoldRole(runtime, role) == RoleRequires[role] \subseteq Capabilities[runtime]
CandidatesForRole(role)    == {r \in DOMAIN Capabilities : CanHoldRole(r, role)}

NoBinding == [runtime |-> "none", permissions |-> {}]

\* What the settings store when a runtime is chosen for a role: refused, if it cannot
\* hold it.
BindRole(role, runtime) ==
  IF runtime \in CandidatesForRole(role)
  THEN [runtime |-> runtime, permissions |-> RoleDefaults[role]] ELSE NoBinding

Widens(role, binding) == binding # NoBinding /\ ~(binding.permissions \subseteq RoleDefaults[role])

EffectivePermissions(role, binding) ==
  IF binding = NoBinding THEN RoleDefaults[role] ELSE RoleDefaults[role] \cap binding.permissions

-----------------------------------------------------------------------------
(* The runtime of a node.                                                  *)

ApplicableBinding(q) ==
  IF q.execution # NoBinding THEN q.execution
  ELSE IF q.composition # NoBinding THEN q.composition ELSE BindRole(q.role, q.chosen)

ChosenRuntime(q) ==
  IF q.provider # "none" THEN q.provider
  ELSE IF ApplicableBinding(q) # NoBinding THEN ApplicableBinding(q).runtime
  ELSE q.byDefault

NodeRequiresFileWrite(q) == q.mode = "read-only" => q.diff

Granted(q) == EffectivePermissions(q.role, ApplicableBinding(q))

\* What the node does needs the capability of the runtime and the permission.
NodeNeeds(q) ==
  (IF NodeRequiresFileWrite(q) THEN {<<"file-write", "writeFiles">>} ELSE {})
    \cup (IF q.role = "tester" THEN {<<"test", "runTests">>} ELSE {})

Incapable(q) ==
  \/ ~CanHoldRole(ChosenRuntime(q), q.role)
  \/ \E n \in NodeNeeds(q) : n[1] \notin Capabilities[ChosenRuntime(q)] \/ n[2] \notin Granted(q)

Refusal(q) ==
  CASE Widens(q.role, q.execution) \/ Widens(q.role, q.composition) -> "widened"
    [] ChosenRuntime(q) = "none" ->
         IF Cardinality(CandidatesForRole(q.role)) > 1 THEN "ambiguous" ELSE "unbound"
    [] ChosenRuntime(q) \notin DOMAIN Capabilities -> "unknown"
    [] OTHER -> IF Incapable(q) THEN "incapable" ELSE "none"

\* What the session is started with: no prompts, or nothing written.
PermissionMode(q) ==
  IF "writeFiles" \in Granted(q) /\ (q.mode = "full-access" \/ NodeRequiresFileWrite(q))
  THEN "bypassPermissions" ELSE "plan"

ResolveRoleRuntime(q) ==
  IF Refusal(q) # "none" THEN [refusal |-> Refusal(q)]
  ELSE [refusal |-> "none", runtime |-> ChosenRuntime(q), granted |-> Granted(q),
        mode |-> PermissionMode(q)]

-----------------------------------------------------------------------------
(* The report of a step, against what it may do and what was measured.     *)

CommandViolation(command, granted) ==
  CASE command = "dangerous" -> {"dangerous-command"}
    [] command = "git-write" -> {"unpermitted-command"}
    [] command = "tests"     -> IF "runTests" \in granted THEN {} ELSE {"unpermitted-command"}
    [] command = "build"     -> IF "runBuild" \in granted THEN {} ELSE {"unpermitted-command"}
    [] OTHER                 -> {}

\* A claim that the repository contradicts is not held against a read-only role.
WrittenPaths(q) == IF q.measured THEN q.claimed \cap q.changed ELSE q.claimed

AssessStepPolicy(q) ==
  LET granted == EffectivePermissions(q.role, q.binding) IN
  (IF WrittenPaths(q) # {} /\ "writeFiles" \notin granted THEN {"unpermitted-write"} ELSE {})
    \cup (IF q.claimed \cap {"secret", "forbidden"} # {} THEN {"forbidden-path"} ELSE {})
    \cup UNION {CommandViolation(c, granted) : c \in q.commands}

-----------------------------------------------------------------------------

Unanswered == [kind |-> "unanswered"]

PolicyInit == question \in Questions /\ reply = Unanswered

ResolvePolicy ==
  /\ question.kind = "rules" /\ reply = Unanswered
  /\ reply' = [kind |-> "rules", policy |-> EffectivePolicy(question.rules),
                limits |-> Limits(question.rules)]
  /\ UNCHANGED question

ResolveStep ==
  /\ question.kind = "step" /\ reply = Unanswered
  /\ reply' = [kind |-> "step", step |-> ResolveRoleRuntime(question)]
  /\ UNCHANGED question

CompilePacket ==
  /\ question.kind = "packet" /\ reply = Unanswered
  /\ reply' = [kind |-> "packet", packet |-> CompileContext(question)]
  /\ UNCHANGED question

AssessStep ==
  /\ question.kind = "report" /\ reply = Unanswered
  /\ reply' = [kind |-> "report", violations |-> AssessStepPolicy(question)]
  /\ UNCHANGED question

PolicyNext == ResolvePolicy \/ ResolveStep \/ CompilePacket \/ AssessStep

PolicySpec == PolicyInit /\ [][PolicyNext]_policyVars

-----------------------------------------------------------------------------
(* Properties.                                                             *)

\* Of each key one statement is in effect, the narrowest one, and every other is shown as
\* shadowed (policy.ts:75).  A limit that is not what its rule says is reported
\* (limitRules.ts:41), though not which of them.
RulesAreResolved ==
  reply.kind = "rules" =>
    LET rules == question.rules IN
    /\ {e.rule.key : e \in reply.policy} = {r.key : r \in rules}
    /\ Cardinality(reply.policy) = Cardinality({r.key : r \in rules})
    /\ UNION {{e.rule} \cup e.shadowed : e \in reply.policy} = rules
    /\ \A e \in reply.policy : \A s \in e.shadowed :
         /\ Specificity[s.scope] <= Specificity[e.rule.scope]
         /\ s.scope = e.rule.scope => e.rule.source = "user"
    /\ (\E r \in LimitRules(rules) : reply.limits.values[r.key] # r.statement)
         => reply.limits.problems # {}

\* Nothing but the role gives a permission: a step that starts holds no more than its role
\* has and its binding leaves, on a runtime that declares what the role and the node need,
\* and is started without prompts only if it may write (roleResolution.ts:66,
\* rolePermission.ts:88).
StepsStayInTheirRole ==
  reply.kind = "step" /\ reply.step.refusal = "none" =>
    LET step == reply.step  b == ApplicableBinding(question) IN
    /\ step.granted \subseteq RoleDefaults[question.role]
    /\ b # NoBinding => step.granted \subseteq b.permissions
    /\ RoleRequires[question.role] \subseteq Capabilities[step.runtime]
    /\ step.mode = "bypassPermissions" =>
         "writeFiles" \in step.granted /\ "file-write" \in Capabilities[step.runtime]
    /\ question.provider = "none" /\ b # NoBinding => step.runtime = b.runtime

\* What passes wrote nothing without permission that it admitted to, named no path that is
\* off limits, and ran no command that its role may not (policyEngine.ts:188).
ReportsArePoliced ==
  reply.kind = "report" /\ reply.violations = {} =>
    /\ question.claimed \cap {"secret", "forbidden"} = {}
    /\ (question.claimed # {} /\ question.role # "implementer") =>
         question.measured /\ question.claimed \cap question.changed = {}
    /\ question.commands \cap {"dangerous", "git-write"} = {}
    /\ "tests" \in question.commands => "runTests" \in RoleDefaults[question.role]
    /\ "build" \in question.commands => "runBuild" \in RoleDefaults[question.role]

\* An agent is told everything that is not reported as withheld: see ContextPacket.
PacketsAreHonest == reply.kind = "packet" => IsHonest(question, reply.packet)

PolicyOnlyTightens ==
  RulesAreResolved /\ StepsStayInTheirRole /\ PacketsAreHonest /\ ReportsArePoliced
=============================================================================
