----------------------- MODULE AgentsAndArtifacts_proofs -----------------------
(***************************************************************************)
(* What an agent is let do, and what is kept of what it returns.           *)
(*                                                                         *)
(* For any turns, answers of the model, limit of rounds and scopes: what   *)
(* Forge's own agent does in a turn stays in the bounds of its packet.     *)
(*                                                                         *)
(* For any rules, bindings, runtimes, reports and files: what is in effect *)
(* only narrows what a role may do, a report that passes broke no rule,    *)
(* and a packet says of everything that it leaves out that it is left out. *)
(* These are answers of one step, so that each property is one of the      *)
(* operators that give them.                                               *)
(*                                                                         *)
(* For any outputs, artifacts, deaths and damage: an attempt completes     *)
(* with all that is required, and is handed on whole.                      *)
(***************************************************************************)
EXTENDS AgentLoop, Policies, ArtifactFlow,
  SequenceTheorems, FiniteSetTheorems, WellFoundedInduction, TLAPS

-----------------------------------------------------------------------------
(* Turns.                                                                  *)

\* The jobs are what the comment at Jobs says: no file has been written yet.
JobsAreKnown ==
  \A j \in Jobs :
    /\ j.session \in BOOLEAN /\ j.model \in BOOLEAN /\ j.capable \in BOOLEAN /\ j.asks \in BOOLEAN
    /\ j.files = [p \in DOMAIN j.files |-> j.files[p]]
    /\ \A p \in DOMAIN j.files : j.files[p] \notin {"written", "edited"}

LoopType ==
  /\ job \in Jobs
  /\ sent \in 0..2 /\ round \in Nat /\ calls \in Nat /\ history \in Nat
  /\ nudged \in BOOLEAN
  /\ used \subseteq {"tool", "change"}
  /\ files = [p \in WorkspacePaths |-> files[p]]
  /\ answer \in {"none", "text", "empty", "error", "limit"}
  /\ shut \in {"no", "cancelled", "disposed"}

\* What was written was in the scope; what "change" says of the first turn can be seen.
FilesAreInScope ==
  /\ \A p \in WorkspacePaths : files[p] # job.files[p] =>
       /\ job.capable /\ IsWriteAllowed(p) /\ ResolvesInWorkspace(p)
       /\ files[p] \in {"written", "edited"}
  /\ sent = 1 /\ "change" \in used => \E p \in WorkspacePaths : files[p] # job.files[p]

\* A turn counts once, when it is over; the second one corrects the first.
TurnsAreCounted ==
  /\ round = 0 => calls = 0
  /\ round > 0 => history < sent /\ answer = "none"
  /\ history <= sent
  /\ sent = 0 => answer = "none"
  /\ state = "completed" => job.session /\ history > 0
  /\ sent = 2 => job.session /\ history > 0 /\ used \subseteq {"tool"}

\* An answer without a change is one that was asked for it again, unless none was owed.
DebtsAreCalled ==
  answer \in {"text", "empty"} /\ job.asks /\ job.capable /\ sent = 1 /\ "change" \notin used
    => nudged

LoopInv ==
  /\ LoopType /\ FilesAreInScope /\ TurnsAreCounted /\ DebtsAreCalled
  /\ shut = "cancelled" => state = "cancelled"

LEMMA LoopInitially == JobsAreKnown /\ LoopInit => LoopInv
<1> SUFFICES ASSUME JobsAreKnown, LoopInit PROVE LoopInv
  OBVIOUS
<1> USE DEF LoopInit
<1>1. files = [p \in WorkspacePaths |-> files[p]]
  BY DEF JobsAreKnown, WorkspacePaths
<1>2. LoopType
  <2>1. /\ job \in Jobs /\ sent \in 0..2 /\ round \in Nat /\ calls \in Nat /\ history \in Nat
        /\ used \subseteq {"tool", "change"}
    OBVIOUS
  <2>2. /\ answer \in {"none", "text", "empty", "error", "limit"}
        /\ shut \in {"no", "cancelled", "disposed"}
    OBVIOUS
  <2>3. nudged \in BOOLEAN
    OBVIOUS
  <2> HIDE DEF LoopInit
  <2> QED BY <1>1, <2>1, <2>2, <2>3 DEF LoopType
<1>3. FilesAreInScope
  BY DEF FilesAreInScope
<1>4. TurnsAreCounted /\ DebtsAreCalled
  BY DEF TurnsAreCounted, DebtsAreCalled
<1> QED BY <1>2, <1>3, <1>4 DEF LoopInv

\* The tools change a file only where the turn may write, and only of a first turn.
LEMMA ToolsStayInScope ==
  ASSUME JobsAreKnown, LoopInv, RunTool, UNCHANGED <<job, sent>>
  PROVE  /\ files' = [p \in WorkspacePaths |-> files'[p]]
         /\ used' \subseteq {"tool", "change"}
         /\ FilesAreInScope'
         /\ sent = 2 => used' \subseteq {"tool"}
<1> USE DEF LoopInv, LoopType
<1>1. CASE OtherTool
  BY <1>1 DEF OtherTool, FilesAreInScope, TurnsAreCounted, WorkspacePaths, IsWriteAllowed,
              ResolvesInWorkspace, AllowedPaths, ForbiddenPaths
<1>2. CASE \E p \in WorkspacePaths : WriteFileTool(p) \/ EditFileTool(p)
  <2>1. PICK p \in WorkspacePaths, to \in {"written", "edited"} : MayWrite(p) /\ Changed(p, to)
    BY <1>2 DEF WriteFileTool, EditFileTool
  <2>2. /\ files' = [files EXCEPT ![p] = to] /\ used' = used \cup {"tool", "change"}
        /\ ToolsEnabled /\ ResolvesInWorkspace(p) /\ IsWriteAllowed(p)
    BY <2>1 DEF MayWrite, Changed
  <2>3. WorkspacePaths' = WorkspacePaths
    BY DEF WorkspacePaths
  <2>4. files'[p] = to /\ \A r \in WorkspacePaths \ {p} : files'[r] = files[r]
    BY <2>2
  <2>5. files' = [r \in WorkspacePaths |-> files'[r]]
    BY <2>2
  <2>6. job.files[p] # to
    BY <2>1 DEF JobsAreKnown, WorkspacePaths
  <2>7. job.capable /\ sent # 2
    BY <2>2 DEF ToolsEnabled, Correcting, TurnsAreCounted
  <2>8. \A r \in WorkspacePaths : /\ IsWriteAllowed(r)' = IsWriteAllowed(r)
                                  /\ ResolvesInWorkspace(r)' = ResolvesInWorkspace(r)
    BY DEF IsWriteAllowed, ResolvesInWorkspace, AllowedPaths, ForbiddenPaths
  <2>9. FilesAreInScope'
    <3>1. ASSUME NEW r \in WorkspacePaths, files'[r] # job.files[r]
          PROVE  /\ job.capable /\ IsWriteAllowed(r) /\ ResolvesInWorkspace(r)
                 /\ files'[r] \in {"written", "edited"}
      BY <2>1, <2>2, <2>4, <2>7, <3>1 DEF FilesAreInScope
    <3>2. files'[p] # job.files[p]
      BY <2>4, <2>6
    <3> QED BY <2>3, <2>8, <3>1, <3>2 DEF FilesAreInScope
  <2> QED BY <2>2, <2>5, <2>7, <2>9
<1> QED BY <1>1, <1>2 DEF RunTool

\* The end of a turn, and of a round.
LEMMA EndsAreCounted ==
  ASSUME LoopInv, round > 0, NEW a \in {"text", "empty", "error", "limit"}, EndTurn(a),
         UNCHANGED <<job, sent, shut>>, used' \subseteq {"tool", "change"},
         sent = 2 => used' \subseteq {"tool"}
  PROVE  /\ round' \in Nat /\ calls' \in Nat /\ history' \in Nat
         /\ answer' = a
         /\ TurnsAreCounted'
         /\ shut' = "cancelled" => state' = "cancelled"
<1> USE DEF LoopInv, LoopType, TurnsAreCounted
<1>1. round' = 0 /\ calls' = 0 /\ answer' = a /\ sent \in {1, 2}
  BY DEF EndTurn
<1>2. CASE shut = "cancelled" \/ ~job.session
  BY <1>1, <1>2 DEF EndTurn
<1>3. CASE ~(shut = "cancelled" \/ ~job.session) /\ a \in {"error", "limit"}
  BY <1>1, <1>3 DEF EndTurn
<1>4. CASE ~(shut = "cancelled" \/ ~job.session) /\ a \notin {"error", "limit"}
  BY <1>1, <1>4 DEF EndTurn
<1> QED BY <1>2, <1>3, <1>4

LEMMA RoundsAreCounted ==
  ASSUME LoopInv, round > 0, NextRound(round + 1),
         UNCHANGED <<job, sent, shut>>, used' \subseteq {"tool", "change"},
         sent = 2 => used' \subseteq {"tool"}
  PROVE  /\ round' \in Nat /\ calls' \in Nat /\ history' \in Nat
         /\ answer' \in {"none", "limit"}
         /\ TurnsAreCounted'
         /\ shut' = "cancelled" => state' = "cancelled"
<1>1. CASE round + 1 > Rounds
  BY <1>1, EndsAreCounted DEF NextRound
<1>2. CASE ~(round + 1 > Rounds)
  BY <1>2 DEF NextRound, LoopInv, LoopType, TurnsAreCounted
<1> QED BY <1>1, <1>2

LEMMA LoopStep ==
  ASSUME JobsAreKnown, LoopInv, [LoopNext]_loopVars PROVE LoopInv'
<1> USE DEF LoopInv, LoopType, loopVars
<1>a. ASSUME UNCHANGED <<job, sent, used, files>> PROVE FilesAreInScope'
  BY <1>a
     DEF FilesAreInScope, WorkspacePaths, IsWriteAllowed, ResolvesInWorkspace, AllowedPaths,
         ForbiddenPaths
<1>b. ASSUME UNCHANGED <<job, files>>
      PROVE  files' = [p \in WorkspacePaths' |-> files'[p]]
  BY <1>b DEF WorkspacePaths
<1>1. CASE SendTurn
  <2>1. /\ sent' = sent + 1 /\ sent' \in 1..2 /\ used' = {} /\ nudged' = FALSE
        /\ UNCHANGED <<job, shut, history, calls, files>>
        /\ round' \in {0, 1} /\ answer' \in {"none", "error"} /\ round = 0
        /\ shut = "no" /\ history <= sent
        /\ sent = 0 => history = 0
    BY <1>1 DEF SendTurn, InFlight, TurnsAreCounted
  <2>2. FilesAreInScope'
    BY <2>1 DEF FilesAreInScope, WorkspacePaths, IsWriteAllowed, ResolvesInWorkspace, AllowedPaths,
                ForbiddenPaths
  <2>3. TurnsAreCounted'
    <3>1. CASE job.session /\ ~job.model
      BY <1>1, <2>1, <3>1 DEF SendTurn, TurnsAreCounted, InFlight
    <3>2. CASE ~(job.session /\ ~job.model)
      BY <1>1, <2>1, <3>2 DEF SendTurn, TurnsAreCounted, InFlight
    <3> QED BY <3>1, <3>2
  <2>4. DebtsAreCalled'
    BY <2>1 DEF DebtsAreCalled
  <2>5. LoopType'
    <3>1. files' = [p \in WorkspacePaths' |-> files'[p]]
      BY <1>b, <2>1
    <3>2. /\ job' \in Jobs /\ sent' \in 0..2 /\ round' \in Nat /\ calls' \in Nat
          /\ history' \in Nat /\ used' \subseteq {"tool", "change"}
          /\ shut' \in {"no", "cancelled", "disposed"}
          /\ answer' \in {"none", "text", "empty", "error", "limit"}
      BY <2>1
    <3>3. nudged' \in BOOLEAN
      BY <2>1
    <3> QED BY <3>1, <3>2, <3>3
  <2>6. shut' # "cancelled"
    BY <2>1
  <2> QED BY <2>2, <2>3, <2>4, <2>5, <2>6
<1>2. CASE Close("cancelled") \/ Close("disposed")
  <2>1. /\ UNCHANGED <<job, sent, history, round, calls, nudged, used, answer, files>>
        /\ shut' \in {"cancelled", "disposed"} /\ state' \in {state, "cancelled"}
        /\ shut' = "cancelled" => state' = "cancelled"
    BY <1>2 DEF Close
  <2>2. TurnsAreCounted' /\ DebtsAreCalled'
    BY <2>1 DEF TurnsAreCounted, DebtsAreCalled
  <2> QED BY <1>a, <1>b, <2>1, <2>2
<1>3. CASE CompletionFails
  <2>1. /\ UNCHANGED <<job, sent, shut, nudged, used, files>> /\ round > 0 /\ EndTurn("error")
    BY <1>3 DEF CompletionFails, InFlight
  <2>2. /\ round' \in Nat /\ calls' \in Nat /\ history' \in Nat
        /\ answer' = "error"
        /\ TurnsAreCounted'
        /\ shut' = "cancelled" => state' = "cancelled"
    BY <2>1, EndsAreCounted DEF TurnsAreCounted
  <2>3. DebtsAreCalled'
    BY <2>2 DEF DebtsAreCalled
  <2> QED BY <1>a, <1>b, <2>1, <2>2, <2>3
<1>4. CASE Nudge
  <2>1. /\ UNCHANGED <<job, sent, shut, used, files>> /\ round > 0 /\ NextRound(round + 1)
        /\ nudged' = TRUE
    BY <1>4 DEF Nudge, InFlight
  <2>2. /\ round' \in Nat /\ calls' \in Nat /\ history' \in Nat
        /\ answer' \in {"none", "limit"}
        /\ TurnsAreCounted'
        /\ shut' = "cancelled" => state' = "cancelled"
    BY <2>1, RoundsAreCounted DEF TurnsAreCounted
  <2>3. DebtsAreCalled'
    BY <2>1 DEF DebtsAreCalled
  <2> QED BY <1>a, <1>b, <2>1, <2>2, <2>3
<1>5. ASSUME NEW content \in {"text", "empty"}, NEW thought \in {"text", "empty"},
             Answers(content, thought)
      PROVE  LoopInv'
  <2> DEFINE a == IF content = "empty" /\ "tool" \in used THEN thought ELSE content
  <2>1. /\ UNCHANGED <<job, sent, shut, nudged, used, files>> /\ round > 0 /\ EndTurn(a)
        /\ ChangeSettled /\ a \in {"text", "empty"}
    BY <1>5 DEF Answers, InFlight
  <2> HIDE DEF a
  <2>2. /\ round' \in Nat /\ calls' \in Nat /\ history' \in Nat
        /\ answer' = a
        /\ TurnsAreCounted'
        /\ shut' = "cancelled" => state' = "cancelled"
    BY <2>1, EndsAreCounted DEF TurnsAreCounted
  <2>3. DebtsAreCalled'
    BY <2>1, <2>2
       DEF DebtsAreCalled, ChangeSettled, Owed, AsksForChange, ToolsEnabled, Correcting
  <2> QED BY <1>a, <1>b, <2>1, <2>2, <2>3
<1>6. ASSUME NEW n \in 1..2, CallsTools(n) PROVE LoopInv'
  <2>1. /\ UNCHANGED <<job, sent, state, shut, history, round, nudged, used, answer, files>>
        /\ calls' = n /\ round > 0
    BY <1>6 DEF CallsTools, InFlight
  <2>2. TurnsAreCounted' /\ DebtsAreCalled'
    BY <2>1 DEF TurnsAreCounted, DebtsAreCalled
  <2> QED BY <1>a, <1>b, <2>1, <2>2
<1>7. CASE ToolRuns
  <2>1. /\ RunTool /\ calls > 0 /\ round > 0 /\ UNCHANGED <<job, sent, shut, nudged>>
    BY <1>7 DEF ToolRuns, TurnsAreCounted
  <2>2. /\ files' = [p \in WorkspacePaths |-> files'[p]]
        /\ used' \subseteq {"tool", "change"}
        /\ FilesAreInScope'
        /\ sent = 2 => used' \subseteq {"tool"}
    BY <2>1, ToolsStayInScope
  <2>3. files' = [p \in WorkspacePaths' |-> files'[p]]
    BY <2>1, <2>2 DEF WorkspacePaths
  <2>4. /\ round' \in Nat /\ calls' \in Nat /\ history' \in Nat
        /\ answer' \in {"none", "limit"}
        /\ TurnsAreCounted'
        /\ shut' = "cancelled" => state' = "cancelled"
    <3>1. CASE calls > 1
      BY <1>7, <2>1, <2>2, <3>1 DEF ToolRuns, TurnsAreCounted
    <3>2. CASE ~(calls > 1)
      BY <1>7, <2>1, <2>2, <3>2, RoundsAreCounted DEF ToolRuns
    <3> QED BY <3>1, <3>2
  <2>5. DebtsAreCalled'
    BY <2>4 DEF DebtsAreCalled
  <2> QED BY <2>1, <2>2, <2>3, <2>4, <2>5
<1>8. CASE UNCHANGED loopVars
  <2>1. TurnsAreCounted' /\ DebtsAreCalled'
    BY <1>8 DEF TurnsAreCounted, DebtsAreCalled
  <2> QED BY <1>a, <1>b, <1>8, <2>1
<1> QED BY <1>1, <1>2, <1>3, <1>4, <1>5, <1>6, <1>7, <1>8 DEF LoopNext

\* Whatever the model asks for, however many rounds it takes and whenever its session is
\* cancelled: files are changed in scope only, a change that is owed is asked for again, a
\* cancelled session is not revived, and a correction touches no file.
THEOREM TurnsAreBounded ==
  ASSUME JobsAreKnown PROVE LoopSpec => []TurnsStayInBounds
<1>1. LoopInv => TurnsStayInBounds
  <2> SUFFICES ASSUME LoopInv PROVE TurnsStayInBounds
    OBVIOUS
  <2>1. \A p \in WorkspacePaths : files[p] # job.files[p] =>
          /\ job.capable
          /\ p \in (IF job.session /\ job.allowed # {} THEN job.allowed ELSE ChatScope)
          /\ p \notin NeverWritable \cup job.forbidden \cup OutsidePaths
    BY DEF LoopInv, FilesAreInScope, IsWriteAllowed, ResolvesInWorkspace, AllowedPaths,
           ForbiddenPaths
  <2>2. (answer \in {"text", "empty"} /\ job.asks /\ job.capable /\ sent = 1
           /\ \A p \in WorkspacePaths : files[p] = job.files[p]) => nudged
    BY DEF LoopInv, FilesAreInScope, DebtsAreCalled
  <2>3. /\ shut = "cancelled" => state = "cancelled"
        /\ history <= sent /\ (sent = 2 => history > 0 /\ used \subseteq {"tool"})
    BY DEF LoopInv, TurnsAreCounted
  <2> QED BY <2>1, <2>2, <2>3 DEF TurnsStayInBounds
<1>2. LoopInit => LoopInv
  BY LoopInitially
<1>3. LoopInv /\ [LoopNext]_loopVars => LoopInv'
  BY LoopStep
<1> QED BY <1>1, <1>2, <1>3, PTL DEF LoopSpec

-----------------------------------------------------------------------------
(* Rules.                                                                  *)

LEMMA LeastOf ==
  ASSUME NEW S \in SUBSET Nat, S # {}
  PROVE  \E n \in S : \A m \in S : n <= m
<1>1. \E n \in S : \A m \in S : ~(<<m, n>> \in OpToRel(<, Nat))
  BY NatLessThanWellFounded, WFMin
<1>2. PICK n \in S : \A m \in S : ~(<<m, n>> \in OpToRel(<, Nat))
  BY <1>1
<1>3. \A m \in S : ~(m < n)
  BY <1>2 DEF OpToRel
<1> QED BY <1>3

\* The rules of a project: of one key and scope at most that of Forge and one of the user.
RulesAreKnown(rules) ==
  /\ IsFiniteSet(rules)
  /\ \A r \in rules :
       /\ r.scope \in {"global", "workspace", "project", "workflow", "agent", "task"}
       /\ r.source \in {"forge", "user"}
  /\ \A r, s \in rules : r.key = s.key /\ r.scope = s.scope /\ r.source = s.source => r = s

Rank(r) == 2 * Specificity[r.scope] + SourceOrder[r.source]

LEMMA RankIsNarrowness ==
  ASSUME NEW rules, RulesAreKnown(rules)
  PROVE  /\ \A r \in rules : Rank(r) \in 0..11
         /\ \A r, s \in rules : Wider(r, s) <=> Rank(r) < Rank(s)
         /\ \A r, s \in rules : r.key = s.key /\ Rank(r) = Rank(s) => r = s
<1>1. ASSUME NEW r \in rules
      PROVE  Specificity[r.scope] \in 0..5 /\ SourceOrder[r.source] \in 0..1
  BY DEF RulesAreKnown, Specificity, SourceOrder
<1>2. ASSUME NEW r \in rules, NEW s \in rules
      PROVE  /\ Specificity[r.scope] = Specificity[s.scope] => r.scope = s.scope
             /\ SourceOrder[r.source] = SourceOrder[s.source] => r.source = s.source
  <2>1. /\ r.scope \in {"global", "workspace", "project", "workflow", "agent", "task"}
        /\ s.scope \in {"global", "workspace", "project", "workflow", "agent", "task"}
        /\ r.source \in {"forge", "user"} /\ s.source \in {"forge", "user"}
    BY DEF RulesAreKnown
  <2> QED BY <2>1 DEF Specificity, SourceOrder
<1>3. ASSUME NEW r \in rules PROVE Rank(r) \in 0..11
  BY <1>1 DEF Rank
<1>4. ASSUME NEW r \in rules, NEW s \in rules PROVE Wider(r, s) <=> Rank(r) < Rank(s)
  <2>1. r.scope = s.scope => Specificity[r.scope] = Specificity[s.scope]
    OBVIOUS
  <2> QED BY <1>1, <1>2, <2>1 DEF Rank, Wider
<1>5. ASSUME NEW r \in rules, NEW s \in rules, r.key = s.key, Rank(r) = Rank(s) PROVE r = s
  <2>1. Specificity[r.scope] = Specificity[s.scope] /\ SourceOrder[r.source] = SourceOrder[s.source]
    BY <1>1, <1>5 DEF Rank
  <2>2. r.scope = s.scope /\ r.source = s.source
    BY <1>2, <2>1
  <2> QED BY <1>5, <2>2 DEF RulesAreKnown
<1> QED BY <1>3, <1>4, <1>5

Shadows(rules, r) == {s \in rules : s.key = r.key} \ {r}
Prevails(rules, w) == w \in rules /\ \A s \in rules \ {w} : s.key = w.key => Wider(s, w)

LEMMA EffectiveIsPrevailing ==
  ASSUME NEW rules, NEW e
  PROVE  e \in EffectivePolicy(rules) <=>
           \E w : Prevails(rules, w) /\ e = [rule |-> w, shadowed |-> Shadows(rules, w)]
BY DEF EffectivePolicy, Prevails, Shadows

\* Of every key one rule prevails.
LEMMA OneRulePrevails ==
  ASSUME NEW rules, RulesAreKnown(rules), NEW r \in rules
  PROVE  /\ \E w : Prevails(rules, w) /\ w.key = r.key
         /\ \A v, w : Prevails(rules, v) /\ Prevails(rules, w) /\ v.key = w.key => v = w
<1> DEFINE Ranks == {11 - Rank(s) : s \in {s \in rules : s.key = r.key}}
<1>1. /\ \A s \in rules : Rank(s) \in 0..11
      /\ \A s, t \in rules : Wider(s, t) <=> Rank(s) < Rank(t)
      /\ \A s, t \in rules : s.key = t.key /\ Rank(s) = Rank(t) => s = t
  BY RankIsNarrowness
<1>2. Ranks \in SUBSET Nat /\ Ranks # {}
  BY <1>1
<1>3. PICK n \in Ranks : \A m \in Ranks : n <= m
  BY <1>2, LeastOf
<1>4. PICK w \in rules : w.key = r.key /\ n = 11 - Rank(w)
  BY <1>3
<1>5. ASSUME NEW s \in rules \ {w}, s.key = w.key PROVE Wider(s, w)
  <2>1. n <= 11 - Rank(s)
    BY <1>3, <1>4, <1>5
  <2>2. Rank(s) # Rank(w)
    BY <1>1, <1>5
  <2>3. Rank(s) \in 0..11 /\ Rank(w) \in 0..11
    BY <1>1
  <2> QED BY <1>1, <1>4, <2>1, <2>2, <2>3
<1>6. Prevails(rules, w)
  BY <1>5 DEF Prevails
<1>7. ASSUME NEW v, NEW u, Prevails(rules, v), Prevails(rules, u), v.key = u.key, v # u
      PROVE  FALSE
  <2>1. v \in rules /\ u \in rules /\ Wider(v, u) /\ Wider(u, v)
    BY <1>7 DEF Prevails
  <2> QED BY <1>1, <2>1
<1> QED BY <1>4, <1>6, <1>7

LEMMA EffectiveHasOneOfEachKey ==
  ASSUME NEW rules, RulesAreKnown(rules)
  PROVE  /\ {e.rule.key : e \in EffectivePolicy(rules)} = {r.key : r \in rules}
         /\ Cardinality(EffectivePolicy(rules)) = Cardinality({r.key : r \in rules})
<1> DEFINE Keys == {r.key : r \in rules}
           P    == EffectivePolicy(rules)
<1>1. ASSUME NEW e \in P PROVE e.rule.key \in Keys
  BY EffectiveIsPrevailing DEF Prevails
<1>2. ASSUME NEW k \in Keys PROVE \E e \in P : e.rule.key = k
  <2>1. PICK r \in rules : r.key = k
    OBVIOUS
  <2>2. PICK w : Prevails(rules, w) /\ w.key = r.key
    BY OneRulePrevails
  <2> DEFINE e == [rule |-> w, shadowed |-> Shadows(rules, w)]
  <2>3. e \in P
    BY <2>2, EffectiveIsPrevailing
  <2>4. e.rule.key = k
    BY <2>1, <2>2
  <2> QED BY <2>3, <2>4
<1>3. ASSUME NEW d \in P, NEW e \in P, d.rule.key = e.rule.key PROVE d = e
  <2>1. PICK v : Prevails(rules, v) /\ d = [rule |-> v, shadowed |-> Shadows(rules, v)]
    BY EffectiveIsPrevailing
  <2>2. PICK w : Prevails(rules, w) /\ e = [rule |-> w, shadowed |-> Shadows(rules, w)]
    BY EffectiveIsPrevailing
  <2>3. v.key = w.key /\ v \in rules
    BY <1>3, <2>1, <2>2 DEF Prevails
  <2>4. v = w
    BY <2>1, <2>2, <2>3, OneRulePrevails
  <2> QED BY <2>1, <2>2, <2>4
<1>4. IsFiniteSet(Keys)
  <2> DEFINE f == [r \in rules |-> r.key]
  <2>1. f \in Surjection(rules, Keys)
    BY DEF Surjection
  <2> QED BY <2>1, FS_Surjection DEF RulesAreKnown
<1> HIDE DEF Keys, P
<1>5. ExistsBijection(Keys, P)
  <2> DEFINE g == [k \in Keys |-> CHOOSE e \in P : e.rule.key = k]
  <2>1. \A k \in Keys : g[k] \in P /\ g[k].rule.key = k
    BY <1>2
  <2>2. g \in [Keys -> P]
    BY <2>1
  <2>3. \A k, l \in Keys : g[k] = g[l] => k = l
    BY <2>1
  <2>4. \A e \in P : \E k \in Keys : g[k] = e
    <3> SUFFICES ASSUME NEW e \in P PROVE \E k \in Keys : g[k] = e
      OBVIOUS
    <3>1. e.rule.key \in Keys
      BY <1>1
    <3> QED BY <1>3, <2>1, <3>1
  <2> HIDE DEF g
  <2>5. g \in Bijection(Keys, P)
    BY <2>2, <2>3, <2>4 DEF Bijection, Injection, Surjection, IsInjective
  <2> QED BY <2>5 DEF ExistsBijection
<1>6. Cardinality(P) = Cardinality(Keys)
  BY <1>4, <1>5, FS_Bijection
<1>7. {e.rule.key : e \in P} = Keys
  BY <1>1, <1>2
<1> QED BY <1>6, <1>7 DEF Keys, P

\* Every rule is in effect or shown as shadowed by a narrower one.
LEMMA NoRuleIsLost ==
  ASSUME NEW rules, RulesAreKnown(rules)
  PROVE  /\ UNION {{e.rule} \cup e.shadowed : e \in EffectivePolicy(rules)} = rules
         /\ \A e \in EffectivePolicy(rules) : \A s \in e.shadowed :
              /\ Specificity[s.scope] <= Specificity[e.rule.scope]
              /\ s.scope = e.rule.scope => e.rule.source = "user"
<1>1. ASSUME NEW e \in EffectivePolicy(rules) PROVE {e.rule} \cup e.shadowed \subseteq rules
  BY EffectiveIsPrevailing DEF Prevails, Shadows
<1>2. ASSUME NEW r \in rules PROVE \E e \in EffectivePolicy(rules) : r \in {e.rule} \cup e.shadowed
  <2>1. PICK w : Prevails(rules, w) /\ w.key = r.key
    BY OneRulePrevails
  <2> DEFINE e == [rule |-> w, shadowed |-> Shadows(rules, w)]
  <2>2. e \in EffectivePolicy(rules)
    BY <2>1, EffectiveIsPrevailing
  <2>3. r \in {e.rule} \cup e.shadowed
    BY <2>1 DEF Shadows
  <2> QED BY <2>2, <2>3
<1>3. ASSUME NEW e \in EffectivePolicy(rules), NEW s \in e.shadowed
      PROVE  /\ Specificity[s.scope] <= Specificity[e.rule.scope]
             /\ s.scope = e.rule.scope => e.rule.source = "user"
  <2>1. PICK w : Prevails(rules, w) /\ e = [rule |-> w, shadowed |-> Shadows(rules, w)]
    BY EffectiveIsPrevailing
  <2>2. w \in rules /\ s \in rules /\ Wider(s, w) /\ e.rule = w
    BY <2>1 DEF Prevails, Shadows
  <2>3. /\ Specificity[s.scope] \in 0..5 /\ Specificity[w.scope] \in 0..5
        /\ s.source \in {"forge", "user"} /\ w.source \in {"forge", "user"}
    BY <2>2 DEF RulesAreKnown, Specificity
  <2>4. SourceOrder["forge"] = 0 /\ SourceOrder["user"] = 1
    BY DEF SourceOrder
  <2> QED BY <2>2, <2>3, <2>4 DEF Wider
<1> QED BY <1>1, <1>2, <1>3

\* Where no limit is reported, every limit is what the rule in effect says.
LEMMA LimitsAreReported ==
  ASSUME NEW rules, RulesAreKnown(rules),
         NEW r \in LimitRules(rules), Limits(rules).values[r.key] # r.statement
  PROVE  Limits(rules).problems # {}
<1>1. SUFFICES ASSUME Limits(rules).problems = {} PROVE FALSE
  OBVIOUS
<1>2. OutOfRange(rules) = {} /\ LimitRules(rules) \subseteq Understood(rules)
  <2>1. {s.key : s \in OutOfRange(rules) \cup (LimitRules(rules) \ Understood(rules))} = {}
    BY <1>1 DEF Limits
  <2> QED BY <2>1
<1>3. r \in Understood(rules) /\ r.key \in KnownLimits
  BY <1>2 DEF LimitRules
<1>4. Limits(rules).values[r.key] = (CHOOSE s \in Understood(rules) : s.key = r.key).statement
  BY <1>2, <1>3 DEF Limits
<1>5. ASSUME NEW s \in Understood(rules), s.key = r.key PROVE s = r
  <2>1. s \in LimitRules(rules)
    BY DEF Understood
  <2>2. Prevails(rules, s) /\ Prevails(rules, r)
    BY <2>1, EffectiveIsPrevailing DEF LimitRules
  <2> QED BY <1>5, <2>2, OneRulePrevails DEF Prevails
<1> DEFINE c == CHOOSE s \in Understood(rules) : s.key = r.key
<1>6. c \in Understood(rules) /\ c.key = r.key
  BY <1>3
<1>7. c = r
  BY <1>5, <1>6
<1> QED BY <1>4, <1>7

-----------------------------------------------------------------------------
(* Steps and reports.                                                      *)

\* A step is started with what its role has and its binding leaves.
LEMMA StepIsInItsRole ==
  ASSUME NEW q, Refusal(q) = "none"
  PROVE  LET step == ResolveRoleRuntime(q)  b == ApplicableBinding(q) IN
         /\ step.granted \subseteq RoleDefaults[q.role]
         /\ b # NoBinding => step.granted \subseteq b.permissions
         /\ RoleRequires[q.role] \subseteq Capabilities[step.runtime]
         /\ step.mode = "bypassPermissions" =>
              "writeFiles" \in step.granted /\ "file-write" \in Capabilities[step.runtime]
         /\ q.provider = "none" /\ b # NoBinding => step.runtime = b.runtime
<1> DEFINE step == ResolveRoleRuntime(q)
<1>1. /\ step.granted = Granted(q) /\ step.runtime = ChosenRuntime(q)
      /\ step.mode = PermissionMode(q)
  BY DEF ResolveRoleRuntime
<1>2. ~Incapable(q)
  <2>1. ~(Widens(q.role, q.execution) \/ Widens(q.role, q.composition))
    BY DEF Refusal
  <2>2. ChosenRuntime(q) # "none"
    BY <2>1 DEF Refusal
  <2>3. ChosenRuntime(q) \in DOMAIN Capabilities
    BY <2>1, <2>2 DEF Refusal
  <2> QED BY <2>1, <2>2, <2>3 DEF Refusal
<1>3. /\ Granted(q) \subseteq RoleDefaults[q.role]
      /\ ApplicableBinding(q) # NoBinding => Granted(q) \subseteq ApplicableBinding(q).permissions
  BY DEF Granted, EffectivePermissions
<1>4. RoleRequires[q.role] \subseteq Capabilities[ChosenRuntime(q)]
  BY <1>2 DEF Incapable, CanHoldRole
<1>5. ASSUME PermissionMode(q) = "bypassPermissions"
      PROVE  "writeFiles" \in Granted(q) /\ "file-write" \in Capabilities[ChosenRuntime(q)]
  <2>1. "writeFiles" \in Granted(q) /\ NodeRequiresFileWrite(q)
    BY <1>5 DEF PermissionMode, NodeRequiresFileWrite
  <2>2. <<"file-write", "writeFiles">> \in NodeNeeds(q)
    BY <2>1 DEF NodeNeeds
  <2>3. <<"file-write", "writeFiles">>[1] \in Capabilities[ChosenRuntime(q)]
    BY <1>2, <2>2 DEF Incapable
  <2> QED BY <2>1, <2>3
<1>6. q.provider = "none" /\ ApplicableBinding(q) # NoBinding =>
        ChosenRuntime(q) = ApplicableBinding(q).runtime
  BY DEF ChosenRuntime
<1> QED BY <1>1, <1>3, <1>4, <1>5, <1>6

\* A report without a violation.
LEMMA ReportIsPoliced ==
  ASSUME NEW q, q.role \in {"planner", "implementer", "reviewer", "tester"},
         q.measured \in BOOLEAN, AssessStepPolicy(q) = {}
  PROVE  /\ q.claimed \cap {"secret", "forbidden"} = {}
         /\ (q.claimed # {} /\ q.role # "implementer") =>
              q.measured /\ q.claimed \cap q.changed = {}
         /\ q.commands \cap {"dangerous", "git-write"} = {}
         /\ "tests" \in q.commands => "runTests" \in RoleDefaults[q.role]
         /\ "build" \in q.commands => "runBuild" \in RoleDefaults[q.role]
<1> DEFINE granted == EffectivePermissions(q.role, q.binding)
<1>1. /\ WrittenPaths(q) = {} \/ "writeFiles" \in granted
      /\ q.claimed \cap {"secret", "forbidden"} = {}
      /\ \A c \in q.commands : CommandViolation(c, granted) = {}
  <2>1. /\ (IF WrittenPaths(q) # {} /\ "writeFiles" \notin granted
             THEN {"unpermitted-write"} ELSE {}) = {}
        /\ (IF q.claimed \cap {"secret", "forbidden"} # {} THEN {"forbidden-path"} ELSE {}) = {}
        /\ UNION {CommandViolation(c, granted) : c \in q.commands} = {}
    BY DEF AssessStepPolicy
  <2>2. \A c \in q.commands : CommandViolation(c, granted) = {}
    BY <2>1
  <2> QED BY <2>1, <2>2
<1>2. granted \subseteq RoleDefaults[q.role]
  BY DEF EffectivePermissions
<1> HIDE DEF granted
<1>3. ASSUME q.claimed # {}, q.role # "implementer"
      PROVE  q.measured /\ q.claimed \cap q.changed = {}
  <2>1. "writeFiles" \notin RoleDefaults[q.role]
    BY <1>3 DEF RoleDefaults
  <2>2. WrittenPaths(q) = {}
    BY <1>1, <1>2, <2>1
  <2> QED BY <1>3, <2>2 DEF WrittenPaths
<1>4. ASSUME "dangerous" \in q.commands PROVE FALSE
  BY <1>1, <1>4 DEF CommandViolation
<1>5. ASSUME "git-write" \in q.commands PROVE FALSE
  BY <1>1, <1>5 DEF CommandViolation
<1>6. ASSUME "tests" \in q.commands PROVE "runTests" \in RoleDefaults[q.role]
  <2>1. "runTests" \in granted
    BY <1>1, <1>6 DEF CommandViolation
  <2> QED BY <1>2, <2>1
<1>7. ASSUME "build" \in q.commands PROVE "runBuild" \in RoleDefaults[q.role]
  <2>1. "runBuild" \in granted
    BY <1>1, <1>7 DEF CommandViolation
  <2> QED BY <1>2, <2>1
<1> QED BY <1>1, <1>3, <1>4, <1>5, <1>6, <1>7

-----------------------------------------------------------------------------
(* Packets: the ranking.                                                   *)

\* The candidates are as the comment of ContextPacket says; no two have the same path.
FilesAreKnown(all) ==
  /\ IsFiniteSet(all)
  /\ \A f \in all : f.path \in Nat /\ f.distance \in Int /\ f.secret \in BOOLEAN
  /\ \A f, g \in all : f.path = g.path => f = g

PacketIsKnown(q) ==
  /\ FilesAreKnown(q.files)
  /\ q.maxFiles \in Nat /\ RoleStrategy[q.role].files \in Nat /\ q.maxChars \in Nat
  /\ q.objective \in Nat /\ q.locked \in Nat /\ q.rules \in Nat /\ q.instructions \in Nat

LEMMA OutranksIsOrder ==
  ASSUME NEW all, FilesAreKnown(all)
  PROVE  /\ \A f \in all : ~Outranks(f, f)
         /\ \A f, g, h \in all : Outranks(f, g) /\ Outranks(g, h) => Outranks(f, h)
         /\ \A f, g \in all : f # g => Outranks(f, g) \/ Outranks(g, f)
<1>1. ASSUME NEW f \in all PROVE Score(f) \in Int /\ f.path \in Nat
  BY DEF Score, Proximity, FilesAreKnown
<1>2. \A f, g \in all : f.path = g.path => f = g
  BY DEF FilesAreKnown
<1>3. ASSUME NEW f \in all PROVE ~Outranks(f, f)
  BY <1>1 DEF Outranks
<1>4. ASSUME NEW f \in all, NEW g \in all, NEW h \in all, Outranks(f, g), Outranks(g, h)
      PROVE  Outranks(f, h)
  BY <1>1, <1>4 DEF Outranks
<1>5. ASSUME NEW f \in all, NEW g \in all, f # g PROVE Outranks(f, g) \/ Outranks(g, f)
  BY <1>1, <1>2, <1>5 DEF Outranks
<1> QED BY <1>3, <1>4, <1>5

\* Who is outranked has more all ahead.
LEMMA AheadIsRank ==
  ASSUME NEW all, FilesAreKnown(all)
  PROVE  /\ IsFiniteSet(MaySend(all)) /\ Cardinality(MaySend(all)) \in Nat
         /\ \A f \in MaySend(all) :
              Cardinality(Ahead(all, f)) \in 0..(Cardinality(MaySend(all)) - 1)
         /\ \A f, g \in MaySend(all) :
              Outranks(f, g) => Cardinality(Ahead(all, f)) < Cardinality(Ahead(all, g))
<1> DEFINE S == MaySend(all)
<1>1. S \subseteq all
  BY DEF MaySend
<1>2. IsFiniteSet(S) /\ Cardinality(S) \in Nat
  BY <1>1, FS_Subset, FS_CardinalityType DEF FilesAreKnown
<1>3. ASSUME NEW f \in S
      PROVE  /\ Ahead(all, f) \subseteq S /\ f \notin Ahead(all, f)
             /\ IsFiniteSet(Ahead(all, f)) /\ Cardinality(Ahead(all, f)) \in Nat
  <2>1. Ahead(all, f) \subseteq S /\ f \notin Ahead(all, f)
    BY <1>1, OutranksIsOrder DEF Ahead
  <2> QED BY <1>2, <2>1, FS_Subset, FS_CardinalityType
<1>4. ASSUME NEW f \in S PROVE Cardinality(Ahead(all, f)) \in 0..(Cardinality(S) - 1)
  <2>1. Cardinality(Ahead(all, f)) <= Cardinality(S)
    BY <1>2, <1>3, FS_Subset
  <2>2. Cardinality(Ahead(all, f)) # Cardinality(S)
    BY <1>2, <1>3, FS_Subset
  <2> QED BY <1>2, <1>3, <2>1, <2>2
<1>5. ASSUME NEW f \in S, NEW g \in S, Outranks(f, g)
      PROVE  Cardinality(Ahead(all, f)) < Cardinality(Ahead(all, g))
  <2>1. Ahead(all, f) \subseteq Ahead(all, g)
    <3> SUFFICES ASSUME NEW h \in Ahead(all, f) PROVE h \in Ahead(all, g)
      OBVIOUS
    <3>1. h \in S /\ Outranks(h, f)
      BY DEF Ahead
    <3>2. Outranks(h, g)
      BY <1>1, <1>5, <3>1, OutranksIsOrder
    <3> QED BY <3>1, <3>2 DEF Ahead
  <2>2. f \in Ahead(all, g)
    BY <1>5 DEF Ahead
  <2>3. Ahead(all, f) # Ahead(all, g)
    BY <1>3, <2>2
  <2>4. Cardinality(Ahead(all, f)) <= Cardinality(Ahead(all, g))
    BY <1>3, <2>1, FS_Subset
  <2>5. Cardinality(Ahead(all, f)) # Cardinality(Ahead(all, g))
    BY <1>3, <2>1, <2>3, FS_Subset
  <2> QED BY <1>3, <2>4, <2>5
<1> QED BY <1>2, <1>4, <1>5

\* rankFiles() sorts: everything that may be sent, once, and in the order of its relevance.
LEMMA RankingSorts ==
  ASSUME NEW all, FilesAreKnown(all)
  PROVE  LET S == MaySend(all)  N == Cardinality(S)  ranked == RankFiles(all) IN
         /\ N \in Nat /\ ranked \in [1..N -> S]
         /\ \A i \in 1..N : Cardinality(Ahead(all, ranked[i])) = i - 1
         /\ \A f \in S : \E i \in 1..N : ranked[i] = f
         /\ \A i, j \in 1..N : i < j => Outranks(ranked[i], ranked[j])
<1> DEFINE S == MaySend(all)
           N == Cardinality(S)
           ranked == RankFiles(all)
           pos == [f \in S |-> Cardinality(Ahead(all, f))]
<1>1. IsFiniteSet(S) /\ N \in Nat
  BY AheadIsRank
<1>2. pos \in [S -> 0..(N - 1)]
  BY AheadIsRank
<1>3. ASSUME NEW f \in S, NEW g \in S, pos[f] = pos[g] PROVE f = g
  <2>1. SUFFICES ASSUME f # g PROVE FALSE
    OBVIOUS
  <2>2. Outranks(f, g) \/ Outranks(g, f)
    BY <2>1, OutranksIsOrder DEF MaySend
  <2>3. pos[f] < pos[g] \/ pos[g] < pos[f]
    BY <2>2, AheadIsRank
  <2>4. pos[f] \in 0..(N - 1) /\ pos[g] \in 0..(N - 1)
    BY <1>2
  <2> QED BY <1>1, <1>3, <2>3, <2>4
<1>4. ASSUME NEW i \in 1..N PROVE \E f \in S : pos[f] = i - 1
  <2>1. pos \in Injection(S, 0..(N - 1))
    BY <1>2, <1>3 DEF Injection, IsInjective
  <2>2. IsFiniteSet(0..(N - 1)) /\ Cardinality(0..(N - 1)) = N
    <3> HIDE DEF N, S
    <3>1. 0 \in Int /\ N - 1 \in Int
      BY <1>1
    <3>2. /\ IsFiniteSet(0..(N - 1))
          /\ Cardinality(0..(N - 1)) = IF 0 > N - 1 THEN 0 ELSE (N - 1) - 0 + 1
      BY <3>1, FS_Interval
    <3> QED BY <1>1, <3>2
  <2>3. pos \in Surjection(S, 0..(N - 1))
    BY <1>1, <2>1, <2>2, FS_Injection
  <2>4. i - 1 \in 0..(N - 1)
    BY <1>1
  <2> QED BY <2>3, <2>4 DEF Surjection
<1>5. ASSUME NEW i \in 1..N PROVE ranked[i] \in S /\ pos[ranked[i]] = i - 1
  <2>1. ranked[i] = CHOOSE f \in S : Cardinality(Ahead(all, f)) = i - 1
    BY DEF RankFiles
  <2>2. \E f \in S : Cardinality(Ahead(all, f)) = i - 1
    BY <1>4
  <2>3. ranked[i] \in S /\ Cardinality(Ahead(all, ranked[i])) = i - 1
    BY <2>1, <2>2
  <2> QED BY <2>3
<1>6. ranked \in [1..N -> S]
  BY <1>5 DEF RankFiles
<1>7. ASSUME NEW f \in S PROVE \E i \in 1..N : ranked[i] = f
  <2>1. pos[f] + 1 \in 1..N /\ (pos[f] + 1) - 1 = pos[f]
    BY <1>1, <1>2
  <2>2. ranked[pos[f] + 1] = f
    BY <1>3, <1>5, <2>1
  <2> QED BY <2>1, <2>2
<1>8. ASSUME NEW i \in 1..N, NEW j \in 1..N, i < j PROVE Outranks(ranked[i], ranked[j])
  <2>1. SUFFICES ASSUME ~Outranks(ranked[i], ranked[j]) PROVE FALSE
    OBVIOUS
  <2>2. /\ ranked[i] \in S /\ ranked[j] \in S
        /\ pos[ranked[i]] = i - 1 /\ pos[ranked[j]] = j - 1
    BY <1>5
  <2>3. ranked[i] # ranked[j]
    BY <1>1, <1>8, <2>2
  <2>4. Outranks(ranked[j], ranked[i])
    BY <2>1, <2>2, <2>3, OutranksIsOrder DEF MaySend
  <2>5. pos[ranked[j]] < pos[ranked[i]]
    BY <2>2, <2>4, AheadIsRank
  <2> QED BY <1>1, <1>8, <2>2, <2>5
<1>9. \A i \in 1..N : Cardinality(Ahead(all, ranked[i])) = i - 1
  BY <1>5
<1> QED BY <1>1, <1>6, <1>7, <1>8, <1>9

-----------------------------------------------------------------------------
(* Packets: the budget.                                                    *)

IsFit(F, max, start, s, K) ==
  F = [n \in 0..K |-> IF n = 0 THEN start ELSE FitOne(max, F[n - 1], s[n])]

LEMMA FitExists ==
  ASSUME NEW max, NEW start, NEW s, NEW K \in Nat
  PROVE  \E F : IsFit(F, max, start, s, K)
<1> DEFINE Bad == {k \in Nat : ~\E F : IsFit(F, max, start, s, k)}
<1>1. SUFFICES ASSUME Bad # {} PROVE FALSE
  OBVIOUS
<1>0. Bad \in SUBSET Nat
  OBVIOUS
<1>2. PICK k \in Bad : \A m \in Bad : k <= m
  BY <1>0, <1>1, LeastOf
<1>3. CASE k = 0
  <2> DEFINE F == [n \in 0..0 |-> start]
  <2>1. IsFit(F, max, start, s, 0)
    BY DEF IsFit
  <2> QED BY <1>2, <1>3, <2>1
<1>4. CASE k # 0
  <2>1. k - 1 \in Nat /\ k \in Nat /\ k - 1 \notin Bad
    BY <1>2, <1>4
  <2>2. PICK M : IsFit(M, max, start, s, k - 1)
    BY <2>1
  <2> DEFINE F == [n \in 0..k |-> IF n = k THEN FitOne(max, M[k - 1], s[k]) ELSE M[n]]
  <2>3. \A n \in 0..(k - 1) : M[n] = IF n = 0 THEN start ELSE FitOne(max, M[n - 1], s[n])
    BY <2>1, <2>2 DEF IsFit
  <2>4. \A n \in 0..k : F[n] = IF n = 0 THEN start ELSE FitOne(max, F[n - 1], s[n])
    <3> SUFFICES ASSUME NEW n \in 0..k
                 PROVE  F[n] = IF n = 0 THEN start ELSE FitOne(max, F[n - 1], s[n])
      OBVIOUS
    <3>1. CASE n = 0
      <4>1. 0 \in 0..(k - 1) /\ n # k
        BY <2>1, <1>4, <3>1
      <4>2. F[n] = M[0] /\ M[0] = start
        BY <2>3, <3>1, <4>1
      <4> QED BY <3>1, <4>2
    <3>2. CASE n # 0 /\ n # k
      <4>1. n \in 0..(k - 1) /\ n - 1 \in 0..(k - 1)
        BY <2>1, <3>2
      <4>2. F[n] = M[n] /\ F[n - 1] = M[n - 1]
        BY <2>1, <3>2, <4>1
      <4> QED BY <2>3, <3>2, <4>1, <4>2
    <3>3. CASE n = k
      <4>1. n - 1 \in 0..k /\ n - 1 # k /\ n - 1 = k - 1
        BY <2>1, <3>3, <1>4
      <4>2. F[n - 1] = M[k - 1]
        BY <4>1
      <4>3. F[n] = FitOne(max, M[k - 1], s[n])
        BY <3>3
      <4> QED BY <1>4, <3>3, <4>2, <4>3
    <3> QED BY <3>1, <3>2, <3>3
  <2>5. IsFit(F, max, start, s, k)
    BY <2>4 DEF IsFit
  <2> QED BY <1>2, <2>5
<1> QED BY <1>3, <1>4

\* Of the first n files of s each is kept, in the order of s and within the budget, or
\* dropped because it would not fit.
Fitted(max, s, S, n, x) ==
  /\ x \in [kept : Seq(S), dropped : Seq(S), used : Int]
  /\ Len(x.kept) + Len(x.dropped) = n
  /\ \A i \in 1..Len(x.kept) : \E k \in 1..n : x.kept[i] = s[k]
  /\ \A i \in 1..Len(x.dropped) : x.used + x.dropped[i].path > max
  /\ \A k \in 1..n : \/ \E i \in 1..Len(x.kept) : x.kept[i] = s[k]
                     \/ \E i \in 1..Len(x.dropped) : x.dropped[i] = s[k]
  /\ \A i, j \in 1..Len(x.kept) : i < j => Outranks(x.kept[i], x.kept[j])
  /\ x.used > max => x.kept = <<>>

LEMMA OneIsFitted ==
  ASSUME NEW S, \A f \in S : f.path \in Nat,
         NEW K \in Nat, NEW s \in [1..K -> S],
         \A i, j \in 1..K : i < j => Outranks(s[i], s[j]),
         NEW max \in Nat, NEW n \in 0..(K - 1), NEW x, Fitted(max, s, S, n, x)
  PROVE  Fitted(max, s, S, n + 1, FitOne(max, x, s[n + 1]))
<1> DEFINE f == s[n + 1]
           y == FitOne(max, x, f)
<1>1. n + 1 \in 1..K /\ f \in S /\ f.path \in Nat
  OBVIOUS
<1>2. /\ x \in [kept : Seq(S), dropped : Seq(S), used : Int]
      /\ x.kept \in Seq(S) /\ x.dropped \in Seq(S) /\ x.used \in Int
      /\ Len(x.kept) \in Nat /\ Len(x.dropped) \in Nat
  BY DEF Fitted
<1>3. CASE x.used + f.path > max
  <2>1. y.kept = x.kept /\ y.used = x.used /\ y.dropped = Append(x.dropped, f)
    BY <1>2, <1>3 DEF FitOne
  <2>2. y \in [kept : Seq(S), dropped : Seq(S), used : Int]
    <3> HIDE DEF f
    <3>1. y = [x EXCEPT !.dropped = Append(x.dropped, f)]
      BY <1>3 DEF FitOne
    <3>2. Append(x.dropped, f) \in Seq(S)
      BY <1>1, <1>2
    <3> HIDE DEF y
    <3> QED BY <1>2, <3>1, <3>2
  <2> HIDE DEF y, f
  <2>3. /\ Len(y.dropped) = Len(x.dropped) + 1 /\ y.dropped[Len(x.dropped) + 1] = f
        /\ \A i \in 1..Len(x.dropped) : y.dropped[i] = x.dropped[i]
    BY <1>1, <1>2, <2>1
  <2>4. Len(y.kept) + Len(y.dropped) = n + 1
    BY <1>2, <2>1, <2>3 DEF Fitted
  <2>5. \A i \in 1..Len(y.kept) : \E k \in 1..(n + 1) : y.kept[i] = s[k]
    BY <2>1 DEF Fitted
  <2>6. \A i \in 1..Len(y.dropped) : y.used + y.dropped[i].path > max
    <3> SUFFICES ASSUME NEW i \in 1..Len(y.dropped) PROVE y.used + y.dropped[i].path > max
      OBVIOUS
    <3>1. CASE i = Len(x.dropped) + 1
      BY <1>3, <2>1, <2>3, <3>1
    <3>2. CASE i # Len(x.dropped) + 1
      <4>1. i \in 1..Len(x.dropped)
        BY <1>2, <2>3, <3>2
      <4> QED BY <2>1, <2>3, <4>1 DEF Fitted
    <3> QED BY <3>1, <3>2
  <2>7. \A k \in 1..(n + 1) : \/ \E i \in 1..Len(y.kept) : y.kept[i] = s[k]
                              \/ \E i \in 1..Len(y.dropped) : y.dropped[i] = s[k]
    <3> SUFFICES ASSUME NEW k \in 1..(n + 1)
                 PROVE  \/ \E i \in 1..Len(y.kept) : y.kept[i] = s[k]
                        \/ \E i \in 1..Len(y.dropped) : y.dropped[i] = s[k]
      OBVIOUS
    <3>1. CASE k = n + 1
      <4>1. Len(x.dropped) + 1 \in 1..Len(y.dropped)
        BY <1>2, <2>3
      <4> QED BY <2>3, <3>1, <4>1 DEF f
    <3>2. CASE k # n + 1
      <4>1. k \in 1..n
        BY <3>2
      <4>2. CASE \E i \in 1..Len(x.kept) : x.kept[i] = s[k]
        BY <2>1, <4>2
      <4>3. CASE \E i \in 1..Len(x.dropped) : x.dropped[i] = s[k]
        <5>1. PICK i \in 1..Len(x.dropped) : x.dropped[i] = s[k]
          BY <4>3
        <5>2. i \in 1..Len(y.dropped) /\ y.dropped[i] = s[k]
          BY <1>2, <2>3, <5>1
        <5> QED BY <5>2
      <4> QED BY <4>1, <4>2, <4>3 DEF Fitted
    <3> QED BY <3>1, <3>2
  <2>8. /\ \A i, j \in 1..Len(y.kept) : i < j => Outranks(y.kept[i], y.kept[j])
        /\ y.used > max => y.kept = <<>>
    BY <2>1 DEF Fitted
  <2> QED BY <2>2, <2>4, <2>5, <2>6, <2>7, <2>8 DEF Fitted, y, f
<1>4. CASE ~(x.used + f.path > max)
  <2>1. y.kept = Append(x.kept, f) /\ y.used = x.used + f.path /\ y.dropped = x.dropped
    BY <1>2, <1>4 DEF FitOne
  <2>2. y \in [kept : Seq(S), dropped : Seq(S), used : Int]
    <3> HIDE DEF f
    <3>1. y = [x EXCEPT !.kept = Append(x.kept, f), !.used = x.used + f.path]
      BY <1>4 DEF FitOne
    <3>2. Append(x.kept, f) \in Seq(S) /\ x.used + f.path \in Int
      BY <1>1, <1>2
    <3> HIDE DEF y
    <3> QED BY <1>2, <3>1, <3>2
  <2> HIDE DEF y
  <2>3. /\ Len(y.kept) = Len(x.kept) + 1 /\ y.kept[Len(x.kept) + 1] = f
        /\ \A i \in 1..Len(x.kept) : y.kept[i] = x.kept[i]
    BY <1>1, <1>2, <2>1
  <2>4. Len(y.kept) + Len(y.dropped) = n + 1
    BY <1>2, <2>1, <2>3 DEF Fitted
  <2>a. \A i \in 1..Len(x.kept) : \E k \in 1..n : y.kept[i] = s[k]
    BY <2>3 DEF Fitted
  <2>b. \A i \in 1..Len(y.kept) : i \in 1..Len(x.kept) \/ i = Len(x.kept) + 1
    BY <1>2, <2>3
  <2>5. \A i \in 1..Len(y.kept) : \E k \in 1..(n + 1) : y.kept[i] = s[k]
    <3> SUFFICES ASSUME NEW i \in 1..Len(y.kept) PROVE \E k \in 1..(n + 1) : y.kept[i] = s[k]
      OBVIOUS
    <3>1. CASE i \in 1..Len(x.kept)
      <4>1. PICK k \in 1..n : y.kept[i] = s[k]
        BY <2>a, <3>1
      <4>2. k \in 1..(n + 1)
        OBVIOUS
      <4> QED BY <4>1, <4>2
    <3>2. CASE i = Len(x.kept) + 1
      <4>1. n + 1 \in 1..(n + 1)
        OBVIOUS
      <4> QED BY <2>3, <3>2, <4>1
    <3> QED BY <2>b, <3>1, <3>2
  <2>6. \A i \in 1..Len(y.dropped) : y.used + y.dropped[i].path > max
    <3> SUFFICES ASSUME NEW i \in 1..Len(y.dropped) PROVE y.used + y.dropped[i].path > max
      OBVIOUS
    <3>1. x.used + x.dropped[i].path > max
      BY <2>1 DEF Fitted
    <3>2. x.dropped[i] \in S
      BY <1>2, <2>1
    <3>3. x.dropped[i].path \in Nat
      BY <3>2
    <3>4. \A u, v, w, m \in Int : u + w > m /\ v >= 0 => (u + v) + w > m
      OBVIOUS
    <3>5. /\ x.used \in Int /\ f.path \in Int /\ f.path >= 0
          /\ x.dropped[i].path \in Int /\ max \in Int
      BY <1>1, <1>2, <3>3
    <3>6. (x.used + f.path) + x.dropped[i].path > max
      BY <3>1, <3>4, <3>5
    <3> QED BY <2>1, <3>6
  <2>7. \A k \in 1..(n + 1) : \/ \E i \in 1..Len(y.kept) : y.kept[i] = s[k]
                              \/ \E i \in 1..Len(y.dropped) : y.dropped[i] = s[k]
    <3> SUFFICES ASSUME NEW k \in 1..(n + 1)
                 PROVE  \/ \E i \in 1..Len(y.kept) : y.kept[i] = s[k]
                        \/ \E i \in 1..Len(y.dropped) : y.dropped[i] = s[k]
      OBVIOUS
    <3>1. CASE k = n + 1
      <4>1. Len(x.kept) + 1 \in 1..Len(y.kept)
        BY <1>2, <2>3
      <4> QED BY <2>3, <3>1, <4>1
    <3>2. CASE k # n + 1
      <4>1. k \in 1..n
        BY <3>2
      <4>2. CASE \E i \in 1..Len(x.kept) : x.kept[i] = s[k]
        <5>1. PICK i \in 1..Len(x.kept) : x.kept[i] = s[k]
          BY <4>2
        <5>2. i \in 1..Len(y.kept) /\ y.kept[i] = s[k]
          BY <1>2, <2>3, <5>1
        <5> QED BY <5>2
      <4>3. CASE \E i \in 1..Len(x.dropped) : x.dropped[i] = s[k]
        BY <2>1, <4>3
      <4> QED BY <4>1, <4>2, <4>3 DEF Fitted
    <3> QED BY <3>1, <3>2
  <2>8. \A i, j \in 1..Len(y.kept) : i < j => Outranks(y.kept[i], y.kept[j])
    <3> SUFFICES ASSUME NEW i \in 1..Len(y.kept), NEW j \in 1..Len(y.kept), i < j
                 PROVE  Outranks(y.kept[i], y.kept[j])
      OBVIOUS
    <3>1. i \in 1..Len(x.kept)
      BY <1>2, <2>3
    <3>2. CASE j \in 1..Len(x.kept)
      BY <2>3, <3>1, <3>2 DEF Fitted
    <3>3. CASE j = Len(x.kept) + 1
      <4>1. PICK k \in 1..n : y.kept[i] = s[k]
        BY <2>a, <3>1
      <4>2. k \in 1..K /\ k < n + 1
        BY <1>1
      <4> QED BY <1>1, <2>3, <3>3, <4>1, <4>2
    <3> QED BY <2>b, <3>2, <3>3
  <2>9. ~(y.used > max)
    BY <1>4, <2>1
  <2> QED BY <2>2, <2>4, <2>5, <2>6, <2>7, <2>8, <2>9 DEF Fitted, y
<1> QED BY <1>3, <1>4

LEMMA AllAreFitted ==
  ASSUME NEW S, \A f \in S : f.path \in Nat,
         NEW s \in Seq(S),
         \A i, j \in 1..Len(s) : i < j => Outranks(s[i], s[j]),
         NEW q, q.maxChars \in Nat, FixedChars(q) \in Int
  PROVE  Fitted(q.maxChars, s, S, Len(s), Fit(q, s))
<1> DEFINE K == Len(s)
           P(F) == F = [n \in 0..K |-> IF n = 0 THEN NothingFitted(q)
                                       ELSE FitOne(q.maxChars, F[n - 1], s[n])]
           M == CHOOSE F : P(F)
<1>1. Fit(q, s) = M[K]
  BY DEF Fit
<1>2. \A F : P(F) <=> IsFit(F, q.maxChars, NothingFitted(q), s, K)
  BY DEF IsFit
<1>3. K \in Nat /\ s \in [1..K -> S]
  OBVIOUS
<1>4. \E F : P(F)
  BY <1>2, <1>3, FitExists
<1>5. P(M)
  BY <1>4
<1>6. IsFit(M, q.maxChars, NothingFitted(q), s, K)
  BY <1>2, <1>5
<1> HIDE DEF M, P
<1>7. /\ M[0] = NothingFitted(q)
      /\ \A n \in 0..(K - 1) : M[n + 1] = FitOne(q.maxChars, M[n], s[n + 1])
  <2>1. \A n \in 0..K : M[n] = IF n = 0 THEN NothingFitted(q)
                                ELSE FitOne(q.maxChars, M[n - 1], s[n])
    BY <1>6 DEF IsFit
  <2>2. ASSUME NEW n \in 0..(K - 1) PROVE M[n + 1] = FitOne(q.maxChars, M[n], s[n + 1])
    <3>1. n + 1 \in 0..K /\ n + 1 # 0 /\ (n + 1) - 1 = n
      BY <1>3
    <3> QED BY <2>1, <3>1
  <2> QED BY <1>3, <2>1, <2>2
<1> DEFINE Bad == {n \in 0..K : ~Fitted(q.maxChars, s, S, n, M[n])}
<1>8. Bad = {}
  <2>1. SUFFICES ASSUME Bad # {} PROVE FALSE
    OBVIOUS
  <2>2. Bad \in SUBSET Nat
    BY <1>3
  <2>3. PICK n \in Bad : \A m \in Bad : n <= m
    BY <2>1, <2>2, LeastOf
  <2>4. CASE n = 0
    <3>1. M[0] = [kept |-> <<>>, dropped |-> <<>>, used |-> FixedChars(q)]
      BY <1>7 DEF NothingFitted
    <3>2. Fitted(q.maxChars, s, S, 0, M[0])
      BY <3>1 DEF Fitted
    <3> QED BY <2>3, <2>4, <3>2
  <2>5. CASE n # 0
    <3>1. n - 1 \in 0..(K - 1) /\ (n - 1) + 1 = n /\ n - 1 \in 0..K /\ n - 1 \notin Bad
      BY <1>3, <2>3, <2>5
    <3>2. Fitted(q.maxChars, s, S, n - 1, M[n - 1])
      BY <3>1
    <3>3. Fitted(q.maxChars, s, S, (n - 1) + 1, FitOne(q.maxChars, M[n - 1], s[(n - 1) + 1]))
      BY <1>3, <3>1, <3>2, OneIsFitted
    <3>4. M[n] = FitOne(q.maxChars, M[n - 1], s[(n - 1) + 1])
      BY <1>7, <3>1
    <3> QED BY <2>3, <3>1, <3>3, <3>4
  <2> QED BY <2>4, <2>5
<1>9. K \in 0..K
  BY <1>3
<1> QED BY <1>1, <1>8, <1>9

LEMMA FixedCharsAreInt ==
  ASSUME NEW q, PacketIsKnown(q) PROVE FixedChars(q) \in Int
<1>1. q.maxChars \div 4 \in Int
  BY DEF PacketIsKnown
<1>2. CapInstructions(q) \in Int
  BY <1>1 DEF PacketIsKnown, CapInstructions, NoteChars
<1> QED BY <1>2 DEF PacketIsKnown, FixedChars

\* Whatever the files, budgets and texts, the packet that compileContext() makes is honest.
LEMMA PacketIsHonest ==
  ASSUME NEW q, PacketIsKnown(q) PROVE IsHonest(q, CompileContext(q))
<1> DEFINE S == MaySend(q.files)
           N == Cardinality(S)
           ranked == RankFiles(q.files)
           M == MaxFiles(q)
           K == IF N < M THEN N ELSE M
           chosen == SubSeq(ranked, 1, K)
           rest == SubSeq(ranked, M + 1, N)
           x == Fit(q, chosen)
           p == CompileContext(q)
<1>1. FilesAreKnown(q.files) /\ q.maxChars \in Nat
  BY DEF PacketIsKnown
<1>2. /\ N \in Nat /\ ranked \in [1..N -> S]
      /\ \A i \in 1..N : Cardinality(Ahead(q.files, ranked[i])) = i - 1
      /\ \A f \in S : \E i \in 1..N : ranked[i] = f
      /\ \A i, j \in 1..N : i < j => Outranks(ranked[i], ranked[j])
  BY <1>1, RankingSorts
<1>3. M \in Nat
  BY DEF PacketIsKnown, MaxFiles
<1>4. \A f \in S : f \in q.files /\ ~f.secret /\ f.path \in Nat
  BY <1>1 DEF MaySend, FilesAreKnown
<1>5. ranked \in Seq(S) /\ Len(ranked) = N
  BY <1>2
<1>6. /\ p.files = x.kept /\ p.truncated = rest \o x.dropped /\ p.used = x.used
      /\ p.locked = q.locked /\ p.forbidden = {f \in q.files : f.secret}
  <2>1. Selected(q) = chosen
    BY <1>5 DEF Selected
  <2> QED BY <1>5, <2>1 DEF CompileContext
<1> HIDE DEF S, ranked, M, p
<1>7. /\ K \in 0..N /\ chosen \in Seq(S) /\ Len(chosen) = K
      /\ \A i \in 1..K : chosen[i] = ranked[i]
  BY <1>2, <1>3, <1>5
<1>8. /\ rest \in Seq(S) /\ Len(rest) = N - K
      /\ \A i \in 1..Len(rest) : rest[i] = ranked[M + i] /\ M + i \in 1..N
  <2>1. CASE N < M + 1
    <3>1. rest = <<>>
      BY <1>2, <1>3, <1>5, <2>1
    <3> QED BY <1>2, <1>3, <2>1, <3>1
  <2>2. CASE ~(N < M + 1)
    <3>1. K = M /\ M + 1 <= N /\ M + 1 \in Nat
      BY <1>2, <1>3, <2>2
    <3>2. /\ rest \in Seq(S) /\ Len(rest) = (N - (M + 1)) + 1
          /\ \A i \in 1..((N - (M + 1)) + 1) : rest[i] = ranked[((M + 1) + i) - 1]
      <4>1. PICK m \in Int : m = M + 1
        BY <3>1
      <4>2. N \in Int /\ m <= N /\ \A i \in m..N : ranked[i] \in S
        <5>1. N \in Nat /\ m \in 1..N
          BY <1>2, <1>3, <3>1, <4>1
        <5> QED BY <1>2, <5>1
      <4>3. /\ SubSeq(ranked, m, N) \in Seq(S)
            /\ Len(SubSeq(ranked, m, N)) = IF m <= N THEN N - m + 1 ELSE 0
            /\ \A i \in 1..(N - m + 1) : SubSeq(ranked, m, N)[i] = ranked[m + i - 1]
        <5> HIDE DEF N, rest, K
        <5> QED BY <4>1, <4>2, SubSeqProperties
      <4> QED BY <4>1, <4>2, <4>3
    <3>3. (N - (M + 1)) + 1 = N - K
      BY <1>2, <1>3, <3>1
    <3>4. \A i \in 1..(N - K) : ((M + 1) + i) - 1 = M + i /\ M + i \in 1..N
      BY <1>2, <1>3, <3>1
    <3> HIDE DEF rest, K
    <3> QED BY <3>2, <3>3, <3>4
  <2> QED BY <2>1, <2>2
<1> HIDE DEF N, K, chosen, rest
<1>9. Fitted(q.maxChars, chosen, S, K, x)
  <2>1. \A i, j \in 1..Len(chosen) : i < j => Outranks(chosen[i], chosen[j])
    BY <1>2, <1>7
  <2>2. FixedChars(q) \in Int
    BY FixedCharsAreInt
  <2>3. \A f \in S : f.path \in Nat
    BY <1>4
  <2> QED BY <1>1, <1>7, <2>1, <2>2, <2>3, AllAreFitted
<1> HIDE DEF x
<1>10. /\ x.kept \in Seq(S) /\ x.dropped \in Seq(S) /\ x.used \in Int
       /\ Len(x.kept) + Len(x.dropped) = K
  BY <1>9 DEF Fitted
<1>11. /\ p.truncated \in Seq(S) /\ Len(p.truncated) = Len(rest) + Len(x.dropped)
       /\ \A i \in 1..Len(rest) : p.truncated[i] = rest[i]
       /\ \A i \in 1..Len(x.dropped) : p.truncated[Len(rest) + i] = x.dropped[i]
  <2>1. /\ p.truncated \in Seq(S) /\ Len(p.truncated) = Len(rest) + Len(x.dropped)
        /\ \A i \in 1..(Len(rest) + Len(x.dropped)) :
             p.truncated[i] = IF i <= Len(rest) THEN rest[i] ELSE x.dropped[i - Len(rest)]
    <3>1. rest \in Seq(S) /\ x.dropped \in Seq(S) /\ p.truncated = rest \o x.dropped
      BY <1>6, <1>8, <1>10
    <3> DEFINE a == rest
               b == x.dropped
    <3>2. /\ a \o b \in Seq(S) /\ Len(a \o b) = Len(a) + Len(b)
          /\ \A i \in 1..(Len(a) + Len(b)) :
               (a \o b)[i] = IF i <= Len(a) THEN a[i] ELSE b[i - Len(a)]
      <4> HIDE DEF a, b
      <4>1. a \in Seq(S) /\ b \in Seq(S)
        BY <3>1 DEF a, b
      <4> QED BY <4>1, ConcatProperties
    <3> QED BY <3>1, <3>2
  <2>2. Len(rest) \in Nat /\ Len(x.dropped) \in Nat
    BY <1>8, <1>10
  <2>3. ASSUME NEW i \in 1..Len(rest) PROVE p.truncated[i] = rest[i]
    BY <2>1, <2>2
  <2>4. ASSUME NEW i \in 1..Len(x.dropped) PROVE p.truncated[Len(rest) + i] = x.dropped[i]
    <3>1. /\ Len(rest) + i \in 1..(Len(rest) + Len(x.dropped)) /\ ~(Len(rest) + i <= Len(rest))
          /\ (Len(rest) + i) - Len(rest) = i
      BY <2>2
    <3> QED BY <2>1, <3>1
  <2> QED BY <2>1, <2>3, <2>4
<1>12. DOMAIN p.files = 1..Len(x.kept) /\ DOMAIN p.truncated = 1..Len(p.truncated)
  BY <1>6, <1>10, <1>11
<1> DEFINE told == {p.files[i] : i \in DOMAIN p.files}
           withheld == {p.truncated[i] : i \in DOMAIN p.truncated}
<1>13. told \subseteq S /\ withheld \subseteq S
  BY <1>6, <1>10, <1>11, <1>12
<1>14. ASSUME NEW f \in S PROVE f \in told \cup withheld
  <2>1. PICK k \in 1..N : ranked[k] = f
    BY <1>2
  <2>2. CASE k <= K
    <3>1. k \in 1..K /\ chosen[k] = f
      BY <1>2, <1>7, <2>1, <2>2
    <3>2. CASE \E i \in 1..Len(x.kept) : x.kept[i] = f
      BY <1>6, <1>12, <3>2
    <3>3. CASE \E i \in 1..Len(x.dropped) : x.dropped[i] = f
      <4>1. PICK i \in 1..Len(x.dropped) : x.dropped[i] = f
        BY <3>3
      <4>2. p.truncated[Len(rest) + i] = f
        BY <1>11, <4>1
      <4>3. Len(rest) \in Nat /\ Len(x.dropped) \in Nat
        BY <1>8, <1>10
      <4>4. Len(rest) + i \in 1..Len(p.truncated)
        BY <1>11, <4>3
      <4> QED BY <1>12, <4>2, <4>4
    <3> QED BY <1>9, <3>1, <3>2, <3>3 DEF Fitted
  <2>3. CASE ~(k <= K)
    <3>1. K = M /\ k - M \in 1..Len(rest)
      BY <1>2, <1>3, <1>7, <1>8, <2>1, <2>3 DEF K
    <3>2. rest[k - M] = f
      <4>1. rest[k - M] = ranked[M + (k - M)]
        BY <1>8, <3>1
      <4>2. M + (k - M) = k
        <5>1. \A m, n \in Int : m + (n - m) = n
          OBVIOUS
        <5>2. k \in Int /\ M \in Int
          BY <1>2, <1>3
        <5> QED BY <5>1, <5>2
      <4> QED BY <2>1, <4>1, <4>2
    <3>3. k - M \in 1..Len(p.truncated) /\ p.truncated[k - M] = f
      BY <1>8, <1>10, <1>11, <3>1, <3>2
    <3> QED BY <1>12, <3>3
  <2> QED BY <2>2, <2>3
<1>15. told \cup withheld \cup p.forbidden = q.files
  <2>1. q.files = S \cup p.forbidden
    BY <1>1, <1>6 DEF S, MaySend, FilesAreKnown
  <2> QED BY <1>13, <1>14, <2>1
<1>16. Len(p.files) + Len(p.truncated) = Cardinality(MaySend(q.files))
  <2>1. Len(p.files) + Len(p.truncated) = N
    <3>1. Len(p.files) = Len(x.kept) /\ Len(p.truncated) = (N - K) + Len(x.dropped)
      BY <1>6, <1>8, <1>11
    <3>2. Len(x.kept) \in Nat /\ Len(x.dropped) \in Nat /\ K \in Nat /\ N \in Nat
      <4>1. Len(x.kept) \in Nat /\ Len(x.dropped) \in Nat
        BY <1>10
      <4> QED BY <1>2, <1>7, <4>1
    <3>3. Len(x.kept) + ((N - K) + Len(x.dropped)) = N
      <4>1. PICK a \in Nat, b \in Nat : a = Len(x.kept) /\ b = Len(x.dropped)
        BY <3>2
      <4>2. PICK n \in Nat, k \in Nat : n = N /\ k = K
        BY <3>2
      <4>3. a + b = k
        BY <1>10, <4>1, <4>2
      <4>4. a + ((n - k) + b) = n
        BY <4>3
      <4> QED BY <4>1, <4>2, <4>4
    <3> QED BY <3>1, <3>3
  <2> QED BY <2>1 DEF N, S
<1>17. \A i, j \in DOMAIN p.files : i < j => Outranks(p.files[i], p.files[j])
  BY <1>6, <1>9, <1>12 DEF Fitted
<1>18. p.used > q.maxChars => p.files = <<>>
  BY <1>6, <1>9 DEF Fitted
<1>19. ASSUME NEW f \in withheld
       PROVE  p.used + f.path > q.maxChars \/ Cardinality(Ahead(q.files, f)) >= MaxFiles(q)
  <2>1. PICK i \in 1..Len(p.truncated) : p.truncated[i] = f
    BY <1>12
  <2>2. CASE i <= Len(rest)
    <3>1. i \in 1..Len(rest) /\ f = ranked[M + i] /\ M + i \in 1..N
      BY <1>8, <1>11, <2>1, <2>2
    <3>2. Cardinality(Ahead(q.files, f)) = (M + i) - 1
      BY <1>2, <3>1
    <3>3. Cardinality(Ahead(q.files, f)) >= M
      BY <1>3, <3>1, <3>2
    <3> QED BY <3>3 DEF M
  <2>3. CASE ~(i <= Len(rest))
    <3>1. i - Len(rest) \in 1..Len(x.dropped) /\ i = Len(rest) + (i - Len(rest))
      BY <1>8, <1>10, <1>11, <2>1, <2>3
    <3>2. f = x.dropped[i - Len(rest)]
      BY <1>11, <2>1, <3>1
    <3> QED BY <1>6, <1>9, <3>1, <3>2 DEF Fitted
  <2> QED BY <2>2, <2>3
<1>20. \A f \in told : ~f.secret
  BY <1>4, <1>13
<1> HIDE DEF told, withheld
<1> QED BY <1>6, <1>15, <1>16, <1>17, <1>18, <1>19, <1>20 DEF IsHonest, told, withheld, p

-----------------------------------------------------------------------------
(* Policies: every answer is that of its operator.                         *)

\* The questions are those of a project: see RulesAreKnown and PacketIsKnown.
QuestionsAreKnown ==
  \A q \in Questions :
    /\ q.kind = "rules" => RulesAreKnown(q.rules)
    /\ q.kind = "packet" => PacketIsKnown(q)
    /\ q.kind = "report" =>
         /\ q.role \in {"planner", "implementer", "reviewer", "tester"}
         /\ q.measured \in BOOLEAN

PolicyInv ==
  /\ question \in Questions
  /\ reply.kind = "rules" =>
       /\ question.kind = "rules"
       /\ reply.policy = EffectivePolicy(question.rules) /\ reply.limits = Limits(question.rules)
  /\ reply.kind = "step" => reply.step = ResolveRoleRuntime(question)
  /\ reply.kind = "packet" =>
       question.kind = "packet" /\ reply.packet = CompileContext(question)
  /\ reply.kind = "report" =>
       question.kind = "report" /\ reply.violations = AssessStepPolicy(question)

LEMMA PolicyInitially == PolicyInit => PolicyInv
BY DEF PolicyInit, PolicyInv, Unanswered

LEMMA PolicyStep ==
  ASSUME PolicyInv, [PolicyNext]_policyVars PROVE PolicyInv'
<1>1. CASE ResolvePolicy
  BY <1>1 DEF ResolvePolicy, PolicyInv
<1>2. CASE ResolveStep
  BY <1>2 DEF ResolveStep, PolicyInv
<1>3. CASE CompilePacket
  BY <1>3 DEF CompilePacket, PolicyInv
<1>4. CASE AssessStep
  BY <1>4 DEF AssessStep, PolicyInv
<1>5. CASE UNCHANGED policyVars
  BY <1>5 DEF policyVars, PolicyInv
<1> QED BY <1>1, <1>2, <1>3, <1>4, <1>5 DEF PolicyNext

LEMMA PoliciesTighten ==
  ASSUME QuestionsAreKnown, PolicyInv PROVE PolicyOnlyTightens
<1>1. RulesAreResolved
  <2> SUFFICES ASSUME reply.kind = "rules" PROVE RulesAreResolved
    BY DEF RulesAreResolved
  <2>1. /\ RulesAreKnown(question.rules)
        /\ reply.policy = EffectivePolicy(question.rules) /\ reply.limits = Limits(question.rules)
    BY DEF QuestionsAreKnown, PolicyInv
  <2>2. /\ {e.rule.key : e \in reply.policy} = {r.key : r \in question.rules}
        /\ Cardinality(reply.policy) = Cardinality({r.key : r \in question.rules})
    BY <2>1, EffectiveHasOneOfEachKey
  <2>3. /\ UNION {{e.rule} \cup e.shadowed : e \in reply.policy} = question.rules
        /\ \A e \in reply.policy : \A s \in e.shadowed :
             /\ Specificity[s.scope] <= Specificity[e.rule.scope]
             /\ s.scope = e.rule.scope => e.rule.source = "user"
    BY <2>1, NoRuleIsLost
  <2>4. (\E r \in LimitRules(question.rules) : reply.limits.values[r.key] # r.statement)
          => reply.limits.problems # {}
    BY <2>1, LimitsAreReported
  <2> QED BY <2>2, <2>3, <2>4 DEF RulesAreResolved
<1>2. StepsStayInTheirRole
  <2> SUFFICES ASSUME reply.kind = "step", reply.step.refusal = "none"
               PROVE  StepsStayInTheirRole
    BY DEF StepsStayInTheirRole
  <2>1. reply.step = ResolveRoleRuntime(question)
    BY DEF PolicyInv
  <2>2. Refusal(question) = "none"
    BY <2>1 DEF ResolveRoleRuntime
  <2> QED BY <2>1, <2>2, StepIsInItsRole DEF StepsStayInTheirRole
<1>3. PacketsAreHonest
  <2> SUFFICES ASSUME reply.kind = "packet" PROVE IsHonest(question, reply.packet)
    BY DEF PacketsAreHonest
  <2>1. PacketIsKnown(question) /\ reply.packet = CompileContext(question)
    BY DEF QuestionsAreKnown, PolicyInv
  <2> QED BY <2>1, PacketIsHonest
<1>4. ReportsArePoliced
  <2> SUFFICES ASSUME reply.kind = "report", reply.violations = {} PROVE ReportsArePoliced
    BY DEF ReportsArePoliced
  <2>1. /\ question.role \in {"planner", "implementer", "reviewer", "tester"}
        /\ question.measured \in BOOLEAN
        /\ AssessStepPolicy(question) = {}
    BY DEF QuestionsAreKnown, PolicyInv
  <2> QED BY <2>1, ReportIsPoliced DEF ReportsArePoliced
<1> QED BY <1>1, <1>2, <1>3, <1>4 DEF PolicyOnlyTightens

\* Of every key the narrowest rule is in effect and no other is hidden; a step holds no more
\* than its role and its binding leave it; a report that passes broke no rule; and a packet
\* accounts for every file: for any rules, bindings, runtimes, reports, files and budgets.
THEOREM PoliciesOnlyTighten ==
  ASSUME QuestionsAreKnown PROVE PolicySpec => []PolicyOnlyTightens
<1>1. PolicyInit => PolicyInv
  BY PolicyInitially
<1>2. PolicyInv /\ [PolicyNext]_policyVars => PolicyInv'
  BY PolicyStep
<1>3. PolicyInv => PolicyOnlyTightens
  BY PoliciesTighten
<1> QED BY <1>1, <1>2, <1>3, PTL DEF PolicySpec

-----------------------------------------------------------------------------
(* Numbers.                                                                *)

\* A set of numbers that has one has a least one.
LEMMA LeastNumber ==
  ASSUME NEW S \in SUBSET Nat, S # {}
  PROVE  \E n \in S : \A m \in S : n <= m
<1>1. \E n \in S : \A m \in S : ~(<<m, n>> \in OpToRel(<, Nat))
  BY NatLessThanWellFounded, WFMin
<1>2. PICK n \in S : \A m \in S : ~(<<m, n>> \in OpToRel(<, Nat))
  BY <1>1
<1>3. \A m \in S : ~(m < n)
  BY <1>2 DEF OpToRel
<1> QED BY <1>3

-----------------------------------------------------------------------------
(* Outputs and the artifacts they take.                                    *)

\* p is what is left and missing after each of the outputs.
IsPass(p, count, wanted, start, suitable) ==
  \A n \in 0..count :
    p[n] = IF n = 0 THEN [left |-> start, missing |-> {}]
           ELSE IF n \in wanted THEN TakeFirst(p[n - 1], n, suitable[n]) ELSE p[n - 1]

LEMMA PassExists ==
  ASSUME NEW wanted, NEW start, NEW suitable, NEW count \in Nat
  PROVE  \E p : IsPass(p, count, wanted, start, suitable)
<1> DEFINE Bad == {k \in Nat : ~\E p : IsPass(p, k, wanted, start, suitable)}
<1>1. SUFFICES ASSUME Bad # {} PROVE FALSE
  OBVIOUS
<1>2. Bad \in SUBSET Nat
  OBVIOUS
<1>3. PICK k \in Bad : \A m \in Bad : k <= m
  BY <1>1, <1>2, LeastNumber
<1>4. CASE k = 0
  <2> DEFINE q == [n \in 0..0 |-> [left |-> start, missing |-> {}]]
  <2>1. IsPass(q, 0, wanted, start, suitable)
    BY DEF IsPass
  <2> QED BY <1>3, <1>4, <2>1
<1>5. CASE k # 0
  <2>1. k \in Nat /\ k - 1 \in Nat /\ k - 1 \notin Bad
    BY <1>3, <1>5
  <2>2. PICK p : IsPass(p, k - 1, wanted, start, suitable)
    BY <2>1
  <2> DEFINE last == IF k \in wanted THEN TakeFirst(p[k - 1], k, suitable[k]) ELSE p[k - 1]
             q == [n \in 0..k |-> IF n = k THEN last ELSE p[n]]
  <2>3. ASSUME NEW n \in 0..k
        PROVE  q[n] = IF n = 0 THEN [left |-> start, missing |-> {}]
                      ELSE IF n \in wanted THEN TakeFirst(q[n - 1], n, suitable[n]) ELSE q[n - 1]
    <3>1. CASE n = k
      <4>1. n - 1 \in 0..k /\ n - 1 # k /\ n # 0
        BY <1>5, <2>1, <3>1
      <4>2. q[n - 1] = p[k - 1] /\ q[n] = last
        BY <3>1, <4>1
      <4> QED BY <3>1, <4>1, <4>2
    <3>2. CASE n # k
      <4>1. n \in 0..k - 1 /\ (n # 0 => n - 1 \in 0..k /\ n - 1 # k)
        BY <2>1, <3>2
      <4>2. q[n] = p[n] /\ (n # 0 => q[n - 1] = p[n - 1])
        BY <3>2, <4>1
      <4> QED BY <2>2, <4>1, <4>2 DEF IsPass
    <3> QED BY <3>1, <3>2
  <2> HIDE DEF q
  <2>4. IsPass(q, k, wanted, start, suitable)
    BY <2>3 DEF IsPass
  <2> QED BY <1>3, <2>4
<1> QED BY <1>4, <1>5

LEMMA PassIs ==
  ASSUME NEW wanted, NEW start, NEW suitable, NEW count \in Nat
  PROVE  \E p : /\ IsPass(p, count, wanted, start, suitable)
                /\ Pass(count, wanted, start, suitable) = p[count]
<1> DEFINE P(f) == f = [n \in 0..count |->
                     IF n = 0 THEN [left |-> start, missing |-> {}]
                     ELSE IF n \in wanted THEN TakeFirst(f[n - 1], n, suitable[n]) ELSE f[n - 1]]
           q == CHOOSE f : P(f)
<1>1. Pass(count, wanted, start, suitable) = q[count]
  BY DEF Pass
<1>2. \E f : P(f)
  <2>1. PICK p : IsPass(p, count, wanted, start, suitable)
    BY PassExists
  <2> DEFINE r == [n \in 0..count |-> p[n]]
  <2>2. ASSUME NEW n \in 0..count
        PROVE  r[n] = IF n = 0 THEN [left |-> start, missing |-> {}]
                      ELSE IF n \in wanted THEN TakeFirst(r[n - 1], n, suitable[n]) ELSE r[n - 1]
    <3>1. n # 0 => n - 1 \in 0..count
      OBVIOUS
    <3> QED BY <2>1, <3>1 DEF IsPass
  <2>3. P(r)
    BY <2>2
  <2> QED BY <2>3
<1>3. P(q)
  BY <1>2
<1> HIDE DEF q
<1>4. IsPass(q, count, wanted, start, suitable)
  BY <1>3 DEF IsPass
<1> QED BY <1>1, <1>4

\* Every output of a set has an artifact of another one, and one that suits it.
IsMatching(f, outputs, places, suitable) ==
  /\ f \in [outputs -> places]
  /\ \A i, j \in outputs : f[i] = f[j] => i = j
  /\ \A i \in outputs : f[i] \in suitable[i]

LEMMA TakeFirstIs ==
  ASSUME NEW l, NEW m, NEW output, NEW suitable, NEW acc, acc = [left |-> l, missing |-> m]
  PROVE  TakeFirst(acc, output, suitable) =
           IF l \cap suitable = {} THEN [left |-> l, missing |-> m \cup {output}]
           ELSE [left |-> l \ {FirstOf(l \cap suitable)}, missing |-> m]
BY DEF TakeFirst

\* After n outputs of a pass: those of them that are not missing have what is not left.
Matched(p, n, wanted, start, suitable) ==
  /\ p[n] \in [left : SUBSET start, missing : SUBSET (wanted \cap 1..n)]
  /\ \E f : IsMatching(f, (wanted \cap 1..n) \ p[n].missing, start \ p[n].left, suitable)

LEMMA PassMatches ==
  ASSUME NEW count \in Nat, NEW wanted, NEW start \in SUBSET Nat,
         NEW suitable, NEW p, IsPass(p, count, wanted, start, suitable)
  PROVE  \A n \in 0..count : Matched(p, n, wanted, start, suitable)
<1> DEFINE Good(n) == Matched(p, n, wanted, start, suitable)
           Bad == {n \in 0..count : ~Good(n)}
<1>1. SUFFICES ASSUME Bad # {} PROVE FALSE
  OBVIOUS
<1>2. Bad \in SUBSET Nat
  OBVIOUS
<1>3. PICK n \in Bad : \A m \in Bad : n <= m
  BY <1>1, <1>2, LeastNumber
<1>4. n \in 0..count /\ ~Good(n)
  BY <1>3
<1> HIDE DEF Good
<1>5. CASE n = 0
  <2>1. p[0] = [left |-> start, missing |-> {}]
    BY <1>4, <1>5 DEF IsPass
  <2>2. IsMatching(<<>>, {}, {}, suitable)
    BY DEF IsMatching
  <2>3. (wanted \cap 1..0) \ p[0].missing = {} /\ start \ p[0].left = {}
    BY <2>1
  <2>4. p[0] \in [left : SUBSET start, missing : SUBSET (wanted \cap 1..0)]
    BY <2>1
  <2>5. Good(0)
    BY <2>2, <2>3, <2>4 DEF Good, Matched
  <2> QED BY <1>4, <1>5, <2>5
<1>6. CASE n # 0
  <2>1. n \in Nat /\ n - 1 \in 0..count /\ ~(n <= n - 1)
    BY <1>4, <1>6
  <2>2. Good(n - 1)
    BY <1>3, <2>1
  <2> DEFINE l == p[n - 1].left
             m == p[n - 1].missing
             W == (wanted \cap 1..(n - 1)) \ m
  <2>3. PICK f : IsMatching(f, W, start \ l, suitable)
    BY <2>2 DEF Good, Matched
  <2>4. l \subseteq start /\ m \subseteq wanted \cap 1..(n - 1)
    BY <2>2 DEF Good, Matched
  <2>5. p[n - 1] = [left |-> l, missing |-> m]
    BY <2>2 DEF Good, Matched
  <2>6. p[n] = IF n \in wanted THEN TakeFirst(p[n - 1], n, suitable[n]) ELSE p[n - 1]
    BY <1>4, <1>6 DEF IsPass
  <2> HIDE DEF l, m
  <2>7. CASE n \notin wanted
    <3>1. wanted \cap 1..n = wanted \cap 1..(n - 1)
      BY <1>4, <1>6, <2>7
    <3>2. p[n] = p[n - 1]
      BY <2>6, <2>7
    <3>3. Good(n)
      <4>1. p[n - 1] \in [left : SUBSET start, missing : SUBSET (wanted \cap 1..(n - 1))]
        BY <2>2 DEF Good, Matched
      <4>2. p[n].left = l /\ p[n].missing = m
        BY <2>5, <3>2
      <4> QED BY <2>3, <3>1, <3>2, <4>1, <4>2 DEF Good, Matched
    <3> QED BY <1>4, <3>3
  <2>8. CASE n \in wanted /\ l \cap suitable[n] = {}
    <3>1. p[n] = [left |-> l, missing |-> m \cup {n}]
      <4>1. p[n] = TakeFirst(p[n - 1], n, suitable[n])
        BY <2>6, <2>8
      <4>2. TakeFirst(p[n - 1], n, suitable[n])
              = TakeFirst([left |-> l, missing |-> m], n, suitable[n])
        BY <2>5
      <4>3. TakeFirst([left |-> l, missing |-> m], n, suitable[n])
              = [left |-> l, missing |-> m \cup {n}]
        BY <2>8 DEF TakeFirst
      <4> QED BY <4>1, <4>2, <4>3
    <3>2. (wanted \cap 1..n) \ (m \cup {n}) = W
      BY <1>4, <1>6, <2>4
    <3>3. m \cup {n} \subseteq wanted \cap 1..n
      BY <1>4, <1>6, <2>4, <2>8
    <3>4. p[n] \in [left : SUBSET start, missing : SUBSET (wanted \cap 1..n)]
      BY <2>4, <3>1, <3>3
    <3>5. p[n].missing = m \cup {n} /\ p[n].left = l
      BY <3>1
    <3> QED BY <1>4, <2>3, <3>2, <3>4, <3>5 DEF Good, Matched
  <2>9. CASE n \in wanted /\ l \cap suitable[n] # {}
    <3> DEFINE a == FirstOf(l \cap suitable[n])
    <3>1. a \in l \cap suitable[n]
      <4>1. l \cap suitable[n] \in SUBSET Nat
        BY <2>4
      <4>2. \E i \in l \cap suitable[n] : \A j \in l \cap suitable[n] : i <= j
        BY <2>9, <4>1, LeastNumber
      <4> QED BY <4>2 DEF FirstOf
    <3>2. p[n] = [left |-> l \ {a}, missing |-> m]
      <4>1. p[n] = TakeFirst(p[n - 1], n, suitable[n])
        BY <2>6, <2>9
      <4>2. TakeFirst(p[n - 1], n, suitable[n])
              = TakeFirst([left |-> l, missing |-> m], n, suitable[n])
        BY <2>5
      <4>3. TakeFirst([left |-> l, missing |-> m], n, suitable[n])
              = [left |-> l \ {a}, missing |-> m]
        BY <2>9 DEF TakeFirst
      <4> QED BY <4>1, <4>2, <4>3
    <3> HIDE DEF a
    <3>3. (wanted \cap 1..n) \ m = W \cup {n} /\ n \notin W
      BY <1>4, <1>6, <2>4, <2>9
    <3> DEFINE g == [i \in W \cup {n} |-> IF i = n THEN a ELSE f[i]]
    <3>4. IsMatching(g, W \cup {n}, start \ (l \ {a}), suitable)
      <4>1. \A i \in W : f[i] \in start \ l /\ f[i] \in suitable[i] /\ f[i] # a
        BY <2>3, <3>1 DEF IsMatching
      <4>2. \A i \in W \cup {n} : /\ g[i] \in start \ (l \ {a})
                                 /\ g[i] \in suitable[i]
        BY <2>4, <3>1, <4>1
      <4>3. \A i, j \in W \cup {n} : g[i] = g[j] => i = j
        BY <2>3, <4>1 DEF IsMatching
      <4>4. g \in [W \cup {n} -> start \ (l \ {a})]
        BY <4>2
      <4> HIDE DEF g
      <4> QED BY <4>2, <4>3, <4>4 DEF IsMatching
    <3>5. p[n] \in [left : SUBSET start, missing : SUBSET (wanted \cap 1..n)]
      <4>1. l \ {a} \subseteq start
        BY <2>4
      <4>2. m \subseteq wanted \cap 1..n
        BY <2>1, <2>4
      <4> QED BY <3>2, <4>1, <4>2
    <3>6. p[n].missing = m /\ p[n].left = l \ {a}
      BY <3>2
    <3> HIDE DEF g, W
    <3> QED BY <1>4, <3>3, <3>4, <3>5, <3>6 DEF Good, Matched
  <2> QED BY <2>7, <2>8, <2>9
<1> QED BY <1>5, <1>6

\* Those of the outputs that are required, and that artifacts stand for each of them.
Needed(outputs) == {i \in DOMAIN outputs : outputs[i].required}

StandFor(artifacts, outputs) ==
  \E f \in [Needed(outputs) -> DOMAIN artifacts] :
    /\ \A i, j \in Needed(outputs) : f[i] = f[j] => i = j
    /\ \A i \in Needed(outputs) : artifacts[f[i]].kind = outputs[i].kind

\* When nothing is missing each required output has an artifact of its own, of its kind.
LEMMA NoneMissing ==
  ASSUME NEW outputs, Len(outputs) \in Nat, DOMAIN outputs = 1..Len(outputs),
         NEW artifacts, DOMAIN artifacts \in SUBSET Nat, Missing(outputs, artifacts) = {}
  PROVE  StandFor(artifacts, outputs)
<1> DEFINE needed == Needed(outputs)
           K == Len(outputs)
           Named(a, o) == a.kind = o.kind /\ MatchesName(a, o.name)
           Alone(a, o) ==
             /\ a.kind = o.kind
             /\ Cardinality({i \in DOMAIN outputs : outputs[i].kind = o.kind}) = 1
             /\ \A other \in ToSet(outputs) : other.name # o.name => ~MatchesName(a, other.name)
           named == [n \in DOMAIN outputs |->
                       {i \in DOMAIN artifacts : Named(artifacts[i], outputs[n])}]
           alone == [n \in DOMAIN outputs |->
                       {i \in DOMAIN artifacts : Alone(artifacts[i], outputs[n])}]
           first == Pass(K, needed, DOMAIN artifacts, named)
<1>1. Missing(outputs, artifacts) = Pass(K, first.missing, first.left, alone).missing
  BY DEF Missing, Needed
<1>2. \A n \in DOMAIN outputs :
        \A i \in named[n] \cup alone[n] : artifacts[i].kind = outputs[n].kind
  OBVIOUS
<1> HIDE DEF named, alone, first
<1>3. K \in Nat /\ needed \subseteq 1..K /\ needed \subseteq DOMAIN outputs
  BY DEF Needed
<1> HIDE DEF needed
<1>4. PICK f : /\ first.left \in SUBSET DOMAIN artifacts /\ first.missing \subseteq needed
               /\ IsMatching(f, needed \ first.missing, DOMAIN artifacts \ first.left, named)
  <2>1. PICK p : IsPass(p, K, needed, DOMAIN artifacts, named) /\ first = p[K]
    <3>1. first = Pass(K, needed, DOMAIN artifacts, named)
      BY DEF first
    <3>2. K \in Nat
      BY <1>3
    <3>3. \E p : /\ IsPass(p, K, needed, DOMAIN artifacts, named)
                 /\ Pass(K, needed, DOMAIN artifacts, named) = p[K]
      BY ONLY <3>2, PassIs
    <3> QED BY <3>1, <3>3
  <2>2. Matched(p, K, needed, DOMAIN artifacts, named)
    <3>1. K \in 0..K
      BY <1>3
    <3> QED BY <1>3, <2>1, <3>1, PassMatches
  <2>3. needed \cap 1..K = needed
    BY <1>3
  <2> QED BY <2>1, <2>2, <2>3 DEF Matched
<1> DEFINE l == first.left
           m == first.missing
           second == Pass(K, m, l, alone)
<1>5. PICK g : /\ second.left \subseteq l /\ second.missing = {}
               /\ IsMatching(g, m, l \ second.left, alone)
  <2>1. l \in SUBSET Nat /\ m \cap 1..K = m
    BY <1>3, <1>4
  <2>2. PICK p : IsPass(p, K, m, l, alone) /\ second = p[K]
    BY <1>3, PassIs
  <2> HIDE DEF second, l, m
  <2>3. Matched(p, K, m, l, alone)
    <3>1. K \in 0..K
      BY <1>3
    <3> QED BY <1>3, <2>1, <2>2, <3>1, PassMatches
  <2>4. second.missing = {}
    BY <1>1 DEF second, l, m
  <2>5. second.left \subseteq l /\ \E g : IsMatching(g, m \ second.missing, l \ second.left, alone)
    BY <2>1, <2>2, <2>3 DEF Matched
  <2> QED BY <2>4, <2>5
<1> HIDE DEF second, l, m
<1> DEFINE h == [i \in needed |-> IF i \in m THEN g[i] ELSE f[i]]
<1>6. /\ l \subseteq DOMAIN artifacts /\ m \subseteq needed
      /\ \A i \in needed \ m : f[i] \in DOMAIN artifacts /\ f[i] \notin l /\ f[i] \in named[i]
      /\ \A i \in m : g[i] \in l /\ g[i] \in alone[i]
      /\ \A i, j \in needed \ m : f[i] = f[j] => i = j
      /\ \A i, j \in m : g[i] = g[j] => i = j
  BY <1>4, <1>5 DEF IsMatching, l, m
<1>7. h \in [needed -> DOMAIN artifacts]
  BY <1>6
<1>8. \A i, j \in needed : h[i] = h[j] => i = j
  <2> SUFFICES ASSUME NEW i \in needed, NEW j \in needed, h[i] = h[j] PROVE i = j
    OBVIOUS
  <2>1. h[i] = (IF i \in m THEN g[i] ELSE f[i]) /\ h[j] = (IF j \in m THEN g[j] ELSE f[j])
    OBVIOUS
  <2> HIDE DEF h
  <2> QED BY <1>6, <2>1
<1>9. \A i \in needed : artifacts[h[i]].kind = outputs[i].kind
  <2> SUFFICES ASSUME NEW i \in needed PROVE artifacts[h[i]].kind = outputs[i].kind
    OBVIOUS
  <2>1. h[i] \in named[i] \cup alone[i] /\ i \in DOMAIN outputs
    BY <1>3, <1>6
  <2> HIDE DEF h
  <2> QED BY <1>2, <2>1
<1> HIDE DEF h
<1> QED BY <1>7, <1>8, <1>9 DEF StandFor, needed

-----------------------------------------------------------------------------
(* The attempts, and what is kept of them.                                 *)

Row(a, i, n) == [attempt |-> a, order |-> i, total |-> n]

\* The rows of an attempt so far: one of each of the first of its artifacts.
RowsAre(rows, a, i, n) == {r \in rows : r.attempt = a} = {Row(a, j, n) : j \in 1..i}

\* What is written, and then completed, has all that is required.
Required(w, a) == Missing(w.outputs["p"], a) = {}

\* An attempt has rows when it returned something, as many as are recorded; what is in
\* memory is what it returned; and no attempt that is to come has any.
ArtifactInv ==
  /\ wiring \in Wirings /\ attempt \in Nat /\ at \in Nat
  /\ made = <<>> \/ made \in wiring.makes
  /\ status \in {"running", "writing", "completed", "failed"}
  /\ \A r \in records : r.attempt \in Nat /\ r.attempt <= attempt
  /\ status = "running" => made = <<>> /\ at = 0 /\ RowsAre(records, attempt, 0, 0)
  /\ status \in {"writing", "completed"} =>
       /\ at <= Len(made) /\ RowsAre(records, attempt, at, Len(made))
       /\ Required(wiring, made)
  /\ status = "completed" => at = Len(made)
  /\ written => status = "writing" /\ at < Len(made)
  /\ known => status = "completed" /\ lineage = made

LEMMA WiringIs ==
  ASSUME WiringsAssumption, NEW w \in Wirings, NEW a, a = <<>> \/ a \in w.makes
  PROVE  /\ Len(a) \in Nat /\ DOMAIN a = 1..Len(a) /\ a = [i \in 1..Len(a) |-> a[i]]
         /\ Len(w.outputs["p"]) \in Nat /\ DOMAIN w.outputs["p"] = 1..Len(w.outputs["p"])
<1> DEFINE A == [kind : STRING, names : SUBSET STRING]
           O == [name : STRING, kind : STRING, required : BOOLEAN]
<1>1. w.outputs \in [Sources -> Seq(O)] /\ w.makes \subseteq Seq(A)
  BY DEF WiringsAssumption
<1> HIDE DEF A, O
<1>2. w.outputs["p"] \in Seq(O)
  BY <1>1 DEF Sources
<1>3. a \in Seq(A)
  <2>1. <<>> \in Seq(A)
    OBVIOUS
  <2> QED BY <1>1, <2>1
<1> QED BY <1>2, <1>3

UpTo(rows, k) == {q \in rows : q.order <= k}

\* There are as many rows up to a place as there are places up to it.
LEMMA RowsCount ==
  ASSUME NEW a, NEW n \in Nat, NEW rows, rows = {Row(a, j, n) : j \in 1..n}, NEW k \in 0..n
  PROVE  Cardinality(UpTo(rows, k)) = k
<1> DEFINE T == UpTo(rows, k)
           f == [j \in 1..k |-> Row(a, j, n)]
<1>1. \A j \in 1..k : f[j] = Row(a, j, n) /\ f[j].order = j
  BY DEF Row
<1>2. \A q : q \in T <=> \E j \in 1..k : q = Row(a, j, n)
  <2>1. \A j \in 1..n : Row(a, j, n).order = j
    BY DEF Row
  <2> QED BY <2>1 DEF UpTo
<1>3. \A j \in 1..k : f[j] \in T
  BY <1>1, <1>2
<1> HIDE DEF T
<1>4. f \in [1..k -> T]
  BY <1>3
<1>5. \A i, j \in 1..k : f[i] = f[j] => i = j
  BY <1>1
<1>6. \A q \in T : \E j \in 1..k : f[j] = q
  BY <1>1, <1>2
<1> HIDE DEF f
<1>7. f \in Bijection(1..k, T)
  BY <1>4, <1>5, <1>6 DEF Bijection, Injection, Surjection, IsInjective
<1>8. IsFiniteSet(1..k) /\ Cardinality(1..k) = k
  BY FS_Interval
<1>9. ExistsBijection(1..k, T)
  BY <1>7 DEF ExistsBijection
<1>10. Cardinality(T) = k
  BY <1>8, <1>9, FS_Bijection
<1> QED BY <1>10 DEF T

LEMMA ArtifactsStart == ASSUME ArtifactInit PROVE ArtifactInv
<1>1. RowsAre({}, 1, 0, 0)
  BY DEF RowsAre
<1> QED BY <1>1 DEF ArtifactInit, ArtifactInv

LEMMA FinishKeeps == ASSUME WiringsAssumption, ArtifactInv, Finish PROVE ArtifactInv'
<1>1. PICK a \in wiring.makes :
        /\ made' = a
        /\ status' = IF Missing(wiring.outputs["p"], a) = {} THEN "writing" ELSE "failed"
  BY DEF Finish
<1>2. /\ status = "running"
      /\ UNCHANGED <<wiring, attempt, at, written, records, known, lineage>>
  BY DEF Finish
<1>3. at = 0 /\ RowsAre(records, attempt, 0, 0) /\ wiring \in Wirings
  BY <1>2 DEF ArtifactInv
<1>4. Len(a) \in Nat
  BY <1>3, WiringIs
<1>5. RowsAre(records, attempt, 0, Len(a))
  BY <1>3 DEF RowsAre
<1>6. status' = "writing" => Required(wiring, a)
  BY <1>1 DEF Required
<1>7. ~written /\ ~known
  BY <1>2 DEF ArtifactInv
<1> QED BY <1>1, <1>2, <1>3, <1>4, <1>5, <1>6, <1>7 DEF ArtifactInv

LEMMA WriteFileKeeps == ASSUME WiringsAssumption, ArtifactInv, WriteFile PROVE ArtifactInv'
BY DEF ArtifactInv, WriteFile

LEMMA RecordKeeps == ASSUME WiringsAssumption, ArtifactInv, Record PROVE ArtifactInv'
<1> DEFINE n == Len(made)
           more == records \cup {Row(attempt, at + 1, n)}
<1>1. /\ status = "writing" /\ written /\ ~written' /\ at' = at + 1 /\ records' = more
      /\ UNCHANGED <<wiring, attempt, status, made, known, lineage>>
  BY DEF Record, Row
<1>2. wiring \in Wirings /\ (made = <<>> \/ made \in wiring.makes)
  BY DEF ArtifactInv
<1>3. n \in Nat
  BY <1>2, WiringIs
<1> HIDE DEF n
<1>4. /\ at \in Nat /\ at < n /\ RowsAre(records, attempt, at, n) /\ attempt \in Nat
      /\ Required(wiring, made) /\ ~known
      /\ \A r \in records : r.attempt \in Nat /\ r.attempt <= attempt
  BY <1>1 DEF ArtifactInv, n
<1>5. RowsAre(more, attempt, at + 1, n)
  <2>1. Row(attempt, at + 1, n).attempt = attempt
    BY DEF Row
  <2>2. {r \in more : r.attempt = attempt}
          = {r \in records : r.attempt = attempt} \cup {Row(attempt, at + 1, n)}
    BY <2>1
  <2>3. 1..(at + 1) = 1..at \cup {at + 1}
    BY <1>4
  <2>4. {Row(attempt, j, n) : j \in 1..(at + 1)}
          = {Row(attempt, j, n) : j \in 1..at} \cup {Row(attempt, at + 1, n)}
    BY <2>3
  <2> QED BY <1>4, <2>2, <2>4 DEF RowsAre
<1>6. \A r \in more : r.attempt \in Nat /\ r.attempt <= attempt
  BY <1>4 DEF Row
<1> HIDE DEF more
<1>7. at + 1 <= n /\ at + 1 \in Nat
  BY <1>3, <1>4
<1> QED BY <1>1, <1>2, <1>4, <1>5, <1>6, <1>7 DEF ArtifactInv, n

LEMMA RecordFailsKeeps == ASSUME ArtifactInv, RecordFails PROVE ArtifactInv'
BY DEF ArtifactInv, RecordFails

LEMMA CompleteKeeps == ASSUME ArtifactInv, Complete PROVE ArtifactInv'
<1>1. ~written
  <2>1. CASE written
    <3>1. at < Len(made) /\ at = Len(made) /\ at \in Nat
      BY <2>1 DEF ArtifactInv, Complete
    <3> QED BY <3>1
  <2> QED BY <2>1
<1> QED BY <1>1 DEF ArtifactInv, Complete

LEMMA RetryKeeps == ASSUME ArtifactInv, Retry PROVE ArtifactInv'
<1>1. /\ attempt' = attempt + 1 /\ status' = "running" /\ made' = <<>> /\ at' = 0
      /\ status = "failed" /\ UNCHANGED <<wiring, written, records, known, lineage>>
  BY DEF Retry
<1>2. /\ attempt \in Nat /\ wiring \in Wirings /\ ~written /\ ~known
      /\ \A r \in records : r.attempt \in Nat /\ r.attempt <= attempt
  BY <1>1 DEF ArtifactInv
<1>3. \A r \in records : r.attempt # attempt + 1 /\ r.attempt <= attempt + 1
  BY <1>2
<1>4. RowsAre(records, attempt + 1, 0, 0)
  BY <1>3 DEF RowsAre
<1> QED BY <1>1, <1>2, <1>3, <1>4 DEF ArtifactInv

LEMMA CrashKeeps == ASSUME ArtifactInv, Crash PROVE ArtifactInv'
BY DEF ArtifactInv, Crash

LEMMA DamageKeeps == ASSUME ArtifactInv, Damage PROVE ArtifactInv'
BY DEF ArtifactInv, Damage

\* What is read again is in the order it was made in, and all of it.
LEMMA HydratedIsMade ==
  ASSUME WiringsAssumption, ArtifactInv, status = "completed", Readable
  PROVE  [i \in 1..Cardinality(Own) |-> made[Ordered(i).order]] = made
<1> DEFINE n == Len(made)
<1>1. /\ n \in Nat /\ made = [i \in 1..n |-> made[i]]
  BY WiringIs DEF ArtifactInv
<1> HIDE DEF n
<1>2. Own = {Row(attempt, j, n) : j \in 1..n}
  BY DEF ArtifactInv, RowsAre, Own, n
<1>3. \A j \in 1..n : Row(attempt, j, n) \in Own /\ Row(attempt, j, n).order = j
  BY <1>2 DEF Row
<1>4. \A r \in Own : r.order \in 1..n /\ r = Row(attempt, r.order, n)
  BY <1>2 DEF Row
<1>5. \A k \in 0..n : Cardinality(UpTo(Own, k)) = k
  BY <1>1, <1>2, RowsCount
<1>6. Cardinality(Own) = n
  <2>1. UpTo(Own, n) = Own
    BY <1>1, <1>4 DEF UpTo
  <2>2. n \in 0..n
    BY <1>1
  <2> QED BY <1>5, <2>1, <2>2
<1>7. ASSUME NEW i \in 1..n PROVE Ordered(i).order = i
  <2> DEFINE Fits(r) == Cardinality(UpTo(Own, r.order)) = i
  <2>1. \A r \in Own : Fits(r) <=> r.order = i
    <3> SUFFICES ASSUME NEW r \in Own PROVE Fits(r) <=> r.order = i
      OBVIOUS
    <3>1. r.order \in 0..n
      BY <1>1, <1>4
    <3> QED BY <1>5, <3>1
  <2> HIDE DEF Fits
  <2>2. \E r \in Own : Fits(r)
    BY <1>3, <2>1
  <2>3. Ordered(i) = CHOOSE r \in Own : Fits(r)
    BY DEF Ordered, Fits, UpTo
  <2>4. Ordered(i) \in Own /\ Fits(Ordered(i))
    BY <2>2, <2>3
  <2> QED BY <2>1, <2>4
<1> QED BY <1>1, <1>6, <1>7

LEMMA HydrateKeeps == ASSUME WiringsAssumption, ArtifactInv, Hydrate PROVE ArtifactInv'
<1>1. /\ status = "completed" /\ Readable /\ known'
      /\ lineage' = [i \in 1..Cardinality(Own) |-> made[Ordered(i).order]]
      /\ UNCHANGED <<wiring, attempt, status, made, at, written, records>>
  BY DEF Hydrate, Lost
<1>2. lineage' = made
  BY <1>1, HydratedIsMade
<1> QED BY <1>1, <1>2 DEF ArtifactInv

LEMMA OutputsDiffer ==
  ASSUME WiringsAssumption, ArtifactInv PROVE OutputsAreDistinct
<1> SUFFICES ASSUME status = "completed" PROVE OutputsAreDistinct
  BY DEF OutputsAreDistinct
<1> DEFINE outputs == wiring.outputs["p"]
<1>1. wiring \in Wirings /\ (made = <<>> \/ made \in wiring.makes)
  BY DEF ArtifactInv
<1>2. /\ Len(made) \in Nat /\ DOMAIN made = 1..Len(made)
      /\ Len(outputs) \in Nat /\ DOMAIN outputs = 1..Len(outputs)
  BY <1>1, WiringIs
<1>3. Missing(outputs, made) = {} /\ DOMAIN made \in SUBSET Nat
  BY <1>2 DEF ArtifactInv, Required
<1> HIDE DEF outputs
<1>4. StandFor(made, outputs)
  BY <1>2, <1>3, NoneMissing
<1> QED BY <1>4 DEF OutputsAreDistinct, StandFor, Needed, outputs

\* For any templates, outputs, artifacts, number of attempts and order of deaths and
\* damage: an attempt that completed has an artifact of its own, and of its kind, for each
\* output that is required (graphExecutor.ts:1926); and what the next node is given is all
\* that the attempt returned, in its order (hydrateNodeArtifacts(), graphExecutor.ts:2171).
THEOREM ArtifactsAreComplete ==
  ASSUME WiringsAssumption
  PROVE  ArtifactInit /\ [][ArtifactNext]_artifactVars => [](OutputsAreDistinct /\ NothingIsLost)
<1>1. ArtifactInit => ArtifactInv
  BY ArtifactsStart
<1>2. ArtifactInv /\ [ArtifactNext]_artifactVars => ArtifactInv'
  <2> SUFFICES ASSUME ArtifactInv, [ArtifactNext]_artifactVars PROVE ArtifactInv'
    OBVIOUS
  <2>1. CASE Finish
    BY <2>1, FinishKeeps
  <2>2. CASE WriteFile
    BY <2>2, WriteFileKeeps
  <2>3. CASE Record
    BY <2>3, RecordKeeps
  <2>4. CASE RecordFails
    BY <2>4, RecordFailsKeeps
  <2>5. CASE Complete
    BY <2>5, CompleteKeeps
  <2>6. CASE Retry
    BY <2>6, RetryKeeps
  <2>7. CASE Crash
    BY <2>7, CrashKeeps
  <2>8. CASE Damage
    BY <2>8, DamageKeeps
  <2>9. CASE Hydrate
    BY <2>9, HydrateKeeps
  <2>10. CASE HydrateFails \/ StartNext \/ UNCHANGED artifactVars
    BY <2>10 DEF ArtifactInv, HydrateFails, StartNext, artifactVars
  <2> QED BY <2>1, <2>2, <2>3, <2>4, <2>5, <2>6, <2>7, <2>8, <2>9, <2>10 DEF ArtifactNext
<1>3. ArtifactInv => OutputsAreDistinct /\ NothingIsLost
  BY OutputsDiffer DEF ArtifactInv, NothingIsLost
<1> QED BY <1>1, <1>2, <1>3, PTL
=============================================================================
