------------------------- MODULE SessionsAndTasks_proofs -------------------------
(***************************************************************************)
(* Those who work for a graph and for `forge run`.                         *)
(*                                                                         *)
(* For any set of instances: execute() keeps the contract of a leaf and    *)
(* leaves nothing behind.  What is assumed of the instances excludes the   *)
(* two cases in which the code does neither; see the README.               *)
(*                                                                         *)
(* For every order, file and platform: a command's result is always that   *)
(* of one that is over; what is recorded as completed is proven; and the   *)
(* rows say what the caller is told.  Each has an invariant of its own.    *)
(***************************************************************************)
EXTENDS AgentSession, DirectTask, TLAPS

-----------------------------------------------------------------------------
(* Sessions.                                                               *)

Replies == {"completed", "blocked", "prose", "malformed"}

\* The instances are what the comment at Instances says.  A process that outlives its
\* first signal is not aborted, and the objective of a generic CLI holds no report of success.
InstancesAreKnown ==
  \A i \in Instances :
    /\ i.node \in {"agent", "verification", "user_gate"}
    /\ i.runtime \in {"hosted", "generic", "native"}
    /\ i.writable \in BOOLEAN /\ i.aborts \in BOOLEAN /\ i.lingers \in BOOLEAN
    /\ i.replies \subseteq Replies
    /\ i.objective \in {"blocked", "prose"}
    /\ ~(i.aborts /\ i.lingers)

Early == {"called", "starting", "verifying", "gate"}
Late  == {"exchanging", "disposing", "disposed", "capturing"}

TypeOK ==
  /\ inst \in Instances
  /\ pc \in Early \cup Late \cup {"returned"}
  /\ attempt \in {1, 2}
  /\ aborted \in BOOLEAN /\ killing \in BOOLEAN
  /\ child \in {"none", "alive", "gone"}
  /\ unread \in {"none", "silent"} \cup Replies
  /\ writes \in Nat
  /\ result \in {"none", "completed", "waiting", "cancelled", "failed", "throws"}

\* Who is where: the nodes that are no agents have no session.
NodesGoTheirWay ==
  /\ pc = "verifying" => inst.node = "verification"
  /\ pc = "gate" => inst.node = "user_gate"
  /\ pc \in Late \cup {"starting"} => inst.node = "agent"
  /\ pc = "returned" <=> result # "none"
  /\ inst.node = "verification" /\ pc # "returned" => claims = {}

\* A process lives only while the session does, and one that is being killed only while
\* dispose() waits for it.
ProcessesAreHeld ==
  /\ child = "alive" => pc \in {"exchanging", "disposing"}
  /\ child = "alive" /\ killing => pc = "disposing"
  /\ aborted => inst.aborts

\* Nothing was written before the session, or is after it; see NothingIsLeftBehind.
WritesAreCaptured ==
  /\ pc \in Early => writes = 0 /\ captured = 0
  /\ pc = "returned" /\ inst.writable /\ result = "completed" => captured = writes

\* What was heard was said.
ClaimsAreHeard ==
  /\ unread \in Replies => unread \in claims
  /\ outcome = "completed" => "completed" \in claims
  /\ pc = "capturing" => outcome = "completed" /\ inst.writable

LeafInv == TypeOK /\ NodesGoTheirWay /\ ProcessesAreHeld /\ WritesAreCaptured /\ ClaimsAreHeard

LEMMA LeafInitially == Init => LeafInv
<1> SUFFICES ASSUME Init PROVE LeafInv
  OBVIOUS
<1>1. TypeOK
  BY DEF Init, TypeOK, Early
<1>2. NodesGoTheirWay /\ ProcessesAreHeld
  BY DEF Init, NodesGoTheirWay, ProcessesAreHeld, Late
<1>3. WritesAreCaptured /\ ClaimsAreHeard
  BY DEF Init, WritesAreCaptured, ClaimsAreHeard, Replies
<1> QED BY <1>1, <1>2, <1>3 DEF LeafInv

\* What follows a turn: a second one, or the end of the session.
AfterTurn(reply) ==
  /\ UNCHANGED <<inst, aborted, captured, result>>
  /\ pc' \in {"exchanging", "disposing", "disposed"}
  /\ attempt' \in {1, 2} /\ killing' \in BOOLEAN /\ child' \in {child, "gone"}
  /\ child' = "alive" => pc' \in {"exchanging", "disposing"}
  /\ child' = "alive" /\ killing' => pc' = "disposing"
  /\ outcome' = outcome \/ outcome' = "failed" \/ outcome' = "blocked" \/ outcome' = reply

LEMMA FinishEnds ==
  ASSUME TypeOK, ProcessesAreHeld, pc = "exchanging", NEW o, Finish(o)
  PROVE  AfterTurn(o)
BY DEF TypeOK, ProcessesAreHeld, Finish, Signal, AfterTurn

LEMMA AfterIsTurn ==
  ASSUME TypeOK, ProcessesAreHeld, pc = "exchanging",
         NEW reply \in Replies \cup {"failed", "silent"}, After(reply)
  PROVE  AfterTurn(reply)
<1>1. CASE reply \in {"completed", "blocked", "failed"}
  <2>1. Finish(reply)
    BY <1>1 DEF After
  <2> QED BY <2>1, FinishEnds
<1>2. CASE reply \in {"prose", "malformed", "silent"} /\ attempt = 1
  <2>1. SendAgain
    BY <1>2 DEF After
  <2>2. child' = child /\ killing' = killing /\ pc' = "exchanging" /\ attempt' = 2
    BY <2>1 DEF SendAgain
  <2> QED BY <2>1, <2>2 DEF SendAgain, AfterTurn, TypeOK, ProcessesAreHeld
<1>3. CASE reply = "prose" /\ attempt = 2
  <2>1. Finish("blocked")
    BY <1>3 DEF After
  <2>2. AfterTurn("blocked")
    BY <2>1, FinishEnds
  <2> QED BY <2>2 DEF AfterTurn
<1>4. CASE reply \in {"malformed", "silent"} /\ attempt = 2
  <2>1. Finish("failed")
    <3>1. reply \notin {"completed", "blocked", "failed", "prose"} /\ attempt # 1
      BY <1>4
    <3> QED BY <1>4, <3>1 DEF After
  <2>2. AfterTurn("failed")
    BY <2>1, FinishEnds
  <2> QED BY <2>2 DEF AfterTurn
<1> QED BY <1>1, <1>2, <1>3, <1>4 DEF TypeOK, Replies

\* A turn keeps the invariant if nobody claimed less, and what it was answered with was
\* claimed.
LEMMA TurnKeeps ==
  ASSUME LeafInv, pc = "exchanging",
         NEW reply \in Replies \cup {"failed", "silent"}, After(reply),
         UNCHANGED writes, claims \subseteq claims',
         unread' = unread \/ unread' = "none",
         reply = "completed" => "completed" \in claims'
  PROVE  LeafInv'
<1> USE DEF LeafInv
<1>1. AfterTurn(reply)
  BY AfterIsTurn
<1>2. inst.node = "agent" /\ result = "none"
  BY DEF NodesGoTheirWay, Late
<1>3. TypeOK'
  BY <1>1 DEF AfterTurn, TypeOK, Late
<1>4. NodesGoTheirWay'
  BY <1>1, <1>2 DEF AfterTurn, NodesGoTheirWay
<1>5. ProcessesAreHeld' /\ WritesAreCaptured'
  BY <1>1 DEF AfterTurn, ProcessesAreHeld, WritesAreCaptured, Early
<1>6. ClaimsAreHeard'
  BY <1>1 DEF AfterTurn, ClaimsAreHeard, Replies
<1> QED BY <1>3, <1>4, <1>5, <1>6

LEMMA LeafStep ==
  ASSUME InstancesAreKnown, LeafInv, [Next]_vars PROVE LeafInv'
<1> USE DEF LeafInv
<1>a. /\ inst \in Instances /\ inst.node \in {"agent", "verification", "user_gate"}
      /\ inst.replies \subseteq Replies /\ inst.objective \in {"blocked", "prose"}
      /\ inst.aborts => ~inst.lingers
  BY DEF InstancesAreKnown, TypeOK
\* A step that changes nothing the invariant speaks of.
<1>b. ASSUME UNCHANGED <<inst, pc, attempt, aborted, killing, unread, outcome, claims, captured,
                         result, writes>>,
             child' = child \/ (child = "alive" /\ child' = "gone")
      PROVE  LeafInv'
  BY <1>b DEF TypeOK, NodesGoTheirWay, ProcessesAreHeld, WritesAreCaptured, ClaimsAreHeard
\* One of the answers before the session.
<1>c. ASSUME pc \in Early, pc' = "returned",
             result' \in {"completed", "waiting", "cancelled", "failed", "throws"},
             UNCHANGED <<inst, aborted, session, child, writes, outcome, captured>>,
             claims \subseteq claims'
      PROVE  LeafInv'
  <2>1. TypeOK' /\ NodesGoTheirWay'
    BY <1>c DEF session, TypeOK, NodesGoTheirWay, Early, Late
  <2>2. ProcessesAreHeld' /\ WritesAreCaptured'
    BY <1>c DEF session, ProcessesAreHeld, WritesAreCaptured, Early
  <2>3. ClaimsAreHeard'
    BY <1>c DEF session, ClaimsAreHeard
  <2> QED BY <2>1, <2>2, <2>3
<1>1. CASE Refuse \/ CalledOff \/ StartThrows
  BY <1>1, <1>c DEF Refuse, CalledOff, StartThrows, Return, agent, Early
<1>2. CASE Begin
  <2>1. /\ pc' \in {"starting", "verifying", "gate"}
        /\ pc' = "starting" => inst.node = "agent"
        /\ pc' = "verifying" => inst.node = "verification"
        /\ pc' = "gate" => inst.node = "user_gate"
        /\ UNCHANGED <<inst, aborted, session, agent, outcome, captured, result>>
        /\ pc = "called"
    BY <1>2, <1>a DEF Begin
  <2>2. TypeOK' /\ NodesGoTheirWay'
    BY <2>1 DEF session, agent, TypeOK, NodesGoTheirWay, Early, Late
  <2>3. ProcessesAreHeld' /\ WritesAreCaptured' /\ ClaimsAreHeard'
    BY <2>1 DEF session, agent, ProcessesAreHeld, WritesAreCaptured, ClaimsAreHeard, Early
  <2> QED BY <2>2, <2>3
<1>3. CASE Started
  <2>1. /\ pc = "starting" /\ pc' = "exchanging"
        /\ killing' \in BOOLEAN /\ (killing' => aborted)
        /\ child' \in {"none", "gone", "alive"} /\ (aborted => child' # "alive")
        /\ UNCHANGED <<inst, aborted, attempt, unread, outcome, claims, writes, captured, result>>
    BY <1>3, <1>a DEF Started, ProcessesAreHeld
  <2>2. TypeOK' /\ NodesGoTheirWay'
    BY <2>1 DEF TypeOK, NodesGoTheirWay, Early, Late
  <2>3. ProcessesAreHeld' /\ WritesAreCaptured' /\ ClaimsAreHeard'
    BY <2>1 DEF ProcessesAreHeld, WritesAreCaptured, ClaimsAreHeard, Early
  <2> QED BY <2>2, <2>3
<1>4. CASE Abort
  <2>1. /\ inst.aborts /\ aborted' = TRUE
        /\ \/ UNCHANGED <<child, killing>>
           \/ killing' = TRUE /\ child' = "gone"
        /\ UNCHANGED <<inst, pc, attempt, unread, outcome, claims, writes, captured, result>>
    BY <1>4, <1>a DEF Abort, Signal
  <2>2. TypeOK'
    BY <2>1 DEF TypeOK
  <2>b. NodesGoTheirWay'
    BY <2>1 DEF NodesGoTheirWay
  <2>3. ProcessesAreHeld'
    BY <2>1 DEF ProcessesAreHeld
  <2>4. WritesAreCaptured' /\ ClaimsAreHeard'
    BY <2>1 DEF WritesAreCaptured, ClaimsAreHeard
  <2> QED BY <2>2, <2>b, <2>3, <2>4
<1>5. CASE CancelDone \/ TypePrompt \/ ReadNothing \/ Watch \/ Enter \/ ChildExits
  BY <1>5, <1>b DEF CancelDone, TypePrompt, ReadNothing, Watch, Enter, ChildExits, session, agent
<1>6. CASE SendThrows
  <2>1. pc = "exchanging" /\ After("failed")
    BY <1>6 DEF SendThrows, Sending, After
  <2> QED BY <1>6, <2>1, TurnKeeps DEF SendThrows
<1>7. CASE NoPrompt \/ TurnFails
  <2>1. pc = "exchanging" /\ After("failed") /\ UNCHANGED <<claims, writes, unread>>
    BY <1>7 DEF NoPrompt, TurnFails, InTurn, Listening, Hosted, Sending
  <2> QED BY <2>1, TurnKeeps
<1>8. CASE ReadLog \/ Notice
  <2>1. /\ pc = "exchanging" /\ unread # "none" /\ After(unread) /\ unread' = "none"
        /\ UNCHANGED <<claims, writes>>
    BY <1>8 DEF ReadLog, Notice, Hosted, Sending, Reply
  <2>2. unread \in Replies \cup {"failed", "silent"}
    BY <2>1 DEF TypeOK
  <2>3. unread = "completed" => "completed" \in claims'
    BY <2>1 DEF ClaimsAreHeard, Replies
  <2> QED BY <2>1, <2>2, <2>3, TurnKeeps
<1>9. CASE GenericTurn
  <2>1. pc = "exchanging" /\ After(inst.objective) /\ UNCHANGED <<claims, writes, unread>>
    BY <1>9 DEF GenericTurn, Sending
  <2>2. inst.objective \in Replies /\ inst.objective # "completed"
    BY <1>a DEF Replies
  <2> QED BY <2>1, <2>2, TurnKeeps
<1>10. CASE LoopEnds
  <2>1. PICK reply \in {"silent", "failed"} \cup inst.replies :
          After(reply) /\ claims' = claims \cup {reply}
    BY <1>10 DEF LoopEnds
  <2>2. pc = "exchanging" /\ UNCHANGED <<writes, unread>>
    BY <1>10 DEF LoopEnds, Sending
  <2>3. reply \in Replies \cup {"failed", "silent"}
    BY <1>a
  <2> QED BY <2>1, <2>2, <2>3, TurnKeeps
<1>11. CASE ToolWrites \/ AgentWrites
  <2>1. /\ pc \in {"exchanging", "disposing"} /\ writes' = writes + 1
        /\ UNCHANGED <<inst, pc, attempt, aborted, killing, child, unread, outcome, claims,
                       captured, result>>
    BY <1>11 DEF ToolWrites, AgentWrites, Sending, Busy, ProcessesAreHeld, session
  <2> QED BY <2>1 DEF TypeOK, NodesGoTheirWay, ProcessesAreHeld, WritesAreCaptured,
                      ClaimsAreHeard, Early
<1>12. CASE AgentStops
  <2>1. PICK reply \in inst.replies : Log(reply) /\ claims' = claims \cup {reply}
    BY <1>12 DEF AgentStops
  <2>2. /\ unread' \in {unread, reply} /\ pc \in {"exchanging", "disposing"}
        /\ UNCHANGED <<inst, pc, attempt, aborted, killing, child, writes, outcome,
                       captured, result>>
    BY <1>12, <2>1 DEF AgentStops, Log, Busy, ProcessesAreHeld
  <2>3. inst.node = "agent" /\ reply \in Replies
    BY <1>a, <2>2 DEF NodesGoTheirWay, Late
  <2>4. TypeOK' /\ NodesGoTheirWay' /\ ProcessesAreHeld' /\ WritesAreCaptured'
    BY <2>2, <2>3 DEF TypeOK, NodesGoTheirWay, ProcessesAreHeld, WritesAreCaptured
  <2>5. ClaimsAreHeard'
    BY <2>1, <2>2 DEF ClaimsAreHeard
  <2> QED BY <2>4, <2>5
<1>13. CASE AgentAsks
  <2>1. /\ unread' \in {unread, "silent"}
        /\ UNCHANGED <<inst, pc, attempt, aborted, killing, child, claims, writes, outcome,
                       captured, result>>
    BY <1>13 DEF AgentAsks, Log, agent
  <2> QED BY <2>1 DEF TypeOK, NodesGoTheirWay, ProcessesAreHeld, WritesAreCaptured,
                      ClaimsAreHeard, Replies
<1>14. CASE Disposed
  <2>1. /\ pc = "disposing" /\ child = "gone" /\ pc' = "disposed"
        /\ UNCHANGED <<inst, attempt, aborted, killing, child, unread, claims, writes, outcome,
                       captured, result>>
    BY <1>14 DEF Disposed, session, agent
  <2> QED BY <2>1 DEF TypeOK, NodesGoTheirWay, ProcessesAreHeld, WritesAreCaptured,
                      ClaimsAreHeard, Early, Late
<1>15. CASE Conclude
  <2>1. /\ pc = "disposed" /\ child # "alive"
        /\ UNCHANGED <<inst, attempt, aborted, killing, child, unread, claims, writes, outcome,
                       captured>>
    BY <1>15 DEF Conclude, ProcessesAreHeld, session, agent
  <2>2. \/ pc' = "returned" /\ result' \in {"failed", "cancelled", "waiting"}
        \/ pc' = "returned" /\ result' = "completed" /\ ~inst.writable
        \/ pc' = "capturing" /\ result' = result /\ outcome = "completed" /\ inst.writable
    BY <1>15 DEF Conclude, Return
  <2> QED BY <2>1, <2>2 DEF TypeOK, NodesGoTheirWay, ProcessesAreHeld, WritesAreCaptured,
                      ClaimsAreHeard, Early, Late
<1>16. CASE Capture
  <2>1. /\ pc = "capturing" /\ pc' = "returned" /\ result' \in {"failed", "completed"}
        /\ captured' = writes
        /\ UNCHANGED <<inst, attempt, aborted, killing, child, unread, claims, writes, outcome>>
    BY <1>16 DEF Capture, Return, session, agent
  <2> QED BY <2>1 DEF TypeOK, NodesGoTheirWay, ProcessesAreHeld, WritesAreCaptured,
                      ClaimsAreHeard, Early, Late
<1>17. CASE Verify
  <2>1. claims = {}
    BY <1>17 DEF Verify, NodesGoTheirWay
  <2> QED BY <1>17, <1>c, <2>1 DEF Verify, Return, Early
<1>18. CASE Decide
  <2>1. /\ inst.node = "user_gate" /\ claims = {} /\ pc # "returned"
        /\ UNCHANGED <<inst, pc, attempt, aborted, killing, child, unread, writes, outcome,
                       captured, result>>
    BY <1>18 DEF Decide, session
  <2> QED BY <2>1 DEF TypeOK, NodesGoTheirWay, ProcessesAreHeld, WritesAreCaptured,
                      ClaimsAreHeard
<1>19. CASE Gate
  BY <1>19, <1>c DEF Gate, Return, agent, Early
<1>20. CASE UNCHANGED vars
  BY <1>20, <1>b DEF vars, session, agent
<1> QED BY <1>1, <1>2, <1>3, <1>4, <1>5, <1>6, <1>7, <1>8, <1>9, <1>10, <1>11, <1>12, <1>13,
           <1>14, <1>15, <1>16, <1>17, <1>18, <1>19, <1>20 DEF Next

-----------------------------------------------------------------------------
(* Every step is one of the contract.                                      *)

\* What the session does before the answer is work.
LEMMA StepIsWork ==
  ASSUME result = "none", result' = "none", inst' = inst,
         writes' \in {writes, writes + 1}, claims \subseteq claims', aborted => aborted'
  PROVE  Contract!Next
BY DEF Contract!Next, Contract!Work, ReadOnly

LEMMA StepIsAnswer ==
  ASSUME result = "none", NEW r \in Contract!Answers, result' = r,
         UNCHANGED <<inst, aborted, writes>>, claims \subseteq claims',
         r = "completed" => "completed" \in claims' /\ (ReadOnly => writes = 0 /\ ~aborted),
         r = "waiting" => (ReadOnly => writes = 0) /\ ~aborted,
         r = "cancelled" => (ReadOnly => writes = 0) /\ (aborted \/ "rejected" \in claims)
  PROVE  Contract!Next
BY DEF Contract!Next, Contract!Answer, Contract!Clean, ReadOnly

\* A turn of any runtime is work.
LEMMA TurnIsWork ==
  ASSUME LeafInv, pc = "exchanging", NEW reply \in Replies \cup {"failed", "silent"},
         After(reply), UNCHANGED writes, claims \subseteq claims'
  PROVE  Contract!Next
<1>1. AfterTurn(reply)
  BY AfterIsTurn DEF LeafInv
<1>2. result = "none" /\ aborted' = aborted /\ inst' = inst /\ result' = "none"
  BY <1>1 DEF AfterTurn, LeafInv, NodesGoTheirWay
<1> QED BY <1>2, StepIsWork

LEMMA StepKeepsContract ==
  ASSUME InstancesAreKnown, LeafInv, [Next]_vars
  PROVE  Contract!Next \/ UNCHANGED <<ReadOnly, aborted, claims, writes, result>>
<1> DEFINE Stutter == UNCHANGED <<ReadOnly, aborted, claims, writes, result>>
<1> USE DEF LeafInv
<1>a. /\ inst.replies \subseteq Replies /\ inst.objective \in {"blocked", "prose"}
      /\ pc # "returned" => result = "none"
  BY DEF InstancesAreKnown, TypeOK, NodesGoTheirWay
<1>1. CASE Refuse \/ StartThrows
  BY <1>1, <1>a, StepIsAnswer
     DEF Refuse, StartThrows, Return, agent, Contract!Answers
<1>2. CASE CalledOff
  <2>1. writes = 0
    BY <1>2 DEF CalledOff, WritesAreCaptured, Early
  <2> QED BY <1>2, <1>a, <2>1, StepIsAnswer DEF CalledOff, Return, agent, Contract!Answers
<1>3. CASE Begin \/ Started \/ CancelDone \/ TypePrompt \/ ReadNothing \/ Watch \/ Enter
           \/ AgentAsks \/ ChildExits \/ Disposed
  <2>1. Stutter
    BY <1>3 DEF Begin, Started, CancelDone, TypePrompt, ReadNothing, Watch, Enter, AgentAsks,
                ChildExits, Disposed, session, agent, ReadOnly
  <2> QED BY <2>1
<1>4. CASE Abort
  BY <1>4, <1>a, StepIsWork DEF Abort
<1>5. CASE SendThrows \/ NoPrompt \/ TurnFails
  <2>1. pc = "exchanging" /\ After("failed") /\ UNCHANGED <<claims, writes>>
    BY <1>5 DEF SendThrows, NoPrompt, TurnFails, InTurn, Listening, Hosted, Sending, After
  <2> QED BY <2>1, TurnIsWork
<1>6. CASE ReadLog \/ Notice
  <2>1. pc = "exchanging" /\ unread # "none" /\ After(unread) /\ UNCHANGED <<claims, writes>>
    BY <1>6 DEF ReadLog, Notice, Hosted, Sending, Reply
  <2>2. unread \in Replies \cup {"failed", "silent"}
    BY <2>1 DEF TypeOK
  <2> QED BY <2>1, <2>2, TurnIsWork
<1>7. CASE GenericTurn
  <2>1. pc = "exchanging" /\ After(inst.objective) /\ UNCHANGED <<claims, writes>>
    BY <1>7 DEF GenericTurn, Sending
  <2> QED BY <1>a, <2>1, TurnIsWork DEF Replies
<1>8. CASE LoopEnds
  <2>1. PICK reply \in {"silent", "failed"} \cup inst.replies :
          After(reply) /\ claims' = claims \cup {reply}
    BY <1>8 DEF LoopEnds
  <2>2. pc = "exchanging" /\ UNCHANGED writes
    BY <1>8 DEF LoopEnds, Sending
  <2> QED BY <1>a, <2>1, <2>2, TurnIsWork
<1>9. CASE ToolWrites \/ AgentWrites
  <2>1. /\ pc \in {"exchanging", "disposing"} /\ writes' = writes + 1
        /\ UNCHANGED <<inst, aborted, claims, result>>
    BY <1>9 DEF ToolWrites, AgentWrites, Sending, Busy, ProcessesAreHeld
  <2> QED BY <1>a, <2>1, StepIsWork
<1>10. CASE AgentStops
  <2>1. /\ pc \in {"exchanging", "disposing"} /\ claims \subseteq claims'
        /\ UNCHANGED <<inst, aborted, writes, result>>
    BY <1>10 DEF AgentStops, Busy, ProcessesAreHeld
  <2> QED BY <1>a, <2>1, StepIsWork
<1>11. CASE Conclude
  <2>1. pc = "disposed" /\ UNCHANGED <<inst, aborted, claims, writes, outcome>>
    BY <1>11 DEF Conclude, agent
  <2>2. CASE result' = "failed"
    BY <1>a, <2>1, <2>2, StepIsAnswer DEF Contract!Answers
  <2>3. CASE result' = result
    BY <2>1, <2>3 DEF ReadOnly
  <2>4. ASSUME inst.writable \/ ~Audited,
               \/ aborted /\ result' = "cancelled"
               \/ ~aborted /\ result' = "waiting"
               \/ ~aborted /\ result' = "completed" /\ outcome = "completed"
        PROVE  Contract!Next
    <3>1. ReadOnly => writes = 0
      BY <2>4 DEF ReadOnly, Audited, TypeOK
    <3>2. result' = "completed" => "completed" \in claims'
      BY <2>1, <2>4 DEF ClaimsAreHeard
    <3> QED BY <1>a, <2>1, <2>4, <3>1, <3>2, StepIsAnswer DEF Contract!Answers
  <2> QED BY <1>11, <2>2, <2>3, <2>4 DEF Conclude, Return
<1>12. CASE Capture
  <2>1. /\ pc = "capturing" /\ result' \in {"failed", "completed"}
        /\ UNCHANGED <<inst, aborted, claims, writes>>
    BY <1>12 DEF Capture, Return, agent
  <2>2. "completed" \in claims' /\ ~ReadOnly
    BY <2>1 DEF ClaimsAreHeard, ReadOnly
  <2> QED BY <1>a, <2>1, <2>2, StepIsAnswer DEF Contract!Answers
<1>13. CASE Verify
  <2>1. pc = "verifying" /\ claims = {} /\ ~ReadOnly /\ UNCHANGED <<inst, aborted, writes>>
    BY <1>13 DEF Verify, NodesGoTheirWay, ReadOnly
  <2>2. result' = "failed" \/ (result' = "completed" /\ "completed" \in claims')
    BY <1>13 DEF Verify, Return
  <2> QED BY <1>a, <2>1, <2>2, StepIsAnswer DEF Contract!Answers
<1>14. CASE Decide
  <2>1. /\ pc # "returned" /\ claims = {} /\ UNCHANGED <<inst, aborted, writes, result>>
    BY <1>14 DEF Decide
  <2> QED BY <1>a, <2>1, StepIsWork
<1>15. CASE Gate
  <2>1. pc = "gate" /\ ~ReadOnly /\ UNCHANGED <<inst, aborted, writes, claims>>
    BY <1>15 DEF Gate, NodesGoTheirWay, ReadOnly, agent
  <2>2. \/ aborted /\ result' = "cancelled"
        \/ ~aborted /\ "completed" \in claims /\ result' = "completed"
        \/ ~aborted /\ "rejected" \in claims /\ result' = "cancelled"
        \/ ~aborted /\ result' = "waiting"
    BY <1>15 DEF Gate, Return
  <2> QED BY <1>a, <2>1, <2>2, StepIsAnswer DEF Contract!Answers
<1>16. CASE UNCHANGED vars
  BY <1>16 DEF vars, session, agent, ReadOnly
<1> QED BY <1>1, <1>2, <1>3, <1>4, <1>5, <1>6, <1>7, <1>8, <1>9, <1>10, <1>11, <1>12, <1>13,
           <1>14, <1>15, <1>16 DEF Next

\* Over three runtimes, two turns and an abort at any time, for any node: nothing completes
\* that was not claimed, a read-only node that wrote is never passed off as waiting,
\* cancelled or completed, and nobody writes, claims or answers after the answer.
THEOREM LeavesKeepTheContract ==
  ASSUME InstancesAreKnown PROVE Spec => ImplementsContract
<1>1. Init => LeafInv
  BY LeafInitially
<1>2. LeafInv /\ [Next]_vars => LeafInv'
  BY LeafStep
<1>3. Init => Contract!Init
  BY DEF Init, Contract!Init, ReadOnly, InstancesAreKnown
<1>4. LeafInv /\ [Next]_vars =>
        [Contract!Next]_<<ReadOnly, aborted, claims, writes, result>>
  BY StepKeepsContract
<1> QED BY <1>1, <1>2, <1>3, <1>4, PTL DEF Spec, ImplementsContract, Contract!Spec

\* When execute() has answered, no process of its session lives, and the change set of a
\* writable node that completed holds all that was written.
THEOREM NothingStaysBehind ==
  ASSUME InstancesAreKnown PROVE Spec => []NothingIsLeftBehind
<1>1. Init => LeafInv
  BY LeafInitially
<1>2. LeafInv /\ [Next]_vars => LeafInv'
  BY LeafStep
<1>3. LeafInv => NothingIsLeftBehind
  BY DEF LeafInv, NothingIsLeftBehind, ProcessesAreHeld, WritesAreCaptured
<1> QED BY <1>1, <1>2, <1>3, PTL DEF Spec


-----------------------------------------------------------------------------
(* Commands.  Only their record matters: what DirectTask does to it is to  *)
(* start one, to abort it and to put it away.                              *)

CommandType ==
  [platform : {"windows", "posix"}, shell : {"none", "missing", "alive", "dead", "gone"},
   exit : {"none", "zero", "nonzero", "signal", "killed"},
   helper : {"none", "holding", "detached"}, overflow : BOOLEAN, timer : BOOLEAN,
   ending : {"none", "timeout", "cancelled"},
   outcome : {"none", "timeout", "cancelled", "completed", "spawn-failed"}]

\* Who was killed on Windows for an ending that Forge imposed left nothing behind.
LeftNothing(c) ==
  c.platform = "windows" /\ c.ending # "none" /\ c.exit = "killed" /\ ~c.overflow
    => c.helper = "none"

\* What is inductive: a shell that is alive has not exited, a result needs one that is
\* not there or seen to be gone, and what CommandIsOver says of the record at any time.
Sound(c) ==
  /\ c \in CommandType
  /\ c.shell \in {"none", "missing", "alive"} => c.exit = "none"
  /\ c.outcome # "none" => c.shell \in {"missing", "gone"}
  /\ c.outcome = "completed" => c.exit \in {"zero", "nonzero"} /\ c.ending = "none"
  /\ c.exit = "killed" => c.ending # "none" \/ c.overflow
  /\ LeftNothing(c)

CommandInv == Sound(cmd)

\* Nothing is sound: no command runs.
LEMMA IdleIsSound == Sound(Idle)
BY DEF Sound, Idle, CommandType, LeftNothing

\* Killing for an ending keeps a command sound that has no result yet (killTree()).
LEMMA ImposedIsSound ==
  ASSUME NEW c, Sound(c), c.outcome = "none",
         NEW ending \in {"timeout", "cancelled"}
  PROVE  Sound(Imposed(c, ending))
<1>1. CASE c.shell = "alive" /\ c.platform = "windows"
  BY <1>1 DEF Sound, CommandType, LeftNothing, Imposed, KillTree
<1>2. CASE c.shell = "alive" /\ c.platform = "posix"
  BY <1>2 DEF Sound, CommandType, LeftNothing, Imposed, KillTree, KillShellOnly
<1>3. CASE c.shell # "alive"
  BY <1>3 DEF Sound, CommandType, LeftNothing, Imposed, KillTree, KillShellOnly
<1> QED BY <1>1, <1>2, <1>3 DEF Sound, CommandType

\* A command starts sound, whether or not it was aborted before.
LEMMA RunIsSound ==
  ASSUME Platforms \subseteq {"windows", "posix"}, NEW before \in BOOLEAN, Run(before)
  PROVE  Sound(cmd')
<1>1. PICK p \in Platforms, shell \in {"alive", "missing"} :
        cmd' = LET c == [Idle EXCEPT !.platform = p, !.shell = shell]
               IN  IF before THEN Imposed(c, "cancelled") ELSE c
  BY DEF Run
<1> DEFINE c == [Idle EXCEPT !.platform = p, !.shell = shell]
<1>2. Sound(c) /\ c.outcome = "none"
  BY DEF Sound, Idle, CommandType, LeftNothing
<1>3. Sound(Imposed(c, "cancelled"))
  BY <1>2, ImposedIsSound
<1> QED BY <1>1, <1>2, <1>3

\* A step of the processes, the timer or the callback keeps it sound.
LEMMA CommandStepIsSound ==
  ASSUME CommandInv, CommandStep PROVE CommandInv'
<1> USE DEF CommandInv
<1>1. CASE Fork
  BY <1>1 DEF Fork, Sound, CommandType, LeftNothing
<1>2. CASE HelperExits
  BY <1>2 DEF HelperExits, Sound, CommandType, LeftNothing
<1>3. CASE ShellExits
  BY <1>3 DEF ShellExits, Sound, CommandType, LeftNothing
<1>4. CASE Overflow
  BY <1>4 DEF Overflow, Running, Settled, KillShellOnly, Sound, CommandType, LeftNothing
<1>5. CASE TimerFires
  <2> DEFINE c == [cmd EXCEPT !.timer = FALSE]
  <2>1. Sound(c) /\ c.outcome = "none"
    BY <1>5 DEF TimerFires, Running, Settled, Sound, CommandType, LeftNothing
  <2>2. Sound(Imposed(c, "timeout"))
    BY <2>1, ImposedIsSound
  <2> QED BY <1>5, <2>2 DEF TimerFires
<1>6. CASE ExitEvent
  BY <1>6 DEF ExitEvent, Settled, Sound, CommandType, LeftNothing
<1>7. CASE Callback
  BY <1>7 DEF Callback, Running, Settled, PipesClosed, Sound, CommandType, LeftNothing
<1> QED BY <1>1, <1>2, <1>3, <1>4, <1>5, <1>6, <1>7 DEF CommandStep

\* The runner is used on the platforms there are, and told is a truth value.
PlatformsAreKnown == Platforms \subseteq {"windows", "posix"}

TaskInv == CommandInv /\ told \in BOOLEAN

LEMMA TaskInitially == TaskInit => TaskInv
BY IdleIsSound DEF TaskInit, TaskInv, CommandInv

LEMMA TaskStep ==
  ASSUME PlatformsAreKnown, TaskInv, [TaskNext]_<<task, cmd>> PROVE TaskInv'
<1> USE DEF TaskInv
<1>1. CASE RunDue
  BY <1>1, RunIsSound DEF RunDue, PlatformsAreKnown, CommandInv, task
<1>2. CASE AbortTask
  <2>1. CASE Running
    <3>1. cmd.outcome = "none" /\ cmd' = Imposed(cmd, "cancelled") /\ told' = TRUE
      BY <1>2, <2>1 DEF AbortTask, AbortArrives, Running, Settled
    <3> QED BY <3>1, ImposedIsSound DEF CommandInv
  <2>2. CASE ~Running
    BY <1>2, <2>2 DEF AbortTask, CommandInv
  <2> QED BY <2>1, <2>2
<1>3. CASE Collect
  BY <1>3, IdleIsSound DEF Collect, CommandInv
<1>4. CASE CommandStep /\ UNCHANGED task
  BY <1>4, CommandStepIsSound DEF task
<1>5. CASE UNCHANGED <<told, cmd>>
  BY <1>5 DEF CommandInv
<1>6. CASE \/ Decline \/ CreateRun \/ Announce \/ CreateStep \/ Start \/ Send \/ EventsEnd
           \/ Dispose \/ Measure \/ VerifyNode \/ Judge
           \/ FinishStep \/ FinishRun \/ Finished \/ FailStep \/ FailRun
           \/ UNCHANGED <<task, cmd>>
  BY <1>6, <1>5 DEF Decline, CreateRun, Announce, CreateStep, Start, Send, EventsEnd,
     Dispose, Measure, VerifyNode, Judge, FinishStep, FinishRun, Finished, FailStep, FailRun,
     task, tables
<1> QED BY <1>1, <1>2, <1>3, <1>4, <1>6 DEF TaskNext

\* The result of runCommand() is that of a command that is over, whatever its shell, its
\* background processes, the timer, a signal given before or meanwhile and too much
\* output do, in every direct task and verification node.
THEOREM ResultsAreOfWhatIsOver ==
  ASSUME PlatformsAreKnown PROVE TaskSpec => []CommandIsOver
<1>1. TaskInv => CommandIsOver
  BY DEF TaskInv, CommandInv, CommandIsOver, Settled, Sound, LeftNothing
<1> QED BY <1>1, TaskInitially, TaskStep, PTL DEF TaskSpec

-----------------------------------------------------------------------------
(* Verdicts.                                                               *)

\* What is asked for is known to verifyStep().
OrdersAreKnown == \A o \in Orders : o.tooling \subseteq Kinds /\ o.caller \in {"task", "node"}

Fields ==
  {"reported", "status", "testsRun", "assumed", "claimed", "reconciled", "changed", "allowed",
   "forbidden", "criteria", "tooling", "artifacts"}

WorkFits(o, w) ==
  /\ DOMAIN w = Fields
  /\ w.tooling = o.tooling /\ w.allowed = o.allowed /\ w.forbidden = o.forbidden
  /\ w.criteria = IF o.caller = "task" THEN Criteria(o) ELSE o.tooling

CommandsPassed(o, w) ==
  \A kind \in o.tooling :
    /\ kind \in DOMAIN w.artifacts
    /\ w.artifacts[kind].outcome = "completed"
    /\ w.artifacts[kind].exit = 0
    /\ w.artifacts[kind].counts # "failures"

ReportHolds(o, w) ==
  /\ w.changed \cap o.forbidden = {}
  /\ o.allowed = {} \/ w.changed \subseteq o.allowed
  /\ w.claimed \subseteq w.changed
  /\ w.status # "blocked" /\ ~w.assumed

Proven(o, w) == CommandsPassed(o, w) /\ (o.caller = "task" => ReportHolds(o, w))

\* A verdict of "pass" means that the commands passed: every one is a criterion of its own
\* (verifyStep(), assessCompletion()), and no assumption was made.
LEMMA PassMeansPassed ==
  ASSUME NEW o, NEW w, o.tooling \subseteq Kinds, WorkFits(o, w), Verdict(w) = "pass"
  PROVE  CommandsPassed(o, w) /\ (o.caller = "task" => ~w.assumed)
<1> DEFINE verdicts == {CriterionVerdict(w, c) : c \in w.criteria}
<1>1. AssessCompletion(w) = "pass"
  BY DEF Verdict
<1>2. "fail" \notin verdicts /\ "unknown" \notin verdicts
  BY <1>1 DEF AssessCompletion, Worst
<1>3. \A c \in w.criteria : CriterionVerdict(w, c) \notin {"fail", "unknown"}
  BY <1>2
<1>4. ASSUME NEW kind \in o.tooling PROVE Passed(w, kind)
  <2>1. kind \in w.criteria /\ kind \in Kinds
    BY DEF WorkFits, Criteria
  <2>2. CriterionVerdict(w, kind) = FromEvidence(w, kind)
    BY <2>1 DEF CriterionVerdict, Kinds
  <2> QED BY <1>3, <2>1, <2>2 DEF FromEvidence
<1>5. ASSUME o.caller = "task" PROVE ~w.assumed
  <2>1. "no-assumptions" \in w.criteria
    BY <1>5 DEF WorkFits, Criteria
  <2>2. CriterionVerdict(w, "no-assumptions") = FromAssumptions(w)
    BY DEF CriterionVerdict, Kinds
  <2> QED BY <1>3, <2>1, <2>2 DEF FromAssumptions
<1> QED BY <1>4, <1>5 DEF CommandsPassed, Passed, Ran, EvidencePassed

\* The exit code 0 is given for proven work only.
LEMMA SuccessIsProven ==
  ASSUME NEW o, NEW w, o.tooling \subseteq Kinds, WorkFits(o, w), ExitCode(w) = 0
  PROVE  Proven(o, w)
<1>1. /\ OutOfScope(w) = {} /\ w.status # "blocked" /\ Verdict(w) = "pass"
      /\ ClaimedButUnchanged(w) = {}
  BY DEF ExitCode
<1>2. \A path \in w.changed : path \notin o.forbidden /\ (o.allowed = {} \/ path \in o.allowed)
  BY <1>1 DEF OutOfScope, IsPathAllowed, WorkFits
<1>3. w.claimed \subseteq w.changed
  BY <1>1 DEF ClaimedButUnchanged
<1>4. w.changed \cap o.forbidden = {} /\ (o.allowed = {} \/ w.changed \subseteq o.allowed)
  BY <1>2
<1> QED BY <1>1, <1>3, <1>4, PassMeansPassed DEF Proven, ReportHolds

Judged ==
  {"judged", "step finished", "run finished", "failing", "failing run", "returned", "thrown"}

\* Who was judged well is proven, and nothing that was judged is touched afterwards.
VerdictInv ==
  /\ order \in Orders
  /\ WorkFits(order, work)
  /\ judged \in 0..2
  /\ judged = 0 => Proven(order, work) /\ phase \in Judged
  /\ DOMAIN rows = {"run", "step"}
  /\ rows.run = "completed" => judged = 0

LEMMA OnlySuccessIsCompleted ==
  ASSUME NEW exitCode \in 0..2, StatusOf(exitCode) = "completed" PROVE exitCode = 0
<1>1. CASE exitCode = 1
  BY <1>1 DEF StatusOf
<1>2. CASE exitCode = 2
  BY <1>2 DEF StatusOf
<1> QED BY <1>1, <1>2

\* The steps up to the verdict judge nothing, and keep work fitting.
LEMMA VerdictInitially == TaskInit => VerdictInv
BY DEF TaskInit, VerdictInv, NoWork, WorkFits, Fields

LEMMA UnjudgedStep ==
  ASSUME VerdictInv, order' = order, judged' = judged, WorkFits(order, work'),
         phase \notin Judged,
         UNCHANGED rows \/ (rows'.run # "completed" /\ DOMAIN rows' = DOMAIN rows)
  PROVE  VerdictInv'
BY DEF VerdictInv

LEMMA VerdictStep ==
  ASSUME OrdersAreKnown, VerdictInv, [TaskNext]_<<task, cmd>> PROVE VerdictInv'
<1> USE DEF At, To, RefuseWrite, Throw, tables, Judged
<1>1. CASE Decline \/ Announce \/ Start \/ EventsEnd \/ Dispose \/ VerifyNode
  BY <1>1, UnjudgedStep DEF Decline, Announce, Start, EventsEnd, Dispose, VerifyNode, VerdictInv
<1>2. CASE CreateRun \/ CreateStep
  BY <1>2, UnjudgedStep DEF CreateRun, CreateStep, VerdictInv
<1>3. CASE Send
  BY <1>3, UnjudgedStep DEF Send, VerdictInv, WorkFits, Fields
<1>4. CASE Measure
  BY <1>4, UnjudgedStep DEF Measure, Synthesized, VerdictInv, WorkFits, Fields
<1>5. CASE Collect
  <2>1. PICK kind \in Due : \E counts \in {"none", "clean", "failures"} :
          work' = [work EXCEPT !.artifacts = (kind :> Artifact(counts)) @@ @]
    BY <1>5 DEF Collect
  <2> QED BY <1>5, <2>1, UnjudgedStep DEF Collect, VerdictInv, WorkFits, Fields
<1>6. CASE Judge
  <2>1. CASE UNCHANGED judged
    BY <1>6, <2>1 DEF Judge, VerdictInv
  <2>2. CASE Is("task") /\ judged' = ExitCode(work) /\ phase' = "judged"
    <3>1. judged' \in 0..2
      BY <2>2 DEF ExitCode
    <3>2. judged' = 0 => Proven(order, work)
      BY <2>2, SuccessIsProven DEF VerdictInv, OrdersAreKnown
    <3> QED BY <1>6, <2>2, <3>1, <3>2 DEF Judge, VerdictInv
  <2>3. CASE /\ ~Is("task") /\ judged' = (IF Verdict(work) = "pass" THEN 0 ELSE 1)
             /\ phase' = "returned"
    <3>1. order.tooling \subseteq Kinds /\ WorkFits(order, work)
      BY DEF VerdictInv, OrdersAreKnown
    <3>2. Verdict(work) = "pass" => CommandsPassed(order, work)
      BY <3>1, PassMeansPassed
    <3>3. judged' = 0 => Proven(order, work)
      BY <2>3, <3>2 DEF Proven, Is
    <3> QED BY <1>6, <2>3, <3>3 DEF Judge, VerdictInv
  <2> QED BY <1>6, <2>1, <2>2, <2>3 DEF Judge
<1>7. CASE FinishStep \/ Finished \/ FailStep
  BY <1>7 DEF FinishStep, Finished, FailStep, VerdictInv
<1>8. CASE FinishRun
  BY <1>8, OnlySuccessIsCompleted DEF FinishRun, VerdictInv
<1>9. CASE FailRun
  BY <1>9 DEF FailRun, VerdictInv
<1>10. CASE RunDue \/ AbortTask \/ (CommandStep /\ UNCHANGED task) \/ UNCHANGED <<task, cmd>>
  BY <1>10 DEF RunDue, AbortTask, task, VerdictInv
<1> QED BY <1>1, <1>2, <1>3, <1>4, <1>5, <1>6, <1>7, <1>8, <1>9, <1>10 DEF TaskNext

\* Whatever the agent did and said, and whatever its commands, the database and the caller
\* did: a run that is recorded as completed, or a node that was verified, has passed every
\* command of the project, has changed nothing outside its scope and has claimed nothing
\* that the repository does not show.
THEOREM CompletionIsProven ==
  ASSUME OrdersAreKnown PROVE TaskSpec => []CompletedIsProven
<1>1. VerdictInv => CompletedIsProven
  BY DEF VerdictInv, CompletedIsProven, Proven, CommandsPassed, ReportHolds, Is
<1> QED BY <1>1, VerdictInitially, VerdictStep, PTL DEF TaskSpec

-----------------------------------------------------------------------------
(* Rows.                                                                   *)

Recorded(ofRun, ofStep) == rows.run = ofRun /\ rows.step = ofStep

WithSession == {"sending", "listening", "disposing", "disposing failed"}
UnderWay    == {"starting", "measuring", "verifying", "judged"} \cup WithSession

\* What the rows of a direct task are, phase by phase; where the database refused a write
\* nothing is known of them.  A node has none.
TaskRows ==
  /\ phase = "called" => Recorded("none", "none")
  /\ phase \in {"created", "announced"} => Recorded("running", "none")
  /\ phase \in UnderWay => Recorded("running", "running")
  /\ phase = "step finished" => Recorded("running", StatusOf(judged))
  /\ phase \in {"run finished", "returned"} => Recorded(StatusOf(judged), StatusOf(judged))
  /\ phase = "returned" => finished
  /\ phase = "failing" /\ ~refused => rows.run = "running" /\ rows.step \in {"none", "running"}
  /\ phase = "failing run" /\ ~refused => rows.run = "running" /\ rows.step \in {"none", "failed"}
  /\ phase = "thrown" /\ ~refused =>
       rows.run \in {"none", "failed"} /\ rows.step \in {"none", "failed"}
  /\ phase \in {"called", "created", "announced", "step finished", "run finished", "returned",
                "failing", "failing run", "thrown"} \cup UnderWay

NodeRows == phase \in {"called", "verifying", "returned"} /\ Recorded("none", "none")

RowsInv ==
  /\ order \in Orders
  /\ DOMAIN rows = {"run", "step"}
  /\ judged \in 0..2
  /\ refused \in BOOLEAN /\ open \in BOOLEAN
  /\ open => phase \in WithSession
  /\ Is("task") => TaskRows
  /\ ~Is("task") => NodeRows

LEMMA StatusesAreFinal ==
  ASSUME NEW exitCode \in 0..2 PROVE StatusOf(exitCode) \in {"completed", "failed", "halted"}
<1>1. exitCode = 0 \/ exitCode = 1 \/ exitCode = 2
  OBVIOUS
<1> QED BY <1>1 DEF StatusOf

LEMMA RowsInitially == OrdersAreKnown /\ TaskInit => RowsInv
<1> SUFFICES ASSUME OrdersAreKnown, TaskInit PROVE RowsInv
  OBVIOUS
<1>1. /\ phase = "called" /\ Recorded("none", "none") /\ DOMAIN rows = {"run", "step"}
      /\ judged \in 0..2 /\ refused = FALSE /\ open = FALSE /\ order \in Orders
  BY DEF TaskInit, Recorded
<1>2. TaskRows
  BY <1>1 DEF TaskRows, UnderWay, WithSession
<1>3. NodeRows
  BY <1>1 DEF NodeRows
<1> QED BY <1>1, <1>2, <1>3 DEF RowsInv

LEMMA RowsStep ==
  ASSUME OrdersAreKnown, RowsInv, [TaskNext]_<<task, cmd>> PROVE RowsInv'
<1> USE DEF At, To, Is, RefuseWrite, Throw, tables, RowsInv, TaskRows, NodeRows, Recorded, WithSession,
            UnderWay
<1>1. CASE Decline
  BY <1>1 DEF Decline
<1>2. CASE CreateRun
  BY <1>2 DEF CreateRun
<1>3. CASE Announce
  BY <1>3 DEF Announce
<1>4. CASE CreateStep
  BY <1>4 DEF CreateStep
<1>5. CASE Start
  <2>1. CASE open' = TRUE /\ phase' = "sending"
    BY <1>5, <2>1 DEF Start
  <2>2. CASE phase' = "failing" /\ UNCHANGED open
    BY <1>5, <2>2 DEF Start
  <2> QED BY <1>5, <2>1, <2>2 DEF Start
<1>6. CASE Send \/ EventsEnd
  BY <1>6 DEF Send, EventsEnd
<1>7. CASE Dispose
  BY <1>7 DEF Dispose
<1>8. CASE Measure
  BY <1>8 DEF Measure
<1>9. CASE VerifyNode
  BY <1>9, OrdersAreKnown DEF VerifyNode
<1>10. CASE Judge
  <2>1. judged' \in 0..2
    BY <1>10 DEF Judge, ExitCode
  <2> QED BY <1>10, <2>1 DEF Judge
<1>11. CASE FinishStep
  BY <1>11 DEF FinishStep
<1>12. CASE FinishRun
  BY <1>12 DEF FinishRun
<1>13. CASE Finished
  BY <1>13 DEF Finished
<1>14. CASE FailStep
  BY <1>14 DEF FailStep
<1>15. CASE FailRun
  BY <1>15 DEF FailRun
<1>16. CASE RunDue \/ AbortTask \/ Collect \/ (CommandStep /\ UNCHANGED task) \/ UNCHANGED <<task, cmd>>
  <2>1. UNCHANGED <<order, phase, rows, finished, refused, open, judged>>
    BY <1>16 DEF RunDue, AbortTask, Collect, task
  <2> QED BY <2>1
<1> QED BY <1>1, <1>2, <1>3, <1>4, <1>5, <1>6, <1>7, <1>8, <1>9, <1>10, <1>11, <1>12, <1>13,
           <1>14, <1>15, <1>16 DEF TaskNext

\* When a direct task is over its session is closed, and unless the database refused a
\* write the rows of its run and its step say what its caller is told; at no time, death
\* included, is a run finished whose step is not.
THEOREM RowsSayWhatHappened ==
  ASSUME OrdersAreKnown PROVE TaskSpec => []RowsTellTheOutcome
<1>1. RowsInv => RowsTellTheOutcome
  <2> SUFFICES ASSUME RowsInv PROVE RowsTellTheOutcome
    OBVIOUS
  <2>1. StatusOf(judged) \in {"completed", "failed", "halted"}
    BY StatusesAreFinal DEF RowsInv
  <2>2. CASE Is("task")
    BY <2>1, <2>2 DEF RowsInv, TaskRows, Recorded, WithSession, UnderWay, RowsTellTheOutcome
  <2>3. CASE ~Is("task")
    BY <2>3 DEF RowsInv, NodeRows, Recorded, WithSession, RowsTellTheOutcome
  <2> QED BY <2>2, <2>3
<1> QED BY <1>1, RowsInitially, RowsStep, PTL DEF TaskSpec

\* Both: what a direct task or a verification node lets pass is proven, and the rows of a
\* task that is over are those of its outcome.
THEOREM DoneMeansProven ==
  ASSUME OrdersAreKnown PROVE TaskSpec => []WhatIsDoneIsProven
<1>1. TaskSpec => []CompletedIsProven /\ []RowsTellTheOutcome
  BY CompletionIsProven, RowsSayWhatHappened
<1>2. WhatIsDoneIsProven <=> CompletedIsProven /\ RowsTellTheOutcome
  BY DEF WhatIsDoneIsProven
<1> QED BY <1>1, <1>2, PTL
=============================================================================
