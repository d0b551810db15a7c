------------------------- MODULE GraphExecutor_proofs -------------------------
(* What the executor's rows promise, for any templates, settings, answers,   *)
(* faults, aborts, skips, reruns and process deaths: the types, the gates    *)
(* that complete only after their approval, the refinement of RunHistory and *)
(* the bounds on loops; and, for templates without feedback edges, that what *)
(* the executor keeps in memory agrees with the rows, so that "completed"    *)
(* means done, nodes start after their inputs and only where selected,       *)
(* inputs are current, no run is left behind, a rerun reaches what depends   *)
(* on it and a restart tells pauses from crashes.                            *)
EXTENDS GraphExecutor, FiniteSetTheorems, WellFoundedInduction, TLAPS

-----------------------------------------------------------------------------
(* The inductive invariant.                                                 *)

IdsOf(i)     == {e.id : e \in i.edges}
PatchesOf(i) == (i.nodes \X (Nat \ {0})) \cup {NoChange}
RowOf(i)     == [status : AttemptStatuses, iteration : Nat \ {0}, note : Notes,
                 edge : IdsOf(i) \cup {NoEdge}]
TablesOf(i)  == [NodeIds -> Seq(RowOf(i))]
RunRows      == [status : RunStatuses, iteration : Nat \ {0}, finished : BOOLEAN]
Stages       == {"none", "prepare", "patch", "apply", "leaf", "capture"}

\* Checkpoints that name nodes of the template as blocked.
SnapsOf(i, snaps) == \A c \in snaps : c.blocked \subseteq i.nodes

MemOf(i) ==
  [completed : SUBSET i.nodes, failed : SUBSET i.nodes, blocked : SUBSET i.nodes,
   resumable : SUBSET i.nodes, nonResumable : SUBSET i.nodes,
   cancelled : SUBSET i.nodes, skipped : SUBSET i.nodes, dead : SUBSET IdsOf(i),
   number : [NodeIds -> Nat], iteration : Nat, lineage : [NodeIds -> Nat],
   patch : PatchesOf(i), changes : PatchesOf(i), prints : Seq(i.prints),
   halted : BOOLEAN, aborted : BOOLEAN, rejected : BOOLEAN, batch : SUBSET i.nodes,
   stage : [NodeIds -> Stages], tree : [NodeIds -> SUBSET (i.nodes \X (Nat \ {0}))]]

Typed ==
  /\ inst \in Instances
  /\ run \in RunRows \cup {NoRun}
  /\ attempts \in TablesOf(inst)
  /\ SnapsOf(inst, ckpts)
  /\ verdicts \in [inst.gates -> [verdict : {"none", "approved", "rejected"}, attempt : Nat]]
  /\ mem \in MemOf(inst)

\* The node whose completion is being followed up is still in flight by its stage.
Following(n) == pc \in {"feedback", "prune"} /\ cur.back = "work" /\ cur.node = n

\* Where nothing is in flight.
Quiet ==
  /\ pc \notin {"start", "work"}
  /\ ~(pc \in {"feedback", "prune"} /\ cur.back = "work")

\* What each place in run() means for the rows and for the local variables.
Places ==
  /\ pc \in {"idle", "hydrated", "sched", "start", "work", "prune", "feedback",
             "ending", "starting"}
  /\ pc \notin {"idle", "starting"} => run.status = "running" /\ mem.iteration = run.iteration
  /\ pc = "start" => mem.batch # {} /\ \A n \in mem.batch : mem.stage[n] = "none"
  /\ pc \in {"feedback", "prune"} => cur.node \in Nodes /\ cur.back \in {"work", "sched"}
  /\ pc = "prune" => cur.back = "work"
  /\ Quiet => \A n \in Nodes : mem.stage[n] = "none"
  /\ pc = "feedback" =>
       /\ cur.edge \in EdgeIds
       /\ SourceAttempt \in DOMAIN attempts[cur.node]
       /\ attempts[cur.node][SourceAttempt].status = "completed"
       /\ BySource(trans, cur.node, SourceAttempt) = {}

\* The row that a node in flight executes has not ended, and what was added
\* behind it meanwhile waits for a later start or was skipped.
OwnRow(rows, k) ==
  /\ k \in DOMAIN rows
  /\ rows[k].status \in {"running", "ready"}
  /\ \A j \in DOMAIN rows : j > k => rows[j].status \in {"ready", "skipped"}
Flight ==
  \A n \in Nodes : mem.stage[n] # "none" /\ ~Following(n) => OwnRow(attempts[n], mem.number[n])

\* A transition was opened by an attempt that has completed.
TransDone ==
  \A t \in trans :
    /\ t.source \in Nodes /\ t.target \in Nodes /\ t.to = t.from + 1
    /\ t.sourceAttempt \in DOMAIN attempts[t.source]
    /\ attempts[t.source][t.sourceAttempt].status = "completed"

\* A verdict was given on an attempt that ended blocked.
VerdictsOnBlocks ==
  \A g \in Gates : verdicts[g].verdict # "none" =>
    /\ verdicts[g].attempt \in DOMAIN attempts[g]
    /\ attempts[g][verdicts[g].attempt].status = "blocked"

\* Only an approved gate gets to the capture of its result.
Captured ==
  \A g \in Gates : mem.stage[g] = "capture" => verdicts[g].verdict = "approved"

RowsInv == TransDone /\ VerdictsOnBlocks /\ GatesNeedApproval
IInv == Typed /\ Places /\ Flight /\ Captured /\ RowsInv

-----------------------------------------------------------------------------
(* Instances and the order of node ids.                                     *)

LEMMA Instance ==
  ASSUME NEW i \in Instances
  PROVE  InstanceIsSound(i) /\ i.nodes \subseteq NodeIds
BY GraphExecutorAssumption DEF NodeIds

LEMMA LeastNat ==
  ASSUME NEW T \in SUBSET Nat, T # {}
  PROVE  \E x \in T : \A y \in T : x <= y
<1>1. PICK x \in T : \A y \in T : ~ (<<y, x>> \in OpToRel(<, Nat))
  BY NatLessThanWellFounded, WFMin
<1>2. \A y \in T : <<y, x>> \in OpToRel(<, Nat) <=> y < x
  BY DEF OpToRel
<1>3. \A y \in T : ~ (y < x)
  BY <1>1, <1>2, Zenon
<1>4. \A y \in T : x <= y
  BY <1>3
<1> QED BY <1>4

LEMMA FirstIn ==
  ASSUME NEW S \in SUBSET NodeIds, S # {}
  PROVE  First(S) \in S
<1> DEFINE T == {Rank[n] : n \in S}
<1>1. T \in SUBSET Nat /\ T # {}
  BY GraphExecutorAssumption
<1>2. PICK x \in T : \A y \in T : x <= y
  <2> HIDE DEF T
  <2> QED BY <1>1, LeastNat
<1>3. PICK n \in S : \A m \in S : Rank[n] <= Rank[m]
  BY <1>2
<1> QED BY <1>3 DEF First

-----------------------------------------------------------------------------
(* What the row operations do to a table.                                   *)

\* No row goes away or changes iteration, and an ended one does not change.
Grows(old, new) ==
  \A n \in NodeIds : \A k \in DOMAIN old[n] :
    /\ k \in DOMAIN new[n]
    /\ new[n][k].iteration = old[n][k].iteration
    /\ old[n][k].status \in TerminalStatuses => new[n][k] = old[n][k]
NoneCompletes(old, new) ==
  \A n \in NodeIds : \A k \in DOMAIN new[n] :
    new[n][k].status = "completed" => k \in DOMAIN old[n] /\ old[n][k].status = "completed"
OnlyAt(n, old, new) == \A m \in NodeIds \ {n} : new[m] = old[m]

\* One node's rows change, and not by a completion.
Touched(i, n, old, new) ==
  new \in TablesOf(i) /\ Grows(old, new) /\ NoneCompletes(old, new) /\ OnlyAt(n, old, new)

LEMMA NewRow ==
  ASSUME NEW i, NEW status \in AttemptStatuses, NEW it \in Nat \ {0}
  PROVE  /\ NewAttempt(status, it) \in RowOf(i)
         /\ NewAttempt(status, it).status = status
BY DEF NewAttempt, RowOf, Notes

\* recordNodeAttempt appends a row.
LEMMA Recorded ==
  ASSUME NEW i, NEW table \in TablesOf(i), NEW n \in NodeIds,
         NEW status \in AttemptStatuses, NEW it \in Nat \ {0}
  PROVE  LET new == RecordAttempt(table, n, status, it)
         IN  /\ new = [table EXCEPT ![n] = Append(@, NewAttempt(status, it))]
             /\ new \in TablesOf(i)
             /\ new[n] = Append(table[n], NewAttempt(status, it))
             /\ Len(new[n]) = Len(table[n]) + 1
             /\ DOMAIN new[n] = 1 .. (Len(table[n]) + 1)
             /\ \A k \in DOMAIN table[n] : new[n][k] = table[n][k]
             /\ new[n][Len(table[n]) + 1] = NewAttempt(status, it)
             /\ OnlyAt(n, table, new)
<1> DEFINE row == NewAttempt(status, it)
           new == RecordAttempt(table, n, status, it)
<1>1. row \in RowOf(i)
  BY NewRow
<1>2. new = [table EXCEPT ![n] = Append(@, row)]
  BY DEF RecordAttempt, InsertAttempt, NextAttempt
<1>3. table[n] \in Seq(RowOf(i))
  BY DEF TablesOf
<1> HIDE DEF row
<1>4. /\ Append(table[n], row) \in Seq(RowOf(i))
      /\ Len(Append(table[n], row)) = Len(table[n]) + 1
      /\ DOMAIN Append(table[n], row) = 1 .. (Len(table[n]) + 1)
      /\ \A k \in DOMAIN table[n] : Append(table[n], row)[k] = table[n][k]
      /\ Append(table[n], row)[Len(table[n]) + 1] = row
  BY <1>1, <1>3
<1>5. new[n] = Append(table[n], row) /\ new \in TablesOf(i) /\ OnlyAt(n, table, new)
  BY <1>2, <1>4 DEF TablesOf, OnlyAt
<1> QED BY <1>2, <1>4, <1>5 DEF row

LEMMA RecordTouches ==
  ASSUME NEW i, NEW table \in TablesOf(i), NEW n \in NodeIds,
         NEW status \in AttemptStatuses \ {"completed"}, NEW it \in Nat \ {0}
  PROVE  Touched(i, n, table, RecordAttempt(table, n, status, it))
<1> DEFINE new == RecordAttempt(table, n, status, it)
<1>1. /\ new \in TablesOf(i) /\ OnlyAt(n, table, new)
      /\ DOMAIN new[n] = 1 .. (Len(table[n]) + 1)
      /\ \A k \in DOMAIN table[n] : new[n][k] = table[n][k]
      /\ new[n][Len(table[n]) + 1].status = status
  <2>1. NewAttempt(status, it).status = status
    BY NewRow
  <2>2. status \in AttemptStatuses
    OBVIOUS
  <2> QED BY <2>1, <2>2, Recorded
<1>2. DOMAIN table[n] = 1 .. Len(table[n]) /\ Len(table[n]) \in Nat
  BY DEF TablesOf
<1> HIDE DEF new
<1>3. Grows(table, new)
  BY <1>1, <1>2 DEF Grows, OnlyAt
<1>4. NoneCompletes(table, new)
  BY <1>1, <1>2 DEF NoneCompletes, OnlyAt
<1> QED BY <1>1, <1>3, <1>4 DEF Touched, new

\* updateNodeAttempt on a row that has not ended.
LEMMA SetTouches ==
  ASSUME NEW i, NEW table \in TablesOf(i), NEW n \in NodeIds, NEW k \in DOMAIN table[n],
         table[n][k].status \in {"running", "ready"},
         NEW status \in AttemptStatuses, NEW note \in Notes
  PROVE  LET new == SetAttempt(table, n, k, status, note)
         IN  /\ new \in TablesOf(i) /\ Grows(table, new) /\ OnlyAt(n, table, new)
             /\ DOMAIN new[n] = DOMAIN table[n]
             /\ new[n][k].status = status
             /\ \A j \in DOMAIN table[n] \ {k} : new[n][j] = table[n][j]
             /\ status # "completed" => Touched(i, n, table, new)
<1> DEFINE new == SetAttempt(table, n, k, status, note)
<1>1. table[n] \in Seq(RowOf(i)) /\ table[n][k] \in RowOf(i)
  BY DEF TablesOf
<1> DEFINE row == [[table[n][k] EXCEPT !.status = status] EXCEPT !.note = note]
<1>2. /\ row \in RowOf(i) /\ row.status = status
      /\ row.iteration = table[n][k].iteration
  BY <1>1 DEF RowOf
<1>3. new = [table EXCEPT ![n] = [table[n] EXCEPT ![k] = row]]
  BY <1>1 DEF SetAttempt, TablesOf
<1> HIDE DEF row
<1>4. /\ [table[n] EXCEPT ![k] = row] \in Seq(RowOf(i))
      /\ DOMAIN [table[n] EXCEPT ![k] = row] = DOMAIN table[n]
      /\ [table[n] EXCEPT ![k] = row][k] = row
      /\ \A j \in DOMAIN table[n] \ {k} : [table[n] EXCEPT ![k] = row][j] = table[n][j]
  BY <1>1, <1>2
<1>5. /\ new[n] = [table[n] EXCEPT ![k] = row]
      /\ new \in TablesOf(i) /\ OnlyAt(n, table, new)
  BY <1>3, <1>4 DEF TablesOf, OnlyAt
<1> HIDE DEF new
<1>6. /\ DOMAIN new[n] = DOMAIN table[n] /\ new[n][k] = row
      /\ \A j \in DOMAIN table[n] \ {k} : new[n][j] = table[n][j]
  BY <1>4, <1>5
<1>7. Grows(table, new)
  BY <1>2, <1>5, <1>6 DEF Grows, OnlyAt, TerminalStatuses
<1>8. status # "completed" => NoneCompletes(table, new)
  BY <1>2, <1>5, <1>6 DEF NoneCompletes, OnlyAt
<1> QED BY <1>2, <1>5, <1>6, <1>7, <1>8 DEF Touched, new

LEMMA TouchedTwice ==
  ASSUME NEW i, NEW n, NEW t1, NEW t2, NEW t3, Touched(i, n, t1, t2), Touched(i, n, t2, t3)
  PROVE  Touched(i, n, t1, t3)
<1>1. Grows(t1, t3)
  BY DEF Touched, Grows
<1>2. NoneCompletes(t1, t3)
  BY DEF Touched, NoneCompletes
<1>3. OnlyAt(n, t1, t3)
  BY DEF Touched, OnlyAt
<1> QED BY <1>1, <1>2, <1>3 DEF Touched

\* A last row that has not ended, and a node's start that takes one.
LEMMA RecordedIsOwn ==
  ASSUME NEW i, NEW table \in TablesOf(i), NEW n \in NodeIds,
         NEW status \in {"ready", "running"}, NEW it \in Nat \ {0}
  PROVE  LET new == RecordAttempt(table, n, status, it)
         IN  OwnRow(new[n], Len(new[n])) /\ Touched(i, n, table, new)
<1>1. status \in AttemptStatuses \ {"completed"}
  BY DEF AttemptStatuses
<1>2. Len(table[n]) \in Nat
  BY DEF TablesOf
<1>3. NewAttempt(status, it).status = status
  BY <1>1, NewRow
<1> QED BY <1>1, <1>2, <1>3, Recorded, RecordTouches DEF OwnRow

LEMMA EndLastTouches ==
  ASSUME NEW i, NEW table \in TablesOf(i), NEW n \in NodeIds,
         OwnRow(table[n], Len(table[n])),
         NEW status \in AttemptStatuses \ {"completed"}, NEW note \in Notes
  PROVE  Touched(i, n, table, EndLast(table, n, status, note))
BY SetTouches DEF EndLast, OwnRow

LEMMA TakeIsOwn ==
  ASSUME Typed, mem.iteration # 0, NEW n \in NodeIds, NEW status \in {"ready", "running"}
  PROVE  LET new == Take(n, status)
         IN  OwnRow(new[n], Len(new[n])) /\ Touched(inst, n, attempts, new)
<1>1. mem.iteration \in Nat \ {0} /\ attempts \in TablesOf(inst)
  BY DEF Typed, MemOf
<1>2. CASE LatestStatus(attempts, n) = "ready"
  <2>1. attempts[n] \in Seq(RowOf(inst)) /\ attempts[n] # << >>
    BY <1>1, <1>2 DEF TablesOf, LatestStatus
  <2>2. Len(attempts[n]) \in DOMAIN attempts[n] /\ DOMAIN attempts[n] = 1 .. Len(attempts[n])
    BY <2>1
  <2>3. OwnRow(attempts[n], Len(attempts[n]))
    BY <1>2, <2>1, <2>2 DEF OwnRow, LatestStatus, Latest
  <2>4. Touched(inst, n, attempts, attempts)
    BY <1>1 DEF Touched, Grows, NoneCompletes, OnlyAt
  <2> QED BY <1>2, <2>3, <2>4 DEF Take
<1>3. CASE LatestStatus(attempts, n) # "ready"
  BY <1>1, <1>3, RecordedIsOwn DEF Take
<1> QED BY <1>2, <1>3

-----------------------------------------------------------------------------
(* Checkpoints, and updates of the local variables.                         *)

LEMMA CheckpointOne ==
  ASSUME Typed, NEW S \in SUBSET Nodes, NEW operation, Checkpoint(<<Snap(operation, S)>>)
  PROVE  SnapsOf(inst, ckpts')
BY DEF Checkpoint, Typed, SnapsOf, Snap, Nodes

LEMMA CheckpointTwo ==
  ASSUME Typed, NEW S \in SUBSET Nodes, NEW T \in SUBSET Nodes, NEW operation, NEW next,
         Checkpoint(<<Snap(operation, S), Snap(next, T)>>)
  PROVE  SnapsOf(inst, ckpts')
<1> DEFINE w == <<Snap(operation, S), Snap(next, T)>>
<1>1. Len(w) = 2 /\ w[1] = Snap(operation, S) /\ w[2] = Snap(next, T)
  OBVIOUS
<1>2. SnapsOf(inst, {Snap(operation, S), Snap(next, T)})
  BY DEF SnapsOf, Snap, Nodes
<1>3. SnapsOf(inst, {w[Len(w)]}) /\ SnapsOf(inst, {w[i] : i \in 1 .. Len(w)})
  BY <1>1, <1>2 DEF SnapsOf
<1> HIDE DEF w
<1>4. Checkpoint(w)
  BY DEF w
<1> QED BY <1>3, <1>4 DEF Checkpoint, Typed, SnapsOf

\* Two values of mem that agree on what is in flight.
Alike(m, m2) ==
  m2.stage = m.stage /\ m2.number = m.number /\ m2.iteration = m.iteration
    /\ m2.batch = m.batch

LEMMA LeaveIs ==
  ASSUME NEW i, NEW m \in MemOf(i), NEW n \in NodeIds
  PROVE  /\ Leave(m, n) \in MemOf(i)
         /\ Leave(m, n).stage = [m.stage EXCEPT ![n] = "none"]
         /\ Leave(m, n).number = [m.number EXCEPT ![n] = 0]
         /\ Leave(m, n).iteration = m.iteration
BY DEF Leave, MemOf, Stages

\* A node in flight ends without completing.
Ends(n) ==
  /\ \E status \in TerminalStatuses \ {"completed"}, note \in Notes :
       attempts' = EndAttempt(n, status, note)
  /\ SnapsOf(inst, ckpts')
  /\ mem' \in MemOf(inst) /\ mem'.iteration = mem.iteration
  /\ mem'.stage = [mem.stage EXCEPT ![n] = "none"]
  /\ mem'.number = [mem.number EXCEPT ![n] = 0]

\* It goes on, the gates to the capture of their result only if approved.
Moves(n) ==
  /\ attempts' = attempts /\ ckpts' = ckpts
  /\ mem' \in MemOf(inst) /\ mem'.iteration = mem.iteration /\ mem'.number = mem.number
  /\ \E s \in Stages \ {"none"} :
       /\ mem'.stage = [mem.stage EXCEPT ![n] = s]
       /\ s = "capture" /\ n \in Gates => verdicts[n].verdict = "approved"

LEMMA EndsBy ==
  ASSUME Typed, NEW n \in Nodes, NEW status \in TerminalStatuses \ {"completed"},
         NEW note \in Notes, NEW operation, NEW S \in SUBSET Nodes,
         NEW m \in MemOf(inst), Alike(mem, m),
         attempts' = EndAttempt(n, status, note), mem' = Leave(m, n),
         Checkpoint(<<Snap(operation, S)>>)
  PROVE  Ends(n)
<1>1. n \in NodeIds
  BY Instance DEF Typed, Nodes
<1>2. SnapsOf(inst, ckpts')
  BY CheckpointOne
<1>3. /\ mem' \in MemOf(inst) /\ mem'.iteration = m.iteration
      /\ mem'.stage = [m.stage EXCEPT ![n] = "none"]
      /\ mem'.number = [m.number EXCEPT ![n] = 0]
  BY <1>1, LeaveIs
<1> QED BY <1>2, <1>3 DEF Ends, Alike

-----------------------------------------------------------------------------
(* A node in flight: it ends or goes on.                                    *)

LEMMA SetsOfMem ==
  ASSUME Typed, NEW n \in Nodes
  PROVE  /\ mem \in MemOf(inst) /\ Alike(mem, mem)
         /\ mem.blocked \in SUBSET Nodes /\ mem.blocked \cup {n} \in SUBSET Nodes
         /\ n \in NodeIds
         /\ {"failed", "cancelled", "blocked"} \subseteq TerminalStatuses \ {"completed"}
         /\ {"other", "wait", "none"} \subseteq Notes
BY Instance DEF Typed, MemOf, Alike, Nodes, TerminalStatuses, Notes

LEMMA CaughtEnds ==
  ASSUME Typed, NEW n \in Nodes, NEW m \in MemOf(inst), Alike(mem, m), Caught(n, m)
  PROVE  Ends(n)
<1>1. [m EXCEPT !.failed = @ \cup {n}] \in MemOf(inst)
      /\ Alike(mem, [m EXCEPT !.failed = @ \cup {n}])
  BY DEF MemOf, Alike, Nodes
<1>2. m.blocked \in SUBSET Nodes
  BY DEF MemOf, Nodes
<1>3. CASE m.aborted
  BY <1>1, <1>2, <1>3, EndsBy, SetsOfMem DEF Caught
<1>4. CASE ~m.aborted
  BY <1>1, <1>2, <1>4, EndsBy, SetsOfMem DEF Caught
<1> QED BY <1>3, <1>4

LEMMA HaltedStartEnds ==
  ASSUME Typed, NEW n \in Nodes, NEW operation, HaltedStart(n, operation)
  PROVE  Ends(n)
<1>1. [mem EXCEPT !.halted = TRUE, !.failed = @ \cup {n}] \in MemOf(inst)
      /\ Alike(mem, [mem EXCEPT !.halted = TRUE, !.failed = @ \cup {n}])
  BY DEF Typed, MemOf, Alike, Nodes
<1> QED BY <1>1, EndsBy, SetsOfMem DEF HaltedStart

LEMMA ToLeafMoves ==
  ASSUME Typed, NEW n \in Nodes, NEW m \in MemOf(inst), Alike(mem, m), ToLeaf(n, m)
  PROVE  Ends(n) \/ Moves(n)
<1>1. CASE m.aborted
  BY <1>1, CaughtEnds DEF ToLeaf
<1>2. CASE ~m.aborted
  <2>1. mem' = [m EXCEPT !.stage[n] = "leaf"] /\ attempts' = attempts /\ ckpts' = ckpts
    BY <1>2 DEF ToLeaf
  <2>2. /\ mem' \in MemOf(inst) /\ mem'.iteration = m.iteration /\ mem'.number = m.number
        /\ mem'.stage = [m.stage EXCEPT ![n] = "leaf"]
    BY <2>1, SetsOfMem DEF MemOf, Stages
  <2> QED BY <2>1, <2>2 DEF Moves, Alike, Stages
<1> QED BY <1>1, <1>2

LEMMA PredChangesTyped ==
  ASSUME Typed, NEW n \in Nodes
  PROVE  PredChanges(n) \in SUBSET (inst.nodes \X (Nat \ {0}))
<1>1. Writers \subseteq inst.nodes /\ inst.nodes \subseteq NodeIds
  BY Instance DEF Typed, Writers, InstanceIsSound
<1>2. mem.lineage \in [NodeIds -> Nat]
  BY DEF Typed, MemOf
<1> QED BY <1>1, <1>2 DEF PredChanges, Change

LEMMA PreparedOutcome ==
  ASSUME Typed, NEW n \in Nodes, Prepared(n)
  PROVE  Ends(n) \/ Moves(n)
<1>1. CASE "prepare" \in inst.faults[n] /\ Caught(n, mem)
  BY <1>1, CaughtEnds, SetsOfMem
<1>2. CASE /\ mem.patch # NoChange
           /\ mem' = [mem EXCEPT !.stage[n] = "patch", !.tree[n] = {mem.patch}]
           /\ UNCHANGED <<attempts, ckpts>>
  <2>1. {mem.patch} \in SUBSET (inst.nodes \X (Nat \ {0}))
    BY <1>2 DEF Typed, MemOf, PatchesOf
  <2>2. /\ mem' \in MemOf(inst) /\ mem'.iteration = mem.iteration
        /\ mem'.number = mem.number /\ mem'.stage = [mem.stage EXCEPT ![n] = "patch"]
    BY <1>2, <2>1, SetsOfMem DEF Typed, MemOf, Stages
  <2> QED BY <1>2, <2>2 DEF Moves, Stages
<1>3. CASE /\ mem.patch = NoChange /\ PredChanges(n) # {}
           /\ mem' = [mem EXCEPT !.stage[n] = "apply", !.tree[n] = PredChanges(n)]
           /\ UNCHANGED <<attempts, ckpts>>
  <2>2. /\ mem' \in MemOf(inst) /\ mem'.iteration = mem.iteration
        /\ mem'.number = mem.number /\ mem'.stage = [mem.stage EXCEPT ![n] = "apply"]
    BY <1>3, PredChangesTyped, SetsOfMem DEF Typed, MemOf, Stages
  <2> QED BY <1>3, <2>2 DEF Moves, Stages
<1>4. CASE HaltedStart(n, "merge.halted")
  BY <1>4, HaltedStartEnds
<1>5. CASE ToLeaf(n, mem)
  BY <1>5, ToLeafMoves, SetsOfMem
<1> QED BY <1>1, <1>2, <1>3, <1>4, <1>5 DEF Prepared

LEMMA AppliedOutcome ==
  ASSUME Typed, NEW n \in Nodes, PatchApplied(n) \/ ChangesApplied(n)
  PROVE  Ends(n) \/ Moves(n)
<1>1. [mem EXCEPT !.patch = NoChange] \in MemOf(inst)
      /\ Alike(mem, [mem EXCEPT !.patch = NoChange])
  BY DEF Typed, MemOf, PatchesOf, Alike
<1> QED
  BY <1>1, HaltedStartEnds, ToLeafMoves, CaughtEnds, SetsOfMem DEF PatchApplied, ChangesApplied

LEMMA AnsweredEnds ==
  ASSUME Typed, NEW n \in Nodes
  PROVE  /\ Aborted(n) => Ends(n)
         /\ Failed(n) => Ends(n)
         /\ Cancelled(n) => Ends(n)
         /\ \A resumable \in BOOLEAN, note \in Notes : Blocked(n, resumable, note) => Ends(n)
<1>1. ASSUME Aborted(n) PROVE Ends(n)
  BY <1>1, EndsBy, SetsOfMem DEF Aborted
<1>2. ASSUME Failed(n) PROVE Ends(n)
  <2>1. [mem EXCEPT !.failed = @ \cup {n}] \in MemOf(inst)
        /\ Alike(mem, [mem EXCEPT !.failed = @ \cup {n}])
    BY DEF Typed, MemOf, Alike, Nodes
  <2> QED BY <1>2, <2>1, EndsBy, SetsOfMem DEF Failed
<1>3. ASSUME Cancelled(n) PROVE Ends(n)
  <2>1. [mem EXCEPT !.cancelled = @ \cup {n}] \in MemOf(inst)
        /\ Alike(mem, [mem EXCEPT !.cancelled = @ \cup {n}])
    BY DEF Typed, MemOf, Alike, Nodes
  <2> QED BY <1>3, <2>1, EndsBy, SetsOfMem DEF Cancelled
<1>4. ASSUME NEW resumable \in BOOLEAN, NEW note \in Notes, Blocked(n, resumable, note)
      PROVE  Ends(n)
  <2> DEFINE m == [mem EXCEPT
                     !.blocked = @ \cup {n},
                     !.resumable = IF resumable THEN @ \cup {n} ELSE @,
                     !.nonResumable = IF resumable THEN @ ELSE @ \cup {n}]
  <2>1. m \in MemOf(inst) /\ Alike(mem, m)
    BY ZenonT(60) DEF Typed, MemOf, Alike, Nodes
  <2>2. mem' = Leave(m, n) /\ attempts' = EndAttempt(n, "blocked", note)
        /\ Checkpoint(<<Snap("node.blocked", mem.blocked \cup {n})>>)
    BY <1>4 DEF Blocked
  <2> HIDE DEF m
  <2> QED BY <2>1, <2>2, EndsBy, SetsOfMem
<1> QED BY <1>1, <1>2, <1>3, <1>4

LEMMA CaptureMoves ==
  ASSUME Typed, NEW n \in Nodes, Capture(n),
         n \in Gates => verdicts[n].verdict = "approved"
  PROVE  Moves(n)
<1>1. /\ mem' \in MemOf(inst) /\ mem'.iteration = mem.iteration /\ mem'.number = mem.number
      /\ mem'.stage = [mem.stage EXCEPT ![n] = "capture"]
  BY SetsOfMem DEF Capture, MemOf, Stages
<1> QED BY <1>1 DEF Capture, Moves, Stages

LEMMA WorkOutcome ==
  ASSUME Typed, NEW n \in Nodes, Work(n)
  PROVE  mem.stage[n] # "none" /\ (Ends(n) \/ Moves(n))
<1>1. mem.stage[n] # "none"
  BY DEF Work, Prepared, PatchApplied, ChangesApplied, LeafAnswered, CaptureFailed
<1>2. CASE Prepared(n) \/ PatchApplied(n) \/ ChangesApplied(n)
  BY <1>1, <1>2, PreparedOutcome, AppliedOutcome
<1>3. CASE CaptureFailed(n)
  BY <1>1, <1>3, CaughtEnds, SetsOfMem DEF CaptureFailed
<1>4. CASE LeafAnswered(n)
  <2>1. "wait" \in Notes /\ "other" \in Notes
    BY DEF Notes
  <2>2. CASE Aborted(n) \/ RouterFails(n) \/ Caught(n, mem)
    BY <1>1, <2>2, AnsweredEnds, CaughtEnds, SetsOfMem DEF RouterFails
  <2>3. CASE GateAnswered(n)
    BY <1>1, <2>1, <2>3, AnsweredEnds, CaptureMoves DEF GateAnswered
  <2>4. CASE TaskAnswered(n)
    BY <1>1, <2>1, <2>4, AnsweredEnds, CaptureMoves DEF TaskAnswered
  <2> QED BY <1>4, <2>2, <2>3, <2>4 DEF LeafAnswered
<1> QED BY <1>2, <1>3, <1>4 DEF Work

-----------------------------------------------------------------------------
(* What the invariant says of the rows, kept by every step that completes   *)
(* nothing.                                                                 *)

LEMMA Facts ==
  ASSUME Typed
  PROVE  /\ Nodes \subseteq NodeIds /\ Gates \subseteq Nodes /\ Writers \subseteq Nodes
         /\ Routers \subseteq Nodes /\ Routers \cap Gates = {} /\ Writers \cap Gates = {}
         /\ \A e \in Edges : e.source \in Nodes /\ e.target \in Nodes
         /\ IsFiniteSet(Nodes)
BY Instance DEF Typed, InstanceIsSound, Nodes, Gates, Writers, Routers, Edges

LEMMA GatesKept ==
  ASSUME Typed, RowsInv, inst' = inst, Grows(attempts, attempts'),
         NoneCompletes(attempts, attempts'), verdicts' = verdicts
  PROVE  VerdictsOnBlocks' /\ GatesNeedApproval'
<1>1. VerdictsOnBlocks'
  BY Facts DEF RowsInv, VerdictsOnBlocks, Grows, Gates, TerminalStatuses
<1>2. GatesNeedApproval'
  <2> SUFFICES ASSUME NEW g \in Gates, NEW k \in DOMAIN attempts'[g],
                      attempts'[g][k].status = "completed"
               PROVE  /\ verdicts[g].verdict = "approved"
                      /\ verdicts[g].attempt \in 1 .. (k - 1)
                      /\ attempts'[g][verdicts[g].attempt].status = "blocked"
    BY DEF GatesNeedApproval, Gates
  <2>1. g \in NodeIds /\ k \in DOMAIN attempts[g] /\ attempts[g][k].status = "completed"
    BY Facts DEF NoneCompletes
  <2>2. /\ verdicts[g].verdict = "approved"
        /\ verdicts[g].attempt \in 1 .. (k - 1)
    BY <2>1 DEF RowsInv, GatesNeedApproval
  <2>3. verdicts'[g].attempt \in DOMAIN attempts'[g]
        /\ attempts'[g][verdicts'[g].attempt].status = "blocked"
    BY <1>1, <2>2 DEF VerdictsOnBlocks, Gates
  <2> QED BY <2>2, <2>3
<1> QED BY <1>1, <1>2

LEMMA TransKept ==
  ASSUME Typed, RowsInv, inst' = inst, Grows(attempts, attempts')
  PROVE  \A t \in trans :
           /\ t.source \in Nodes' /\ t.target \in Nodes' /\ t.to = t.from + 1
           /\ t.sourceAttempt \in DOMAIN attempts'[t.source]
           /\ attempts'[t.source][t.sourceAttempt].status = "completed"
BY Facts DEF RowsInv, TransDone, Grows, Nodes, TerminalStatuses

LEMMA RowsKept ==
  ASSUME Typed, RowsInv, inst' = inst, Grows(attempts, attempts'),
         NoneCompletes(attempts, attempts'), trans' = trans, verdicts' = verdicts
  PROVE  RowsInv'
BY GatesKept, TransKept DEF RowsInv, TransDone

\* What the history of the run makes of such a step.
Extends ==
  run'.iteration = run.iteration /\ Grows(attempts, attempts') /\ trans' = trans

LEMMA TouchedKeeps ==
  ASSUME Typed, RowsInv, NEW n \in NodeIds, Touched(inst, n, attempts, attempts'),
         inst' = inst, trans' = trans, verdicts' = verdicts
  PROVE  RowsInv' /\ attempts' \in TablesOf(inst) /\ Grows(attempts, attempts')
BY RowsKept DEF Touched

LEMMA EndsTouches ==
  ASSUME Typed, NEW n \in Nodes, OwnRow(attempts[n], mem.number[n]), Ends(n)
  PROVE  Touched(inst, n, attempts, attempts')
<1>1. n \in NodeIds /\ attempts \in TablesOf(inst)
  BY Facts DEF Typed
<1>2. PICK status \in TerminalStatuses \ {"completed"}, note \in Notes :
        attempts' = SetAttempt(attempts, n, mem.number[n], status, note)
  BY DEF Ends, EndAttempt
<1>3. status \in AttemptStatuses /\ status # "completed"
  BY <1>2 DEF AttemptStatuses
<1> QED BY <1>1, <1>2, <1>3, SetTouches DEF OwnRow

LEMMA WorkStep ==
  ASSUME IInv, NEW n \in Nodes, Work(n)
  PROVE  IInv' /\ Extends
<1>1. /\ pc = "work" /\ pc' = pc /\ inst' = inst /\ run' = run /\ trans' = trans
      /\ verdicts' = verdicts /\ cur' = cur
  BY DEF Work
<1>2. Typed /\ Places /\ Flight /\ Captured /\ RowsInv
  BY DEF IInv
<1>3. mem.stage[n] # "none" /\ (Ends(n) \/ Moves(n))
  BY <1>2, WorkOutcome
<1>4. ~Following(n) /\ \A m \in Nodes : ~Following(m)' /\ ~Following(m)
  BY <1>1 DEF Following
<1>5. OwnRow(attempts[n], mem.number[n])
  BY <1>2, <1>3, <1>4 DEF Flight
<1>6. n \in NodeIds /\ Nodes \subseteq NodeIds /\ Gates \subseteq Nodes /\ Nodes' = Nodes
      /\ Gates' = Gates
  BY <1>1, <1>2, Facts DEF Nodes, Gates
<1>7. mem.stage \in [NodeIds -> Stages] /\ mem.number \in [NodeIds -> Nat]
  BY <1>2 DEF Typed, MemOf
<1>8. CASE Ends(n)
  <2>1. Touched(inst, n, attempts, attempts')
    BY <1>2, <1>5, <1>8, EndsTouches
  <2>2. RowsInv' /\ attempts' \in TablesOf(inst) /\ Grows(attempts, attempts')
    BY <1>1, <1>2, <1>6, <2>1, TouchedKeeps
  <2>3. Typed'
    BY <1>1, <1>2, <1>8, <2>2 DEF Typed, Ends
  <2>4. Places'
    BY <1>1, <1>2, <1>8 DEF Places, Quiet, Ends
  <2>5. Flight'
    BY <1>2, <1>4, <1>6, <1>7, <1>8, <2>1 DEF Flight, Ends, Touched, OnlyAt
  <2>6. Captured'
    BY <1>1, <1>2, <1>6, <1>7, <1>8 DEF Captured, Ends
  <2> QED BY <1>1, <2>2, <2>3, <2>4, <2>5, <2>6 DEF IInv, Extends
<1>9. CASE Moves(n)
  <2>1. Grows(attempts, attempts') /\ NoneCompletes(attempts, attempts')
    BY <1>9 DEF Moves, Grows, NoneCompletes
  <2>2. RowsInv'
    BY <1>1, <1>2, <2>1, RowsKept
  <2>3. Typed'
    BY <1>1, <1>2, <1>9 DEF Typed, Moves
  <2>4. Places'
    BY <1>1, <1>2, <1>9 DEF Places, Quiet, Moves
  <2>5. Flight'
    BY <1>2, <1>3, <1>4, <1>6, <1>7, <1>9 DEF Flight, Moves
  <2>6. Captured'
    BY <1>1, <1>2, <1>6, <1>7, <1>9 DEF Captured, Moves
  <2> QED BY <1>1, <2>1, <2>2, <2>3, <2>4, <2>5, <2>6 DEF IInv, Extends
<1> QED BY <1>3, <1>8, <1>9

-----------------------------------------------------------------------------
(* A completion.                                                            *)

LEMMA CompletionWrites ==
  ASSUME Typed, NEW n \in Nodes, OwnRow(attempts[n], mem.number[n]),
         NEW edge \in IdsOf(inst) \cup {NoEdge}, RecordCompletion(n, edge)
  PROVE  LET k == mem.number[n]
         IN  /\ attempts' \in TablesOf(inst) /\ Grows(attempts, attempts')
             /\ OnlyAt(n, attempts, attempts')
             /\ k \in DOMAIN attempts'[n] /\ attempts'[n][k].status = "completed"
             /\ DOMAIN attempts'[n] = DOMAIN attempts[n]
             /\ \A j \in DOMAIN attempts[n] \ {k} : attempts'[n][j] = attempts[n][j]
<1> DEFINE k == mem.number[n]
           ended == EndAttempt(n, "completed", "none")
<1>1. n \in NodeIds /\ attempts \in TablesOf(inst) /\ k \in DOMAIN attempts[n]
  BY Facts DEF Typed, OwnRow
<1>2. "completed" \in AttemptStatuses /\ "none" \in Notes
  BY DEF AttemptStatuses, TerminalStatuses, Notes
<1>3. /\ ended \in TablesOf(inst) /\ Grows(attempts, ended) /\ OnlyAt(n, attempts, ended)
      /\ DOMAIN ended[n] = DOMAIN attempts[n] /\ ended[n][k].status = "completed"
      /\ \A j \in DOMAIN attempts[n] \ {k} : ended[n][j] = attempts[n][j]
  BY <1>1, <1>2, SetTouches DEF EndAttempt, OwnRow
<1>4. attempts' = [ended EXCEPT ![n][k].edge = edge]
  BY DEF RecordCompletion
<1> HIDE DEF ended
<1>5. ended[n] \in Seq(RowOf(inst)) /\ ended[n][k] \in RowOf(inst)
  BY <1>1, <1>3 DEF TablesOf
<1> DEFINE row == [ended[n][k] EXCEPT !.edge = edge]
<1>6. row \in RowOf(inst) /\ row.status = "completed" /\ row.iteration = ended[n][k].iteration
  BY <1>3, <1>5 DEF RowOf
<1>7. attempts' = [ended EXCEPT ![n] = [ended[n] EXCEPT ![k] = row]]
  BY <1>1, <1>3, <1>4, <1>5 DEF TablesOf
<1> HIDE DEF row
<1>8. /\ [ended[n] EXCEPT ![k] = row] \in Seq(RowOf(inst))
      /\ DOMAIN [ended[n] EXCEPT ![k] = row] = DOMAIN ended[n]
      /\ [ended[n] EXCEPT ![k] = row][k] = row
      /\ \A j \in DOMAIN ended[n] \ {k} : [ended[n] EXCEPT ![k] = row][j] = ended[n][j]
  BY <1>1, <1>3, <1>5, <1>6
<1>9. /\ attempts'[n] = [ended[n] EXCEPT ![k] = row] /\ attempts' \in TablesOf(inst)
      /\ \A m \in NodeIds \ {n} : attempts'[m] = ended[m]
  BY <1>1, <1>3, <1>7, <1>8 DEF TablesOf
<1>10. OnlyAt(n, attempts, attempts')
  BY <1>3, <1>9 DEF OnlyAt
<1>11. \A j \in DOMAIN attempts[n] \ {k} : attempts'[n][j] = attempts[n][j]
  BY <1>1, <1>3, <1>8, <1>9
<1>12. attempts'[n][k] = row /\ DOMAIN attempts'[n] = DOMAIN attempts[n]
  BY <1>3, <1>8, <1>9
<1>13. row.iteration = attempts[n][k].iteration
  BY <1>1, <1>3, <1>6 DEF Grows
<1>14. attempts[n][k].status \notin TerminalStatuses
  BY DEF OwnRow, TerminalStatuses
<1>15. Grows(attempts, attempts')
  BY <1>1, <1>10, <1>11, <1>12, <1>13, <1>14 DEF Grows, OnlyAt
<1> QED BY <1>1, <1>6, <1>9, <1>10, <1>11, <1>12, <1>15

LEMMA CompletedMem ==
  ASSUME Typed, NEW n \in Nodes, OwnRow(attempts[n], mem.number[n])
  PROVE  WithCompletion(n) \in MemOf(inst) /\ Alike(mem, WithCompletion(n))
<1>1. mem.number[n] \in Nat \ {0} /\ n \in NodeIds
  <2>1. attempts[n] \in Seq(RowOf(inst)) /\ n \in NodeIds
    BY Facts DEF Typed, TablesOf
  <2> QED BY <2>1 DEF OwnRow
<1>2. Change(n, mem.number[n]) \in inst.nodes \X (Nat \ {0})
  BY <1>1 DEF Change, Nodes
<1> QED BY ZenonT(60), <1>1, <1>2 DEF WithCompletion, Typed, MemOf, PatchesOf, Alike, Nodes

LEMMA CompletionKeepsRows ==
  ASSUME Typed, RowsInv, NEW n \in Nodes, OwnRow(attempts[n], mem.number[n]),
         NEW edge \in IdsOf(inst) \cup {NoEdge}, RecordCompletion(n, edge),
         n \in Gates => verdicts[n].verdict = "approved",
         inst' = inst, trans' = trans, verdicts' = verdicts
  PROVE  RowsInv'
<1> DEFINE k == mem.number[n]
<1>1. /\ attempts' \in TablesOf(inst) /\ Grows(attempts, attempts')
      /\ OnlyAt(n, attempts, attempts') /\ DOMAIN attempts'[n] = DOMAIN attempts[n]
      /\ \A j \in DOMAIN attempts[n] \ {k} : attempts'[n][j] = attempts[n][j]
  BY CompletionWrites
<1>2. TransDone'
  BY <1>1, TransKept DEF TransDone
<1>3. VerdictsOnBlocks'
  BY <1>1, Facts DEF RowsInv, VerdictsOnBlocks, Grows, Gates, TerminalStatuses
<1>4. GatesNeedApproval'
  <2> SUFFICES ASSUME NEW g \in Gates, NEW j \in DOMAIN attempts'[g],
                      attempts'[g][j].status = "completed"
               PROVE  /\ verdicts[g].verdict = "approved"
                      /\ verdicts[g].attempt \in 1 .. (j - 1)
    BY <1>3 DEF GatesNeedApproval, VerdictsOnBlocks, Gates
  <2>1. CASE g = n /\ j = k
    <3>1. /\ verdicts[g].verdict = "approved"
          /\ verdicts[g].attempt \in DOMAIN attempts[n]
          /\ attempts[n][verdicts[g].attempt].status = "blocked"
      BY <2>1 DEF RowsInv, VerdictsOnBlocks
    <3>2. attempts[n] \in Seq(RowOf(inst)) /\ k \in DOMAIN attempts[n]
      BY Facts DEF Typed, TablesOf, OwnRow
    <3>3. DOMAIN attempts[n] = 1 .. Len(attempts[n]) /\ Len(attempts[n]) \in Nat
      BY <3>2
    <3>4. verdicts[g].attempt # k /\ ~(verdicts[g].attempt > k)
      BY <3>1 DEF OwnRow
    <3> QED BY <2>1, <3>1, <3>2, <3>3, <3>4
  <2>2. CASE ~(g = n /\ j = k)
    <3>1. j \in DOMAIN attempts[g] /\ attempts[g][j].status = "completed"
      BY <1>1, <2>2, Facts DEF OnlyAt
    <3> QED BY <3>1 DEF RowsInv, GatesNeedApproval
  <2> QED BY <2>1, <2>2
<1> QED BY <1>2, <1>3, <1>4 DEF RowsInv

LEMMA FreshSource ==
  ASSUME TransDone, NEW n, OwnRow(attempts[n], mem.number[n])
  PROVE  BySource(trans, n, mem.number[n]) = {}
BY DEF TransDone, OwnRow, BySource

LEMMA CompletionStep ==
  ASSUME IInv, NEW n \in Nodes, Route(n) \/ Complete(n)
  PROVE  IInv' /\ Extends
<1>1. /\ pc = "work" /\ inst' = inst /\ run' = run /\ trans' = trans
      /\ verdicts' = verdicts /\ mem.stage[n] # "none"
  BY DEF Route, Complete
<1>2. Typed /\ Places /\ Flight /\ Captured /\ RowsInv
  BY DEF IInv
<1>3. \A m \in Nodes : ~Following(m)
  BY <1>1 DEF Following
<1>4. OwnRow(attempts[n], mem.number[n])
  BY <1>1, <1>2, <1>3 DEF Flight
<1>5. n \in NodeIds /\ Nodes \subseteq NodeIds /\ Gates \subseteq Nodes /\ Nodes' = Nodes
      /\ Gates' = Gates
  BY <1>1, <1>2, Facts DEF Nodes, Gates
<1>6. n \in Gates => verdicts[n].verdict = "approved"
  BY <1>2, Facts DEF Route, Complete, Captured
<1>7. WithCompletion(n) \in MemOf(inst) /\ Alike(mem, WithCompletion(n))
  BY <1>2, <1>4, CompletedMem
<1>8. \E edge \in IdsOf(inst) \cup {NoEdge} :
        /\ RecordCompletion(n, edge)
        /\ \/ /\ mem' \in MemOf(inst) /\ Alike(mem, mem')
              /\ \E id \in EdgeIds : Follow("feedback", n, id) \/ Follow("prune", n, id)
           \/ mem' = Leave(WithCompletion(n), n) /\ pc' = pc /\ cur' = cur
  <2>1. CASE Route(n)
    <3>1. PICK e \in Selectable(n) :
            /\ RecordCompletion(n, e.id)
            /\ \/ mem' = WithCompletion(n) /\ Follow("feedback", n, e.id)
               \/ /\ mem' = [WithCompletion(n) EXCEPT
                        !.dead = @ \cup {f.id : f \in Out(Forward(Edges), n) \ {e}}]
                  /\ Follow("prune", n, e.id)
      BY <2>1 DEF Route
    <3>2. e.id \in IdsOf(inst) /\ e.id \in EdgeIds
      BY DEF Selectable, Out, IdsOf, EdgeIds, Edges
    <3>3. {f.id : f \in Out(Forward(Edges), n) \ {e}} \in SUBSET IdsOf(inst)
      BY DEF Out, Forward, IdsOf, Edges
    <3>4. mem' \in MemOf(inst) /\ Alike(mem, mem')
      <4>1. CASE mem' = WithCompletion(n)
        BY <1>7, <4>1
      <4>2. CASE mem' = [WithCompletion(n) EXCEPT
                           !.dead = @ \cup {f.id : f \in Out(Forward(Edges), n) \ {e}}]
        BY <1>7, <3>3, <4>2 DEF MemOf, Alike
      <4> QED BY <3>1, <4>1, <4>2
    <3> QED BY <3>1, <3>2, <3>4
  <2>2. CASE Complete(n)
    <3>1. RecordCompletion(n, NoEdge)
      BY <2>2 DEF Complete
    <3>2. CASE Out(Feedback(Edges), n) # {} /\ mem' = WithCompletion(n)
                 /\ Follow("feedback", n, FeedbackEdge(n).id)
      <4>1. FeedbackEdge(n).id \in EdgeIds
        BY <3>2 DEF FeedbackEdge, Out, Feedback, EdgeIds
      <4> QED BY <1>7, <3>1, <3>2, <4>1
    <3>3. CASE mem' = Leave(WithCompletion(n), n) /\ UNCHANGED <<pc, cur>>
      BY <3>1, <3>3
    <3> QED BY <2>2, <3>2, <3>3 DEF Complete
  <2> QED BY <2>1, <2>2
<1>9. PICK edge \in IdsOf(inst) \cup {NoEdge} :
        /\ RecordCompletion(n, edge)
        /\ \/ /\ mem' \in MemOf(inst) /\ Alike(mem, mem')
              /\ \E id \in EdgeIds : Follow("feedback", n, id) \/ Follow("prune", n, id)
           \/ mem' = Leave(WithCompletion(n), n) /\ pc' = pc /\ cur' = cur
  BY <1>8
<1>10. RowsInv'
  BY <1>1, <1>2, <1>4, <1>6, <1>9, CompletionKeepsRows
<1>11. /\ attempts' \in TablesOf(inst) /\ Grows(attempts, attempts')
       /\ OnlyAt(n, attempts, attempts')
       /\ mem.number[n] \in DOMAIN attempts'[n]
       /\ attempts'[n][mem.number[n]].status = "completed"
  BY <1>2, <1>4, <1>9, CompletionWrites
<1>12. SnapsOf(inst, ckpts')
  BY <1>2, <1>9, CheckpointOne, SetsOfMem DEF RecordCompletion
<1>13. mem.stage \in [NodeIds -> Stages] /\ mem.number \in [NodeIds -> Nat]
  BY <1>2 DEF Typed, MemOf
<1>14. CASE mem' = Leave(WithCompletion(n), n) /\ pc' = pc /\ cur' = cur
  <2>1. /\ mem' \in MemOf(inst) /\ mem'.iteration = mem.iteration
        /\ mem'.stage = [mem.stage EXCEPT ![n] = "none"]
        /\ mem'.number = [mem.number EXCEPT ![n] = 0]
    BY <1>5, <1>7, <1>14, LeaveIs DEF Alike
  <2>2. Typed'
    BY <1>1, <1>2, <1>11, <1>12, <2>1 DEF Typed
  <2>3. Places'
    BY <1>1, <1>2, <1>14, <2>1 DEF Places, Quiet
  <2>4. Flight'
    BY <1>2, <1>3, <1>5, <1>11, <1>13, <2>1 DEF Flight, OnlyAt
  <2>5. Captured'
    BY <1>1, <1>2, <1>5, <1>13, <2>1 DEF Captured
  <2> QED BY <1>1, <1>10, <1>11, <2>2, <2>3, <2>4, <2>5 DEF IInv, Extends
<1>15. CASE /\ mem' \in MemOf(inst) /\ Alike(mem, mem')
            /\ \E id \in EdgeIds : Follow("feedback", n, id) \/ Follow("prune", n, id)
  <2>1. /\ pc' \in {"feedback", "prune"} /\ cur'.node = n /\ cur'.back = "work"
        /\ cur'.edge \in EdgeIds
    BY <1>15 DEF Follow
  <2>2. Typed'
    BY <1>1, <1>2, <1>11, <1>12, <1>15 DEF Typed
  <2>3. SourceAttempt' = mem.number[n] /\ BySource(trans, n, mem.number[n]) = {}
    BY <1>2, <1>4, <1>15, <2>1, FreshSource DEF SourceAttempt, Alike, RowsInv
  <2>4. Places'
    BY <1>1, <1>2, <1>5, <1>11, <1>15, <2>1, <2>3 DEF Places, Quiet, Alike, EdgeIds, Edges
  <2>5. Flight'
    BY <1>2, <1>3, <1>5, <1>11, <1>15, <2>1 DEF Flight, Following, OnlyAt, Alike
  <2>6. Captured'
    BY <1>1, <1>2, <1>5, <1>15 DEF Captured, Alike
  <2> QED BY <1>1, <1>10, <1>11, <2>2, <2>4, <2>5, <2>6 DEF IInv, Extends
<1> QED BY <1>9, <1>14, <1>15

-----------------------------------------------------------------------------
(* The start of a batch's node.                                             *)

LEMMA Iterating ==
  ASSUME Typed, Places, pc \notin {"idle", "starting"}
  PROVE  mem.iteration \in Nat \ {0}
BY DEF Typed, Places, RunRows, NoRun

\* A row is taken or made, and ended at once.
LEMMA TakenAndEnded ==
  ASSUME Typed, mem.iteration # 0, NEW n \in NodeIds, NEW status \in {"ready", "running"},
         NEW last \in {"skipped", "blocked", "failed"}, NEW note \in Notes,
         NEW it \in Nat \ {0}
  PROVE  /\ Touched(inst, n, attempts, EndLast(Take(n, status), n, last, note))
         /\ Touched(inst, n, attempts,
                    EndLast(RecordAttempt(attempts, n, status, it), n, last, note))
<1>1. last \in AttemptStatuses \ {"completed"}
  BY DEF AttemptStatuses, TerminalStatuses
<1>2. /\ OwnRow(Take(n, status)[n], Len(Take(n, status)[n]))
      /\ Touched(inst, n, attempts, Take(n, status)) /\ Take(n, status) \in TablesOf(inst)
  BY TakeIsOwn DEF Touched
<1>3. Touched(inst, n, Take(n, status), EndLast(Take(n, status), n, last, note))
  BY <1>1, <1>2, EndLastTouches
<1> DEFINE new == RecordAttempt(attempts, n, status, it)
<1>4. OwnRow(new[n], Len(new[n])) /\ Touched(inst, n, attempts, new) /\ new \in TablesOf(inst)
  BY RecordedIsOwn DEF Touched, Typed
<1>5. Touched(inst, n, new, EndLast(new, n, last, note))
  BY <1>1, <1>4, EndLastTouches
<1> QED BY <1>2, <1>3, <1>4, <1>5, TouchedTwice

\* The node is accounted for without running.
SettledAtStart(n) ==
  /\ Touched(inst, n, attempts, attempts') /\ SnapsOf(inst, ckpts')
  /\ mem' \in MemOf(inst) /\ mem'.iteration = mem.iteration
  /\ mem'.stage = mem.stage /\ mem'.number = mem.number /\ mem'.batch = mem.batch \ {n}

\* The node is in flight, with the last row as its own.
SetOff(n) ==
  /\ Touched(inst, n, attempts, attempts') /\ SnapsOf(inst, ckpts')
  /\ OwnRow(attempts'[n], Len(attempts'[n]))
  /\ mem' \in MemOf(inst) /\ mem'.iteration = mem.iteration
  /\ \E s \in {"prepare", "leaf"} : mem'.stage = [mem.stage EXCEPT ![n] = s]
  /\ mem'.number = [mem.number EXCEPT ![n] = Len(attempts'[n])]
  /\ mem'.batch = mem.batch \ {n}

LEMMA StartOutcome ==
  ASSUME Typed, mem.iteration # 0, NEW n \in Nodes, StartNode(n)
  PROVE  SettledAtStart(n) \/ SetOff(n)
<1> DEFINE rest == mem.batch \ {n}
<1>1. n \in NodeIds /\ mem \in MemOf(inst) /\ mem.iteration \in Nat \ {0}
  BY Facts DEF Typed, MemOf
<1>2. n = First(mem.batch)
  BY DEF StartNode
<1>3. CASE StartSkipped(n)
  <2>1. mem' = [mem EXCEPT !.batch = rest, !.skipped = @ \cup {n}]
    BY <1>2, <1>3 DEF StartSkipped, Started
  <2>2. /\ mem' \in MemOf(inst) /\ mem'.iteration = mem.iteration
        /\ mem'.stage = mem.stage /\ mem'.number = mem.number /\ mem'.batch = rest
    BY <1>1, <2>1 DEF MemOf, Nodes
  <2>3. Touched(inst, n, attempts, attempts')
    BY <1>1, <1>3, TakenAndEnded DEF StartSkipped, Notes
  <2>4. SnapsOf(inst, ckpts')
    BY <1>3, CheckpointOne, SetsOfMem DEF StartSkipped
  <2> QED BY <2>2, <2>3, <2>4 DEF SettledAtStart
<1>4. CASE StartUnresolved(n)
  <2>1. mem' = [mem EXCEPT !.batch = rest, !.blocked = @ \cup {n},
                           !.nonResumable = @ \cup {n}]
    BY <1>2, <1>4 DEF StartUnresolved, Started
  <2>2. /\ mem' \in MemOf(inst) /\ mem'.iteration = mem.iteration
        /\ mem'.stage = mem.stage /\ mem'.number = mem.number /\ mem'.batch = rest
    BY <1>1, <2>1 DEF MemOf, Nodes
  <2>3. (IF n \in inst.named THEN "resolution" ELSE "slot") \in Notes
    BY DEF Notes
  <2>4. Touched(inst, n, attempts, attempts')
    BY <1>1, <1>4, <2>3, TakenAndEnded DEF StartUnresolved
  <2>5. SnapsOf(inst, ckpts')
    BY <1>4, CheckpointTwo, SetsOfMem DEF StartUnresolved
  <2> QED BY <2>2, <2>4, <2>5 DEF SettledAtStart
<1>5. CASE StartRoleFailure(n)
  <2>1. mem' = [mem EXCEPT !.batch = rest, !.failed = @ \cup {n}]
    BY <1>2, <1>5 DEF StartRoleFailure, Started
  <2>2. /\ mem' \in MemOf(inst) /\ mem'.iteration = mem.iteration
        /\ mem'.stage = mem.stage /\ mem'.number = mem.number /\ mem'.batch = rest
    BY <1>1, <2>1 DEF MemOf, Nodes
  <2>3. Touched(inst, n, attempts, attempts')
    BY <1>1, <1>5, TakenAndEnded DEF StartRoleFailure, Notes
  <2>4. SnapsOf(inst, ckpts')
    BY <1>5, CheckpointTwo, SetsOfMem DEF StartRoleFailure
  <2> QED BY <2>2, <2>3, <2>4 DEF SettledAtStart
<1>6. CASE StartRunning(n)
  <2>1. /\ OwnRow(attempts'[n], Len(attempts'[n]))
        /\ Touched(inst, n, attempts, attempts')
    BY <1>1, <1>6, TakeIsOwn DEF StartRunning
  <2>2. Len(attempts'[n]) \in Nat
    BY <1>1, <2>1 DEF Touched, TablesOf
  <2>3. PICK s \in {"prepare", "leaf"} :
          mem' = [mem EXCEPT !.batch = rest, !.stage[n] = s, !.number[n] = Len(attempts'[n])]
    BY <1>2, <1>6 DEF StartRunning, Started
  <2>4. /\ mem' \in MemOf(inst) /\ mem'.iteration = mem.iteration
        /\ mem'.stage = [mem.stage EXCEPT ![n] = s]
        /\ mem'.number = [mem.number EXCEPT ![n] = Len(attempts'[n])]
        /\ mem'.batch = rest
    BY <1>1, <2>2, <2>3 DEF MemOf, Stages, Nodes
  <2>5. SnapsOf(inst, ckpts')
    BY <1>6, CheckpointOne, SetsOfMem DEF StartRunning
  <2> QED BY <2>1, <2>4, <2>5 DEF SetOff
<1> QED BY <1>3, <1>4, <1>5, <1>6 DEF StartNode

LEMMA StartStep ==
  ASSUME IInv, NEW n \in Nodes, StartNode(n)
  PROVE  IInv' /\ Extends
<1>1. /\ pc = "start" /\ inst' = inst /\ run' = run /\ trans' = trans
      /\ verdicts' = verdicts /\ cur' = cur /\ n = First(mem.batch)
      /\ pc' = IF mem.batch = {n} THEN "work" ELSE "start"
  BY DEF StartNode, AfterStart
<1>2. Typed /\ Places /\ Flight /\ Captured /\ RowsInv
  BY DEF IInv
<1>3. mem.iteration # 0
  BY <1>1, <1>2, Iterating
<1>4. n \in mem.batch /\ mem.stage[n] = "none" /\ mem.batch \subseteq Nodes
  <2>1. mem.batch \in SUBSET NodeIds /\ mem.batch # {} /\ mem.batch \subseteq Nodes
    BY <1>1, <1>2, Facts DEF Typed, MemOf, Places, Nodes
  <2> QED BY <1>1, <1>2, <2>1, FirstIn DEF Places
<1>5. n \in NodeIds /\ Nodes \subseteq NodeIds /\ Gates \subseteq Nodes /\ Nodes' = Nodes
      /\ Gates' = Gates
  BY <1>1, <1>2, Facts DEF Nodes, Gates
<1>6. mem.stage \in [NodeIds -> Stages] /\ mem.number \in [NodeIds -> Nat]
  BY <1>2 DEF Typed, MemOf
<1>7. SettledAtStart(n) \/ SetOff(n)
  BY <1>2, <1>3, StartOutcome
<1>8. Touched(inst, n, attempts, attempts')
  BY <1>7 DEF SettledAtStart, SetOff
<1>9. RowsInv' /\ attempts' \in TablesOf(inst) /\ Grows(attempts, attempts')
  BY <1>1, <1>2, <1>5, <1>8, TouchedKeeps
<1>10. Typed'
  BY <1>1, <1>2, <1>7, <1>9 DEF Typed, SettledAtStart, SetOff
<1>11. \A m \in Nodes \ {n} : mem'.stage[m] = mem.stage[m] /\ mem'.number[m] = mem.number[m]
  BY <1>5, <1>6, <1>7 DEF SettledAtStart, SetOff
<1>12. mem'.batch = mem.batch \ {n} /\ mem'.iteration = mem.iteration
  BY <1>7 DEF SettledAtStart, SetOff
<1>13. Places'
  BY <1>1, <1>2, <1>4, <1>11, <1>12 DEF Places, Quiet
<1>14. \A m \in Nodes : ~Following(m)
  BY <1>1 DEF Following
<1>15. mem'.stage[n] # "none" => OwnRow(attempts'[n], mem'.number[n]) /\ mem'.stage[n] # "capture"
  BY <1>4, <1>5, <1>6, <1>7 DEF SettledAtStart, SetOff
<1>16. Flight'
  BY <1>2, <1>5, <1>8, <1>11, <1>14, <1>15 DEF Flight, Touched, OnlyAt
<1>17. Captured'
  BY <1>1, <1>2, <1>5, <1>11, <1>15 DEF Captured
<1> QED BY <1>1, <1>9, <1>10, <1>13, <1>16, <1>17 DEF IInv, Extends

-----------------------------------------------------------------------------
(* What run() reads back at its start.                                      *)

LEMMA LastIn ==
  ASSUME NEW S \in SUBSET NodeIds, S # {}, IsFiniteSet(S)
  PROVE  \E n \in S : \A m \in S : Rank[m] <= Rank[n]
<1> DEFINE Above(n) == {m \in S : Rank[m] > Rank[n]}
           T == {Cardinality(Above(n)) : n \in S}
<1>1. \A n \in S : IsFiniteSet(Above(n)) /\ Cardinality(Above(n)) \in Nat
  <2> TAKE n \in S
  <2>1. Above(n) \in SUBSET S
    OBVIOUS
  <2> HIDE DEF Above
  <2>2. IsFiniteSet(Above(n))
    BY <2>1, FS_Subset
  <2> QED BY <2>2, FS_CardinalityType
<1>2. T \in SUBSET Nat /\ T # {}
  <2> HIDE DEF Above
  <2> QED BY <1>1
<1>3. PICK x \in T : \A y \in T : x <= y
  <2> HIDE DEF T
  <2> QED BY <1>2, LeastNat
<1>4. PICK n \in S : \A m \in S : Cardinality(Above(n)) <= Cardinality(Above(m))
  <2> HIDE DEF Above
  <2> QED BY <1>3
<1>5. ASSUME NEW m \in S, ~(Rank[m] <= Rank[n]) PROVE FALSE
  <2>1. \A l \in S : Rank[l] \in Nat
    BY GraphExecutorAssumption
  <2>2. m \in Above(n) /\ m \notin Above(m) /\ Above(m) \in SUBSET Above(n)
    BY <1>5, <2>1
  <2> HIDE DEF Above
  <2>3. Cardinality(Above(m)) <= Cardinality(Above(n))
        /\ (Cardinality(Above(n)) = Cardinality(Above(m)) => Above(n) = Above(m))
    BY <1>1, <2>2, FS_Subset
  <2> QED BY <1>1, <1>4, <1>5, <2>2, <2>3
<1> QED BY <1>4, <1>5

LEMMA GreatestUpTo ==
  ASSUME NEW N \in Nat, NEW K \in SUBSET (1 .. N), K # {}
  PROVE  \E k \in K : \A j \in K : j <= k
<1> DEFINE T == {N - k : k \in K}
<1>1. T \in SUBSET Nat /\ T # {}
  <2>1. \A k \in 1 .. N : N - k \in Nat
    OBVIOUS
  <2> QED BY <2>1
<1>2. PICK x \in T : \A y \in T : x <= y
  <2> HIDE DEF T
  <2> QED BY <1>1, LeastNat
<1>3. PICK k \in K : x = N - k
  BY <1>2
<1>4. \A j \in K : N - k <= N - j
  BY <1>2, <1>3
<1> QED BY <1>4

LEMMA RestoredPatchTyped ==
  ASSUME Typed
  PROVE  RestoredPatch \in PatchesOf(inst)
<1> DEFINE K(n) == {k \in DOMAIN attempts[n] :
                      /\ attempts[n][k].status = "completed"
                      /\ attempts[n][k].iteration < run.iteration}
           S == {n \in Writers : K(n) # {}}
<1>1. Writers \subseteq NodeIds /\ Writers \subseteq inst.nodes /\ IsFiniteSet(inst.nodes)
  BY Facts DEF Nodes
<1>2. \A n \in Writers : /\ Len(attempts[n]) \in Nat
                         /\ K(n) \subseteq 1 .. Len(attempts[n])
  <2> TAKE n \in Writers
  <2>1. attempts[n] \in Seq(RowOf(inst))
    BY <1>1 DEF Typed, TablesOf
  <2> QED BY <2>1
<1>3. PriorChanges = UNION {{<<n, k>> : k \in K(n)} : n \in Writers}
  BY DEF PriorChanges, Change
<1> HIDE DEF K
<1>4. \A c \in PriorChanges : \E n \in S : \E k \in K(n) : c = <<n, k>>
  BY <1>3
<1>5. \A n \in S : \A k \in K(n) : <<n, k>> \in PriorChanges
  BY <1>3
<1>6. PriorChanges \subseteq inst.nodes \X (Nat \ {0})
  BY <1>1, <1>2, <1>4
<1>7. ASSUME PriorChanges # {}
      PROVE  \E c \in PriorChanges : \A d \in PriorChanges :
               Rank[d[1]] < Rank[c[1]] \/ (d[1] = c[1] /\ d[2] <= c[2])
  <2>1. S \in SUBSET NodeIds /\ S # {} /\ S \in SUBSET inst.nodes
    BY <1>1, <1>4, <1>7
  <2>2. IsFiniteSet(S)
    BY <1>1, <2>1, FS_Subset
  <2>3. PICK n \in S : \A m \in S : Rank[m] <= Rank[n]
    BY <2>1, <2>2, LastIn
  <2>4. PICK k \in K(n) : \A j \in K(n) : j <= k
    <3>1. n \in Writers /\ K(n) # {} /\ K(n) \in SUBSET (1 .. Len(attempts[n]))
      BY <1>2
    <3> QED BY <1>2, <3>1, GreatestUpTo
  <2>5. \A d \in PriorChanges : Rank[d[1]] < Rank[n] \/ (d[1] = n /\ d[2] <= k)
    <3> TAKE d \in PriorChanges
    <3>1. PICK m \in S : \E j \in K(m) : d = <<m, j>>
      BY <1>4
    <3>5. PICK j \in K(m) : d = <<m, j>>
      BY <3>1
    <3>2. Rank[m] <= Rank[n] /\ m \in NodeIds /\ n \in NodeIds
      BY <2>1, <2>3
    <3>3. Rank[m] = Rank[n] => m = n
      BY <3>2, GraphExecutorAssumption
    <3>4. Rank[m] \in Nat /\ Rank[n] \in Nat
      BY <3>2, GraphExecutorAssumption
    <3> QED BY <2>4, <3>5, <3>2, <3>3, <3>4
  <2>6. <<n, k>> \in PriorChanges
    BY <1>5
  <2> QED BY <2>5, <2>6
<1>8. CASE run.iteration <= 1 \/ PriorChanges = {}
  BY <1>8 DEF RestoredPatch, PatchesOf
<1>9. CASE ~(run.iteration <= 1 \/ PriorChanges = {})
  <2>1. RestoredPatch \in PriorChanges
    BY <1>7, <1>9 DEF RestoredPatch
  <2> QED BY <1>6, <2>1 DEF PatchesOf
<1> QED BY <1>8, <1>9

LEMMA EmptyMemTyped ==
  ASSUME NEW i
  PROVE  EmptyMem \in MemOf(i) /\ \A n \in NodeIds : EmptyMem.stage[n] = "none"
BY DEF EmptyMem, MemOf, PatchesOf, Stages

LEMMA HydratedTyped ==
  ASSUME Typed, run \in RunRows, NEW invalid, NEW resume
  PROVE  /\ Hydrated(invalid, resume) \in MemOf(inst)
         /\ Hydrated(invalid, resume).iteration = run.iteration
         /\ \A n \in NodeIds : Hydrated(invalid, resume).stage[n] = "none"
<1>1. EmptyMem \in MemOf(inst) /\ RestoredPatch \in PatchesOf(inst)
  BY EmptyMemTyped, RestoredPatchTyped
<1>2. run.iteration \in Nat
  BY DEF RunRows
<1>3. \A n \in NodeIds : LineageOf(n) \in Nat
  BY DEF LineageOf, Typed, TablesOf
<1> DEFINE m == Hydrated(invalid, resume)
<1>4. /\ m.completed \in SUBSET inst.nodes /\ m.skipped \in SUBSET inst.nodes
      /\ m.failed \in SUBSET inst.nodes /\ m.blocked \in SUBSET inst.nodes
      /\ m.nonResumable \in SUBSET inst.nodes
  BY <1>1 DEF Hydrated, Nodes, MemOf
<1>5. m.iteration = run.iteration /\ m.patch = RestoredPatch
  BY <1>1 DEF Hydrated, MemOf
<1>6. m.lineage \in [NodeIds -> Nat]
  BY <1>1, <1>3 DEF Hydrated, MemOf
<1>7. \E c, s, f, b, nr, it, p, l :
        m = [EmptyMem EXCEPT !.iteration = it, !.patch = p, !.completed = c, !.skipped = s,
                             !.failed = f, !.blocked = b, !.nonResumable = nr, !.lineage = l]
  BY DEF Hydrated
<1> HIDE DEF m
<1>8. m \in MemOf(inst) /\ m.stage = EmptyMem.stage
  <2>1. PICK c, s, f, b, nr, it, p, l :
          m = [EmptyMem EXCEPT !.iteration = it, !.patch = p, !.completed = c, !.skipped = s,
                               !.failed = f, !.blocked = b, !.nonResumable = nr,
                               !.lineage = l]
    BY <1>7
  <2>2. /\ m.completed = c /\ m.skipped = s /\ m.failed = f /\ m.blocked = b
        /\ m.nonResumable = nr /\ m.iteration = it /\ m.patch = p /\ m.lineage = l
        /\ m.stage = EmptyMem.stage
    BY <1>1, <2>1 DEF MemOf
  <2>3. /\ c \in SUBSET inst.nodes /\ s \in SUBSET inst.nodes /\ f \in SUBSET inst.nodes
        /\ b \in SUBSET inst.nodes /\ nr \in SUBSET inst.nodes /\ it \in Nat
        /\ p \in PatchesOf(inst) /\ l \in [NodeIds -> Nat]
    BY <1>1, <1>2, <1>4, <1>5, <1>6, <2>2
  <2>4. m \in MemOf(inst)
    BY <1>1, <2>1, <2>3 DEF MemOf
  <2> QED BY <2>2, <2>4
<1> QED BY <1>5, <1>8, EmptyMemTyped DEF m

-----------------------------------------------------------------------------
(* Steps after which nothing is in flight.                                  *)

LEMMA Quieted ==
  ASSUME IInv, inst' = inst, verdicts' = verdicts, trans' = trans,
         attempts' \in TablesOf(inst), Grows(attempts, attempts'),
         NoneCompletes(attempts, attempts'),
         SnapsOf(inst, ckpts'), mem' \in MemOf(inst), run' \in RunRows \cup {NoRun},
         \A n \in Nodes : mem'.stage[n] = "none",
         pc' \in {"idle", "hydrated", "sched", "ending", "starting"},
         pc' \notin {"idle", "starting"} =>
           run'.status = "running" /\ mem'.iteration = run'.iteration
  PROVE  IInv'
<1>1. Typed /\ Places /\ Flight /\ Captured /\ RowsInv
  BY DEF IInv
<1>2. RowsInv'
  BY <1>1, RowsKept
<1>3. Typed'
  BY <1>1 DEF Typed
<1>4. Places'
  BY <1>1 DEF Places, Quiet, Nodes
<1>5. Flight'
  BY DEF Flight, Nodes
<1>6. Captured'
  BY <1>1, Facts DEF Captured, Nodes, Gates
<1> QED BY <1>2, <1>3, <1>4, <1>5, <1>6 DEF IInv

LEMMA Unchanged ==
  ASSUME Typed, attempts' = attempts
  PROVE  /\ attempts' \in TablesOf(inst) /\ Grows(attempts, attempts')
         /\ NoneCompletes(attempts, attempts')
BY DEF Typed, Grows, NoneCompletes

LEMMA StartRunStep ==
  ASSUME IInv, StartRun
  PROVE  /\ IInv' /\ run = NoRun /\ run'.status = "running" /\ run'.iteration = 1
         /\ attempts' = attempts /\ trans' = trans
<1>1. Typed
  BY DEF IInv
<1>2. mem' \in MemOf(inst) /\ mem'.iteration = 1 /\ \A n \in NodeIds : mem'.stage[n] = "none"
  <2>1. EmptyMem \in MemOf(inst) /\ \A n \in NodeIds : EmptyMem.stage[n] = "none"
    BY EmptyMemTyped
  <2> QED BY <2>1 DEF StartRun, MemOf
<1>3. run' \in RunRows /\ run'.status = "running" /\ run'.iteration = 1
  BY DEF StartRun, RunRows, RunStatuses
<1>4. IInv'
  BY <1>1, <1>2, <1>3, Quieted, Unchanged, Facts DEF StartRun, Typed
<1> QED BY <1>3, <1>4 DEF StartRun

LEMMA ReopenStep ==
  ASSUME IInv, NEW invalid, NEW resume, Reopen(invalid, resume), SnapsOf(inst, ckpts')
  PROVE  IInv' /\ Extends
<1>1. Typed
  BY DEF IInv
<1>2. run \in RunRows
  BY <1>1 DEF Typed, Reopen
<1>3. run' \in RunRows /\ run'.status = "running" /\ run'.iteration = run.iteration
  BY <1>2 DEF Reopen, RunRows, RunStatuses
<1>4. mem' \in MemOf(inst) /\ mem'.iteration = run.iteration
      /\ \A n \in Nodes : mem'.stage[n] = "none"
  BY <1>1, <1>2, HydratedTyped, Facts DEF Reopen
<1>5. IInv'
  BY <1>1, <1>3, <1>4, Quieted, Unchanged DEF Reopen
<1> QED BY <1>1, <1>3, <1>5, Unchanged DEF Extends, Reopen

LEMMA ResumeStep ==
  ASSUME IInv, Resume
  PROVE  IInv' /\ Extends
BY ReopenStep DEF Resume, IInv, Typed

LEMMA RerunStep ==
  ASSUME IInv, NEW n \in Nodes, RerunNode(n)
  PROVE  IInv' /\ Extends
<1>1. {} \in SUBSET Nodes /\ Checkpoint(<<Snap("node.rerun_scheduled", {})>>)
  BY DEF RerunNode
<1>2. SnapsOf(inst, ckpts')
  BY <1>1, CheckpointOne DEF IInv
<1> QED BY <1>2, ReopenStep DEF RerunNode

LEMMA SchedStep ==
  ASSUME IInv, Sched
  PROVE  IInv' /\ Extends
<1>1. Typed /\ Places /\ Flight /\ Captured /\ RowsInv
  BY DEF IInv
<1>2. /\ pc = "sched" /\ inst' = inst /\ run' = run /\ trans' = trans /\ attempts' = attempts
      /\ verdicts' = verdicts /\ ckpts' = ckpts /\ cur' = cur
      /\ run.status = "running" /\ mem.iteration = run.iteration
      /\ \A n \in Nodes : mem.stage[n] = "none"
  BY <1>1 DEF Sched, durable, Places, Quiet
<1>3. Grows(attempts, attempts')
  BY <1>1, <1>2, Unchanged
<1>4. CASE Batch # {} /\ pc' = "start" /\ mem' = [mem EXCEPT !.batch = Batch]
  <2>1. Batch \in SUBSET inst.nodes
    BY DEF Batch, Candidates, ReadyNodes, Nodes
  <2>2. /\ mem' \in MemOf(inst) /\ mem'.stage = mem.stage /\ mem'.iteration = mem.iteration
        /\ mem'.batch = Batch
    BY <1>1, <1>4, <2>1 DEF Typed, MemOf
  <2>3. RowsInv'
    BY <1>1, <1>2, RowsKept, Unchanged
  <2>4. Typed'
    BY <1>1, <1>2, <2>2 DEF Typed
  <2>5. Places'
    BY <1>2, <1>4, <2>1, <2>2 DEF Places, Quiet, Nodes
  <2>6. Flight'
    BY <1>2, <2>2 DEF Flight, Nodes
  <2>7. Captured'
    BY <1>1, <1>2, <2>2, Facts DEF Captured, Nodes, Gates
  <2> QED BY <1>2, <1>3, <2>3, <2>4, <2>5, <2>6, <2>7 DEF IInv, Extends
<1>5. CASE pc' = "ending" /\ mem' = mem
  <2>1. IInv'
    BY <1>1, <1>2, <1>5, Quieted, Unchanged DEF Typed
  <2> QED BY <1>2, <1>3, <2>1 DEF Extends
<1> QED BY <1>4, <1>5 DEF Sched

LEMMA ReturnIsQuiet ==
  ASSUME Typed, NEW answer, Return(answer)
  PROVE  pc' = "idle" /\ mem' \in MemOf(inst) /\ \A n \in Nodes : mem'.stage[n] = "none"
BY EmptyMemTyped, Facts DEF Return

LEMMA BatchDoneStep ==
  ASSUME IInv, BatchDone
  PROVE  IInv' /\ Extends
<1>1. Typed /\ Places
  BY DEF IInv
<1>2. /\ pc = "work" /\ inst' = inst /\ run' = run /\ trans' = trans /\ attempts' = attempts
      /\ verdicts' = verdicts /\ ckpts' = ckpts
      /\ run.status = "running" /\ mem.iteration = run.iteration
      /\ \A n \in Nodes : mem.stage[n] = "none"
  BY <1>1 DEF BatchDone, durable, Places, InFlight
<1>3. \/ pc' = "idle" /\ mem' \in MemOf(inst) /\ \A n \in Nodes : mem'.stage[n] = "none"
      \/ pc' = "sched" /\ mem' = mem
  BY <1>1, ReturnIsQuiet DEF BatchDone
<1>4. IInv'
  BY <1>1, <1>2, <1>3, Quieted, Unchanged DEF Typed
<1> QED BY <1>1, <1>2, <1>4, Unchanged DEF Extends

LEMMA EndingStep ==
  ASSUME IInv, Ending
  PROVE  IInv' /\ Extends
<1>1. Typed /\ Places
  BY DEF IInv
<1>2. /\ pc = "ending" /\ inst' = inst /\ trans' = trans /\ attempts' = attempts
      /\ verdicts' = verdicts /\ ckpts' = ckpts /\ run.status = "running"
  BY <1>1 DEF Ending, Places
<1>3. run \in RunRows
  BY <1>1, <1>2 DEF Typed, NoRun
<1>4. pc' = "idle" /\ mem' \in MemOf(inst) /\ \A n \in Nodes : mem'.stage[n] = "none"
  BY <1>1, ReturnIsQuiet DEF Ending
<1>5. Outcome \in RunStatuses
  BY DEF Outcome, RunStatuses
<1>6. run' = run \/ \E status \in RunStatuses :
                      run' = [run EXCEPT !.status = status, !.finished = TRUE]
  <2>1. "cancelled" \in RunStatuses
    BY DEF RunStatuses
  <2>2. HandleCancellation => Finish("cancelled")
    BY DEF HandleCancellation
  <2> QED BY <1>5, <2>1, <2>2 DEF Ending, Finish
<1>7. run' \in RunRows /\ run'.iteration = run.iteration
  BY <1>3, <1>6 DEF RunRows
<1>8. IInv'
  BY <1>1, <1>2, <1>4, <1>7, Quieted, Unchanged DEF Typed
<1> QED BY <1>1, <1>2, <1>7, <1>8, Unchanged DEF Extends

LEMMA CrashStep ==
  ASSUME IInv, Crash
  PROVE  IInv' /\ Extends
<1>1. Typed
  BY DEF IInv
<1>2. /\ pc' = "starting" /\ inst' = inst /\ trans' = trans /\ attempts' = attempts
      /\ verdicts' = verdicts /\ ckpts' = ckpts /\ run' = run
  BY DEF Crash, durable
<1>3. mem' \in MemOf(inst) /\ \A n \in Nodes : mem'.stage[n] = "none"
  BY <1>1, EmptyMemTyped, Facts DEF Crash
<1>4. IInv'
  BY <1>1, <1>2, <1>3, Quieted, Unchanged DEF Typed
<1> QED BY <1>1, <1>2, <1>4, Unchanged DEF Extends

LEMMA FailRunningRows ==
  ASSUME Typed
  PROVE  FailRunning \in TablesOf(inst) /\ Grows(attempts, FailRunning)
           /\ NoneCompletes(attempts, FailRunning)
<1> DEFINE Marked(row) == IF row.status = "running"
                          THEN [row EXCEPT !.status = "failed", !.note = "other"] ELSE row
<1>1. ASSUME NEW row \in RowOf(inst)
      PROVE  /\ Marked(row) \in RowOf(inst) /\ Marked(row).iteration = row.iteration
             /\ row.status \in TerminalStatuses => Marked(row) = row
             /\ Marked(row).status = "completed" => row.status = "completed"
  BY DEF RowOf, AttemptStatuses, TerminalStatuses, Notes
<1>2. ASSUME NEW n \in NodeIds
      PROVE  /\ FailRunning[n] \in Seq(RowOf(inst))
             /\ DOMAIN FailRunning[n] = DOMAIN attempts[n]
             /\ \A k \in DOMAIN attempts[n] : /\ attempts[n][k] \in RowOf(inst)
                                              /\ FailRunning[n][k] = Marked(attempts[n][k])
  <2>1. attempts[n] \in Seq(RowOf(inst))
    BY DEF Typed, TablesOf
  <2>2. FailRunning[n] = [k \in DOMAIN attempts[n] |-> Marked(attempts[n][k])]
    BY DEF FailRunning
  <2> HIDE DEF Marked
  <2>3. /\ DOMAIN attempts[n] = 1 .. Len(attempts[n]) /\ Len(attempts[n]) \in Nat
        /\ \A k \in DOMAIN attempts[n] : attempts[n][k] \in RowOf(inst)
    BY <2>1
  <2>4. [k \in 1 .. Len(attempts[n]) |-> Marked(attempts[n][k])] \in Seq(RowOf(inst))
    BY <1>1, <2>3
  <2> QED BY <2>2, <2>3, <2>4
<1>3. FailRunning \in TablesOf(inst)
  <2>1. FailRunning = [n \in NodeIds |-> FailRunning[n]]
    BY DEF FailRunning
  <2>2. \A n \in NodeIds : FailRunning[n] \in Seq(RowOf(inst))
    BY <1>2
  <2> QED BY <2>1, <2>2 DEF TablesOf
<1> HIDE DEF Marked
<1>4. Grows(attempts, FailRunning)
  BY <1>1, <1>2 DEF Grows
<1>5. NoneCompletes(attempts, FailRunning)
  BY <1>1, <1>2 DEF NoneCompletes
<1> QED BY <1>3, <1>4, <1>5

LEMMA RecoverStep ==
  ASSUME IInv, Recover
  PROVE  IInv' /\ Extends
<1>1. Typed /\ Places
  BY DEF IInv
<1>2. /\ pc = "starting" /\ pc' = "idle" /\ inst' = inst /\ trans' = trans
      /\ verdicts' = verdicts /\ ckpts' = ckpts /\ mem' = mem
  BY DEF Recover
<1>3. /\ attempts' \in TablesOf(inst) /\ Grows(attempts, attempts')
      /\ NoneCompletes(attempts, attempts')
  BY <1>1, FailRunningRows, Unchanged DEF Recover
<1>4. \/ run' = run
      \/ /\ run.status = "running"
         /\ run' = [run EXCEPT !.status = "failed", !.finished = TRUE]
  BY DEF Recover, Finish, Interrupted
<1>5. run' \in RunRows \cup {NoRun} /\ run'.iteration = run.iteration
  <2>1. CASE run' = run
    BY <1>1, <2>1 DEF Typed
  <2>2. CASE /\ run.status = "running"
             /\ run' = [run EXCEPT !.status = "failed", !.finished = TRUE]
    <3>1. run \in RunRows
      BY <1>1, <2>2 DEF Typed, NoRun
    <3> QED BY <2>2, <3>1 DEF RunRows, RunStatuses
  <2> QED BY <1>4, <2>1, <2>2
<1>6. \A n \in Nodes : mem.stage[n] = "none"
  BY <1>1, <1>2 DEF Places, Quiet
<1>7. IInv'
  BY <1>1, <1>2, <1>3, <1>5, <1>6, Quieted DEF Typed
<1> QED BY <1>2, <1>3, <1>5, <1>7 DEF Extends

-----------------------------------------------------------------------------
(* Steps beside nodes in flight.                                            *)

LEMMA AbortStep ==
  ASSUME IInv, Abort
  PROVE  IInv' /\ Extends
<1>1. Typed /\ Places /\ Flight /\ Captured /\ RowsInv
  BY DEF IInv
<1>2. /\ pc' = pc /\ inst' = inst /\ trans' = trans /\ attempts' = attempts /\ run' = run
      /\ verdicts' = verdicts /\ ckpts' = ckpts /\ cur' = cur
  BY DEF Abort, durable
<1>3. mem' \in MemOf(inst) /\ Alike(mem, mem')
  BY <1>1 DEF Abort, Typed, MemOf, Alike
<1>4. RowsInv' /\ Grows(attempts, attempts')
  BY <1>1, <1>2, RowsKept, Unchanged
<1>5. Typed'
  BY <1>1, <1>2, <1>3 DEF Typed
<1>6. Places'
  BY <1>1, <1>2, <1>3 DEF Places, Quiet, Alike, Nodes, SourceAttempt, EdgeIds, Edges
<1>7. Flight' /\ Captured'
  BY <1>1, <1>2, <1>3 DEF Flight, Captured, Following, Alike, Nodes, Gates
<1> QED BY <1>2, <1>4, <1>5, <1>6, <1>7 DEF IInv, Extends

\* A new row that is skipped at once lies behind the one a node executes.
LEMMA SkippedBehind ==
  ASSUME NEW i, NEW table \in TablesOf(i), NEW n \in NodeIds
  PROVE  LET new == EndLast(RecordAttempt(table, n, "ready", 1), n, "skipped", "none")
         IN  /\ Touched(i, n, table, new)
             /\ \A k : OwnRow(table[n], k) => OwnRow(new[n], k)
<1> DEFINE one == RecordAttempt(table, n, "ready", 1)
           new == EndLast(one, n, "skipped", "none")
<1>1. OwnRow(one[n], Len(one[n])) /\ Touched(i, n, table, one) /\ one \in TablesOf(i)
  BY RecordedIsOwn DEF Touched
<1>2. "skipped" \in AttemptStatuses \ {"completed"} /\ "ready" \in AttemptStatuses
        /\ "none" \in Notes
  BY DEF AttemptStatuses, TerminalStatuses, Notes
<1>3. Touched(i, n, one, new)
  BY <1>1, <1>2, EndLastTouches
<1>4. Touched(i, n, table, new)
  BY <1>1, <1>3, TouchedTwice
<1>5. /\ Len(one[n]) = Len(table[n]) + 1 /\ DOMAIN one[n] = 1 .. (Len(table[n]) + 1)
      /\ \A k \in DOMAIN table[n] : one[n][k] = table[n][k]
  BY <1>2, Recorded
<1>6. /\ DOMAIN new[n] = DOMAIN one[n] /\ new[n][Len(one[n])].status = "skipped"
      /\ \A j \in DOMAIN one[n] \ {Len(one[n])} : new[n][j] = one[n][j]
  BY <1>1, <1>2, SetTouches DEF OwnRow, EndLast
<1>7. DOMAIN table[n] = 1 .. Len(table[n]) /\ Len(table[n]) \in Nat
  BY DEF TablesOf
<1> HIDE DEF new, one
<1>8. ASSUME NEW k, OwnRow(table[n], k) PROVE OwnRow(new[n], k)
  <2>1. k \in DOMAIN new[n] /\ new[n][k] = table[n][k]
    BY <1>5, <1>6, <1>7, <1>8 DEF OwnRow
  <2>2. ASSUME NEW j \in DOMAIN new[n], j > k
        PROVE  new[n][j].status \in {"ready", "skipped"}
    <3>1. CASE j = Len(table[n]) + 1
      BY <1>5, <1>6, <3>1
    <3>2. CASE j # Len(table[n]) + 1
      BY <1>5, <1>6, <1>7, <1>8, <2>2, <3>2 DEF OwnRow
    <3> QED BY <3>1, <3>2
  <2> QED BY <1>8, <2>1, <2>2 DEF OwnRow
<1> QED BY <1>4, <1>8 DEF new, one

\* SkipNode and PruneNode write such a row.
LEMMA SkippingStep ==
  ASSUME IInv, NEW n \in Nodes,
         attempts' = EndLast(RecordAttempt(attempts, n, "ready", 1), n, "skipped", "none"),
         pc \in {"idle", "work", "prune"}, pc' = pc, cur' = cur, inst' = inst, run' = run,
         trans' = trans, verdicts' = verdicts, SnapsOf(inst, ckpts'),
         mem' \in MemOf(inst), Alike(mem, mem')
  PROVE  IInv' /\ Extends
<1>1. Typed /\ Places /\ Flight /\ Captured /\ RowsInv
  BY DEF IInv
<1>2. n \in NodeIds /\ Nodes \subseteq NodeIds
  BY <1>1, Facts
<1>3. /\ Touched(inst, n, attempts, attempts')
      /\ \A k : OwnRow(attempts[n], k) => OwnRow(attempts'[n], k)
  BY <1>1, <1>2, SkippedBehind DEF Typed
<1>4. RowsInv' /\ attempts' \in TablesOf(inst) /\ Grows(attempts, attempts')
  BY <1>1, <1>2, <1>3, TouchedKeeps
<1>5. Typed'
  BY <1>1, <1>4 DEF Typed
<1>6. Places'
  BY <1>1 DEF Places, Quiet, Alike, Nodes
<1>7. Flight'
  BY <1>1, <1>2, <1>3 DEF Flight, Following, Alike, Nodes, Touched, OnlyAt
<1>8. Captured'
  BY <1>1 DEF Captured, Alike, Gates
<1> QED BY <1>4, <1>5, <1>6, <1>7, <1>8 DEF IInv, Extends

LEMMA SkipStep ==
  ASSUME IInv, NEW n \in Nodes, SkipNode(n)
  PROVE  IInv' /\ Extends
<1>1. {m \in Nodes : LatestStatus(attempts, m) = "blocked"} \in SUBSET Nodes
  OBVIOUS
<1>2. SnapsOf(inst, ckpts')
  BY <1>1, CheckpointOne DEF SkipNode, IInv
<1>3. mem' \in MemOf(inst) /\ Alike(mem, mem')
  BY DEF SkipNode, IInv, Typed, Alike
<1> QED BY <1>2, <1>3, SkippingStep DEF SkipNode

LEMMA PruneNodeStep ==
  ASSUME IInv, PruneNode
  PROVE  IInv' /\ Extends
<1>1. Typed
  BY DEF IInv
<1>2. Prunable \in SUBSET Nodes /\ Prunable # {}
  BY DEF PruneNode, Prunable
<1>3. First(Prunable) \in Nodes
  <2>1. Prunable \in SUBSET NodeIds
    BY <1>1, <1>2, Facts
  <2> QED BY <1>2, <2>1, FirstIn
<1>4. PICK n \in Nodes :
        /\ attempts' = EndLast(RecordAttempt(attempts, n, "ready", 1), n, "skipped", "none")
        /\ mem' = [mem EXCEPT !.skipped = @ \cup {n}]
  BY <1>3 DEF PruneNode
<1>5. mem' \in MemOf(inst) /\ Alike(mem, mem')
  BY <1>1, <1>4 DEF Typed, MemOf, Alike, Nodes
<1>6. SnapsOf(inst, ckpts')
  BY <1>1, <1>4, CheckpointOne, SetsOfMem DEF PruneNode
<1> QED BY <1>4, <1>5, <1>6, SkippingStep DEF PruneNode

LEMMA DecideStep ==
  ASSUME IInv, NEW g \in Gates, DecideGate(g)
  PROVE  IInv' /\ Extends
<1>1. Typed /\ Places /\ Flight /\ Captured /\ RowsInv
  BY DEF IInv
<1>2. /\ pc' = pc /\ cur' = cur /\ inst' = inst /\ run' = run /\ trans' = trans
      /\ attempts' = attempts /\ ckpts' = ckpts /\ mem' = mem
  BY DEF DecideGate
<1>3. PICK verdict \in {"approved", "rejected"} :
        verdicts' = [verdicts EXCEPT ![g] =
                       [verdict |-> verdict, attempt |-> Len(attempts[g])]]
  BY DEF DecideGate
<1>4. g \in NodeIds /\ Gates \subseteq NodeIds /\ Gates = inst.gates
  BY <1>1, Facts DEF Gates
<1>5. /\ Len(attempts[g]) \in Nat /\ Len(attempts[g]) \in DOMAIN attempts[g]
      /\ attempts[g][Len(attempts[g])].status = "blocked"
  <2>1. attempts[g] \in Seq(RowOf(inst)) /\ attempts[g] # << >>
    BY <1>1, <1>4 DEF Typed, TablesOf, DecideGate, LatestStatus
  <2>2. Len(attempts[g]) \in 1 .. Len(attempts[g])
    BY <2>1
  <2> QED BY <2>1, <2>2 DEF DecideGate, LatestStatus, Latest
<1>6. /\ verdicts' \in [inst.gates ->
                         [verdict : {"none", "approved", "rejected"}, attempt : Nat]]
      /\ verdicts'[g].verdict = verdict /\ verdicts'[g].attempt = Len(attempts[g])
      /\ \A h \in Gates \ {g} : verdicts'[h] = verdicts[h]
  BY <1>1, <1>3, <1>4, <1>5 DEF Typed
<1>7. verdicts[g].verdict = "none"
  BY DEF DecideGate, NoVerdict
<1>8. Typed'
  BY <1>1, <1>2, <1>6 DEF Typed
<1>9. Places' /\ Flight'
  BY <1>1, <1>2 DEF Places, Quiet, Flight, Following, Nodes, SourceAttempt, EdgeIds, Edges
<1>10. Captured'
  BY <1>1, <1>2, <1>6, <1>7 DEF Captured, Gates
<1>11. TransDone'
  BY <1>1, <1>2 DEF RowsInv, TransDone, Nodes
<1>12. VerdictsOnBlocks'
  BY <1>1, <1>2, <1>5, <1>6 DEF RowsInv, VerdictsOnBlocks, Gates
<1>13. GatesNeedApproval'
  BY <1>1, <1>2, <1>6, <1>7 DEF RowsInv, GatesNeedApproval, Gates
<1>14. Grows(attempts, attempts')
  BY <1>1, <1>2, Unchanged
<1> QED
  BY <1>2, <1>8, <1>9, <1>10, <1>11, <1>12, <1>13, <1>14 DEF IInv, RowsInv, Extends

LEMMA CheckPendingStep ==
  ASSUME IInv, CheckPending
  PROVE  IInv' /\ Extends
<1>1. Typed /\ Places /\ Flight /\ Captured /\ RowsInv
  BY DEF IInv
<1>2. /\ pc = "hydrated" /\ inst' = inst /\ run' = run /\ trans' = trans
      /\ attempts' = attempts /\ verdicts' = verdicts /\ ckpts' = ckpts /\ mem' = mem
      /\ run.status = "running" /\ mem.iteration = run.iteration
      /\ \A n \in Nodes : mem.stage[n] = "none"
  BY <1>1 DEF CheckPending, durable, Places, Quiet
<1>3. Grows(attempts, attempts')
  BY <1>1, <1>2, Unchanged
<1>4. CASE PendingFeedback = {}
  <2>1. pc' = "sched"
    BY <1>4 DEF CheckPending
  <2>2. IInv'
    BY <1>1, <1>2, <2>1, Quieted, Unchanged DEF Typed
  <2> QED BY <1>2, <1>3, <2>2 DEF Extends
<1>5. CASE PendingFeedback # {}
  <2> DEFINE n == First(PendingFeedback)
             id == IF n \in Routers THEN Latest(attempts, n).edge ELSE FeedbackEdge(n).id
  <2>1. n \in PendingFeedback /\ n \in NodeIds /\ n \in Nodes
    <3>1. PendingFeedback \in SUBSET Nodes /\ PendingFeedback \in SUBSET NodeIds
      BY <1>1, Facts DEF PendingFeedback, Typed, MemOf, Nodes
    <3> QED BY <1>5, <3>1, FirstIn
  <2>2. pc' = "feedback" /\ cur' = [node |-> n, edge |-> id, back |-> "sched"]
    BY <1>5 DEF CheckPending
  <2> HIDE DEF n
  <2>3. /\ LatestStatus(attempts, n) = "completed"
        /\ \E e \in Feedback(Edges) :
             e.source = n /\ (n \in Routers => e.id = Latest(attempts, n).edge)
        /\ BySource(trans, n, Len(attempts[n])) = {}
    BY <2>1 DEF PendingFeedback
  <2>4. id \in EdgeIds
    BY <2>3 DEF EdgeIds, FeedbackEdge, Feedback
  <2> HIDE DEF id
  <2>5. /\ Len(attempts[n]) \in DOMAIN attempts[n]
        /\ attempts[n][Len(attempts[n])].status = "completed"
    <3>1. attempts[n] \in Seq(RowOf(inst)) /\ attempts[n] # << >>
      BY <1>1, <2>1, <2>3 DEF Typed, TablesOf, LatestStatus
    <3>2. Len(attempts[n]) \in 1 .. Len(attempts[n])
      BY <3>1
    <3> QED BY <2>3, <3>1, <3>2 DEF LatestStatus, Latest
  <2>6. SourceAttempt' = Len(attempts[n])
    BY <1>2, <2>2 DEF SourceAttempt
  <2>7. Typed'
    BY <1>1, <1>2 DEF Typed
  <2>8. Places'
    BY <1>2, <2>1, <2>2, <2>3, <2>4, <2>5, <2>6 DEF Places, Quiet, Nodes, EdgeIds, Edges
  <2>9. Flight' /\ Captured'
    BY <1>1, <1>2, Facts DEF Flight, Captured, Nodes, Gates
  <2>10. RowsInv'
    BY <1>1, <1>2, RowsKept, Unchanged
  <2> QED BY <1>2, <1>3, <2>7, <2>8, <2>9, <2>10 DEF IInv, Extends
<1> QED BY <1>4, <1>5

-----------------------------------------------------------------------------
(* The end of a follow-up: its node leaves, and nothing else does.          *)

\* EndFeedback and PruneEnd.
ReturnsTo(m) ==
  /\ mem' = IF cur.back = "work" THEN Leave(m, cur.node) ELSE m
  /\ pc' = cur.back

LEMMA Returned ==
  ASSUME IInv, pc \in {"feedback", "prune"}, NEW m \in MemOf(inst),
         m.stage = mem.stage, m.number = mem.number, ReturnsTo(m), inst' = inst,
         run'.status = run.status, m.iteration = run'.iteration,
         verdicts' = verdicts,
         \A n \in Nodes : \A k : OwnRow(attempts[n], k) => OwnRow(attempts'[n], k)
  PROVE  Places' /\ Flight' /\ Captured' /\ mem' \in MemOf(inst)
<1>1. Typed /\ Places /\ Flight /\ Captured
  BY DEF IInv
<1>2. /\ cur.node \in Nodes /\ cur.back \in {"work", "sched"} /\ run.status = "running"
      /\ Nodes \subseteq NodeIds /\ Gates \subseteq Nodes /\ Nodes' = Nodes /\ Gates' = Gates
  BY <1>1, Facts DEF Places, Nodes, Gates
<1>3. mem.stage \in [NodeIds -> Stages] /\ mem.number \in [NodeIds -> Nat]
  BY <1>1 DEF Typed, MemOf
<1>4. CASE cur.back = "work"
  <2>1. /\ mem' \in MemOf(inst) /\ mem'.iteration = m.iteration
        /\ mem'.stage = [mem.stage EXCEPT ![cur.node] = "none"]
        /\ mem'.number = [mem.number EXCEPT ![cur.node] = 0]
    BY <1>2, <1>4, LeaveIs DEF ReturnsTo
  <2>2. pc' = "work"
    BY <1>4 DEF ReturnsTo
  <2>3. Places'
    BY <1>2, <2>1, <2>2 DEF Places, Quiet
  <2>4. Flight'
    BY <1>1, <1>2, <1>3, <2>1, <2>2 DEF Flight, Following
  <2>5. Captured'
    BY <1>1, <1>2, <1>3, <2>1 DEF Captured
  <2> QED BY <2>1, <2>3, <2>4, <2>5
<1>5. CASE cur.back = "sched"
  <2>1. pc' = "sched" /\ mem' = m /\ \A n \in Nodes : mem'.stage[n] = "none"
    BY <1>1, <1>5 DEF ReturnsTo, Places, Quiet
  <2>2. Places'
    BY <1>2, <2>1 DEF Places, Quiet
  <2>3. Flight' /\ Captured'
    BY <1>2, <2>1 DEF Flight, Captured
  <2> QED BY <2>1, <2>2, <2>3
<1> QED BY <1>2, <1>4, <1>5

LEMMA PruneEndStep ==
  ASSUME IInv, PruneEnd
  PROVE  IInv' /\ Extends
<1>1. Typed /\ Places /\ RowsInv
  BY DEF IInv
<1>2. /\ pc = "prune" /\ inst' = inst /\ run' = run /\ trans' = trans /\ attempts' = attempts
      /\ verdicts' = verdicts /\ ckpts' = ckpts /\ cur.back = "work"
      /\ mem.iteration = run.iteration
  BY <1>1 DEF PruneEnd, durable, Places
<1>3. mem \in MemOf(inst) /\ ReturnsTo(mem)
  BY <1>1, <1>2 DEF PruneEnd, ReturnsTo, Typed
<1>4. Places' /\ Flight' /\ Captured' /\ mem' \in MemOf(inst)
  BY <1>2, <1>3, Returned
<1>5. Typed'
  BY <1>1, <1>2, <1>4 DEF Typed
<1>6. RowsInv' /\ Grows(attempts, attempts')
  BY <1>1, <1>2, RowsKept, Unchanged
<1> QED BY <1>2, <1>4, <1>5, <1>6 DEF IInv, Extends

LEMMA HaltLoopStep ==
  ASSUME IInv, pc = "feedback", HaltLoop, inst' = inst, verdicts' = verdicts
  PROVE  IInv' /\ Extends
<1>1. Typed /\ Places /\ RowsInv
  BY DEF IInv
<1>2. run' = run /\ trans' = trans /\ attempts' = attempts /\ mem.iteration = run.iteration
  BY <1>1 DEF HaltLoop, Places
<1>3. [mem EXCEPT !.halted = TRUE] \in MemOf(inst)
      /\ Alike(mem, [mem EXCEPT !.halted = TRUE])
  BY <1>1 DEF Typed, MemOf, Alike
<1>4. ReturnsTo([mem EXCEPT !.halted = TRUE])
  BY DEF HaltLoop, EndFeedback, ReturnsTo
<1>5. Places' /\ Flight' /\ Captured' /\ mem' \in MemOf(inst)
  BY <1>2, <1>3, <1>4, Returned DEF Alike
<1>6. SnapsOf(inst, ckpts')
  <2>1. mem.blocked \in SUBSET Nodes
    BY <1>1 DEF Typed, MemOf, Nodes
  <2> QED BY <1>1, <2>1, CheckpointOne DEF HaltLoop
<1>7. Typed'
  BY <1>1, <1>2, <1>5, <1>6 DEF Typed
<1>8. RowsInv' /\ Grows(attempts, attempts')
  BY <1>1, <1>2, RowsKept, Unchanged
<1> QED BY <1>2, <1>5, <1>7, <1>8 DEF IInv, Extends

LEMMA ConflictStep ==
  ASSUME IInv, pc = "feedback", NEW p \in inst.prints, Conflict(p), inst' = inst,
         verdicts' = verdicts
  PROVE  IInv' /\ Extends
<1>1. Typed /\ Places /\ RowsInv
  BY DEF IInv
<1>2. /\ run' = run /\ trans' = trans /\ attempts' = attempts /\ ckpts' = ckpts
      /\ mem.iteration = run.iteration /\ cur.node \in Nodes
  BY <1>1 DEF Conflict, Places
<1> DEFINE m == [mem EXCEPT !.prints = Append(@, p), !.failed = @ \cup {cur.node},
                            !.rejected = TRUE]
<1>3. m \in MemOf(inst) /\ Alike(mem, m)
  <2>1. Append(mem.prints, p) \in Seq(inst.prints)
    BY <1>1 DEF Typed, MemOf
  <2> QED BY <1>1, <1>2, <2>1 DEF Typed, MemOf, Alike, Nodes
<1>4. ReturnsTo(m)
  BY DEF Conflict, EndFeedback, ReturnsTo
<1> HIDE DEF m
<1>5. Places' /\ Flight' /\ Captured' /\ mem' \in MemOf(inst)
  BY <1>2, <1>3, <1>4, Returned DEF Alike
<1>6. Typed'
  BY <1>1, <1>2, <1>5 DEF Typed
<1>7. RowsInv' /\ Grows(attempts, attempts')
  BY <1>1, <1>2, RowsKept, Unchanged
<1> QED BY <1>2, <1>5, <1>6, <1>7 DEF IInv, Extends

-----------------------------------------------------------------------------
(* A loop goes round.                                                       *)

\* RunHistory's Advance, in the executor's terms.
Advances ==
  /\ run.status = "running"
  /\ run' = [run EXCEPT !.iteration = @ + 1]
  /\ \E s, t \in NodeIds : \E k \in DOMAIN attempts[s] :
       /\ attempts[s][k].status = "completed"
       /\ attempts[s][k].iteration = run.iteration
       /\ BySource(trans, s, k) = {}
       /\ trans' = trans \cup {Transition(s, k, t, NextAttempt(attempts, t), run.iteration)}
       /\ attempts' = RecordAttempt(attempts, t, "ready", run.iteration + 1)

LEMMA ReadyBehind ==
  ASSUME NEW i, NEW table \in TablesOf(i), NEW n \in NodeIds, NEW it \in Nat \ {0},
         NEW k, OwnRow(table[n], k)
  PROVE  OwnRow(RecordAttempt(table, n, "ready", it)[n], k)
<1> DEFINE new == RecordAttempt(table, n, "ready", it)
<1>1. "ready" \in AttemptStatuses
  BY DEF AttemptStatuses
<1>2. NewAttempt("ready", it).status = "ready"
  BY <1>1, NewRow
<1>3. /\ DOMAIN new[n] = 1 .. (Len(table[n]) + 1)
      /\ \A j \in DOMAIN table[n] : new[n][j] = table[n][j]
      /\ new[n][Len(table[n]) + 1].status = "ready"
  BY <1>1, <1>2, Recorded
<1>4. DOMAIN table[n] = 1 .. Len(table[n]) /\ Len(table[n]) \in Nat
  BY DEF TablesOf
<1> HIDE DEF new
<1>5. ASSUME NEW j \in DOMAIN new[n], j > k
      PROVE  new[n][j].status \in {"ready", "skipped"}
  <2>1. CASE j = Len(table[n]) + 1
    BY <1>3, <2>1
  <2>2. CASE j # Len(table[n]) + 1
    BY <1>3, <1>4, <1>5, <2>2 DEF OwnRow
  <2> QED BY <2>1, <2>2
<1> QED BY <1>3, <1>4, <1>5 DEF OwnRow, new

LEMMA ResetTyped ==
  ASSUME NEW m \in MemOf(inst)
  PROVE  Reset(m) \in MemOf(inst) /\ Alike(m, Reset(m))
<1> DEFINE body == LoopBody(Nodes, Edges, cur.node, Target)
           skipped == body \cup Downstream(Nodes, Edges, Target)
           edges == {e.id : e \in {f \in Edges : f.source \in body}}
           With(c, s, b, f, d) == [m EXCEPT !.completed = c, !.skipped = s, !.blocked = b,
                                            !.failed = f, !.dead = d]
<1>1. Reset(m) = With(m.completed \ body, m.skipped \ skipped, m.blocked \ body,
                      m.failed \ body, m.dead \ edges)
  BY DEF Reset
<1>2. ASSUME NEW c \in SUBSET inst.nodes, NEW s \in SUBSET inst.nodes,
             NEW b \in SUBSET inst.nodes, NEW f \in SUBSET inst.nodes,
             NEW d \in SUBSET IdsOf(inst)
      PROVE  With(c, s, b, f, d) \in MemOf(inst) /\ Alike(m, With(c, s, b, f, d))
  BY DEF MemOf, Alike
<1> HIDE DEF body, skipped, edges, With
<1>3. /\ m.completed \ body \in SUBSET inst.nodes /\ m.skipped \ skipped \in SUBSET inst.nodes
      /\ m.blocked \ body \in SUBSET inst.nodes /\ m.failed \ body \in SUBSET inst.nodes
      /\ m.dead \ edges \in SUBSET IdsOf(inst)
  BY DEF MemOf
<1> QED BY <1>1, <1>2, <1>3

LEMMA AdvanceStep ==
  ASSUME IInv, pc = "feedback", NEW p \in inst.prints, Advance(p), inst' = inst,
         verdicts' = verdicts
  PROVE  IInv' /\ Advances
<1>1. Typed /\ Places /\ RowsInv
  BY DEF IInv
<1>2. /\ run.status = "running" /\ mem.iteration = run.iteration /\ cur.node \in Nodes
      /\ cur.edge \in EdgeIds /\ SourceAttempt \in DOMAIN attempts[cur.node]
      /\ attempts[cur.node][SourceAttempt].status = "completed"
      /\ BySource(trans, cur.node, SourceAttempt) = {}
  BY <1>1 DEF Places
<1>3. mem.iteration \in Nat \ {0} /\ run \in RunRows /\ mem.iteration + 1 \in Nat \ {0}
  BY <1>1, <1>2, Iterating DEF Typed, NoRun
<1>4. Target \in Nodes /\ Nodes \subseteq NodeIds
  <2>1. \E e \in Edges : e.id = cur.edge
    BY <1>2 DEF EdgeIds
  <2> QED BY <1>1, <2>1, Facts DEF Target
<1>5. /\ attempts' = RecordAttempt(attempts, Target, "ready", mem.iteration + 1)
      /\ run' = [run EXCEPT !.iteration = mem.iteration + 1]
      /\ trans' = trans \cup {Transition(cur.node, SourceAttempt, Target,
                                         NextAttempt(attempts, Target), mem.iteration)}
      /\ attempts[cur.node][SourceAttempt].iteration = mem.iteration
  BY DEF Advance
<1>6. Advances
  <2>1. cur.node \in NodeIds /\ Target \in NodeIds
    BY <1>2, <1>4
  <2>2. run' = [run EXCEPT !.iteration = @ + 1]
    BY <1>2, <1>5
  <2> QED BY <1>2, <1>5, <2>1, <2>2 DEF Advances
<1>7. run' \in RunRows /\ run'.status = run.status /\ run'.iteration = mem.iteration + 1
  BY <1>3, <1>5 DEF RunRows
<1>8. Touched(inst, Target, attempts, attempts')
  <2>1. "ready" \in AttemptStatuses \ {"completed"}
    BY DEF AttemptStatuses, TerminalStatuses
  <2> QED BY <1>1, <1>3, <1>4, <1>5, <2>1, RecordTouches DEF Typed
<1>9. \A n \in Nodes : \A k : OwnRow(attempts[n], k) => OwnRow(attempts'[n], k)
  <2> TAKE n \in Nodes
  <2>1. CASE n = Target
    BY <1>1, <1>3, <1>4, <1>5, <2>1, ReadyBehind DEF Typed
  <2>2. CASE n # Target
    BY <1>4, <1>8, <2>2 DEF Touched, OnlyAt
  <2> QED BY <2>1, <2>2
<1> DEFINE next == [mem EXCEPT !.iteration = @ + 1, !.patch = mem.changes,
                               !.changes = NoChange, !.prints = Append(@, p)]
<1>10. next \in MemOf(inst) /\ next.stage = mem.stage /\ next.number = mem.number
         /\ next.iteration = mem.iteration + 1
  <2>1. /\ Append(mem.prints, p) \in Seq(inst.prints) /\ NoChange \in PatchesOf(inst)
        /\ mem.iteration + 1 \in Nat /\ mem.changes \in PatchesOf(inst)
        /\ mem \in MemOf(inst)
    BY <1>1 DEF Typed, MemOf, PatchesOf
  <2> DEFINE With(it, c, d, h) == [mem EXCEPT !.iteration = it, !.patch = c, !.changes = d,
                                              !.prints = h]
  <2>2. ASSUME NEW it \in Nat, NEW c \in PatchesOf(inst), NEW d \in PatchesOf(inst),
               NEW h \in Seq(inst.prints)
        PROVE  /\ With(it, c, d, h) \in MemOf(inst) /\ With(it, c, d, h).iteration = it
               /\ With(it, c, d, h).stage = mem.stage /\ With(it, c, d, h).number = mem.number
    BY <2>1 DEF MemOf
  <2>3. next = With(mem.iteration + 1, mem.changes, NoChange, Append(mem.prints, p))
    OBVIOUS
  <2> HIDE DEF With, next
  <2> QED BY <2>1, <2>2, <2>3
<1>11. ReturnsTo(Reset(next))
  BY DEF Advance, NextIteration, EndFeedback, ReturnsTo
<1> HIDE DEF next
<1>12. /\ Reset(next) \in MemOf(inst) /\ Reset(next).stage = mem.stage
       /\ Reset(next).number = mem.number /\ Reset(next).iteration = mem.iteration + 1
  BY <1>10, ResetTyped DEF Alike
<1>13. Places' /\ Flight' /\ Captured' /\ mem' \in MemOf(inst)
  BY <1>7, <1>9, <1>11, <1>12, Returned
<1>14. SnapsOf(inst, ckpts')
  <2>1. mem.blocked \in SUBSET Nodes
    BY <1>1 DEF Typed, MemOf, Nodes
  <2> QED BY <1>1, <2>1, CheckpointOne DEF Advance
<1>15. Typed'
  BY <1>1, <1>7, <1>8, <1>13, <1>14 DEF Typed, Touched
<1>16. VerdictsOnBlocks' /\ GatesNeedApproval'
  BY <1>1, <1>8, GatesKept DEF Touched
<1>17. TransDone'
  <2> DEFINE new == Transition(cur.node, SourceAttempt, Target,
                               NextAttempt(attempts, Target), mem.iteration)
  <2>1. /\ new.source = cur.node /\ new.target = Target /\ new.to = new.from + 1
        /\ new.sourceAttempt = SourceAttempt
    BY DEF Transition
  <2>2. /\ SourceAttempt \in DOMAIN attempts'[cur.node]
        /\ attempts'[cur.node][SourceAttempt].status = "completed"
    BY <1>2, <1>4, <1>8 DEF Touched, Grows, TerminalStatuses
  <2> HIDE DEF new
  <2>3. trans' = trans \cup {new}
    BY <1>5 DEF new
  <2>4. \A t \in trans :
           /\ t.source \in Nodes' /\ t.target \in Nodes' /\ t.to = t.from + 1
           /\ t.sourceAttempt \in DOMAIN attempts'[t.source]
           /\ attempts'[t.source][t.sourceAttempt].status = "completed"
    BY <1>1, <1>8, TransKept DEF Touched
  <2> QED BY <1>2, <1>4, <2>1, <2>2, <2>3, <2>4 DEF TransDone, Nodes
<1> QED BY <1>6, <1>13, <1>15, <1>16, <1>17 DEF IInv, RowsInv

LEMMA FeedbackSteps ==
  ASSUME IInv, FeedbackStep
  PROVE  IInv' /\ (Extends \/ Advances)
<1>1. inst' = inst /\ verdicts' = verdicts /\ pc = "feedback"
  BY DEF FeedbackStep
<1>2. CASE HaltLoop
  BY <1>1, <1>2, HaltLoopStep
<1>3. CASE \E p \in inst.prints : Advance(p)
  BY <1>1, <1>3, AdvanceStep
<1>4. CASE \E p \in inst.prints : Conflict(p)
  BY <1>1, <1>4, ConflictStep
<1> QED BY <1>2, <1>3, <1>4 DEF FeedbackStep

-----------------------------------------------------------------------------
(* All steps.                                                               *)

\* RunHistory's Begin.
Begins ==
  run = NoRun /\ run'.status = "running" /\ run'.iteration = 1
    /\ attempts' = attempts /\ trans' = trans

LEMMA InitHolds == Init => IInv
<1> SUFFICES ASSUME Init PROVE IInv
  OBVIOUS
<1>1. mem \in MemOf(inst) /\ \A n \in NodeIds : mem.stage[n] = "none"
  BY EmptyMemTyped DEF Init
<1>2. inst \in Instances
  BY DEF Init
<1>3. attempts \in TablesOf(inst) /\ \A n \in NodeIds : attempts[n] = << >>
  BY DEF Init, TablesOf
<1>4. Typed
  BY <1>1, <1>2, <1>3 DEF Init, Typed, SnapsOf, Gates, NoVerdict
<1>5. Nodes \subseteq NodeIds /\ Gates \subseteq Nodes
  BY <1>4, Facts
<1>6. Places
  BY <1>1, <1>5 DEF Init, Places, Quiet
<1>7. Flight /\ Captured
  BY <1>1, <1>5 DEF Flight, Captured
<1>8. RowsInv
  BY <1>3, <1>5 DEF Init, RowsInv, TransDone, VerdictsOnBlocks, GatesNeedApproval, NoVerdict
<1> QED BY <1>4, <1>6, <1>7, <1>8 DEF IInv

LEMMA NextStep ==
  ASSUME IInv, [Next]_vars
  PROVE  IInv' /\ (Begins \/ Extends \/ Advances)
<1>1. CASE Executor
  BY <1>1, CheckPendingStep, SchedStep, PruneNodeStep, PruneEndStep, FeedbackSteps,
     BatchDoneStep, EndingStep, StartStep DEF Executor
<1>2. CASE Host
  <2>1. CASE StartRun
    BY <2>1, StartRunStep DEF Begins
  <2>2. CASE Resume \/ Abort \/ Crash \/ Recover
    BY <2>2, ResumeStep, AbortStep, CrashStep, RecoverStep
  <2>3. CASE \E n \in Nodes : RerunNode(n) \/ SkipNode(n)
    BY <2>3, RerunStep, SkipStep
  <2>4. CASE \E g \in Gates : DecideGate(g)
    BY <2>4, DecideStep
  <2> QED BY <1>2, <2>1, <2>2, <2>3, <2>4 DEF Host
<1>3. CASE \E n \in Nodes : InNode(n)
  BY <1>3, WorkStep, CompletionStep DEF InNode
<1>4. CASE UNCHANGED vars
  <2>1. Typed /\ Places /\ Flight /\ Captured /\ RowsInv
    BY DEF IInv
  <2>2. RowsInv' /\ Extends
    BY <1>4, <2>1, RowsKept, Unchanged DEF vars, Extends
  <2>3. Typed' /\ Places' /\ Flight' /\ Captured'
    BY <1>4, <2>1 DEF vars, Typed, Places, Quiet, Flight, Following, Captured, Nodes, Gates,
                     Edges, EdgeIds, SourceAttempt
  <2> QED BY <2>2, <2>3 DEF IInv
<1> QED BY <1>1, <1>2, <1>3, <1>4 DEF Next

\* The inductive invariant holds in every reachable state.
THEOREM ExecutorInvariant == Spec => []IInv
<1>1. IInv /\ [Next]_vars => IInv'
  BY NextStep
<1> QED BY <1>1, InitHolds, PTL DEF Spec

-----------------------------------------------------------------------------
(* What follows.                                                            *)

\* Whatever happens, the rows and the executor's variables keep their types, its
\* sets are sets of nodes of the template and a checkpoint names such nodes.
THEOREM ExecutorTypes == Spec => []TypeOK
<1>1. IInv => TypeOK
  <2> SUFFICES ASSUME IInv PROVE TypeOK
    OBVIOUS
  <2>1. Typed /\ Places /\ TransDone
    BY DEF IInv, RowsInv
  <2>2. \A n \in Nodes : \A k \in DOMAIN attempts[n] : attempts[n][k] \in AttemptRow
    <3>1. RowOf(inst) = AttemptRow
      BY DEF RowOf, AttemptRow, IdsOf, EdgeIds, Edges
    <3>2. \A n \in Nodes : attempts[n] \in Seq(RowOf(inst))
      BY <2>1, Facts DEF Typed, TablesOf
    <3> QED BY <3>1, <3>2
  <2>3. \A f \in NodeSets : mem[f] \subseteq Nodes
    BY <2>1 DEF Typed, MemOf, NodeSets, Nodes
  <2>4. mem.dead \subseteq EdgeIds
    BY <2>1 DEF Typed, MemOf, IdsOf, EdgeIds, Edges
  <2>5. \A n \in Nodes : mem.tree[n] \subseteq ChangeSets
    BY <2>1, Facts DEF Typed, MemOf, ChangeSets, Nodes
  <2>6. mem.patch \in ChangeSets \cup {NoChange} /\ mem.changes \in ChangeSets \cup {NoChange}
    BY <2>1 DEF Typed, MemOf, PatchesOf, ChangeSets, Nodes
  <2>7. /\ mem.stage \in [NodeIds -> {"none", "prepare", "patch", "apply", "leaf", "capture"}]
        /\ run = NoRun \/ run \in RunRows
        /\ \A c \in ckpts : c.blocked \subseteq Nodes
        /\ verdicts \in [Gates -> [verdict : {"none", "approved", "rejected"},
                                   attempt : Nat]]
    BY <2>1 DEF Typed, MemOf, Stages, SnapsOf, Nodes, Gates
  <2>8. \A t \in trans : t.source \in Nodes /\ t.target \in Nodes /\ t.to = t.from + 1
    BY <2>1 DEF TransDone
  <2> QED BY <2>1, <2>2, <2>3, <2>4, <2>5, <2>6, <2>7, <2>8 DEF TypeOK, Places, RunRows
<1> QED BY <1>1, ExecutorInvariant, PTL

\* A gate's attempt completes only after the user approved that gate while an
\* earlier attempt of it was blocked, whatever is aborted, skipped, run again or
\* lost with the process.
THEOREM GatesAreApproved == Spec => []GatesNeedApproval
<1>1. IInv => GatesNeedApproval
  BY DEF IInv, RowsInv
<1> QED BY <1>1, ExecutorInvariant, PTL

\* The executor implements the abstract history of a run: its initial state is
\* one of it, and every step is one of its steps.
THEOREM ExecutorKeepsHistory == Spec => ImplementsHistory
<1>1. Init => History!Init
  BY DEF Init, History!Init, History!NotStarted, NoRun
<1>2. IInv /\ [Next]_vars => [History!Next]_(History!vars)
  <2> SUFFICES ASSUME IInv, [Next]_vars PROVE History!Next
    BY DEF History!vars
  <2>1. CASE Begins
    <3>1. History!Begin
      BY <2>1 DEF Begins, History!Begin, History!NotStarted, NoRun
    <3> QED BY <3>1 DEF History!Next
  <2>2. CASE Extends
    <3>1. attempts \in TablesOf(inst)
      BY DEF IInv, Typed
    <3>2. \A n \in NodeIds : /\ DOMAIN attempts[n] = 1 .. Len(attempts[n])
                             /\ Len(attempts[n]) \in Nat
      BY <3>1 DEF TablesOf
    <3>3. attempts' \in TablesOf(inst')
      BY NextStep DEF IInv, Typed
    <3>4. \A n \in NodeIds : /\ DOMAIN attempts'[n] = 1 .. Len(attempts'[n])
                             /\ Len(attempts'[n]) \in Nat
      BY <3>3 DEF TablesOf
    <3>5. History!HistoryGrows
      <4> SUFFICES ASSUME NEW n \in NodeIds, NEW k \in 1 .. Len(attempts[n])
                   PROVE  /\ k <= Len(attempts'[n])
                          /\ attempts'[n][k].iteration = attempts[n][k].iteration
                          /\ attempts[n][k].status \in TerminalStatuses =>
                               attempts'[n][k] = attempts[n][k]
        BY DEF History!HistoryGrows, History!TerminalStatuses, TerminalStatuses
      <4>1. k \in DOMAIN attempts[n]
        BY <3>2
      <4>2. k \in DOMAIN attempts'[n]
        BY <2>2, <4>1 DEF Extends, Grows
      <4> QED BY <2>2, <3>4, <4>1, <4>2 DEF Extends, Grows
    <3>6. History!Progress
      BY <2>2, <3>5 DEF Extends, History!Progress
    <3> QED BY <3>6 DEF History!Next
  <2>3. CASE Advances
    <3>1. PICK s \in NodeIds, t \in NodeIds : \E k \in DOMAIN attempts[s] :
            /\ attempts[s][k].status = "completed"
            /\ attempts[s][k].iteration = run.iteration
            /\ BySource(trans, s, k) = {}
            /\ trans' = trans \cup {Transition(s, k, t, NextAttempt(attempts, t), run.iteration)}
            /\ attempts' = RecordAttempt(attempts, t, "ready", run.iteration + 1)
      BY <2>3 DEF Advances
    <3>2. PICK k \in DOMAIN attempts[s] :
            /\ attempts[s][k].status = "completed"
            /\ attempts[s][k].iteration = run.iteration
            /\ BySource(trans, s, k) = {}
            /\ trans' = trans \cup {Transition(s, k, t, NextAttempt(attempts, t), run.iteration)}
            /\ attempts' = RecordAttempt(attempts, t, "ready", run.iteration + 1)
      BY <3>1
    <3>3. k \in 1 .. Len(attempts[s])
      BY DEF IInv, Typed, TablesOf
    <3>4. /\ run.status = "running" /\ run'.status = run.status
          /\ run'.iteration = run.iteration + 1
      BY <2>3 DEF Advances, IInv, Typed, RunRows, NoRun
    <3>5. History!BySource(trans, s, k) = {}
      BY <3>2 DEF BySource, History!BySource
    <3>6. trans' = trans \cup {History!Transition(s, k, t, History!NextAttempt(attempts, t),
                                                 run.iteration)}
      BY <3>2 DEF Transition, NextAttempt, History!Transition, History!NextAttempt
    <3>7. attempts' = History!RecordAttempt(attempts, t, "ready", run.iteration + 1)
      BY <3>2 DEF RecordAttempt, InsertAttempt, NextAttempt, NewAttempt, NoEdge,
                  History!RecordAttempt, History!InsertAttempt, History!NextAttempt,
                  History!NewAttempt, History!NoEdge
    <3> DEFINE row == [status |-> run.status, iteration |-> run.iteration]
    <3>8. row.status = "running" /\ row' = [row EXCEPT !.iteration = @ + 1]
            /\ row.iteration = run.iteration
      BY <3>4
    <3>9. History!Advance
      BY <3>2, <3>3, <3>5, <3>6, <3>7, <3>8 DEF History!Advance
    <3> QED BY <3>9 DEF History!Next
  <2> QED BY <2>1, <2>2, <2>3, NextStep
<1> QED BY <1>1, <1>2, ExecutorInvariant, PTL DEF Spec, ImplementsHistory, History!Spec

-----------------------------------------------------------------------------
(* What a node in flight does to the executor's variables.                  *)

Beside(m, m2) ==
  /\ m2.completed = m.completed /\ m2.skipped = m.skipped /\ m2.lineage = m.lineage
  /\ m2.batch = m.batch /\ m2.prints = m.prints /\ m2.rejected = m.rejected
Waiting(m, m2) ==
  m2.blocked = m.blocked /\ m2.resumable = m.resumable /\ m2.nonResumable = m.nonResumable
\* The other nodes are where they were.
Others(m, m2, n) ==
  \A q \in NodeIds \ {n} :
    m2.stage[q] = m.stage[q] /\ m2.number[q] = m.number[q] /\ m2.tree[q] = m.tree[q]

\* The node is out of flight, failed or cancelled.
Drops(n) ==
  /\ Waiting(mem, mem')
  /\ mem'.stage[n] = "none" /\ mem'.tree[n] = {}
  /\ \E status \in {"failed", "cancelled"} : attempts' = EndAttempt(n, status, "other")

\* It is out of flight, blocked.
Parks(n) ==
  /\ mem'.blocked = mem.blocked \cup {n}
  /\ \/ mem'.resumable = mem.resumable \cup {n} /\ mem'.nonResumable = mem.nonResumable
     \/ mem'.resumable = mem.resumable /\ mem'.nonResumable = mem.nonResumable \cup {n}
  /\ mem'.stage[n] = "none" /\ mem'.tree[n] = {}
  /\ \E note \in Notes : attempts' = EndAttempt(n, "blocked", note)

\* It goes on to its next stage.
GoesOn(n) ==
  /\ Waiting(mem, mem') /\ attempts' = attempts /\ mem'.number = mem.number
  /\ \/ mem.stage[n] = "prepare" /\ mem.patch # NoChange
     \/ /\ mem.stage[n] = "prepare" /\ mem'.stage[n] = "apply"
        /\ mem'.tree[n] = PredChanges(n)
     \/ /\ mem.stage[n] = "prepare" /\ mem'.stage[n] = "leaf" /\ PredChanges(n) = {}
        /\ mem'.tree[n] = mem.tree[n]
     \/ /\ mem.stage[n] \in {"patch", "apply"} /\ mem'.stage[n] = "leaf"
        /\ mem'.tree[n] = mem.tree[n]
     \/ /\ mem.stage[n] = "leaf" /\ mem'.stage[n] = "capture"
        /\ mem'.tree[n] = mem.tree[n]

Effect(n) ==
  /\ Beside(mem, mem') /\ Others(mem, mem', n) /\ mem'.patch \in {mem.patch, NoChange}
  /\ Drops(n) \/ Parks(n) \/ GoesOn(n)

LEMMA LeaveEffect ==
  ASSUME NEW i, NEW m \in MemOf(i), NEW n \in NodeIds
  PROVE  LET l == Leave(m, n)
         IN  /\ Beside(m, l) /\ Waiting(m, l) /\ Others(m, l, n) /\ l.patch = m.patch
             /\ l.stage[n] = "none" /\ l.tree[n] = {}
BY DEF Leave, MemOf, Beside, Waiting, Others

\* The local variables after a patch is cleared, before anything is decided.
Near(m, n) ==
  /\ m \in MemOf(inst) /\ Beside(mem, m) /\ Waiting(mem, m) /\ Others(mem, m, n)
  /\ m.patch \in {mem.patch, NoChange} /\ m.number = mem.number
  /\ m.stage = mem.stage /\ m.tree = mem.tree

LEMMA CaughtEffect ==
  ASSUME Typed, NEW n \in Nodes, NEW m, Near(m, n), Caught(n, m)
  PROVE  Effect(n)
<1> DEFINE f == [m EXCEPT !.failed = @ \cup {n}]
<1>1. n \in NodeIds
  BY Facts
<1>2. /\ f \in MemOf(inst) /\ Beside(mem, f) /\ Waiting(mem, f) /\ Others(mem, f, n)
      /\ f.patch \in {mem.patch, NoChange}
  BY DEF Near, MemOf, Beside, Waiting, Others, Nodes
<1>3. mem' = Leave(f, n)
  BY DEF Caught
<1>4. \E status \in {"failed", "cancelled"} : attempts' = EndAttempt(n, status, "other")
  BY DEF Caught
<1> HIDE DEF f
<1>5. /\ Beside(f, mem') /\ Waiting(f, mem') /\ Others(f, mem', n) /\ mem'.patch = f.patch
      /\ mem'.stage[n] = "none" /\ mem'.tree[n] = {}
  BY <1>1, <1>2, <1>3, LeaveEffect
<1> QED BY <1>2, <1>4, <1>5 DEF Effect, Drops, Beside, Waiting, Others

LEMMA MemIsNear ==
  ASSUME Typed, NEW n
  PROVE  Near(mem, n) /\ Near([mem EXCEPT !.patch = NoChange], n)
BY ZenonT(60) DEF Typed, Near, MemOf, PatchesOf, Beside, Waiting, Others

LEMMA HaltedStartEffect ==
  ASSUME Typed, NEW n \in Nodes, NEW operation, HaltedStart(n, operation)
  PROVE  Effect(n)
<1> DEFINE f == [mem EXCEPT !.halted = TRUE, !.failed = @ \cup {n}]
<1>1. n \in NodeIds
  BY Facts
<1>2. /\ f \in MemOf(inst) /\ Beside(mem, f) /\ Waiting(mem, f) /\ Others(mem, f, n)
      /\ f.patch = mem.patch
  BY DEF Typed, MemOf, Beside, Waiting, Others, Nodes
<1>3. mem' = Leave(f, n) /\ attempts' = EndAttempt(n, "failed", "other")
  BY DEF HaltedStart
<1> HIDE DEF f
<1>4. /\ Beside(f, mem') /\ Waiting(f, mem') /\ Others(f, mem', n) /\ mem'.patch = f.patch
      /\ mem'.stage[n] = "none" /\ mem'.tree[n] = {}
  BY <1>1, <1>2, <1>3, LeaveEffect
<1> QED BY <1>2, <1>3, <1>4 DEF Effect, Drops, Beside, Waiting, Others

LEMMA ToLeafEffect ==
  ASSUME Typed, NEW n \in Nodes, NEW m, Near(m, n), ToLeaf(n, m),
         \/ mem.stage[n] = "prepare" /\ PredChanges(n) = {}
         \/ mem.stage[n] \in {"patch", "apply"}
  PROVE  Effect(n)
<1>1. CASE m.aborted
  BY <1>1, CaughtEffect DEF ToLeaf
<1>2. CASE ~m.aborted
  <2>1. mem' = [m EXCEPT !.stage[n] = "leaf"] /\ attempts' = attempts /\ n \in NodeIds
    BY <1>2, Facts DEF ToLeaf
  <2>2. /\ Beside(m, mem') /\ Waiting(m, mem') /\ Others(m, mem', n)
        /\ mem'.patch = m.patch /\ mem'.number = m.number /\ mem'.stage[n] = "leaf"
        /\ mem'.tree = m.tree
    BY <2>1 DEF Near, MemOf, Beside, Waiting, Others
  <2> QED BY <2>1, <2>2 DEF Near, Effect, GoesOn, Beside, Waiting, Others
<1> QED BY <1>1, <1>2

LEMMA PreparedEffect ==
  ASSUME Typed, NEW n \in Nodes, Prepared(n)
  PROVE  Effect(n)
<1>0. n \in NodeIds /\ mem \in MemOf(inst) /\ mem.stage[n] = "prepare"
  BY Facts DEF Prepared, Typed
<1>1. CASE Caught(n, mem)
  BY <1>1, CaughtEffect, MemIsNear
<1>2. CASE /\ mem.patch # NoChange
           /\ mem' = [mem EXCEPT !.stage[n] = "patch", !.tree[n] = {mem.patch}]
           /\ UNCHANGED <<attempts, ckpts>>
  <2>1. /\ Beside(mem, mem') /\ Waiting(mem, mem') /\ Others(mem, mem', n)
        /\ mem'.patch = mem.patch /\ mem'.number = mem.number
    BY <1>0, <1>2 DEF MemOf, Beside, Waiting, Others
  <2> QED BY <1>0, <1>2, <2>1 DEF Effect, GoesOn
<1>3. CASE /\ mem.patch = NoChange /\ PredChanges(n) # {}
           /\ mem' = [mem EXCEPT !.stage[n] = "apply", !.tree[n] = PredChanges(n)]
           /\ UNCHANGED <<attempts, ckpts>>
  <2> DEFINE T == PredChanges(n)
  <2>1. mem' = [mem EXCEPT !.stage[n] = "apply", !.tree[n] = T]
    BY <1>3
  <2> HIDE DEF T
  <2>2. /\ Beside(mem, mem') /\ Waiting(mem, mem') /\ Others(mem, mem', n)
        /\ mem'.patch = mem.patch /\ mem'.number = mem.number
        /\ mem'.stage[n] = "apply" /\ mem'.tree[n] = T
    BY <1>0, <2>1 DEF MemOf, Beside, Waiting, Others
  <2> QED BY <1>0, <1>3, <2>2 DEF Effect, GoesOn, T
<1>4. CASE HaltedStart(n, "merge.halted")
  BY <1>4, HaltedStartEffect
<1>5. CASE PredChanges(n) = {} /\ ToLeaf(n, mem)
  BY <1>0, <1>5, ToLeafEffect, MemIsNear
<1> QED BY <1>1, <1>2, <1>3, <1>4, <1>5 DEF Prepared

LEMMA AppliedEffect ==
  ASSUME Typed, NEW n \in Nodes, PatchApplied(n) \/ ChangesApplied(n)
  PROVE  Effect(n)
BY HaltedStartEffect, ToLeafEffect, CaughtEffect, MemIsNear DEF PatchApplied, ChangesApplied

LEMMA AnsweredEffect ==
  ASSUME Typed, NEW n \in Nodes
  PROVE  /\ Aborted(n) => Effect(n)
         /\ Failed(n) => Effect(n)
         /\ Cancelled(n) => Effect(n)
         /\ \A resumable \in BOOLEAN, note \in Notes : Blocked(n, resumable, note) => Effect(n)
         /\ mem.stage[n] = "leaf" /\ Capture(n) => Effect(n)
<1>0. n \in NodeIds /\ mem \in MemOf(inst)
  BY Facts DEF Typed
<1>1. ASSUME NEW m \in MemOf(inst), Beside(mem, m), Waiting(mem, m), Others(mem, m, n),
             m.patch = mem.patch, mem' = Leave(m, n),
             \E status \in {"failed", "cancelled"} : attempts' = EndAttempt(n, status, "other")
      PROVE  Effect(n)
  <2>1. /\ Beside(m, mem') /\ Waiting(m, mem') /\ Others(m, mem', n) /\ mem'.patch = m.patch
        /\ mem'.stage[n] = "none" /\ mem'.tree[n] = {}
    BY <1>0, <1>1, LeaveEffect
  <2> QED BY <1>1, <2>1 DEF Effect, Drops, Beside, Waiting, Others
<1>2. ASSUME Aborted(n) PROVE Effect(n)
  <2>1. Beside(mem, mem) /\ Waiting(mem, mem) /\ Others(mem, mem, n)
    BY DEF Beside, Waiting, Others
  <2> QED BY <1>0, <1>1, <1>2, <2>1 DEF Aborted
<1>3. ASSUME Failed(n) PROVE Effect(n)
  <2> DEFINE m == [mem EXCEPT !.failed = @ \cup {n}]
  <2>1. /\ m \in MemOf(inst) /\ Beside(mem, m) /\ Waiting(mem, m) /\ Others(mem, m, n)
        /\ m.patch = mem.patch
    BY <1>0 DEF MemOf, Nodes, Beside, Waiting, Others
  <2>2. mem' = Leave(m, n) /\ attempts' = EndAttempt(n, "failed", "other")
    BY <1>3 DEF Failed
  <2> HIDE DEF m
  <2> QED BY <1>1, <2>1, <2>2
<1>4. ASSUME Cancelled(n) PROVE Effect(n)
  <2> DEFINE m == [mem EXCEPT !.cancelled = @ \cup {n}]
  <2>1. /\ m \in MemOf(inst) /\ Beside(mem, m) /\ Waiting(mem, m) /\ Others(mem, m, n)
        /\ m.patch = mem.patch
    BY <1>0 DEF MemOf, Nodes, Beside, Waiting, Others
  <2>2. mem' = Leave(m, n) /\ attempts' = EndAttempt(n, "cancelled", "other")
    BY <1>4 DEF Cancelled
  <2> HIDE DEF m
  <2> QED BY <1>1, <2>1, <2>2
<1>5. ASSUME NEW resumable \in BOOLEAN, NEW note \in Notes, Blocked(n, resumable, note)
      PROVE  Effect(n)
  <2> DEFINE m == [mem EXCEPT
                     !.blocked = @ \cup {n},
                     !.resumable = IF resumable THEN @ \cup {n} ELSE @,
                     !.nonResumable = IF resumable THEN @ ELSE @ \cup {n}]
  <2>1. /\ m \in MemOf(inst) /\ Beside(mem, m) /\ Others(mem, m, n) /\ m.patch = mem.patch
        /\ m.blocked = mem.blocked \cup {n}
        /\ \/ m.resumable = mem.resumable \cup {n} /\ m.nonResumable = mem.nonResumable
           \/ m.resumable = mem.resumable /\ m.nonResumable = mem.nonResumable \cup {n}
    BY ZenonT(60), <1>0 DEF MemOf, Nodes, Beside, Others
  <2>2. mem' = Leave(m, n) /\ attempts' = EndAttempt(n, "blocked", note)
    BY <1>5 DEF Blocked
  <2> HIDE DEF m
  <2>3. /\ Beside(m, mem') /\ Waiting(m, mem') /\ Others(m, mem', n) /\ mem'.patch = m.patch
        /\ mem'.stage[n] = "none" /\ mem'.tree[n] = {}
    BY <1>0, <2>1, <2>2, LeaveEffect
  <2>4. Beside(mem, mem') /\ Others(mem, mem', n)
    BY <2>1, <2>3 DEF Beside, Others
  <2>5. Parks(n)
    BY <2>1, <2>2, <2>3 DEF Parks, Waiting
  <2> QED BY <2>1, <2>3, <2>4, <2>5 DEF Effect
<1>6. ASSUME mem.stage[n] = "leaf", Capture(n) PROVE Effect(n)
  <2>1. mem' = [mem EXCEPT !.stage[n] = "capture"] /\ attempts' = attempts
    BY <1>6 DEF Capture
  <2>2. /\ Beside(mem, mem') /\ Waiting(mem, mem') /\ Others(mem, mem', n)
        /\ mem'.patch = mem.patch /\ mem'.number = mem.number /\ mem'.tree = mem.tree
        /\ mem'.stage[n] = "capture"
    BY <1>0, <2>1 DEF MemOf, Beside, Waiting, Others
  <2> QED BY <1>6, <2>1, <2>2 DEF Effect, GoesOn
<1> QED BY <1>2, <1>3, <1>4, <1>5, <1>6

LEMMA WorkEffect ==
  ASSUME Typed, NEW n \in Nodes, Work(n)
  PROVE  mem.stage[n] # "none" /\ Effect(n)
<1>1. mem.stage[n] # "none"
  BY DEF Work, Prepared, PatchApplied, ChangesApplied, LeafAnswered, CaptureFailed
<1>2. CASE Prepared(n) \/ PatchApplied(n) \/ ChangesApplied(n)
  BY <1>1, <1>2, PreparedEffect, AppliedEffect
<1>3. CASE CaptureFailed(n)
  BY <1>1, <1>3, CaughtEffect, MemIsNear DEF CaptureFailed
<1>4. CASE LeafAnswered(n)
  <2>1. "wait" \in Notes /\ "other" \in Notes /\ mem.stage[n] = "leaf"
    BY <1>4 DEF Notes, LeafAnswered
  <2>2. CASE Aborted(n) \/ RouterFails(n) \/ Caught(n, mem)
    BY <1>1, <2>2, AnsweredEffect, CaughtEffect, MemIsNear DEF RouterFails
  <2>3. CASE GateAnswered(n)
    BY <1>1, <2>1, <2>3, AnsweredEffect DEF GateAnswered
  <2>4. CASE TaskAnswered(n)
    BY <1>1, <2>1, <2>4, AnsweredEffect DEF TaskAnswered
  <2> QED BY <1>4, <2>2, <2>3, <2>4 DEF LeafAnswered
<1> QED BY <1>2, <1>3, <1>4 DEF Work

-----------------------------------------------------------------------------
(* Iterations and fingerprints.                                             *)

\* No more than max consecutive entries of h are equal.
NoStreak(h, max) ==
  \A i \in DOMAIN h : i > max => \E j \in (i - max) .. i : h[j] # h[i]

\* getConsecutiveRepeatCount counts what it should: if it is below the limit, one
\* of the last entries is another one.
LEMMA RepeatsCount ==
  ASSUME NEW S, NEW h \in Seq(S), NEW p, NEW max \in Nat \ {0}, Len(h) >= max,
         Repeats(h, p) < max
  PROVE  \E j \in (Len(h) + 1 - max) .. Len(h) : h[j] # p
<1> DEFINE R == {i \in DOMAIN h : \A j \in i .. Len(h) : h[j] = p}
           I == (Len(h) + 1 - max) .. Len(h)
<1>1. Len(h) \in Nat /\ DOMAIN h = 1 .. Len(h)
  OBVIOUS
<1>2. IsFiniteSet(I) /\ Cardinality(I) = max
  <2>1. Len(h) + 1 - max \in Int /\ Len(h) \in Int
    BY <1>1
  <2> QED BY <1>1, <2>1, FS_Interval
<1>3. IsFiniteSet(R) /\ Cardinality(R) \in Nat
  <2>1. R \in SUBSET (1 .. Len(h)) /\ IsFiniteSet(1 .. Len(h))
    BY <1>1, FS_Interval
  <2> HIDE DEF R
  <2>2. IsFiniteSet(R)
    BY <2>1, FS_Subset
  <2> QED BY <2>2, FS_CardinalityType
<1>4. SUFFICES ASSUME \A j \in I : h[j] = p PROVE FALSE
  OBVIOUS
<1>5. I \in SUBSET R
  BY <1>1, <1>4
<1>6. Cardinality(R) < max
  BY DEF Repeats
<1> HIDE DEF R, I
<1>7. Cardinality(I) <= Cardinality(R)
  BY <1>3, <1>5, FS_Subset
<1> QED BY <1>2, <1>3, <1>6, <1>7

LEMMA StreakAppended ==
  ASSUME NEW S, NEW h \in Seq(S), NEW p \in S, NEW max \in Nat \ {0},
         NoStreak(h, max), Repeats(h, p) < max
  PROVE  NoStreak(Append(h, p), max)
<1> DEFINE g == Append(h, p)
<1>1. /\ Len(h) \in Nat /\ DOMAIN h = 1 .. Len(h) /\ DOMAIN g = 1 .. (Len(h) + 1)
      /\ \A i \in 1 .. Len(h) : g[i] = h[i]
      /\ g[Len(h) + 1] = p
  OBVIOUS
<1> HIDE DEF g
<1>2. SUFFICES ASSUME NEW i \in DOMAIN g, i > max
               PROVE  \E j \in (i - max) .. i : g[j] # g[i]
  BY DEF NoStreak, g
<1>3. CASE i \in 1 .. Len(h)
  <2>1. PICK j \in (i - max) .. i : h[j] # h[i]
    BY <1>1, <1>2, <1>3 DEF NoStreak
  <2>2. j \in 1 .. Len(h)
    BY <1>1, <1>2, <1>3
  <2> QED BY <1>1, <1>3, <2>1, <2>2
<1>4. CASE i = Len(h) + 1
  <2>1. PICK j \in (Len(h) + 1 - max) .. Len(h) : h[j] # p
    BY <1>1, <1>2, <1>4, RepeatsCount
  <2>2. j \in 1 .. Len(h) /\ j \in (i - max) .. i
    BY <1>1, <1>2, <1>4
  <2> QED BY <1>1, <1>4, <2>1, <2>2
<1> QED BY <1>1, <1>3, <1>4

\* What is left of the bounds of the instance.
Budget ==
  /\ left \in [runs : Nat, reruns : Nat, crashes : Nat, aborts : Nat, skips : Nat]
  /\ left.runs <= inst.runs /\ left.reruns <= inst.reruns /\ left.crashes <= inst.crashes

Calls == (inst.runs + inst.reruns) - (left.runs + left.reruns)

\* run() was called at most once, it has not rejected and the process is alive.
FirstCall ==
  Calls <= 1 /\ left.crashes = inst.crashes /\ ~mem.rejected /\ seen.answer # "rejected"

SeenFields == DOMAIN seen = {"answer", "crashed", "prints", "stale"}
Under == pc \notin {"idle", "starting"}

\* Only what follows a batch may have rejected: what is followed up after a start
\* belongs to the iteration that was read back.
Orderly ==
  /\ pc \in {"hydrated", "sched", "start", "ending"} => ~mem.rejected
  /\ pc = "feedback" /\ cur.back = "sched" =>
       ~mem.rejected /\ attempts[cur.node][SourceAttempt].iteration = mem.iteration

LoopInv ==
  /\ Budget /\ SeenFields /\ Orderly /\ (Under => seen.answer = "none")
  /\ run # NoRun => run.iteration <= inst.maxIterations
  /\ NoStreak(mem.prints, inst.maxRepeatedStates)
  /\ run = NoRun => seen.prints = << >>
  /\ run # NoRun => Calls >= 1
  /\ FirstCall => /\ NoStreak(seen.prints, inst.maxRepeatedStates)
                  /\ Under => mem.prints = seen.prints

LEMMA Limits ==
  ASSUME Typed
  PROVE  /\ inst.maxIterations \in Nat \ {0} /\ inst.maxRepeatedStates \in Nat \ {0}
         /\ inst.maxConcurrency \in Nat \ {0} /\ inst.runs \in Nat /\ inst.reruns \in Nat
         /\ inst.crashes \in Nat /\ inst.aborts \in Nat /\ inst.skips \in Nat
BY Instance DEF Typed, InstanceIsSound

\* Steps that leave the fingerprints alone.
Same ==
  /\ inst' = inst /\ run'.iteration = run.iteration /\ (run' = NoRun) = (run = NoRun)
  /\ mem'.prints = mem.prints /\ mem'.rejected = mem.rejected
  /\ seen' = seen
  /\ Under' = Under /\ Orderly'
  /\ \/ left' = left
     \/ left.aborts > 0 /\ left' = [left EXCEPT !.aborts = @ - 1]
     \/ left.skips > 0 /\ left' = [left EXCEPT !.skips = @ - 1]

LEMMA SameKeeps ==
  ASSUME Typed, LoopInv, Same
  PROVE  LoopInv'
<1>1. Budget' /\ SeenFields' /\ Orderly' /\ left'.runs = left.runs /\ left'.reruns = left.reruns
        /\ left'.crashes = left.crashes
  BY DEF LoopInv, Budget, SeenFields, Same
<1>2. Calls' = Calls /\ FirstCall' = FirstCall
  BY <1>1 DEF Same, Calls, FirstCall
<1>3. Under' = Under
  BY DEF Same
<1> HIDE DEF Under
<1>4. /\ run' # NoRun => run'.iteration <= inst'.maxIterations
      /\ Under' => seen'.answer = "none"
  BY <1>3 DEF LoopInv, Same
<1>5. NoStreak(mem'.prints, inst'.maxRepeatedStates)
        /\ (run' = NoRun => seen'.prints = << >>)
  BY DEF LoopInv, Same
<1>6. run' # NoRun => Calls' >= 1
  BY <1>2 DEF LoopInv, Same
<1>7. FirstCall' => /\ NoStreak(seen'.prints, inst'.maxRepeatedStates)
                    /\ Under' => mem'.prints = seen'.prints
  BY <1>2, <1>3 DEF LoopInv, Same
<1> QED BY <1>1, <1>4, <1>5, <1>6, <1>7 DEF LoopInv

LEMMA PrintsOfLeave ==
  ASSUME NEW i, NEW m \in MemOf(i), NEW n
  PROVE  Leave(m, n).prints = m.prints /\ Leave(m, n).rejected = m.rejected
BY DEF Leave, MemOf

LEMMA CheckPendingIsOrderly ==
  ASSUME Typed, Orderly, CheckPending
  PROVE  Orderly'
<1>1. pc = "hydrated" /\ ~mem.rejected /\ mem' = mem /\ attempts' = attempts
  BY DEF CheckPending, durable, Orderly
<1>2. CASE PendingFeedback = {}
  BY <1>1, <1>2 DEF CheckPending, Orderly
<1>3. CASE PendingFeedback # {}
  <2>1. PendingFeedback \in SUBSET NodeIds
    BY Facts DEF PendingFeedback, Typed, MemOf, Nodes
  <2> DEFINE n == First(PendingFeedback)
  <2>2. n \in PendingFeedback
    BY <1>3, <2>1, FirstIn
  <2>3. pc' = "feedback" /\ cur'.node = n /\ cur'.back = "sched"
    BY <1>3 DEF CheckPending
  <2> HIDE DEF n
  <2>4. attempts[n][Len(attempts[n])].iteration = mem.iteration
    BY <2>2 DEF PendingFeedback, Latest
  <2>5. SourceAttempt' = Len(attempts[n])
    BY <1>1, <2>3 DEF SourceAttempt
  <2> QED BY <1>1, <2>3, <2>4, <2>5 DEF Orderly
<1> QED BY <1>2, <1>3

LEMMA SameSteps ==
  ASSUME IInv, LoopInv
  PROVE  /\ CheckPending => LoopInv'
         /\ Sched => LoopInv'
         /\ PruneNode => LoopInv'
         /\ PruneEnd => LoopInv'
         /\ \A n \in Nodes : StartNode(n) => LoopInv'
         /\ \A n \in Nodes : InNode(n) => LoopInv'
         /\ \A n \in Nodes : SkipNode(n) => LoopInv'
         /\ \A g \in Gates : DecideGate(g) => LoopInv'
         /\ Abort => LoopInv'
<1>0. Typed /\ Places /\ mem \in MemOf(inst) /\ Orderly
  BY DEF IInv, Typed, LoopInv
<1>1. ASSUME CheckPending PROVE LoopInv'
  <2>0. Orderly'
    BY <1>0, <1>1, CheckPendingIsOrderly
  <2>1. Same
    BY <1>1, <2>0 DEF CheckPending, Same, durable, Under
  <2> QED BY <1>0, <2>1, SameKeeps
<1>2. ASSUME Sched PROVE LoopInv'
  <2>1. Same
    BY <1>0, <1>2 DEF Sched, Same, durable, Under, MemOf, Orderly
  <2> QED BY <1>0, <2>1, SameKeeps
<1>3. ASSUME PruneNode PROVE LoopInv'
  <2>1. Same
    BY <1>0, <1>3 DEF PruneNode, Same, Under, MemOf, Orderly
  <2> QED BY <1>0, <2>1, SameKeeps
<1>4. ASSUME PruneEnd PROVE LoopInv'
  <2>1. Same
    BY <1>0, <1>4, PrintsOfLeave DEF PruneEnd, Same, durable, Under, Places, Orderly
  <2> QED BY <1>0, <2>1, SameKeeps
<1>5. ASSUME NEW n \in Nodes, StartNode(n) PROVE LoopInv'
  <2>1. mem'.prints = mem.prints /\ mem'.rejected = mem.rejected
    <3>1. StartSkipped(n) \/ StartUnresolved(n) \/ StartRoleFailure(n) \/ StartRunning(n)
      BY <1>5 DEF StartNode
    <3>2. \/ StartSkipped(n) /\ mem' = [Started EXCEPT !.skipped = @ \cup {n}]
          \/ mem' = [Started EXCEPT !.blocked = @ \cup {n}, !.nonResumable = @ \cup {n}]
          \/ mem' = [Started EXCEPT !.failed = @ \cup {n}]
          \/ \E s, k : mem' = [Started EXCEPT !.stage[n] = s, !.number[n] = k]
      BY <3>1 DEF StartSkipped, StartUnresolved, StartRoleFailure, StartRunning
    <3> QED BY <1>0, <3>2 DEF Started, MemOf
  <2>2. Same
    BY <1>0, <1>5, <2>1 DEF StartNode, AfterStart, Same, Under, Orderly
  <2> QED BY <1>0, <2>2, SameKeeps
<1>6. ASSUME NEW n \in Nodes, InNode(n) PROVE LoopInv'
  <2>1. CASE Work(n)
    <3>1. mem'.prints = mem.prints /\ mem'.rejected = mem.rejected
      BY <1>0, <2>1, WorkEffect DEF Effect, Beside
    <3>2. Same
      BY <2>1, <3>1 DEF Work, Same, Under, Orderly
    <3> QED BY <1>0, <3>2, SameKeeps
  <2>2. CASE Route(n) \/ Complete(n)
    <3>0. OwnRow(attempts[n], mem.number[n])
      <4>1. pc = "work" /\ mem.stage[n] # "none"
        BY <2>2 DEF Route, Complete
      <4> QED BY <4>1 DEF IInv, Flight, Following
    <3>1. WithCompletion(n) \in MemOf(inst) /\ WithCompletion(n).prints = mem.prints
          /\ WithCompletion(n).rejected = mem.rejected
      BY <1>0, <3>0, CompletedMem DEF WithCompletion, MemOf
    <3>2. \/ mem' = WithCompletion(n)
          \/ mem' = Leave(WithCompletion(n), n)
          \/ \E d : mem' = [WithCompletion(n) EXCEPT !.dead = d]
      BY <2>2 DEF Route, Complete
    <3>3. mem'.prints = mem.prints /\ mem'.rejected = mem.rejected
      <4> DEFINE w == WithCompletion(n)
      <4> HIDE DEF w
      <4>1. w \in MemOf(inst) /\ w.prints = mem.prints /\ w.rejected = mem.rejected
        BY <3>1 DEF w
      <4>2. CASE mem' = w
        BY <4>1, <4>2
      <4>3. CASE mem' = Leave(w, n)
        BY <4>1, <4>3, PrintsOfLeave
      <4>4. CASE \E d : mem' = [w EXCEPT !.dead = d]
        BY <4>1, <4>4 DEF MemOf
      <4> QED BY <3>2, <4>2, <4>3, <4>4 DEF w
    <3>4. /\ pc = "work" /\ pc' \in {"work", "feedback", "prune"}
          /\ pc' = "feedback" => cur'.back = "work"
      BY <2>2 DEF Route, Complete, Follow
    <3>5. inst' = inst /\ run' = run /\ left' = left /\ seen' = seen
      BY <2>2 DEF Route, Complete
    <3>6. Same
      BY <3>3, <3>4, <3>5 DEF Same, Under, Orderly
    <3> QED BY <1>0, <3>6, SameKeeps
  <2> QED BY <1>6, <2>1, <2>2 DEF InNode
<1>7. ASSUME NEW n \in Nodes, SkipNode(n) PROVE LoopInv'
  <2>1. Same
    BY <1>7 DEF SkipNode, Same, Under, Orderly
  <2> QED BY <1>0, <2>1, SameKeeps
<1>8. ASSUME NEW g \in Gates, DecideGate(g) PROVE LoopInv'
  <2>1. Same
    BY <1>8 DEF DecideGate, Same, Under, Orderly
  <2> QED BY <1>0, <2>1, SameKeeps
<1>9. ASSUME Abort PROVE LoopInv'
  <2>1. Same
    BY <1>0, <1>9 DEF Abort, Same, durable, Under, MemOf, Orderly
  <2> QED BY <1>0, <2>1, SameKeeps
<1> QED BY <1>1, <1>2, <1>3, <1>4, <1>5, <1>6, <1>7, <1>8, <1>9

\* run() has answered or the process has died: nothing is left of its history.
LEMMA EmptyPrints ==
  /\ EmptyMem.prints = << >> /\ ~EmptyMem.rejected
  /\ \A max : NoStreak(<< >>, max)
BY DEF EmptyMem, NoStreak

LEMMA ReturnKeeps ==
  ASSUME Typed, LoopInv, NEW answer, Return(answer), inst' = inst, left' = left,
         run'.iteration = run.iteration, run # NoRun, run' # NoRun, Under,
         answer = "rejected" <=> mem.rejected
  PROVE  LoopInv'
<1>1. /\ pc' = "idle" /\ mem' = EmptyMem /\ seen' = [seen EXCEPT !.answer = answer]
  BY DEF Return
<1>2. mem'.prints = << >> /\ NoStreak(mem'.prints, inst'.maxRepeatedStates)
  BY <1>1, EmptyPrints
<1>3. Budget' /\ Calls' = Calls
  BY DEF LoopInv, Budget, Calls
<1>4. run'.iteration <= inst'.maxIterations /\ Calls' >= 1
  BY <1>3 DEF LoopInv
<1>5. /\ seen'.prints = seen.prints /\ seen'.answer = answer /\ SeenFields' /\ Orderly'
  BY <1>1 DEF LoopInv, SeenFields, Orderly
<1>6. FirstCall' => FirstCall
  BY <1>3, <1>5 DEF FirstCall, LoopInv
<1>7. ~Under'
  BY <1>1 DEF Under
<1> HIDE DEF Under
<1> QED BY <1>2, <1>3, <1>4, <1>5, <1>6, <1>7 DEF LoopInv

LEMMA RunKept ==
  ASSUME IInv, Under
  PROVE  run # NoRun /\ run \in RunRows /\ run.status = "running"
BY DEF IInv, Typed, Places, Under, NoRun

LEMMA BatchDoneLoops ==
  ASSUME IInv, LoopInv, BatchDone
  PROVE  LoopInv'
<1>1. Typed /\ Under /\ run # NoRun
  BY RunKept DEF IInv, BatchDone, Under
<1>2. CASE mem.rejected
  BY <1>1, <1>2, ReturnKeeps DEF BatchDone, durable
<1>3. CASE ~mem.rejected
  <2>1. Same
    BY <1>3 DEF BatchDone, durable, Same, Under, Orderly
  <2> QED BY <1>1, <2>1, SameKeeps
<1> QED BY <1>2, <1>3

LEMMA EndingLoops ==
  ASSUME IInv, LoopInv, Ending
  PROVE  LoopInv'
<1>1. Typed /\ Under /\ run # NoRun /\ run \in RunRows
  BY RunKept DEF IInv, Ending, Under
<1>2. Return(Outcome) /\ inst' = inst /\ left' = left
  BY DEF Ending
<1>3. Outcome # "rejected" /\ ~mem.rejected
  BY DEF Outcome, Ending, LoopInv, Orderly
<1>4. run' = run \/ \E status : run' = [run EXCEPT !.status = status, !.finished = TRUE]
  <2>1. HandleCancellation => Finish("cancelled")
    BY DEF HandleCancellation
  <2>2. CASE Outcome = "cancelled"
    BY <2>1, <2>2 DEF Ending, Finish
  <2>3. CASE Outcome = "running"
    BY <2>3 DEF Ending
  <2>4. CASE Outcome # "cancelled" /\ Outcome # "running"
    BY <2>4 DEF Ending, Finish
  <2> QED BY <2>2, <2>3, <2>4
<1>5. run'.iteration = run.iteration /\ run' # NoRun
  <2>1. run.iteration # 0
    BY <1>1 DEF RunRows
  <2>2. CASE run' = run
    BY <1>1, <2>2
  <2>3. ASSUME NEW status, run' = [run EXCEPT !.status = status, !.finished = TRUE]
        PROVE  run'.iteration = run.iteration
    BY <1>1, <2>3 DEF RunRows
  <2>4. run'.iteration = run.iteration
    BY <1>4, <2>2, <2>3, Zenon
  <2>5. NoRun.iteration = 0
    BY DEF NoRun
  <2> QED BY <2>1, <2>4, <2>5
<1> QED BY <1>1, <1>2, <1>3, <1>5, ReturnKeeps

LEMMA CrashLoops ==
  ASSUME IInv, LoopInv, Crash
  PROVE  LoopInv'
<1>1. /\ pc' = "starting" /\ mem' = EmptyMem /\ seen' = [seen EXCEPT !.crashed = InFlight]
      /\ inst' = inst /\ run' = run /\ left.crashes > 0
      /\ left' = [left EXCEPT !.crashes = @ - 1]
  BY DEF Crash, durable
<1>2. mem'.prints = << >> /\ NoStreak(mem'.prints, inst'.maxRepeatedStates) /\ ~mem'.rejected
  BY <1>1, EmptyPrints
<1>3. /\ Budget' /\ Calls' = Calls /\ left'.crashes < inst'.crashes
  <2>1. inst.crashes \in Nat
    BY Limits DEF IInv
  <2> QED BY <1>1, <2>1 DEF LoopInv, Budget, Calls
<1>4. run' # NoRun => run'.iteration <= inst'.maxIterations /\ Calls' >= 1
  BY <1>1, <1>3 DEF LoopInv
<1>5. seen'.prints = seen.prints /\ SeenFields' /\ Orderly' /\ ~Under'
  BY <1>1 DEF LoopInv, SeenFields, Orderly, Under
<1>6. ~FirstCall'
  <2>1. inst'.crashes \in Nat /\ left'.crashes \in Nat
    BY <1>1, <1>3, Limits DEF IInv, Budget
  <2> QED BY <1>3, <2>1 DEF FirstCall
<1>7. run' = NoRun => seen'.prints = << >>
  BY <1>1, <1>5 DEF LoopInv
<1> HIDE DEF Under
<1> QED BY <1>2, <1>3, <1>4, <1>5, <1>6, <1>7 DEF LoopInv

LEMMA RecoverLoops ==
  ASSUME IInv, LoopInv, Recover
  PROVE  LoopInv'
<1>1. /\ pc = "starting" /\ pc' = "idle" /\ mem' = mem /\ seen' = seen /\ left' = left
      /\ inst' = inst
  BY DEF Recover
<1>2. run' = run \/ (run.status = "running" /\ run' = [run EXCEPT !.status = "failed",
                                                                !.finished = TRUE])
  BY DEF Recover, Finish, Interrupted
<1>3. run'.iteration = run.iteration /\ (run' = NoRun) = (run = NoRun)
  <2>1. CASE run' = run
    BY <2>1
  <2>2. CASE run.status = "running" /\ run' = [run EXCEPT !.status = "failed",
                                                         !.finished = TRUE]
    <3>1. run \in RunRows
      BY <2>2 DEF IInv, Typed, NoRun
    <3>2. run'.iteration = run.iteration /\ run.iteration # 0
      BY <2>2, <3>1 DEF RunRows
    <3>3. NoRun.iteration = 0
      BY DEF NoRun
    <3> QED BY <3>2, <3>3
  <2> QED BY <1>2, <2>1, <2>2
<1>4. Same
  BY <1>1, <1>3 DEF Same, Under, Orderly
<1> QED BY <1>4, SameKeeps DEF IInv

LEMMA StartRunLoops ==
  ASSUME IInv, LoopInv, StartRun
  PROVE  LoopInv'
<1>1. /\ pc' = "sched" /\ inst' = inst /\ run = NoRun
      /\ run' = [status |-> "running", iteration |-> 1, finished |-> FALSE]
      /\ mem' = [EmptyMem EXCEPT !.iteration = 1] /\ seen' = [seen EXCEPT !.answer = "none"]
      /\ left.runs > 0 /\ left' = [left EXCEPT !.runs = @ - 1]
  BY DEF StartRun
<1>2. mem'.prints = << >> /\ NoStreak(mem'.prints, inst'.maxRepeatedStates) /\ ~mem'.rejected
  <2>1. EmptyMem \in MemOf(inst)
    BY EmptyMemTyped
  <2> QED BY <1>1, <2>1, EmptyPrints DEF MemOf
<1>3. Budget' /\ Calls' >= 1
  <2>1. inst.runs \in Nat /\ inst.reruns \in Nat
    BY Limits DEF IInv
  <2> QED BY <1>1, <2>1 DEF LoopInv, Budget, Calls
<1>4. run'.iteration <= inst'.maxIterations /\ run' # NoRun
  BY <1>1, Limits DEF NoRun, IInv
<1>5. seen'.prints = << >> /\ SeenFields' /\ Orderly' /\ seen'.answer = "none"
  BY <1>1, <1>2 DEF LoopInv, SeenFields, Orderly
<1> HIDE DEF Under
<1> QED BY <1>2, <1>3, <1>4, <1>5 DEF LoopInv

\* A later call: what was counted before does not bind it.
LEMMA ReopenLoops ==
  ASSUME IInv, LoopInv, NEW invalid, NEW resume, Reopen(invalid, resume), Budget',
         Calls' = Calls + 1, DOMAIN seen' = DOMAIN seen, seen'.answer = "none"
  PROVE  LoopInv'
<1>1. /\ pc' = "hydrated" /\ inst' = inst /\ run # NoRun
      /\ run' = [run EXCEPT !.status = "running"] /\ mem' = Hydrated(invalid, resume)
  BY DEF Reopen
<1>2. mem'.prints = << >> /\ NoStreak(mem'.prints, inst'.maxRepeatedStates) /\ ~mem'.rejected
  <2>1. \E c, s, f, b, nr, it, p, l :
          mem' = [EmptyMem EXCEPT !.iteration = it, !.patch = p, !.completed = c,
                                  !.skipped = s, !.failed = f, !.blocked = b,
                                  !.nonResumable = nr, !.lineage = l]
    BY <1>1 DEF Hydrated
  <2>2. EmptyMem \in MemOf(inst)
    BY EmptyMemTyped
  <2>3. mem'.prints = EmptyMem.prints /\ mem'.rejected = EmptyMem.rejected
    BY <2>1, <2>2 DEF MemOf
  <2> QED BY <2>3, EmptyPrints
<1>3. run'.iteration = run.iteration /\ run' # NoRun
  <2>1. run \in RunRows
    BY <1>1 DEF IInv, Typed
  <2> QED BY <1>1, <2>1 DEF RunRows, NoRun
<1>4. Calls \in Int /\ Calls' > 1
  <2>1. inst.runs \in Nat /\ inst.reruns \in Nat
    BY Limits DEF IInv
  <2>2. Calls \in Int
    BY <2>1 DEF LoopInv, Budget, Calls
  <2> QED BY <1>1, <2>2 DEF LoopInv
<1>5. ~FirstCall' /\ Calls' >= 1
  BY <1>4 DEF FirstCall
<1>6. SeenFields' /\ Orderly'
  BY <1>1, <1>2 DEF LoopInv, SeenFields, Orderly
<1>7. run'.iteration <= inst'.maxIterations
  BY <1>1, <1>3 DEF LoopInv
<1> HIDE DEF Under
<1> QED BY <1>2, <1>3, <1>5, <1>6, <1>7 DEF LoopInv

LEMMA CallLoops ==
  ASSUME IInv, LoopInv
  PROVE  /\ Resume => LoopInv'
         /\ \A n \in Nodes : RerunNode(n) => LoopInv'
<1>1. inst.runs \in Nat /\ inst.reruns \in Nat /\ Budget /\ SeenFields
  BY Limits DEF IInv, LoopInv
<1>2. ASSUME Resume PROVE LoopInv'
  <2>1. PICK resume : Reopen({}, resume)
    BY <1>2 DEF Resume
  <2>2. /\ left.runs > 0 /\ left' = [left EXCEPT !.runs = @ - 1] /\ inst' = inst
        /\ seen' = [seen EXCEPT !.answer = "none"]
    BY <1>2, <2>1 DEF Resume, Reopen
  <2>3. Budget' /\ Calls' = Calls + 1
    BY <1>1, <2>2 DEF Budget, Calls
  <2>4. DOMAIN seen' = DOMAIN seen /\ seen'.answer = "none"
    BY <1>1, <2>2 DEF SeenFields
  <2> QED BY <2>1, <2>3, <2>4, ReopenLoops
<1>3. ASSUME NEW n \in Nodes, RerunNode(n) PROVE LoopInv'
  <2>1. Reopen(Invalidated(n), {})
    BY <1>3 DEF RerunNode
  <2>2. /\ left.reruns > 0 /\ left' = [left EXCEPT !.reruns = @ - 1] /\ inst' = inst
        /\ \E s : seen' = [seen EXCEPT !.answer = "none", !.stale = s]
    BY <1>3, <2>1 DEF RerunNode, Reopen
  <2>3. Budget' /\ Calls' = Calls + 1
    BY <1>1, <2>2 DEF Budget, Calls
  <2>4. DOMAIN seen' = DOMAIN seen /\ seen'.answer = "none"
    BY <1>1, <2>2 DEF SeenFields
  <2> QED BY <2>1, <2>3, <2>4, ReopenLoops
<1> QED BY <1>2, <1>3

LEMMA FeedbackPlace ==
  ASSUME IInv, LoopInv, pc = "feedback"
  PROVE  /\ Typed /\ Under /\ mem \in MemOf(inst) /\ cur.back \in {"work", "sched"}
         /\ run # NoRun /\ run \in RunRows /\ mem.iteration = run.iteration
         /\ cur.back = "sched" => ~mem.rejected
BY RunKept DEF IInv, Typed, Places, Under, LoopInv, Orderly

LEMMA HaltLoopLoops ==
  ASSUME IInv, LoopInv, pc = "feedback", HaltLoop, inst' = inst, left' = left
  PROVE  LoopInv'
<1> DEFINE m == [mem EXCEPT !.halted = TRUE]
<1>1. m \in MemOf(inst) /\ m.prints = mem.prints /\ m.rejected = mem.rejected
  BY FeedbackPlace DEF MemOf
<1>2. /\ mem' = (IF cur.back = "work" THEN Leave(m, cur.node) ELSE m) /\ pc' = cur.back
      /\ run' = run /\ seen' = seen
  BY DEF HaltLoop, EndFeedback
<1> HIDE DEF m
<1>3. mem'.prints = mem.prints /\ mem'.rejected = mem.rejected
  BY <1>1, <1>2, PrintsOfLeave
<1>4. Same
  BY <1>2, <1>3, FeedbackPlace DEF Same, Under, Orderly
<1> QED BY <1>4, SameKeeps DEF IInv

LEMMA ResetPrints ==
  ASSUME NEW i, NEW m \in MemOf(i)
  PROVE  Reset(m).prints = m.prints /\ Reset(m).rejected = m.rejected
<1>1. \E c, s, b, f, d : Reset(m) = [m EXCEPT !.completed = c, !.skipped = s, !.blocked = b,
                                              !.failed = f, !.dead = d]
  BY DEF Reset
<1> QED BY <1>1 DEF MemOf

LEMMA PrintsOf ==
  ASSUME Typed, LoopInv, NEW p \in inst.prints, Repeats(mem.prints, p) < inst.maxRepeatedStates
  PROVE  NoStreak(Append(mem.prints, p), inst.maxRepeatedStates)
<1>1. mem.prints \in Seq(inst.prints)
  BY DEF Typed, MemOf
<1> QED BY <1>1, Limits, StreakAppended DEF LoopInv

LEMMA AdvanceLoops ==
  ASSUME IInv, LoopInv, pc = "feedback", ~OverLimit, NEW p \in inst.prints,
         Repeats(mem.prints, p) < inst.maxRepeatedStates, Advance(p), inst' = inst,
         left' = left
  PROVE  LoopInv'
<1>1. /\ run' = [run EXCEPT !.iteration = mem.iteration + 1] /\ NextIteration(p)
      /\ seen' = [seen EXCEPT !.prints = Append(@, p)]
  BY DEF Advance
<1> DEFINE next == [mem EXCEPT !.iteration = @ + 1, !.patch = mem.changes,
                               !.changes = NoChange, !.prints = Append(@, p)]
<1>2. next \in MemOf(inst) /\ next.prints = Append(mem.prints, p)
        /\ next.rejected = mem.rejected
  <2>1. /\ Append(mem.prints, p) \in Seq(inst.prints) /\ NoChange \in PatchesOf(inst)
        /\ mem.iteration + 1 \in Nat /\ mem.changes \in PatchesOf(inst)
        /\ mem \in MemOf(inst)
    BY FeedbackPlace DEF Typed, MemOf, PatchesOf
  <2> DEFINE With(it, c, d, h) == [mem EXCEPT !.iteration = it, !.patch = c, !.changes = d,
                                              !.prints = h]
  <2>2. ASSUME NEW it \in Nat, NEW c \in PatchesOf(inst), NEW d \in PatchesOf(inst),
               NEW h \in Seq(inst.prints)
        PROVE  /\ With(it, c, d, h) \in MemOf(inst) /\ With(it, c, d, h).prints = h
               /\ With(it, c, d, h).rejected = mem.rejected
    BY <2>1 DEF MemOf
  <2>3. next = With(mem.iteration + 1, mem.changes, NoChange, Append(mem.prints, p))
    OBVIOUS
  <2> HIDE DEF With, next
  <2> QED BY <2>1, <2>2, <2>3
<1>3. mem' = (IF cur.back = "work" THEN Leave(Reset(next), cur.node) ELSE Reset(next))
        /\ pc' = cur.back
  BY <1>1 DEF NextIteration, EndFeedback
<1> HIDE DEF next
<1>4. mem'.prints = Append(mem.prints, p) /\ mem'.rejected = mem.rejected
  <2>1. Reset(next) \in MemOf(inst)
    BY <1>2, ResetTyped
  <2> QED BY <1>2, <1>3, <2>1, ResetPrints, PrintsOfLeave
<1>5. NoStreak(mem'.prints, inst'.maxRepeatedStates)
  BY <1>4, PrintsOf, FeedbackPlace
<1>6. /\ run'.iteration <= inst'.maxIterations /\ run' # NoRun
  <2>1. run'.iteration = mem.iteration + 1 /\ mem.iteration + 1 # 0
        /\ mem.iteration \in Nat
    BY <1>1, FeedbackPlace DEF RunRows
  <2>2. ~(mem.iteration + 1 > inst.maxIterations)
    BY DEF OverLimit
  <2>3. NoRun.iteration = 0
    BY DEF NoRun
  <2> QED BY <2>1, <2>2, <2>3, FeedbackPlace, Limits
<1>7. /\ seen'.prints = Append(seen.prints, p) /\ seen'.answer = seen.answer /\ SeenFields'
      /\ seen.answer = "none"
  BY <1>1, FeedbackPlace DEF LoopInv, SeenFields
<1>8. Orderly' /\ Under'
  BY <1>3, <1>4, FeedbackPlace DEF Orderly, Under
<1>9. Budget' /\ Calls' = Calls /\ Calls' >= 1
  BY FeedbackPlace DEF LoopInv, Budget, Calls
<1>10. FirstCall' => FirstCall
  BY <1>4, <1>7, <1>9 DEF FirstCall
<1>11. FirstCall' => mem'.prints = seen'.prints
  BY <1>4, <1>7, <1>10, FeedbackPlace DEF LoopInv
<1> HIDE DEF Under
<1> QED BY <1>5, <1>6, <1>7, <1>8, <1>9, <1>11 DEF LoopInv

LEMMA ConflictLoops ==
  ASSUME IInv, LoopInv, pc = "feedback", NEW p \in inst.prints,
         Repeats(mem.prints, p) < inst.maxRepeatedStates, Conflict(p), inst' = inst,
         left' = left
  PROVE  LoopInv'
<1>1. cur.back = "work"
  BY FeedbackPlace DEF LoopInv, Orderly, Conflict
<1> DEFINE m == [mem EXCEPT !.prints = Append(@, p), !.failed = @ \cup {cur.node},
                            !.rejected = TRUE]
<1>2. m \in MemOf(inst) /\ m.prints = Append(mem.prints, p) /\ m.rejected
  <2>1. /\ Append(mem.prints, p) \in Seq(inst.prints) /\ mem \in MemOf(inst)
        /\ mem.failed \cup {cur.node} \in SUBSET inst.nodes
    <3>1. mem \in MemOf(inst) /\ cur.node \in inst.nodes
      BY FeedbackPlace DEF IInv, Places, Nodes
    <3> QED BY <3>1 DEF MemOf
  <2> DEFINE With(h, f) == [mem EXCEPT !.prints = h, !.failed = f, !.rejected = TRUE]
  <2>2. ASSUME NEW h \in Seq(inst.prints), NEW f \in SUBSET inst.nodes
        PROVE  With(h, f) \in MemOf(inst) /\ With(h, f).prints = h /\ With(h, f).rejected
    BY <2>1 DEF MemOf
  <2>3. m = With(Append(mem.prints, p), mem.failed \cup {cur.node})
    OBVIOUS
  <2> HIDE DEF With, m
  <2> QED BY <2>1, <2>2, <2>3
<1>3. mem' = Leave(m, cur.node) /\ pc' = "work" /\ run' = run /\ seen' = seen
  BY <1>1 DEF Conflict, EndFeedback
<1> HIDE DEF m
<1>4. mem'.prints = Append(mem.prints, p) /\ mem'.rejected
  BY <1>2, <1>3, PrintsOfLeave
<1>5. NoStreak(mem'.prints, inst'.maxRepeatedStates)
  BY <1>4, PrintsOf, FeedbackPlace
<1>6. Budget' /\ Calls' = Calls
  BY DEF LoopInv, Budget, Calls
<1>7. Orderly' /\ ~FirstCall' /\ SeenFields' /\ Under'
  BY <1>3, <1>4 DEF Orderly, FirstCall, LoopInv, SeenFields, Under
<1>8. run' # NoRun => run'.iteration <= inst'.maxIterations /\ Calls' >= 1
  BY <1>3, <1>6 DEF LoopInv
<1>9. seen'.answer = "none" /\ run' # NoRun
  BY <1>3, FeedbackPlace DEF LoopInv
<1> HIDE DEF Under
<1> QED BY <1>5, <1>6, <1>7, <1>8, <1>9 DEF LoopInv

LEMMA FeedbackLoops ==
  ASSUME IInv, LoopInv, FeedbackStep
  PROVE  LoopInv'
<1>1. inst' = inst /\ left' = left /\ pc = "feedback"
  BY DEF FeedbackStep
<1>2. CASE HaltLoop
  BY <1>1, <1>2, HaltLoopLoops
<1>3. CASE ~HaltLoop
  <2>1. PICK p \in inst.prints : /\ ~OverLimit
                                 /\ Repeats(mem.prints, p) < inst.maxRepeatedStates
                                 /\ Advance(p) \/ Conflict(p)
    BY <1>3 DEF FeedbackStep
  <2> QED BY <1>1, <2>1, AdvanceLoops, ConflictLoops
<1> QED BY <1>2, <1>3

LEMMA LoopStep ==
  ASSUME IInv, LoopInv, [Next]_vars
  PROVE  LoopInv'
<1>1. CASE Executor
  BY <1>1, SameSteps, FeedbackLoops, BatchDoneLoops, EndingLoops DEF Executor
<1>2. CASE Host
  BY <1>2, SameSteps, StartRunLoops, CallLoops, CrashLoops, RecoverLoops DEF Host
<1>3. CASE \E n \in Nodes : InNode(n)
  BY <1>3, SameSteps
<1>4. CASE UNCHANGED vars
  <2>1. Same
    BY <1>4 DEF vars, Same, LoopInv, Orderly, SourceAttempt, Under
  <2> QED BY <2>1, SameKeeps DEF IInv
<1> QED BY <1>1, <1>2, <1>3, <1>4 DEF Next

LEMMA LoopInit == Init => LoopInv
<1> SUFFICES ASSUME Init PROVE LoopInv
  OBVIOUS
<1>1. Typed
  BY InitHolds DEF IInv
<1>2. /\ run = NoRun /\ mem = EmptyMem /\ pc = "idle" /\ seen.answer = "none"
      /\ left = [runs |-> inst.runs, reruns |-> inst.reruns, crashes |-> inst.crashes,
                 aborts |-> inst.aborts, skips |-> inst.skips]
      /\ seen = [answer |-> "none", crashed |-> {}, prints |-> << >>, stale |-> {}]
  BY DEF Init
<1>3. Budget /\ SeenFields /\ Orderly /\ seen.prints = << >> /\ ~Under
  BY <1>1, <1>2, Limits DEF Budget, SeenFields, Orderly, Under
<1>4. mem.prints = << >> /\ NoStreak(mem.prints, inst.maxRepeatedStates)
  BY <1>2, EmptyPrints
<1> HIDE DEF Under
<1> QED BY <1>2, <1>3, <1>4 DEF LoopInv

\* However a run loops, crashes and is resumed, its iteration stays within the
\* loop policy, and in no call of run() more than maxRepeatedStates consecutive
\* iterations have one fingerprint.
THEOREM LoopsAreBounded ==
  Spec => [](/\ run # NoRun => run.iteration <= inst.maxIterations
             /\ NoStreak(mem.prints, inst.maxRepeatedStates))
<1>1. IInv /\ LoopInv /\ [Next]_vars => IInv' /\ LoopInv'
  BY NextStep, LoopStep
<1>2. Init => IInv /\ LoopInv
  BY InitHolds, LoopInit
<1>3. LoopInv => /\ run # NoRun => run.iteration <= inst.maxIterations
                 /\ NoStreak(mem.prints, inst.maxRepeatedStates)
  BY DEF LoopInv
<1> QED BY <1>1, <1>2, <1>3, PTL DEF Spec

\* Counted over the whole life of a run, this holds as long as run() is called
\* for the first time: the history of fingerprints is not stored, so a later
\* call, after a rerun, a rejection or a death, begins to count anew.
THEOREM NoProgressEndsLoops == Spec => [](FirstCall => NoProgressIsNoticed)
<1>1. IInv /\ LoopInv /\ [Next]_vars => IInv' /\ LoopInv'
  BY NextStep, LoopStep
<1>2. Init => IInv /\ LoopInv
  BY InitHolds, LoopInit
<1>3. LoopInv => (FirstCall => NoProgressIsNoticed)
  BY DEF LoopInv, NoStreak, NoProgressIsNoticed
<1> QED BY <1>1, <1>2, <1>3, PTL DEF Spec

-----------------------------------------------------------------------------
(* Runs of templates without feedback edges.                                *)

LoopFree == Feedback(Edges) = {}

NoReady(table) ==
  \A n \in NodeIds : \A k \in DOMAIN table[n] : table[n][k].status # "ready"
Last(rows) == rows[Len(rows)].status

\* What the executor holds about node n agrees with the latest of its rows.
Agrees(m, rows, n) ==
  /\ n \in m.completed => rows # << >> /\ Last(rows) = "completed" /\ m.lineage[n] = Len(rows)
  /\ n \notin m.completed => m.lineage[n] = 0
  /\ n \in m.skipped => rows # << >> /\ Last(rows) = "skipped"
  /\ n \in m.blocked => n \in m.resumable \cup m.nonResumable
  /\ n \in m.resumable => n \in m.blocked /\ rows # << >> /\ Last(rows) = "blocked"
  /\ m.stage[n] # "none" => m.number[n] = Len(rows)

\* A node is started only after its predecessors, and only if it is not done.
Done(m) == m.completed \cup m.skipped
Follows(m, n) ==
  /\ m.stage[n] # "none" \/ n \in m.batch => Preds(Edges, n) \subseteq Done(m)
  /\ n \in m.batch => n \notin Done(m) \cup m.blocked

\* A worktree has the change sets of the predecessors once they are applied.
Inputs(m, n) == {Change(p, m.lineage[p]) :
                   p \in {q \in Preds(Edges, n) \cap Writers : m.lineage[q] # 0}}
Grown(m, n) ==
  n \in Writers =>
    /\ m.stage[n] # "patch"
    /\ m.stage[n] \in {"none", "prepare"} => m.tree[n] = {}
    /\ m.stage[n] \in {"apply", "leaf", "capture"} => m.tree[n] = Inputs(m, n)

Straight ==
  /\ pc # "feedback" /\ mem.patch = NoChange /\ ~mem.rejected
  /\ run # NoRun => run.iteration = 1
  /\ ~Under => mem = EmptyMem
  /\ pc # "start" => mem.batch = {}
  /\ NoReady(attempts)
Each ==
  \A n \in Nodes : Agrees(mem, attempts[n], n) /\ Follows(mem, n) /\ Grown(mem, n)

\* What a run has come to when it ends or rests.
AllDone == \A n \in Nodes : LatestStatus(attempts, n) \in {"completed", "skipped"}
Waits   == \E n \in Nodes : LatestStatus(attempts, n) = "blocked"
Results ==
  /\ pc = "ending" /\ Outcome = "completed" => Done(mem) = Nodes
  /\ run.status = "completed" => run.finished /\ AllDone
  /\ left.reruns = inst.reruns =>
       /\ run.finished => run.status # "running"
       /\ pc = "idle" /\ run.status = "running" => Waits

StraightInv == LoopFree => Straight /\ Each /\ Results

-----------------------------------------------------------------------------
(* Rows of a template without loops.                                        *)

LEMMA RowsAre ==
  ASSUME NEW i, NEW table \in TablesOf(i), NEW n \in NodeIds
  PROVE  /\ table[n] \in Seq(RowOf(i)) /\ DOMAIN table[n] = 1 .. Len(table[n])
         /\ Len(table[n]) \in Nat
         /\ table[n] # << >> => Len(table[n]) \in DOMAIN table[n]
         /\ Len(table[n]) # 0 => table[n] # << >>
         /\ table[n] = << >> => Len(table[n]) = 0
<1>1. table[n] \in Seq(RowOf(i))
  BY DEF TablesOf
<1> QED BY <1>1

\* Node n has one more row, or its last row has ended, with that status.
Added(n, status) ==
  /\ OnlyAt(n, attempts, attempts') /\ NoReady(attempts')
  /\ attempts'[n] # << >> /\ Last(attempts'[n]) = status
Ended(n, status) == Added(n, status) /\ Len(attempts'[n]) = Len(attempts[n])

LEMMA RecordedOnly ==
  ASSUME Typed, NoReady(attempts), NEW n \in NodeIds, NEW it \in Nat \ {0},
         attempts' = RecordAttempt(attempts, n, "running", it)
  PROVE  Added(n, "running")
<1>1. "running" \in AttemptStatuses /\ attempts \in TablesOf(inst)
  BY DEF AttemptStatuses, Typed
<1>2. NewAttempt("running", it).status = "running"
  BY <1>1, NewRow
<1>3. /\ attempts' \in TablesOf(inst) /\ OnlyAt(n, attempts, attempts')
      /\ Len(attempts'[n]) = Len(attempts[n]) + 1
      /\ DOMAIN attempts'[n] = 1 .. (Len(attempts[n]) + 1)
      /\ \A k \in DOMAIN attempts[n] : attempts'[n][k] = attempts[n][k]
      /\ attempts'[n][Len(attempts[n]) + 1].status = "running"
  BY <1>1, <1>2, Recorded
<1>4. Len(attempts[n]) \in Nat /\ DOMAIN attempts[n] = 1 .. Len(attempts[n])
  BY <1>1, RowsAre
<1>5. attempts'[n] # << >> /\ Last(attempts'[n]) = "running"
  BY <1>3, <1>4, RowsAre DEF Last
<1>6. NoReady(attempts')
  BY SMTT(30), <1>3, <1>4 DEF NoReady, OnlyAt
<1> QED BY <1>3, <1>5, <1>6 DEF Added

LEMMA RecordedAndEnded ==
  ASSUME Typed, NoReady(attempts), NEW n \in NodeIds, NEW it \in Nat \ {0},
         NEW first \in {"ready", "running"},
         NEW status \in {"skipped", "blocked", "failed"}, NEW note \in Notes,
         attempts' = EndLast(RecordAttempt(attempts, n, first, it), n, status, note)
  PROVE  Added(n, status)
<1> DEFINE one == RecordAttempt(attempts, n, first, it)
<1>1. /\ first \in AttemptStatuses /\ attempts \in TablesOf(inst)
      /\ status \in AttemptStatuses /\ status # "completed" /\ status # "ready"
  BY DEF AttemptStatuses, TerminalStatuses, Typed
<1>2. OwnRow(one[n], Len(one[n])) /\ one \in TablesOf(inst)
  BY <1>1, RecordedIsOwn DEF Touched
<1>3. /\ OnlyAt(n, attempts, one) /\ Len(one[n]) = Len(attempts[n]) + 1
      /\ DOMAIN one[n] = 1 .. (Len(attempts[n]) + 1)
      /\ \A k \in DOMAIN attempts[n] : one[n][k] = attempts[n][k]
  BY <1>1, Recorded
<1>4. attempts' = SetAttempt(one, n, Len(one[n]), status, note)
  BY DEF EndLast
<1> HIDE DEF one
<1>5. /\ attempts' \in TablesOf(inst) /\ OnlyAt(n, one, attempts')
      /\ DOMAIN attempts'[n] = DOMAIN one[n]
      /\ attempts'[n][Len(one[n])].status = status
      /\ \A j \in DOMAIN one[n] \ {Len(one[n])} : attempts'[n][j] = one[n][j]
  BY <1>1, <1>2, <1>4, SetTouches DEF OwnRow
<1>6. /\ Len(attempts[n]) \in Nat /\ DOMAIN attempts[n] = 1 .. Len(attempts[n])
      /\ Len(attempts'[n]) \in Nat /\ DOMAIN attempts'[n] = 1 .. Len(attempts'[n])
  BY <1>1, <1>5, RowsAre
<1>7. Len(attempts'[n]) = Len(attempts[n]) + 1
  BY <1>3, <1>5, <1>6
<1>8. attempts'[n] # << >> /\ Last(attempts'[n]) = status
  BY <1>3, <1>5, <1>6, <1>7, RowsAre DEF Last
<1>9. OnlyAt(n, attempts, attempts')
  BY <1>3, <1>5 DEF OnlyAt
<1>10. NoReady(attempts')
  <2> SUFFICES ASSUME NEW m \in NodeIds, NEW k \in DOMAIN attempts'[m]
               PROVE  attempts'[m][k].status # "ready"
    BY DEF NoReady
  <2>1. CASE m # n
    BY <1>9, <2>1 DEF NoReady, OnlyAt
  <2>2. CASE m = n /\ k = Len(one[n])
    BY <1>1, <1>5, <2>2
  <2>3. CASE m = n /\ k # Len(one[n])
    BY SMTT(30), <1>3, <1>5, <1>6, <1>7, <2>3 DEF NoReady
  <2> QED BY <2>1, <2>2, <2>3
<1> QED BY <1>8, <1>9, <1>10 DEF Added

LEMMA TakeRecords ==
  ASSUME Typed, NoReady(attempts), NEW n \in NodeIds, NEW status
  PROVE  Take(n, status) = RecordAttempt(attempts, n, status, mem.iteration)
<1>1. LatestStatus(attempts, n) # "ready"
  BY RowsAre DEF LatestStatus, Latest, NoReady, Typed
<1> QED BY <1>1 DEF Take

\* The last row is the one that the node executes.
LEMMA OwnIsLast ==
  ASSUME Typed, Each, NEW n \in Nodes, mem.stage[n] # "none",
         OwnRow(attempts[n], mem.number[n])
  PROVE  /\ mem.number[n] = Len(attempts[n]) /\ attempts[n] # << >>
         /\ Last(attempts[n]) \in {"running", "ready"}
         /\ n \notin Done(mem) /\ n \notin mem.resumable
<1>1. mem.number[n] = Len(attempts[n])
  BY DEF Each, Agrees
<1>2. attempts[n] # << >> /\ Last(attempts[n]) \in {"running", "ready"}
  <2>1. n \in NodeIds
    BY Facts
  <2> QED BY <1>1, <2>1, RowsAre DEF OwnRow, Last, Typed
<1> QED BY <1>1, <1>2 DEF Each, Agrees, Done

LEMMA LastEnded ==
  ASSUME Typed, NoReady(attempts), Each, NEW n \in Nodes, mem.stage[n] # "none",
         OwnRow(attempts[n], mem.number[n]),
         NEW status \in TerminalStatuses, NEW note \in Notes,
         attempts' = EndAttempt(n, status, note)
  PROVE  Ended(n, status)
<1> DEFINE k == Len(attempts[n])
<1>1. /\ mem.number[n] = k /\ n \in NodeIds /\ attempts \in TablesOf(inst)
      /\ status \in AttemptStatuses /\ status # "ready"
  BY OwnIsLast, Facts DEF Typed, AttemptStatuses, TerminalStatuses
<1>2. /\ attempts' \in TablesOf(inst) /\ OnlyAt(n, attempts, attempts')
      /\ DOMAIN attempts'[n] = DOMAIN attempts[n] /\ attempts'[n][k].status = status
      /\ \A j \in DOMAIN attempts[n] \ {k} : attempts'[n][j] = attempts[n][j]
  BY <1>1, SetTouches DEF OwnRow, EndAttempt
<1>3. /\ Len(attempts[n]) \in Nat /\ DOMAIN attempts[n] = 1 .. Len(attempts[n])
      /\ Len(attempts'[n]) \in Nat /\ DOMAIN attempts'[n] = 1 .. Len(attempts'[n])
      /\ k \in DOMAIN attempts[n]
  BY <1>1, <1>2, RowsAre DEF OwnRow
<1>4. Len(attempts'[n]) = Len(attempts[n])
  BY <1>2, <1>3
<1>5. attempts'[n] # << >> /\ Last(attempts'[n]) = status
  BY <1>2, <1>3, <1>4 DEF Last
<1>6. NoReady(attempts')
  <2> SUFFICES ASSUME NEW m \in NodeIds, NEW j \in DOMAIN attempts'[m]
               PROVE  attempts'[m][j].status # "ready"
    BY DEF NoReady
  <2> QED BY <1>1, <1>2 DEF NoReady, OnlyAt
<1> QED BY <1>2, <1>4, <1>5, <1>6 DEF Ended, Added

-----------------------------------------------------------------------------
(* A step that changes one node, and values of mem in which nothing is done. *)

\* The sets that Each speaks of differ in node n alone.
SetsAt(m, m2, n) ==
  \A q \in Nodes \ {n} :
    /\ (q \in m2.completed) = (q \in m.completed) /\ (q \in m2.skipped) = (q \in m.skipped)
    /\ (q \in m2.blocked) = (q \in m.blocked) /\ (q \in m2.resumable) = (q \in m.resumable)
    /\ (q \in m2.nonResumable) = (q \in m.nonResumable)
    /\ m2.lineage[q] = m.lineage[q]

LEMMA EachKept ==
  ASSUME Typed, Each, NEW n \in Nodes, inst' = inst, OnlyAt(n, attempts, attempts'),
         Others(mem, mem', n), SetsAt(mem, mem', n), mem'.batch \subseteq mem.batch,
         Done(mem) \subseteq Done(mem'),
         mem'.lineage = mem.lineage \/ n \notin Done(mem),
         Agrees(mem', attempts'[n], n), Follows(mem', n), Grown(mem', n)
  PROVE  Each'
<1> SUFFICES ASSUME NEW q \in Nodes, q # n
             PROVE  Agrees(mem', attempts'[q], q) /\ Follows(mem', q) /\ Grown(mem', q)
  BY DEF Each, Nodes, Follows, Grown, Inputs, Edges, Writers
<1>1. /\ q \in NodeIds /\ attempts'[q] = attempts[q]
      /\ mem'.stage[q] = mem.stage[q] /\ mem'.number[q] = mem.number[q]
      /\ mem'.tree[q] = mem.tree[q]
  BY Facts DEF OnlyAt, Others
<1>2. Agrees(mem', attempts'[q], q)
  BY <1>1 DEF Each, Agrees, SetsAt
<1>3. Follows(mem', q)
  BY <1>1 DEF Each, Follows, SetsAt, Done
<1>4. ASSUME q \in Writers, mem.stage[q] # "none" PROVE Inputs(mem', q) = Inputs(mem, q)
  <2>1. CASE mem'.lineage = mem.lineage
    BY <2>1 DEF Inputs
  <2>2. CASE n \notin Done(mem)
    <3>1. n \notin Preds(Edges, q)
      BY <1>4, <2>2 DEF Each, Follows
    <3>2. \A p \in Preds(Edges, q) : mem'.lineage[p] = mem.lineage[p]
      BY <3>1, Facts DEF SetsAt, Preds, In, Forward
    <3> QED BY <3>2 DEF Inputs
  <2> QED BY <2>1, <2>2
<1>5. Grown(mem', q)
  BY <1>1, <1>4 DEF Each, Grown
<1> QED BY <1>2, <1>3, <1>5

\* Nothing changes that Each speaks of.
LEMMA EachSame ==
  ASSUME Each, inst' = inst, attempts' = attempts, mem'.completed = mem.completed,
         mem'.skipped = mem.skipped, mem'.blocked = mem.blocked,
         mem'.resumable = mem.resumable, mem'.nonResumable = mem.nonResumable,
         mem'.lineage = mem.lineage, mem'.batch = mem.batch, mem'.stage = mem.stage,
         mem'.number = mem.number, mem'.tree = mem.tree
  PROVE  Each'
BY DEF Each, Agrees, Follows, Grown, Done, Inputs, Nodes, Edges, Writers

\* Nothing is in flight, and what is done is so by its last row.
LEMMA EachRead ==
  ASSUME Typed, NEW m, mem' = m, inst' = inst, m.batch = {}, m.resumable = {},
         \A n \in Nodes :
           /\ m.stage[n] = "none" /\ m.tree[n] = {}
           /\ n \in m.completed => /\ attempts'[n] # << >> /\ Last(attempts'[n]) = "completed"
                                   /\ m.lineage[n] = Len(attempts'[n])
           /\ n \notin m.completed => m.lineage[n] = 0
           /\ n \in m.skipped => attempts'[n] # << >> /\ Last(attempts'[n]) = "skipped"
           /\ n \in m.blocked => n \in m.nonResumable
  PROVE  Each'
BY DEF Each, Agrees, Follows, Grown, Nodes

LEMMA EmptyIs ==
  /\ EmptyMem.batch = {} /\ EmptyMem.resumable = {} /\ EmptyMem.completed = {}
  /\ EmptyMem.skipped = {} /\ EmptyMem.blocked = {} /\ EmptyMem.patch = NoChange
  /\ ~EmptyMem.rejected
  /\ \A n \in NodeIds : /\ EmptyMem.stage[n] = "none" /\ EmptyMem.tree[n] = {}
                        /\ EmptyMem.lineage[n] = 0
BY DEF EmptyMem

LEMMA EachEmpty ==
  ASSUME Typed, inst' = inst, mem' = EmptyMem
  PROVE  Each'
BY EachRead, EmptyIs, Facts

-----------------------------------------------------------------------------
(* Steps of a template without loops.                                       *)

\* While run() is under way nothing has come of the run yet.
LEMMA UnderWay ==
  ASSUME Places', pc' \notin {"idle", "starting", "ending"}, inst' = inst,
         left'.reruns = inst.reruns => ~run'.finished
  PROVE  Results'
BY DEF Results, Places

LEMMA NotFinished ==
  ASSUME IInv, Results, Under
  PROVE  left.reruns = inst.reruns => ~run.finished
BY DEF IInv, Places, Results, Under

\* A step under way that leaves the run and the bounds on reruns alone.
Onward ==
  /\ inst' = inst /\ run' = run /\ left'.reruns = left.reruns
  /\ Under /\ pc' \notin {"idle", "starting", "ending", "feedback"}
  /\ mem'.patch \in {mem.patch, NoChange} /\ mem'.rejected = mem.rejected
  /\ pc' # "start" => mem'.batch = {}
  /\ NoReady(attempts')

LEMMA OnwardKeeps ==
  ASSUME IInv, IInv', Straight, Results, Onward
  PROVE  Straight' /\ Results'
<1>1. Results'
  BY UnderWay, NotFinished DEF IInv, Onward
<1>2. Straight'
  BY DEF Straight, Onward, Under
<1> QED BY <1>1, <1>2

LEMMA StartKeeps ==
  ASSUME IInv, IInv', Straight, Each, Results, NEW n \in Nodes, StartNode(n)
  PROVE  Straight' /\ Each' /\ Results'
<1>0. Typed /\ Places /\ mem \in MemOf(inst) /\ n \in NodeIds /\ NoReady(attempts)
        /\ mem.iteration \in Nat \ {0}
  BY Facts, Iterating DEF IInv, Typed, Straight, StartNode
<1>1. n \in mem.batch /\ mem.stage[n] = "none"
  <2>1. mem.batch # {} /\ mem.batch \in SUBSET NodeIds
    BY <1>0, Facts DEF Places, StartNode, MemOf, Nodes
  <2>2. n \in mem.batch
    BY <2>1, FirstIn DEF StartNode
  <2> QED BY <1>0, <2>2 DEF Places, StartNode
<1>2. /\ n \notin Done(mem) \cup mem.blocked /\ Preds(Edges, n) \subseteq Done(mem)
      /\ mem.lineage[n] = 0 /\ n \notin mem.resumable
      /\ n \in Writers => mem.tree[n] = {}
  BY <1>1 DEF Each, Follows, Agrees, Grown, Done
<1>3. /\ inst' = inst /\ run' = run /\ left' = left /\ pc = "start"
      /\ pc' = IF mem.batch = {n} THEN "work" ELSE "start"
      /\ Started = [mem EXCEPT !.batch = @ \ {n}]
  BY DEF StartNode, AfterStart, Started
<1> DEFINE Kept ==
      /\ mem'.completed = mem.completed /\ mem'.lineage = mem.lineage
      /\ mem'.resumable = mem.resumable /\ mem'.tree = mem.tree
      /\ mem'.patch = mem.patch /\ mem'.rejected = mem.rejected
      /\ mem'.batch = mem.batch \ {n}
    Still == mem'.stage = mem.stage /\ mem'.number = mem.number
    Outcomes ==
      \/ /\ Added(n, "skipped") /\ Still /\ mem'.skipped = mem.skipped \cup {n}
         /\ mem'.blocked = mem.blocked /\ mem'.nonResumable = mem.nonResumable
      \/ /\ Added(n, "blocked") /\ Still /\ mem'.skipped = mem.skipped
         /\ mem'.blocked = mem.blocked \cup {n}
         /\ mem'.nonResumable = mem.nonResumable \cup {n}
      \/ /\ Added(n, "failed") /\ Still /\ mem'.skipped = mem.skipped
         /\ mem'.blocked = mem.blocked /\ mem'.nonResumable = mem.nonResumable
      \/ /\ Added(n, "running") /\ mem'.skipped = mem.skipped
         /\ mem'.blocked = mem.blocked /\ mem'.nonResumable = mem.nonResumable
         /\ mem'.number = [mem.number EXCEPT ![n] = Len(attempts'[n])]
         /\ mem'.stage = [mem.stage EXCEPT ![n] = IF n \in Writers THEN "prepare" ELSE "leaf"]
<1>4. Kept /\ Outcomes
  <2>0. "none" \in Notes /\ "slot" \in Notes /\ "resolution" \in Notes /\ "other" \in Notes
    BY DEF Notes
  <2>1. CASE StartSkipped(n)
    <3>1. attempts' = EndLast(RecordAttempt(attempts, n, "ready", mem.iteration), n,
                              "skipped", "none")
      BY <1>0, <2>1, TakeRecords DEF StartSkipped
    <3>2. Added(n, "skipped")
      BY <1>0, <2>0, <3>1, RecordedAndEnded
    <3>3. mem' = [[mem EXCEPT !.batch = @ \ {n}] EXCEPT !.skipped = @ \cup {n}]
      BY <1>3, <2>1 DEF StartSkipped
    <3> QED BY <1>0, <3>2, <3>3 DEF MemOf
  <2>2. CASE StartUnresolved(n)
    <3>1. PICK note \in Notes :
            attempts' = EndLast(RecordAttempt(attempts, n, "running", mem.iteration), n,
                                "blocked", note)
      BY <1>0, <2>0, <2>2, TakeRecords DEF StartUnresolved
    <3>2. Added(n, "blocked")
      BY <1>0, <3>1, RecordedAndEnded
    <3>3. mem' = [[mem EXCEPT !.batch = @ \ {n}] EXCEPT
                    !.blocked = @ \cup {n}, !.nonResumable = @ \cup {n}]
      BY <1>3, <2>2 DEF StartUnresolved
    <3> QED BY <1>0, <3>2, <3>3 DEF MemOf
  <2>3. CASE StartRoleFailure(n)
    <3>1. attempts' = EndLast(RecordAttempt(attempts, n, "running", mem.iteration), n,
                              "failed", "other")
      BY <2>3 DEF StartRoleFailure
    <3>2. Added(n, "failed")
      BY <1>0, <2>0, <3>1, RecordedAndEnded
    <3>3. mem' = [[mem EXCEPT !.batch = @ \ {n}] EXCEPT !.failed = @ \cup {n}]
      BY <1>3, <2>3 DEF StartRoleFailure
    <3> QED BY <1>0, <3>2, <3>3 DEF MemOf
  <2>4. CASE StartRunning(n)
    <3>1. attempts' = RecordAttempt(attempts, n, "running", mem.iteration)
      BY <1>0, <2>4, TakeRecords DEF StartRunning
    <3>2. Added(n, "running")
      BY <1>0, <3>1, RecordedOnly
    <3> DEFINE s == IF n \in Writers THEN "prepare" ELSE "leaf"
               k == Len(attempts'[n])
    <3>3. mem' = [[mem EXCEPT !.batch = @ \ {n}] EXCEPT !.stage[n] = s, !.number[n] = k]
      BY <1>3, <2>4 DEF StartRunning
    <3> HIDE DEF s, k
    <3>4. Kept /\ mem'.skipped = mem.skipped
          /\ mem'.blocked = mem.blocked /\ mem'.nonResumable = mem.nonResumable
          /\ mem'.number = [mem.number EXCEPT ![n] = k]
          /\ mem'.stage = [mem.stage EXCEPT ![n] = s]
      BY <1>0, <3>3 DEF MemOf
    <3> QED BY <3>2, <3>4 DEF s, k
  <2> QED BY <2>1, <2>2, <2>3, <2>4 DEF StartNode
<1>5. OnlyAt(n, attempts, attempts') /\ NoReady(attempts')
  BY <1>4 DEF Added
<1>6. Others(mem, mem', n) /\ SetsAt(mem, mem', n) /\ Done(mem) \subseteq Done(mem')
  BY <1>0, <1>4 DEF Others, SetsAt, Done, MemOf
<1>7. Agrees(mem', attempts'[n], n)
  <2>1. mem.number \in [NodeIds -> Nat] /\ mem.stage \in [NodeIds -> Stages]
    BY <1>0 DEF MemOf
  <2> QED BY <1>0, <1>1, <1>2, <1>4, <2>1 DEF Agrees, Added, Done
<1>8. Follows(mem', n)
  BY <1>2, <1>4, <1>6 DEF Follows
<1>9. Grown(mem', n)
  <2>1. mem.stage \in [NodeIds -> Stages]
    BY <1>0 DEF MemOf
  <2> QED BY <1>0, <1>1, <1>2, <1>4, <2>1 DEF Grown
<1>10. Each'
  BY <1>0, <1>3, <1>4, <1>5, <1>6, <1>7, <1>8, <1>9, EachKept
<1>11. Onward
  BY <1>3, <1>4, <1>5 DEF Onward, Under
<1> QED BY <1>10, <1>11, OnwardKeeps

LEMMA WorkKeeps ==
  ASSUME IInv, IInv', Straight, Each, Results, NEW n \in Nodes, Work(n)
  PROVE  Straight' /\ Each' /\ Results'
<1>0. /\ Typed /\ mem \in MemOf(inst) /\ n \in NodeIds /\ NoReady(attempts)
      /\ mem' \in MemOf(inst)
  BY Facts DEF IInv, Typed, Straight, Work
<1>1. mem.stage[n] # "none" /\ Effect(n)
  BY <1>0, WorkEffect
<1>2. OwnRow(attempts[n], mem.number[n])
  BY <1>1 DEF IInv, Flight, Following, Work
<1>3. /\ mem.number[n] = Len(attempts[n]) /\ n \notin Done(mem) /\ n \notin mem.resumable
      /\ mem.lineage[n] = 0 /\ Preds(Edges, n) \subseteq Done(mem)
      /\ n \in mem.blocked => n \in mem.nonResumable
  BY <1>0, <1>1, <1>2, OwnIsLast DEF Each, Agrees, Follows, Done
<1>4. /\ inst' = inst /\ run' = run /\ left' = left /\ pc = "work" /\ pc' = "work"
      /\ mem.batch = {} /\ mem.patch = NoChange
  BY DEF Work, Straight
<1>5. /\ Beside(mem, mem') /\ Others(mem, mem', n) /\ mem'.batch = {}
      /\ Done(mem') = Done(mem)
  BY <1>1, <1>4 DEF Effect, Beside, Done
<1>6. ASSUME attempts' = attempts \/ \E status : Ended(n, status), SetsAt(mem, mem', n),
             Agrees(mem', attempts'[n], n), Follows(mem', n), Grown(mem', n)
      PROVE  Straight' /\ Each' /\ Results'
  <2>1. OnlyAt(n, attempts, attempts') /\ NoReady(attempts')
    BY <1>0, <1>6 DEF OnlyAt, Ended, Added
  <2>2. Each'
    BY <1>0, <1>4, <1>5, <1>6, <2>1, EachKept DEF Beside
  <2>3. Onward
    BY <1>1, <1>4, <1>5, <2>1 DEF Onward, Under, Effect, Beside
  <2> QED BY <2>2, <2>3, OnwardKeeps
<1>7. CASE Drops(n)
  <2>1. PICK status \in {"failed", "cancelled"} : attempts' = EndAttempt(n, status, "other")
    BY <1>7 DEF Drops
  <2>2. Ended(n, status)
    BY <1>0, <1>1, <1>2, <2>1, LastEnded DEF TerminalStatuses, Notes
  <2>3. SetsAt(mem, mem', n) /\ Agrees(mem', attempts'[n], n) /\ Follows(mem', n)
        /\ Grown(mem', n)
    BY <1>3, <1>5, <1>7 DEF Drops, SetsAt, Beside, Waiting, Agrees, Follows, Grown, Done
  <2> QED BY <1>6, <2>2, <2>3
<1>8. CASE Parks(n)
  <2>1. PICK note \in Notes : attempts' = EndAttempt(n, "blocked", note)
    BY <1>8 DEF Parks
  <2>2. Ended(n, "blocked")
    BY <1>0, <1>1, <1>2, <2>1, LastEnded DEF TerminalStatuses
  <2>3. SetsAt(mem, mem', n) /\ Follows(mem', n) /\ Grown(mem', n)
    BY <1>3, <1>5, <1>8 DEF Parks, SetsAt, Beside, Follows, Grown, Done
  <2>4. Agrees(mem', attempts'[n], n)
    BY <1>3, <1>5, <1>8, <2>2 DEF Parks, Beside, Agrees, Done, Ended, Added
  <2> QED BY <1>6, <2>2, <2>3, <2>4
<1>9. CASE GoesOn(n)
  <2>1. attempts' = attempts /\ Waiting(mem, mem') /\ mem'.number = mem.number
    BY <1>9 DEF GoesOn
  <2>2. SetsAt(mem, mem', n) /\ Agrees(mem', attempts'[n], n) /\ Follows(mem', n)
    BY <1>3, <1>5, <2>1 DEF SetsAt, Beside, Waiting, Agrees, Follows, Done
  <2>3. Inputs(mem', n) = Inputs(mem, n) /\ PredChanges(n) = Inputs(mem, n)
    BY <1>5 DEF Inputs, PredChanges, Beside
  <2>4. Grown(mem', n)
    <3> SUFFICES ASSUME n \in Writers PROVE Grown(mem', n)
      BY DEF Grown
    <3>1. Grown(mem, n)
      BY DEF Each
    <3>2. \/ mem.stage[n] = "prepare" /\ mem'.stage[n] = "apply"
             /\ mem'.tree[n] = Inputs(mem, n)
          \/ mem.stage[n] = "prepare" /\ mem'.stage[n] = "leaf" /\ Inputs(mem, n) = {}
             /\ mem'.tree[n] = mem.tree[n]
          \/ mem.stage[n] \in {"apply", "leaf"} /\ mem'.stage[n] \in {"leaf", "capture"}
             /\ mem'.tree[n] = mem.tree[n]
      BY <1>4, <1>9, <2>3, <3>1 DEF GoesOn, Grown
    <3> HIDE DEF Inputs
    <3> QED BY <2>3, <3>1, <3>2 DEF Grown
  <2> QED BY <1>6, <2>1, <2>2, <2>4
<1> QED BY <1>1, <1>7, <1>8, <1>9 DEF Effect

\* The last row completes.
LEMMA CompletionEnded ==
  ASSUME Typed, NoReady(attempts), Each, NEW n \in Nodes, mem.stage[n] # "none",
         OwnRow(attempts[n], mem.number[n]), NEW edge \in IdsOf(inst) \cup {NoEdge},
         RecordCompletion(n, edge)
  PROVE  Ended(n, "completed")
<1> DEFINE k == Len(attempts[n])
<1>1. mem.number[n] = k /\ n \in NodeIds /\ attempts \in TablesOf(inst)
  BY OwnIsLast, Facts DEF Typed
<1>2. /\ attempts' \in TablesOf(inst) /\ OnlyAt(n, attempts, attempts')
      /\ DOMAIN attempts'[n] = DOMAIN attempts[n] /\ attempts'[n][k].status = "completed"
      /\ \A j \in DOMAIN attempts[n] \ {k} : attempts'[n][j] = attempts[n][j]
  BY <1>1, CompletionWrites
<1>3. /\ Len(attempts[n]) \in Nat /\ DOMAIN attempts[n] = 1 .. Len(attempts[n])
      /\ Len(attempts'[n]) \in Nat /\ DOMAIN attempts'[n] = 1 .. Len(attempts'[n])
      /\ k \in DOMAIN attempts[n]
  BY <1>1, <1>2, RowsAre DEF OwnRow
<1>4. Len(attempts'[n]) = Len(attempts[n])
  BY <1>2, <1>3
<1>5. attempts'[n] # << >> /\ Last(attempts'[n]) = "completed"
  BY <1>2, <1>3, <1>4 DEF Last
<1>6. NoReady(attempts')
  <2> SUFFICES ASSUME NEW m \in NodeIds, NEW j \in DOMAIN attempts'[m]
               PROVE  attempts'[m][j].status # "ready"
    BY DEF NoReady
  <2> QED BY <1>1, <1>2 DEF NoReady, OnlyAt
<1> QED BY <1>2, <1>4, <1>5, <1>6 DEF Ended, Added

LEMMA CompletionStays ==
  ASSUME IInv, IInv', LoopFree, Straight, Each, Results, NEW n \in Nodes,
         Route(n) \/ Complete(n)
  PROVE  Straight' /\ Each' /\ Results'
<1>0. /\ Typed /\ mem \in MemOf(inst) /\ n \in NodeIds /\ NoReady(attempts)
      /\ pc = "work" /\ mem.stage[n] # "none" /\ mem.batch = {} /\ mem.patch = NoChange
      /\ inst' = inst /\ run' = run /\ left' = left
  BY Facts DEF IInv, Typed, Straight, Route, Complete
<1>1. OwnRow(attempts[n], mem.number[n])
  BY <1>0 DEF IInv, Flight, Following
<1>2. /\ mem.number[n] = Len(attempts[n]) /\ n \notin Done(mem) /\ n \notin mem.resumable
      /\ mem.lineage[n] = 0 /\ Preds(Edges, n) \subseteq Done(mem)
      /\ n \in mem.blocked => n \in mem.nonResumable
  BY <1>0, <1>1, OwnIsLast DEF Each, Agrees, Follows, Done
<1> DEFINE w == WithCompletion(n)
<1>3. w \in MemOf(inst)
  BY <1>0, <1>1, CompletedMem
<1>4. /\ w.completed = mem.completed \cup {n} /\ w.skipped = mem.skipped
      /\ w.lineage = [mem.lineage EXCEPT ![n] = mem.number[n]]
      /\ Waiting(mem, w) /\ Others(mem, w, n) /\ w.patch = mem.patch
      /\ w.rejected = mem.rejected /\ w.batch = mem.batch
      /\ w.stage = mem.stage /\ w.number = mem.number /\ w.tree = mem.tree
  BY <1>0 DEF WithCompletion, MemOf, Waiting, Others
<1>5. /\ \E edge \in IdsOf(inst) \cup {NoEdge} : RecordCompletion(n, edge)
      /\ \/ /\ n \in Routers /\ pc' = "prune"
            /\ \E d : mem' = [w EXCEPT !.dead = d]
         \/ mem' = Leave(w, n) /\ pc' = "work"
  <2> HIDE DEF w
  <2>0. \A e \in Edges : ~e.isFeedback
    BY DEF LoopFree, Feedback
  <2>1. CASE Route(n)
    <3>1. PICK e \in Selectable(n) :
            /\ RecordCompletion(n, e.id)
            /\ IF e.isFeedback
               THEN mem' = WithCompletion(n) /\ Follow("feedback", n, e.id)
               ELSE /\ mem' = [WithCompletion(n) EXCEPT
                         !.dead = @ \cup {f.id : f \in Out(Forward(Edges), n) \ {e}}]
                    /\ Follow("prune", n, e.id)
      BY <2>1 DEF Route
    <3>2. e \in Edges
      BY <3>1 DEF Selectable, Out
    <3>3. /\ mem' = [w EXCEPT !.dead = @ \cup {f.id : f \in Out(Forward(Edges), n) \ {e}}]
          /\ Follow("prune", n, e.id)
      BY <2>0, <3>1, <3>2 DEF w
    <3>4. \E d : mem' = [w EXCEPT !.dead = d]
      BY <3>3
    <3>5. e.id \in IdsOf(inst)
      BY <3>2 DEF IdsOf, Edges
    <3> QED BY <2>1, <3>1, <3>3, <3>4, <3>5 DEF Follow, Route
  <2>2. CASE Complete(n)
    <3>1. Out(Feedback(Edges), n) = {}
      BY DEF LoopFree, Out
    <3> QED BY <1>0, <2>2, <3>1 DEF Complete, w
  <2> QED BY <2>1, <2>2
<1>6. Ended(n, "completed")
  BY <1>0, <1>1, <1>5, CompletionEnded
<1> HIDE DEF w
<1>7. /\ mem'.completed = w.completed /\ mem'.skipped = w.skipped
      /\ mem'.lineage = w.lineage /\ Waiting(w, mem') /\ Others(w, mem', n)
      /\ mem'.patch = w.patch /\ mem'.rejected = w.rejected /\ mem'.batch = w.batch
      /\ \/ /\ n \in Routers /\ mem'.stage = w.stage /\ mem'.number = w.number
            /\ mem'.tree = w.tree
         \/ mem'.stage[n] = "none" /\ mem'.tree[n] = {}
  <2>1. CASE n \in Routers /\ \E d : mem' = [w EXCEPT !.dead = d]
    <3>1. PICK d : mem' = [w EXCEPT !.dead = d]
      BY <2>1
    <3> QED BY <1>3, <2>1, <3>1 DEF MemOf, Waiting, Others
  <2>2. CASE mem' = Leave(w, n)
    <3>1. Leave(w, n).rejected = w.rejected
      BY <1>3, PrintsOfLeave
    <3> QED BY <1>0, <1>3, <2>2, <3>1, LeaveEffect DEF Beside
  <2> QED BY <1>5, <2>1, <2>2
<1>8. /\ OnlyAt(n, attempts, attempts') /\ NoReady(attempts') /\ attempts'[n] # << >>
      /\ Last(attempts'[n]) = "completed" /\ Len(attempts'[n]) = Len(attempts[n])
  BY <1>6 DEF Ended, Added
<1>9. /\ Others(mem, mem', n) /\ SetsAt(mem, mem', n) /\ Done(mem) \subseteq Done(mem')
      /\ mem'.batch = {}
  BY <1>0, <1>3, <1>4, <1>7 DEF Others, SetsAt, Done, Waiting, MemOf
<1>10. Agrees(mem', attempts'[n], n)
  <2>1. /\ mem'.lineage[n] = Len(attempts[n]) /\ n \in mem'.completed
        /\ n \notin mem'.skipped /\ n \notin mem'.resumable
        /\ n \in mem'.blocked => n \in mem'.nonResumable
    BY <1>0, <1>2, <1>4, <1>7 DEF Done, Waiting, MemOf
  <2>2. mem'.stage[n] # "none" => mem'.number[n] = Len(attempts[n])
    BY <1>2, <1>4, <1>7
  <2> QED BY <1>8, <2>1, <2>2 DEF Agrees
<1>11. Follows(mem', n)
  BY <1>2, <1>9 DEF Follows
<1>12. Grown(mem', n)
  <2>1. Routers \cap Writers = {}
    BY <1>0, Instance DEF Typed, InstanceIsSound, Routers, Writers
  <2>2. CASE n \in Routers
    BY <2>1, <2>2 DEF Grown
  <2>3. CASE mem'.stage[n] = "none" /\ mem'.tree[n] = {}
    BY <2>3 DEF Grown
  <2> QED BY <1>7, <2>2, <2>3
<1>13. Each'
  BY <1>0, <1>2, <1>8, <1>9, <1>10, <1>11, <1>12, EachKept
<1>14. Onward
  BY <1>0, <1>4, <1>5, <1>7, <1>8, <1>9 DEF Onward, Under
<1> QED BY <1>13, <1>14, OnwardKeeps

LEMMA PruneNodeKeeps ==
  ASSUME IInv, IInv', Straight, Each, Results, PruneNode
  PROVE  Straight' /\ Each' /\ Results'
<1> DEFINE n == First(Prunable)
<1>1. n \in Prunable
  <2>1. Prunable \in SUBSET NodeIds /\ Prunable # {}
    BY Facts DEF IInv, PruneNode, Prunable
  <2> QED BY <2>1, FirstIn
<1>2. /\ attempts' = EndLast(RecordAttempt(attempts, n, "ready", 1), n, "skipped", "none")
      /\ mem' = [mem EXCEPT !.skipped = @ \cup {n}]
  BY DEF PruneNode
<1> HIDE DEF n
<1>3. /\ Typed /\ mem \in MemOf(inst) /\ n \in Nodes /\ n \in NodeIds /\ NoReady(attempts)
      /\ mem.batch = {} /\ pc = "prune" /\ inst' = inst /\ run' = run /\ left' = left
      /\ pc' = "prune"
  BY <1>1, Facts DEF IInv, Typed, Straight, PruneNode, Prunable
<1>4. n \notin Done(mem) \cup mem.blocked /\ mem.stage[n] = "none"
  BY <1>1 DEF Prunable, InFlight, Done
<1>5. Added(n, "skipped")
  BY <1>2, <1>3, RecordedAndEnded DEF Notes
<1>6. /\ mem'.completed = mem.completed /\ mem'.lineage = mem.lineage
      /\ Waiting(mem, mem') /\ mem'.skipped = mem.skipped \cup {n}
      /\ mem'.stage = mem.stage /\ mem'.number = mem.number /\ mem'.tree = mem.tree
      /\ mem'.patch = mem.patch /\ mem'.rejected = mem.rejected /\ mem'.batch = {}
  BY <1>2, <1>3 DEF MemOf, Waiting
<1>7. Others(mem, mem', n) /\ SetsAt(mem, mem', n) /\ Done(mem) \subseteq Done(mem')
  BY <1>6 DEF Others, SetsAt, Done, Waiting
<1>8. Agrees(mem', attempts'[n], n) /\ Follows(mem', n) /\ Grown(mem', n)
  BY <1>3, <1>4, <1>5, <1>6 DEF Each, Agrees, Follows, Grown, Added, Waiting, Done
<1>9. Each'
  BY <1>3, <1>5, <1>6, <1>7, <1>8, EachKept DEF Added
<1>10. Onward
  BY <1>3, <1>5, <1>6 DEF Onward, Under, Added
<1> QED BY <1>9, <1>10, OnwardKeeps

LEMMA PruneEndKeeps ==
  ASSUME IInv, IInv', Straight, Each, Results, PruneEnd
  PROVE  Straight' /\ Each' /\ Results'
<1> DEFINE n == cur.node
<1>1. /\ Typed /\ mem \in MemOf(inst) /\ n \in Nodes /\ n \in NodeIds /\ NoReady(attempts)
      /\ mem.batch = {} /\ pc = "prune" /\ inst' = inst /\ run' = run /\ left' = left
      /\ attempts' = attempts /\ pc' = "work" /\ mem' = Leave(mem, n)
  BY Facts DEF IInv, Typed, Straight, PruneEnd, Places, durable
<1> HIDE DEF n
<1>2. /\ Beside(mem, mem') /\ Waiting(mem, mem') /\ Others(mem, mem', n)
      /\ mem'.patch = mem.patch /\ mem'.stage[n] = "none" /\ mem'.tree[n] = {}
  BY <1>1, LeaveEffect
<1>3. OnlyAt(n, attempts, attempts') /\ SetsAt(mem, mem', n) /\ Done(mem) \subseteq Done(mem')
        /\ mem'.batch = {} /\ mem'.lineage = mem.lineage
  BY <1>1, <1>2 DEF OnlyAt, SetsAt, Done, Beside, Waiting
<1>4. Agrees(mem', attempts'[n], n) /\ Follows(mem', n) /\ Grown(mem', n)
  BY <1>1, <1>2, <1>3 DEF Each, Agrees, Follows, Grown, Beside, Waiting
<1>5. Each'
  BY <1>1, <1>2, <1>3, <1>4, EachKept
<1>6. Onward
  BY <1>1, <1>2, <1>3 DEF Onward, Under, Beside
<1> QED BY <1>5, <1>6, OnwardKeeps

\* skipNode finds nothing but nodes that have no row.
LEMMA SkipsUntouched ==
  ASSUME IInv, Straight, NEW n \in Nodes, SkipNode(n)
  PROVE  attempts[n] = << >> /\ mem.stage[n] = "none"
<1>1. /\ Typed /\ n \in NodeIds /\ NoReady(attempts) /\ pc \in {"idle", "work"}
  BY Facts DEF IInv, Straight, SkipNode
<1>2. attempts[n] = << >>
  <2>1. LatestStatus(attempts, n) \in {"pending", "ready"}
    BY DEF SkipNode
  <2>2. attempts[n] # << >> => LatestStatus(attempts, n) # "ready"
                                 /\ LatestStatus(attempts, n) \in AttemptStatuses
    <3>1. attempts \in TablesOf(inst)
      BY <1>1 DEF Typed
    <3>2. /\ attempts[n] \in Seq(RowOf(inst))
          /\ attempts[n] # << >> => Len(attempts[n]) \in DOMAIN attempts[n]
      BY <1>1, <3>1, RowsAre
    <3>3. \A row \in RowOf(inst) : row.status \in AttemptStatuses
      BY DEF RowOf
    <3> HIDE DEF RowOf
    <3>4. attempts[n] # << >> => attempts[n][Len(attempts[n])] \in RowOf(inst)
      BY <3>2
    <3>5. attempts[n] # << >> => attempts[n][Len(attempts[n])].status # "ready"
      BY <1>1, <3>2 DEF NoReady
    <3> QED BY <3>3, <3>4, <3>5 DEF LatestStatus, Latest
  <2>3. "pending" \notin AttemptStatuses
    BY DEF AttemptStatuses, TerminalStatuses
  <2> QED BY <2>1, <2>2, <2>3
<1>3. mem.stage[n] = "none"
  <2>1. CASE pc = "idle"
    BY <1>1, <2>1, EmptyIs DEF Straight, Under
  <2>2. CASE pc = "work"
    BY <1>2, <2>2 DEF IInv, Flight, Following, OwnRow
  <2> QED BY <1>1, <2>1, <2>2
<1> QED BY <1>2, <1>3

LEMMA SkipKeeps ==
  ASSUME IInv, IInv', Straight, Each, Results, NEW n \in Nodes, SkipNode(n)
  PROVE  Straight' /\ Each' /\ Results'
<1>1. /\ Typed /\ mem \in MemOf(inst) /\ n \in NodeIds /\ NoReady(attempts)
      /\ mem.batch = {} /\ pc \in {"idle", "work"} /\ inst' = inst /\ run' = run
      /\ left'.reruns = left.reruns /\ pc' = pc /\ mem' = mem
  <2>1. left'.reruns = left.reruns
    BY DEF SkipNode
  <2> QED BY <2>1, Facts DEF IInv, Typed, Straight, SkipNode
<1>2. attempts[n] = << >>
  BY SkipsUntouched
<1>3. n \notin Done(mem) /\ n \notin mem.resumable /\ mem.lineage[n] = 0
        /\ (n \in mem.blocked => n \in mem.nonResumable)
  BY <1>2 DEF Each, Agrees, Done
<1>4. mem.stage[n] = "none"
  BY SkipsUntouched
<1>5. Added(n, "skipped")
  BY <1>1, RecordedAndEnded DEF SkipNode, Notes
<1>6. OnlyAt(n, attempts, attempts') /\ NoReady(attempts')
  BY <1>5 DEF Added
<1>7. Each'
  <2>1. Others(mem, mem', n) /\ SetsAt(mem, mem', n)
    BY <1>1 DEF Others, SetsAt
  <2>2. Agrees(mem', attempts'[n], n) /\ Follows(mem', n) /\ Grown(mem', n)
    BY <1>1, <1>3, <1>4 DEF Each, Agrees, Follows, Grown, Done
  <2> QED BY <1>1, <1>6, <2>1, <2>2, EachKept
<1>8. CASE pc = "work"
  <2>1. Onward
    BY <1>1, <1>6, <1>8 DEF Onward, Under
  <2> QED BY <1>7, <2>1, OnwardKeeps
<1>9. CASE pc = "idle"
  <2>1. Straight'
    BY <1>1, <1>6, <1>9 DEF Straight, Under
  <2>2. ~AllDone
    BY <1>2 DEF AllDone, LatestStatus
  <2>3. Waits => Waits'
    BY <1>1, <1>2, <1>6, Facts DEF Waits, LatestStatus, Latest, OnlyAt, Nodes
  <2>4. Results'
    BY <1>1, <1>9, <2>2, <2>3 DEF Results
  <2> QED BY <1>7, <2>1, <2>4
<1> QED BY <1>1, <1>8, <1>9

-----------------------------------------------------------------------------
(* Scheduling, and what "completed" means.                                  *)

\* Along the forward edges there is always a node whose turn it is.
LEMMA SomeIsDue ==
  ASSUME Typed, NEW D \in SUBSET Nodes, D # Nodes
  PROVE  \E n \in Nodes \ D : Preds(Edges, n) \subseteq D
<1> DEFINE N == Cardinality(Nodes)
<1>1. PICK position \in [Nodes -> 1 .. N] :
        \A e \in Forward(Edges) : position[e.source] < position[e.target]
  BY Instance DEF Typed, InstanceIsSound, Nodes, Edges
<1> DEFINE T == {position[n] : n \in Nodes \ D}
<1>2. N \in Nat
  BY Facts, FS_CardinalityType
<1> HIDE DEF N
<1>3. T \in SUBSET Nat /\ T # {}
  BY <1>1, <1>2
<1>4. PICK x \in T : \A y \in T : x <= y
  <2> HIDE DEF T
  <2> QED BY <1>3, LeastNat
<1>5. PICK n \in Nodes \ D : \A m \in Nodes \ D : position[n] <= position[m]
  BY <1>4
<1>6. ASSUME NEW e \in In(Edges, n) PROVE e.source \in D
  <2>1. e \in Forward(Edges) /\ e.target = n /\ e.source \in Nodes
    BY <1>6, Facts DEF In, Forward
  <2>2. position[e.source] < position[n] /\ position[e.source] \in Nat /\ position[n] \in Nat
    BY <1>1, <1>2, <2>1
  <2> QED BY <1>5, <2>1, <2>2
<1> QED BY <1>5, <1>6 DEF Preds

\* The batch is empty only if there is no candidate.
LEMMA BatchOf ==
  ASSUME Typed
  PROVE  /\ Batch \subseteq Candidates
         /\ Candidates \subseteq Nodes \ (mem.completed \cup mem.skipped \cup mem.blocked)
         /\ \A n \in Candidates : Preds(Edges, n) \subseteq mem.completed \cup mem.skipped
         /\ Batch = {} => Candidates = {}
<1>1. Candidates \subseteq Nodes /\ Candidates \in SUBSET NodeIds
  BY Facts DEF Candidates, ReadyNodes
<1>2. ASSUME Candidates # {} PROVE Batch # {}
  <2> DEFINE T == {Rank[n] : n \in Candidates}
  <2> HIDE DEF Candidates
  <2>1. T \in SUBSET Nat /\ T # {}
    BY <1>1, <1>2, GraphExecutorAssumption
  <2>2. PICK x \in T : \A y \in T : x <= y
    <3> HIDE DEF T
    <3> QED BY <2>1, LeastNat
  <2>3. PICK n \in Candidates : \A m \in Candidates : Rank[n] <= Rank[m]
    BY <2>2
  <2>4. {m \in Candidates : Rank[m] < Rank[n]} = {}
    <3>1. \A m \in Candidates : Rank[m] \in Nat
      BY <1>1, GraphExecutorAssumption
    <3> QED BY <2>3, <3>1
  <2>5. 0 < inst.maxConcurrency
    BY Limits
  <2>6. Cardinality({m \in Candidates : Rank[m] < Rank[n]}) < inst.maxConcurrency
    BY <2>4, <2>5, FS_EmptySet
  <2> QED BY <2>3, <2>6 DEF Batch
<1> QED BY <1>1, <1>2 DEF Candidates, ReadyNodes, Batch

\* When the scheduling loop ends with nothing failed and nothing waiting, every
\* node is done: the executor's counting agrees with its sets.
LEMMA EndsDone ==
  ASSUME Typed, Each, Outcome = "completed",
         ~(/\ Accounted < Cardinality(Nodes)
           /\ ~mem.halted /\ ~mem.aborted /\ mem.cancelled = {}
           /\ Batch # {})
  PROVE  Done(mem) = Nodes
<1>0. mem \in MemOf(inst) /\ IsFiniteSet(Nodes)
  BY Facts DEF Typed
<1>1. /\ ~mem.halted /\ ~mem.aborted /\ mem.cancelled = {} /\ mem.failed = {}
      /\ mem.resumable = {} /\ mem.nonResumable = {}
  BY DEF Outcome
<1>2. mem.blocked = {}
  <2>1. mem.blocked \subseteq Nodes
    BY <1>0 DEF MemOf, Nodes
  <2> QED BY <1>1, <2>1 DEF Each, Agrees
<1>3. Done(mem) \in SUBSET Nodes
  BY <1>0 DEF Done, MemOf, Nodes
<1>4. CASE Batch = {}
  <2>1. ReadyNodes(Nodes, Edges, mem.completed, mem.skipped) = {}
    BY <1>1, <1>2, <1>4, BatchOf DEF Candidates
  <2> QED BY <1>3, <2>1, SomeIsDue DEF ReadyNodes, Done
<1>5. CASE ~(Accounted < Cardinality(Nodes))
  <2> DEFINE C == mem.completed
             S == mem.skipped
  <2>1. C \in SUBSET Nodes /\ S \in SUBSET Nodes /\ C \cap S = {}
    <3>1. C \in SUBSET Nodes /\ S \in SUBSET Nodes
      BY <1>0 DEF MemOf, Nodes
    <3> QED BY <3>1 DEF Each, Agrees
  <2>2. Accounted = Cardinality(C) + Cardinality(S) + 0 + 0 + 0
    BY <1>1, <1>2, FS_EmptySet DEF Accounted
  <2> HIDE DEF C, S
  <2>3. IsFiniteSet(C) /\ IsFiniteSet(S)
    BY <1>0, <2>1, FS_Subset
  <2>4. /\ Cardinality(C) \in Nat /\ Cardinality(S) \in Nat /\ Cardinality(Nodes) \in Nat
        /\ Cardinality(C \cap S) = 0
    BY <1>0, <2>1, <2>3, FS_CardinalityType, FS_EmptySet
  <2>5. Cardinality(C \cup S) = Cardinality(C) + Cardinality(S) - Cardinality(C \cap S)
    BY <2>3, FS_Union
  <2>6. Cardinality(C \cup S) >= Cardinality(Nodes) /\ C \cup S \in SUBSET Nodes
    BY <1>5, <2>1, <2>2, <2>4, <2>5
  <2>7. C \cup S = Nodes
    BY <1>0, <2>4, <2>5, <2>6, FS_Subset
  <2> QED BY <2>7 DEF Done, C, S
<1> QED BY <1>1, <1>4, <1>5

LEMMA SchedKeeps ==
  ASSUME IInv, IInv', Straight, Each, Results, Sched
  PROVE  Straight' /\ Each' /\ Results'
<1>1. /\ Typed /\ mem \in MemOf(inst) /\ NoReady(attempts) /\ mem.batch = {}
      /\ pc = "sched" /\ inst' = inst /\ run' = run /\ left' = left /\ attempts' = attempts
      /\ \A n \in Nodes : mem.stage[n] = "none"
  BY DEF IInv, Typed, Straight, Sched, durable, Places, Quiet
<1> DEFINE goes == /\ Accounted < Cardinality(Nodes)
                   /\ ~mem.halted /\ ~mem.aborted /\ mem.cancelled = {}
                   /\ Batch # {}
<1>2. CASE goes
  <2>1. pc' = "start" /\ mem' = [mem EXCEPT !.batch = Batch]
    BY <1>2 DEF Sched
  <2>2. /\ mem'.completed = mem.completed /\ mem'.lineage = mem.lineage
        /\ Waiting(mem, mem') /\ mem'.skipped = mem.skipped
        /\ mem'.stage = mem.stage /\ mem'.number = mem.number /\ mem'.tree = mem.tree
        /\ mem'.patch = mem.patch /\ mem'.rejected = mem.rejected /\ mem'.batch = Batch
    BY <1>1, <2>1 DEF MemOf, Waiting
  <2>3. Each'
    <3> SUFFICES ASSUME NEW n \in Nodes
                 PROVE  Agrees(mem', attempts'[n], n) /\ Follows(mem', n) /\ Grown(mem', n)
      BY <1>1 DEF Each, Nodes, Follows, Grown, Inputs, Edges, Writers
    <3>1. Agrees(mem', attempts'[n], n) /\ Grown(mem', n)
      BY <1>1, <2>2 DEF Each, Agrees, Grown, Inputs, Waiting
    <3>2. Follows(mem', n)
      BY <1>1, <2>2, BatchOf DEF Follows, Done, Waiting
    <3> QED BY <3>1, <3>2
  <2>4. Onward
    BY <1>1, <2>1, <2>2 DEF Onward, Under
  <2> QED BY <2>3, <2>4, OnwardKeeps
<1>3. CASE ~goes
  <2>1. pc' = "ending" /\ mem' = mem
    BY <1>3 DEF Sched
  <2>2. Each'
    BY <1>1, <2>1, EachSame
  <2>3. Straight'
    BY <1>1, <2>1 DEF Straight, Under
  <2>4. Outcome' = "completed" => Done(mem') = Nodes'
    BY <1>1, <1>3, <2>1, EndsDone DEF Outcome, Done, Nodes
  <2>5. Results'
    BY <1>1, <2>1, <2>4, NotFinished DEF Results, IInv, Places, Under
  <2> QED BY <2>2, <2>3, <2>5
<1> QED BY <1>2, <1>3

-----------------------------------------------------------------------------
(* Steps that leave the executor's sets alone.                              *)

LEMMA CheckPendingKeeps ==
  ASSUME IInv, IInv', LoopFree, Straight, Each, Results, CheckPending
  PROVE  Straight' /\ Each' /\ Results'
<1>1. PendingFeedback = {}
  BY DEF LoopFree, PendingFeedback
<1>2. /\ pc = "hydrated" /\ pc' = "sched" /\ mem' = mem /\ left' = left /\ inst' = inst
      /\ run' = run /\ attempts' = attempts
  BY <1>1 DEF CheckPending, durable
<1>3. Each'
  BY <1>2, EachSame
<1>4. Onward
  BY <1>2 DEF Onward, Under, Straight
<1> QED BY <1>3, <1>4, OnwardKeeps

LEMMA AbortKeeps ==
  ASSUME IInv, IInv', Straight, Each, Results, Abort
  PROVE  Straight' /\ Each' /\ Results'
<1>1. /\ mem' = [mem EXCEPT !.aborted = TRUE] /\ mem \in MemOf(inst) /\ inst' = inst
      /\ run' = run /\ attempts' = attempts /\ pc' = pc /\ pc \in {"hydrated", "work"}
      /\ left'.reruns = left.reruns
  BY DEF Abort, IInv, Typed, durable
<1>2. /\ mem'.completed = mem.completed /\ mem'.skipped = mem.skipped
      /\ mem'.blocked = mem.blocked /\ mem'.resumable = mem.resumable
      /\ mem'.nonResumable = mem.nonResumable /\ mem'.lineage = mem.lineage
      /\ mem'.batch = mem.batch /\ mem'.stage = mem.stage /\ mem'.number = mem.number
      /\ mem'.tree = mem.tree /\ mem'.patch = mem.patch /\ mem'.rejected = mem.rejected
  BY <1>1 DEF MemOf
<1>3. Each'
  BY <1>1, <1>2, EachSame
<1>4. Onward
  BY <1>1, <1>2 DEF Onward, Under, Straight
<1> QED BY <1>3, <1>4, OnwardKeeps

LEMMA NothingKeeps ==
  ASSUME Straight, Each, Results, UNCHANGED <<inst, run, attempts, pc, mem, left>>
  PROVE  Straight' /\ Each' /\ Results'
<1>1. Each'
  BY EachSame
<1>2. Straight' /\ Results'
  BY DEF Straight, Results, Under, Outcome, AllDone, Waits, Done, Nodes
<1> QED BY <1>1, <1>2

-----------------------------------------------------------------------------
(* The end of run(), of the process, and calls of run().                    *)

LEMMA BatchDoneKeeps ==
  ASSUME IInv, IInv', Straight, Each, Results, BatchDone
  PROVE  Straight' /\ Each' /\ Results'
<1>1. /\ pc = "work" /\ pc' = "sched" /\ mem' = mem /\ left' = left /\ inst' = inst
      /\ run' = run /\ attempts' = attempts
  BY DEF BatchDone, durable, Straight
<1>2. Each'
  BY <1>1, EachSame
<1>3. Onward
  BY <1>1 DEF Onward, Under, Straight
<1> QED BY <1>2, <1>3, OnwardKeeps

\* run() has answered or the process has died.
LEMMA EmptyKeeps ==
  ASSUME Typed, Straight, mem' = EmptyMem, inst' = inst,
         pc' \in {"idle", "starting", "sched"}, ~Under',
         run' # NoRun => run'.iteration = 1, NoReady(attempts')
  PROVE  Straight' /\ Each'
<1>1. Each'
  BY EachEmpty
<1> QED BY <1>1, EmptyIs DEF Straight

LEMMA EndingKeeps ==
  ASSUME IInv, IInv', Straight, Each, Results, Ending
  PROVE  Straight' /\ Each' /\ Results'
<1>1. /\ Typed /\ pc = "ending" /\ pc' = "idle" /\ mem' = EmptyMem /\ inst' = inst
      /\ left' = left /\ attempts' = attempts /\ run \in RunRows /\ run # NoRun
      /\ run.iteration = 1 /\ run.status = "running" /\ NoReady(attempts)
  BY RunKept DEF IInv, Ending, Return, Straight, Under
<1>2. \/ Outcome = "running" /\ run' = run
      \/ /\ Outcome # "running"
         /\ run' = [run EXCEPT !.status = Outcome, !.finished = TRUE]
  <2>1. HandleCancellation => Finish("cancelled")
    BY DEF HandleCancellation
  <2>2. CASE Outcome = "cancelled"
    BY <2>1, <2>2 DEF Ending, Finish
  <2>3. CASE Outcome = "running"
    BY <2>3 DEF Ending
  <2>4. CASE Outcome # "cancelled" /\ Outcome # "running"
    BY <2>4 DEF Ending, Finish
  <2> QED BY <2>2, <2>3, <2>4
<1>3. \/ Outcome = "running" /\ run' = run
      \/ /\ Outcome # "running" /\ run'.status = Outcome /\ run'.finished
         /\ run'.iteration = 1
  BY <1>1, <1>2 DEF RunRows
<1>4. Straight' /\ Each'
  <2>1. run'.iteration = 1 /\ ~Under'
    BY <1>1, <1>3 DEF Under
  <2> QED BY <1>1, <2>1, EmptyKeeps
<1>5. Outcome = "completed" => AllDone
  BY <1>1 DEF Results, Each, Agrees, Done, AllDone, LatestStatus, Latest, Last
<1>6. Outcome = "running" => Waits
  <2>1. Outcome = "running" => mem.resumable # {} /\ mem.resumable \subseteq Nodes
    BY <1>1 DEF Outcome, Typed, MemOf, Nodes
  <2> QED BY <2>1 DEF Each, Agrees, Waits, LatestStatus, Latest, Last
<1>7. AllDone' = AllDone /\ Waits' = Waits
  BY <1>1 DEF AllDone, Waits, Nodes
<1> HIDE DEF AllDone, Waits, Outcome
<1>8. Results'
  <2>1. CASE Outcome = "running" /\ run' = run
    BY <1>1, <1>6, <1>7, <2>1 DEF Results
  <2>2. CASE Outcome # "running" /\ run'.status = Outcome /\ run'.finished
    BY <1>1, <1>5, <1>7, <2>2 DEF Results
  <2> QED BY <1>3, <2>1, <2>2
<1> QED BY <1>4, <1>8

LEMMA CrashKeeps ==
  ASSUME IInv, IInv', Straight, Each, Results, Crash
  PROVE  Straight' /\ Each' /\ Results'
<1>1. /\ Typed /\ pc' = "starting" /\ mem' = EmptyMem /\ inst' = inst
      /\ left'.reruns = left.reruns /\ attempts' = attempts /\ run' = run
  <2>1. left'.reruns = left.reruns
    BY DEF Crash
  <2> QED BY <2>1 DEF IInv, Crash, durable
<1>2. Straight' /\ Each'
  <2>1. ~Under' /\ (run' # NoRun => run'.iteration = 1) /\ NoReady(attempts')
    BY <1>1 DEF Under, Straight
  <2> QED BY <1>1, <2>1, EmptyKeeps
<1>3. AllDone' = AllDone
  BY <1>1 DEF AllDone, Nodes
<1>4. Results'
  BY <1>1, <1>3 DEF Results
<1> QED BY <1>2, <1>4

LEMMA RecoverKeeps ==
  ASSUME IInv, IInv', Straight, Each, Results, Recover
  PROVE  Straight' /\ Each' /\ Results'
<1>1. /\ Typed /\ pc = "starting" /\ pc' = "idle" /\ mem' = mem /\ mem = EmptyMem
      /\ inst' = inst /\ left' = left
  BY DEF IInv, Recover, Straight, Under
<1>2. CASE /\ ~Interrupted \/ \E c \in ckpts : LegitimatePause(c)
           /\ UNCHANGED <<run, attempts>>
  <2>1. Straight' /\ Each'
    <3>1. ~Under' /\ (run' # NoRun => run'.iteration = 1) /\ NoReady(attempts')
      BY <1>1, <1>2 DEF Under, Straight
    <3> QED BY <1>1, <3>1, EmptyKeeps
  <2>2. AllDone' = AllDone /\ Waits' = Waits
    BY <1>1, <1>2 DEF AllDone, Waits, Nodes
  <2>3. (\E c \in ckpts : LegitimatePause(c)) => Waits
    BY DEF LegitimatePause, CurrentBlocked, Waits
  <2> HIDE DEF AllDone, Waits
  <2>4. Results'
    BY <1>1, <1>2, <2>2, <2>3 DEF Results, Interrupted
  <2> QED BY <2>1, <2>4
<1>3. CASE /\ Interrupted /\ attempts' = FailRunning /\ Finish("failed")
  <2>1. run \in RunRows /\ run # NoRun
    BY <1>1, <1>3 DEF Interrupted, Typed, NoRun
  <2>2. run'.status = "failed" /\ run'.finished /\ run'.iteration = 1
    BY <1>3, <2>1 DEF Finish, RunRows, Straight
  <2>3. NoReady(attempts')
    <3> SUFFICES ASSUME NEW n \in NodeIds, NEW k \in DOMAIN attempts'[n]
                 PROVE  attempts'[n][k].status # "ready"
      BY DEF NoReady
    <3>1. /\ DOMAIN attempts'[n] = DOMAIN attempts[n]
          /\ attempts'[n][k] = IF attempts[n][k].status = "running"
                               THEN [attempts[n][k] EXCEPT !.status = "failed",
                                                           !.note = "other"]
                               ELSE attempts[n][k]
      BY <1>3 DEF FailRunning
    <3>2. attempts[n][k] \in RowOf(inst) /\ attempts[n][k].status # "ready"
      <4>1. attempts[n] \in Seq(RowOf(inst))
        BY <1>1, RowsAre DEF Typed
      <4> QED BY <3>1, <4>1 DEF Straight, NoReady
    <3> QED BY <3>1, <3>2 DEF RowOf
  <2>4. Straight' /\ Each'
    <3>1. ~Under'
      BY <1>1 DEF Under
    <3> QED BY <1>1, <2>2, <2>3, <3>1, EmptyKeeps
  <2>5. Results'
    BY <1>1, <2>2 DEF Results
  <2> QED BY <2>4, <2>5
<1> QED BY <1>2, <1>3 DEF Recover

LEMMA StartRunKeeps ==
  ASSUME IInv, IInv', Straight, Each, Results, StartRun
  PROVE  Straight' /\ Each' /\ Results'
<1>1. /\ Typed /\ pc' = "sched" /\ inst' = inst /\ attempts' = attempts /\ NoReady(attempts)
      /\ run' = [status |-> "running", iteration |-> 1, finished |-> FALSE]
      /\ mem' = [EmptyMem EXCEPT !.iteration = 1] /\ EmptyMem \in MemOf(inst)
  BY EmptyMemTyped DEF IInv, StartRun, Straight
<1>2. /\ mem'.batch = {} /\ mem'.resumable = {} /\ mem'.completed = {} /\ mem'.skipped = {}
      /\ mem'.blocked = {} /\ mem'.patch = NoChange /\ ~mem'.rejected
      /\ \A n \in NodeIds : /\ mem'.stage[n] = "none" /\ mem'.tree[n] = {}
                            /\ mem'.lineage[n] = 0
  BY <1>1, EmptyIs DEF MemOf
<1>3. Each'
  BY <1>1, <1>2, EachRead, Facts
<1>4. Straight'
  BY <1>1, <1>2 DEF Straight, Under
<1>5. Results'
  BY <1>1, UnderWay DEF IInv
<1> QED BY <1>3, <1>4, <1>5

\* The nodes whose latest row says so.
RowsWith(status) ==
  {n \in Nodes : attempts[n] # << >> /\ LatestStatus(attempts, n) = status}

LEMMA ReopenKeeps ==
  ASSUME IInv, IInv', Straight, Each, Results, NEW invalid, NEW resume,
         Reopen(invalid, resume), pc = "idle", inst.reruns \in Nat,
         left'.reruns = inst.reruns => left.reruns = inst.reruns /\ invalid = {}
  PROVE  Straight' /\ Each' /\ Results'
<1>1. /\ Typed /\ pc' = "hydrated" /\ inst' = inst /\ attempts' = attempts
      /\ NoReady(attempts) /\ run # NoRun /\ run \in RunRows /\ run.iteration = 1
      /\ run' = [run EXCEPT !.status = "running"] /\ mem' = Hydrated(invalid, resume)
      /\ EmptyMem \in MemOf(inst)
  BY EmptyMemTyped DEF IInv, Typed, Reopen, Straight
<1>2. \E c, s, f, b, l :
        /\ mem' = [EmptyMem EXCEPT !.iteration = run.iteration, !.patch = RestoredPatch,
                                   !.completed = c, !.skipped = s, !.failed = f, !.blocked = b,
                                   !.nonResumable = b, !.lineage = l]
        /\ c \subseteq RowsWith("completed")
        /\ s \subseteq RowsWith("skipped")
        /\ l = [n \in NodeIds |-> IF n \in c THEN Len(attempts[n]) ELSE 0]
  <2> DEFINE
        known(n) == /\ attempts[n] # << >>
                    /\ n \notin invalid
                    /\ ~(n \in ActiveBody /\ Latest(attempts, n).iteration < run.iteration)
        with(status) == {n \in Nodes : known(n) /\ LatestStatus(attempts, n) = status}
        unblocked(n) == \/ n \in resume
                        \/ /\ ~run.finished
                           /\ n \in Gates \/ Latest(attempts, n).note # "slot"
        stuck == {n \in with("blocked") : ~unblocked(n)}
  <2>1. with("completed") \subseteq RowsWith("completed")
        /\ with("skipped") \subseteq RowsWith("skipped")
    BY DEF RowsWith
  <2>2. mem' = [EmptyMem EXCEPT
                  !.iteration = run.iteration, !.patch = RestoredPatch,
                  !.completed = with("completed"), !.skipped = with("skipped"),
                  !.failed = with("failed"), !.blocked = stuck, !.nonResumable = stuck,
                  !.lineage = [n \in NodeIds |->
                                 IF n \in with("completed") THEN Len(attempts[n]) ELSE 0]]
    BY <1>1 DEF Hydrated, LineageOf
  <2> HIDE DEF with, stuck
  <2> QED BY <2>1, <2>2
<1>3. PICK c, s, f, b, l :
        /\ mem' = [EmptyMem EXCEPT !.iteration = run.iteration, !.patch = RestoredPatch,
                                   !.completed = c, !.skipped = s, !.failed = f, !.blocked = b,
                                   !.nonResumable = b, !.lineage = l]
        /\ c \subseteq RowsWith("completed")
        /\ s \subseteq RowsWith("skipped")
        /\ l = [n \in NodeIds |-> IF n \in c THEN Len(attempts[n]) ELSE 0]
  BY <1>2, Zenon
<1>4. /\ mem'.completed = c /\ mem'.skipped = s /\ mem'.lineage = l /\ mem'.blocked = b
      /\ mem'.nonResumable = b /\ mem'.patch = RestoredPatch
      /\ mem'.batch = EmptyMem.batch /\ mem'.resumable = EmptyMem.resumable
      /\ mem'.stage = EmptyMem.stage /\ mem'.tree = EmptyMem.tree
      /\ mem'.rejected = EmptyMem.rejected
  BY <1>1, <1>3 DEF MemOf
<1>5. mem'.patch = NoChange /\ mem'.batch = {} /\ ~mem'.rejected
  BY <1>1, <1>4, EmptyIs DEF RestoredPatch
<1>6. Each'
  <2> SUFFICES ASSUME NEW n \in Nodes
               PROVE  /\ mem'.stage[n] = "none" /\ mem'.tree[n] = {}
                      /\ n \in mem'.completed => /\ attempts'[n] # << >>
                                                 /\ Last(attempts'[n]) = "completed"
                                                 /\ mem'.lineage[n] = Len(attempts'[n])
                      /\ n \notin mem'.completed => mem'.lineage[n] = 0
                      /\ n \in mem'.skipped => /\ attempts'[n] # << >>
                                               /\ Last(attempts'[n]) = "skipped"
                      /\ n \in mem'.blocked => n \in mem'.nonResumable
    BY <1>1, <1>4, EmptyIs, EachRead
  <2>1. n \in NodeIds
    BY <1>1, Facts
  <2> QED BY <1>1, <1>3, <1>4, <2>1, EmptyIs DEF RowsWith, LatestStatus, Latest, Last
<1>7. run'.iteration = 1 /\ run'.finished = run.finished /\ run'.status = "running"
  BY <1>1 DEF RunRows
<1>8. Straight'
  BY <1>1, <1>5, <1>7 DEF Straight, Under
<1>9. left'.reruns = inst.reruns => ~run'.finished
  BY <1>1, <1>7 DEF Reopen, Results, RunRows, TerminalRun
<1>10. Results'
  BY <1>1, <1>9, UnderWay DEF IInv
<1> QED BY <1>6, <1>8, <1>10

LEMMA CallKeeps ==
  ASSUME IInv, IInv', Budget, Straight, Each, Results
  PROVE  /\ Resume => Straight' /\ Each' /\ Results'
         /\ \A n \in Nodes : RerunNode(n) => Straight' /\ Each' /\ Results'
<1>1. inst.reruns \in Nat
  BY Limits DEF IInv
<1>2. ASSUME Resume PROVE Straight' /\ Each' /\ Results'
  <2>1. PICK resume : Reopen({}, resume)
    BY <1>2 DEF Resume
  <2>2. pc = "idle" /\ left'.reruns = left.reruns
    BY <1>2 DEF Resume, Budget
  <2> QED BY <1>1, <2>1, <2>2, ReopenKeeps
<1>3. ASSUME NEW n \in Nodes, RerunNode(n) PROVE Straight' /\ Each' /\ Results'
  <2>1. Reopen(Invalidated(n), {}) /\ pc = "idle"
    BY <1>3 DEF RerunNode
  <2>2. left'.reruns < inst.reruns /\ left'.reruns \in Nat
    BY <1>1, <1>3 DEF RerunNode, Budget
  <2> QED BY <1>1, <2>1, <2>2, ReopenKeeps
<1> QED BY <1>2, <1>3

-----------------------------------------------------------------------------
(* All steps.                                                               *)

LEMMA StraightStep ==
  ASSUME IInv, IInv', LoopInv, StraightInv, [Next]_vars
  PROVE  StraightInv'
<1>1. inst' = inst
  BY DEF Next, Executor, Host, InNode, vars, durable, CheckPending, Sched, PruneNode, PruneEnd,
         FeedbackStep, BatchDone, Ending, StartNode, Work, Route, Complete, StartRun, Resume,
         Abort, Crash, Recover, RerunNode, SkipNode, DecideGate, Reopen
<1>2. LoopFree' = LoopFree
  BY <1>1 DEF LoopFree, Edges
<1>3. SUFFICES ASSUME LoopFree PROVE Straight' /\ Each' /\ Results'
  BY <1>2 DEF StraightInv
<1>4. Straight /\ Each /\ Results /\ Budget
  BY <1>3 DEF StraightInv, LoopInv
<1>5. CASE Executor
  <2>1. ~FeedbackStep
    BY <1>4 DEF FeedbackStep, Straight
  <2> QED BY <1>3, <1>4, <1>5, <2>1, CheckPendingKeeps, SchedKeeps, PruneNodeKeeps,
             PruneEndKeeps, BatchDoneKeeps, EndingKeeps, StartKeeps DEF Executor
<1>6. CASE Host
  <2>1. ASSUME NEW g \in Gates, DecideGate(g) PROVE Straight' /\ Each' /\ Results'
    <3>1. UNCHANGED <<inst, run, attempts, pc, mem, left>>
      BY <2>1 DEF DecideGate
    <3> QED BY <1>4, <3>1, NothingKeeps
  <2> QED BY <1>4, <1>6, <2>1, StartRunKeeps, CallKeeps, AbortKeeps, CrashKeeps,
             RecoverKeeps, SkipKeeps DEF Host
<1>7. CASE \E n \in Nodes : InNode(n)
  BY <1>3, <1>4, <1>7, WorkKeeps, CompletionStays DEF InNode
<1>8. CASE UNCHANGED vars
  BY <1>4, <1>8, NothingKeeps DEF vars
<1> QED BY <1>5, <1>6, <1>7, <1>8 DEF Next

LEMMA StraightInit == Init => StraightInv
<1> SUFFICES ASSUME Init, LoopFree PROVE Straight /\ Each /\ Results
  BY DEF StraightInv
<1>1. Typed
  BY InitHolds DEF IInv
<1>2. /\ run = NoRun /\ mem = EmptyMem /\ pc = "idle" /\ NoRun.status = "none"
      /\ NoRun.finished = FALSE /\ attempts = [n \in NodeIds |-> << >>]
  BY DEF Init, NoRun
<1>3. Straight
  BY <1>2, EmptyIs DEF Straight, Under, NoReady
<1>4. Each
  BY <1>1, <1>2, EmptyIs, Facts DEF Each, Agrees, Follows, Grown
<1>5. Results
  BY <1>2 DEF Results
<1> QED BY <1>3, <1>4, <1>5

LEMMA StraightAlways == Spec => [](IInv /\ StraightInv)
<1>1. IInv /\ LoopInv /\ StraightInv /\ [Next]_vars => IInv' /\ LoopInv' /\ StraightInv'
  BY NextStep, LoopStep, StraightStep
<1>2. Init => IInv /\ LoopInv /\ StraightInv
  BY InitHolds, LoopInit, StraightInit
<1> QED BY <1>1, <1>2, PTL DEF Spec

\* In a template without feedback edges the answer "completed" is never given
\* while a node is left: whatever failed, was aborted, skipped, blocked, run again
\* or lost with the process before, every latest row is completed or skipped.
THEOREM CompletedMeansDone == Spec => [](LoopFree => CompletedRunIsDone)
<1>1. StraightInv => (LoopFree => CompletedRunIsDone)
  BY DEF StraightInv, Results, AllDone, CompletedRunIsDone
<1> QED BY <1>1, StraightAlways, PTL

\* There, what a node reads from a predecessor is the output of its latest
\* attempt, although the executor keeps the attempt numbers in a map of its own.
THEOREM InputsStayCurrent == Spec => [](LoopFree => InputsAreCurrent)
<1>1. IInv /\ StraightInv => (LoopFree => InputsAreCurrent)
  <2> SUFFICES ASSUME IInv, Each, NEW n \in Nodes, NEW p \in Preds(Edges, n), mem.lineage[p] # 0
               PROVE  mem.lineage[p] = Len(attempts[p])
                        /\ LatestStatus(attempts, p) = "completed"
    BY DEF StraightInv, InputsAreCurrent
  <2>1. p \in Nodes
    BY Facts DEF IInv, Preds, In, Forward
  <2> QED BY <2>1 DEF Each, Agrees, LatestStatus, Latest, Last
<1> QED BY <1>1, StraightAlways, PTL

\* There, a worktree holds exactly the change sets of the predecessors that have
\* completed, by the rows, when its leaf works in it.
THEOREM WorktreesHoldInputs == Spec => [](LoopFree => WorktreeHoldsInputs)
<1>1. IInv /\ StraightInv => (LoopFree => WorktreeHoldsInputs)
  <2> SUFFICES ASSUME IInv, Each, NEW n \in Writers, mem.stage[n] = "leaf"
               PROVE  mem.tree[n] = {Change(p, Len(attempts[p])) :
                                       p \in {q \in Preds(Edges, n) \cap Writers :
                                                LatestStatus(attempts, q) = "completed"}}
    BY DEF StraightInv, WorktreeHoldsInputs
  <2>1. n \in Nodes /\ \A p \in Preds(Edges, n) : p \in Nodes
    BY Facts DEF IInv, Preds, In, Forward
  <2>2. mem.tree[n] = Inputs(mem, n) /\ Preds(Edges, n) \subseteq Done(mem)
    BY <2>1 DEF Each, Grown, Follows
  <2>3. ASSUME NEW q \in Preds(Edges, n)
        PROVE  /\ (mem.lineage[q] # 0) = (LatestStatus(attempts, q) = "completed")
               /\ mem.lineage[q] # 0 => mem.lineage[q] = Len(attempts[q])
    <3>1. q \in Nodes /\ q \in NodeIds /\ q \in Done(mem) /\ Agrees(mem, attempts[q], q)
      BY <2>1, <2>2, Facts DEF IInv, Each
    <3>2. CASE q \in mem.completed
      <4>1. Len(attempts[q]) # 0
        BY <3>1, <3>2, RowsAre DEF IInv, Typed, Agrees
      <4> QED BY <3>1, <3>2, <4>1 DEF Agrees, LatestStatus, Latest, Last
    <3>3. CASE q \notin mem.completed
      BY <3>1, <3>3 DEF Agrees, Done, LatestStatus, Latest, Last
    <3> QED BY <3>2, <3>3
  <2> QED BY <2>2, <2>3 DEF Inputs
<1> QED BY <1>1, StraightAlways, PTL

\* There, until a node is run again, a run that nobody executes is "running" only
\* while a node of it is blocked: neither a death nor a recovery leaves a run
\* behind that nothing will ever finish.
THEOREM NoRunIsOrphaned == Spec => [](LoopFree /\ left.reruns = inst.reruns => NoOrphanedRun)
<1>1. StraightInv => (LoopFree /\ left.reruns = inst.reruns => NoOrphanedRun)
  BY DEF StraightInv, Results, Waits, NoOrphanedRun
<1> QED BY <1>1, StraightAlways, PTL
-----------------------------------------------------------------------------
(* Searches through the template stay in it.                                *)

LEMMA ReachedAreNodes ==
  ASSUME NEW N, IsFiniteSet(N), NEW E, \A e \in E : e.target \in N, NEW s \in N
  PROVE  ReachableFrom(N, E, s) \in SUBSET N
<1> DEFINE C == Cardinality(N)
           Spread(S) == S \cup {e.target : e \in {f \in Forward(E) : f.source \in S}}
           Rule(g) == [d \in 0 .. C |-> IF d = 0 THEN {s} ELSE Spread(g[d - 1])]
<1>1. C \in Nat
  BY FS_CardinalityType
<1>2. \A S \in SUBSET N : Spread(S) \in SUBSET N
  BY DEF Forward
<1> HIDE DEF C, Spread
<1>3. ASSUME NEW g, g = Rule(g) PROVE \A d \in 0 .. C : g[d] \in SUBSET N
  <2> DEFINE T == {d \in 0 .. C : g[d] \notin SUBSET N}
  <2>1. SUFFICES ASSUME T # {} PROVE FALSE
    BY DEF T
  <2>2. PICK x \in T : \A y \in T : x <= y
    <3>1. T \in SUBSET Nat
      BY <1>1
    <3> HIDE DEF T
    <3> QED BY <2>1, <3>1, LeastNat
  <2>3. x \in 0 .. C /\ g[x] = IF x = 0 THEN {s} ELSE Spread(g[x - 1])
    BY <1>3
  <2>4. x # 0 => g[x - 1] \in SUBSET N
    BY <1>1, <2>2
  <2> HIDE DEF Rule
  <2> QED BY <1>2, <2>2, <2>3, <2>4
<1>4. \A k \in Nat :
        \E g : g = [d \in 0 .. k |-> IF d = 0 THEN {s} ELSE Spread(g[d - 1])]
  <2> DEFINE Fits(g, k) ==
        g = [d \in 0 .. k |-> IF d = 0 THEN {s} ELSE Spread(g[d - 1])]
             T == {k \in Nat : ~ \E g : Fits(g, k)}
  <2>1. SUFFICES T = {}
    OBVIOUS
  <2>2. SUFFICES ASSUME T # {} PROVE FALSE
    OBVIOUS
  <2>3. PICK x \in T : \A y \in T : x <= y
    <3>1. T \in SUBSET Nat
      OBVIOUS
    <3> HIDE DEF T
    <3> QED BY <2>2, <3>1, LeastNat
  <2>4. CASE x = 0
    <3>1. Fits([d \in 0 .. 0 |-> {s}], 0)
      OBVIOUS
    <3> QED BY <2>3, <2>4, <3>1
  <2>5. CASE x # 0
    <3>0. x \in Nat /\ x - 1 \in Nat
      BY <2>5
    <3>1. x - 1 \in Nat /\ x - 1 \notin T
      <4> HIDE DEF T
      <4> QED BY <2>3, <3>0
    <3>2. PICK g : Fits(g, x - 1)
      BY <3>1
    <3> DEFINE h == [d \in 0 .. x |-> IF d = x THEN Spread(g[x - 1]) ELSE g[d]]
    <3>3. \A d \in 0 .. (x - 1) : g[d] = IF d = 0 THEN {s} ELSE Spread(g[d - 1])
      BY <3>2
    <3>4. \A d \in 0 .. x : h[d] = IF d = 0 THEN {s} ELSE Spread(h[d - 1])
      <4> SUFFICES ASSUME NEW d \in 0 .. x
                   PROVE  h[d] = IF d = 0 THEN {s} ELSE Spread(h[d - 1])
        OBVIOUS
      <4>1. CASE d = x
        <5>1. x - 1 \in 0 .. x /\ x - 1 # x
          BY <2>5, <2>3
        <5>2. h[x - 1] = g[x - 1]
          BY <5>1
        <5> QED BY <2>5, <4>1, <5>2
      <4>2. CASE d # x
        <5>1. d \in 0 .. (x - 1)
          BY <2>3, <4>2
        <5>2. h[d] = g[d]
          BY <4>2
        <5>3. d # 0 => d - 1 \in 0 .. x /\ d - 1 # x
          BY <2>3, <4>2
        <5>4. d # 0 => h[d - 1] = g[d - 1]
          BY <5>3
        <5> HIDE DEF h
        <5> QED BY <3>3, <5>1, <5>2, <5>4
      <4> QED BY <4>1, <4>2
    <3>5. h = [d \in 0 .. x |-> h[d]]
      OBVIOUS
    <3> HIDE DEF h
    <3>6. Fits(h, x)
      BY <3>4, <3>5, Zenon
    <3> QED BY <2>3, <3>6
  <2> QED BY <2>4, <2>5
<1>5. \E g : g = Rule(g)
  BY <1>1, <1>4
<1>6. ReachableFrom(N, E, s) = (CHOOSE g : g = Rule(g))[C]
  BY DEF ReachableFrom, Rule, Spread, C
<1> HIDE DEF Rule
<1>7. \A d \in 0 .. C : (CHOOSE g : g = Rule(g))[d] \in SUBSET N
  BY <1>3, <1>5
<1> QED BY <1>1, <1>6, <1>7

LEMMA DownstreamAreNodes ==
  ASSUME Typed, NEW n
  PROVE  Downstream(Nodes, Edges, n) \subseteq Nodes
<1>1. IsFiniteSet(Nodes) /\ \A e \in Edges : e.target \in Nodes
  BY Facts
<1>2. ASSUME NEW e \in Out(Forward(Edges), n)
      PROVE  ReachableFrom(Nodes, Edges, e.target) \in SUBSET Nodes
  <2>1. e.target \in Nodes
    BY <1>1 DEF Out, Forward
  <2> QED BY <1>1, <2>1, ReachedAreNodes
<1> QED BY <1>2 DEF Downstream

-----------------------------------------------------------------------------
(* What a rerun makes stale, until the run is resumed.                      *)

\* run() was called for the start and for reruns only.
NeverResumed == left.runs + 1 >= inst.runs

\* Nodes of which the executor has a result, or is getting one.
Reached == {n \in Nodes : n \in Done(mem) \/ mem.stage[n] # "none"}
Renewed(s) == Len(attempts[s[1]]) > s[2]
StaleInv ==
  /\ run = NoRun => seen.stale = {}
  /\ run # NoRun => left.runs < inst.runs
  /\ \A s \in seen.stale : s[1] \in Nodes /\ s[2] \in Nat /\ s[2] <= Len(attempts[s[1]])
  /\ NeverResumed => /\ \A s \in seen.stale : s[1] \in Reached => Renewed(s)
                     /\ run.status = "completed" => \A s \in seen.stale : Renewed(s)

\* Whatever a step newly reaches has a new attempt.
Renews ==
  \A n \in Nodes : n \in Reached' => n \in Reached \/ Len(attempts'[n]) > Len(attempts[n])

LEMMA Longer ==
  ASSUME IInv, IInv', [Next]_vars, NEW n \in Nodes
  PROVE  Len(attempts[n]) \in Nat /\ Len(attempts'[n]) \in Nat
           /\ Len(attempts[n]) <= Len(attempts'[n])
<1>1. /\ n \in NodeIds /\ attempts \in TablesOf(inst) /\ attempts' \in TablesOf(inst')
  BY Facts DEF IInv, Typed
<1>2. /\ DOMAIN attempts[n] = 1 .. Len(attempts[n]) /\ Len(attempts[n]) \in Nat
      /\ DOMAIN attempts'[n] = 1 .. Len(attempts'[n]) /\ Len(attempts'[n]) \in Nat
  BY <1>1, RowsAre
<1>3. \A k \in DOMAIN attempts[n] : k \in DOMAIN attempts'[n]
  <2>1. CASE Begins
    BY <2>1 DEF Begins
  <2>2. CASE Extends
    BY <1>1, <2>2 DEF Extends, Grows
  <2>3. CASE Advances
    <3>1. PICK t \in NodeIds : attempts' = RecordAttempt(attempts, t, "ready", run.iteration + 1)
      BY <2>3 DEF Advances
    <3>2. run.iteration + 1 \in Nat \ {0} /\ "ready" \in AttemptStatuses
      BY <2>3 DEF Advances, IInv, Typed, RunRows, NoRun, AttemptStatuses
    <3>3. OnlyAt(t, attempts, attempts') /\ DOMAIN attempts'[t] = 1 .. (Len(attempts[t]) + 1)
      BY <1>1, <3>1, <3>2, Recorded
    <3>4. Len(attempts[t]) \in Nat /\ DOMAIN attempts[t] = 1 .. Len(attempts[t])
      BY <1>1, RowsAre
    <3> QED BY <1>1, <3>3, <3>4 DEF OnlyAt
  <2> QED BY <2>1, <2>2, <2>3, NextStep
<1> QED
  <2>1. CASE Len(attempts[n]) = 0
    BY <1>2, <2>1
  <2>2. CASE Len(attempts[n]) # 0
    <3>1. Len(attempts[n]) \in DOMAIN attempts[n]
      BY <1>2, <2>2
    <3> QED BY <1>2, <1>3, <3>1
  <2> QED BY <2>1, <2>2

LEMMA SameLength ==
  ASSUME NEW a \in Nat, NEW b \in Nat, 1 .. a = 1 .. b
  PROVE  a = b
<1>1. a # 0 => a \in 1 .. b
  OBVIOUS
<1>2. b # 0 => b \in 1 .. a
  OBVIOUS
<1> QED BY <1>1, <1>2

\* A row was added for node n, ended or not.
LEMMA OneMore ==
  ASSUME NEW i, NEW table \in TablesOf(i), NEW n \in NodeIds, NEW it \in Nat \ {0},
         NEW first \in {"ready", "running"}
  PROVE  LET one == RecordAttempt(table, n, first, it)
         IN  /\ Len(one[n]) > Len(table[n])
             /\ \A status \in AttemptStatuses, note \in Notes :
                  Len(EndLast(one, n, status, note)[n]) > Len(table[n])
<1> DEFINE one == RecordAttempt(table, n, first, it)
<1>1. first \in AttemptStatuses
  BY DEF AttemptStatuses
<1>2. Len(one[n]) = Len(table[n]) + 1 /\ Len(table[n]) \in Nat
  BY <1>1, Recorded, RowsAre
<1>3. OwnRow(one[n], Len(one[n])) /\ one \in TablesOf(i)
  BY RecordedIsOwn DEF Touched
<1> HIDE DEF one
<1>4. ASSUME NEW status \in AttemptStatuses, NEW note \in Notes
      PROVE  Len(EndLast(one, n, status, note)[n]) = Len(one[n])
  <2> DEFINE two == SetAttempt(one, n, Len(one[n]), status, note)
  <2>1. two \in TablesOf(i) /\ DOMAIN two[n] = DOMAIN one[n]
    BY <1>3, SetTouches DEF OwnRow
  <2>2. EndLast(one, n, status, note) = two
    BY DEF EndLast
  <2> HIDE DEF two
  <2>3. /\ DOMAIN two[n] = 1 .. Len(two[n]) /\ Len(two[n]) \in Nat
        /\ DOMAIN one[n] = 1 .. Len(one[n]) /\ Len(one[n]) \in Nat
    BY <1>3, <2>1, RowsAre
  <2>4. Len(two[n]) = Len(one[n])
    <3>1. 1 .. Len(two[n]) = 1 .. Len(one[n])
      BY <2>1, <2>3
    <3> QED BY <2>3, <3>1, SameLength
  <2> QED BY <2>2, <2>4
<1> QED BY <1>2, <1>4 DEF one

LEMMA StartRenews ==
  ASSUME IInv, NoReady(attempts), NEW n \in Nodes, StartNode(n)
  PROVE  Renews
<1>0. /\ Typed /\ mem \in MemOf(inst) /\ n \in NodeIds /\ attempts \in TablesOf(inst)
      /\ mem.iteration \in Nat \ {0} /\ Nodes \subseteq NodeIds /\ inst' = inst
  BY Facts, Iterating DEF IInv, Typed, StartNode
<1>1. {"none", "slot", "resolution", "other"} \subseteq Notes
        /\ {"skipped", "blocked", "failed"} \subseteq AttemptStatuses
  BY DEF Notes, AttemptStatuses, TerminalStatuses
<1>2. \A status : Take(n, status) = RecordAttempt(attempts, n, status, mem.iteration)
  BY <1>0, TakeRecords
<1>3. Len(attempts'[n]) > Len(attempts[n])
  <2>1. CASE StartSkipped(n)
    BY <1>0, <1>1, <1>2, <2>1, OneMore DEF StartSkipped
  <2>2. CASE StartUnresolved(n)
    BY <1>0, <1>1, <1>2, <2>2, OneMore DEF StartUnresolved
  <2>3. CASE StartRoleFailure(n)
    BY <1>0, <1>1, <1>2, <2>3, OneMore DEF StartRoleFailure
  <2>4. CASE StartRunning(n)
    BY <1>0, <1>1, <1>2, <2>4, OneMore DEF StartRunning
  <2> QED BY <2>1, <2>2, <2>3, <2>4 DEF StartNode
<1>4. \A q \in Nodes \ {n} : q \in Done(mem') \/ mem'.stage[q] # "none" =>
                              q \in Done(mem) \/ mem.stage[q] # "none"
  <2>1. Started = [mem EXCEPT !.batch = @ \ {First(mem.batch)}]
    BY DEF Started
  <2>2. CASE StartSkipped(n)
    <3>1. mem' = [[mem EXCEPT !.batch = @ \ {First(mem.batch)}] EXCEPT !.skipped = @ \cup {n}]
      BY <2>1, <2>2 DEF StartSkipped
    <3> QED BY <1>0, <3>1 DEF MemOf, Done
  <2>3. CASE StartUnresolved(n)
    <3>1. mem' = [[mem EXCEPT !.batch = @ \ {First(mem.batch)}] EXCEPT
                    !.blocked = @ \cup {n}, !.nonResumable = @ \cup {n}]
      BY <2>1, <2>3 DEF StartUnresolved
    <3> QED BY <1>0, <3>1 DEF MemOf, Done
  <2>4. CASE StartRoleFailure(n)
    <3>1. mem' = [[mem EXCEPT !.batch = @ \ {First(mem.batch)}] EXCEPT !.failed = @ \cup {n}]
      BY <2>1, <2>4 DEF StartRoleFailure
    <3> QED BY <1>0, <3>1 DEF MemOf, Done
  <2>5. CASE StartRunning(n)
    <3> DEFINE s == IF n \in Writers THEN "prepare" ELSE "leaf"
               k == Len(attempts'[n])
    <3>1. mem' = [[mem EXCEPT !.batch = @ \ {First(mem.batch)}] EXCEPT !.stage[n] = s,
                                                                      !.number[n] = k]
      BY <2>1, <2>5 DEF StartRunning
    <3> HIDE DEF s, k
    <3> QED BY <1>0, <3>1 DEF MemOf, Done
  <2> QED BY <2>2, <2>3, <2>4, <2>5 DEF StartNode
<1> QED BY <1>0, <1>3, <1>4 DEF Renews, Reached, Nodes

LEMMA PruneRenews ==
  ASSUME IInv, PruneNode
  PROVE  Renews
<1>0. Typed /\ mem \in MemOf(inst) /\ attempts \in TablesOf(inst) /\ inst' = inst
        /\ Nodes \subseteq NodeIds
  BY Facts DEF IInv, Typed, PruneNode
<1> DEFINE m == First(Prunable)
<1>1. m \in Prunable
  BY <1>0, FirstIn DEF PruneNode, Prunable
<1>2. m \in Nodes /\ m \in NodeIds
  BY <1>0, <1>1 DEF Prunable
<1>3. /\ attempts' = EndLast(RecordAttempt(attempts, m, "ready", 1), m, "skipped", "none")
      /\ mem' = [mem EXCEPT !.skipped = @ \cup {m}]
  BY DEF PruneNode
<1> HIDE DEF m
<1>4. Len(attempts'[m]) > Len(attempts[m])
  <2>1. "skipped" \in AttemptStatuses /\ "none" \in Notes
    BY DEF Notes, AttemptStatuses, TerminalStatuses
  <2> QED BY <1>0, <1>2, <1>3, <2>1, OneMore
<1> QED BY <1>0, <1>2, <1>3, <1>4 DEF Renews, Reached, Nodes, MemOf, Done

\* A step that keeps what is stale, and by which no run completes.
LEMMA StaleKept ==
  ASSUME IInv, IInv', [Next]_vars, StaleInv, inst' = inst, seen'.stale = seen.stale,
         left'.runs = left.runs, Renews, run = NoRun <=> run' = NoRun,
         run'.status = "completed" => run.status = "completed"
  PROVE  StaleInv'
<1>1. \A s \in seen.stale : /\ s[1] \in Nodes /\ s[2] \in Nat
                            /\ Len(attempts[s[1]]) \in Nat /\ Len(attempts'[s[1]]) \in Nat
                            /\ s[2] <= Len(attempts[s[1]])
                            /\ Len(attempts[s[1]]) <= Len(attempts'[s[1]])
  BY Longer DEF StaleInv
<1>2. \A s \in seen.stale : s[2] <= Len(attempts'[s[1]]) /\ (Renewed(s) => Renewed(s)')
  BY <1>1 DEF Renewed
<1>3. ASSUME NEW s \in seen.stale, NeverResumed, s[1] \in Reached' PROVE Renewed(s)'
  <2>1. CASE s[1] \in Reached
    BY <1>2, <1>3, <2>1 DEF StaleInv
  <2>2. CASE s[1] \notin Reached
    BY <1>1, <1>3, <2>2 DEF Renews, Renewed
  <2> QED BY <2>1, <2>2
<1>4. NeverResumed' = NeverResumed
  BY DEF NeverResumed
<1>5. NeverResumed => /\ \A s \in seen.stale : s[1] \in Reached' => Renewed(s)'
                      /\ run'.status = "completed" => \A s \in seen.stale : Renewed(s)'
  BY <1>2, <1>3 DEF StaleInv
<1>6. /\ run' = NoRun => seen'.stale = {}
      /\ run' # NoRun => left'.runs < inst'.runs
      /\ \A s \in seen'.stale : s[1] \in Nodes' /\ s[2] \in Nat /\ s[2] <= Len(attempts'[s[1]])
  BY <1>1, <1>2 DEF StaleInv, Nodes
<1> HIDE DEF Renewed, Reached, NeverResumed
<1> QED BY <1>4, <1>5, <1>6 DEF StaleInv

\* A step that reaches nothing new.
LEMMA NothingReached ==
  ASSUME inst' = inst,
         \A n \in Nodes : n \in Done(mem') => n \in Done(mem) \/ mem.stage[n] # "none",
         \A n \in Nodes : mem'.stage[n] # "none" => mem.stage[n] # "none"
  PROVE  Renews
<1> SUFFICES ASSUME NEW n \in Nodes, n \in Reached' PROVE n \in Reached
  BY DEF Renews
<1>1. n \in Done(mem') \/ mem'.stage[n] # "none"
  BY DEF Reached
<1> QED BY <1>1 DEF Reached

LEMMA CompletionReaches ==
  ASSUME Typed, NEW n \in Nodes, Route(n) \/ Complete(n)
  PROVE  /\ mem.stage[n] # "none" /\ Done(mem') \subseteq Done(mem) \cup {n}
         /\ \A q \in Nodes \ {n} : mem'.stage[q] = mem.stage[q]
<1>0. mem \in MemOf(inst) /\ n \in NodeIds /\ Nodes \subseteq NodeIds
  BY Facts DEF Typed
<1>1. mem.stage[n] # "none"
  BY DEF Route, Complete
<1> DEFINE w == WithCompletion(n)
<1>2. /\ w.completed = mem.completed \cup {n} /\ w.skipped = mem.skipped
      /\ w.stage = mem.stage
  BY <1>0 DEF WithCompletion, MemOf
<1>3. /\ DOMAIN w = DOMAIN mem
  BY <1>0 DEF WithCompletion, MemOf
<1>4. mem' = w \/ (\E d : mem' = [w EXCEPT !.dead = d]) \/ mem' = Leave(w, n)
  BY DEF Route, Complete, w
<1>5. mem'.completed = w.completed /\ mem'.skipped = w.skipped
        /\ \A q \in Nodes \ {n} : mem'.stage[q] = w.stage[q]
  <2> HIDE DEF w
  <2>1. CASE \E d : mem' = [w EXCEPT !.dead = d]
    BY <1>0, <1>3, <2>1 DEF MemOf
  <2>2. CASE mem' = Leave(w, n)
    BY <1>0, <1>2, <1>3, <2>2 DEF MemOf, Leave
  <2> QED BY <1>4, <2>1, <2>2
<1> QED BY <1>1, <1>2, <1>5 DEF Done

\* A rerun begins without results of what it makes stale.
LEMMA RerunForgets ==
  ASSUME Typed, NEW invalid, mem' = Hydrated(invalid, {}), NEW m \in invalid, m \in Nodes
  PROVE  m \notin Done(mem') /\ mem'.stage[m] = "none"
<1> DEFINE
      known(n) == /\ attempts[n] # << >>
                  /\ n \notin invalid
                  /\ ~(n \in ActiveBody /\ Latest(attempts, n).iteration < run.iteration)
      with(status) == {n \in Nodes : known(n) /\ LatestStatus(attempts, n) = status}
      unblocked(n) == \/ n \in {}
                      \/ /\ ~run.finished
                         /\ n \in Gates \/ Latest(attempts, n).note # "slot"
      stuck == {n \in with("blocked") : ~unblocked(n)}
<1>1. m \notin with("completed") /\ m \notin with("skipped")
  OBVIOUS
<1>2. mem' = [EmptyMem EXCEPT
                !.iteration = run.iteration, !.patch = RestoredPatch,
                !.completed = with("completed"), !.skipped = with("skipped"),
                !.failed = with("failed"), !.blocked = stuck, !.nonResumable = stuck,
                !.lineage = [n \in NodeIds |->
                               IF n \in with("completed") THEN Len(attempts[n]) ELSE 0]]
  BY DEF Hydrated, LineageOf
<1> HIDE DEF with, stuck
<1>3. m \in NodeIds
  BY Facts
<1>4. /\ mem'.completed = with("completed") /\ mem'.skipped = with("skipped")
      /\ mem'.stage = EmptyMem.stage
  BY ZenonT(60), <1>2 DEF EmptyMem
<1> QED BY <1>1, <1>3, <1>4, EmptyIs DEF Done

LEMMA TemplateStays ==
  ASSUME [Next]_vars
  PROVE  inst' = inst
BY DEF Next, Executor, Host, InNode, vars, durable, CheckPending, Sched, PruneNode, PruneEnd,
       FeedbackStep, BatchDone, Ending, StartNode, Work, Route, Complete, StartRun, Resume,
       Abort, Crash, Recover, RerunNode, SkipNode, DecideGate, Reopen

LEMMA StaleStep ==
  ASSUME IInv, IInv', LoopInv, StraightInv, LoopFree, StaleInv, [Next]_vars
  PROVE  StaleInv'
<1>0. /\ Typed /\ mem \in MemOf(inst) /\ Nodes \subseteq NodeIds /\ NoReady(attempts)
      /\ Straight /\ Each /\ Results /\ Budget /\ SeenFields
  BY Facts DEF IInv, Typed, StraightInv, Straight, LoopInv
<1>1. inst.runs \in Nat /\ left.runs \in Nat /\ left.runs <= inst.runs
  BY <1>0, Limits DEF Budget
<1>2. run # NoRun => run \in RunRows
  BY <1>0 DEF Typed
<1>3. ASSUME NEW n \in Nodes, StartNode(n) PROVE StaleInv'
  <2>1. Renews
    BY <1>0, <1>3, StartRenews
  <2> QED BY <1>3, <2>1, StaleKept DEF StartNode
<1>4. ASSUME PruneNode PROVE StaleInv'
  BY <1>4, PruneRenews, StaleKept DEF PruneNode
<1>5. ASSUME PruneEnd PROVE StaleInv'
  <2>1. cur.node \in Nodes /\ mem' = Leave(mem, cur.node)
    BY <1>5 DEF PruneEnd, IInv, Places
  <2>2. Done(mem') = Done(mem) /\ \A n \in Nodes : mem'.stage[n] # "none" => mem.stage[n] # "none"
    BY <1>0, <2>1 DEF Leave, MemOf, Done
  <2>3. Renews
    BY <1>5, <2>2, NothingReached DEF PruneEnd, durable
  <2> QED BY <1>5, <2>3, StaleKept DEF PruneEnd, durable
<1>6. ASSUME Sched PROVE StaleInv'
  <2>1. mem'.completed = mem.completed /\ mem'.skipped = mem.skipped /\ mem'.stage = mem.stage
    BY <1>0, <1>6 DEF Sched, MemOf
  <2>2. Renews
    BY <1>6, <2>1, NothingReached DEF Sched, durable, Done
  <2> QED BY <1>6, <2>2, StaleKept DEF Sched, durable
<1>7. ASSUME CheckPending \/ Abort \/ BatchDone PROVE StaleInv'
  <2>1. /\ UNCHANGED <<inst, run, attempts>> /\ seen' = seen /\ left'.runs = left.runs
        /\ mem'.completed = mem.completed /\ mem'.skipped = mem.skipped
        /\ mem'.stage = mem.stage
    <3>1. CASE CheckPending
      BY <3>1 DEF CheckPending, durable
    <3>2. CASE Abort
      BY <1>0, <3>2 DEF Abort, durable, MemOf, Budget
    <3>3. CASE BatchDone
      BY <1>0, <3>3 DEF BatchDone, durable, Straight
    <3> QED BY <1>7, <3>1, <3>2, <3>3
  <2>2. Renews
    BY <2>1, NothingReached DEF Done
  <2> QED BY <2>1, <2>2, StaleKept
<1>8. ASSUME NEW n \in Nodes, InNode(n) PROVE StaleInv'
  <2>1. /\ inst' = inst /\ run' = run /\ seen' = seen /\ left' = left
    BY <1>8 DEF InNode, Work, Route, Complete
  <2>2. Renews
    <3>1. CASE Work(n)
      <4>1. mem.stage[n] # "none" /\ Beside(mem, mem') /\ Others(mem, mem', n)
        BY <1>0, <3>1, WorkEffect DEF Effect, IInv
      <4> QED BY <1>0, <2>1, <4>1, NothingReached DEF Beside, Others, Done
    <3>2. CASE Route(n) \/ Complete(n)
      <4>1. /\ mem.stage[n] # "none" /\ Done(mem') \subseteq Done(mem) \cup {n}
            /\ \A q \in Nodes \ {n} : mem'.stage[q] = mem.stage[q]
        BY <1>0, <3>2, CompletionReaches
      <4> QED BY <2>1, <4>1, NothingReached
    <3> QED BY <1>8, <3>1, <3>2 DEF InNode
  <2> QED BY <2>1, <2>2, StaleKept
<1>9. ASSUME Ending PROVE StaleInv'
  <2>1. /\ inst' = inst /\ seen'.stale = seen.stale /\ left' = left /\ mem' = EmptyMem
        /\ attempts' = attempts /\ run # NoRun /\ run \in RunRows
    BY <1>0, <1>2, <1>9, RunKept DEF Ending, Return, SeenFields, Under
  <2>2. run' # NoRun /\ (run'.status = "completed" => Outcome = "completed")
    <3>0. run.status = "running"
      BY <1>9, RunKept DEF Ending, Under
    <3>1. CASE Outcome = "running"
      BY <1>9, <2>1, <3>0, <3>1 DEF Ending
    <3>2. CASE Outcome # "running"
      <4>1. run' = [run EXCEPT !.status = Outcome, !.finished = TRUE]
        <5>1. CASE Outcome = "cancelled"
          BY <1>9, <5>1 DEF Ending, Finish, HandleCancellation
        <5>2. CASE Outcome # "cancelled"
          BY <1>9, <3>2, <5>2 DEF Ending, Finish
        <5> QED BY <5>1, <5>2
      <4>2. Outcome \in {"cancelled", "halted", "failed", "running", "completed"}
        BY DEF Outcome
      <4> HIDE DEF Outcome
      <4>3. run'.status = Outcome
        BY <2>1, <4>1 DEF RunRows
      <4>4. NoRun.status = "none"
        BY DEF NoRun
      <4> QED BY <4>2, <4>3, <4>4
    <3> QED BY <3>1, <3>2
  <2>3. Reached' = {}
    BY <1>0, <2>1, EmptyIs DEF Reached, Done, Nodes
  <2>4. Outcome = "completed" => Reached = Nodes
    BY <1>0, <1>9 DEF Results, Ending, Reached
  <2>5. NeverResumed' = NeverResumed /\ \A s : Renewed(s)' = Renewed(s)
    BY <2>1 DEF NeverResumed, Renewed
  <2> HIDE DEF NeverResumed, Renewed, Outcome
  <2> QED BY <2>1, <2>2, <2>3, <2>4, <2>5 DEF StaleInv, Nodes
<1>10. ASSUME Crash \/ Recover PROVE StaleInv'
  <2>1. /\ inst' = inst /\ seen'.stale = seen.stale /\ left'.runs = left.runs
        /\ mem' = EmptyMem
    BY <1>0, <1>10 DEF Crash, Recover, durable, SeenFields, Budget, Straight, Under
  <2>2. Renews
    BY <1>0, <2>1, EmptyIs, NothingReached DEF Done
  <2>3. (run = NoRun <=> run' = NoRun) /\ (run'.status = "completed" => run.status = "completed")
    <3>1. CASE UNCHANGED run
      BY <3>1
    <3>2. CASE Interrupted /\ Finish("failed")
      <4>1. run # NoRun /\ run \in RunRows
        BY <1>2, <3>2 DEF Interrupted, NoRun
      <4>2. run'.status = "failed"
        BY <3>2, <4>1 DEF Finish, RunRows
      <4>3. NoRun.status = "none"
        BY DEF NoRun
      <4> QED BY <4>1, <4>2, <4>3
    <3> QED BY <1>10, <3>1, <3>2 DEF Crash, Recover, durable
  <2> QED BY <2>1, <2>2, <2>3, StaleKept
<1>11. ASSUME StartRun PROVE StaleInv'
  <2>1. /\ run = NoRun /\ left'.runs = left.runs - 1 /\ seen'.stale = seen.stale
        /\ run' # NoRun /\ run'.status = "running" /\ inst' = inst
    BY <1>0, <1>11 DEF StartRun, NoRun, SeenFields, Budget
  <2>2. seen'.stale = {}
    BY <2>1 DEF StaleInv
  <2>3. left'.runs < inst'.runs
    BY <1>1, <2>1
  <2> HIDE DEF NeverResumed, Renewed, Reached
  <2> QED BY <2>1, <2>2, <2>3 DEF StaleInv
<1>12. ASSUME Resume PROVE StaleInv'
  <2>1. /\ run # NoRun /\ left'.runs = left.runs - 1 /\ seen'.stale = seen.stale
        /\ inst' = inst /\ attempts' = attempts /\ run' = [run EXCEPT !.status = "running"]
    BY <1>0, <1>12 DEF Resume, Reopen, SeenFields, Budget
  <2>2. left.runs < inst.runs
    BY <2>1 DEF StaleInv
  <2>3. left'.runs < inst'.runs /\ ~NeverResumed'
    BY <1>1, <2>1, <2>2 DEF NeverResumed
  <2>4. \A s \in seen'.stale : s[1] \in Nodes' /\ s[2] \in Nat /\ s[2] <= Len(attempts'[s[1]])
    BY <2>1 DEF StaleInv, Nodes
  <2>5. run' # NoRun
    <3>1. run'.status = "running" /\ NoRun.status = "none"
      BY <1>2, <2>1 DEF RunRows, NoRun
    <3> QED BY <3>1
  <2> HIDE DEF NeverResumed, Renewed, Reached
  <2> QED BY <2>3, <2>4, <2>5 DEF StaleInv
<1>13. ASSUME NEW n \in Nodes, RerunNode(n) PROVE StaleInv'
  <2>1. /\ run # NoRun /\ left'.runs = left.runs /\ inst' = inst /\ attempts' = attempts
        /\ seen'.stale = {<<m, Len(attempts[m])>> : m \in Invalidated(n)}
        /\ run' = [run EXCEPT !.status = "running"]
        /\ mem' = Hydrated(Invalidated(n), {})
    BY <1>0, <1>13 DEF RerunNode, Reopen, SeenFields, Budget, Invalidated
  <2>2. Invalidated(n) \subseteq Nodes
    BY <1>0, DownstreamAreNodes DEF Invalidated
  <2>3. \A m \in Invalidated(n) : m \notin Reached'
    BY <1>0, <2>1, <2>2, RerunForgets DEF Reached
  <2>4. run'.status = "running" /\ run' # NoRun
    BY <1>2, <2>1 DEF RunRows, NoRun
  <2>5. \A m \in Nodes : Len(attempts[m]) \in Nat
    BY <1>0, RowsAre DEF Typed
  <2>6. left'.runs < inst'.runs
    BY <2>1 DEF StaleInv
  <2>7. \A s \in seen'.stale : /\ s[1] \in Invalidated(n) /\ s[2] = Len(attempts'[s[1]])
    BY <2>1
  <2> HIDE DEF Reached
  <2> QED BY <2>1, <2>2, <2>3, <2>4, <2>5, <2>6, <2>7 DEF StaleInv, Nodes
<1>14. ASSUME NEW n \in Nodes, SkipNode(n) PROVE StaleInv'
  <2>1. /\ inst' = inst /\ run' = run /\ mem' = mem /\ seen' = seen /\ left'.runs = left.runs
    BY <1>0, <1>14 DEF SkipNode, Budget
  <2> QED BY <2>1, NothingReached, StaleKept
<1>15. ASSUME UNCHANGED vars \/ \E g \in Gates : DecideGate(g) PROVE StaleInv'
  <2>1. UNCHANGED <<inst, run, attempts, mem, seen, left>>
    BY <1>15 DEF vars, DecideGate
  <2> QED BY <2>1, NothingReached, StaleKept
<1>16. ~FeedbackStep
  BY <1>0 DEF FeedbackStep, Straight
<1> QED BY <1>3, <1>4, <1>5, <1>6, <1>7, <1>8, <1>9, <1>10, <1>11, <1>12, <1>13, <1>14, <1>15,
           <1>16 DEF Next, Executor, Host

LEMMA StaleAlways == Spec => [](IInv /\ StraightInv /\ (LoopFree => StaleInv))
<1>1. IInv /\ LoopInv /\ StraightInv /\ (LoopFree => StaleInv) /\ [Next]_vars
        => IInv' /\ LoopInv' /\ StraightInv' /\ (LoopFree => StaleInv)'
  <2>1. [Next]_vars => (LoopFree' <=> LoopFree)
    BY TemplateStays DEF LoopFree, Edges
  <2> QED BY <2>1, NextStep, LoopStep, StraightStep, StaleStep
<1>2. Init => IInv /\ LoopInv /\ StraightInv /\ (LoopFree => StaleInv)
  BY InitHolds, LoopInit, StraightInit DEF Init, StaleInv, NoRun
<1> QED BY <1>1, <1>2, PTL DEF Spec

\* There, as long as no call resumes the run, "completed" after a rerun means that
\* the node and everything downstream of it has been attempted again, whatever
\* deaths and further reruns come between.
THEOREM RerunsReachDownstream ==
  Spec => [](LoopFree /\ NeverResumed => RerunReachesDownstream)
<1>1. StaleInv => (NeverResumed => RerunReachesDownstream)
  BY DEF StaleInv, Renewed, RerunReachesDownstream
<1> QED BY <1>1, StaleAlways, PTL

-----------------------------------------------------------------------------
(* Pauses and crashes: what recovery can tell from the rows.                *)

Flying(n) == mem.stage[n] # "none" /\ ~Following(n)
Well(m) ==
  /\ ~m.aborted /\ ~m.halted
  /\ m.cancelled = {} /\ m.failed = {} /\ m.nonResumable = {}

\* No row of the node says that something went wrong, and only the row of a node
\* in flight says that it is running.
Calm(n) ==
  /\ \A k \in DOMAIN attempts[n] :
       /\ attempts[n][k].status \notin {"failed", "cancelled"}
       /\ attempts[n][k].status = "running" => Flying(n) /\ k = mem.number[n]
  /\ LatestStatus(attempts, n) = "blocked" => Latest(attempts, n).note # "slot"

\* To the executor, or to the rows when none is at work.
IsDone(p) ==
  IF Under THEN p \in Done(mem) ELSE LatestStatus(attempts, p) \in {"completed", "skipped"}

\* The newest checkpoint tells what is blocked; a start in it is not over yet.
Told(c) ==
  /\ ckpts = {c} /\ c.blocked \in {mem.blocked, RowsWith("blocked")}
  /\ c.operation \in PauseOperations \/ \E n \in Nodes : Flying(n)

\* No loop, no rerun, no two checkpoints of one millisecond.
Simple == LoopFree /\ ~inst.sameMillisecond /\ left.reruns = inst.reruns

\* All that a death left in flight are routers whose rows say completed already.
Unseen ==
  \A n \in seen.crashed : n \in Routers /\ LatestStatus(attempts, n) = "completed"

RowsOfOne ==
  /\ \A n \in NodeIds : \A k \in DOMAIN attempts[n] : attempts[n][k].iteration = 1
  /\ run = NoRun => \A n \in NodeIds : attempts[n] = << >>
  /\ run.status \notin {"none", "running"} => run.finished
CalmWhileWell ==
  pc # "starting" /\ Well(mem) /\ run.status \in {"none", "running"} => \A n \in Nodes : Calm(n)
BlockedBehindDone ==
  \A n \in RowsWith("blocked") : \A p \in Preds(Edges, n) : IsDone(p)
ToldWhileWell == Under /\ Well(mem) /\ mem.blocked # {} => \E c \in ckpts : Told(c)
AllBlocked == pc = "ending" /\ Well(mem) => RowsWith("blocked") \subseteq mem.blocked
PauseStands ==
  ~Under /\ seen.answer = "running" =>
    run.status = "running" /\ \E c \in ckpts : ckpts = {c} /\ LegitimatePause(c)
CrashShows ==
  pc = "starting" /\ ~Unseen => ~NoneIn({"running"})

PauseInv ==
  /\ RowsOfOne /\ CalmWhileWell /\ BlockedBehindDone /\ ToldWhileWell /\ AllBlocked
  /\ PauseStands /\ CrashShows /\ (pc = "prune" => cur.node \in Routers \cap mem.completed)

-----------------------------------------------------------------------------
(* The last row of a node.                                                  *)

\* The row number len of n, the last there is, is new or has changed.
Writes(n, len, status, note) ==
  /\ OnlyAt(n, attempts, attempts')
  /\ len \in {Len(attempts[n]), Len(attempts[n]) + 1}
  /\ len \in Nat \ {0} /\ Len(attempts'[n]) = len /\ DOMAIN attempts'[n] = 1 .. len
  /\ \A k \in 1 .. len : k # len => k \in DOMAIN attempts[n] /\ attempts'[n][k] = attempts[n][k]
  /\ attempts'[n][len].status = status /\ attempts'[n][len].note = note
  /\ attempts'[n][len].iteration = 1

LEMMA SetRow ==
  ASSUME NEW i, NEW table \in TablesOf(i), NEW n \in NodeIds, NEW k \in DOMAIN table[n],
         NEW status \in AttemptStatuses, NEW note \in Notes
  PROVE  LET new == SetAttempt(table, n, k, status, note)
         IN  /\ OnlyAt(n, table, new) /\ new \in TablesOf(i)
             /\ DOMAIN new[n] = DOMAIN table[n] /\ Len(new[n]) = Len(table[n])
             /\ \A j \in DOMAIN table[n] \ {k} : new[n][j] = table[n][j]
             /\ new[n][k].status = status /\ new[n][k].note = note
             /\ new[n][k].iteration = table[n][k].iteration
<1> DEFINE new == SetAttempt(table, n, k, status, note)
<1>1. table[n] \in Seq(RowOf(i)) /\ table[n][k] \in RowOf(i)
  BY DEF TablesOf
<1> DEFINE row == [[table[n][k] EXCEPT !.status = status] EXCEPT !.note = note]
<1>2. /\ row \in RowOf(i) /\ row.status = status /\ row.note = note
      /\ row.iteration = table[n][k].iteration
  BY <1>1 DEF RowOf
<1>3. new = [table EXCEPT ![n] = [table[n] EXCEPT ![k] = row]]
  BY <1>1 DEF SetAttempt, TablesOf
<1> HIDE DEF row
<1>4. /\ [table[n] EXCEPT ![k] = row] \in Seq(RowOf(i))
      /\ DOMAIN [table[n] EXCEPT ![k] = row] = DOMAIN table[n]
      /\ Len([table[n] EXCEPT ![k] = row]) = Len(table[n])
      /\ [table[n] EXCEPT ![k] = row][k] = row
      /\ \A j \in DOMAIN table[n] \ {k} : [table[n] EXCEPT ![k] = row][j] = table[n][j]
  BY <1>1, <1>2
<1>5. /\ new[n] = [table[n] EXCEPT ![k] = row] /\ new \in TablesOf(i)
      /\ \A m \in NodeIds \ {n} : new[m] = table[m]
  BY <1>3, <1>4 DEF TablesOf
<1> HIDE DEF new
<1>6. OnlyAt(n, table, new)
  BY <1>5 DEF OnlyAt
<1> QED BY <1>2, <1>4, <1>5, <1>6 DEF new

LEMMA AddedLast ==
  ASSUME Typed, NEW n \in NodeIds, NEW status \in AttemptStatuses,
         attempts' = RecordAttempt(attempts, n, status, 1)
  PROVE  Writes(n, Len(attempts[n]) + 1, status, "none")
<1>1. attempts \in TablesOf(inst) /\ 1 \in Nat \ {0}
  BY DEF Typed
<1>2. NewAttempt(status, 1).status = status /\ NewAttempt(status, 1).note = "none"
        /\ NewAttempt(status, 1).iteration = 1
  BY DEF NewAttempt
<1>3. Len(attempts[n]) \in Nat /\ DOMAIN attempts[n] = 1 .. Len(attempts[n])
  BY <1>1, RowsAre
<1>4. /\ Len(attempts'[n]) = Len(attempts[n]) + 1
      /\ DOMAIN attempts'[n] = 1 .. (Len(attempts[n]) + 1)
      /\ \A k \in DOMAIN attempts[n] : attempts'[n][k] = attempts[n][k]
      /\ attempts'[n][Len(attempts[n]) + 1] = NewAttempt(status, 1)
      /\ OnlyAt(n, attempts, attempts')
  BY <1>1, Recorded
<1> QED BY <1>2, <1>3, <1>4 DEF Writes

LEMMA AddedAndEnded ==
  ASSUME Typed, NEW n \in NodeIds, NEW first \in AttemptStatuses,
         NEW status \in AttemptStatuses, NEW note \in Notes,
         attempts' = EndLast(RecordAttempt(attempts, n, first, 1), n, status, note)
  PROVE  Writes(n, Len(attempts[n]) + 1, status, note)
<1> DEFINE one == RecordAttempt(attempts, n, first, 1)
           k   == Len(attempts[n]) + 1
<1>1. attempts \in TablesOf(inst) /\ 1 \in Nat \ {0}
  BY DEF Typed
<1>2. NewAttempt(first, 1).iteration = 1
  BY DEF NewAttempt
<1>3. Len(attempts[n]) \in Nat /\ DOMAIN attempts[n] = 1 .. Len(attempts[n])
  BY <1>1, RowsAre
<1>4. /\ one \in TablesOf(inst) /\ Len(one[n]) = k /\ DOMAIN one[n] = 1 .. k
      /\ \A j \in DOMAIN attempts[n] : one[n][j] = attempts[n][j]
      /\ one[n][k].iteration = 1 /\ OnlyAt(n, attempts, one)
  BY <1>1, <1>2, Recorded
<1>5. attempts' = SetAttempt(one, n, k, status, note)
  BY <1>4 DEF EndLast
<1> HIDE DEF one
<1>6. k \in DOMAIN one[n]
  BY <1>3, <1>4
<1>7. /\ OnlyAt(n, one, attempts') /\ DOMAIN attempts'[n] = 1 .. k /\ Len(attempts'[n]) = k
      /\ \A j \in DOMAIN one[n] \ {k} : attempts'[n][j] = one[n][j]
      /\ attempts'[n][k].status = status /\ attempts'[n][k].note = note
      /\ attempts'[n][k].iteration = 1
  BY <1>4, <1>5, <1>6, SetRow
<1>8. OnlyAt(n, attempts, attempts')
  BY <1>4, <1>7 DEF OnlyAt
<1> QED BY <1>3, <1>4, <1>7, <1>8 DEF Writes

LEMMA LastSet ==
  ASSUME Typed, RowsOfOne, NEW n \in NodeIds, attempts[n] # << >>,
         mem.number[n] = Len(attempts[n]),
         NEW status \in AttemptStatuses, NEW note \in Notes,
         attempts' = EndAttempt(n, status, note)
  PROVE  Writes(n, Len(attempts[n]), status, note)
<1> DEFINE k == Len(attempts[n])
<1>1. /\ attempts \in TablesOf(inst) /\ k \in Nat /\ DOMAIN attempts[n] = 1 .. k
      /\ k \in DOMAIN attempts[n]
  BY RowsAre DEF Typed
<1>2. attempts' = SetAttempt(attempts, n, k, status, note) /\ attempts[n][k].iteration = 1
  BY <1>1 DEF EndAttempt, RowsOfOne
<1>3. /\ OnlyAt(n, attempts, attempts') /\ DOMAIN attempts'[n] = 1 .. k
      /\ Len(attempts'[n]) = k
      /\ \A j \in DOMAIN attempts[n] \ {k} : attempts'[n][j] = attempts[n][j]
      /\ attempts'[n][k].status = status /\ attempts'[n][k].note = note
      /\ attempts'[n][k].iteration = 1
  BY <1>1, <1>2, SetRow
<1> QED BY <1>1, <1>3 DEF Writes

LEMMA LastCompletes ==
  ASSUME Typed, RowsOfOne, NEW n \in NodeIds, attempts[n] # << >>,
         mem.number[n] = Len(attempts[n]), NEW edge, RecordCompletion(n, edge)
  PROVE  Writes(n, Len(attempts[n]), "completed", "none")
<1> DEFINE k == Len(attempts[n])
           ended == EndAttempt(n, "completed", "none")
<1>1. /\ attempts \in TablesOf(inst) /\ k \in Nat /\ DOMAIN attempts[n] = 1 .. k
      /\ k \in DOMAIN attempts[n]
      /\ "completed" \in AttemptStatuses /\ "none" \in Notes
  BY RowsAre DEF Typed, AttemptStatuses, TerminalStatuses, Notes
<1>2. ended = SetAttempt(attempts, n, k, "completed", "none") /\ attempts[n][k].iteration = 1
  BY <1>1 DEF EndAttempt, RowsOfOne
<1>3. attempts' = [ended EXCEPT ![n][k].edge = edge]
  BY DEF RecordCompletion
<1> HIDE DEF ended
<1>4. /\ OnlyAt(n, attempts, ended) /\ ended \in TablesOf(inst) /\ DOMAIN ended[n] = 1 .. k
      /\ \A j \in DOMAIN attempts[n] \ {k} : ended[n][j] = attempts[n][j]
      /\ ended[n][k].status = "completed" /\ ended[n][k].note = "none"
      /\ ended[n][k].iteration = 1 /\ Len(ended[n]) = k
  BY <1>1, <1>2, SetRow
<1>5. ended[n] \in Seq(RowOf(inst)) /\ ended[n][k] \in RowOf(inst)
  BY <1>1, <1>4 DEF TablesOf
<1> DEFINE row == [ended[n][k] EXCEPT !.edge = edge]
<1>6. row.status = "completed" /\ row.note = "none" /\ row.iteration = 1
  BY <1>4, <1>5 DEF RowOf
<1>7. attempts' = [ended EXCEPT ![n] = [ended[n] EXCEPT ![k] = row]]
  BY <1>1, <1>3, <1>4, <1>5 DEF TablesOf
<1> HIDE DEF row
<1>8. /\ attempts'[n] = [ended[n] EXCEPT ![k] = row]
      /\ \A m \in NodeIds \ {n} : attempts'[m] = ended[m]
  BY <1>4, <1>7 DEF TablesOf
<1>9. /\ DOMAIN attempts'[n] = 1 .. k /\ attempts'[n][k] = row
      /\ \A j \in 1 .. k : j # k => attempts'[n][j] = ended[n][j]
      /\ Len(attempts'[n]) = k
  BY <1>1, <1>4, <1>5, <1>8
<1>10. OnlyAt(n, attempts, attempts')
  BY <1>4, <1>8 DEF OnlyAt
<1> QED BY <1>1, <1>4, <1>6, <1>9, <1>10 DEF Writes
-----------------------------------------------------------------------------
(* Steps of run().                                                          *)

\* A status of the rows after the step, by the row written.
LEMMA WrittenStatus ==
  ASSUME NEW n \in NodeIds, NEW len, NEW status, NEW note, Writes(n, len, status, note)
  PROVE  /\ LatestStatus(attempts, n)' = status /\ Latest(attempts, n)'.note = note
         /\ \A q \in NodeIds \ {n} : /\ attempts'[q] = attempts[q]
                                     /\ LatestStatus(attempts, q)' = LatestStatus(attempts, q)
<1>1. attempts'[n] # << >>
  BY DEF Writes
<1> QED BY <1>1 DEF Writes, LatestStatus, Latest, OnlyAt

\* A step inside run() that writes the last row of one node.
LEMMA WriteKeeps ==
  ASSUME Typed, PauseInv, Under, pc' \notin {"idle", "starting", "ending"},
         NEW n \in Nodes, NEW len, NEW status, NEW note, Writes(n, len, status, note),
         inst' = inst, run' = run, run # NoRun,
         Done(mem) \subseteq Done(mem'),
         status = "blocked" => Preds(Edges, n) \subseteq Done(mem'),
         pc' = "prune" => cur'.node \in Routers \cap mem'.completed,
         Well(mem') =>
           /\ \A q \in Nodes \ {n} : Flying(q) => Flying(q)' /\ mem'.number[q] = mem.number[q]
           /\ Well(mem) /\ status \notin {"failed", "cancelled"} /\ note # "slot"
           /\ status = "running" => Flying(n)' /\ mem'.number[n] = len
           /\ Flying(n) => mem.number[n] = len
           /\ \E c \in ckpts' : Told(c)'
  PROVE  PauseInv'
<1>0. n \in NodeIds /\ Nodes \subseteq NodeIds /\ Under'
  BY Facts DEF Under
<1>1. /\ OnlyAt(n, attempts, attempts') /\ DOMAIN attempts'[n] = 1 .. len
      /\ \A k \in 1 .. len :
           k # len => k \in DOMAIN attempts[n] /\ attempts'[n][k] = attempts[n][k]
      /\ attempts'[n][len].status = status /\ attempts'[n][len].iteration = 1
  BY DEF Writes
<1>2. /\ LatestStatus(attempts, n)' = status /\ Latest(attempts, n)'.note = note
      /\ \A q \in NodeIds \ {n} : /\ attempts'[q] = attempts[q]
                                  /\ LatestStatus(attempts, q)' = LatestStatus(attempts, q)
  BY <1>0, WrittenStatus
<1>3. RowsOfOne'
  <2>1. \A q \in NodeIds : \A k \in DOMAIN attempts'[q] : attempts'[q][k].iteration = 1
    <3> SUFFICES ASSUME NEW q \in NodeIds, NEW k \in DOMAIN attempts'[q]
                 PROVE  attempts'[q][k].iteration = 1
      OBVIOUS
    <3>1. CASE q # n
      BY <1>2, <3>1 DEF PauseInv, RowsOfOne
    <3>2. CASE q = n /\ k = len
      BY <1>1, <3>2
    <3>3. CASE q = n /\ k # len
      <4>1. k \in DOMAIN attempts[n] /\ attempts'[n][k] = attempts[n][k]
        BY <1>1, <3>3
      <4> QED BY <1>0, <3>3, <4>1 DEF PauseInv, RowsOfOne
    <3> QED BY <3>1, <3>2, <3>3
  <2> QED BY <2>1 DEF PauseInv, RowsOfOne
<1>4. CalmWhileWell'
  <2> SUFFICES ASSUME Well(mem'), run'.status \in {"none", "running"}, NEW q \in Nodes
               PROVE  Calm(q)'
    BY DEF CalmWhileWell, Nodes
  <2>1. \A p \in Nodes : Calm(p)
    BY DEF PauseInv, CalmWhileWell, Under
  <2>2. CASE q # n
    <3>1. /\ attempts'[q] = attempts[q] /\ LatestStatus(attempts, q)' = LatestStatus(attempts, q)
          /\ Flying(q) => Flying(q)' /\ mem'.number[q] = mem.number[q]
      BY <1>0, <1>2, <2>2
    <3>2. Latest(attempts, q)' = Latest(attempts, q)
      BY <3>1 DEF Latest
    <3> HIDE DEF Flying
    <3> QED BY <2>1, <3>1, <3>2 DEF Calm
  <2>3. CASE q = n
    <3>1. ASSUME NEW k \in DOMAIN attempts'[n]
          PROVE  /\ attempts'[n][k].status \notin {"failed", "cancelled"}
                 /\ attempts'[n][k].status = "running" => Flying(n)' /\ k = mem'.number[n]
      <4>1. CASE k = len
        BY <1>1, <4>1
      <4>2. CASE k # len
        <5>1. k \in DOMAIN attempts[n] /\ attempts'[n][k] = attempts[n][k]
          BY <1>1, <3>1, <4>2
        <5>2. /\ attempts[n][k].status \notin {"failed", "cancelled"}
              /\ attempts[n][k].status = "running" => Flying(n) /\ k = mem.number[n]
          BY <2>1, <5>1 DEF Calm
        <5> QED BY <4>2, <5>1, <5>2
      <4> QED BY <4>1, <4>2
    <3> QED BY <1>2, <2>3, <3>1 DEF Calm
  <2> QED BY <2>2, <2>3
<1>5. BlockedBehindDone'
  <2> SUFFICES ASSUME NEW q \in Nodes, attempts'[q] # << >>, LatestStatus(attempts, q)' = "blocked",
                      NEW p \in Preds(Edges, q)
               PROVE  p \in Done(mem')
    BY <1>0 DEF BlockedBehindDone, RowsWith, Nodes, Edges, IsDone
  <2>1. CASE q = n
    BY <1>2, <2>1
  <2>2. CASE q # n
    <3>1. q \in RowsWith("blocked")
      BY <1>0, <1>2, <2>2 DEF RowsWith
    <3>2. p \in Done(mem)
      BY <3>1 DEF PauseInv, BlockedBehindDone, IsDone
    <3> QED BY <3>2
  <2> QED BY <2>1, <2>2
<1> HIDE DEF Told
<1> QED BY <1>0, <1>3, <1>4, <1>5 DEF PauseInv, ToldWhileWell, AllBlocked, PauseStands, CrashShows,
           Routers

\* A step inside run() that writes neither rows nor checkpoints.
LEMMA QuietKeeps ==
  ASSUME Typed, PauseInv, Under, pc' \notin {"idle", "starting", "ending"},
         inst' = inst, run' = run, run # NoRun, attempts' = attempts,
         Done(mem) \subseteq Done(mem'),
         pc' = "prune" => cur'.node \in Routers \cap mem'.completed,
         Well(mem') =>
           /\ Well(mem) /\ ckpts' = ckpts /\ mem'.blocked = mem.blocked
           /\ \A q \in Nodes : Flying(q) => Flying(q)' /\ mem'.number[q] = mem.number[q]
  PROVE  PauseInv'
<1>0. Nodes \subseteq NodeIds /\ Under'
  BY Facts DEF Under
<1>1. RowsOfOne'
  BY DEF PauseInv, RowsOfOne
<1>2. CalmWhileWell'
  <2> SUFFICES ASSUME Well(mem'), run'.status \in {"none", "running"}, NEW q \in Nodes
               PROVE  Calm(q)'
    BY DEF CalmWhileWell, Nodes
  <2>1. Calm(q)
    BY DEF PauseInv, CalmWhileWell, Under
  <2> HIDE DEF Flying
  <2> QED BY <2>1 DEF Calm, LatestStatus, Latest
<1>3. BlockedBehindDone'
  BY <1>0 DEF PauseInv, BlockedBehindDone, RowsWith, Nodes, Edges, IsDone, LatestStatus, Latest
<1>4. ToldWhileWell'
  <2> SUFFICES ASSUME Well(mem'), mem'.blocked # {} PROVE \E c \in ckpts' : Told(c)'
    BY DEF ToldWhileWell
  <2>1. PICK c \in ckpts : Told(c)
    BY DEF PauseInv, ToldWhileWell
  <2>2. RowsWith("blocked")' = RowsWith("blocked")
    BY DEF RowsWith, Nodes, LatestStatus, Latest
  <2>3. (\E n \in Nodes : Flying(n)) => (\E n \in Nodes : Flying(n))'
    BY DEF Nodes
  <2> HIDE DEF Flying, RowsWith
  <2> QED BY <2>1, <2>2, <2>3 DEF Told
<1> QED BY <1>0, <1>1, <1>2, <1>3, <1>4 DEF PauseInv, AllBlocked, PauseStands, CrashShows, Routers
-----------------------------------------------------------------------------
(* What goes wrong in a node in flight is held against the run.             *)

SameTrouble(m, m2) ==
  /\ m2.aborted = m.aborted /\ m2.halted = m.halted
  /\ m2.cancelled = m.cancelled /\ m2.failed = m.failed /\ m2.nonResumable = m.nonResumable

\* The node goes on, or it waits and the checkpoint says so, or the run is not
\* well any more.
Parked(n) ==
  /\ SameTrouble(mem, mem') /\ mem'.blocked = mem.blocked \cup {n}
  /\ attempts' = EndAttempt(n, "blocked", "wait")
  /\ Checkpoint(<<Snap("node.blocked", mem.blocked \cup {n})>>)
Proceeds(n) ==
  /\ SameTrouble(mem, mem') /\ mem'.blocked = mem.blocked
  /\ mem'.stage[n] # "none" /\ mem'.number = mem.number /\ UNCHANGED <<attempts, ckpts>>
Pauses(n) == ~Well(mem') \/ Parked(n) \/ Proceeds(n)

LEMMA LeaveTrouble ==
  ASSUME NEW i, NEW m \in MemOf(i), NEW n
  PROVE  SameTrouble(m, Leave(m, n)) /\ Leave(m, n).blocked = m.blocked
BY DEF SameTrouble, Leave, MemOf

LEMMA TroubleStays ==
  ASSUME NEW m, NEW m2, SameTrouble(m, m2)
  PROVE  Well(m2) = Well(m)
BY DEF SameTrouble, Well

LEMMA CaughtPauses ==
  ASSUME Typed, NEW n \in Nodes, NEW m \in MemOf(inst), Caught(n, m)
  PROVE  ~Well(mem')
<1> DEFINE f == [m EXCEPT !.failed = @ \cup {n}]
<1>1. f \in MemOf(inst) /\ n \in f.failed
  BY DEF MemOf, Nodes
<1>2. mem' = Leave(f, n)
  BY DEF Caught
<1> HIDE DEF f
<1>3. SameTrouble(f, mem')
  BY <1>1, <1>2, LeaveTrouble
<1> QED BY <1>1, <1>3 DEF SameTrouble, Well

LEMMA HaltPauses ==
  ASSUME Typed, NEW n \in Nodes, NEW operation, HaltedStart(n, operation)
  PROVE  ~Well(mem')
<1> DEFINE f == [mem EXCEPT !.halted = TRUE, !.failed = @ \cup {n}]
<1>1. f \in MemOf(inst) /\ f.halted
  BY DEF Typed, MemOf, Nodes
<1>2. mem' = Leave(f, n)
  BY DEF HaltedStart
<1> HIDE DEF f
<1>3. SameTrouble(f, mem')
  BY <1>1, <1>2, LeaveTrouble
<1> QED BY <1>1, <1>3 DEF SameTrouble, Well

LEMMA ToLeafPauses ==
  ASSUME Typed, NEW n \in Nodes, NEW m \in MemOf(inst), ToLeaf(n, m),
         SameTrouble(mem, m), m.blocked = mem.blocked, m.number = mem.number
  PROVE  Pauses(n)
<1>1. CASE m.aborted
  BY <1>1, CaughtPauses DEF ToLeaf, Pauses
<1>2. CASE ~m.aborted
  <2>1. mem' = [m EXCEPT !.stage[n] = "leaf"] /\ UNCHANGED <<attempts, ckpts>> /\ n \in NodeIds
    BY <1>2, Facts DEF ToLeaf
  <2>2. /\ SameTrouble(m, mem') /\ mem'.blocked = m.blocked /\ mem'.number = m.number
        /\ mem'.stage[n] = "leaf"
    BY <2>1 DEF SameTrouble, MemOf
  <2>3. SameTrouble(mem, mem')
    BY <2>2 DEF SameTrouble
  <2> QED BY <2>1, <2>2, <2>3 DEF Pauses, Proceeds
<1> QED BY <1>1, <1>2

LEMMA PreparedPauses ==
  ASSUME Typed, NEW n \in Nodes, Prepared(n)
  PROVE  Pauses(n)
<1>0. n \in NodeIds /\ mem \in MemOf(inst) /\ SameTrouble(mem, mem)
  BY Facts DEF Typed, SameTrouble
<1>1. CASE Caught(n, mem)
  BY <1>0, <1>1, CaughtPauses DEF Pauses
<1>2. CASE /\ mem' = [mem EXCEPT !.stage[n] = "patch", !.tree[n] = {mem.patch}]
           /\ UNCHANGED <<attempts, ckpts>>
  <2>1. /\ SameTrouble(mem, mem') /\ mem'.blocked = mem.blocked /\ mem'.number = mem.number
        /\ mem'.stage[n] = "patch"
    BY <1>0, <1>2 DEF SameTrouble, MemOf
  <2> QED BY <1>2, <2>1 DEF Pauses, Proceeds
<1>3. CASE /\ mem' = [mem EXCEPT !.stage[n] = "apply", !.tree[n] = PredChanges(n)]
           /\ UNCHANGED <<attempts, ckpts>>
  <2> DEFINE T == PredChanges(n)
  <2>1. mem' = [mem EXCEPT !.stage[n] = "apply", !.tree[n] = T]
    BY <1>3
  <2> HIDE DEF T
  <2>2. /\ SameTrouble(mem, mem') /\ mem'.blocked = mem.blocked /\ mem'.number = mem.number
        /\ mem'.stage[n] = "apply"
    BY <1>0, <2>1 DEF SameTrouble, MemOf
  <2> QED BY <1>3, <2>2 DEF Pauses, Proceeds
<1>4. CASE HaltedStart(n, "merge.halted")
  BY <1>4, HaltPauses DEF Pauses
<1>5. CASE ToLeaf(n, mem)
  BY <1>0, <1>5, ToLeafPauses
<1> QED BY <1>1, <1>2, <1>3, <1>4, <1>5 DEF Prepared

LEMMA AppliedPauses ==
  ASSUME Typed, NEW n \in Nodes, PatchApplied(n) \/ ChangesApplied(n)
  PROVE  Pauses(n)
<1> DEFINE m == [mem EXCEPT !.patch = NoChange]
<1>1. /\ mem \in MemOf(inst) /\ m \in MemOf(inst) /\ SameTrouble(mem, m) /\ SameTrouble(mem, mem)
      /\ m.blocked = mem.blocked /\ m.number = mem.number
  BY DEF Typed, MemOf, SameTrouble, PatchesOf
<1>2. HaltedStart(n, "iteration.halted") \/ ToLeaf(n, m) \/ Caught(n, mem) \/ ToLeaf(n, mem)
  BY DEF PatchApplied, ChangesApplied
<1> HIDE DEF m
<1> QED BY <1>1, <1>2, HaltPauses, ToLeafPauses, CaughtPauses DEF Pauses

LEMMA AnsweredPauses ==
  ASSUME Typed, NEW n \in Nodes, LeafAnswered(n)
  PROVE  Pauses(n)
<1>0. n \in NodeIds /\ mem \in MemOf(inst)
  BY Facts DEF Typed
<1>1. CASE mem.aborted /\ Aborted(n)
  <2>1. SameTrouble(mem, mem')
    BY <1>0, <1>1, LeaveTrouble DEF Aborted
  <2> QED BY <1>1, <2>1 DEF SameTrouble, Well, Pauses
<1>2. CASE Caught(n, mem)
  BY <1>0, <1>2, CaughtPauses DEF Pauses
<1>3. CASE Failed(n)
  <2> DEFINE f == [mem EXCEPT !.failed = @ \cup {n}]
  <2>1. f \in MemOf(inst) /\ n \in f.failed
    BY <1>0 DEF MemOf, Nodes
  <2>2. mem' = Leave(f, n)
    BY <1>3 DEF Failed
  <2> HIDE DEF f
  <2> QED BY <2>1, <2>2, LeaveTrouble DEF SameTrouble, Well, Pauses
<1>4. CASE Cancelled(n)
  <2> DEFINE f == [mem EXCEPT !.cancelled = @ \cup {n}]
  <2>1. f \in MemOf(inst) /\ n \in f.cancelled
    BY <1>0 DEF MemOf, Nodes
  <2>2. mem' = Leave(f, n)
    BY <1>4 DEF Cancelled
  <2> HIDE DEF f
  <2> QED BY <2>1, <2>2, LeaveTrouble DEF SameTrouble, Well, Pauses
<1>5. CASE Blocked(n, FALSE, "other")
  <2> DEFINE f == [mem EXCEPT !.blocked = @ \cup {n}, !.resumable = @,
                              !.nonResumable = @ \cup {n}]
  <2>1. f \in MemOf(inst) /\ n \in f.nonResumable
    BY <1>0 DEF MemOf, Nodes
  <2>2. mem' = Leave(f, n)
    BY <1>5 DEF Blocked
  <2> HIDE DEF f
  <2> QED BY <2>1, <2>2, LeaveTrouble DEF SameTrouble, Well, Pauses
<1>6. CASE Blocked(n, TRUE, "wait")
  <2> DEFINE f == [mem EXCEPT !.blocked = @ \cup {n}, !.resumable = @ \cup {n},
                              !.nonResumable = @]
  <2>1. f \in MemOf(inst) /\ SameTrouble(mem, f) /\ f.blocked = mem.blocked \cup {n}
    BY <1>0 DEF MemOf, Nodes, SameTrouble
  <2>2. /\ mem' = Leave(f, n) /\ attempts' = EndAttempt(n, "blocked", "wait")
        /\ Checkpoint(<<Snap("node.blocked", mem.blocked \cup {n})>>)
    BY <1>6 DEF Blocked
  <2> HIDE DEF f
  <2>3. SameTrouble(f, mem') /\ mem'.blocked = f.blocked
    BY <2>1, <2>2, LeaveTrouble
  <2> QED BY <2>1, <2>2, <2>3 DEF SameTrouble, Pauses, Parked
<1>7. CASE Capture(n)
  <2>1. mem' = [mem EXCEPT !.stage[n] = "capture"] /\ UNCHANGED <<attempts, ckpts>>
    BY <1>7 DEF Capture
  <2>2. /\ SameTrouble(mem, mem') /\ mem'.blocked = mem.blocked /\ mem'.number = mem.number
        /\ mem'.stage[n] = "capture"
    BY <1>0, <2>1 DEF SameTrouble, MemOf
  <2> QED BY <2>1, <2>2 DEF Pauses, Proceeds
<1> QED BY <1>1, <1>2, <1>3, <1>4, <1>5, <1>6, <1>7
        DEF LeafAnswered, RouterFails, GateAnswered, TaskAnswered

LEMMA WorkPauses ==
  ASSUME Typed, NEW n \in Nodes, Work(n)
  PROVE  Pauses(n)
<1>1. CaptureFailed(n) => Pauses(n)
  BY CaughtPauses DEF CaptureFailed, Pauses, Typed
<1> QED BY <1>1, PreparedPauses, AppliedPauses, AnsweredPauses DEF Work
-----------------------------------------------------------------------------
(* Each step of run().                                                      *)

LEMMA OneCheckpoint ==
  ASSUME ~inst.sameMillisecond, NEW a
  PROVE  /\ Checkpoint(<<a>>) => ckpts' = {a}
         /\ \A b : Checkpoint(<<a, b>>) => ckpts' = {b}
BY DEF Checkpoint

LEMMA NewlyTold ==
  ASSUME NEW operation, NEW S, ckpts' = {Snap(operation, S)},
         S = mem'.blocked \/ S = RowsWith("blocked")',
         operation \in PauseOperations \/ \E n \in Nodes' : Flying(n)'
  PROVE  \E c \in ckpts' : Told(c)'
<1> DEFINE c == Snap(operation, S)
<1>1. c.operation = operation /\ c.blocked = S
  BY DEF Snap
<1> HIDE DEF c, Flying, RowsWith
<1>2. Told(c)'
  BY <1>1 DEF Told, c
<1> QED BY <1>2 DEF c

LEMMA WorkPauseStep ==
  ASSUME IInv, Straight, Each, PauseInv, ~inst.sameMillisecond, NEW n \in Nodes, Work(n)
  PROVE  PauseInv'
<1>0. /\ Typed /\ n \in NodeIds /\ Under /\ run # NoRun
      /\ inst' = inst /\ run' = run /\ pc = "work" /\ pc' = "work" /\ RowsOfOne
  BY Facts, RunKept DEF IInv, Work, Under, PauseInv
<1>1. mem.stage[n] # "none" /\ Effect(n) /\ Pauses(n)
  BY <1>0, WorkEffect, WorkPauses
<1>2. /\ mem.number[n] = Len(attempts[n]) /\ attempts[n] # << >>
      /\ Preds(Edges, n) \subseteq Done(mem)
  <2>1. OwnRow(attempts[n], mem.number[n])
    BY <1>0, <1>1 DEF IInv, Flight, Following
  <2> QED BY <1>0, <1>1, <2>1, OwnIsLast DEF Each, Follows
<1>3. Done(mem') = Done(mem)
  BY <1>1 DEF Effect, Beside, Done
<1>4. \A q \in Nodes \ {n} : Flying(q) => Flying(q)' /\ mem'.number[q] = mem.number[q]
  BY <1>0, <1>1, Facts DEF Effect, Others, Flying, Following
<1>5. CASE Parked(n)
  <2>1. Writes(n, Len(attempts[n]), "blocked", "wait")
    BY <1>0, <1>2, <1>5, LastSet DEF Parked, AttemptStatuses, TerminalStatuses, Notes
  <2>2. \E c \in ckpts' : Told(c)'
    BY <1>5, OneCheckpoint, NewlyTold DEF Parked, PauseOperations
  <2>3. Well(mem') => Well(mem)
    BY <1>5, TroubleStays DEF Parked
  <2> QED BY <1>0, <1>2, <1>3, <1>4, <2>1, <2>2, <2>3, WriteKeeps
<1>6. CASE Proceeds(n)
  <2>1. Well(mem') => Well(mem)
    BY <1>6, TroubleStays DEF Proceeds
  <2>2. Flying(n) => Flying(n)'
    BY <1>0, <1>6 DEF Proceeds, Flying, Following
  <2> QED BY <1>0, <1>3, <1>4, <1>6, <2>1, <2>2, QuietKeeps DEF Proceeds
<1>7. CASE ~Well(mem')
  <2>1. CASE Drops(n)
    <3>1. PICK status \in {"failed", "cancelled"} : attempts' = EndAttempt(n, status, "other")
      BY <2>1 DEF Drops
    <3>2. status \in AttemptStatuses /\ "other" \in Notes /\ status # "blocked"
      BY DEF AttemptStatuses, TerminalStatuses, Notes
    <3>3. Writes(n, Len(attempts[n]), status, "other")
      BY <1>0, <1>2, <3>1, <3>2, LastSet
    <3> QED BY <1>0, <1>3, <1>7, <3>2, <3>3, WriteKeeps
  <2>2. CASE Parks(n)
    <3>1. PICK note \in Notes : attempts' = EndAttempt(n, "blocked", note)
      BY <2>2 DEF Parks
    <3>2. Writes(n, Len(attempts[n]), "blocked", note)
      BY <1>0, <1>2, <3>1, LastSet DEF AttemptStatuses, TerminalStatuses
    <3> QED BY <1>0, <1>2, <1>3, <1>7, <3>2, WriteKeeps
  <2>3. CASE GoesOn(n)
    BY <1>0, <1>3, <1>7, <2>3, QuietKeeps DEF GoesOn
  <2> QED BY <1>1, <2>1, <2>2, <2>3 DEF Effect
<1> QED BY <1>1, <1>5, <1>6, <1>7 DEF Pauses

LEMMA StartPauseStep ==
  ASSUME IInv, Straight, Each, PauseInv, ~inst.sameMillisecond, NEW n \in Nodes, StartNode(n)
  PROVE  PauseInv'
<1>0. /\ Typed /\ Places /\ mem \in MemOf(inst) /\ n \in NodeIds /\ Under /\ run # NoRun
      /\ inst' = inst /\ run' = run /\ pc = "start" /\ pc' \in {"start", "work"}
      /\ RowsOfOne /\ NoReady(attempts)
  BY Facts, RunKept DEF IInv, Typed, StartNode, AfterStart, Under, PauseInv, Straight
<1>1. mem.iteration = 1
  BY <1>0 DEF Places, Straight
<1>2. mem.stage[n] = "none" /\ Preds(Edges, n) \subseteq Done(mem)
  <2>1. mem.batch # {} /\ mem.batch \in SUBSET NodeIds
    BY <1>0, Facts DEF Places, StartNode, MemOf, Nodes
  <2>2. n \in mem.batch
    BY <2>1, FirstIn DEF StartNode
  <2> QED BY <1>0, <2>2 DEF Places, StartNode, Each, Follows
<1>3. /\ Started = [mem EXCEPT !.batch = @ \ {n}]
      /\ \A status : Take(n, status) = RecordAttempt(attempts, n, status, 1)
  BY <1>0, <1>1, TakeRecords DEF StartNode, Started
<1>4. "none" \in Notes /\ "slot" \in Notes /\ "resolution" \in Notes /\ "other" \in Notes
        /\ {"ready", "running", "skipped", "blocked", "failed"} \subseteq AttemptStatuses
  BY DEF Notes, AttemptStatuses, TerminalStatuses
<1>5. ~Flying(n)
  BY <1>2 DEF Flying
<1>6. CASE StartSkipped(n)
  <2>1. Writes(n, Len(attempts[n]) + 1, "skipped", "none")
    BY <1>0, <1>3, <1>4, <1>6, AddedAndEnded DEF StartSkipped
  <2>2. mem' = [[mem EXCEPT !.batch = @ \ {n}] EXCEPT !.skipped = @ \cup {n}]
    BY <1>3, <1>6 DEF StartSkipped
  <2>3. /\ SameTrouble(mem, mem') /\ mem'.blocked = mem.blocked /\ mem'.stage = mem.stage
        /\ mem'.number = mem.number /\ Done(mem) \subseteq Done(mem')
    BY <1>0, <2>2 DEF MemOf, SameTrouble, Done
  <2>4. \A q \in Nodes \ {n} : Flying(q) => Flying(q)' /\ mem'.number[q] = mem.number[q]
    BY <1>0, <2>3 DEF Flying, Following
  <2>5. \E c \in ckpts' : Told(c)'
    BY <1>6, <2>3, OneCheckpoint, NewlyTold DEF StartSkipped, PauseOperations
  <2> QED BY <1>0, <1>5, <2>1, <2>3, <2>4, <2>5, WriteKeeps, TroubleStays
<1>7. CASE StartUnresolved(n)
  <2>1. PICK note \in Notes :
          attempts' = EndLast(RecordAttempt(attempts, n, "running", 1), n, "blocked", note)
    BY <1>3, <1>4, <1>7 DEF StartUnresolved
  <2>2. Writes(n, Len(attempts[n]) + 1, "blocked", note)
    BY <1>0, <1>4, <2>1, AddedAndEnded
  <2>3. mem' = [[mem EXCEPT !.batch = @ \ {n}] EXCEPT
                  !.blocked = @ \cup {n}, !.nonResumable = @ \cup {n}]
    BY <1>3, <1>7 DEF StartUnresolved
  <2>4. ~Well(mem') /\ Done(mem') = Done(mem)
    BY <1>0, <2>3 DEF MemOf, Well, Done
  <2> QED BY <1>0, <1>2, <2>2, <2>4, WriteKeeps
<1>8. CASE StartRoleFailure(n)
  <2>1. attempts' = EndLast(RecordAttempt(attempts, n, "running", 1), n, "failed", "other")
    BY <1>1, <1>8 DEF StartRoleFailure
  <2>2. Writes(n, Len(attempts[n]) + 1, "failed", "other")
    BY <1>0, <1>4, <2>1, AddedAndEnded
  <2>3. mem' = [[mem EXCEPT !.batch = @ \ {n}] EXCEPT !.failed = @ \cup {n}]
    BY <1>3, <1>8 DEF StartRoleFailure
  <2>4. ~Well(mem') /\ Done(mem') = Done(mem)
    BY <1>0, <2>3 DEF MemOf, Well, Done
  <2> QED BY <1>0, <2>2, <2>4, WriteKeeps
<1>9. CASE StartRunning(n)
  <2>1. Writes(n, Len(attempts[n]) + 1, "running", "none")
    BY <1>0, <1>3, <1>4, <1>9, AddedLast DEF StartRunning
  <2> DEFINE s == IF n \in Writers THEN "prepare" ELSE "leaf"
             k == Len(attempts'[n])
  <2>2. mem' = [[mem EXCEPT !.batch = @ \ {n}] EXCEPT !.stage[n] = s, !.number[n] = k]
    BY <1>3, <1>9 DEF StartRunning
  <2>3. s # "none" /\ k = Len(attempts[n]) + 1
    BY <2>1 DEF Writes
  <2> HIDE DEF s, k
  <2>4. /\ SameTrouble(mem, mem') /\ mem'.blocked = mem.blocked
        /\ mem'.stage = [mem.stage EXCEPT ![n] = s]
        /\ mem'.number = [mem.number EXCEPT ![n] = k] /\ Done(mem') = Done(mem)
    BY <1>0, <2>2 DEF MemOf, SameTrouble, Done
  <2>5. /\ mem'.stage[n] = s /\ mem'.number[n] = k
        /\ \A q \in Nodes \ {n} : mem'.stage[q] = mem.stage[q] /\ mem'.number[q] = mem.number[q]
    BY <1>0, <2>4 DEF MemOf
  <2>6. /\ \A q \in Nodes \ {n} : Flying(q) => Flying(q)' /\ mem'.number[q] = mem.number[q]
        /\ Flying(n)'
    BY <1>0, <2>3, <2>5 DEF Flying, Following
  <2>7. \E c \in ckpts' : Told(c)'
    <3>1. ckpts' = {Snap("node.started", mem'.blocked)}
      BY <1>9, <2>4, OneCheckpoint DEF StartRunning
    <3>2. n \in Nodes'
      BY <1>0 DEF Nodes
    <3> HIDE DEF Flying
    <3> QED BY <2>6, <3>1, <3>2, NewlyTold
  <2> HIDE DEF Flying
  <2> QED BY <1>0, <1>5, <2>1, <2>3, <2>4, <2>5, <2>6, <2>7, WriteKeeps, TroubleStays
<1> QED BY <1>6, <1>7, <1>8, <1>9 DEF StartNode
LEMMA CompletionPauseStep ==
  ASSUME IInv, LoopFree, Straight, Each, PauseInv, ~inst.sameMillisecond, NEW n \in Nodes,
         Route(n) \/ Complete(n)
  PROVE  PauseInv'
<1>0. /\ Typed /\ mem \in MemOf(inst) /\ n \in NodeIds /\ Under /\ run # NoRun
      /\ inst' = inst /\ run' = run /\ pc = "work" /\ mem.stage[n] # "none" /\ RowsOfOne
  BY Facts, RunKept DEF IInv, Typed, Route, Complete, Under, PauseInv
<1>1. mem.number[n] = Len(attempts[n]) /\ attempts[n] # << >>
  <2>1. OwnRow(attempts[n], mem.number[n])
    BY <1>0 DEF IInv, Flight, Following
  <2> QED BY <1>0, <2>1, OwnIsLast
<1> DEFINE w == WithCompletion(n)
<1>2. /\ w \in MemOf(inst) /\ SameTrouble(mem, w) /\ w.blocked = mem.blocked
      /\ w.completed = mem.completed \cup {n} /\ w.skipped = mem.skipped
      /\ w.stage = mem.stage /\ w.number = mem.number
  <2>1. w \in MemOf(inst)
    <3>1. OwnRow(attempts[n], mem.number[n])
      BY <1>0 DEF IInv, Flight, Following
    <3> QED BY <1>0, <3>1, CompletedMem
  <2> QED BY <1>0, <2>1 DEF WithCompletion, MemOf, SameTrouble
<1>3. /\ \E edge : RecordCompletion(n, edge)
      /\ \/ /\ n \in Routers /\ pc' = "prune" /\ cur'.node = n
            /\ \E d : mem' = [w EXCEPT !.dead = d]
         \/ mem' = Leave(w, n) /\ pc' = "work"
  <2> HIDE DEF w
  <2>0. \A e \in Edges : ~e.isFeedback
    BY DEF LoopFree, Feedback
  <2>1. CASE Route(n)
    <3>1. PICK e \in Selectable(n) :
            /\ RecordCompletion(n, e.id)
            /\ IF e.isFeedback
               THEN mem' = WithCompletion(n) /\ Follow("feedback", n, e.id)
               ELSE /\ mem' = [WithCompletion(n) EXCEPT
                         !.dead = @ \cup {f.id : f \in Out(Forward(Edges), n) \ {e}}]
                    /\ Follow("prune", n, e.id)
      BY <2>1 DEF Route
    <3>2. e \in Edges
      BY <3>1 DEF Selectable, Out
    <3>3. /\ mem' = [w EXCEPT !.dead = @ \cup {f.id : f \in Out(Forward(Edges), n) \ {e}}]
          /\ Follow("prune", n, e.id)
      BY <2>0, <3>1, <3>2 DEF w
    <3>4. \E d : mem' = [w EXCEPT !.dead = d]
      BY <3>3
    <3> QED BY <2>1, <3>1, <3>3, <3>4 DEF Follow, Route
  <2>2. CASE Complete(n)
    <3>1. Out(Feedback(Edges), n) = {}
      BY DEF LoopFree, Out
    <3> QED BY <1>0, <2>2, <3>1 DEF Complete, w
  <2> QED BY <2>1, <2>2
<1>4. Writes(n, Len(attempts[n]), "completed", "none")
  BY <1>0, <1>1, <1>3, LastCompletes
<1>5. ckpts' = {Snap("node.completed", mem.blocked)}
  BY <1>3, OneCheckpoint DEF RecordCompletion
<1> HIDE DEF w
<1>6. /\ SameTrouble(w, mem') /\ mem'.blocked = w.blocked
      /\ Done(mem) \subseteq Done(mem')
      /\ \A q \in Nodes \ {n} : mem'.stage[q] = mem.stage[q] /\ mem'.number[q] = mem.number[q]
  <2>1. CASE \E d : mem' = [w EXCEPT !.dead = d]
    <3>1. PICK d : mem' = [w EXCEPT !.dead = d]
      BY <2>1
    <3> QED BY <1>2, <3>1 DEF MemOf, SameTrouble, Done
  <2>2. CASE mem' = Leave(w, n)
    <3>1. SameTrouble(w, mem') /\ mem'.blocked = w.blocked
      BY <1>2, <2>2, LeaveTrouble
    <3>2. mem'.completed = w.completed /\ mem'.skipped = w.skipped
          /\ \A q \in NodeIds \ {n} : mem'.stage[q] = w.stage[q] /\ mem'.number[q] = w.number[q]
      BY <1>2, <2>2 DEF Leave, MemOf
    <3> QED BY <1>0, <1>2, <3>1, <3>2, Facts DEF Done
  <2> QED BY <1>3, <2>1, <2>2
<1>7. Well(mem') => Well(mem)
  BY <1>2, <1>6, TroubleStays
<1>8. \A q \in Nodes \ {n} : Flying(q) => Flying(q)' /\ mem'.number[q] = mem.number[q]
  BY <1>3, <1>6 DEF Flying, Following
<1>9. \E c \in ckpts' : Told(c)'
  BY <1>2, <1>5, <1>6, NewlyTold DEF PauseOperations
<1>10. pc' \in {"work", "prune"} /\ (pc' = "prune" => cur'.node \in Routers \cap mem'.completed)
  BY <1>2, <1>3 DEF MemOf
<1> HIDE DEF Flying
<1> QED BY <1>0, <1>1, <1>4, <1>6, <1>7, <1>8, <1>9, <1>10, WriteKeeps

LEMMA PrunePauseStep ==
  ASSUME IInv, Straight, Each, PauseInv, ~inst.sameMillisecond, PruneNode \/ PruneEnd
  PROVE  PauseInv'
<1>0. /\ Typed /\ mem \in MemOf(inst) /\ Under /\ run # NoRun /\ pc = "prune"
      /\ inst' = inst /\ run' = run /\ cur.node \in Nodes /\ cur.back = "work"
      /\ cur.node \in Routers \cap mem.completed /\ Nodes \subseteq NodeIds
  BY Facts, RunKept DEF IInv, Typed, Places, PruneNode, PruneEnd, durable, Under, PauseInv
<1>1. CASE PruneNode
  <2> DEFINE n == First(Prunable)
  <2>1. n \in Prunable
    <3>1. Prunable \in SUBSET NodeIds /\ Prunable # {}
      BY <1>0, <1>1 DEF PruneNode, Prunable
    <3> QED BY <3>1, FirstIn
  <2>2. /\ attempts' = EndLast(RecordAttempt(attempts, n, "ready", 1), n, "skipped", "none")
        /\ mem' = [mem EXCEPT !.skipped = @ \cup {n}] /\ pc' = "prune" /\ cur' = cur
        /\ Checkpoint(<<Snap("node.skipped", mem.blocked)>>)
    BY <1>0, <1>1 DEF PruneNode
  <2> HIDE DEF n
  <2>3. n \in Nodes /\ n \in NodeIds /\ mem.stage[n] = "none"
    BY <1>0, <2>1 DEF Prunable, InFlight
  <2>4. Writes(n, Len(attempts[n]) + 1, "skipped", "none")
    BY <1>0, <2>2, <2>3, AddedAndEnded DEF AttemptStatuses, TerminalStatuses, Notes
  <2>5. /\ SameTrouble(mem, mem') /\ mem'.blocked = mem.blocked /\ mem'.stage = mem.stage
        /\ mem'.number = mem.number /\ Done(mem) \subseteq Done(mem')
    BY <1>0, <2>2 DEF MemOf, SameTrouble, Done
  <2>6. \A q \in Nodes \ {n} : Flying(q) => Flying(q)' /\ mem'.number[q] = mem.number[q]
    BY <1>0, <2>2, <2>5 DEF Flying, Following
  <2>7. \E c \in ckpts' : Told(c)'
    BY <2>2, <2>5, OneCheckpoint, NewlyTold DEF PauseOperations
  <2>8. ~Flying(n)
    BY <2>3 DEF Flying
  <2> DEFINE len == Len(attempts[n]) + 1
  <2> HIDE DEF Flying, len
  <2>9. Writes(n, len, "skipped", "none")
    BY <2>4 DEF len
  <2>10. Well(mem') = Well(mem)
    BY <2>5, TroubleStays
  <2>11. /\ pc' \notin {"idle", "starting", "ending"}
         /\ pc' = "prune" => cur'.node \in Routers \cap mem'.completed
    BY <1>0, <2>2 DEF MemOf
  <2> HIDE DEF Well, Told
  <2> QED BY <1>0, <2>3, <2>5, <2>6, <2>7, <2>8, <2>9, <2>10, <2>11, WriteKeeps
<1>2. CASE PruneEnd
  <2>1. mem' = Leave(mem, cur.node) /\ pc' = "work" /\ attempts' = attempts /\ ckpts' = ckpts
    BY <1>0, <1>2 DEF PruneEnd, durable
  <2>2. SameTrouble(mem, mem') /\ mem'.blocked = mem.blocked
    BY <1>0, <2>1, LeaveTrouble
  <2>3. /\ Done(mem) = Done(mem')
        /\ \A q \in NodeIds \ {cur.node} :
             mem'.stage[q] = mem.stage[q] /\ mem'.number[q] = mem.number[q]
    BY <1>0, <2>1 DEF Leave, MemOf, Done
  <2>4. ASSUME NEW q \in Nodes, Flying(q) PROVE Flying(q)' /\ mem'.number[q] = mem.number[q]
    <3>1. q # cur.node
      BY <1>0, <2>4 DEF Flying, Following
    <3> QED BY <1>0, <2>1, <2>3, <2>4, <3>1 DEF Flying, Following
  <2> HIDE DEF Flying
  <2> QED BY <1>0, <2>1, <2>2, <2>3, <2>4, QuietKeeps, TroubleStays
<1> QED BY <1>1, <1>2

\* What run() reported as waiting is all that is blocked: a node that is ready
\* is in the next batch.
LEMMA EndsBlocked ==
  ASSUME Typed, Straight, Each, PauseInv, Under, Well(mem),
         ~(/\ Accounted < Cardinality(Nodes)
           /\ ~mem.halted /\ ~mem.aborted /\ mem.cancelled = {}
           /\ Batch # {})
  PROVE  RowsWith("blocked") \subseteq mem.blocked
<1>0. mem \in MemOf(inst) /\ IsFiniteSet(Nodes)
  BY Facts DEF Typed
<1>1. /\ ~mem.halted /\ ~mem.aborted /\ mem.cancelled = {} /\ mem.failed = {}
      /\ mem.nonResumable = {}
  BY DEF Well
<1>2. SUFFICES ASSUME NEW n \in RowsWith("blocked"), n \notin mem.blocked PROVE FALSE
  OBVIOUS
<1>3. n \in Nodes /\ n \notin Done(mem)
  BY DEF RowsWith, Each, Agrees, Done, LatestStatus, Latest, Last
<1>4. n \in Candidates
  <2>1. Preds(Edges, n) \subseteq Done(mem)
    BY DEF PauseInv, BlockedBehindDone, IsDone
  <2> QED BY <1>1, <1>2, <1>3, <2>1 DEF Candidates, ReadyNodes, Done
<1>5. Batch # {}
  BY <1>4, BatchOf
<1>6. ~(Accounted < Cardinality(Nodes))
  BY <1>1, <1>5
<1> DEFINE C == mem.completed
           S == mem.skipped
           B == mem.blocked
<1>7. /\ C \in SUBSET Nodes /\ S \in SUBSET Nodes /\ B \in SUBSET Nodes
      /\ C \cap S = {} /\ (C \cup S) \cap B = {}
  <2>1. C \in SUBSET Nodes /\ S \in SUBSET Nodes /\ B \in SUBSET Nodes
    BY <1>0 DEF MemOf, Nodes
  <2>2. B \subseteq mem.resumable
    BY <1>1, <2>1 DEF Each, Agrees
  <2> QED BY <2>1, <2>2 DEF Each, Agrees
<1>8. Accounted = Cardinality(C) + Cardinality(S) + 0 + Cardinality(B) + 0
  BY <1>1, FS_EmptySet DEF Accounted
<1>9. n \notin C \cup S \cup B
  BY <1>2, <1>3 DEF Done
<1> HIDE DEF C, S, B
<1>10. IsFiniteSet(C) /\ IsFiniteSet(S) /\ IsFiniteSet(B) /\ IsFiniteSet(C \cup S)
  BY <1>0, <1>7, FS_Subset
<1>11. /\ Cardinality(C) \in Nat /\ Cardinality(S) \in Nat /\ Cardinality(B) \in Nat
       /\ Cardinality(Nodes) \in Nat /\ Cardinality({}) = 0
  BY <1>0, <1>10, FS_CardinalityType, FS_EmptySet
<1>12. Cardinality(C \cup S) = Cardinality(C) + Cardinality(S)
  <2>1. Cardinality(C \cup S) = Cardinality(C) + Cardinality(S) - Cardinality(C \cap S)
    BY <1>10, FS_Union
  <2>2. Cardinality(C \cap S) = 0
    BY <1>7, <1>11
  <2> QED BY <1>11, <2>1, <2>2
<1>13. Cardinality((C \cup S) \cup B) = Cardinality(C) + Cardinality(S) + Cardinality(B)
  <2>1. Cardinality((C \cup S) \cup B)
          = Cardinality(C \cup S) + Cardinality(B) - Cardinality((C \cup S) \cap B)
    BY <1>10, FS_Union
  <2>2. Cardinality((C \cup S) \cap B) = 0
    BY <1>7, <1>11
  <2> QED BY <1>11, <1>12, <2>1, <2>2
<1>14. (C \cup S) \cup B = Nodes
  <2>1. Cardinality((C \cup S) \cup B) >= Cardinality(Nodes)
    BY <1>6, <1>8, <1>11, <1>13
  <2>2. (C \cup S) \cup B \in SUBSET Nodes
    BY <1>7
  <2>3. Cardinality((C \cup S) \cup B) <= Cardinality(Nodes)
    BY <1>0, <2>2, FS_Subset
  <2>4. Cardinality((C \cup S) \cup B) \in Nat
    BY <1>11, <1>13
  <2>5. Cardinality((C \cup S) \cup B) = Cardinality(Nodes)
    BY <1>11, <2>1, <2>3, <2>4
  <2> QED BY <1>0, <2>2, <2>5, FS_Subset
<1> QED BY <1>3, <1>9, <1>14

LEMMA SchedPauseStep ==
  ASSUME IInv, Straight, Each, PauseInv, Sched
  PROVE  PauseInv'
<1>0. /\ Typed /\ mem \in MemOf(inst) /\ Under /\ run # NoRun /\ pc = "sched"
      /\ inst' = inst /\ run' = run /\ attempts' = attempts /\ ckpts' = ckpts
  BY RunKept DEF IInv, Typed, Sched, durable, Under, PauseInv
<1> DEFINE goes == /\ Accounted < Cardinality(Nodes)
                   /\ ~mem.halted /\ ~mem.aborted /\ mem.cancelled = {}
                   /\ Batch # {}
<1>1. CASE goes
  <2>1. pc' = "start" /\ mem' = [mem EXCEPT !.batch = Batch]
    BY <1>1 DEF Sched
  <2>2. /\ SameTrouble(mem, mem') /\ mem'.blocked = mem.blocked /\ mem'.stage = mem.stage
        /\ mem'.number = mem.number /\ Done(mem') = Done(mem)
    BY <1>0, <2>1 DEF MemOf, SameTrouble, Done
  <2>3. \A q \in Nodes : Flying(q) => Flying(q)' /\ mem'.number[q] = mem.number[q]
    BY <2>1, <2>2 DEF Flying, Following
  <2>4. Well(mem') = Well(mem)
    BY <2>2, TroubleStays
  <2> HIDE DEF Well, Flying
  <2> QED BY <1>0, <2>1, <2>2, <2>3, <2>4, QuietKeeps
<1>2. CASE ~goes
  <2>1. pc' = "ending" /\ mem' = mem
    BY <1>2 DEF Sched
  <2>2. /\ Under' /\ RowsWith("blocked")' = RowsWith("blocked")
        /\ \A n \in Nodes : Flying(n)' = Flying(n)
        /\ Nodes' = Nodes /\ Edges' = Edges
    BY <1>0, <2>1 DEF Under, RowsWith, Nodes, Edges, LatestStatus, Latest, Flying, Following
  <2>3. RowsOfOne' /\ BlockedBehindDone'
    BY <1>0, <2>1, <2>2 DEF PauseInv, RowsOfOne, BlockedBehindDone, IsDone
  <2>4. CalmWhileWell'
    <3> HIDE DEF Flying
    <3> QED BY <1>0, <2>1, <2>2 DEF PauseInv, CalmWhileWell, Calm, LatestStatus, Latest
  <2>5. ToldWhileWell'
    <3> SUFFICES ASSUME Well(mem'), mem'.blocked # {} PROVE \E c \in ckpts' : Told(c)'
      BY DEF ToldWhileWell
    <3>1. PICK c \in ckpts : Told(c)
      BY <1>0, <2>1 DEF PauseInv, ToldWhileWell
    <3> HIDE DEF Flying, RowsWith
    <3> QED BY <1>0, <2>1, <2>2, <3>1 DEF Told
  <2>6. Well(mem) => RowsWith("blocked") \subseteq mem.blocked
    BY <1>0, <1>2, EndsBlocked
  <2> HIDE DEF RowsWith, Well, Flying
  <2> QED BY <1>0, <2>1, <2>2, <2>3, <2>4, <2>5, <2>6
          DEF PauseInv, AllBlocked, PauseStands, CrashShows
<1> QED BY <1>1, <1>2

LEMMA QuietPauseSteps ==
  ASSUME IInv, LoopFree, Straight, PauseInv, CheckPending \/ BatchDone \/ Abort
  PROVE  PauseInv'
<1>0. /\ Typed /\ mem \in MemOf(inst) /\ Under /\ run # NoRun
      /\ inst' = inst /\ run' = run /\ attempts' = attempts /\ ckpts' = ckpts
      /\ pc \in {"hydrated", "work"}
  BY RunKept DEF IInv, Typed, CheckPending, BatchDone, Abort, durable, Under
<1>1. CASE CheckPending
  <2>1. PendingFeedback = {}
    BY DEF LoopFree, PendingFeedback
  <2>2. pc = "hydrated" /\ pc' = "sched" /\ mem' = mem
    BY <1>1, <2>1 DEF CheckPending
  <2>3. \A q \in Nodes : Flying(q) => Flying(q)' /\ mem'.number[q] = mem.number[q]
    BY <2>2 DEF Flying, Following
  <2> HIDE DEF Well, Flying
  <2> QED BY <1>0, <2>2, <2>3, QuietKeeps
<1>2. CASE BatchDone
  <2>1. pc = "work" /\ pc' = "sched" /\ mem' = mem
    BY <1>2 DEF BatchDone, Straight
  <2>2. \A q \in Nodes : Flying(q) => Flying(q)' /\ mem'.number[q] = mem.number[q]
    BY <2>1 DEF Flying, Following
  <2> HIDE DEF Well, Flying
  <2> QED BY <1>0, <2>1, <2>2, QuietKeeps
<1>3. CASE Abort
  <2>1. pc' = pc /\ mem' = [mem EXCEPT !.aborted = TRUE]
    BY <1>3 DEF Abort
  <2>2. ~Well(mem') /\ Done(mem') = Done(mem)
    BY <1>0, <2>1 DEF MemOf, Well, Done
  <2> QED BY <1>0, <2>1, <2>2, QuietKeeps
<1> QED BY <1>1, <1>2, <1>3

LEMMA SkipPauseStep ==
  ASSUME IInv, Straight, PauseInv, ~inst.sameMillisecond, NEW n \in Nodes, SkipNode(n)
  PROVE  PauseInv'
<1>0. /\ Typed /\ mem \in MemOf(inst) /\ n \in NodeIds /\ Nodes \subseteq NodeIds
      /\ run # NoRun /\ pc \in {"idle", "work"} /\ inst' = inst /\ run' = run /\ pc' = pc
      /\ mem' = mem /\ cur' = cur /\ seen' = seen
  BY Facts DEF IInv, Typed, SkipNode
<1>1. attempts[n] = << >> /\ mem.stage[n] = "none"
  BY SkipsUntouched
<1>2. Writes(n, Len(attempts[n]) + 1, "skipped", "none")
  BY <1>0, AddedAndEnded DEF SkipNode, AttemptStatuses, TerminalStatuses, Notes
<1>3. /\ LatestStatus(attempts, n)' = "skipped"
      /\ \A q \in NodeIds \ {n} : /\ attempts'[q] = attempts[q]
                                  /\ LatestStatus(attempts, q)' = LatestStatus(attempts, q)
      /\ LatestStatus(attempts, n) = "pending" /\ attempts'[n] # << >>
  <2>1. attempts'[n] # << >>
    BY <1>2 DEF Writes
  <2> QED BY <1>0, <1>1, <1>2, <2>1, WrittenStatus DEF LatestStatus
<1>4. RowsWith("blocked")' = RowsWith("blocked")
        /\ RowsWith("blocked") = {m \in Nodes : LatestStatus(attempts, m) = "blocked"}
  <2>1. \A q \in NodeIds : LatestStatus(attempts, q) = "blocked" => attempts[q] # << >>
    BY DEF LatestStatus
  <2>2. Nodes' = Nodes
    BY <1>0 DEF Nodes
  <2> QED BY <1>0, <1>3, <2>1, <2>2 DEF RowsWith
<1>5. ckpts' = {Snap("node.skipped", RowsWith("blocked"))}
  <2>1. Checkpoint(<<Snap("node.skipped", RowsWith("blocked"))>>)
    BY <1>4 DEF SkipNode
  <2> QED BY <2>1, OneCheckpoint
<1>6. CASE pc = "work"
  <2>1. \E c \in ckpts' : Told(c)'
    BY <1>4, <1>5, NewlyTold DEF PauseOperations
  <2>2. \A q \in Nodes \ {n} : Flying(q) => Flying(q)' /\ mem'.number[q] = mem.number[q]
    BY <1>0 DEF Flying, Following
  <2>3. ~Flying(n) /\ Under
    BY <1>1, <1>6 DEF Flying, Under
  <2>4. PauseInv /\ "skipped" \notin {"failed", "cancelled", "blocked", "running"}
          /\ "none" # "slot" /\ pc' = "work"
    BY <1>0, <1>6
  <2> DEFINE len == Len(attempts[n]) + 1
  <2>5. Writes(n, len, "skipped", "none")
    BY <1>2
  <2> HIDE DEF len, Well, Flying, Told
  <2> QED BY <1>0, <2>1, <2>2, <2>3, <2>4, <2>5, WriteKeeps
<1>7. CASE pc = "idle"
  <2>0. /\ ~Under /\ ~Under' /\ \A q \in Nodes : ~Flying(q) /\ ~Flying(q)'
    BY <1>0, <1>7, EmptyIs DEF Under, Flying, Straight
  <2>1. /\ DOMAIN attempts'[n] = {1} /\ attempts'[n][1].status = "skipped"
        /\ attempts'[n][1].iteration = 1
    BY <1>1, <1>2 DEF Writes
  <2>2. RowsOfOne'
    <3>1. \A q \in NodeIds : \A k \in DOMAIN attempts'[q] : attempts'[q][k].iteration = 1
      BY <1>3, <2>1 DEF PauseInv, RowsOfOne
    <3> QED BY <1>0, <3>1 DEF PauseInv, RowsOfOne
  <2>3. CalmWhileWell'
    <3> SUFFICES ASSUME Well(mem), run.status \in {"none", "running"}, NEW q \in Nodes
                 PROVE  Calm(q)'
      BY <1>0 DEF CalmWhileWell, Nodes
    <3>1. Calm(q)
      BY <1>7 DEF PauseInv, CalmWhileWell
    <3>2. CASE q = n
      <4> HIDE DEF Flying
      <4> QED BY <1>3, <2>1, <3>2 DEF Calm
    <3>3. CASE q # n
      <4>1. /\ attempts'[q] = attempts[q]
            /\ LatestStatus(attempts, q)' = LatestStatus(attempts, q)
            /\ Latest(attempts, q)' = Latest(attempts, q)
        BY <1>0, <1>3, <3>3 DEF Latest
      <4> HIDE DEF Flying
      <4> QED BY <2>0, <3>1, <4>1 DEF Calm
    <3> QED BY <3>2, <3>3
  <2>4. BlockedBehindDone'
    <3> SUFFICES ASSUME NEW q \in RowsWith("blocked"), NEW p \in Preds(Edges, q)
                 PROVE  LatestStatus(attempts, p)' \in {"completed", "skipped"}
      BY <1>0, <1>4, <2>0 DEF BlockedBehindDone, IsDone, Edges
    <3>1. LatestStatus(attempts, p) \in {"completed", "skipped"}
      BY <2>0 DEF PauseInv, BlockedBehindDone, IsDone
    <3>2. p \in NodeIds
      BY <1>0, Facts DEF Preds, In, Forward
    <3> QED BY <1>3, <3>1, <3>2
  <2>5. PauseStands'
    <3> SUFFICES ASSUME seen.answer = "running"
                 PROVE  run.status = "running"
                          /\ \E c \in ckpts' : ckpts' = {c} /\ LegitimatePause(c)'
      BY <1>0 DEF PauseStands
    <3>1. PICK c \in ckpts : run.status = "running" /\ LegitimatePause(c)
      BY <2>0 DEF PauseInv, PauseStands
    <3>2. CurrentBlocked = RowsWith("blocked") /\ CurrentBlocked' = RowsWith("blocked")
      <4>1. \A q \in NodeIds : attempts[q] # << >> => Latest(attempts, q).iteration = 1
        <5>1. ASSUME NEW q \in NodeIds, attempts[q] # << >>
              PROVE  Latest(attempts, q).iteration = 1
          <6>1. Len(attempts[q]) \in DOMAIN attempts[q]
            BY <1>0, <5>1, RowsAre DEF Typed
          <6> QED BY <6>1 DEF PauseInv, RowsOfOne, Latest
        <5> QED BY <5>1
      <4>2. run.iteration = 1
        BY <1>0 DEF Straight
      <4>3. \A q \in Nodes : LatestStatus(attempts, q) = "blocked" <=> q \in RowsWith("blocked")
        BY <1>4
      <4>4. CurrentBlocked = RowsWith("blocked")
        BY <1>0, <4>1, <4>2, <4>3 DEF CurrentBlocked, RowsWith
      <4>5. \A q \in Nodes \ {n} : Latest(attempts, q)' = Latest(attempts, q)
        BY <1>0, <1>3 DEF Latest
      <4>6. CurrentBlocked' = CurrentBlocked
        BY <1>0, <1>3, <4>5 DEF CurrentBlocked, Nodes
      <4> QED BY <4>4, <4>6
    <3>3. /\ NoneIn({"running", "failed", "cancelled"})'
          /\ \A q \in CurrentBlocked : Latest(attempts, q)'.note # "slot"
      <4>1. \A q \in Nodes : \A k \in DOMAIN attempts[q] :
              attempts[q][k].status \notin {"running", "failed", "cancelled"}
        BY <3>1 DEF LegitimatePause, NoneIn
      <4>2. NoneIn({"running", "failed", "cancelled"})'
        BY <1>0, <1>3, <2>1, <4>1 DEF NoneIn, Nodes
      <4>3. ASSUME NEW q \in CurrentBlocked PROVE Latest(attempts, q)'.note # "slot"
        <5>1. q \in NodeIds \ {n} /\ Latest(attempts, q).note # "slot"
          BY <1>0, <1>3, <3>1 DEF CurrentBlocked, LegitimatePause
        <5> QED BY <1>3, <5>1 DEF Latest
      <4> QED BY <4>2, <4>3
    <3>4. PICK d : ckpts' = {d} /\ d = Snap("node.skipped", RowsWith("blocked"))
      BY <1>5
    <3>5. d.blocked = RowsWith("blocked") /\ d.operation = "node.skipped"
      BY <3>4 DEF Snap
    <3> HIDE DEF RowsWith
    <3>6. CurrentBlocked # {}
      BY <3>1 DEF LegitimatePause
    <3>7. LegitimatePause(d)'
      <4>1. \E q \in Nodes' : attempts'[q] # << >>
        BY <1>0, <1>3 DEF Nodes
      <4>2. CurrentBlocked' = d.blocked /\ CurrentBlocked' # {}
        BY <3>2, <3>5, <3>6
      <4>3. \A q \in CurrentBlocked' : Latest(attempts, q)'.note # "slot"
        BY <3>2, <3>3
      <4> QED BY <3>3, <3>5, <4>1, <4>2, <4>3 DEF LegitimatePause, PauseOperations
    <3> QED BY <3>1, <3>4, <3>7
  <2> QED BY <1>0, <1>7, <2>0, <2>2, <2>3, <2>4, <2>5
          DEF PauseInv, ToldWhileWell, AllBlocked, CrashShows
<1> QED BY <1>0, <1>6, <1>7

-----------------------------------------------------------------------------
(* Calls of run(), its end, and the process's.                              *)

LEMMA StartRunPauses ==
  ASSUME IInv, PauseInv, StartRun
  PROVE  PauseInv'
<1>0. /\ Typed /\ EmptyMem \in MemOf(inst) /\ Nodes \subseteq NodeIds
      /\ run = NoRun /\ pc' = "sched" /\ inst' = inst /\ attempts' = attempts
      /\ run' = [status |-> "running", iteration |-> 1, finished |-> FALSE]
      /\ mem' = [EmptyMem EXCEPT !.iteration = 1]
  BY Facts, EmptyMemTyped DEF IInv, StartRun
<1>1. /\ run' # NoRun /\ run'.status = "running" /\ mem'.blocked = {} /\ Under'
  BY <1>0, EmptyIs DEF NoRun, MemOf, Under
<1>2. \A q \in NodeIds : attempts'[q] = << >> /\ LatestStatus(attempts, q)' = "pending"
  BY <1>0 DEF PauseInv, RowsOfOne, LatestStatus
<1>3. RowsOfOne'
  BY <1>0, <1>1, <1>2 DEF PauseInv, RowsOfOne
<1>4. CalmWhileWell'
  <2> HIDE DEF Flying
  <2> QED BY <1>0, <1>2 DEF CalmWhileWell, Calm, Nodes
<1>5. RowsWith("blocked")' = {}
  BY <1>0, <1>2 DEF RowsWith, Nodes
<1>6. BlockedBehindDone'
  BY <1>5 DEF BlockedBehindDone
<1> QED BY <1>0, <1>1, <1>3, <1>4, <1>6
        DEF PauseInv, ToldWhileWell, AllBlocked, PauseStands, CrashShows

\* While no run() is under way nothing is in flight.
LEMMA AtRest ==
  ASSUME IInv, Straight, ~Under
  PROVE  mem = EmptyMem /\ Well(mem) /\ \A n \in Nodes : ~Flying(n)
<1>1. mem = EmptyMem
  BY DEF Straight
<1>2. Well(EmptyMem)
  BY DEF EmptyMem, Well
<1> QED BY <1>1, <1>2, Facts, EmptyIs DEF Flying, IInv

LEMMA ResumePauses ==
  ASSUME IInv, Straight, PauseInv, Resume
  PROVE  PauseInv'
<1>1. PICK resume : Reopen({}, resume)
  BY DEF Resume
<1>2. /\ Typed /\ pc = "idle" /\ pc' = "hydrated" /\ inst' = inst /\ attempts' = attempts
      /\ run # NoRun /\ run \in RunRows /\ run.iteration = 1 /\ ~Under /\ Under'
      /\ run' = [run EXCEPT !.status = "running"] /\ mem' = Hydrated({}, resume)
      /\ EmptyMem \in MemOf(inst) /\ Nodes \subseteq NodeIds /\ cur' = cur
  BY <1>1, Facts, EmptyMemTyped DEF IInv, Typed, Reopen, Resume, Straight, Under
<1>3. run.status = "running" /\ run'.status = "running" /\ run' # NoRun
  <2>1. run.status \in RunStatuses /\ "none" \notin RunStatuses
    BY <1>2 DEF RunRows, RunStatuses
  <2>2. ~(run.status \in TerminalRun /\ run.finished)
    BY <1>1 DEF Reopen
  <2>3. run'.status = "running"
    BY <1>2 DEF RunRows
  <2> QED BY <2>1, <2>2, <2>3 DEF PauseInv, RowsOfOne, TerminalRun, NoRun
<1>4. \A q \in NodeIds : attempts[q] # << >> => Latest(attempts, q).iteration = 1
  <2>1. ASSUME NEW q \in NodeIds, attempts[q] # << >>
        PROVE  Latest(attempts, q).iteration = 1
    <3>1. Len(attempts[q]) \in DOMAIN attempts[q]
      BY <1>2, <2>1, RowsAre DEF Typed
    <3> QED BY <3>1 DEF PauseInv, RowsOfOne, Latest
  <2> QED BY <2>1
<1>5. \E f, b, l :
        mem' = [EmptyMem EXCEPT !.iteration = run.iteration, !.patch = RestoredPatch,
                                !.completed = RowsWith("completed"),
                                !.skipped = RowsWith("skipped"), !.failed = f, !.blocked = b,
                                !.nonResumable = b, !.lineage = l]
  <2> DEFINE
        known(n) == /\ attempts[n] # << >>
                    /\ n \notin {}
                    /\ ~(n \in ActiveBody /\ Latest(attempts, n).iteration < run.iteration)
        with(status) == {n \in Nodes : known(n) /\ LatestStatus(attempts, n) = status}
        unblocked(n) == \/ n \in resume
                        \/ /\ ~run.finished
                           /\ n \in Gates \/ Latest(attempts, n).note # "slot"
        stuck == {n \in with("blocked") : ~unblocked(n)}
  <2>1. with("completed") = RowsWith("completed") /\ with("skipped") = RowsWith("skipped")
    BY <1>2, <1>4 DEF RowsWith
  <2>2. mem' = [EmptyMem EXCEPT
                  !.iteration = run.iteration, !.patch = RestoredPatch,
                  !.completed = with("completed"), !.skipped = with("skipped"),
                  !.failed = with("failed"), !.blocked = stuck, !.nonResumable = stuck,
                  !.lineage = [n \in NodeIds |->
                                 IF n \in with("completed") THEN Len(attempts[n]) ELSE 0]]
    BY <1>2 DEF Hydrated, LineageOf
  <2> HIDE DEF with, stuck
  <2> QED BY <2>1, <2>2
<1>6. /\ mem'.completed = RowsWith("completed") /\ mem'.skipped = RowsWith("skipped")
      /\ mem'.blocked = mem'.nonResumable /\ mem'.stage = EmptyMem.stage
  <2>0. EmptyMem \in MemOf(inst)
    BY <1>2
  <2> HIDE DEF RowsWith
  <2>1. PICK c, s, f, b, l :
        /\ mem' = [EmptyMem EXCEPT !.iteration = run.iteration, !.patch = RestoredPatch,
                                   !.completed = c, !.skipped = s, !.failed = f, !.blocked = b,
                                   !.nonResumable = b, !.lineage = l]
        /\ c = RowsWith("completed") /\ s = RowsWith("skipped")
    BY <1>5, Zenon
  <2>2. /\ mem'.completed = c /\ mem'.skipped = s /\ mem'.blocked = b
        /\ mem'.nonResumable = b /\ mem'.stage = EmptyMem.stage
    BY <2>0, <2>1 DEF MemOf
  <2> QED BY <2>1, <2>2
<1>7. Well(mem') => mem'.blocked = {}
  BY <1>6 DEF Well
<1>8. RowsOfOne'
  BY <1>2, <1>3 DEF PauseInv, RowsOfOne
<1>9. CalmWhileWell'
  <2> SUFFICES ASSUME NEW q \in Nodes PROVE Calm(q)'
    BY <1>2 DEF CalmWhileWell, Nodes
  <2>1. Calm(q) /\ ~Flying(q)
    BY <1>2, <1>3, AtRest DEF PauseInv, CalmWhileWell
  <2> HIDE DEF Flying
  <2> QED BY <1>2, <2>1 DEF Calm, LatestStatus, Latest
<1>10. BlockedBehindDone'
  <2> SUFFICES ASSUME NEW q \in RowsWith("blocked"), NEW p \in Preds(Edges, q)
               PROVE  p \in Done(mem')
    BY <1>2 DEF BlockedBehindDone, IsDone, Edges, RowsWith, Nodes, LatestStatus, Latest
  <2>1. LatestStatus(attempts, p) \in {"completed", "skipped"}
    BY <1>2 DEF PauseInv, BlockedBehindDone, IsDone
  <2>2. p \in Nodes /\ attempts[p] # << >>
    BY <1>2, <2>1, Facts DEF Preds, In, Forward, LatestStatus
  <2> QED BY <1>6, <2>1, <2>2 DEF RowsWith, Done
<1> HIDE DEF Well, Told
<1> QED BY <1>2, <1>7, <1>8, <1>9, <1>10
        DEF PauseInv, ToldWhileWell, AllBlocked, PauseStands, CrashShows

\* Once run() is over, the rows tell what it held as done.
LEMMA DoneInRows ==
  ASSUME IInv, Each, BlockedBehindDone, Under, ~Under', inst' = inst, attempts' = attempts
  PROVE  BlockedBehindDone'
<1> SUFFICES ASSUME NEW q \in RowsWith("blocked"), NEW p \in Preds(Edges, q)
             PROVE  LatestStatus(attempts, p) \in {"completed", "skipped"}
  BY DEF BlockedBehindDone, IsDone, Edges, RowsWith, Nodes, LatestStatus, Latest
<1>1. p \in Done(mem)
  BY DEF BlockedBehindDone, IsDone
<1>2. p \in Nodes
  BY Facts DEF IInv, Preds, In, Forward
<1> QED BY <1>1, <1>2 DEF Each, Agrees, Done, LatestStatus, Latest, Last

\* All rows belong to the first iteration, so that what recovery takes for
\* blocked is what is blocked.
LEMMA BlockedNow ==
  ASSUME IInv, Straight, RowsOfOne, run # NoRun
  PROVE  CurrentBlocked = RowsWith("blocked")
<1>1. \A q \in NodeIds : attempts[q] # << >> => Latest(attempts, q).iteration = 1
  <2>1. ASSUME NEW q \in NodeIds, attempts[q] # << >>
        PROVE  Latest(attempts, q).iteration = 1
    <3>1. Len(attempts[q]) \in DOMAIN attempts[q]
      BY <2>1, RowsAre DEF IInv, Typed
    <3> QED BY <3>1 DEF RowsOfOne, Latest
  <2> QED BY <2>1
<1>2. run.iteration = 1
  BY DEF Straight
<1>3. \A q \in NodeIds : LatestStatus(attempts, q) = "blocked" => attempts[q] # << >>
  BY DEF LatestStatus
<1> QED BY <1>1, <1>2, <1>3, Facts DEF IInv, CurrentBlocked, RowsWith

LEMMA EndingPauses ==
  ASSUME IInv, Straight, Each, PauseInv, Ending
  PROVE  PauseInv'
<1>0. /\ Typed /\ mem \in MemOf(inst) /\ Nodes \subseteq NodeIds /\ pc = "ending" /\ pc' = "idle"
      /\ mem' = EmptyMem /\ inst' = inst /\ attempts' = attempts /\ ckpts' = ckpts
      /\ run # NoRun /\ run \in RunRows /\ run.status = "running" /\ Under /\ ~Under'
      /\ seen'.answer = Outcome
  <2>1. run # NoRun /\ run \in RunRows /\ run.status = "running"
    BY RunKept DEF Ending, Under
  <2>2. seen'.answer = Outcome
    BY DEF Ending, Return
  <2> QED BY <2>1, <2>2, Facts DEF IInv, Typed, Ending, Return, Under
<1>1. \/ Outcome = "running" /\ run' = run
      \/ /\ Outcome \notin {"running", "none"} /\ run'.status = Outcome /\ run'.finished
         /\ run' # NoRun
  <2>1. CASE Outcome = "cancelled"
    <3>1. run' = [run EXCEPT !.status = Outcome, !.finished = TRUE]
      BY <2>1 DEF Ending, HandleCancellation, Finish
    <3> QED BY <1>0, <2>1, <3>1 DEF RunRows, NoRun
  <2>2. CASE Outcome = "running"
    BY <2>2 DEF Ending
  <2>3. CASE Outcome \notin {"cancelled", "running"}
    <3>1. run' = [run EXCEPT !.status = Outcome, !.finished = TRUE]
      BY <2>3 DEF Ending, Finish
    <3>2. Outcome # "none"
      BY DEF Outcome
    <3> QED BY <1>0, <2>3, <3>1, <3>2 DEF RunRows, NoRun
  <2> QED BY <2>1, <2>2, <2>3
<1>2. RowsOfOne'
  BY <1>0, <1>1 DEF PauseInv, RowsOfOne
<1>3. BlockedBehindDone'
  BY <1>0, DoneInRows DEF PauseInv
<1>4. \A q \in Nodes : ~Flying(q)
  BY <1>0 DEF IInv, Places, Quiet, Flying
<1>5. ASSUME Outcome = "running"
      PROVE  Well(mem) /\ mem.resumable # {}
  BY <1>5 DEF Outcome, Well
<1>6. CASE Outcome # "running"
  <2>1. CalmWhileWell'
    BY <1>1, <1>6 DEF CalmWhileWell
  <2>2. PauseStands'
    BY <1>0, <1>6 DEF PauseStands
  <2> QED BY <1>0, <1>2, <1>3, <2>1, <2>2 DEF PauseInv, ToldWhileWell, AllBlocked, CrashShows
<1>7. CASE Outcome = "running"
  <2>0. /\ run' = run /\ Well(mem) /\ mem.resumable # {}
        /\ \A q \in Nodes : Calm(q)
    BY <1>0, <1>1, <1>5, <1>7 DEF PauseInv, CalmWhileWell
  <2>1. CalmWhileWell'
    <3> SUFFICES ASSUME NEW q \in Nodes PROVE Calm(q)'
      BY <1>0 DEF CalmWhileWell, Nodes
    <3> HIDE DEF Flying
    <3> QED BY <1>0, <1>4, <2>0 DEF Calm, LatestStatus, Latest
  <2>2. CurrentBlocked = RowsWith("blocked")
    BY <1>0, BlockedNow DEF PauseInv
  <2>3. RowsWith("blocked") = mem.blocked /\ mem.blocked # {}
    <3>1. RowsWith("blocked") \subseteq mem.blocked
      BY <1>0, <2>0 DEF PauseInv, AllBlocked
    <3>2. mem.resumable \subseteq Nodes /\ mem.blocked \subseteq Nodes
      BY <1>0 DEF MemOf, Nodes
    <3>3. mem.nonResumable = {}
      BY <2>0 DEF Well
    <3>4. mem.blocked \subseteq RowsWith("blocked") /\ mem.resumable \subseteq mem.blocked
      BY <3>2, <3>3 DEF Each, Agrees, RowsWith, LatestStatus, Latest, Last
    <3> QED BY <2>0, <3>1, <3>4
  <2>4. PICK c \in ckpts : Told(c)
    BY <1>0, <2>0, <2>3 DEF PauseInv, ToldWhileWell
  <2>5. ckpts = {c} /\ c.blocked = RowsWith("blocked") /\ c.operation \in PauseOperations
    <3> HIDE DEF Flying, RowsWith
    <3> QED BY <1>4, <2>3, <2>4 DEF Told
  <2>6. NoneIn({"running", "failed", "cancelled"})
    <3> HIDE DEF Flying
    <3> QED BY <1>4, <2>0 DEF Calm, NoneIn
  <2>7. \A q \in CurrentBlocked : Latest(attempts, q).note # "slot"
    BY <2>0 DEF Calm, CurrentBlocked
  <2>8. \E q \in Nodes : attempts[q] # << >>
    BY <2>3 DEF RowsWith
  <2>9. LegitimatePause(c)
    <3> HIDE DEF RowsWith
    <3> QED BY <2>2, <2>3, <2>5, <2>6, <2>7, <2>8 DEF LegitimatePause
  <2>10. LegitimatePause(c)'
    <3>1. CurrentBlocked' = CurrentBlocked /\ Nodes' = Nodes
      BY <1>0, <2>0 DEF CurrentBlocked, Nodes
    <3> QED BY <1>0, <2>0, <2>9, <3>1 DEF LegitimatePause, NoneIn
  <2>11. PauseStands'
    BY <1>0, <2>0, <2>5, <2>10 DEF PauseStands
  <2> QED BY <1>0, <1>2, <1>3, <2>1, <2>11 DEF PauseInv, ToldWhileWell, AllBlocked, CrashShows
<1> QED BY <1>6, <1>7

LEMMA CrashPauses ==
  ASSUME IInv, LoopInv, Straight, Each, PauseInv, Crash
  PROVE  PauseInv'
<1>0. /\ Typed /\ Nodes \subseteq NodeIds /\ pc # "starting" /\ pc' = "starting"
      /\ mem' = EmptyMem /\ inst' = inst /\ attempts' = attempts /\ ckpts' = ckpts
      /\ run' = run /\ ~Under' /\ seen'.crashed = InFlight /\ seen'.answer = seen.answer
  <2>1. seen'.crashed = InFlight /\ seen'.answer = seen.answer
    BY DEF Crash, LoopInv, SeenFields
  <2> QED BY <2>1, Facts DEF IInv, Crash, durable, Under
<1>1. RowsOfOne'
  BY <1>0 DEF PauseInv, RowsOfOne
<1>2. BlockedBehindDone'
  <2>1. CASE Under
    BY <1>0, <2>1, DoneInRows DEF PauseInv
  <2>2. CASE ~Under
    BY <1>0, <2>2 DEF PauseInv, BlockedBehindDone, IsDone, RowsWith, Nodes, Edges, LatestStatus,
                      Latest
  <2> QED BY <2>1, <2>2
<1>3. PauseStands'
  <2>1. ASSUME seen'.answer = "running" PROVE ~Under
    BY <1>0, <2>1 DEF LoopInv
  <2>2. ASSUME NEW c PROVE LegitimatePause(c)' = LegitimatePause(c)
    <3>1. CurrentBlocked' = CurrentBlocked /\ Nodes' = Nodes
      BY <1>0 DEF CurrentBlocked, Nodes
    <3> QED BY <1>0, <3>1 DEF LegitimatePause, NoneIn
  <2> QED BY <1>0, <2>1, <2>2 DEF PauseInv, PauseStands
<1>4. CrashShows'
  <2> SUFFICES ASSUME NEW n \in InFlight,
                      n \notin Routers \/ LatestStatus(attempts, n) # "completed"
               PROVE  ~NoneIn({"running"})
    BY <1>0 DEF CrashShows, Unseen, Routers, NoneIn, Nodes, LatestStatus, Latest
  <2>1. n \in Nodes /\ n \in NodeIds /\ mem.stage[n] # "none" /\ ~Following(n)
    <3>1. n \in Nodes /\ n \in NodeIds /\ mem.stage[n] # "none"
      BY <1>0 DEF InFlight
    <3>2. n \in mem.completed => LatestStatus(attempts, n) = "completed"
      BY <3>1 DEF Each, Agrees, LatestStatus, Latest, Last
    <3> QED BY <3>1, <3>2 DEF Following, Straight, PauseInv
  <2>2. OwnRow(attempts[n], mem.number[n])
    BY <2>1 DEF IInv, Flight
  <2> QED BY <2>1, <2>2 DEF OwnRow, Straight, NoReady, NoneIn
<1> QED BY <1>0, <1>1, <1>2, <1>3, <1>4
        DEF PauseInv, CalmWhileWell, ToldWhileWell, AllBlocked

\* recover() takes for a pause what run() reported as one, and nothing in which a
\* node that is not a router was in flight.
LEMMA RecoverTells ==
  ASSUME IInv, Results, PauseInv, left.reruns = inst.reruns, Recover
  PROVE  /\ seen.answer = "running" => run' = run /\ attempts' = attempts
         /\ run.status = "running" /\ run' = run /\ attempts' = attempts =>
              /\ \E c \in ckpts : LegitimatePause(c)
              /\ Unseen
         /\ \/ run' = run /\ attempts' = attempts
            \/ /\ run \in RunRows /\ run # NoRun /\ attempts' = FailRunning
               /\ run' = [run EXCEPT !.status = "failed", !.finished = TRUE]
<1>0. pc = "starting" /\ ~Under /\ (run = NoRun \/ run \in RunRows)
  BY DEF Recover, Under, IInv, Typed
<1>1. CASE /\ Interrupted
           /\ ckpts = {} \/ \E c \in ckpts : ~LegitimatePause(c)
           /\ attempts' = FailRunning
           /\ Finish("failed")
  <2>1. seen.answer # "running"
    BY <1>0, <1>1 DEF PauseInv, PauseStands
  <2>2. run \in RunRows /\ run # NoRun /\ run.status = "running"
    BY <1>0, <1>1 DEF Interrupted, NoRun
  <2>3. run' = [run EXCEPT !.status = "failed", !.finished = TRUE] /\ run'.status = "failed"
    BY <1>1, <2>2 DEF Finish, RunRows
  <2> QED BY <1>1, <2>1, <2>2, <2>3
<1>2. CASE /\ ~Interrupted \/ \E c \in ckpts : LegitimatePause(c)
           /\ UNCHANGED <<run, attempts>>
  <2>1. ASSUME run.status = "running"
        PROVE  (\E c \in ckpts : LegitimatePause(c)) /\ Unseen
    <3>1. Interrupted
      BY <2>1 DEF Interrupted, Results
    <3>2. PICK c \in ckpts : LegitimatePause(c)
      BY <1>2, <3>1
    <3>3. NoneIn({"running"})
      BY <3>2 DEF LegitimatePause, NoneIn
    <3> QED BY <1>0, <3>2, <3>3 DEF PauseInv, CrashShows
  <2> QED BY <1>2, <2>1
<1> QED BY <1>1, <1>2 DEF Recover

LEMMA RecoverPauses ==
  ASSUME IInv, Straight, Results, PauseInv, left.reruns = inst.reruns, Recover
  PROVE  PauseInv'
<1>0. /\ Typed /\ Nodes \subseteq NodeIds /\ pc' = "idle" /\ inst' = inst /\ mem' = mem
      /\ ckpts' = ckpts /\ seen' = seen /\ ~Under /\ ~Under'
  BY Facts DEF IInv, Recover, Under
<1>1. /\ seen.answer = "running" => run' = run /\ attempts' = attempts
      /\ run.status = "running" /\ run' = run /\ attempts' = attempts =>
           \E c \in ckpts : LegitimatePause(c)
  BY RecoverTells
<1>2. CASE run' = run /\ attempts' = attempts
  <2>1. RowsOfOne' /\ BlockedBehindDone'
    BY <1>0, <1>2 DEF PauseInv, RowsOfOne, BlockedBehindDone, IsDone, RowsWith, Nodes, Edges,
                      LatestStatus, Latest
  <2>2. CalmWhileWell'
    <3> SUFFICES ASSUME run.status \in {"none", "running"}, NEW q \in Nodes PROVE Calm(q)'
      BY <1>0, <1>2 DEF CalmWhileWell, Nodes
    <3>1. CASE run.status = "none"
      <4>1. run = NoRun
        BY <3>1 DEF IInv, Typed, RunRows, RunStatuses
      <4>2. attempts'[q] = << >>
        BY <1>0, <1>2, <4>1 DEF PauseInv, RowsOfOne
      <4> HIDE DEF Flying
      <4> QED BY <4>2 DEF Calm, LatestStatus
    <3>2. CASE run.status = "running"
      <4>1. PICK c \in ckpts : LegitimatePause(c)
        BY <1>1, <1>2, <3>2
      <4>2. /\ NoneIn({"running", "failed", "cancelled"})
            /\ \A p \in CurrentBlocked : Latest(attempts, p).note # "slot"
        BY <4>1 DEF LegitimatePause
      <4>3. CurrentBlocked = RowsWith("blocked")
        BY <3>2, BlockedNow DEF PauseInv, NoRun
      <4>4. LatestStatus(attempts, q) = "blocked" => q \in CurrentBlocked
        BY <4>3 DEF RowsWith, LatestStatus
      <4> HIDE DEF Flying, CurrentBlocked
      <4> QED BY <1>2, <4>2, <4>4 DEF Calm, NoneIn, LatestStatus, Latest
    <3> QED BY <3>1, <3>2
  <2>3. PauseStands'
    <3>1. ASSUME NEW c PROVE LegitimatePause(c)' = LegitimatePause(c)
      <4>1. CurrentBlocked' = CurrentBlocked /\ Nodes' = Nodes
        BY <1>0, <1>2 DEF CurrentBlocked, Nodes
      <4> QED BY <1>0, <1>2, <4>1 DEF LegitimatePause, NoneIn
    <3> QED BY <1>0, <1>2, <3>1 DEF PauseInv, PauseStands
  <2> QED BY <1>0, <2>1, <2>2, <2>3 DEF PauseInv, ToldWhileWell, AllBlocked, CrashShows
<1>3. CASE /\ run \in RunRows /\ run # NoRun /\ attempts' = FailRunning
           /\ run' = [run EXCEPT !.status = "failed", !.finished = TRUE]
           /\ seen.answer # "running"
  <2>1. run'.status = "failed" /\ run'.finished /\ run' # NoRun
    BY <1>3 DEF RunRows, NoRun
  <2>2. ASSUME NEW q \in NodeIds
        PROVE  /\ DOMAIN attempts'[q] = DOMAIN attempts[q]
               /\ \A k \in DOMAIN attempts[q] :
                    /\ attempts'[q][k].iteration = attempts[q][k].iteration
                    /\ attempts'[q][k].status # attempts[q][k].status =>
                         attempts[q][k].status = "running" /\ attempts'[q][k].status = "failed"
    <3>1. /\ DOMAIN attempts'[q] = DOMAIN attempts[q]
          /\ \A k \in DOMAIN attempts[q] : attempts[q][k] \in RowOf(inst)
      <4>1. attempts[q] \in Seq(RowOf(inst))
        BY <1>0, RowsAre DEF Typed
      <4>2. \A k \in DOMAIN attempts[q] : attempts[q][k] \in RowOf(inst)
        <5> HIDE DEF RowOf
        <5> QED BY <4>1
      <4>3. DOMAIN attempts'[q] = DOMAIN attempts[q]
        BY <1>3 DEF FailRunning
      <4> QED BY <4>2, <4>3
    <3>2. ASSUME NEW k \in DOMAIN attempts[q]
          PROVE  /\ attempts'[q][k].iteration = attempts[q][k].iteration
                 /\ attempts'[q][k].status # attempts[q][k].status =>
                      attempts[q][k].status = "running" /\ attempts'[q][k].status = "failed"
      <4>1. attempts'[q][k] = IF attempts[q][k].status = "running"
                              THEN [attempts[q][k] EXCEPT !.status = "failed",
                                                          !.note = "other"]
                              ELSE attempts[q][k]
        BY <1>3 DEF FailRunning
      <4> QED BY <3>1, <4>1 DEF RowOf
    <3> QED BY <3>1, <3>2
  <2>3. RowsOfOne'
    BY <2>1, <2>2 DEF PauseInv, RowsOfOne
  <2>4. ASSUME NEW q \in NodeIds
        PROVE  \/ LatestStatus(attempts, q)' = LatestStatus(attempts, q)
               \/ /\ LatestStatus(attempts, q) = "running"
                  /\ LatestStatus(attempts, q)' = "failed"
    <3>1. /\ attempts[q] \in Seq(RowOf(inst)) /\ DOMAIN attempts[q] = 1 .. Len(attempts[q])
          /\ Len(attempts[q]) \in Nat
          /\ attempts[q] # << >> => Len(attempts[q]) \in DOMAIN attempts[q]
      BY <1>0, RowsAre DEF Typed
    <3>2. attempts' \in TablesOf(inst)
      BY <1>0, <1>3, FailRunningRows DEF IInv
    <3>3. /\ attempts'[q] \in Seq(RowOf(inst)) /\ DOMAIN attempts'[q] = 1 .. Len(attempts'[q])
          /\ Len(attempts'[q]) \in Nat
      BY <3>2, RowsAre
    <3>4. Len(attempts'[q]) = Len(attempts[q])
      BY <2>2, <3>1, <3>3, SameLength
    <3>5. (attempts'[q] = << >>) = (attempts[q] = << >>)
      BY <3>1, <3>3, <3>4
    <3> QED BY <2>2, <3>1, <3>4, <3>5 DEF LatestStatus, Latest
  <2>5. BlockedBehindDone'
    <3> SUFFICES ASSUME NEW q \in RowsWith("blocked")', NEW p \in Preds(Edges, q)
                 PROVE  LatestStatus(attempts, p)' \in {"completed", "skipped"}
      BY <1>0 DEF BlockedBehindDone, IsDone, Edges
    <3>1. q \in RowsWith("blocked")
      BY <1>0, <2>4 DEF RowsWith, Nodes, LatestStatus
    <3>2. LatestStatus(attempts, p) \in {"completed", "skipped"}
      BY <1>0, <3>1 DEF PauseInv, BlockedBehindDone, IsDone
    <3>3. p \in NodeIds
      BY <1>0, Facts DEF Preds, In, Forward
    <3> QED BY <2>4, <3>2, <3>3
  <2> QED BY <1>0, <1>3, <2>1, <2>3, <2>5
          DEF PauseInv, CalmWhileWell, ToldWhileWell, AllBlocked, PauseStands, CrashShows
<1> QED BY <1>1, <1>2, <1>3, RecoverTells

LEMMA NothingPauses ==
  ASSUME IInv, PauseInv, UNCHANGED <<inst, run, attempts, ckpts, pc, mem, cur, seen>>
  PROVE  PauseInv'
<1>1. /\ Under' = Under /\ Nodes' = Nodes /\ Edges' = Edges /\ Routers' = Routers
      /\ RowsWith("blocked")' = RowsWith("blocked") /\ CurrentBlocked' = CurrentBlocked
      /\ \A n : Flying(n)' = Flying(n)
      /\ \A n : LatestStatus(attempts, n)' = LatestStatus(attempts, n)
      /\ \A n : Latest(attempts, n)' = Latest(attempts, n)
  BY DEF Under, Nodes, Edges, Routers, RowsWith, CurrentBlocked, Flying, Following, LatestStatus,
         Latest
<1> HIDE DEF Under, Nodes, Edges, Routers, RowsWith, CurrentBlocked, Flying, LatestStatus, Latest
<1>2. RowsOfOne' /\ CalmWhileWell' /\ AllBlocked'
  BY <1>1 DEF PauseInv, RowsOfOne, CalmWhileWell, AllBlocked, Calm
<1>3. BlockedBehindDone'
  BY <1>1 DEF PauseInv, BlockedBehindDone, IsDone
<1>4. ToldWhileWell'
  BY <1>1 DEF PauseInv, ToldWhileWell, Told
<1>5. PauseStands' /\ CrashShows'
  <2>1. Unseen' = Unseen
    BY <1>1 DEF Unseen
  <2>2. \A c : LegitimatePause(c)' = LegitimatePause(c)
    BY <1>1 DEF LegitimatePause, NoneIn
  <2>3. NoneIn({"running"})' = NoneIn({"running"})
    BY <1>1 DEF NoneIn
  <2> QED BY <1>1, <2>1, <2>2, <2>3 DEF PauseInv, PauseStands, CrashShows
<1> QED BY <1>1, <1>2, <1>3, <1>4, <1>5 DEF PauseInv

LEMMA PauseStep ==
  ASSUME IInv, LoopInv, StraightInv, Simple => PauseInv, [Next]_vars
  PROVE  (Simple => PauseInv)'
<1>1. inst' = inst
  BY TemplateStays
<1>2. /\ left.reruns \in Nat /\ left.reruns <= inst.reruns /\ inst.reruns \in Nat
      /\ left'.reruns = left.reruns \/ \E n \in Nodes : RerunNode(n)
      /\ \A n \in Nodes : RerunNode(n) => left'.reruns < inst.reruns
  <2>1. left.reruns \in Nat /\ left.reruns <= inst.reruns /\ inst.reruns \in Nat
    BY Limits DEF LoopInv, Budget, IInv
  <2>2. left'.reruns = left.reruns \/ \E n \in Nodes : RerunNode(n)
    BY DEF LoopInv, Budget, Next, Executor, Host, InNode, vars, CheckPending, Sched, PruneNode,
           PruneEnd, FeedbackStep, BatchDone, Ending, StartNode, Work, Route, Complete,
           StartRun, Resume, Abort, Crash, Recover, SkipNode, DecideGate
  <2>3. \A n \in Nodes : RerunNode(n) => left'.reruns = left.reruns - 1
    BY DEF LoopInv, Budget, RerunNode
  <2> QED BY <2>1, <2>2, <2>3
<1>3. SUFFICES ASSUME Simple' PROVE PauseInv'
  OBVIOUS
<1>4. /\ LoopFree /\ ~inst.sameMillisecond /\ left.reruns = inst.reruns
      /\ \A n \in Nodes : ~RerunNode(n)
  <2>1. \A n \in Nodes : ~RerunNode(n)
    BY <1>1, <1>2, <1>3 DEF Simple
  <2> QED BY <1>1, <1>2, <1>3, <2>1 DEF Simple, LoopFree, Edges
<1>5. PauseInv /\ Straight /\ Each /\ Results
  BY <1>4 DEF Simple, StraightInv
<1>6. CASE Executor
  <2>1. ~FeedbackStep
    BY <1>5 DEF FeedbackStep, Straight
  <2>2. ASSUME NEW n \in Nodes, StartNode(n) PROVE PauseInv'
    BY <1>4, <1>5, <2>2, StartPauseStep
  <2>3. CheckPending \/ BatchDone => PauseInv'
    BY <1>4, <1>5, QuietPauseSteps
  <2>4. Sched => PauseInv'
    BY <1>5, SchedPauseStep
  <2>5. PruneNode \/ PruneEnd => PauseInv'
    BY <1>4, <1>5, PrunePauseStep
  <2>6. Ending => PauseInv'
    BY <1>5, EndingPauses
  <2> QED BY <1>6, <2>1, <2>2, <2>3, <2>4, <2>5, <2>6 DEF Executor
<1>7. CASE Host
  <2>1. ASSUME NEW g \in Gates, DecideGate(g) PROVE PauseInv'
    BY <1>5, <2>1, NothingPauses DEF DecideGate
  <2>2. ASSUME NEW n \in Nodes, SkipNode(n) PROVE PauseInv'
    BY <1>4, <1>5, <2>2, SkipPauseStep
  <2>3. StartRun => PauseInv'
    BY <1>5, StartRunPauses
  <2>4. Resume => PauseInv'
    BY <1>5, ResumePauses
  <2>5. Abort => PauseInv'
    BY <1>4, <1>5, QuietPauseSteps
  <2>6. Crash => PauseInv'
    BY <1>5, CrashPauses
  <2>7. Recover => PauseInv'
    BY <1>4, <1>5, RecoverPauses
  <2> QED BY <1>4, <1>7, <2>1, <2>2, <2>3, <2>4, <2>5, <2>6, <2>7 DEF Host
<1>8. CASE \E n \in Nodes : InNode(n)
  <2>1. ASSUME NEW n \in Nodes, Work(n) PROVE PauseInv'
    BY <1>4, <1>5, <2>1, WorkPauseStep
  <2>2. ASSUME NEW n \in Nodes, Route(n) \/ Complete(n) PROVE PauseInv'
    BY <1>4, <1>5, <2>2, CompletionPauseStep
  <2> QED BY <1>8, <2>1, <2>2 DEF InNode
<1>9. CASE UNCHANGED vars
  BY <1>5, <1>9, NothingPauses DEF vars
<1> QED BY <1>6, <1>7, <1>8, <1>9 DEF Next

LEMMA PauseInit == Init => PauseInv
<1> SUFFICES ASSUME Init PROVE PauseInv
  OBVIOUS
<1>1. /\ run = NoRun /\ run.status = "none" /\ mem = EmptyMem /\ pc = "idle" /\ ~Under
      /\ \A n \in NodeIds : attempts[n] = << >>
      /\ seen.answer = "none" /\ Nodes \subseteq NodeIds
  <2>1. run = NoRun /\ NoRun.status = "none" /\ pc = "idle" /\ seen.answer = "none"
    BY DEF Init, NoRun
  <2> QED BY <2>1, InitHolds, Facts DEF Init, Under, IInv
<1>2. RowsWith("blocked") = {}
  BY <1>1 DEF RowsWith
<1>3. \A n \in Nodes : Calm(n)
  <2> HIDE DEF Flying
  <2> QED BY <1>1 DEF Calm, LatestStatus
<1> QED BY <1>1, <1>2, <1>3
        DEF PauseInv, RowsOfOne, CalmWhileWell, BlockedBehindDone, ToldWhileWell, AllBlocked,
            PauseStands, CrashShows

LEMMA PauseAlways == Spec => [](IInv /\ LoopInv /\ StraightInv /\ (Simple => PauseInv))
<1>1. IInv /\ LoopInv /\ StraightInv /\ (Simple => PauseInv) /\ [Next]_vars
        => IInv' /\ LoopInv' /\ StraightInv' /\ (Simple => PauseInv)'
  BY NextStep, LoopStep, StraightStep, PauseStep
<1>2. Init => IInv /\ LoopInv /\ StraightInv /\ (Simple => PauseInv)
  BY InitHolds, LoopInit, StraightInit, PauseInit
<1> QED BY <1>1, <1>2, PTL DEF Spec

\* The rows show what was in flight at a death.
DeathShows == pc = "starting" /\ seen.crashed # {} => ~Unseen

\* In a template without feedback edges, before any rerun and where no two
\* checkpoints share a timestamp, a restart tells a pause from a crash: what run()
\* reported as paused goes on, and what lost a node in flight has failed.  It needs
\* rows that show what was in flight at the death, which they do unless that was
\* routers alone, completed and with their branches being pruned.
THEOREM PausesAreTold ==
  Spec /\ [](Simple /\ DeathShows) => RecoveryTellsPausesFromCrashes
<1>1. ASSUME IInv, StraightInv, Simple, PauseInv, DeathShows, [Next]_vars,
             pc = "starting", pc' = "idle"
      PROVE  /\ seen.answer = "running" => run'.status = "running"
             /\ run.status = "running" /\ seen.crashed # {} => run'.status = "failed"
  <2>1. Recover
    BY <1>1 DEF Next, Executor, Host, InNode, vars, CheckPending, Sched, PruneNode, PruneEnd,
           FeedbackStep, BatchDone, Ending, StartNode, Work, Route, Complete, StartRun, Resume,
           Abort, Crash, RerunNode, SkipNode, DecideGate
  <2>2. Results /\ left.reruns = inst.reruns
    BY <1>1 DEF StraightInv, Simple
  <2>3. seen.answer = "running" => run.status = "running"
    BY <1>1 DEF PauseInv, PauseStands, Under
  <2>4. /\ seen.answer = "running" => run' = run /\ attempts' = attempts
        /\ run.status = "running" /\ run' = run /\ attempts' = attempts =>
             Unseen
        /\ \/ run' = run /\ attempts' = attempts
           \/ /\ run \in RunRows
              /\ run' = [run EXCEPT !.status = "failed", !.finished = TRUE]
    BY <1>1, <2>1, <2>2, RecoverTells
  <2>5. (run' = run /\ attempts' = attempts) \/ run'.status = "failed"
    BY <2>4 DEF RunRows
  <2> QED BY <1>1, <2>3, <2>4, <2>5 DEF DeathShows
<1>2. IInv /\ LoopInv /\ StraightInv /\ (Simple => PauseInv) /\ Simple /\ DeathShows
        /\ [Next]_vars
        => [pc = "starting" /\ pc' = "idle" =>
              /\ seen.answer = "running" => run'.status = "running"
              /\ run.status = "running" /\ seen.crashed # {} => run'.status = "failed"]_vars
  BY <1>1
<1> QED BY <1>2, PauseAlways, PTL DEF RecoveryTellsPausesFromCrashes, Spec

-----------------------------------------------------------------------------
(* What routers did not select does not run.                                *)

\* A node that nothing has become of yet, as far as the executor knows.
Open(m, n) ==
  n \notin Done(m) \cup m.failed \cup m.blocked \cup m.cancelled /\ m.stage[n] = "none"

\* The node may still be reached, by an edge that is not dead.
HasWay(m, n) ==
  \/ In(Edges, n) = {}
  \/ \E e \in In(Edges, n) : e.id \notin m.dead /\ e.source \notin m.skipped

\* A completed router recorded one edge and killed the others.
Chose(r) ==
  \E f \in Out(Edges, r) :
    /\ Latest(attempts, r).edge = f.id
    /\ \A e \in Out(Edges, r) \ {f} : e.id \in mem.dead

DueInv ==
  /\ pc # "prune" /\ ~mem.aborted => \A n \in Nodes : Open(mem, n) => HasWay(mem, n)
  /\ pc = "prune" => cur.node \in mem.completed
  /\ pc = "start" => ~mem.aborted /\ \A n \in mem.batch : Open(mem, n)
  /\ \A r \in Routers : mem.stage[r] # "capture"
  /\ \A r \in Routers \cap mem.completed : Chose(r)

\* The first call of run(), without options.skipNodeIds.
FirstOfRun == LoopFree /\ Calls <= 1 /\ inst.skipSet = {}

LEMMA DueKept ==
  ASSUME DueInv, inst' = inst, pc # "prune", pc' # "prune", mem'.dead = mem.dead,
         mem'.skipped = mem.skipped, mem'.completed = mem.completed,
         ~mem'.aborted => ~mem.aborted /\ \A n \in Nodes : Open(mem', n) => Open(mem, n),
         pc' = "start" => ~mem'.aborted /\ \A n \in mem'.batch : Open(mem', n),
         \A r \in Routers : mem'.stage[r] # "capture",
         \A r \in mem.completed : attempts'[r] = attempts[r]
  PROVE  DueInv'
<1>1. Nodes' = Nodes /\ Edges' = Edges /\ Routers' = Routers
  BY DEF Nodes, Edges, Routers
<1>2. \A n : HasWay(mem, n) => HasWay(mem', n)
  BY DEF HasWay
<1>3. ~mem'.aborted => \A n \in Nodes : Open(mem', n) => HasWay(mem', n)
  BY <1>2 DEF DueInv
<1>4. (\A n \in Nodes : Open(mem', n) => HasWay(mem', n))
        => (\A n \in Nodes : Open(mem, n) => HasWay(mem, n))'
  BY <1>1 DEF Open, HasWay, Done
<1>5. \A r \in Routers \cap mem.completed : Chose(r)'
  BY <1>1 DEF DueInv, Chose, Latest
<1>6. (pc = "start" => ~mem.aborted /\ \A n \in mem.batch : Open(mem, n))'
  BY DEF Open, Done
<1> QED BY <1>1, <1>3, <1>4, <1>5, <1>6 DEF DueInv

\* Nothing is done and nothing is in flight.
LEMMA DueReset ==
  ASSUME inst' = inst, pc' \notin {"prune", "start"}, mem'.dead = {}, mem'.skipped = {},
         mem'.completed = {}, \A n \in Nodes : mem'.stage[n] = "none", Routers \subseteq Nodes
  PROVE  DueInv'
<1>1. Nodes' = Nodes /\ Edges' = Edges /\ Routers' = Routers
  BY DEF Nodes, Edges, Routers
<1>2. \A n : HasWay(mem, n)'
  BY <1>1 DEF HasWay
<1> QED BY <1>1, <1>2 DEF DueInv

\* What a step of node n in flight does about it.
Settles(n) ==
  /\ mem'.dead = mem.dead /\ mem'.aborted = mem.aborted
  /\ ~mem.aborted => \A q \in Nodes : Open(mem', q) => Open(mem, q)
  /\ mem'.stage[n] = "capture" => n \notin Routers

Bare(m) ==
  /\ m \in MemOf(inst) /\ m.completed = mem.completed /\ m.skipped = mem.skipped
  /\ m.failed = mem.failed /\ m.blocked = mem.blocked /\ m.cancelled = mem.cancelled
  /\ m.dead = mem.dead /\ m.aborted = mem.aborted /\ m.stage = mem.stage

LEMMA LeavesSettled ==
  ASSUME Typed, NEW n \in Nodes, NEW f \in MemOf(inst), mem' = Leave(f, n),
         f.completed = mem.completed, f.skipped = mem.skipped, f.dead = mem.dead,
         f.aborted = mem.aborted, f.stage = mem.stage, mem.failed \subseteq f.failed,
         mem.blocked \subseteq f.blocked, mem.cancelled \subseteq f.cancelled,
         mem.aborted \/ n \in f.failed \cup f.blocked \cup f.cancelled
  PROVE  Settles(n)
<1>1. n \in NodeIds /\ Nodes \subseteq NodeIds /\ f.stage \in [NodeIds -> Stages]
  BY Facts DEF MemOf
<1>2. /\ mem'.completed = f.completed /\ mem'.skipped = f.skipped /\ mem'.dead = f.dead
      /\ mem'.aborted = f.aborted /\ mem'.failed = f.failed /\ mem'.blocked = f.blocked
      /\ mem'.cancelled = f.cancelled /\ mem'.stage = [f.stage EXCEPT ![n] = "none"]
  BY DEF MemOf, Leave
<1> QED BY <1>1, <1>2 DEF Settles, Open, Done

LEMMA GoesSettled ==
  ASSUME Typed, NEW n \in Nodes, NEW m, Bare(m), NEW s \in Stages \ {"none"},
         mem'.completed = m.completed, mem'.skipped = m.skipped, mem'.dead = m.dead,
         mem'.aborted = m.aborted, mem'.failed = m.failed, mem'.blocked = m.blocked,
         mem'.cancelled = m.cancelled, mem'.stage = [m.stage EXCEPT ![n] = s],
         s = "capture" => n \notin Routers
  PROVE  Settles(n)
<1>1. n \in NodeIds /\ Nodes \subseteq NodeIds /\ m.stage \in [NodeIds -> Stages]
  BY Facts DEF Bare, MemOf
<1>2. mem'.stage[n] = s /\ \A q \in Nodes \ {n} : mem'.stage[q] = mem.stage[q]
  BY <1>1 DEF Bare
<1> QED BY <1>1, <1>2 DEF Settles, Open, Done, Bare

LEMMA CaughtSettles ==
  ASSUME Typed, NEW n \in Nodes, NEW m, Bare(m), Caught(n, m)
  PROVE  Settles(n)
<1> DEFINE f == [m EXCEPT !.failed = @ \cup {n}]
<1>1. /\ f \in MemOf(inst) /\ f.completed = m.completed /\ f.skipped = m.skipped
      /\ f.dead = m.dead /\ f.aborted = m.aborted /\ f.stage = m.stage
      /\ f.failed = m.failed \cup {n} /\ f.blocked = m.blocked /\ f.cancelled = m.cancelled
  BY DEF Bare, MemOf, Nodes
<1>2. mem' = Leave(f, n)
  BY DEF Caught
<1> HIDE DEF f
<1> QED BY <1>1, <1>2, LeavesSettled DEF Bare

LEMMA HaltSettles ==
  ASSUME Typed, NEW n \in Nodes, NEW operation, HaltedStart(n, operation)
  PROVE  Settles(n)
<1> DEFINE f == [mem EXCEPT !.halted = TRUE, !.failed = @ \cup {n}]
<1>1. /\ f \in MemOf(inst) /\ f.completed = mem.completed /\ f.skipped = mem.skipped
      /\ f.dead = mem.dead /\ f.aborted = mem.aborted /\ f.stage = mem.stage
      /\ f.failed = mem.failed \cup {n} /\ f.blocked = mem.blocked
      /\ f.cancelled = mem.cancelled
  BY DEF Typed, MemOf, Nodes
<1>2. mem' = Leave(f, n)
  BY DEF HaltedStart
<1> HIDE DEF f
<1> QED BY <1>1, <1>2, LeavesSettled

LEMMA ToLeafSettles ==
  ASSUME Typed, NEW n \in Nodes, NEW m, Bare(m), ToLeaf(n, m)
  PROVE  Settles(n)
<1>1. CASE m.aborted
  BY <1>1, CaughtSettles DEF ToLeaf
<1>2. CASE ~m.aborted
  <2>1. mem' = [m EXCEPT !.stage[n] = "leaf"] /\ n \in NodeIds /\ m \in MemOf(inst)
    BY <1>2, Facts DEF ToLeaf, Bare
  <2>2. /\ mem'.completed = m.completed /\ mem'.skipped = m.skipped /\ mem'.dead = m.dead
        /\ mem'.aborted = m.aborted /\ mem'.failed = m.failed /\ mem'.blocked = m.blocked
        /\ mem'.cancelled = m.cancelled /\ mem'.stage = [m.stage EXCEPT ![n] = "leaf"]
    BY <2>1 DEF MemOf
  <2> QED BY <2>2, GoesSettled DEF Stages
<1> QED BY <1>1, <1>2

LEMMA MemIsBare ==
  ASSUME Typed
  PROVE  Bare(mem) /\ Bare([mem EXCEPT !.patch = NoChange])
BY DEF Typed, Bare, MemOf, PatchesOf

LEMMA PreparedSettles ==
  ASSUME Typed, NEW n \in Nodes, Prepared(n)
  PROVE  Settles(n)
<1>0. n \in NodeIds /\ mem \in MemOf(inst) /\ Bare(mem)
  BY Facts, MemIsBare DEF Typed
<1>1. CASE \E T : mem' = [mem EXCEPT !.stage[n] = "patch", !.tree[n] = T]
  <2>1. PICK T : mem' = [mem EXCEPT !.stage[n] = "patch", !.tree[n] = T]
    BY <1>1
  <2>2. /\ mem'.completed = mem.completed /\ mem'.skipped = mem.skipped
        /\ mem'.dead = mem.dead /\ mem'.aborted = mem.aborted /\ mem'.failed = mem.failed
        /\ mem'.blocked = mem.blocked /\ mem'.cancelled = mem.cancelled
        /\ mem'.stage = [mem.stage EXCEPT ![n] = "patch"]
    BY <1>0, <2>1 DEF MemOf
  <2> QED BY <1>0, <2>2, GoesSettled DEF Stages
<1>2. CASE \E T : mem' = [mem EXCEPT !.stage[n] = "apply", !.tree[n] = T]
  <2>1. PICK T : mem' = [mem EXCEPT !.stage[n] = "apply", !.tree[n] = T]
    BY <1>2
  <2>2. /\ mem'.completed = mem.completed /\ mem'.skipped = mem.skipped
        /\ mem'.dead = mem.dead /\ mem'.aborted = mem.aborted /\ mem'.failed = mem.failed
        /\ mem'.blocked = mem.blocked /\ mem'.cancelled = mem.cancelled
        /\ mem'.stage = [mem.stage EXCEPT ![n] = "apply"]
    BY <1>0, <2>1 DEF MemOf
  <2> QED BY <1>0, <2>2, GoesSettled DEF Stages
<1>3. CASE Caught(n, mem) \/ HaltedStart(n, "merge.halted") \/ ToLeaf(n, mem)
  BY <1>0, <1>3, CaughtSettles, HaltSettles, ToLeafSettles
<1> QED BY <1>1, <1>2, <1>3 DEF Prepared

LEMMA AppliedSettles ==
  ASSUME Typed, NEW n \in Nodes, PatchApplied(n) \/ ChangesApplied(n)
  PROVE  Settles(n)
<1> DEFINE m == [mem EXCEPT !.patch = NoChange]
<1>1. Bare(mem) /\ Bare(m)
  BY MemIsBare
<1>2. HaltedStart(n, "iteration.halted") \/ ToLeaf(n, m) \/ Caught(n, mem) \/ ToLeaf(n, mem)
  BY DEF PatchApplied, ChangesApplied
<1> HIDE DEF m
<1> QED BY <1>1, <1>2, HaltSettles, ToLeafSettles, CaughtSettles

LEMMA AnsweredSettles ==
  ASSUME Typed, NEW n \in Nodes, LeafAnswered(n)
  PROVE  Settles(n)
<1>0. n \in NodeIds /\ mem \in MemOf(inst) /\ Bare(mem)
  BY Facts, MemIsBare DEF Typed
<1>1. CASE mem.aborted /\ Aborted(n)
  BY <1>0, <1>1, LeavesSettled DEF Aborted
<1>2. CASE Caught(n, mem)
  BY <1>0, <1>2, CaughtSettles
<1>3. CASE Failed(n)
  <2> DEFINE f == [mem EXCEPT !.failed = @ \cup {n}]
  <2>1. /\ f \in MemOf(inst) /\ f.completed = mem.completed /\ f.skipped = mem.skipped
        /\ f.dead = mem.dead /\ f.aborted = mem.aborted /\ f.stage = mem.stage
        /\ f.failed = mem.failed \cup {n} /\ f.blocked = mem.blocked
        /\ f.cancelled = mem.cancelled
    BY <1>0 DEF MemOf, Nodes
  <2>2. mem' = Leave(f, n)
    BY <1>3 DEF Failed
  <2> HIDE DEF f
  <2> QED BY <2>1, <2>2, LeavesSettled
<1>4. CASE Cancelled(n)
  <2> DEFINE f == [mem EXCEPT !.cancelled = @ \cup {n}]
  <2>1. /\ f \in MemOf(inst) /\ f.completed = mem.completed /\ f.skipped = mem.skipped
        /\ f.dead = mem.dead /\ f.aborted = mem.aborted /\ f.stage = mem.stage
        /\ f.failed = mem.failed /\ f.blocked = mem.blocked
        /\ f.cancelled = mem.cancelled \cup {n}
    BY <1>0 DEF MemOf, Nodes
  <2>2. mem' = Leave(f, n)
    BY <1>4 DEF Cancelled
  <2> HIDE DEF f
  <2> QED BY <2>1, <2>2, LeavesSettled
<1>5. CASE \E resumable \in BOOLEAN : \E note : Blocked(n, resumable, note)
  <2>0. PICK resumable \in BOOLEAN : \E note : Blocked(n, resumable, note)
    BY <1>5
  <2>1. PICK note : Blocked(n, resumable, note)
    BY <2>0
  <2> DEFINE R == IF resumable THEN mem.resumable \cup {n} ELSE mem.resumable
             N == IF resumable THEN mem.nonResumable ELSE mem.nonResumable \cup {n}
             f == [mem EXCEPT !.blocked = @ \cup {n}, !.resumable = R, !.nonResumable = N]
  <2>2. R \in SUBSET Nodes /\ N \in SUBSET Nodes
    BY <1>0 DEF MemOf, Nodes
  <2>3. mem' = Leave(f, n)
    BY <1>0, <2>1 DEF Blocked
  <2> HIDE DEF R, N
  <2>4. /\ f \in MemOf(inst) /\ f.completed = mem.completed /\ f.skipped = mem.skipped
        /\ f.dead = mem.dead /\ f.aborted = mem.aborted /\ f.stage = mem.stage
        /\ f.failed = mem.failed /\ f.blocked = mem.blocked \cup {n}
        /\ f.cancelled = mem.cancelled
    BY <1>0, <2>2 DEF MemOf, Nodes
  <2> HIDE DEF f
  <2> QED BY <2>3, <2>4, LeavesSettled
<1>6. CASE n \notin Routers /\ Capture(n)
  <2>1. mem' = [mem EXCEPT !.stage[n] = "capture"]
    BY <1>6 DEF Capture
  <2>2. /\ mem'.completed = mem.completed /\ mem'.skipped = mem.skipped
        /\ mem'.dead = mem.dead /\ mem'.aborted = mem.aborted /\ mem'.failed = mem.failed
        /\ mem'.blocked = mem.blocked /\ mem'.cancelled = mem.cancelled
        /\ mem'.stage = [mem.stage EXCEPT ![n] = "capture"]
    BY <1>0, <2>1 DEF MemOf
  <2> QED BY <1>0, <1>6, <2>2, GoesSettled DEF Stages
<1>7. RouterFails(n) => Failed(n)
  BY DEF RouterFails
<1>8. n \in Gates => n \notin Routers
  BY Facts
<1> QED BY <1>1, <1>2, <1>3, <1>4, <1>5, <1>6, <1>7, <1>8
        DEF LeafAnswered, GateAnswered, TaskAnswered

LEMMA WorkSettles ==
  ASSUME Typed, NEW n \in Nodes, Work(n)
  PROVE  Settles(n)
<1>1. CaptureFailed(n) => Settles(n)
  BY CaughtSettles, MemIsBare DEF CaptureFailed
<1> QED BY <1>1, PreparedSettles, AppliedSettles, AnsweredSettles DEF Work

\* A step of a node in flight writes its own rows.
LEMMA WorkOnly ==
  ASSUME Typed, NEW n \in Nodes, Effect(n)
  PROVE  OnlyAt(n, attempts, attempts')
<1>1. attempts \in TablesOf(inst)
  BY DEF Typed
<1>2. attempts' = attempts \/ \E status, note : attempts' = EndAttempt(n, status, note)
  BY DEF Effect, Drops, Parks, GoesOn
<1> QED BY <1>1, <1>2 DEF OnlyAt, EndAttempt, SetAttempt, TablesOf

LEMMA WorkIsDue ==
  ASSUME IInv, IInv', Each, DueInv, NEW n \in Nodes, Work(n)
  PROVE  DueInv'
<1>1. /\ Typed /\ n \in NodeIds /\ Nodes \subseteq NodeIds /\ Routers \subseteq Nodes
      /\ inst' = inst /\ pc = "work" /\ pc' = "work" /\ mem.stage[n] # "none"
      /\ Effect(n) /\ Settles(n)
  BY Facts, WorkEffect, WorkSettles DEF IInv, Work
<1>2. n \notin mem.completed
  <2>1. OwnRow(attempts[n], mem.number[n])
    BY <1>1 DEF IInv, Flight, Following
  <2>2. mem.number[n] = Len(attempts[n])
    BY <1>1 DEF Each, Agrees
  <2> QED BY <1>1, <2>1, <2>2 DEF Each, Agrees, OwnRow, Last
<1>3. \A r \in mem.completed : attempts'[r] = attempts[r]
  <2>1. Typed /\ Typed' /\ mem.completed \subseteq NodeIds
    BY <1>1 DEF IInv, Typed, MemOf, Nodes
  <2>2. OnlyAt(n, attempts, attempts')
    BY <1>1, <2>1, WorkOnly
  <2> QED BY <1>2, <2>1, <2>2 DEF OnlyAt
<1>4. \A r \in Routers : mem'.stage[r] # "capture"
  BY <1>1 DEF DueInv, Settles, Effect, Others
<1>5. /\ mem'.dead = mem.dead /\ mem'.skipped = mem.skipped
      /\ mem'.completed = mem.completed /\ mem'.aborted = mem.aborted
      /\ ~mem.aborted => \A q \in Nodes : Open(mem', q) => Open(mem, q)
  BY <1>1 DEF Settles, Effect, Beside
<1> QED BY <1>1, <1>3, <1>4, <1>5, DueKept

LEMMA EdgeRecorded ==
  ASSUME Typed, NEW n \in NodeIds, NEW edge \in IdsOf(inst) \cup {NoEdge},
         OwnRow(attempts[n], mem.number[n]), RecordCompletion(n, edge)
  PROVE  attempts'[n][mem.number[n]].edge = edge
<1> DEFINE k == mem.number[n]
           t == EndAttempt(n, "completed", "none")
<1>1. /\ attempts \in TablesOf(inst) /\ k \in DOMAIN attempts[n]
      /\ attempts[n][k].status \in {"running", "ready"}
  BY DEF Typed, OwnRow
<1>2. t \in TablesOf(inst) /\ DOMAIN t[n] = DOMAIN attempts[n]
  <2>1. "completed" \in AttemptStatuses /\ "none" \in Notes
    BY DEF AttemptStatuses, TerminalStatuses, Notes
  <2>2. t = SetAttempt(attempts, n, k, "completed", "none")
    BY DEF EndAttempt
  <2> HIDE DEF t, k
  <2> QED BY <1>1, <2>1, <2>2, SetTouches
<1>3. attempts' = [t EXCEPT ![n][k].edge = edge]
  BY DEF RecordCompletion
<1> HIDE DEF t, k
<1>4. t[n] \in Seq(RowOf(inst)) /\ n \in DOMAIN t
  BY <1>2 DEF TablesOf
<1>5. t[n][k] \in RowOf(inst)
  BY <1>1, <1>2, <1>4
<1>6. attempts'[n][k] = [t[n][k] EXCEPT !.edge = edge]
  BY <1>1, <1>2, <1>3, <1>4
<1> QED BY <1>5, <1>6 DEF RowOf, k

LEMMA StartIsDue ==
  ASSUME IInv, Each, DueInv, inst.skipSet = {}, NEW n \in Nodes, StartNode(n)
  PROVE  DueInv'
<1>0. /\ Typed /\ mem \in MemOf(inst) /\ n \in NodeIds /\ Nodes \subseteq NodeIds
      /\ inst' = inst /\ pc = "start" /\ pc' \in {"start", "work"} /\ mem.iteration # 0
      /\ Routers \subseteq Nodes /\ mem.batch \in SUBSET Nodes
  BY Facts, Iterating DEF IInv, Typed, StartNode, AfterStart, MemOf, Nodes
<1>1. n \in mem.batch
  <2>1. mem.batch # {} /\ mem.batch \in SUBSET NodeIds
    BY <1>0 DEF IInv, Places
  <2> QED BY <2>1, FirstIn DEF StartNode
<1>2. Open(mem, n) /\ ~mem.aborted
  BY <1>0, <1>1 DEF DueInv
<1>3. /\ OnlyAt(n, attempts, attempts') /\ mem'.batch = mem.batch \ {n}
      /\ mem'.stage = mem.stage
           \/ \E s \in {"prepare", "leaf"} : mem'.stage = [mem.stage EXCEPT ![n] = s]
  BY <1>0, StartOutcome DEF SettledAtStart, SetOff, Touched
<1>4. Started = [mem EXCEPT !.batch = @ \ {n}]
  BY DEF StartNode, Started
<1> DEFINE Kept == /\ mem'.dead = mem.dead /\ mem'.skipped = mem.skipped
                   /\ mem'.completed = mem.completed /\ mem'.aborted = mem.aborted
                   /\ mem'.cancelled = mem.cancelled
                   /\ mem.failed \subseteq mem'.failed /\ mem'.failed \subseteq mem.failed \cup {n}
                   /\ mem.blocked \subseteq mem'.blocked
                   /\ mem'.blocked \subseteq mem.blocked \cup {n}
<1>5. Kept
  <2>1. ~StartSkipped(n)
    BY DEF StartSkipped
  <2>2. CASE StartUnresolved(n)
    <3>1. mem' = [[mem EXCEPT !.batch = @ \ {n}] EXCEPT
                    !.blocked = @ \cup {n}, !.nonResumable = @ \cup {n}]
      BY <1>4, <2>2 DEF StartUnresolved
    <3> QED BY <1>0, <3>1 DEF MemOf
  <2>3. CASE StartRoleFailure(n)
    <3>1. mem' = [[mem EXCEPT !.batch = @ \ {n}] EXCEPT !.failed = @ \cup {n}]
      BY <1>4, <2>3 DEF StartRoleFailure
    <3> QED BY <1>0, <3>1 DEF MemOf
  <2>4. CASE StartRunning(n)
    <3>1. PICK s, k : mem' = [[mem EXCEPT !.batch = @ \ {n}] EXCEPT
                                !.stage[n] = s, !.number[n] = k]
      BY <1>4, <2>4 DEF StartRunning
    <3> QED BY <1>0, <3>1 DEF MemOf
  <2> QED BY <2>1, <2>2, <2>3, <2>4 DEF StartNode
<1>6. mem.stage \in [NodeIds -> Stages]
  BY <1>0 DEF MemOf
<1>7. \A q \in Nodes : Open(mem', q) => Open(mem, q)
  BY <1>2, <1>3, <1>5, <1>6, <1>0 DEF Open, Done
<1>8. \A q \in mem'.batch : Open(mem', q)
  <2> SUFFICES ASSUME NEW q \in mem'.batch PROVE Open(mem', q)
    OBVIOUS
  <2>1. q \in mem.batch /\ q # n /\ Open(mem, q) /\ q \in NodeIds
    BY <1>0, <1>3 DEF DueInv
  <2>2. mem'.stage[q] = mem.stage[q]
    BY <1>3, <1>6, <2>1
  <2> QED BY <1>5, <2>1, <2>2 DEF Open, Done
<1>9. \A r \in Routers : mem'.stage[r] # "capture"
  BY <1>0, <1>3, <1>6 DEF DueInv
<1>10. \A r \in mem.completed : attempts'[r] = attempts[r]
  <2>1. mem.completed \subseteq NodeIds /\ n \notin mem.completed
    BY <1>0, <1>2 DEF MemOf, Nodes, Open, Done
  <2> QED BY <1>3, <2>1 DEF OnlyAt
<1> QED BY <1>0, <1>2, <1>5, <1>7, <1>8, <1>9, <1>10, DueKept

LEMMA SchedIsDue ==
  ASSUME IInv, DueInv, Sched
  PROVE  DueInv'
<1>1. /\ Typed /\ mem \in MemOf(inst) /\ inst' = inst /\ attempts' = attempts /\ pc = "sched"
      /\ \A n \in Nodes : mem.stage[n] = "none"
  BY DEF IInv, Typed, Sched, durable, Places, Quiet
<1>2. CASE mem' = mem /\ pc' = "ending"
  BY <1>1, <1>2, DueKept DEF DueInv
<1>3. CASE /\ ~mem.aborted /\ pc' = "start" /\ mem' = [mem EXCEPT !.batch = Batch]
  <2> DEFINE B == Batch
  <2>1. mem' = [mem EXCEPT !.batch = B]
    BY <1>3
  <2>2. \A n \in B : n \in Nodes /\ Open(mem, n)
    BY <1>1 DEF Batch, Candidates, ReadyNodes, Open, Done
  <2> HIDE DEF B
  <2>3. /\ mem'.dead = mem.dead /\ mem'.skipped = mem.skipped
        /\ mem'.completed = mem.completed /\ mem'.aborted = mem.aborted
        /\ mem'.cancelled = mem.cancelled /\ mem'.failed = mem.failed
        /\ mem'.blocked = mem.blocked /\ mem'.stage = mem.stage /\ mem'.batch = B
    BY <1>1, <2>1 DEF MemOf
  <2>4. \A n : Open(mem', n) = Open(mem, n)
    BY <2>3 DEF Open, Done
  <2>5. \A r \in Routers : mem'.stage[r] # "capture"
    BY <2>3 DEF DueInv
  <2> QED BY <1>1, <1>3, <2>2, <2>3, <2>4, <2>5, DueKept
<1> QED BY <1>2, <1>3 DEF Sched

\* A router's choice kills its other edges, and it stays in flight until nothing
\* more is to be pruned.
LEMMA CompletionIsDue ==
  ASSUME IInv, LoopFree, Straight, Each, DueInv, NEW n \in Nodes, Route(n) \/ Complete(n)
  PROVE  DueInv'
<1>0. /\ Typed /\ mem \in MemOf(inst) /\ n \in NodeIds /\ Nodes \subseteq NodeIds
      /\ pc = "work" /\ mem.stage[n] # "none" /\ inst' = inst /\ NoReady(attempts)
      /\ Nodes' = Nodes /\ Edges' = Edges /\ Routers' = Routers /\ Routers \subseteq Nodes
  BY Facts DEF IInv, Typed, Straight, Route, Complete, Nodes, Edges, Routers
<1>1. OwnRow(attempts[n], mem.number[n])
  BY <1>0 DEF IInv, Flight, Following
<1>2. mem.number[n] = Len(attempts[n]) /\ n \notin Done(mem) /\ mem.number[n] \in DOMAIN attempts[n]
  BY <1>0, <1>1, OwnIsLast DEF Each, Agrees, Done, OwnRow
<1> DEFINE w == WithCompletion(n)
<1>3. w \in MemOf(inst)
  BY <1>0, <1>1, CompletedMem
<1>4. /\ w.completed = mem.completed \cup {n} /\ w.skipped = mem.skipped
      /\ w.dead = mem.dead /\ w.aborted = mem.aborted /\ w.failed = mem.failed
      /\ w.blocked = mem.blocked /\ w.cancelled = mem.cancelled /\ w.stage = mem.stage
  BY <1>0 DEF WithCompletion, MemOf
<1>5. \A e \in Edges : ~e.isFeedback
  BY DEF LoopFree, Feedback
<1>6. Forward(Edges) = Edges
  BY <1>5 DEF Forward
<1>7. ASSUME NEW edge \in IdsOf(inst) \cup {NoEdge}, RecordCompletion(n, edge)
      PROVE  /\ OnlyAt(n, attempts, attempts')
             /\ Latest(attempts', n).edge = edge
  <2>1. Ended(n, "completed")
    BY <1>0, <1>1, <1>7, CompletionEnded
  <2>2. Len(attempts'[n]) = mem.number[n] /\ OnlyAt(n, attempts, attempts')
    BY <1>2, <2>1 DEF Ended, Added
  <2>3. attempts'[n][mem.number[n]].edge = edge
    BY <1>0, <1>1, <1>7, EdgeRecorded
  <2> QED BY <2>2, <2>3 DEF Latest
<1> HIDE DEF w
<1>8. CASE Route(n)
  <2>1. PICK e \in Selectable(n) :
          /\ RecordCompletion(n, e.id)
          /\ IF e.isFeedback
             THEN mem' = w /\ Follow("feedback", n, e.id)
             ELSE /\ mem' = [w EXCEPT
                       !.dead = @ \cup {f.id : f \in Out(Forward(Edges), n) \ {e}}]
                  /\ Follow("prune", n, e.id)
    BY <1>8 DEF Route, w
  <2>2. e \in Edges /\ e \in Out(Edges, n) /\ e.id \in IdsOf(inst)
    BY <2>1 DEF Selectable, Out, IdsOf, Edges
  <2> DEFINE D == {f.id : f \in Out(Edges, n) \ {e}}
  <2>3. mem' = [w EXCEPT !.dead = @ \cup D] /\ pc' = "prune" /\ cur'.node = n
    BY <1>5, <1>6, <2>1, <2>2 DEF Follow
  <2>4. \A f \in Out(Edges, n) \ {e} : f.id \in D
    OBVIOUS
  <2> HIDE DEF D
  <2>5. /\ mem'.completed = mem.completed \cup {n} /\ mem'.dead = mem.dead \cup D
        /\ mem'.stage = mem.stage
    BY <1>3, <1>4, <2>3 DEF MemOf
  <2>6. OnlyAt(n, attempts, attempts') /\ Latest(attempts', n).edge = e.id
    BY <1>7, <2>1, <2>2
  <2>7. Chose(n)'
    BY <1>0, <2>2, <2>4, <2>5, <2>6 DEF Chose
  <2>8. ASSUME NEW r \in Routers, r \in mem.completed PROVE Chose(r)'
    <3>1. attempts'[r] = attempts[r]
      BY <1>0, <1>2, <2>6, <2>8 DEF OnlyAt, Done
    <3> QED BY <1>0, <2>5, <2>8, <3>1 DEF DueInv, Chose, Latest
  <2>9. \A r \in (Routers \cap mem.completed)' : Chose(r)'
    BY <1>0, <2>5, <2>7, <2>8
  <2>10. (\A r \in Routers : mem.stage[r] # "capture")'
    BY <1>0, <2>5 DEF DueInv
  <2> QED BY <2>3, <2>5, <2>9, <2>10 DEF DueInv
<1>9. CASE Complete(n)
  <2>1. Out(Feedback(Edges), n) = {}
    BY DEF LoopFree, Out
  <2>2. RecordCompletion(n, NoEdge) /\ mem' = Leave(w, n) /\ pc' = "work"
    BY <1>0, <1>9, <2>1 DEF Complete, w
  <2>3. /\ mem'.completed = mem.completed \cup {n} /\ mem'.skipped = mem.skipped
        /\ mem'.dead = mem.dead /\ mem'.aborted = mem.aborted /\ mem'.failed = mem.failed
        /\ mem'.blocked = mem.blocked /\ mem'.cancelled = mem.cancelled
        /\ mem'.stage = [mem.stage EXCEPT ![n] = "none"]
    BY <1>3, <1>4, <2>2 DEF MemOf, Leave
  <2>4. mem.stage \in [NodeIds -> Stages] /\ n \notin Routers
    BY <1>0, <1>9 DEF MemOf, Complete, DueInv
  <2>5. OnlyAt(n, attempts, attempts')
    BY <1>7, <2>2
  <2>6. ASSUME NEW q \in Nodes, ~mem'.aborted, Open(mem', q) PROVE HasWay(mem', q)
    <3>1. Open(mem, q)
      BY <1>0, <2>3, <2>4, <2>6 DEF Open, Done
    <3> QED BY <1>0, <2>3, <2>6, <3>1 DEF DueInv, HasWay
  <2>7. (pc # "prune" /\ ~mem.aborted => \A q \in Nodes : Open(mem, q) => HasWay(mem, q))'
    BY <1>0, <2>6 DEF Open, HasWay, Done
  <2>8. ASSUME NEW r \in Routers, r \in mem'.completed PROVE Chose(r)'
    <3>1. r \in mem.completed /\ attempts'[r] = attempts[r]
      BY <1>0, <2>3, <2>4, <2>5, <2>8 DEF OnlyAt
    <3> QED BY <1>0, <2>3, <2>8, <3>1 DEF DueInv, Chose, Latest
  <2>9. \A r \in (Routers \cap mem.completed)' : Chose(r)'
    BY <1>0, <2>8
  <2>10. (\A r \in Routers : mem.stage[r] # "capture")'
    BY <1>0, <2>3, <2>4 DEF DueInv
  <2> QED BY <2>2, <2>7, <2>9, <2>10 DEF DueInv
<1> QED BY <1>8, <1>9

LEMMA PruneIsDue ==
  ASSUME IInv, IInv', Straight, Each, DueInv, PruneNode \/ PruneEnd
  PROVE  DueInv'
<1>0. /\ Typed /\ mem \in MemOf(inst) /\ inst' = inst /\ pc = "prune" /\ NoReady(attempts)
      /\ Nodes' = Nodes /\ Edges' = Edges /\ Routers' = Routers /\ Nodes \subseteq NodeIds
      /\ Routers \subseteq Nodes /\ cur.node \in mem.completed
  BY Facts DEF IInv, Typed, Straight, PruneNode, PruneEnd, Nodes, Edges, Routers, durable, DueInv
<1>1. CASE PruneNode
  <2> DEFINE n == First(Prunable)
  <2>1. n \in Prunable
    <3>1. Prunable \in SUBSET NodeIds /\ Prunable # {}
      BY <1>0, <1>1 DEF PruneNode, Prunable
    <3> QED BY <3>1, FirstIn
  <2>2. /\ attempts' = EndLast(RecordAttempt(attempts, n, "ready", 1), n, "skipped", "none")
        /\ mem' = [mem EXCEPT !.skipped = @ \cup {n}] /\ pc' = pc /\ cur' = cur
    BY <1>1 DEF PruneNode
  <2> HIDE DEF n
  <2>3. n \in Nodes /\ n \notin mem.completed
    BY <2>1 DEF Prunable
  <2>4. OnlyAt(n, attempts, attempts')
    BY <1>0, <2>2, <2>3, RecordedAndEnded DEF Notes, Added
  <2>5. mem'.completed = mem.completed /\ mem'.dead = mem.dead /\ mem'.stage = mem.stage
    BY <1>0, <2>2 DEF MemOf
  <2>6. ASSUME NEW r \in Routers, r \in mem.completed PROVE Chose(r)'
    <3>1. attempts'[r] = attempts[r]
      BY <1>0, <2>3, <2>4, <2>6 DEF OnlyAt
    <3> QED BY <1>0, <2>5, <2>6, <3>1 DEF DueInv, Chose, Latest
  <2>7. \A r \in (Routers \cap mem.completed)' : Chose(r)'
    BY <1>0, <2>5, <2>6
  <2>8. (\A r \in Routers : mem.stage[r] # "capture")'
    BY <1>0, <2>5 DEF DueInv
  <2> QED BY <1>0, <2>2, <2>5, <2>7, <2>8 DEF DueInv
<1>2. CASE PruneEnd
  <2> DEFINE n == cur.node
  <2>1. /\ Prunable = {} /\ mem' = Leave(mem, n) /\ pc' = "work" /\ attempts' = attempts
    BY <1>0, <1>2 DEF PruneEnd, durable, IInv, Places
  <2>2. n \in NodeIds /\ n \in mem.completed /\ mem.stage \in [NodeIds -> Stages]
    BY <1>0 DEF MemOf, Nodes
  <2> HIDE DEF n
  <2>3. /\ mem'.completed = mem.completed /\ mem'.skipped = mem.skipped
        /\ mem'.dead = mem.dead /\ mem'.aborted = mem.aborted /\ mem'.failed = mem.failed
        /\ mem'.blocked = mem.blocked /\ mem'.cancelled = mem.cancelled
        /\ mem'.stage = [mem.stage EXCEPT ![n] = "none"]
    BY <1>0, <2>1 DEF MemOf, Leave
  <2>4. ASSUME NEW q \in Nodes, Open(mem', q) PROVE HasWay(mem', q)
    <3>1. /\ q \notin mem.completed \cup mem.skipped \cup mem.failed \cup mem.blocked
          /\ mem.stage[q] = "none"
      BY <1>0, <2>2, <2>3, <2>4 DEF Open, Done
    <3>2. \/ In(Edges, q) = {}
          \/ \E e \in In(Edges, q) : ~(e.id \in mem.dead \/ e.source \in mem.skipped)
      BY <2>1, <3>1 DEF Prunable, InFlight
    <3> QED BY <2>3, <3>2 DEF HasWay
  <2>5. (pc # "prune" /\ ~mem.aborted => \A q \in Nodes : Open(mem, q) => HasWay(mem, q))'
    BY <1>0, <2>4 DEF Open, HasWay, Done
  <2>6. \A r \in (Routers \cap mem.completed)' : Chose(r)'
    BY <1>0, <2>1, <2>3 DEF DueInv, Chose, Latest
  <2>7. (\A r \in Routers : mem.stage[r] # "capture")'
    BY <1>0, <2>2, <2>3 DEF DueInv
  <2> QED BY <2>1, <2>5, <2>6, <2>7 DEF DueInv
<1> QED BY <1>1, <1>2

LEMMA EmptyIsDue ==
  ASSUME Typed, inst' = inst, pc' \notin {"prune", "start"},
         mem' = EmptyMem \/ mem' = [EmptyMem EXCEPT !.iteration = 1]
  PROVE  DueInv'
<1>1. /\ mem'.dead = {} /\ mem'.skipped = {} /\ mem'.completed = {}
      /\ \A n \in NodeIds : mem'.stage[n] = "none"
  BY DEF EmptyMem
<1> QED BY <1>1, DueReset, Facts

\* The other steps of run(), and of the host.
LEMMA RestIsDue ==
  ASSUME IInv, Straight, Each, DueInv, LoopFree
  PROVE  /\ CheckPending \/ BatchDone \/ Abort \/ Ending \/ Crash \/ Recover \/ StartRun
              => DueInv'
         /\ \A n \in Nodes : SkipNode(n) => DueInv'
         /\ \A g \in Gates : DecideGate(g) => DueInv'
<1>0. Typed /\ mem \in MemOf(inst) /\ Routers \subseteq Nodes /\ Nodes \subseteq NodeIds
        /\ \A r \in Routers : mem.stage[r] # "capture"
  BY Facts DEF IInv, Typed, DueInv
<1>1. ASSUME CheckPending \/ BatchDone PROVE DueInv'
  <2>1. PendingFeedback = {}
    BY DEF LoopFree, PendingFeedback
  <2>2. /\ pc \notin {"prune"} /\ pc' = "sched" /\ mem' = mem /\ inst' = inst
        /\ attempts' = attempts
    BY <1>1, <2>1 DEF CheckPending, BatchDone, Straight, durable
  <2> QED BY <1>0, <2>2, DueKept
<1>2. ASSUME Abort PROVE DueInv'
  <2>1. /\ pc \in {"hydrated", "work"} /\ pc' = pc /\ mem' = [mem EXCEPT !.aborted = TRUE]
        /\ inst' = inst /\ attempts' = attempts
    BY <1>2 DEF Abort, durable
  <2>2. /\ mem'.completed = mem.completed /\ mem'.skipped = mem.skipped
        /\ mem'.dead = mem.dead /\ mem'.aborted /\ mem'.stage = mem.stage
    BY <1>0, <2>1 DEF MemOf
  <2> QED BY <1>0, <2>1, <2>2, DueKept
<1>3. ASSUME Ending \/ Crash \/ Recover \/ StartRun PROVE DueInv'
  <2>1. /\ pc' \notin {"prune", "start"} /\ inst' = inst
        /\ mem' = EmptyMem \/ mem' = [EmptyMem EXCEPT !.iteration = 1]
    BY <1>3 DEF Ending, Return, Crash, Recover, StartRun, durable, Straight, Under
  <2> QED BY <1>0, <2>1, EmptyIsDue
<1>4. ASSUME NEW n \in Nodes, SkipNode(n) PROVE DueInv'
  <2>1. pc' = pc /\ mem' = mem /\ inst' = inst /\ pc \in {"idle", "work"}
    BY <1>4 DEF SkipNode
  <2>2. CASE pc = "idle"
    BY <1>0, <2>1, <2>2, EmptyIsDue DEF Straight, Under
  <2>3. CASE pc = "work"
    <3>1. n \notin mem.completed
      BY <1>4, SkipsUntouched DEF Each, Agrees
    <3>2. OnlyAt(n, attempts, attempts')
      BY <1>0, <1>4, RecordedAndEnded DEF SkipNode, Notes, Added, Straight
    <3>3. \A r \in mem.completed : attempts'[r] = attempts[r]
      BY <1>0, <3>1, <3>2 DEF OnlyAt, MemOf, Nodes
    <3> QED BY <1>0, <2>1, <2>3, <3>3, DueKept
  <2> QED BY <2>1, <2>2, <2>3
<1>5. ASSUME NEW g \in Gates, DecideGate(g) PROVE DueInv'
  <2>1. /\ pc' = pc /\ mem' = mem /\ inst' = inst /\ pc \in {"idle", "work"}
        /\ attempts' = attempts
    BY <1>5 DEF DecideGate
  <2> QED BY <1>0, <2>1, DueKept
<1> QED BY <1>1, <1>2, <1>3, <1>4, <1>5

\* No step gives back a call of run().
LEMMA CallsGrow ==
  ASSUME IInv, LoopInv, [Next]_vars
  PROVE  /\ Calls' >= Calls
         /\ Resume \/ (\E n \in Nodes : RerunNode(n)) => Calls' > 1
<1>1. /\ inst.runs \in Nat /\ inst.reruns \in Nat /\ Budget /\ inst' = inst
      /\ left.runs \in Nat /\ left.reruns \in Nat
      /\ run # NoRun => Calls >= 1
  BY Limits, TemplateStays DEF IInv, LoopInv, Budget
<1>2. \/ left'.runs = left.runs /\ left'.reruns = left.reruns
      \/ left'.runs = left.runs - 1 /\ left'.reruns = left.reruns
      \/ left'.runs = left.runs /\ left'.reruns = left.reruns - 1
  BY <1>1 DEF Next, Executor, Host, InNode, vars, CheckPending, Sched, PruneNode, PruneEnd,
         FeedbackStep, BatchDone, Ending, StartNode, Work, Route, Complete, StartRun, Resume,
         Abort, Crash, Recover, RerunNode, SkipNode, DecideGate, Budget
<1>3. Calls' >= Calls
  <2> HIDE DEF Budget
  <2> QED BY <1>1, <1>2 DEF Calls
<1>4. ASSUME Resume \/ \E n \in Nodes : RerunNode(n) PROVE Calls' > 1
  <2>1. run # NoRun
    BY <1>4 DEF Resume, RerunNode, Reopen
  <2>2. \/ left'.runs = left.runs - 1 /\ left'.reruns = left.reruns
        \/ left'.runs = left.runs /\ left'.reruns = left.reruns - 1
    BY <1>1, <1>4 DEF Resume, RerunNode, Budget
  <2>3. Calls' = Calls + 1
    BY <1>1, <2>2 DEF Calls
  <2>4. Calls >= 1 /\ Calls \in Int
    BY <1>1, <2>1 DEF Calls
  <2> QED BY <2>3, <2>4
<1> QED BY <1>3, <1>4

LEMMA DueStep ==
  ASSUME IInv, IInv', LoopInv, StraightInv, FirstOfRun => DueInv, [Next]_vars
  PROVE  (FirstOfRun => DueInv)'
<1>1. inst' = inst /\ Calls' >= Calls
  BY TemplateStays, CallsGrow
<1>2. SUFFICES ASSUME FirstOfRun' PROVE DueInv'
  OBVIOUS
<1>3. LoopFree /\ inst.skipSet = {} /\ Calls' <= 1
  BY <1>1, <1>2 DEF FirstOfRun, LoopFree, Edges
<1>4. Calls <= 1 /\ Calls' \in Int
  <2>1. Calls \in Int /\ Calls' \in Int
    <3>1. Budget /\ Budget'
      BY LoopStep DEF LoopInv
    <3>2. inst.runs \in Nat /\ inst.reruns \in Nat
      BY Limits DEF IInv
    <3> QED BY <1>1, <3>1, <3>2 DEF Budget, Calls
  <2> QED BY <1>1, <1>3, <2>1
<1>5. DueInv /\ Straight /\ Each /\ Typed
  BY <1>3, <1>4 DEF FirstOfRun, StraightInv, IInv
<1>6. CASE Executor
  <2>1. ~FeedbackStep
    BY <1>5 DEF FeedbackStep, Straight
  <2> QED BY <1>3, <1>5, <1>6, <2>1, RestIsDue, SchedIsDue, PruneIsDue, StartIsDue DEF Executor
<1>7. CASE Host
  <2>1. ~Resume /\ ~\E n \in Nodes : RerunNode(n)
    BY <1>3, <1>4, CallsGrow
  <2> QED BY <1>3, <1>5, <1>7, <2>1, RestIsDue DEF Host
<1>8. CASE \E n \in Nodes : InNode(n)
  BY <1>3, <1>5, <1>8, WorkIsDue, CompletionIsDue DEF InNode
<1>9. CASE UNCHANGED vars
  BY <1>5, <1>9 DEF vars, DueInv, Open, HasWay, Chose, Done, Latest, Nodes, Edges, Routers
<1> QED BY <1>6, <1>7, <1>8, <1>9 DEF Next

\* Only a loop writes transitions.
NoLoops == LoopFree => trans = {}

LEMMA LoopsAlone ==
  ASSUME StraightInv, NoLoops, [Next]_vars
  PROVE  NoLoops'
<1>1. LoopFree' = LoopFree
  BY TemplateStays DEF LoopFree, Edges
<1>2. CASE FeedbackStep
  BY <1>1, <1>2 DEF NoLoops, StraightInv, Straight, FeedbackStep
<1>3. CASE ~FeedbackStep
  <2>1. trans' = trans
    BY <1>3 DEF Next, Executor, Host, InNode, vars, durable, CheckPending, Sched, PruneNode,
           PruneEnd, BatchDone, Ending, StartNode, Work, Route, Complete, StartRun, Resume,
           Abort, Crash, Recover, RerunNode, SkipNode, DecideGate, Reopen
  <2> QED BY <1>1, <2>1 DEF NoLoops
<1> QED BY <1>2, <1>3

LEMMA DueInit == Init => DueInv
<1> SUFFICES ASSUME Init PROVE DueInv
  OBVIOUS
<1>1. Typed /\ mem = EmptyMem /\ pc = "idle"
  BY InitHolds DEF Init, IInv
<1>2. EmptyMem.dead = {}
  BY DEF EmptyMem
<1> QED BY <1>1, <1>2, EmptyIs, Facts DEF DueInv, HasWay

LEMMA DueAlways ==
  Spec => [](IInv /\ LoopInv /\ StraightInv /\ NoLoops /\ (FirstOfRun => DueInv))
<1>1. IInv /\ LoopInv /\ StraightInv /\ NoLoops /\ (FirstOfRun => DueInv) /\ [Next]_vars
        => IInv' /\ LoopInv' /\ StraightInv' /\ NoLoops' /\ (FirstOfRun => DueInv)'
  BY NextStep, LoopStep, StraightStep, LoopsAlone, DueStep
<1>2. Init => IInv /\ LoopInv /\ StraightInv /\ NoLoops /\ (FirstOfRun => DueInv)
  BY InitHolds, LoopInit, StraightInit, DueInit DEF Init, NoLoops
<1> QED BY <1>1, <1>2, PTL DEF Spec

\* A node enters from the batch alone.
LEMMA Entered ==
  ASSUME IInv, [Next]_vars, NEW n \in Nodes, Entering(n), LoopFree, Straight
  PROVE  StartNode(n) /\ n \in mem.batch
<1>0. Typed /\ Places /\ mem \in MemOf(inst) /\ n \in NodeIds /\ Nodes \subseteq NodeIds
  BY Facts DEF IInv, Typed
<1>1. ~(mem' = mem) /\ mem'.stage # mem.stage
  BY DEF Entering
<1>2. ASSUME NEW q \in Nodes, InNode(q) PROVE FALSE
  <2>1. CASE Work(q)
    <3>1. mem.stage[q] # "none" /\ Effect(q)
      BY <1>0, <1>2, <2>1, WorkEffect
    <3> QED BY <1>0, <3>1 DEF Entering, Effect, Others
  <2>2. CASE Route(q) \/ Complete(q)
    BY <1>0, <1>2, <2>2, CompletionReaches DEF Entering
  <2> QED BY <1>2, <2>1, <2>2 DEF InNode
<1>3. ASSUME PruneEnd PROVE FALSE
  <2>1. mem' = Leave(mem, cur.node)
    BY <1>3 DEF PruneEnd
  <2>2. mem'.stage = [mem.stage EXCEPT ![cur.node] = "none"]
    BY <1>0, <2>1 DEF Leave, MemOf
  <2>3. mem.stage \in [NodeIds -> Stages]
    BY <1>0 DEF MemOf
  <2> QED BY <1>0, <2>2, <2>3 DEF Entering
<1>4. ASSUME NEW q \in Nodes, StartNode(q) PROVE q = n /\ n \in mem.batch
  <2>1. q \in mem.batch
    <3>1. mem.batch # {} /\ mem.batch \in SUBSET NodeIds
      BY <1>0, <1>4 DEF Places, StartNode, MemOf, Nodes
    <3> QED BY <1>4, <3>1, FirstIn DEF StartNode
  <2>2. mem.iteration # 0 /\ mem.stage \in [NodeIds -> Stages]
    BY <1>0, <1>4, Iterating DEF StartNode, MemOf
  <2>3. mem'.stage = mem.stage \/ \E s : mem'.stage = [mem.stage EXCEPT ![q] = s]
    BY <1>0, <1>4, <2>2, StartOutcome DEF SettledAtStart, SetOff
  <2>4. q \in NodeIds
    BY <1>0
  <2> QED BY <1>0, <2>1, <2>2, <2>3, <2>4 DEF Entering
<1>5. ASSUME \/ Sched \/ PruneNode \/ Abort \/ StartRun \/ Ending \/ BatchDone \/ Crash
      PROVE  mem'.stage = mem.stage \/ mem'.stage = EmptyMem.stage
  <2>1. CASE Sched \/ PruneNode \/ Abort \/ BatchDone
    <3>1. DOMAIN mem' = DOMAIN mem
      BY <2>1 DEF Sched, PruneNode, Abort, BatchDone, Straight
    <3> QED BY <1>0, <2>1 DEF Sched, PruneNode, Abort, BatchDone, Straight, MemOf
  <2>2. CASE StartRun \/ Ending \/ Crash
    BY <2>2 DEF StartRun, Ending, Return, Crash, EmptyMem
  <2> QED BY <1>5, <2>1, <2>2
<1>6. ASSUME NEW invalid, NEW resume, Reopen(invalid, resume) PROVE mem'.stage = EmptyMem.stage
  BY <1>6 DEF Reopen, Hydrated, EmptyMem
<1>7. EmptyMem.stage[n] = "none"
  BY <1>0, EmptyIs
<1>8. ~FeedbackStep
  BY DEF FeedbackStep, Straight
<1>9. ASSUME CheckPending \/ Recover \/ (\E q \in Nodes : SkipNode(q))
               \/ (\E g \in Gates : DecideGate(g)) \/ UNCHANGED vars
      PROVE  mem' = mem
  BY <1>9 DEF CheckPending, Recover, SkipNode, DecideGate, vars
<1>10. ~Executor \/ \E q \in Nodes : StartNode(q)
  BY <1>1, <1>3, <1>5, <1>7, <1>8, <1>9 DEF Executor, Entering
<1>11. ~Host
  <2>1. ~Resume /\ ~\E q \in Nodes : RerunNode(q)
    BY <1>6, <1>7 DEF Resume, RerunNode, Entering
  <2> QED BY <1>1, <1>5, <1>7, <1>9, <2>1 DEF Host, Entering
<1> QED BY <1>1, <1>2, <1>4, <1>9, <1>10, <1>11 DEF Next

\* The predecessors of a node that is started are done by their rows.
LEMMA StartersFollow ==
  ASSUME IInv, Straight, Each, LoopFree, NEW n \in Nodes, n \in mem.batch,
         NEW p \in Preds(Edges, n)
  PROVE  /\ p \in Done(mem) /\ LatestStatus(attempts, p) \in {"completed", "skipped"}
         /\ p \in mem.completed => LatestStatus(attempts, p) = "completed"
<1>1. p \in Done(mem) /\ p \in Nodes
  BY Facts DEF Each, Follows, IInv, Preds, In, Forward
<1>2. /\ attempts[p] # << >>
      /\ IF p \in mem.completed THEN Last(attempts[p]) = "completed"
                               ELSE Last(attempts[p]) = "skipped"
  BY <1>1 DEF Each, Agrees, Done
<1> QED BY <1>1, <1>2 DEF LatestStatus, Latest, Last

\* A node starts only when its predecessors are done by their rows.
StartsAfterInputs ==
  [][\A n \in Nodes : Entering(n) =>
       \A p \in Preds(Edges, n) : LatestStatus(attempts, p) \in {"completed", "skipped"}]_vars

\* In a template without feedback edges no node starts before its predecessors
\* have completed or were skipped by their rows, whatever was paused, resumed, run
\* again, skipped or lost before: the executor's sets never run ahead of the tables.
THEOREM InputsComeFirst == Spec /\ []LoopFree => StartsAfterInputs
<1>1. ASSUME IInv, StraightInv, LoopFree, [Next]_vars, NEW n \in Nodes, Entering(n),
             NEW p \in Preds(Edges, n)
      PROVE  LatestStatus(attempts, p) \in {"completed", "skipped"}
  BY <1>1, Entered, StartersFollow DEF StraightInv
<1>2. IInv /\ StraightInv /\ LoopFree /\ [Next]_vars
        => [\A n \in Nodes : Entering(n) =>
              \A p \in Preds(Edges, n) :
                LatestStatus(attempts, p) \in {"completed", "skipped"}]_vars
  BY <1>1
<1> QED BY <1>2, StraightAlways, PTL DEF StartsAfterInputs, Spec

\* There, before the run is called a second time and without options.skipNodeIds,
\* a node starts only if it has no incoming edge or one that its source took: what
\* the routers did not select, and what hangs on that alone, does not run.  A
\* second call does not know any more which edges the routers killed.
THEOREM OnlySelectedRuns == Spec /\ []FirstOfRun => StartsWhenDue
<1>1. ASSUME IInv, StraightInv, NoLoops, FirstOfRun, DueInv, [Next]_vars, NEW n \in Nodes,
             Entering(n)
      PROVE  /\ \A p \in Preds(Edges, n) :
                  /\ LatestStatus(attempts, p) \in {"completed", "skipped"}
                  /\ n \in ActiveBody /\ p \in ActiveBody
                       /\ LatestStatus(attempts, p) = "completed"
                       => Latest(attempts, p).iteration = run.iteration
             /\ In(Edges, n) = {} \/ \E e \in In(Edges, n) : Live(e)
  <2>0. Straight /\ Each /\ LoopFree /\ Typed
    BY <1>1 DEF StraightInv, FirstOfRun, IInv
  <2>1. StartNode(n) /\ n \in mem.batch
    BY <1>1, <2>0, Entered
  <2>2. ActiveBody = {}
    BY <1>1, <2>0 DEF NoLoops, ActiveBody
  <2>3. \A p \in Preds(Edges, n) :
          /\ p \in Done(mem) /\ LatestStatus(attempts, p) \in {"completed", "skipped"}
          /\ p \in mem.completed => LatestStatus(attempts, p) = "completed"
    BY <1>1, <2>0, <2>1, StartersFollow
  <2>4. Open(mem, n) /\ HasWay(mem, n)
    BY <1>1, <2>1 DEF DueInv, StartNode
  <2>5. ASSUME NEW e \in In(Edges, n), e.id \notin mem.dead, e.source \notin mem.skipped
        PROVE  Live(e)
    <3>1. e \in Edges /\ e.source \in Preds(Edges, n) /\ e \in Out(Edges, e.source)
      BY <2>0 DEF LoopFree, Preds, In, Out, Forward, Feedback
    <3>2. e.source \in mem.completed /\ LatestStatus(attempts, e.source) = "completed"
      BY <2>3, <2>5, <3>1 DEF Done
    <3>3. ASSUME e.source \in Routers PROVE Latest(attempts, e.source).edge = e.id
      <4>1. PICK f \in Out(Edges, e.source) :
              /\ Latest(attempts, e.source).edge = f.id
              /\ \A x \in Out(Edges, e.source) \ {f} : x.id \in mem.dead
        BY <1>1, <3>2, <3>3 DEF DueInv, Chose
      <4> QED BY <2>5, <3>1, <4>1
    <3> QED BY <3>2, <3>3 DEF Live
  <2>6. In(Edges, n) = {} \/ \E e \in In(Edges, n) : Live(e)
    BY <2>4, <2>5 DEF HasWay
  <2> QED BY <2>2, <2>3, <2>6
<1>2. IInv /\ LoopInv /\ StraightInv /\ NoLoops /\ (FirstOfRun => DueInv) /\ FirstOfRun
        /\ [Next]_vars
        => [\A n \in Nodes : Entering(n) =>
              /\ \A p \in Preds(Edges, n) :
                   /\ LatestStatus(attempts, p) \in {"completed", "skipped"}
                   /\ n \in ActiveBody /\ p \in ActiveBody
                        /\ LatestStatus(attempts, p) = "completed"
                        => Latest(attempts, p).iteration = run.iteration
              /\ In(Edges, n) = {} \/ \E e \in In(Edges, n) : Live(e)]_vars
  BY <1>1
<1> QED BY <1>2, DueAlways, PTL DEF StartsWhenDue, Spec
===============================================================================
