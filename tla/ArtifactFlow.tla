------------------------------ MODULE ArtifactFlow ------------------------------
(***************************************************************************)
(* What nodes hand to one another: a node's artifacts are matched against  *)
(* the outputs it declares, written to disk and to the database one by one *)
(* (artifacts/artifactService.ts, db/artifactStore.ts), read again after a *)
(* restart, and bound to the input slots of the next node                  *)
(* (workflows/graphExecutor.ts).                                           *)
(*                                                                         *)
(* Two nodes precede the one that is bound: "p", whose attempts are        *)
(* followed here, and "q", whose artifacts are there from the start.  An   *)
(* artifact has a kind and the names it answers to: its title, its output, *)
(* its name, its id.  Every attempt has an id of its own, so no attempt    *)
(* finds artifacts of its own when it writes.                              *)
(***************************************************************************)
EXTENDS Integers, Sequences, FiniteSets, SequencesExt

CONSTANTS
  Wirings,      \* the edges, inputs and outputs, see Wiring below
  MaxAttempts   \* of "p"

None == "none"
Sources == {"p", "q"}

(* A wiring is a record of                                                 *)
(*   outputs  [source -> <<[name, kind, required], ...>>]                  *)
(*   inputs   <<[name, kind, required], ...>> of the node that is bound    *)
(*   edges    <<[source, from, to], ...>> with the handles of both ends,   *)
(*            None where there is none                                     *)
(*   makes    what an attempt of "p" may return: sequences of artifacts,   *)
(*            records of kind and names                                    *)
(*   beside   the artifacts of "q"                                         *)
(*   context  the names of the initial context                             *)
(*   rough    whether Forge may die and files may be damaged               *)

\* What is assumed of the constants.
WiringsAssumption ==
  /\ MaxAttempts \in Nat
  /\ \A w \in Wirings :
       /\ w.outputs \in [Sources -> Seq([name : STRING, kind : STRING, required : BOOLEAN])]
       /\ w.makes \subseteq Seq([kind : STRING, names : SUBSET STRING])

VARIABLES
  wiring,     \* the wiring, which never changes
  attempt,    \* the number of the attempt of "p"
  status,     \* its row: "running" (the leaf is), "writing" (still running: its
              \* artifacts are being written), "completed", "failed"
  made,       \* what the attempt returned
  at,         \* how many of them are recorded
  written,    \* whether the file of the next one is
  records,    \* rows of artifacts: [attempt, order, total]
  disk,       \* the files that are as they were written: [attempt, order]
  known,      \* whether what "p" returned is in memory
  lineage,    \* what is in memory then
  next,       \* the next node: "waiting", "bound" or "refused"
  given       \* what it is bound to, see Bound

artifactVars ==
  <<wiring, attempt, status, made, at, written, records, disk, known, lineage, next, given>>

-----------------------------------------------------------------------------
(* Outputs: each required one needs an artifact of its own.                *)

\* matchesArtifactName.
MatchesName(a, name) == name \in a.names

Kinds(slots, kind)  == {s \in ToSet(slots) : s.kind = kind}
Called(slots, name) == {s \in ToSet(slots) : s.name = name}

FirstOf(places) == CHOOSE i \in places : \A j \in places : i <= j

\* An output takes the first of the artifacts that are left and suit it, if there is one.
TakeFirst(acc, output, suitable) ==
  IF acc.left \cap suitable = {} THEN [acc EXCEPT !.missing = @ \cup {output}]
  ELSE [acc EXCEPT !.left = @ \ {FirstOf(acc.left \cap suitable)}]

\* One pass over the outputs that are wanted, in their order: the artifacts that are left,
\* the outputs that got none.
Pass(count, wanted, start, suitable) ==
  LET pass[n \in 0..count] ==
        IF n = 0 THEN [left |-> start, missing |-> {}]
        ELSE IF n \in wanted THEN TakeFirst(pass[n - 1], n, suitable[n]) ELSE pass[n - 1]
  IN  pass[count]

\* By name and kind; what is missing then by kind, where no other output has that kind
\* and no other one is meant.
Missing(outputs, artifacts) ==
  LET Named(a, o) == a.kind = o.kind /\ MatchesName(a, o.name)
      Alone(a, o) ==
        /\ a.kind = o.kind
        /\ Cardinality({i \in DOMAIN outputs : outputs[i].kind = o.kind}) = 1
        /\ \A other \in ToSet(outputs) : other.name # o.name => ~MatchesName(a, other.name)
      named == [n \in DOMAIN outputs |-> {i \in DOMAIN artifacts : Named(artifacts[i], outputs[n])}]
      alone == [n \in DOMAIN outputs |-> {i \in DOMAIN artifacts : Alone(artifacts[i], outputs[n])}]
      first == Pass(Len(outputs), {n \in DOMAIN outputs : outputs[n].required},
                    DOMAIN artifacts, named)
  IN Pass(Len(outputs), first.missing, first.left, alone).missing

-----------------------------------------------------------------------------
(* Inputs.  What an edge or a slot resolves to: a refusal, or slots with   *)
(* their artifacts, and the artifacts that come along.                     *)

Nothing == [refused |-> FALSE, slots |-> <<>>, along |-> {}]
Refused == [Nothing EXCEPT !.refused = TRUE]
Bind(slot, a) == [refused |-> FALSE, slots |-> (slot :> a), along |-> {a}]

Only(S) == CHOOSE x \in S : TRUE

\* Variant for mutation: the first of several is as good as any.
ResolveAny(slot, target, candidates, otherwise) ==
  IF candidates = {} THEN otherwise
  ELSE IF \E s \in target : s.kind # Only(candidates).kind
  THEN Refused ELSE Bind(slot, Only(candidates))

\* One candidate is bound, if it is of the kind of its slot; several are refused.
Resolve(slot, target, candidates, otherwise) ==
  IF candidates = {} THEN otherwise
  ELSE IF Cardinality(candidates) > 1 \/ \E s \in target : s.kind # Only(candidates).kind
  THEN Refused ELSE Bind(slot, Only(candidates))

Unique(slots, kind) == IF Cardinality(Kinds(slots, kind)) = 1 THEN Kinds(slots, kind) ELSE {}

SlotName(target, e) ==
  IF target # {} THEN Only(target).name ELSE IF e.to # None THEN e.to ELSE e.from

\* The edge names an output that its source declares: nothing else will do.
FromOutput(e, o, inputs, things) ==
  LET named  == Called(inputs, e.from)
      target == IF e.to # None THEN Called(inputs, e.to)
                ELSE IF named # {} THEN named ELSE Kinds(inputs, o.kind)
      needed == o.required \/ \A s \in target : s.required
  IN IF \/ e.to = None /\ Cardinality(target) # 1
        \/ \E s \in target : s.kind # o.kind
     THEN Refused
     ELSE Resolve(SlotName(target, e), target,
                  {a \in things : a.kind = o.kind /\ MatchesName(a, e.from)},
                  IF needed THEN Refused ELSE Nothing)

TitleTarget(e, inputs) ==
  IF e.to # None THEN Called(inputs, e.to)
  ELSE IF Called(inputs, e.from) # {} THEN Called(inputs, e.from)
  ELSE Unique(inputs, e.from)

\* It names something else: a title, or a kind.
FromTitle(e, inputs, edges, things) ==
  LET target == TitleTarget(e, inputs)
      others == {f \in ToSet(edges) : f # e /\ f.source = e.source /\ f.from # None}
      sorted == {a \in things : a.kind = e.from /\ \A f \in others : ~MatchesName(a, f.from)}
      meant  == {a \in sorted : e.to # None /\ MatchesName(a, e.to)}
      slot   == SlotName(target, e)
  IN Resolve(slot, target, {a \in things : MatchesName(a, e.from)},
       Resolve(slot, target,
               IF Cardinality(sorted) > 1 /\ meant # {} THEN meant ELSE sorted, Nothing))

\* It names only a slot.
IntoSlot(e, outputs, inputs, things) ==
  LET target == Called(inputs, e.to)
      sorted == {a \in things :
                   /\ \E s \in target : a.kind = s.kind
                   /\ \A o \in ToSet(outputs) : o.name # e.to => ~MatchesName(a, o.name)}
  IN Resolve(e.to, target, {a \in things : MatchesName(a, e.to)},
             Resolve(e.to, target, sorted, Nothing))

\* It names nothing: every kind of which there is one goes to the slot of that name or
\* kind, and to one of its own if there is no such slot.
ByKind(inputs, things) ==
  LET kinds == {a.kind : a \in things}
      Of(k) == {a \in things : a.kind = k}
      lone  == {k \in kinds : Cardinality(Of(k)) = 1}
      Slot(k) == IF Called(inputs, k) # {} \/ Unique(inputs, k) = {} THEN k
                 ELSE Only(Unique(inputs, k)).name
  IN IF \E k \in kinds \ lone : Kinds(inputs, k) # {} THEN Refused
     ELSE [refused |-> FALSE, along |-> things,
           slots |-> [s \in {Slot(k) : k \in lone} |->
                        Only(Of(CHOOSE k \in lone : Slot(k) = s))]]

EdgeGives(e, w, sets) ==
  LET declared == {o \in ToSet(w.outputs[e.source]) : o.name = e.from}
      things    == sets[e.source]
  IN IF e.from # None
     THEN IF declared # {} THEN FromOutput(e, Only(declared), w.inputs, things)
                           ELSE FromTitle(e, w.inputs, w.edges, things)
     ELSE IF e.to # None THEN IntoSlot(e, w.outputs[e.source], w.inputs, things)
     ELSE ByKind(w.inputs, things)

\* The slots an edge speaks for: nothing else will fill them.
Claims(e, w) ==
  LET declared == {o \in ToSet(w.outputs[e.source]) : o.name = e.from}
      target   == IF declared = {} THEN TitleTarget(e, w.inputs)
                  ELSE IF e.to # None THEN Called(w.inputs, e.to)
                  ELSE IF Called(w.inputs, e.from) # {} THEN Called(w.inputs, e.from)
                  ELSE Kinds(w.inputs, Only(declared).kind)
  IN ({e.from, e.to} \cup {s.name : s \in IF e.from = None THEN {} ELSE target}) \ {None}

-----------------------------------------------------------------------------
(* Slots that no edge speaks for are filled by edges without a source      *)
(* handle, from the initial context, or not at all.                        *)

EdgeFills(e, s, w, sets, bound) ==
  LET same     == {a \in sets[e.source] : a.kind = s.kind}
      named    == {a \in same : MatchesName(a, s.name)}
      declared == Kinds(w.outputs[e.source], s.kind)
      used     == {bound[n] : n \in {i.name : i \in ToSet(w.inputs)} \cap DOMAIN bound}
  IN IF e.from # None THEN Nothing
     ELSE IF named # {} THEN Resolve(s.name, {}, named, Nothing)
     ELSE IF /\ Called(w.outputs[e.source], s.name) = {}
             /\ Cardinality(declared) <= 1
             /\ \A o \in declared : \E a \in same : MatchesName(a, o.name)
             /\ Cardinality(same) = 1 /\ same \cap used = {}
     THEN Bind(s.name, Only(same)) ELSE Nothing

Merge(acc, more) ==
  [acc EXCEPT !.refused = more.refused, !.slots = more.slots @@ @, !.along = @ \cup more.along]

FromContext(s) == [source |-> "context", kind |-> s.kind, names |-> {}, order |-> 0]

FillSlot(acc, s, w, sets, claimed) ==
  LET open(a) == ~a.refused /\ s.name \notin DOMAIN a.slots \cup claimed
      wired == FoldLeft(LAMBDA a, e :
                 IF open(a) THEN Merge(a, EdgeFills(e, s, w, sets, a.slots)) ELSE a,
                 acc, w.edges)
  IN IF acc.refused THEN acc
     ELSE IF open(wired) /\ s.name \in w.context
     THEN Merge(wired, Bind(s.name, FromContext(s)))
     ELSE IF ~wired.refused /\ s.required /\ s.name \notin DOMAIN wired.slots
     THEN [wired EXCEPT !.refused = TRUE] ELSE wired

\* resolveNodeInputs: edge by edge, and slot by slot; an error and a required slot that
\* is empty both refuse the node.
Bound(w, sets) ==
  LET wired == FoldLeft(LAMBDA acc, e :
                 IF acc.refused THEN acc ELSE Merge(acc, EdgeGives(e, w, sets)),
                 Nothing, w.edges)
      claimed == UNION {Claims(e, w) : e \in ToSet(w.edges)}
  IN FoldLeft(LAMBDA acc, s : FillSlot(acc, s, w, sets, claimed), wired, w.inputs)

-----------------------------------------------------------------------------
(* The attempts of "p", and the disk.                                      *)

From(source, artifacts) ==
  {[source |-> source, order |-> i, kind |-> artifacts[i].kind, names |-> artifacts[i].names] :
     i \in DOMAIN artifacts}

ArtifactInit ==
  /\ wiring \in Wirings
  /\ attempt = 1 /\ status = "running" /\ made = <<>> /\ at = 0 /\ written = FALSE
  /\ records = {} /\ disk = {} /\ known = FALSE /\ lineage = <<>>
  /\ next = "waiting" /\ given = Nothing

\* The leaf returned: without all that is required the attempt fails.
Finish ==
  /\ status = "running"
  /\ \E artifacts \in wiring.makes :
       /\ made' = artifacts
       /\ status' = IF Missing(wiring.outputs["p"], artifacts) = {} THEN "writing" ELSE "failed"
  /\ UNCHANGED <<wiring, attempt, at, written, records, disk, known, lineage, next, given>>

Following == [attempt |-> attempt, order |-> at + 1]

\* persistNodeArtifacts: the file of an artifact, then its row with its place among all.
WriteFile ==
  /\ status = "writing" /\ at < Len(made) /\ ~written
  /\ written' = TRUE /\ disk' = disk \cup {Following}
  /\ UNCHANGED <<wiring, attempt, status, made, at, records, known, lineage, next, given>>

Record ==
  /\ status = "writing" /\ written
  /\ written' = FALSE /\ at' = at + 1
  /\ records' = records \cup {[attempt |-> attempt, order |-> at + 1, total |-> Len(made)]}
  /\ UNCHANGED <<wiring, attempt, status, made, disk, known, lineage, next, given>>

\* The row cannot be written: the file is taken back, and the attempt fails.
RecordFails ==
  /\ status = "writing" /\ written /\ wiring.rough
  /\ status' = "failed" /\ written' = FALSE /\ disk' = disk \ {Following}
  /\ UNCHANGED <<wiring, attempt, made, at, records, known, lineage, next, given>>

Complete ==
  /\ status = "writing" /\ at = Len(made)
  /\ status' = "completed" /\ known' = TRUE /\ lineage' = made
  /\ UNCHANGED <<wiring, attempt, made, at, written, records, disk, next, given>>

\* The user runs the node again.
Retry ==
  /\ status = "failed" /\ attempt < MaxAttempts
  /\ attempt' = attempt + 1 /\ status' = "running" /\ made' = <<>> /\ at' = 0
  /\ UNCHANGED <<wiring, written, records, disk, known, lineage, next, given>>

-----------------------------------------------------------------------------
(* Faults: Forge dies, a file is damaged.                                  *)

\* The next start marks an attempt that was running as failed; of one that completed only
\* rows and files are left.
Crash ==
  /\ wiring.rough /\ next = "waiting" /\ status # "failed" /\ (status = "completed" => known)
  /\ status' = IF status = "completed" THEN "completed" ELSE "failed"
  /\ written' = FALSE /\ known' = FALSE /\ lineage' = <<>>
  /\ UNCHANGED <<wiring, attempt, made, at, records, disk, next, given>>

Damage ==
  /\ wiring.rough /\ next = "waiting"
  /\ \E f \in disk : disk' = disk \ {f}
  /\ UNCHANGED <<wiring, attempt, status, made, at, written, records, known, lineage, next, given>>

Lost == status = "completed" /\ ~known /\ next = "waiting"
Own  == {r \in records : r.attempt = attempt}

Readable ==
  /\ \A r \in Own : [attempt |-> r.attempt, order |-> r.order] \in disk
  /\ \A r \in Own : r.total = Cardinality(Own)

\* The i-th row, in the order of its artifacts.
Ordered(i) == CHOOSE r \in Own : Cardinality({q \in Own : q.order <= r.order}) = i

\* hydrateNodeArtifacts, in the order they were returned: every file as it was written,
\* none of them missing.
Hydrate ==
  /\ Lost /\ Readable
  /\ known' = TRUE
  /\ lineage' = [i \in 1..Cardinality(Own) |-> made[Ordered(i).order]]
  /\ UNCHANGED <<wiring, attempt, status, made, at, written, records, disk, next, given>>

\* Otherwise the run ends.
HydrateFails ==
  /\ Lost /\ ~Readable
  /\ next' = "refused"
  /\ UNCHANGED <<wiring, attempt, status, made, at, written, records, disk, known, lineage, given>>

\* The next node starts.
StartNext ==
  /\ known /\ next = "waiting"
  /\ given' = Bound(wiring, [s \in Sources |->
                IF s = "p" THEN From("p", lineage) ELSE From("q", wiring.beside)])
  /\ next' = IF given'.refused THEN "refused" ELSE "bound"
  /\ UNCHANGED <<wiring, attempt, status, made, at, written, records, disk, known, lineage>>

ArtifactNext ==
  \/ Finish \/ WriteFile \/ Record \/ RecordFails \/ Complete \/ Retry
  \/ Crash \/ Damage \/ Hydrate \/ HydrateFails \/ StartNext

-----------------------------------------------------------------------------
(* Properties.                                                             *)

\* No artifact stands for two outputs that are required (graphExecutor.ts:1926).
OutputsAreDistinct ==
  status = "completed" =>
    LET needed == {i \in DOMAIN wiring.outputs["p"] : wiring.outputs["p"][i].required} IN
    \E f \in [needed -> DOMAIN made] :
      /\ \A i, j \in needed : f[i] = f[j] => i = j
      /\ \A i \in needed : made[f[i]].kind = wiring.outputs["p"][i].kind

\* Whatever died or was damaged in between, the next node is given all that the attempt
\* returned, in its order, or none of it (graphExecutor.ts:2171).
NothingIsLost == known => lineage = made

\* The names by which a template tells artifacts apart.
Mentioned ==
  UNION {{e.from, e.to} : e \in ToSet(wiring.edges)}
    \cup UNION {{s.name : s \in ToSet(slots)} :
                  slots \in {wiring.inputs} \cup {wiring.outputs[s] : s \in Sources}}

\* A slot holds an artifact of its kind (or of the kind whose name it bears, which an edge
\* without handles puts there unchecked, graphExecutor.ts:2505), and never one of two that
\* the template does not tell apart (Axiom A2, graphExecutor.ts:2426); and where only one
\* edge speaks for a slot and names an output that is declared, it holds that output
\* (graphExecutor.ts:2234).
NothingIsGuessed ==
  next = "bound" =>
    \A s \in ToSet(wiring.inputs) : s.name \in DOMAIN given.slots =>
      LET a == given.slots[s.name]
          speaking == {e \in ToSet(wiring.edges) : s.name \in Claims(e, wiring)}
      IN
      /\ a.kind = s.kind \/ a.kind = s.name
      /\ a.source = "p" =>
           \A b \in From("p", made) :
             b # a /\ b.kind = a.kind => b.names \cap Mentioned # a.names \cap Mentioned
      /\ \A e \in speaking :
           speaking = {e} /\ e.to = s.name /\ Called(wiring.outputs[e.source], e.from) # {}
             => MatchesName(a, e.from) /\ a.source = e.source
      /\ s.required => s.name \in DOMAIN given.slots

ArtifactsArriveAsMade == OutputsAreDistinct /\ NothingIsLost /\ NothingIsGuessed
=============================================================================
