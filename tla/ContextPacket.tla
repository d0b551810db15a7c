------------------------------ MODULE ContextPacket ------------------------------
(***************************************************************************)
(* What an agent is told (domain/contextEngine.ts): the files a role gets  *)
(* to see, ranked and fitted into the budget, and what is always sent.     *)
(*                                                                         *)
(* A file is a record of path (a number: paths are compared, and as long   *)
(* as the file costs), secret, mentioned, scoped, recent and distance, -1  *)
(* if the import graph does not reach it.  Texts are their lengths.        *)
(***************************************************************************)
EXTENDS Integers, Sequences, FiniteSets

CONSTANT RoleStrategy   \* [role -> [files, findings]]: what each role is sent

\* A caller's budget narrows that of the role.
MaxFiles(q) ==
  IF q.maxFiles < RoleStrategy[q.role].files THEN q.maxFiles ELSE RoleStrategy[q.role].files

Proximity(d) == IF d \in 0..4 THEN 40 - d * 8 ELSE 0

Score(f) ==
  (IF f.mentioned THEN 1000 ELSE 0) + (IF f.scoped THEN 100 ELSE 0)
    + (IF f.recent THEN 50 ELSE 0) + Proximity(f.distance)

Outranks(f, g) == Score(f) > Score(g) \/ (Score(f) = Score(g) /\ f.path < g.path)

\* What may not be sent at all does not compete.
MaySend(files)  == {f \in files : ~f.secret}
Ahead(files, f) == {g \in MaySend(files) : Outranks(g, f)}

\* Sorted: the file of rank i is the one that i - 1 others outrank.
RankFiles(files) ==
  [i \in 1..Cardinality(MaySend(files)) |->
     CHOOSE f \in MaySend(files) : Cardinality(Ahead(files, f)) = i - 1]

Selected(q) ==
  LET ranked == RankFiles(q.files)
  IN SubSeq(ranked, 1, IF Len(ranked) < MaxFiles(q) THEN Len(ranked) ELSE MaxFiles(q))

\* Sent whatever it costs; of the instructions of the repository, a quarter of the budget
\* and a note that they were cut.
NoteChars == 1
CapInstructions(q) ==
  IF q.instructions > q.maxChars \div 4 THEN (q.maxChars \div 4) + NoteChars ELSE q.instructions
FixedChars(q) == q.objective + q.locked + q.rules + CapInstructions(q)

\* A file that does not fit is left out, and the next one is tried.
FitOne(max, fitted, f) ==
  IF fitted.used + f.path > max
  THEN [fitted EXCEPT !.dropped = Append(@, f)]
  ELSE [fitted EXCEPT !.kept = Append(@, f), !.used = @ + f.path]

NothingFitted(q) == [kept |-> <<>>, dropped |-> <<>>, used |-> FixedChars(q)]

Fit(q, files) ==
  LET fit[n \in 0..Len(files)] ==
        IF n = 0 THEN NothingFitted(q) ELSE FitOne(q.maxChars, fit[n - 1], files[n])
  IN  fit[Len(files)]

\* Variant for mutation: what is dropped for its length is not reported.
CompileContextSilently(q) ==
  LET ranked == RankFiles(q.files)  fitted == Fit(q, Selected(q))
  IN [files |-> fitted.kept, locked |-> q.locked,
      findings |-> IF RoleStrategy[q.role].findings THEN q.findings ELSE 0,
      forbidden |-> {f \in q.files : f.secret}, used |-> fitted.used,
      truncated |-> SubSeq(ranked, MaxFiles(q) + 1, Len(ranked))]

CompileContext(q) ==
  LET ranked == RankFiles(q.files)  fitted == Fit(q, Selected(q))
  IN [files |-> fitted.kept, locked |-> q.locked,
      findings |-> IF RoleStrategy[q.role].findings THEN q.findings ELSE 0,
      forbidden |-> {f \in q.files : f.secret}, used |-> fitted.used,
      truncated |-> SubSeq(ranked, MaxFiles(q) + 1, Len(ranked)) \o fitted.dropped]

-----------------------------------------------------------------------------
\* What a packet p says of the candidates of q is complete: each is sent, forbidden or
\* reported as left out, and none twice; what is sent is in the order of its relevance and
\* fits; and what is left out is so because more relevant files fill the count or the
\* budget (contextEngine.ts:196).
IsHonest(q, p) ==
  LET sent == {p.files[i] : i \in DOMAIN p.files}
      left == {p.truncated[i] : i \in DOMAIN p.truncated}
  IN /\ sent \cup left \cup p.forbidden = q.files
     /\ Len(p.files) + Len(p.truncated) = Cardinality(MaySend(q.files))
     /\ \A f \in sent : ~f.secret
     /\ \A i, j \in DOMAIN p.files : i < j => Outranks(p.files[i], p.files[j])
     /\ p.used > q.maxChars => p.files = <<>>
     /\ p.locked = q.locked
     /\ \A f \in left :
          \/ p.used + f.path > q.maxChars
          \/ Cardinality(Ahead(q.files, f)) >= MaxFiles(q)
=============================================================================
