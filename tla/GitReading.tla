------------------------------- MODULE GitReading -------------------------------
(***************************************************************************)
(* What Forge reads of a repository: src/main/git, the probe of a folder   *)
(* (validateRepository.ts), the snapshot before a step and the diff of the *)
(* worktree after it, which becomes a change set or what ChangesPage shows.*)
(* A diff is four git commands and then two for each untracked file; they  *)
(* run side by side, each at a moment of its own, while the agent, the     *)
(* user and git itself go on changing the files.                           *)
(*                                                                         *)
(* A file is its content: a number, None where there is no file.  git      *)
(* joins a deleted and an added file of the same content as a rename (of   *)
(* similar content, in git).  What others do: Edit, Stage, Untrack (git rm *)
(* --cached), Move and Commit.                                             *)
(***************************************************************************)
EXTENDS Integers, FiniteSets

CONSTANTS
  Paths,      \* the paths of the repository
  Contents,   \* what a file may hold
  Ignored,    \* paths that .gitignore names
  Readings    \* [candidate, head, index, worktree, born, caller, strict, acts, may]

None == 0
Trees == [Paths -> Contents \cup {None}]

\* What is assumed of the constants.
ReadingsAssumption ==
  /\ IsFiniteSet(Paths) /\ "none" \notin Paths
  /\ None \notin Contents /\ Ignored \subseteq Paths
  /\ \A r \in Readings : {r.head, r.index, r.worktree} \subseteq Trees

VARIABLES
  scene,      \* who reads what, one of Readings
  moment,     \* "choosing", "refused", "bound", "clean", "working", "diffing", "untracked",
              \* "captured", "broken", "failed"
  head,       \* the tree of HEAD
  index,      \* what is staged: the paths git tracks
  worktree,   \* what is on disk
  base,       \* the tree that the diff is taken against
  owed,       \* the commands whose answer is not in yet
  said,       \* the answers
  acts,       \* how often others acted
  touched,    \* paths that others touched since the repository was bound
  always,     \* paths that differed from the base at every moment of the diff
  ever,       \* paths that differed at some moment of it
  quiet,      \* nobody acted during the diff
  staged      \* somebody changed the index during the diff

others == <<acts, touched>>
history == <<always, ever, quiet, staged>>
trees == <<head, index, worktree>>
gitVars == <<scene, moment, trees, base, owed, said, others, history>>

NoTree == [p \in Paths |-> None]
Nothing == [files |-> {}, counts |-> {}, patch |-> {}, untracked |-> {},
            counted |-> {}, patched |-> {}]

GitInit ==
  /\ scene \in Readings
  /\ head = scene.head /\ index = scene.index /\ worktree = scene.worktree
  /\ moment = "choosing" /\ base = NoTree /\ owed = {} /\ said = Nothing
  /\ acts = 0 /\ touched = {} /\ always = {} /\ ever = {} /\ quiet = TRUE /\ staged = FALSE

-----------------------------------------------------------------------------
(* What git answers at one moment.                                         *)

\* git diff <base> compares the base with the tracked files on disk: a path that is not
\* in the index is deleted, whatever is on disk.
Tracked(p) == IF index[p] = None THEN None ELSE worktree[p]

DiffersFrom(t) == {p \in Paths : t[p] # Tracked(p)}

\* -M joins a deleted and an added file of one content; a file is joined once.
Renames(t) ==
  LET pairs == {r \in DiffersFrom(t) \X DiffersFrom(t) :
                  Tracked(r[1]) = None /\ t[r[2]] = None /\ t[r[1]] = Tracked(r[2])}
      Once(S) == \A x, y \in S : (x[1] = y[1]) <=> (x[2] = y[2])
  IN  CHOOSE S \in SUBSET pairs :
        /\ Once(S)
        /\ \A pair \in pairs \ S : ~Once(S \cup {pair})

File(path, type, previous) == [path |-> path, changeType |-> type, previousPath |-> previous]

NameStatus(t) ==
  LET renames == Renames(t)
      joined  == {r[1] : r \in renames} \cup {r[2] : r \in renames}
      Type(p) == CASE Tracked(p) = None -> "deleted"
                   [] t[p] = None       -> "added"
                   [] OTHER             -> "modified"
  IN  {File(p, Type(p), "none") : p \in DiffersFrom(t) \ joined}
        \cup {File(r[2], "renamed", r[1]) : r \in renames}

\* The lines of --numstat and the hunks of --patch: for each path, what becomes of it.
Hunks(t) == {[path |-> f.path, text |-> Tracked(f.path)] : f \in NameStatus(t)}

Untracked == {p \in Paths \ Ignored : worktree[p] # None /\ index[p] = None}

\* Variant for mutation: files that are not tracked do not count.
CleanOfTracked == index = head /\ \A p \in Paths : Tracked(p) = index[p]

\* git status --porcelain=v2, which isDirty() and snapshot() read.
Clean == index = head /\ (\A p \in Paths : Tracked(p) = index[p]) /\ Untracked = {}

\* --no-index compares a path of status, which is one from the root of the repository, with
\* the folder that git runs in; a file that is gone is an answer without lines.
OnDisk(p) == IF scene.candidate = "root" THEN worktree[p] ELSE None

Alone(p) == IF OnDisk(p) = None THEN {} ELSE {[path |-> p, text |-> OnDisk(p)]}

-----------------------------------------------------------------------------
(* Binding a folder, and the moment before a step.                         *)

\* Variant for mutation: a folder inside a repository is as good as its root.
IsRepoAnywhere(candidate) == candidate \in {"root", "inside"}

\* isRepo(): only the root of a worktree, however its path is written.
IsRepo(candidate) == candidate = "root"

\* create() refuses what validateRepository() finds no repository at: no path, a relative
\* one, none that exists, a file, a folder outside or inside of a repository.
Bind ==
  /\ moment = "choosing"
  /\ moment' = IF IsRepo(scene.candidate) THEN "bound" ELSE "refused"
  /\ UNCHANGED <<scene, trees, base, owed, said, others, history>>

\* snapshot() refuses a dirty worktree, unless it is allowed to be.
CheckStatus ==
  /\ moment = "bound" /\ scene.strict
  /\ moment' = IF Clean THEN "clean" ELSE "refused"
  /\ UNCHANGED <<scene, trees, base, owed, said, others, history>>

\* The commit that HEAD names is the base; a repository without one has none.  Who shows
\* the working diff diffs against it at once.
ReadHead ==
  /\ moment = IF scene.strict THEN "clean" ELSE "bound"
  /\ moment' = IF scene.born THEN "working" ELSE "refused"
  /\ base' = IF scene.born THEN head ELSE base
  /\ UNCHANGED <<scene, trees, owed, said, others, history>>

-----------------------------------------------------------------------------
(* diffWorktree(): collectDiff() and status() side by side, and then       *)
(* collectUntracked().                                                     *)

\* The paths at which the disk or the index is not the base.
Different(disk, tracked) == {p \in Paths : base[p] # disk[p] \/ base[p] # tracked[p]}

StartDiff ==
  /\ moment = "working"
  /\ moment' = "diffing"
  /\ owed' = {"files", "counts", "patch", "untracked"}
  /\ always' = Different(worktree, base) \ Ignored
  /\ ever' = Different(worktree, index)
  /\ UNCHANGED <<scene, trees, base, said, others, quiet, staged>>

AnswerOf(command) ==
  CASE command = "files"     -> NameStatus(base)
    [] command = "untracked" -> Untracked
    [] OTHER                 -> Hunks(base)

\* The last of the four answers starts two commands for each untracked file.
ReadDiff ==
  /\ moment = "diffing"
  /\ \E command \in owed :
       /\ said' = [said EXCEPT ![command] = AnswerOf(command)]
       /\ IF owed = {command}
            THEN moment' = "untracked" /\ owed' = said'.untracked \X {"counted", "patched"}
            ELSE moment' = moment /\ owed' = owed \ {command}
  /\ UNCHANGED <<scene, trees, base, others, history>>

ReadUntracked ==
  /\ moment = "untracked"
  /\ \E command \in owed :
       /\ said' = [said EXCEPT ![command[2]] = @ \cup Alone(command[1])]
       /\ owed' = owed \ {command}
  /\ UNCHANGED <<scene, moment, trees, base, others, history>>

\* Variant for mutation: counts are joined on the path that a file had.
CountByOldPath(file) ==
  LET path == IF file.previousPath = "none" THEN file.path ELSE file.previousPath
      rows == {h \in said.counts : h.path = path}
  IN  IF rows = {} THEN None ELSE (CHOOSE h \in rows : TRUE).text

\* joinDiffFiles() joins on the new path; a file that numstat does not have keeps zeroes.
Count(file) ==
  LET rows == {h \in said.counts : h.path = file.path}
  IN  IF rows = {} THEN None ELSE (CHOOSE h \in rows : TRUE).text

CountAlone(p) ==
  LET rows == {h \in said.counted : h.path = p}
  IN  IF rows = {} THEN None ELSE (CHOOSE h \in rows : TRUE).text

Counted(file, count) == [file |-> file, count |-> count]

\* Variant for mutation: git diff alone, which does not see what is not tracked.
TrackedEvidence == {Counted(f, Count(f)) : f \in said.files}

Evidence ==
  {Counted(f, Count(f)) : f \in said.files}
    \cup {Counted(File(p, "added", "none"), CountAlone(p)) : p \in said.untracked}

Patch == said.patch \cup said.patched

\* changeSetSchema refuses files without a patch and a patch without files; who shows the
\* working diff shows either.
Capture ==
  /\ moment = "untracked" /\ owed = {}
  /\ moment' = IF scene.caller = "step" /\ (Evidence = {}) # (Patch = {})
                 THEN "broken" ELSE "captured"
  /\ UNCHANGED <<scene, trees, base, owed, said, others, history>>

\* A command may fail, take a minute or print 64 MB: nothing of the answers is kept.
GitFails ==
  /\ moment \in {"bound", "clean", "diffing", "untracked"} /\ "fail" \in scene.may
  /\ moment' = "failed" /\ owed' = {} /\ said' = Nothing
  /\ UNCHANGED <<scene, trees, base, others, history>>

-----------------------------------------------------------------------------
(* The others.                                                             *)

Diffing == moment \in {"diffing", "untracked"}

\* One act of others: on which paths, and whether it changes the index.
Acting(act, paths, stages) ==
  /\ moment \in {"bound", "clean", "working", "diffing", "untracked"}
  /\ act \in scene.may /\ acts < scene.acts
  /\ acts' = acts + 1
  /\ touched' = touched \cup paths
  /\ IF Diffing
       THEN /\ always' = always \cap Different(worktree', base)
            /\ ever' = ever \cup Different(worktree', index')
            /\ quiet' = FALSE /\ staged' = (staged \/ stages)
       ELSE UNCHANGED history
  /\ UNCHANGED <<scene, moment, base, owed, said>>

\* The agent writes and deletes files; so does the user, with writeFile().
Edit ==
  \E p \in Paths, c \in Contents \cup {None} :
    /\ worktree[p] # c
    /\ worktree' = [worktree EXCEPT ![p] = c]
    /\ UNCHANGED <<head, index>>
    /\ Acting("edit", {p}, FALSE)

Stage ==
  \E p \in Paths \ Ignored :
    /\ index[p] # worktree[p]
    /\ index' = [index EXCEPT ![p] = worktree[p]]
    /\ UNCHANGED <<head, worktree>>
    /\ Acting("stage", {p}, TRUE)

Untrack ==
  \E p \in Paths :
    /\ index[p] # None
    /\ index' = [index EXCEPT ![p] = None]
    /\ UNCHANGED <<head, worktree>>
    /\ Acting("untrack", {p}, TRUE)

Move ==
  \E p, q \in Paths :
    /\ index[p] # None /\ worktree[p] # None /\ index[q] = None /\ worktree[q] = None
    /\ index' = [index EXCEPT ![p] = None, ![q] = index[p]]
    /\ worktree' = [worktree EXCEPT ![p] = None, ![q] = worktree[p]]
    /\ UNCHANGED head
    /\ Acting("move", {p, q}, TRUE)

Commit ==
  /\ scene.born /\ head # index
  /\ head' = index
  /\ UNCHANGED <<index, worktree>>
  /\ Acting("commit", {}, FALSE)

GitNext ==
  \/ Bind \/ CheckStatus \/ ReadHead \/ StartDiff \/ ReadDiff \/ ReadUntracked \/ Capture
  \/ GitFails \/ Edit \/ Stage \/ Untrack \/ Move \/ Commit

-----------------------------------------------------------------------------
(* Properties.                                                             *)

Named ==
  {e.file.path : e \in Evidence} \cup ({e.file.previousPath : e \in Evidence} \ {"none"})

\* What is said of a path is what is on disk: the lines and the patch of a file that is
\* there, the end of one that is not; and of a path without a word, that it is unchanged.
ToldTruly(p) ==
  LET present == {e \in Evidence : e.file.path = p /\ e.file.changeType # "deleted"}
  IN  IF present # {}
        THEN /\ worktree[p] # None
             /\ \A e \in present : e.count = worktree[p]
             /\ [path |-> p, text |-> worktree[p]] \in Patch
        ELSE IF p \in Named THEN worktree[p] = None ELSE worktree[p] = base[p]

\* Evidence is whole: diffWorktree() names every file that differed from the base while it
\* ran, and none that never did; when nobody acts meanwhile a change set is made of it,
\* and it says of every file that is not ignored what is on disk, renamed or untracked
\* ones too; and after a snapshot of a clean worktree, which is what keeps a user's own
\* work out of it, it only names what was touched since.
EvidenceIsWhole ==
  /\ moment = "captured" =>
       /\ ~staged => always \subseteq Named
       /\ Named \subseteq ever
       /\ quiet => \A p \in Paths \ Ignored : ToldTruly(p)
       /\ scene.strict => Named \subseteq touched
  /\ quiet => moment # "broken"
=============================================================================
