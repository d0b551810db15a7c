------------------------------- MODULE ChangeMerge -------------------------------
(***************************************************************************)
(* A fan-in: two branches that started from one commit change files in     *)
(* worktrees of their own; GitService.diffWorktree() captures what each    *)
(* changed, mergeChangeSets() decides whether the two may be put together, *)
(* and WorktreeService.applyPatch() puts them into the worktree of the     *)
(* node that joins them.                                                   *)
(*                                                                         *)
(* A tree is a function from its paths to contents.  What git does (diff   *)
(* -M, status, apply) is modelled as far as paths and contents go.         *)
(***************************************************************************)
EXTENDS Naturals, FiniteSets

CONSTANTS
  FilePaths,   \* the paths that may occur
  Above,       \* the pairs of paths of which the first is a directory of the second
  Endings      \* how patches may end: a subset of {"text", "blank"}

VARIABLES
  commit,      \* the tree both branches start from
  branch,      \* what was captured of each: ops and patch ending, or NotCaptured
  joined       \* the verdict and the tree of the join

mergeVars == <<commit, branch, joined>>

Branches    == 1..2
NotCaptured == [ops |-> {}, ends |-> "none", tree |-> <<>>]
NotJoined   == [verdict |-> "none", tree |-> <<>>]

Consistent(paths) == \A p, q \in paths : <<p, q>> \notin Above

\* Trees of these contents.  A file that was moved keeps the content it had.
Trees(contents) ==
  UNION {[paths -> contents] : paths \in {P \in SUBSET FilePaths : Consistent(P)}}

\* The content of a file of the commit is named after it.
Commits == {[p \in P |-> p] : P \in {Q \in SUBSET FilePaths : Consistent(Q)}}

-----------------------------------------------------------------------------
(* diffWorktree(): tracked files are compared with the commit, untracked   *)
(* ones with nothing.  An operation is one entry of the files, and one     *)
(* section of the patch.                                                   *)

Op(type, path, previous, content) ==
  [type |-> type, path |-> path, previous |-> previous, content |-> content]

\* The tracked part: what is in the index is compared as it is in the worktree.
\* A new file with the content of one that is gone is a rename (-M).
Tracked(from, tree, index) ==
  LET here == index \cap DOMAIN tree
      gone == DOMAIN from \ here
      New  == here \ DOMAIN from
      Source(q) == {p \in gone : from[p] = tree[q]}
      renamed   == {q \in New : Source(q) # {}}
      moved     == UNION {Source(q) : q \in renamed}
  IN  {Op("renamed", q, CHOOSE p \in Source(q) : TRUE, tree[q]) : q \in renamed}
      \cup {Op("added", q, "none", tree[q]) : q \in New \ renamed}
      \cup {Op("deleted", p, "none", "none") : p \in gone \ moved}
      \cup {Op("modified", p, "none", tree[p]) : p \in {r \in here \cap DOMAIN from : tree[r] # from[r]}}

Untracked(tree, index) ==
  {Op("added", p, "none", tree[p]) : p \in DOMAIN tree \ index}

DiffWorktree(from, tree, index) == Tracked(from, tree, index) \cup Untracked(tree, index)

-----------------------------------------------------------------------------
(* mergeChangeSets().                                                      *)

\* Variant for mutation: the old path of a rename is forgotten.
TouchedNewPaths(ops) == {op.path : op \in ops}

\* normalizeBranch(): the new path, the old path of a rename, and what the headers of
\* the patch name, which are new paths.
TouchedPaths(ops) == {op.path : op \in ops} \cup ({op.previous : op \in ops} \ {"none"})

Collide(p, q) == <<p, q>> \in Above \/ <<q, p>> \in Above

Conflicts(a, b) ==
  \/ TouchedPaths(a) \cap TouchedPaths(b) # {}
  \/ \E p \in TouchedPaths(a), q \in TouchedPaths(b) : Collide(p, q)

-----------------------------------------------------------------------------
(* applyPatch(): all of a patch or nothing.                                *)

\* Git refuses a hunk whose old side is not there.
Removes(op) == IF op.type = "renamed" THEN {op.previous}
               ELSE IF op.type = "deleted" THEN {op.path} ELSE {}

Fits(tree, from, ops) ==
  LET removed == UNION {Removes(op) : op \in ops}
  IN  \A op \in ops :
        CASE op.type = "added"    -> op.path \notin DOMAIN tree \ removed
          [] op.type = "renamed"  -> /\ op.path \notin DOMAIN tree \ removed
                                     /\ op.previous \in DOMAIN tree
                                     /\ tree[op.previous] = from[op.previous]
          [] OTHER                -> /\ op.path \in DOMAIN tree
                                     /\ tree[op.path] = from[op.path]

Result(tree, ops) ==
  LET writes  == {op \in ops : op.type # "deleted"}
      written == {op.path : op \in writes}
      paths   == (DOMAIN tree \ UNION {Removes(op) : op \in ops}) \cup written
  IN  [p \in paths |-> IF p \in written THEN (CHOOSE op \in writes : op.path = p).content
                       ELSE tree[p]]

\* The patch is trimmed: one that ends in an empty line of context loses it, and git
\* calls it corrupt.
Applies(tree, from, ops, endings) ==
  /\ "blank" \notin endings
  /\ Fits(tree, from, ops)
  /\ Consistent(DOMAIN Result(tree, ops))

-----------------------------------------------------------------------------
MergeInit ==
  /\ commit \in Commits
  /\ branch = [b \in Branches |-> NotCaptured]
  /\ joined = NotJoined

\* A branch is done and captured: its files are staged, or not.  Only a modification
\* that is the last of the patch can end it in a line of context.
Capture(b) ==
  /\ branch[b] = NotCaptured
  /\ \E tree \in Trees(DOMAIN commit \cup {IF b = 1 THEN "one" ELSE "two"}), ends \in Endings :
     \E index \in {DOMAIN commit, DOMAIN tree} :
       /\ \A p \in DOMAIN tree \cap DOMAIN commit : tree[p] \in {commit[p], "one", "two"}
       /\ \A p, q \in DOMAIN tree : p # q /\ tree[p] = tree[q] => tree[p] \in {"one", "two"}
       /\ LET ops == DiffWorktree(commit, tree, index)
          IN  /\ ends = "blank" =>
                   (\E op \in ops : op.type = "modified") /\ DOMAIN tree \subseteq index
              /\ branch' = [branch EXCEPT ![b] = [ops |-> ops, ends |-> ends, tree |-> tree]]
  /\ UNCHANGED <<commit, joined>>

\* The join: its worktree is at the commit, the patches are put in together.
Join ==
  /\ joined = NotJoined
  /\ \A b \in Branches : branch[b] # NotCaptured
  /\ LET ops  == UNION {branch[b].ops : b \in Branches}
         ends == {branch[b].ends : b \in Branches}
     IN  joined' = IF Conflicts(branch[1].ops, branch[2].ops)
                   THEN [NotJoined EXCEPT !.verdict = "conflict"]
                   ELSE IF Applies(commit, commit, ops, ends)
                   THEN [verdict |-> "merged", tree |-> Result(commit, ops)]
                   ELSE [NotJoined EXCEPT !.verdict = "refused"]
  /\ UNCHANGED <<commit, branch>>

MergeNext == Join \/ \E b \in Branches : Capture(b)

-----------------------------------------------------------------------------
(* Properties.                                                             *)

\* Two branches that are found not to conflict can be put together, and the join gets
\* exactly the work of both: at every path what the branch that changed it has there.
MergeKeepsBothBranches ==
  joined.verdict \notin {"none", "conflict"} =>
    /\ joined.verdict = "merged"
    /\ \A p \in FilePaths :
         LET At(tree) == IF p \in DOMAIN tree THEN tree[p] ELSE "none"
         IN  At(joined.tree) = IF At(branch[1].tree) # At(commit) THEN At(branch[1].tree)
                               ELSE At(branch[2].tree)
=============================================================================
