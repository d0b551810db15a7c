------------------------------- MODULE ChangesView -------------------------------
(***************************************************************************)
(* The page that shows what was changed (ChangesPage.tsx), and the viewer  *)
(* in which a file of it is read and edited (CodeViewer.tsx).              *)
(*                                                                         *)
(* What the page needs it asks for whenever what it depends on changes: a  *)
(* call that another one replaced is not heard.  Git answers the calls in  *)
(* any order.  The recorded changesets and the files of the Explorer, that *)
(* are listed like the working diff and not edited, are left out; a file   *)
(* is only its version, 0 as it is committed.                              *)
(***************************************************************************)
EXTENDS Integers, Sequences, SequencesExt

CONSTANTS
  Trees,        \* the projects, which have the same files
  OpenedTree,   \* the one that is active first
  FilesOf,      \* these files, in the order of a listing
  MaxMoves,     \* what the user does, at most
  MaxTroubles   \* what agents write, and calls that fail, at most

Nowhere == "none"

VARIABLES
  contents,     \* the version of each file of each project
  project,      \* the active project
  chosenFile,   \* the file that was selected
  diff,         \* the changed files that are shown
  text,         \* the content that is shown: [path, version]
  fetches,      \* calls and replies under way that are still heard
  editor,       \* [on, from, base]: the file and the version that is edited
  moves, troubles,
  missed,       \* since the last reload an agent wrote, or a call failed
  astray,       \* a file was edited while another one was selected or still awaited
  overwritten   \* the files that were saved, with the files their text was edited from

viewVars ==
  <<contents, project, chosenFile, diff, text, fetches, editor, moves, troubles,
    missed, astray, overwritten>>

ChangedIn(p) == SelectSeq(FilesOf, LAMBDA f : contents[p][f] > 0)

\* The selected file if it is listed, else the first one.
Effective(f, list) ==
  IF Contains(list, f) THEN f ELSE IF list = <<>> THEN Nowhere ELSE Head(list)

EffectiveFile == Effective(chosenFile, diff)

Fetch(kind, p, f) ==
  [kind |-> kind, project |-> p, path |-> f, value |-> <<>>, version |-> 0, moment |-> "asked"]

Closed == [on |-> FALSE, from |-> Nowhere, base |-> 0]

ViewInit ==
  /\ contents = [p \in Trees |-> [f \in ToSet(FilesOf) |-> IF f = Head(FilesOf) THEN 1 ELSE 0]]
  /\ project = OpenedTree /\ chosenFile = Nowhere /\ diff = <<>> /\ text = [path |-> Nowhere, version |-> 0]
  /\ fetches = <<Fetch("diff", project, Nowhere)>>
  /\ editor = Closed /\ moves = 0 /\ troubles = 0
  /\ missed = FALSE /\ astray = FALSE /\ overwritten = {}

-----------------------------------------------------------------------------
(* Rendering: what the effects ask for, once the state has changed.        *)

\* Variant for mutation: a call that is replaced goes on being heard.
AllHeard(rest, relisted, reread) == rest

\* The cleanup of an effect: nobody hears a call that is replaced.
StillHeard(rest, relisted, reread) ==
  SelectSeq(rest, LAMBDA c :
    c.kind = "save" \/ (c.kind = "diff" /\ ~relisted) \/ (c.kind = "read" /\ ~reread))

\* "reloaded" is a change of the project or of the reload trigger; rest are the calls that
\* are still under way.
Rendered(rest, reloaded) ==
  LET file   == Effective(chosenFile', diff')
      reread == reloaded \/ file # EffectiveFile
      lists  == IF reloaded THEN <<Fetch("diff", project', Nowhere)>> ELSE <<>>
      reads  == IF reread /\ file # Nowhere THEN <<Fetch("read", project', file)>> ELSE <<>>
  IN fetches' = StillHeard(rest, reloaded, reread) \o lists \o reads

-----------------------------------------------------------------------------
(* The main process, and the agents that work in the repository.           *)

Answer(i, moment) == [fetches EXCEPT ![i].moment = moment]

Serve(i) ==
  /\ fetches[i].moment = "asked"
  /\ LET c == fetches[i] IN
     \/ /\ c.kind = "diff"
        /\ fetches' = [Answer(i, "ok") EXCEPT ![i].value = ChangedIn(c.project)]
        /\ UNCHANGED contents
     \/ /\ c.kind = "read"
        /\ fetches' = [Answer(i, "ok") EXCEPT ![i].version = contents[c.project][c.path]]
        /\ UNCHANGED contents
     \/ /\ c.kind = "save"
        /\ contents' = [contents EXCEPT ![c.project][c.path] = @ + 1]
        /\ fetches' = Answer(i, "ok")
  /\ UNCHANGED <<project, chosenFile, diff, text, editor, moves, troubles, missed,
                 astray, overwritten>>

Fail(i) ==
  /\ fetches[i].moment = "asked" /\ fetches[i].kind # "read"
  /\ troubles < MaxTroubles /\ troubles' = troubles + 1
  /\ fetches' = Answer(i, "failed")
  /\ UNCHANGED <<contents, project, chosenFile, diff, text, editor, moves, missed,
                 astray, overwritten>>

AgentWrites ==
  /\ troubles < MaxTroubles /\ troubles' = troubles + 1 /\ missed' = TRUE
  /\ \E p \in Trees, f \in ToSet(FilesOf) : contents' = [contents EXCEPT ![p][f] = @ + 1]
  /\ UNCHANGED <<project, chosenFile, diff, text, fetches, editor, moves, astray,
                 overwritten>>

-----------------------------------------------------------------------------
(* The page.                                                               *)

Reload(rest) ==
  /\ missed' = FALSE
  /\ UNCHANGED <<project, chosenFile, diff, text>>
  /\ Rendered(rest, TRUE)

\* What a reply that is still wanted changes; a list that fails is left as it was.
Hears(c) ==
  /\ diff' = IF c.kind = "diff" /\ c.moment = "ok" THEN c.value ELSE diff
  /\ text' = IF c.kind = "read" THEN [path |-> c.path, version |-> c.version] ELSE text
  /\ missed' = (missed \/ c.moment = "failed")

\* A save ends the edit, also if it fails, and asks for everything anew if it does not.
Receive(i) ==
  /\ fetches[i].moment # "asked"
  /\ LET c == fetches[i] IN
     \/ /\ c.kind = "save"
        /\ editor' = [editor EXCEPT !.from = Nowhere]
        /\ IF c.moment = "ok" THEN Reload(RemoveAt(fetches, i))
           ELSE /\ fetches' = RemoveAt(fetches, i)
                /\ UNCHANGED <<project, chosenFile, diff, text, missed>>
     \/ /\ c.kind # "save"
        /\ Hears(c) /\ UNCHANGED <<project, chosenFile, editor>>
        /\ Rendered(RemoveAt(fetches, i), FALSE)
  /\ UNCHANGED <<contents, moves, troubles, astray, overwritten>>

\* An event of a workflow, or the button.
Refresh ==
  /\ missed
  /\ Reload(fetches)
  /\ UNCHANGED <<contents, editor, moves, troubles, astray, overwritten>>

-----------------------------------------------------------------------------
(* The user.                                                               *)

Awaited == fetches # <<>>
Saving  == \E i \in 1..Len(fetches) : fetches[i].kind = "save"

\* The viewer is the same for every file, and keeps what is edited in it.
Go ==
  /\ moves < MaxMoves /\ moves' = moves + 1
  /\ \/ \E p \in Trees \ {project} : project' = p /\ UNCHANGED chosenFile
     \/ \E f \in ToSet(diff) \ {EffectiveFile} : chosenFile' = f /\ UNCHANGED project
  /\ UNCHANGED <<diff, text>>
  /\ Rendered(fetches, project' # project)
  /\ missed' = (missed /\ project' = project)
  /\ astray' = (astray \/ editor.on)
  /\ UNCHANGED <<contents, editor, troubles, overwritten>>

\* The button copies what is displayed.
Edit ==
  /\ moves < MaxMoves /\ moves' = moves + 1
  /\ EffectiveFile # Nowhere /\ ~editor.on
  /\ editor' = [on |-> TRUE, from |-> text.path, base |-> text.version]
  /\ astray' = (astray \/ Awaited)
  /\ UNCHANGED <<contents, project, chosenFile, diff, text, fetches,
                 troubles, missed, overwritten>>

\* What is saved is the text of the viewer, as the file that is selected now.
Save ==
  /\ EffectiveFile # Nowhere
  /\ editor.on /\ editor.from # Nowhere /\ ~Saving
  /\ fetches' = Append(fetches, Fetch("save", project, EffectiveFile))
  /\ overwritten' = overwritten \cup {[path |-> EffectiveFile, from |-> editor.from]}
  /\ UNCHANGED <<contents, project, chosenFile, diff, text, editor,
                 moves, troubles, missed, astray>>

Discard ==
  /\ EffectiveFile # Nowhere /\ editor.on /\ ~Saving
  /\ editor' = Closed
  /\ UNCHANGED <<contents, project, chosenFile, diff, text, fetches,
                 moves, troubles, missed, astray, overwritten>>

ViewNext ==
  \/ \E i \in 1..Len(fetches) : Serve(i) \/ Fail(i) \/ Receive(i)
  \/ AgentWrites \/ Refresh \/ Go \/ Edit \/ Save \/ Discard

-----------------------------------------------------------------------------
(* Properties.                                                             *)

\* When nothing is awaited and no event is owed, the page shows the files that are changed
\* and the content of the selected one as they are (ChangesPage.tsx:104); and who edits a
\* file only when it is there, and saves it before he goes elsewhere, saves it into itself.
ChangesAreShown ==
  /\ ~Awaited /\ ~missed =>
       /\ diff = ChangedIn(project)
       /\ EffectiveFile = Nowhere
            \/ text = [path |-> EffectiveFile, version |-> contents[project][EffectiveFile]]
  /\ ~astray => \A o \in overwritten : o.path = o.from
=============================================================================
