------------------------------ MODULE ProjectPicker ------------------------------
(***************************************************************************)
(* Which projects the renderer shows, and how one is bound: projectStore.ts*)
(* (a cache of what the main process reports), the dialogs that create,    *)
(* edit and delete a project, and their side of ProjectService.            *)
(*                                                                         *)
(* Nearly every call reads git in the main process, so that they are       *)
(* handled, and answered, in any order.                                    *)
(***************************************************************************)
EXTENDS Integers, Sequences, SequencesExt

CONSTANTS
  Starts,       \* [held, selected]: what the database holds at first, and the selection that
                \* is left of an earlier session, 0 for none
  Repos,        \* the folders that are repositories; no other folder is one
  Folders,      \* the folders that a user may enter
  Visits        \* bounds: [acts, entries], what a user does to projects and how many
                \* folders he enters

VARIABLES
  bounds,       \* one of Visits
  held,         \* the projects in the database, as list() orders them
  bound,        \* the last project that was made
  calls,        \* calls and replies under way, in the order they were made
  cached,       \* the list of the renderer
  selected,     \* the project that is selected, 0 for none
  detail,       \* the project whose detail is shown, 0 for none
  form,         \* the dialog that creates one
  acts,         \* what was done
  entries,
  disturbed     \* a call failed, or projects were acted upon in the midst of another

pickerVars ==
  <<bounds, held, bound, calls, cached, selected, detail, form, acts, entries, disturbed>>

\* A call of the renderer for purpose "by"; "list" is what a refresh read before.
Call(kind, by, id) ==
  [kind |-> kind, by |-> by, id |-> id, list |-> <<>>, path |-> "", token |-> 0, value |-> 0,
   moment |-> "asked"]

NoProbe == [path |-> "", repo |-> FALSE]

\* The dialog as it is mounted anew.  One that is gone hears nothing, so tokens go on.
NewForm(token) ==
  [path |-> "", probe |-> NoProbe, probing |-> FALSE, token |-> token, timer |-> FALSE,
   submitting |-> FALSE]

PickerInit ==
  /\ bounds \in Visits
  /\ \E s \in Starts : held = s.held /\ bound = Len(s.held) /\ selected = s.selected
  /\ calls = <<Call("list", "refresh", 0)>>   \* the shell is mounted
  /\ cached = <<>> /\ detail = 0
  /\ form = NewForm(0) /\ acts = 0 /\ entries = 0 /\ disturbed = FALSE

-----------------------------------------------------------------------------
(* The main process.                                                       *)

Answered(i, value) == [calls EXCEPT ![i].moment = "ok", ![i].value = value]
Refused(i)         == [calls EXCEPT ![i].moment = "failed"]

\* A project is made of a folder that git confirms; one that is deleted is only forgotten.
Handle(i) ==
  /\ calls[i].moment = "asked"
  /\ LET call == calls[i] IN
     CASE call.kind = "list"   -> calls' = [Answered(i, 0) EXCEPT ![i].list = held]
                                  /\ UNCHANGED <<held, bound>>
       [] call.kind = "get"    -> calls' = Answered(i, IF Contains(held, call.id) THEN call.id ELSE 0)
                                  /\ UNCHANGED <<held, bound>>
       [] call.kind = "probe"  -> calls' = Answered(i, IF call.path \in Repos THEN 1 ELSE 0)
                                  /\ UNCHANGED <<held, bound>>
       [] call.kind = "update" -> calls' = Answered(i, 0) /\ UNCHANGED <<held, bound>>
       [] call.kind = "delete" -> /\ held' = RemoveFirst(held, call.id) /\ UNCHANGED bound
                                  /\ calls' = Answered(i, 0)
       [] call.kind = "create" ->
            IF call.path \in Repos
            THEN bound' = bound + 1 /\ held' = Append(held, bound') /\ calls' = Answered(i, bound')
            ELSE calls' = Refused(i) /\ UNCHANGED <<held, bound>>
  /\ UNCHANGED <<bounds, cached, selected, detail, form, acts, entries, disturbed>>

\* An update or a deletion is refused while a workflow runs; a probe throws.
Fail(i) ==
  /\ calls[i].moment = "asked" /\ calls[i].kind \in {"probe", "update", "delete"}
  /\ calls' = Refused(i)
  /\ UNCHANGED <<bounds, held, bound, cached, selected, detail, form, acts, entries, disturbed>>

-----------------------------------------------------------------------------
(* The cache of projects.                                                  *)

First(list) == IF list = <<>> THEN 0 ELSE Head(list)

\* Variant for mutation: the remembered project is not looked for.
Recalled(list) == IF selected # 0 THEN selected ELSE First(list)

\* What is selected, if it still exists; else the first one.
StillSelected(list) == IF Contains(list, selected) THEN selected ELSE First(list)

Show(list, id, shown) == cached' = list /\ selected' = id /\ detail' = shown

\* onClose() gives the dialog a new key, once the refresh after a creation is over.
Closed(call) == form' = IF call.by = "create" THEN NewForm(form.token + 1) ELSE form

Replied(i, more) == calls' = RemoveAt(calls, i) \o more

\* refresh(): the list, then the detail of what is selected in it.
HearList(i) ==
  LET call == calls[i]
      id   == StillSelected(call.list)
  IN /\ call.kind = "list"
     /\ IF id = 0
        THEN Replied(i, <<>>) /\ Show(call.list, 0, 0) /\ Closed(call)
        ELSE /\ Replied(i, <<[Call("get", call.by, id) EXCEPT !.list = call.list]>>)
             /\ UNCHANGED <<cached, selected, detail, form>>

HearDetail(i) ==
  LET call == calls[i] IN
  /\ call.kind = "get"
  /\ Replied(i, <<>>)
  /\ IF call.by = "select"
     THEN detail' = call.value /\ UNCHANGED <<cached, selected, form>>
     ELSE Show(call.list, call.id, call.value) /\ Closed(call)

HearUpdate(i) ==
  /\ calls[i].kind = "update"
  /\ Replied(i, IF calls[i].moment = "ok" THEN <<Call("list", "refresh", 0)>> ELSE <<>>)
  /\ UNCHANGED <<cached, selected, detail, form>>

HearDeletion(i) ==
  LET left == SelectSeq(cached, LAMBDA p : p # calls[i].id) IN
  /\ calls[i].kind = "delete"
  /\ IF calls[i].moment = "ok"
     THEN Replied(i, <<Call("list", "refresh", 0)>>) /\ Show(left, First(left), 0)
     ELSE Replied(i, <<>>) /\ UNCHANGED <<cached, selected, detail>>
  /\ UNCHANGED form

HearCreation(i) ==
  /\ calls[i].kind = "create"
  /\ IF calls[i].moment = "ok"
     THEN /\ Replied(i, <<Call("list", "create", 0)>>) /\ selected' = calls[i].value
          /\ UNCHANGED form
     ELSE Replied(i, <<>>) /\ form' = [form EXCEPT !.submitting = FALSE] /\ UNCHANGED selected
  /\ UNCHANGED <<cached, detail>>

\* Variant for mutation: the answer of an older probe is taken as well.
IsNewestOrNot(call) == TRUE

IsNewest(call) == call.token = form.token

\* runProbe(): only the newest one is heard.
HearProbe(i) ==
  LET call == calls[i] IN
  /\ call.kind = "probe"
  /\ Replied(i, <<>>)
  /\ form' = IF ~IsNewest(call) THEN form
             ELSE [form EXCEPT !.probing = FALSE,
                               !.probe = IF call.moment = "failed" THEN NoProbe
                                         ELSE [path |-> call.path, repo |-> call.value = 1]]
  /\ UNCHANGED <<cached, selected, detail>>

Hear(i) ==
  /\ calls[i].moment # "asked"
  /\ \/ HearList(i) \/ HearDetail(i) \/ HearUpdate(i) \/ HearDeletion(i) \/ HearCreation(i)
     \/ HearProbe(i)
  /\ UNCHANGED <<bounds, held, bound, acts, entries, disturbed>>

-----------------------------------------------------------------------------
(* The user.                                                               *)

UnderWay == \E i \in 1..Len(calls) : calls[i].kind # "probe"

\* He acts upon projects when he likes; what overlaps is remembered.
Act(call) ==
  /\ acts < bounds.acts /\ acts' = acts + 1
  /\ disturbed' = (disturbed \/ UnderWay)
  /\ calls' = Append(calls, call)
  /\ UNCHANGED <<bounds, held, bound, cached, detail, entries>>

Select == \E p \in ToSet(cached) : Act(Call("get", "select", p)) /\ selected' = p /\ UNCHANGED form

EditDetails == detail # 0 /\ Act(Call("update", "edit", detail)) /\ UNCHANGED <<selected, form>>

Delete == \E p \in ToSet(cached) : Act(Call("delete", "user", p)) /\ UNCHANGED <<selected, form>>

\* canSubmit; the probe may still be that of the folder that was entered before.
Submit ==
  /\ form.probe.repo /\ ~form.probing /\ ~form.submitting
  /\ Act([Call("create", "user", 0) EXCEPT !.path = form.path])
  /\ form' = [form EXCEPT !.submitting = TRUE]
  /\ UNCHANGED selected

\* Each change starts the 300 ms anew.
Enter(path) ==
  /\ entries < bounds.entries /\ entries' = entries + 1
  /\ path # form.path
  /\ form' = [form EXCEPT !.path = path, !.timer = TRUE]
  /\ UNCHANGED <<bounds, held, bound, calls, cached, selected, detail, acts, disturbed>>

Probe ==
  /\ form.timer
  /\ LET token == form.token + 1 IN
     IF form.path = ""
     THEN /\ form' = [form EXCEPT !.timer = FALSE, !.token = token, !.probe = NoProbe,
                                  !.probing = FALSE]
          /\ UNCHANGED calls
     ELSE /\ form' = [form EXCEPT !.timer = FALSE, !.token = token, !.probing = TRUE]
          /\ calls' = Append(calls, [Call("probe", "form", 0) EXCEPT
                                       !.path = form.path, !.token = token])
  /\ UNCHANGED <<bounds, held, bound, cached, selected, detail, acts, entries, disturbed>>

PickerNext ==
  \/ \E i \in 1..Len(calls) : Handle(i) \/ Fail(i) \/ Hear(i)
  \/ Select \/ EditDetails \/ Delete \/ Submit \/ Probe
  \/ \E path \in Folders : Enter(path)

\* Every call is handled and answered in the end, and a timer fires.
PickerFairness ==
  WF_pickerVars(Probe \/ \E i \in 1..Len(calls) : Handle(i) \/ Hear(i))

-----------------------------------------------------------------------------
(* Properties.                                                             *)

\* When nothing is under way, and nobody acted in the midst of something else, the renderer
\* shows what the main process holds, and points at nothing that no longer exists
\* (projectStore.ts:53); and the dialog never judges a folder by what a probe of an earlier
\* one says at last (CreateProjectDialog.tsx:69).
ProjectsAreShown ==
  /\ ~UnderWay /\ ~disturbed =>
       /\ cached = held /\ detail = selected
       /\ IF held = <<>> THEN selected = 0 ELSE Contains(held, selected)
  /\ ~form.timer /\ ~form.probing => form.probe.path \in {"", form.path}

Picking == UnderWay
=============================================================================
