------------------------------ MODULE ModelChoice ------------------------------
(***************************************************************************)
(* Which model is used: the list of providers in localStorage, which two   *)
(* pages keep a copy of while they are open, AskPage (the page of the chat)*)
(* and Settings, and the choice in main (activeModel.ts), which a workflow *)
(* reads and each of the pages publishes.  One page is open at a time, and *)
(* a scan for local models that it started may be answered after it is     *)
(* closed.                                                                 *)
(*                                                                         *)
(* A model is a number, a key of a provider too; 0 is none.                *)
(***************************************************************************)
EXTENDS Integers, Sequences, FiniteSets

CONSTANTS
  Models,         \* the models that a scan may find, or a user may choose from
  Stale,          \* models that older versions stored, and that do not exist
  InitialLists,   \* what localStorage may hold: lists of providers, or Absent
  MaxOpenings,    \* how often a page is opened
  MaxEdits        \* how often the user changes something

None == 0
Absent == <<>>

\* What is assumed of the constants.
ModelsAssumption ==
  /\ Models \subseteq Nat \ {None} /\ IsFiniteSet(Models) /\ Models \cap Stale = {}

VARIABLES
  opened,     \* the page that is open: "none", "ask", "settings"
  kept,       \* localStorage: [providers, active]
  here,       \* the state of the page: the same
  publishing, \* choices on their way to main
  inUse,      \* what main reads: a choice, or NoChoice
  scans,      \* scans under way: 0 for the page that is open, or the list of a closed one
  openings, edits,
  entered,    \* the key that the user entered last, of each provider
  late        \* a scan of a closed page wrote what that page had shown

choiceVars ==
  <<opened, kept, here, publishing, inUse, scans, openings, edits, entered, late>>

Provider(id, models, active, key) == [id |-> id, models |-> models, active |-> active, key |-> key]

First(models) == IF models = {} THEN None ELSE CHOOSE m \in models : \A n \in models : m <= n

Ids == {"openai", "ollama", "custom"}

\* What a page starts from when nothing is stored: Settings has a hosted provider, too.
Defaults(page) ==
  IF page = "ask" THEN <<Provider("ollama", {}, None, None)>>
  ELSE <<Provider("openai", {First(Models)}, First(Models), None),
         Provider("ollama", {}, None, None)>>

\* Names that were never models are dropped as the list is read.
Sanitised(list) ==
  [i \in 1..Len(list) |->
     IF list[i].id = "ollama" /\ list[i].models \cap Stale # {}
       THEN [list[i] EXCEPT !.models = {}, !.active = None] ELSE list[i]]

Loaded(page) ==
  [providers |-> IF kept.providers = Absent THEN Defaults(page) ELSE Sanitised(kept.providers),
   active |-> IF kept.active # "none" THEN kept.active
              ELSE IF page = "ask" THEN "ollama" ELSE "openai"]

NoChoice == [provider |-> "none", model |-> None, key |-> None]

\* The provider that is active; AskPage takes the first one of the list for one it lacks.
ActiveOf(page, view) ==
  LET named == SelectSeq(view.providers, LAMBDA p : p.id = view.active)
  IN  IF named # <<>> \/ page # "ask" THEN named ELSE SubSeq(view.providers, 1, 1)

\* What a page publishes: nothing while its provider has no model.
Choice(page, view) ==
  LET found    == ActiveOf(page, view)
      Model(p) == IF p.active # None THEN p.active ELSE First(p.models)
  IN  IF found = <<>> \/ Model(Head(found)) = None THEN NoChoice
      ELSE [provider |-> Head(found).id, model |-> Model(Head(found)), key |-> Head(found).key]

ChoiceInit ==
  /\ opened = "none"
  /\ \E list \in InitialLists :
       /\ kept = [providers |-> list, active |-> "none"]
       /\ entered = [id \in Ids |->
                       IF \E i \in 1..Len(list) : list[i].id = id /\ list[i].key # None
                         THEN 1 ELSE None]
  /\ here = [providers |-> <<>>, active |-> "none"]
  /\ publishing = <<>> /\ inUse = NoChoice /\ scans = <<>>
  /\ openings = 0 /\ edits = 0 /\ late = FALSE

-----------------------------------------------------------------------------
\* Variant for mutation: what is published is the choice that a page is opened with.
PublishOpened(page, view) ==
  publishing' = IF page = opened \/ Choice(page, view) = NoChoice
                  THEN publishing ELSE Append(publishing, Choice(page, view))

\* The effect of a page on its choice: it runs when the page is opened and whenever the
\* choice is another one, whoever changed it.
Publish(page, view) ==
  publishing' = IF Choice(page, view) \in {NoChoice, Choice(opened, here)}
                  THEN publishing ELSE Append(publishing, Choice(page, view))

\* A page is opened, and looks for the models of Ollama.
Open ==
  /\ opened = "none" /\ openings < MaxOpenings
  /\ \E page \in {"ask", "settings"} :
       /\ opened' = page
       /\ here' = Loaded(page)
       /\ Publish(page, Loaded(page))
  /\ scans' = Append(scans, <<>>)
  /\ openings' = openings + 1
  /\ UNCHANGED <<kept, inUse, edits, entered, late>>

Close ==
  /\ opened # "none"
  /\ opened' = "none"
  /\ scans' = [i \in 1..Len(scans) |-> IF scans[i] = <<>> THEN here.providers ELSE scans[i]]
  /\ here' = [providers |-> <<>>, active |-> "none"]
  /\ UNCHANGED <<kept, publishing, inUse, openings, edits, entered, late>>

\* Main writes the choice to its file.
Receive ==
  /\ publishing # <<>>
  /\ inUse' = Head(publishing)
  /\ publishing' = Tail(publishing)
  /\ UNCHANGED <<opened, kept, here, scans, openings, edits, entered, late>>

Detected(list, models) ==
  [i \in 1..Len(list) |->
     IF list[i].id # "ollama" THEN list[i]
     ELSE [list[i] EXCEPT !.models = models,
                          !.active = IF @ \in models THEN @ ELSE First(models)]]

\* A scan is answered: none, or the models it found, which the page shows and stores.  The
\* page of a scan may be closed: React may yet run its update, on what it showed then.
ScanAnswered ==
  /\ scans # <<>>
  /\ scans' = Tail(scans)
  /\ UNCHANGED <<opened, inUse, openings, edits, entered>>
  /\ \/ UNCHANGED <<kept, here, publishing, late>>
     \/ \E models \in SUBSET Models \ {{}} :
          IF Head(scans) = <<>>
            THEN LET view == [here EXCEPT !.providers = Detected(@, models)]
                 IN  /\ here' = view
                     /\ kept' = [kept EXCEPT !.providers = view.providers]
                     /\ Publish(opened, view)
                     /\ UNCHANGED late
            ELSE /\ kept' = [kept EXCEPT !.providers = Detected(Head(scans), models)]
                 /\ late' = TRUE
                 /\ UNCHANGED <<here, publishing>>

\* The user changes the list, which is shown and stored, and perhaps which one is active.
Store(list, active) ==
  /\ edits < MaxEdits /\ edits' = edits + 1
  /\ here' = [providers |-> list, active |-> active]
  /\ kept' = [providers |-> list,
              active |-> IF active = here.active THEN kept.active ELSE active]
  /\ Publish(opened, [providers |-> list, active |-> active])
  /\ UNCHANGED <<opened, inUse, scans, openings, late>>

Changed(id, Change(_)) ==
  [i \in 1..Len(here.providers) |->
     IF here.providers[i].id = id THEN Change(here.providers[i]) ELSE here.providers[i]]

\* In Settings of any provider; in AskPage of the active one.
SelectModel ==
  \E p \in {here.providers[i] : i \in 1..Len(here.providers)} : \E m \in p.models \ {p.active} :
    /\ opened = "settings" \/ <<p>> = ActiveOf(opened, here)
    /\ Store(Changed(p.id, LAMBDA q : [q EXCEPT !.active = m]), here.active)
    /\ UNCHANGED entered

SaveKey ==
  /\ opened = "settings"
  /\ \E p \in {here.providers[i] : i \in 1..Len(here.providers)}, key \in {None, 1} :
       /\ p.key # key
       /\ Store(Changed(p.id, LAMBDA q : [q EXCEPT !.key = key]), here.active)
       /\ entered' = [entered EXCEPT ![p.id] = key]

\* Stored apart from the list, which stays as it was read.
SetActive ==
  /\ opened = "settings" /\ edits < MaxEdits /\ edits' = edits + 1
  /\ \E p \in {here.providers[i] : i \in 1..Len(here.providers)} :
       /\ p.id # here.active
       /\ here' = [here EXCEPT !.active = p.id]
       /\ kept' = [kept EXCEPT !.active = p.id]
       /\ Publish(opened, here')
  /\ UNCHANGED <<opened, inUse, scans, openings, entered, late>>

Has(id) == \E i \in 1..Len(here.providers) : here.providers[i].id = id

AddCustom ==
  /\ opened = "settings" /\ ~Has("custom")
  /\ Store(Append(here.providers, Provider("custom", {First(Models)}, First(Models), 1)), "custom")
  /\ entered' = [entered EXCEPT !["custom"] = 1]

DeleteCustom ==
  /\ opened = "settings" /\ Has("custom")
  /\ Store(SelectSeq(here.providers, LAMBDA p : p.id # "custom"),
           IF here.active = "custom" THEN "openai" ELSE here.active)
  /\ entered' = [entered EXCEPT !["custom"] = None]

\* A local endpoint, with the models that were found there, if any.
SaveLocalUrl ==
  /\ opened = "settings" /\ Has("ollama")
  /\ \E models \in SUBSET Models \ {{}} :
       Store(Detected(here.providers, models), here.active)
  /\ UNCHANGED entered

ChoiceNext ==
  \/ Open \/ Close \/ Receive \/ ScanAnswered
  \/ SelectModel \/ SaveKey \/ SetActive \/ AddCustom \/ DeleteCustom \/ SaveLocalUrl

-----------------------------------------------------------------------------
(* Properties.                                                             *)

Listed(list) == {list[i] : i \in 1..Len(list)}

\* The page that is open, localStorage and main agree on the model: main reads what the
\* page would use, as soon as that has arrived, however the page came to it; the page shows
\* what is stored; and a key that the user entered is neither lost nor given to another
\* provider.  A scan that is answered to a closed page may break the last two, and does: it
\* stores what that page had shown.
ChoiceIsShared ==
  /\ opened # "none" /\ publishing = <<>> =>
       Choice(opened, here) \in {NoChoice, inUse}
  /\ ~late =>
       /\ opened # "none" /\ kept.providers # Absent =>
            here = Loaded(opened)
       /\ \A p \in Listed(kept.providers) : p.key = entered[p.id]
       /\ kept.providers # Absent =>
            \A i \in Ids : entered[i] # None => \E p \in Listed(kept.providers) : p.id = i
=============================================================================
