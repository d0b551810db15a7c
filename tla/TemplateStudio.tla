----------------------------- MODULE TemplateStudio -----------------------------
(***************************************************************************)
(* The studio in which a user draws templates of workflows: the catalog    *)
(* (renderer workflow/WorkflowCatalogView.tsx), the canvas with its        *)
(* palette and inspector (WorkflowCanvas.tsx), the page around both        *)
(* (WorkflowPage.tsx) and the store behind them                            *)
(* (main/templates/templateV2Store.ts).                                    *)
(*                                                                         *)
(* The canvas works on a copy of the template it was opened with.  To save *)
(* sends the copy; the reply reaches the page wherever the user is by      *)
(* then.  Calls and replies keep their order.                              *)
(***************************************************************************)
EXTENDS Integers, Sequences, FiniteSets, SequencesExt, Functions

CONSTANTS
  Stored,        \* the templates that the store begins with, by identifier
  Pieces,        \* the nodes that the palette offers
  Texts,         \* what is typed for names
  MaxClicks,     \* bound on what the user does, and on workflows that come between
  MaxUnderWay    \* bound on calls and replies when the user adds one

VARIABLES
  clicks,           \* bound: what has been done so far
  minted,           \* the last identifier given: of a template, node or edge
  library,          \* TemplateV2Store: templates by identifier
  templatesV2,      \* the catalog's list of them
  studioMode,       \* "catalog", "canvas" or "player"
  away,             \* whether a workflow is shown in place of the studio
  editingTemplate,  \* the template that a canvas opens with
  canvas,           \* what is drawn, selected, being connected, and whether it was saved
  toLibrary,        \* calls under way
  toStudio          \* replies under way

studioVars ==
  <<clicks, minted, library, templatesV2, studioMode, away, editingTemplate, canvas, toLibrary,
    toStudio>>

NoTemplate == [id |-> 0, name |-> "", status |-> "draft", nodes |-> <<>>, edges |-> <<>>]
Nowhere    == [node |-> 0, handle |-> ""]

Opened(template) ==
  [template |-> template, selected |-> 0, connecting |-> Nowhere, saved |-> FALSE]

Closed  == Opened(NoTemplate)
Mounted == canvas.template # NoTemplate

\* Texts are "" or not: what the schema of a template asks of them (workflowGraph.ts:216).
Valid(template) ==
  /\ template.name # "" /\ DOMAIN template.nodes # {}
  /\ \A n \in DOMAIN template.nodes :
       LET node == template.nodes[n] IN
       node.title # "" /\ "" \notin ToSet(node.inputs) \cup ToSet(node.outputs)

Call(kind, id, template) ==
  toLibrary' = Append(toLibrary, [kind |-> kind, id |-> id, template |-> template])
Save(template) == Call("save", template.id, template)

-----------------------------------------------------------------------------
(* The store: what is not valid is refused before it is there.             *)

Answer(call) ==
  CASE call.kind = "list"   -> [kind |-> "list", templates |-> library]
    [] call.kind = "save"   -> [kind |-> "save", ok |-> Valid(call.template),
                                template |-> call.template]
    [] call.kind = "delete" -> [kind |-> "delete"]

Serve ==
  /\ toLibrary # <<>>
  /\ LET call == Head(toLibrary) IN
     /\ library' = CASE call.kind = "save" /\ Valid(call.template) ->
                          (call.id :> call.template) @@ library
                     [] call.kind = "delete" -> Restrict(library, DOMAIN library \ {call.id})
                     [] OTHER -> library
     /\ toStudio' = Append(toStudio, Answer(call))
  /\ toLibrary' = Tail(toLibrary)
  /\ UNCHANGED <<clicks, minted, templatesV2, studioMode, away, editingTemplate, canvas>>

-----------------------------------------------------------------------------
(* The page.                                                               *)

\* The list is asked for when the page is mounted.
StudioInit ==
  /\ library = Stored /\ templatesV2 = <<>>
  /\ clicks = 0 /\ minted = 9 /\ studioMode = "catalog" /\ away = FALSE
  /\ editingTemplate = NoTemplate /\ canvas = Closed /\ toStudio = <<>>
  /\ toLibrary = <<[kind |-> "list", id |-> 0, template |-> NoTemplate]>>

\* A canvas that is mounted does not look at the template of the page again (useState).
Received ==
  /\ toStudio # <<>> /\ toStudio' = Tail(toStudio)
  /\ LET reply == Head(toStudio) IN
     \/ /\ reply.kind = "list" /\ templatesV2' = reply.templates
        /\ UNCHANGED <<editingTemplate, canvas, toLibrary>>
     \/ /\ reply.kind = "delete" /\ Call("list", 0, NoTemplate)
        /\ UNCHANGED <<templatesV2, editingTemplate, canvas>>
     \/ /\ reply.kind = "save" /\ reply.ok /\ Call("list", 0, NoTemplate)
        /\ editingTemplate' = reply.template /\ UNCHANGED <<templatesV2, canvas>>
     \/ /\ reply.kind = "save" /\ ~reply.ok
        /\ UNCHANGED <<templatesV2, editingTemplate, canvas, toLibrary>>
  /\ UNCHANGED <<clicks, minted, library, studioMode, away>>

\* A workflow is found or started and takes the place of the studio.
Leave ==
  /\ clicks < MaxClicks /\ clicks' = clicks + 1
  /\ ~away /\ away' = TRUE /\ canvas' = Closed
  /\ UNCHANGED <<minted, library, templatesV2, studioMode, editingTemplate, toLibrary,
                 toStudio>>

\* No workflow is active any more, or the user goes back to the catalog.
Return ==
  /\ away /\ away' = FALSE
  /\ studioMode' \in {studioMode, "catalog"}
  /\ canvas' = IF studioMode' = "canvas" THEN Opened(editingTemplate) ELSE Closed
  /\ UNCHANGED <<clicks, minted, library, templatesV2, editingTemplate, toLibrary, toStudio>>

Click ==
  /\ ~away /\ clicks < MaxClicks /\ clicks' = clicks + 1
  /\ Len(toLibrary) + Len(toStudio) < MaxUnderWay
  /\ UNCHANGED <<library, templatesV2, away, toStudio>>

-----------------------------------------------------------------------------
(* The catalog.                                                            *)

Open(template) ==
  /\ editingTemplate' = template /\ studioMode' = "canvas" /\ canvas' = Opened(template)
  /\ UNCHANGED toLibrary

CreateNew ==
  /\ minted' = minted + 2
  /\ Open([id |-> minted + 1, name |-> "new", status |-> "draft", edges |-> <<>>,
           nodes |-> (minted + 2) :>
                       [title |-> "made", rest |-> "made", inputs |-> <<"goal">>,
                        outputs |-> <<"spec">>]])

Clone(template) ==
  /\ minted' = minted + 1
  /\ Save([template EXCEPT !.id = minted', !.status = "draft"])

Flipped(status) == IF status = "published" THEN "draft" ELSE "published"

\* What is listed is sent, the status but for.
TogglePublish(template) == Save([template EXCEPT !.status = Flipped(@)])

InCatalog ==
  /\ ~Mounted /\ Click
  /\ \/ CreateNew
     \/ \E id \in DOMAIN templatesV2 :
          LET template == templatesV2[id] IN
          \/ Open(template) /\ UNCHANGED minted
          \/ Clone(template) /\ UNCHANGED <<studioMode, editingTemplate, canvas>>
          \/ /\ \/ TogglePublish(template)
                \/ id \notin DOMAIN Stored /\ Call("delete", id, NoTemplate)
             /\ UNCHANGED <<minted, studioMode, editingTemplate, canvas>>

-----------------------------------------------------------------------------
(* The canvas.                                                             *)

Draw(template) == canvas' = [canvas EXCEPT !.template = template, !.saved = FALSE]

\* A piece of the palette is placed and selected.
AddPaletteNode(piece) ==
  /\ minted' = minted + 1
  /\ canvas' = [canvas EXCEPT !.template.nodes = (minted' :> piece) @@ @,
                              !.selected = minted', !.saved = FALSE]

\* The mouse goes down on a node, which selects it, and may move it.
SelectOrDrag(n) ==
  \/ canvas' = [canvas EXCEPT !.selected = n]
  \/ canvas' = [canvas EXCEPT !.selected = n, !.template.nodes[n].rest = "changed",
                              !.saved = FALSE]

\* Beside the nodes: the selection and a connection that was begun are dropped.
ClickBeside == canvas' = [canvas EXCEPT !.selected = 0, !.connecting = Nowhere]

\* A slot is on its node, which is selected too.
ClickOutput(n, handle) ==
  canvas' = [canvas EXCEPT !.selected = n, !.connecting = [node |-> n, handle |-> handle]]

ClickInput(n, handle) ==
  LET from == canvas.connecting IN
  \/ /\ from.node \in {0, n}
     /\ canvas' = [canvas EXCEPT !.selected = n, !.connecting = Nowhere] /\ UNCHANGED minted
  \/ /\ from.node \notin {0, n}
     /\ minted' = minted + 1
     /\ canvas' = [canvas EXCEPT
          !.selected = n, !.connecting = Nowhere, !.saved = FALSE,
          !.template.edges = Append(@, [id |-> minted', source |-> from.node,
                                        sourceHandle |-> from.handle, target |-> n,
                                        targetHandle |-> handle])]

DeleteEdge(id) ==
  Draw([canvas.template EXCEPT !.edges = SelectSeq(@, LAMBDA e : e.id # id)])

\* Variant for mutation: only the edges that leave a node go with it.
Touches(edge, n)  == edge.source = n \/ edge.target = n
LeavesFrom(edge, n) == edge.source = n

\* Its edges go with a node; a connection that was begun there stays.
DeleteNode(n) ==
  canvas' = [canvas EXCEPT
    !.template.nodes = Restrict(@, DOMAIN @ \ {n}),
    !.template.edges = SelectSeq(@, LAMBDA e : ~Touches(e, n)),
    !.selected = 0, !.saved = FALSE]

\* What the inspector makes of slots: one more, one less, or one that is renamed.
Reslotted(slots, new) ==
  {Append(slots, new)}
  \cup {RemoveAt(slots, i) : i \in DOMAIN slots}
  \cup {[slots EXCEPT ![i] = name] : i \in DOMAIN slots, name \in Texts}

Inspected(node) ==
  {[node EXCEPT !.title = title] : title \in Texts}
  \cup {[node EXCEPT !.rest = "changed"]}
  \cup {[node EXCEPT !.inputs = slots] : slots \in Reslotted(node.inputs, "input")}
  \cup {[node EXCEPT !.outputs = slots] : slots \in Reslotted(node.outputs, "output")}

Inspect ==
  LET n == canvas.selected IN
  /\ n \in DOMAIN canvas.template.nodes
  /\ \/ \E node \in Inspected(canvas.template.nodes[n]) :
          Draw([canvas.template EXCEPT !.nodes[n] = node])
     \/ DeleteNode(n)

\* The name, the status.
EditHeader ==
  \/ \E name \in Texts : Draw([canvas.template EXCEPT !.name = name])
  \/ Draw([canvas.template EXCEPT !.status = Flipped(@)])

DrawOnCanvas ==
  \/ \E piece \in Pieces : AddPaletteNode(piece)
  \/ \E n \in DOMAIN canvas.template.nodes :
       \E handle \in ToSet(canvas.template.nodes[n].inputs) : ClickInput(n, handle)
  \/ /\ UNCHANGED minted
     /\ \/ \E n \in DOMAIN canvas.template.nodes :
             \/ SelectOrDrag(n)
             \/ \E handle \in ToSet(canvas.template.nodes[n].outputs) : ClickOutput(n, handle)
        \/ ClickBeside \/ Inspect \/ EditHeader
        \/ \E e \in ToSet(canvas.template.edges) : DeleteEdge(e.id)

\* It is called saved before the store has answered.
SaveCanvas == canvas' = [canvas EXCEPT !.saved = TRUE] /\ Save(canvas.template)

\* Back to the catalog, or to what runs: only the identifier of the template goes there.
CloseCanvas(mode) == studioMode' = mode /\ canvas' = Closed

InCanvas ==
  /\ Mounted /\ Click /\ UNCHANGED editingTemplate
  /\ \/ DrawOnCanvas /\ UNCHANGED <<studioMode, toLibrary>>
     \/ SaveCanvas /\ UNCHANGED <<minted, studioMode>>
     \/ \E mode \in {"catalog", "player"} : CloseCanvas(mode) /\ UNCHANGED <<minted, toLibrary>>

StudioNext == Serve \/ Received \/ Leave \/ Return \/ InCatalog \/ InCanvas

-----------------------------------------------------------------------------
(* Properties.                                                             *)

Idle == toLibrary = <<>> /\ toStudio = <<>>

\* When nothing is under way the catalog shows the templates as the store has them
\* (WorkflowPage.tsx:161).
CatalogIsStored == Idle => templatesV2 = library

\* What the canvas says is saved is in the store as it is drawn, once the call is over: if
\* the schema takes it.
SavedIsDrawn ==
  Mounted /\ canvas.saved /\ Idle /\ Valid(canvas.template) =>
    LET id == canvas.template.id IN
    id \in DOMAIN library /\ library[id] = canvas.template

\* Whatever is deleted, an edge ends at a node that is there and comes from another one.  It
\* may come from one that is gone: a connection is begun, its node deleted, and then ended.
EndsAtNodes(template) ==
  \A e \in ToSet(template.edges) : e.target \in DOMAIN template.nodes \ {e.source}
EdgesEndAtNodes ==
  /\ Mounted => EndsAtNodes(canvas.template)
  /\ \A id \in DOMAIN library : EndsAtNodes(library[id]) /\ Valid(library[id])

TemplatesAreKept == CatalogIsStored /\ SavedIsDrawn /\ EdgesEndAtNodes

\* A reply takes nothing away of what is drawn, whatever template it is about.
DrawingIsKept ==
  [][toStudio # <<>> /\ toStudio' = Tail(toStudio) => canvas' = canvas]_studioVars
=============================================================================
