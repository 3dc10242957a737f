---------------------------- MODULE WorkflowEditor ----------------------------
(***************************************************************************)
(* The workflow editor page (WorkflowEditor.tsx with the connection         *)
(* gesture of WorkflowCanvas.tsx): loading a workflow, editing its graph    *)
(* with an undo history, keeping a draft in the browser's localStorage and  *)
(* saving it to the server's draft endpoint, across visits of the page.    *)
(*                                                                         *)
(* A handler runs to its first await in one step, with the effects its     *)
(* state changes trigger; the answer of a request is a step of its own,    *)
(* taken whenever it comes, whether or not the page that asked is still    *)
(* mounted.                                                                *)
(***************************************************************************)
EXTENDS EditorHistory

CONSTANTS
    PaletteTypes,   \* BOUND: the palette buttons used
    DragTo,         \* BOUND: where nodes are dragged
    Catalogue,      \* node type -> the resources of the linked hubs, in order
    None,           \* no draft, no selection, no ETag, no connection being drawn
    Budgets         \* BOUNDS, a record for each kind of behaviour: the template the
                    \* workflow was created with and the number of edits, node ids,
                    \* visits, saves, server writes and sendings of a PUT

ASSUME EditorAssumption ==
    /\ Budgets \subseteq [template: Templates, edits: Nat, nodes: NodeIds, mounts: Nat, saves: Nat, etag: Nat, tries: Nat]
    /\ PaletteTypes \subseteq Types /\ DragTo \subseteq Position
    /\ Catalogue \in [{"agent", "eval"} -> Seq(Resources)]
    /\ None \notin Graphs

VARIABLES
    page,           \* what is rendered: closed, loading, resources, ready, error
    selected,       \* selectedNodeId
    connecting,     \* connectingStart of the canvas
    isDirty, saveStatus, isSaving,
    listed,         \* availableAgents and availableEvalSuites, by node type
    mayEdit,        \* can("edit_resource") && !isArchived of this visit
    entry,          \* starterGraph in the history entry's state
    local,          \* the draft in localStorage
    server,         \* the draft the server holds and its ETag
    saves,          \* save requests under way
    mounts, nextId, edits, started,     \* counters behind the bounds and fresh ids
    budget,         \* the bounds of this behaviour
    work,           \* HISTORY: the graph the user last worked on
    acked,          \* HISTORY: the graph of the last save the server took
    holes,          \* HISTORY: the ways work can be lost that have happened
    stray           \* HISTORY: a connection was finished from a node deleted meanwhile

status == <<isDirty, saveStatus, isSaving>>
visit == <<page, mayEdit, listed>>
history_ == <<work, acked, holes, stray>>
vars == <<historyVars, status, visit, history_, selected, connecting, entry, local, server,
          saves, mounts, nextId, edits, started, budget>>

Save == [graph: Graphs, etag: Nat \cup {None}, step: {"etag", "put", "ok", "failed"}, mount: Nat, tries: Nat]
Unlisted == [t \in {"agent", "eval"} |-> <<>>]

TypeOK ==
    /\ canvas \in Graphs /\ history \in Seq(Graphs)
    /\ page \in {"closed", "loading", "resources", "ready", "error"}
    /\ selected \in NodeIds \cup {None}
    /\ connecting \in {None} \cup [node: NodeIds, port: Ports]
    /\ isDirty \in BOOLEAN /\ saveStatus \in {"saved", "dirty", "saving"} /\ isSaving \in BOOLEAN
    /\ listed \in [{"agent", "eval"} -> Seq(Resources)] /\ mayEdit \in BOOLEAN
    /\ {entry, local, server.graph, work, acked} \subseteq Graphs \cup {None} /\ server.etag \in Nat
    /\ saves \subseteq Save
    /\ {mounts, nextId, edits, started} \subseteq Nat
    /\ holes \subseteq {"failed load", "written during a save"} /\ stray \in BOOLEAN

Init ==
    /\ HistoryInit
    /\ budget \in Budgets
    /\ page = "closed" /\ selected = None /\ connecting = None
    /\ isDirty = FALSE /\ saveStatus = "saved" /\ isSaving = FALSE
    /\ listed = Unlisted /\ mayEdit = FALSE
    /\ entry = IF budget.template = "blank" THEN None ELSE StarterGraph(budget.template)
    /\ nextId = Cardinality(Ids(StarterGraph(budget.template))) + 1
    /\ local = None /\ server = [graph |-> None, etag |-> 0] /\ saves = {}
    /\ mounts = 0 /\ edits = 0 /\ started = 0
    /\ work = None /\ acked = None /\ holes = {} /\ stray = FALSE
-----------------------------------------------------------------------------
(* Opening and leaving the page. *)

\* A reload keeps the history entry, which the create dialog made with the
\* starter graph; a visit from the library makes one without.
Open ==
    /\ page = "closed" /\ mounts < budget.mounts
    /\ page' = "loading" /\ mounts' = mounts + 1
    /\ mayEdit' \in BOOLEAN
    /\ entry' \in {entry, None}
    /\ UNCHANGED <<historyVars, status, listed, history_, selected, connecting, local, server,
                   saves, nextId, edits, started, budget>>

Close ==
    /\ page # "closed"
    /\ Unmount
    /\ page' = "closed" /\ selected' = None /\ connecting' = None
    /\ isDirty' = FALSE /\ saveStatus' = "saved" /\ isSaving' = FALSE
    /\ listed' = Unlisted /\ mayEdit' = FALSE
    /\ UNCHANGED <<history_, entry, local, server, saves, mounts, nextId, edits, started, budget>>

\* (mutant) No empty graph for a workflow without a draft.
ResolvedWithoutFallback == IF local # None THEN local ELSE IF entry # None THEN entry ELSE server.graph

\* The graph to show: local draft, starter graph, server draft, empty graph.
Resolved ==
    CASE local # None -> local
      [] local = None /\ entry # None -> entry
      [] local = None /\ entry = None /\ server.graph # None -> server.graph
      [] OTHER -> NoGraph

WorkflowFetched ==
    /\ page = "loading"
    /\ page' = "resources"
    /\ Unrecorded(Resolved)
    /\ UNCHANGED <<status, mayEdit, listed, history_, selected, connecting, entry, local, server,
                   saves, mounts, nextId, edits, started, budget>>

\* The error page.  The end of loading fires the persist effect, which writes
\* the graph the page holds: it has loaded none.
FetchFailed ==
    /\ page = "loading"
    /\ page' = "error"
    /\ local' = canvas
    /\ holes' = IF local \in {None, acked} /\ saves = {} THEN holes ELSE holes \cup {"failed load"}
    /\ UNCHANGED <<historyVars, status, mayEdit, listed, work, acked, stray, selected, connecting,
                   entry, server, saves, mounts, nextId, edits, started, budget>>

\* A draft written while a save is out: the answer clears this draft too.
HolesIfSaving == IF saves = {} THEN holes ELSE holes \cup {"written during a save"}

\* (mutant) No persist effect when loading ends.
ResourcesFetchedUnpersisted ==
    /\ page = "resources"
    /\ Unrecorded(AutoBind(canvas, listed))
    /\ page' = "ready" /\ isDirty' = FALSE /\ saveStatus' = "saved"
    /\ UNCHANGED <<isSaving, listed, mayEdit, history_, selected, connecting, entry, local, server, saves,
                   mounts, nextId, edits, started, budget>>

\* Each list arrives, or its requests failed and it stays empty.  The auto-bind
\* effect follows and, once loading ends, the persist effect.
ResourcesFetched ==
    /\ page = "resources"
    /\ \E known \in SUBSET {"agent", "eval"} :
          listed' = [t \in {"agent", "eval"} |-> IF t \in known THEN Catalogue[t] ELSE <<>>]
    /\ Unrecorded(AutoBind(canvas, listed'))
    /\ page' = "ready" /\ isDirty' = FALSE /\ saveStatus' = "saved"
    /\ local' = canvas'
    /\ work' = IF local # None /\ work = local THEN canvas' ELSE work
    /\ holes' = IF canvas' = local THEN holes ELSE HolesIfSaving
    /\ UNCHANGED <<isSaving, mayEdit, acked, stray, selected, connecting, entry, server, saves,
                   mounts, nextId, edits, started, budget>>
-----------------------------------------------------------------------------
(* Editing.  A handler sets the graph and marks it dirty; the persist effect *)
(* writes it to localStorage.                                               *)

Edited ==
    /\ page = "ready" /\ edits < budget.edits
    /\ edits' = edits + 1
    /\ isDirty' = TRUE /\ saveStatus' = "dirty"
    /\ local' = canvas' /\ work' = canvas' /\ holes' = HolesIfSaving
    /\ UNCHANGED <<isSaving, visit, acked, entry, server, saves, mounts, started, budget>>

\* handleAddNode: the palette is disabled without the permission to edit.
AddNode(type) ==
    /\ mayEdit /\ nextId <= budget.nodes
    /\ LET node == [type |-> type, pos |-> NewPosition(canvas), text |-> 0,
                    link |-> IF type \in DOMAIN listed /\ listed[type] # <<>>
                             THEN Head(listed[type]) ELSE NoLink]
       IN  Recorded(With(canvas, nextId, node))
    /\ selected' = nextId /\ nextId' = nextId + 1
    /\ Edited /\ UNCHANGED <<connecting, stray>>

\* Ctrl+D: asks for no permission.
Duplicate ==
    /\ selected \in Ids(canvas) /\ nextId <= budget.nodes
    /\ LET node == canvas.nodes[selected]
       IN  Recorded(With(canvas, nextId, [node EXCEPT !.pos = [x |-> @.x + 30, y |-> @.y + 30]]))
    /\ selected' = nextId /\ nextId' = nextId + 1
    /\ Edited /\ UNCHANGED <<connecting, stray>>

\* From the node's card, or by Delete on the selection, which may be gone.
DeleteNode(n) ==
    /\ n \in Ids(canvas) \cup {selected} /\ n # None
    /\ Recorded(Without(canvas, n))
    /\ selected' = IF selected = n THEN None ELSE selected
    /\ Edited /\ UNCHANGED <<nextId, connecting, stray>>

\* Mouse down on a node selects it, moves drag it; not recorded.
MoveNode(n, pos) ==
    /\ n \in Ids(canvas)
    /\ Unrecorded(With(canvas, n, [canvas.nodes[n] EXCEPT !.pos = pos]))
    /\ selected' = n
    /\ Edited /\ UNCHANGED <<nextId, connecting, stray>>

\* The drawer configures the selected node, if it is still there.
InDrawer == selected \in Ids(canvas)

\* The drawer's fields: title, tools and condition; not recorded.
EditField ==
    /\ InDrawer
    /\ Unrecorded(With(canvas, selected, [canvas.nodes[selected] EXCEPT !.text = 1 - @]))
    /\ Edited /\ UNCHANGED <<selected, nextId, connecting, stray>>

\* The drawer's resource list, offered once it has something to offer.
ChooseResource(r) ==
    /\ InDrawer /\ NeedsLink(canvas.nodes[selected])
    /\ LET offered == listed[canvas.nodes[selected].type]
       IN  offered # <<>> /\ r \in {NoLink} \cup {offered[i] : i \in DOMAIN offered}
    /\ Unrecorded(With(canvas, selected, [canvas.nodes[selected] EXCEPT !.link = r]))
    /\ Edited /\ UNCHANGED <<selected, nextId, connecting, stray>>

DeleteEdge(e) ==
    /\ e \in canvas.edges
    /\ Recorded([canvas EXCEPT !.edges = @ \ {e}])
    /\ Edited /\ UNCHANGED <<selected, nextId, connecting, stray>>

UndoEdit == Undo /\ Edited /\ UNCHANGED <<selected, nextId, connecting, stray>>
RedoEdit == Redo /\ Edited /\ UNCHANGED <<selected, nextId, connecting, stray>>

Select(n) ==
    /\ page = "ready" /\ edits < budget.edits /\ n \in Ids(canvas) \cup {None} /\ n # selected
    /\ selected' = n
    /\ UNCHANGED <<historyVars, status, visit, history_, connecting, entry, local, server, saves,
                   mounts, nextId, edits, started, budget>>
-----------------------------------------------------------------------------
(* Drawing a connection from an output port to an input port. *)

StartConnection(n, port) ==
    /\ page = "ready" /\ edits < budget.edits /\ connecting = None
    /\ n \in Ids(canvas) /\ port \in OutPorts(canvas.nodes[n].type)
    /\ connecting' = [node |-> n, port |-> port]
    /\ UNCHANGED <<historyVars, status, visit, history_, selected, entry, local, server, saves,
                   mounts, nextId, edits, started, budget>>

NewEdge(n, port) ==
    [source |-> connecting.node, sourceHandle |-> connecting.port, target |-> n, targetHandle |-> port]

\* (mutant) The cycle check walks from the wrong end.
AcceptedBackwards(n, port) ==
    /\ connecting.node # n
    /\ ~CreatesCycle(canvas.edges, n, connecting.node)
    /\ ~IsDuplicate(canvas.edges, NewEdge(n, port))

\* Released over an input port: refused on the node it started from, on a
\* cycle and on a duplicate.
Accepted(n, port) ==
    /\ connecting.node # n
    /\ ~CreatesCycle(canvas.edges, connecting.node, n)
    /\ ~IsDuplicate(canvas.edges, NewEdge(n, port))

Connect(n, port) ==
    /\ connecting # None /\ n \in Ids(canvas) /\ port \in InPorts(canvas.nodes[n].type)
    /\ Accepted(n, port)
    /\ Recorded([canvas EXCEPT !.edges = @ \cup {NewEdge(n, port)}])
    /\ connecting' = None
    /\ stray' = (stray \/ connecting.node \notin Ids(canvas))
    /\ Edited /\ UNCHANGED <<selected, nextId>>

\* Released anywhere else, or refused.
DropConnection ==
    /\ connecting # None
    /\ connecting' = None
    /\ UNCHANGED <<historyVars, status, visit, history_, selected, entry, local, server, saves,
                   mounts, nextId, edits, started, budget>>
-----------------------------------------------------------------------------
(* Saving: read the draft's ETag, then PUT with If-Match. *)

\* The button is disabled while a save runs; Ctrl+S is not.
SaveDraft ==
    /\ page = "ready" /\ isDirty /\ mayEdit /\ started < budget.saves
    /\ isSaving' = TRUE /\ saveStatus' = "saving" /\ started' = started + 1
    /\ saves' = saves \cup {[graph |-> canvas, etag |-> None, step |-> "etag", mount |-> mounts, tries |-> 0]}
    /\ UNCHANGED <<historyVars, isDirty, visit, history_, selected, connecting, entry, local, server,
                   mounts, nextId, edits, budget>>

Advance(s, t) == saves' = (saves \ {s}) \cup {t}

\* updateDraft's first request; if it fails the PUT goes without a condition.
ReadEtag(s) ==
    /\ s.step = "etag"
    /\ \E etag \in {server.etag, None} : Advance(s, [s EXCEPT !.step = "put", !.etag = etag])
    /\ UNCHANGED <<historyVars, status, visit, history_, selected, connecting, entry, local, server,
                   mounts, nextId, edits, started, budget>>

\* The server takes the PUT unless the ETag it names is no longer the draft's.
\* If its answer is lost, request() sends the same PUT again.
Put(s) ==
    /\ s.step = "put"
    /\ IF s.etag \in {None, server.etag}
       THEN /\ server.etag < budget.etag
            /\ server' = [graph |-> s.graph, etag |-> server.etag + 1] /\ acked' = s.graph
            /\ \/ Advance(s, [s EXCEPT !.step = "ok"])
               \/ s.tries + 1 < budget.tries /\ Advance(s, [s EXCEPT !.tries = @ + 1])
       ELSE Advance(s, [s EXCEPT !.step = "failed"]) /\ UNCHANGED <<server, acked>>
    /\ UNCHANGED <<historyVars, status, visit, work, holes, stray, selected, connecting, entry, local,
                   mounts, nextId, edits, started, budget>>

PutFails(s) ==
    /\ s.step = "put"
    /\ Advance(s, [s EXCEPT !.step = "failed"])
    /\ UNCHANGED <<historyVars, status, visit, history_, selected, connecting, entry, local, server,
                   mounts, nextId, edits, started, budget>>

\* (mutant) The local draft goes whatever the answer.
SaveAnsweredClearsAlways(s) ==
    /\ s.step \in {"ok", "failed"}
    /\ saves' = saves \ {s}
    /\ local' = None
    /\ IF s.mount = mounts /\ page # "closed"
       THEN isSaving' = FALSE /\ isDirty' = TRUE /\ saveStatus' = "dirty"
       ELSE UNCHANGED status
    /\ UNCHANGED <<historyVars, visit, history_, selected, connecting, entry, server, mounts, nextId,
                   edits, started, budget>>

\* The rest of handleSaveDraft: a save that succeeded removes the local draft,
\* whatever it holds; only a page still mounted takes the new status.
SaveAnswered(s) ==
    /\ s.step \in {"ok", "failed"}
    /\ saves' = saves \ {s}
    /\ local' = IF s.step = "ok" THEN None ELSE local
    /\ IF s.mount = mounts /\ page # "closed"
       THEN /\ isSaving' = FALSE
            /\ isDirty' = (isDirty /\ s.step = "failed")
            /\ saveStatus' = IF s.step = "ok" THEN "saved" ELSE "dirty"
       ELSE UNCHANGED status
    /\ UNCHANGED <<historyVars, visit, history_, selected, connecting, entry, server, mounts, nextId,
                   edits, started, budget>>

\* Another editor of the same workflow saves.
OtherSaves ==
    /\ server.etag < budget.etag
    /\ server' = [graph |-> NoGraph, etag |-> server.etag + 1]
    /\ UNCHANGED <<historyVars, status, visit, history_, selected, connecting, entry, local, saves,
                   mounts, nextId, edits, started, budget>>
-----------------------------------------------------------------------------
Next ==
    \/ Open \/ Close \/ WorkflowFetched \/ FetchFailed \/ ResourcesFetched
    \/ \E type \in PaletteTypes : AddNode(type)
    \/ Duplicate \/ EditField \/ UndoEdit \/ RedoEdit \/ DropConnection \/ SaveDraft \/ OtherSaves
    \/ \E n \in NodeIds \cup {None} : DeleteNode(n) \/ Select(n)
    \/ \E n \in NodeIds, pos \in DragTo : MoveNode(n, pos)
    \/ \E r \in Resources \cup {NoLink} : ChooseResource(r)
    \/ \E n \in NodeIds, port \in Ports : StartConnection(n, port) \/ Connect(n, port)
    \/ \E e \in canvas.edges : DeleteEdge(e)
    \/ \E s \in saves : ReadEtag(s) \/ Put(s) \/ PutFails(s) \/ SaveAnswered(s)

Spec == Init /\ [][Next]_vars
-----------------------------------------------------------------------------
\* However undo, redo, deletions and connections interleave, the canvas and
\* every snapshot undo can bring back stay without a cycle (createsCycle's
\* "DAG workflows require acyclic node topologies").
AlwaysAcyclic == \A g \in {canvas} \cup {history[i] : i \in DOMAIN history} : Acyclic(g)

\* Deleting a node takes its edges along, in the canvas and in what undo and
\* redo bring back: no edge hangs in the air, unless a connection was finished
\* from a node deleted while it was being drawn (handleDeleteNode, pushHistory).
NoDanglingEdge ==
    ~stray => \A g \in {canvas} \cup {history[i] : i \in DOMAIN history} : Attached(g)

\* The graph the user last worked on is in localStorage or is the last one the
\* server took from this browser, over saves, failures, visits and reloads,
\* except where a load failed over it or another draft was written while a
\* save was out (fetchWorkflowAndHubResources, the persist effect, handleSaveDraft).
WorkSurvives == work # None /\ holes = {} => work \in {local, acked}

\* A page that says "Saved" shows what a reload would bring back.
SavedIsKept ==
    page = "ready" /\ saveStatus = "saved" /\ holes = {} =>
        canvas = local \/ (local = None /\ canvas = acked)

\* A node added from the palette covers no card already on the canvas (the
\* slot search of handleAddNode).
NewNodesApart ==
    [][nextId' # nextId /\ (\E type \in PaletteTypes : AddNode(type)) =>
          \A i \in Ids(canvas) : ~Overlap(canvas'.nodes[nextId].pos, canvas.nodes[i].pos)]_vars

\* The draft in localStorage follows the graph: it is absent or what the
\* editor last showed ("Persist the graph to localStorage whenever it changes").
DraftFollowsGraph == [][local' \in {local, None} \/ page' = "ready"]_vars
=============================================================================
