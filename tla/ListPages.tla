------------------------------ MODULE ListPages ------------------------------
(***************************************************************************)
(* The pages of the console that list what the gateway holds, create and   *)
(* delete entries, and fetch the list again after each write.  They are    *)
(* the same program with different details; the details of each are the    *)
(* two sets below, what its handlers do and what it renders.               *)
(*                                                                         *)
(* What searching, filtering and sorting leave on screen is any part of    *)
(* the list.  An entry is "on" or "off": a collection that holds documents *)
(* or not, a key or a user that is active or not, a model that runs or     *)
(* not, a credential that was stored or comes from the environment.        *)
(***************************************************************************)
EXTENDS Page, SequencesExt

(* Handlers.  create: an entry is created;  guards: not while it is being   *)
(* created;  leaves: then the page is left;  stays: the form stays open to  *)
(* show the new key;  forces: a collection that holds documents is deleted *)
(* on a second request;  bulk: a selection is deleted at once;  toggle:    *)
(* entries are switched;  test: their health is checked;  drops: a decided *)
(* entry is taken off the list, which is not fetched;  one, each: a button *)
(* is disabled during its request, remembered as one entry or a set;       *)
(* waits: until the list has come as well;  keeps: a failed deletion       *)
(* leaves its dialog open;  silent: fetching does not show;  stored: only  *)
(* an entry that is stored is deleted, and creating replaces it;  purges:  *)
(* an entry that is on is switched off, one that is off is deleted;        *)
(* preview: the chunks of a document are fetched.                          *)
(* Pages.   hides: a page that loads shows nothing else;  hidesRows: no    *)
(* rows;  keepsRows: unless there are none;  inline: the form is always    *)
(* there;  modal: deleting asks in a dialog;  locks: which is disabled     *)
(* during the request;  refresh: a button fetches the list;  retry: after  *)
(* an error only;  errorHides: an error shows nothing else.                *)
WorkflowLibrary == {"create", "guards", "leaves"}
WorkflowLibraryView == {"hides", "modal"}
AgentLibrary == {"create", "guards"}
AgentLibraryView == {"hides", "modal"}
SuiteManager == {"create", "guards"}
SuiteManagerView == {"hides", "modal"}
CollectionsWorkspace == {"create", "guards", "forces"}
CollectionsWorkspaceView == {"hides", "modal"}
DatastoresWorkspace == {"create", "guards", "test", "one"}
DatastoresWorkspaceView == {"hides", "modal", "refresh"}
DocumentsWorkspace == {"create", "guards", "bulk", "preview"}
DocumentsWorkspaceView == {"hides", "modal"}
APIKeysPanel == {"create", "stays", "toggle"}
APIKeysPanelView == {"hidesRows"}
CredentialsSettings == {"create", "guards", "stored"}
CredentialsSettingsView == {"hides", "inline"}
DatabaseConnectionsTab == {"create", "guards", "test"}
DatabaseConnectionsTabView == {"hidesRows", "refresh"}
UserDirectory == {"toggle", "one", "waits", "purges"}
UserDirectoryView == {"hides", "keepsRows", "refresh"}
InvitesTable == {"toggle"}
InvitesTableView == {"hides", "errorHides"}
ApprovalQueue == {"drops", "each"}
ApprovalQueueView == {"hides", "errorHides", "retry"}
LocalModelsPage == {"toggle", "one", "waits", "keeps", "silent"}
LocalModelsPageView == {"hides", "modal", "locks"}

Pages == [
    workflows |-> WorkflowLibrary \cup WorkflowLibraryView, agents |-> AgentLibrary \cup AgentLibraryView,
    suites |-> SuiteManager \cup SuiteManagerView,
    collections |-> CollectionsWorkspace \cup CollectionsWorkspaceView,
    datastores |-> DatastoresWorkspace \cup DatastoresWorkspaceView,
    documents |-> DocumentsWorkspace \cup DocumentsWorkspaceView,
    keys |-> APIKeysPanel \cup APIKeysPanelView, credentials |-> CredentialsSettings \cup CredentialsSettingsView,
    connections |-> DatabaseConnectionsTab \cup DatabaseConnectionsTabView,
    users |-> UserDirectory \cup UserDirectoryView, invites |-> InvitesTable \cup InvitesTableView,
    approvals |-> ApprovalQueue \cup ApprovalQueueView, models |-> LocalModelsPage \cup LocalModelsPageView]
Is(feature) == feature \in Pages[ui.page]

List(clears) == <<[op |-> "list", clears |-> clears]>>

\* BOUND: two entries.
Init ==
    \E page \in DOMAIN Pages :
        Started([page |-> page, list |-> Empty, loading |-> TRUE, error |-> FALSE, left |-> FALSE,
                 open |-> FALSE, submitting |-> FALSE, target |-> None, force |-> FALSE, deleting |-> FALSE,
                 busy |-> {}, selected |-> {}, failed |-> {}, partial |-> FALSE,
                 preview |-> None, chunks |-> None, crossed |-> FALSE],
                [items |-> <<"on", "off">>], List(FALSE))
-----------------------------------------------------------------------------
(* The gateway. *)

\* A name is taken once.  What is not there is not changed, except that a stored
\* credential is removed whether or not it is there.
NotEmpty(r) == r.ask.op = "delete" /\ ui.page = "collections" /\ ~r.ask.force /\ server.items[r.ask.id] = "on"
Refused(r) ==
    CASE r.ask.op = "list" -> FALSE
      [] r.ask.op = "create" -> r.ask.name \in DOMAIN server.items /\ ~Is("stored")
      [] OTHER -> r.ask.id \notin DOMAIN server.items /\ ~Is("stored")
Flip(v) == IF v = "on" THEN "off" ELSE "on"

\* A new key is active, a credential stored; a new collection holds no documents.
New == IF Is("stays") \/ Is("stored") THEN "on" ELSE "off"

\* Deleting a user that is deleted already purges it.
Purges(r) == r.ask.op = "toggle" /\ Is("purges") /\ server.items[r.ask.id] = "off"
Effect(r) ==
    CASE r.ask.op = "create" -> [server EXCEPT !.items = Put(@, r.ask.name, New)]
      [] (r.ask.op = "delete" /\ ~NotEmpty(r)) \/ Purges(r) -> [server EXCEPT !.items = Drop(@, r.ask.id)]
      [] r.ask.op = "toggle" /\ ~Purges(r) -> [server EXCEPT !.items[r.ask.id] = Flip(r.ask.from)]
      [] OTHER -> server
Reply(r) ==
    CASE r.ask.op = "list" -> server.items
      [] NotEmpty(r) -> "not empty"
      [] OTHER -> "done"
-----------------------------------------------------------------------------
(* The list. *)

\* A fetch shows that it loads, except on the page of local models.
Loading(state) == IF Is("silent") THEN state ELSE [state EXCEPT !.loading = TRUE, !.error = FALSE]
Rested(state) == [state EXCEPT !.busy = {}, !.deleting = FALSE]
ListFetched(r) ==
    /\ Came(r, "list")
    /\ LET state == [IF r.ask.clears THEN Rested(ui) ELSE ui EXCEPT !.loading = FALSE]
       IN  ui' = IF r.got = Failed THEN [state EXCEPT !.error = TRUE] ELSE [state EXCEPT !.list = r.got]
    /\ Done(r)

\* What is rendered: the page around the rows, and the rows.
Whole ==
    /\ ~ui.left
    /\ Is("hides") => ~ui.loading \/ (Is("keepsRows") /\ ui.list # Empty)
    /\ Is("errorHides") => ~ui.error
Row(i) == Whole /\ i \in DOMAIN ui.list /\ ~(Is("hidesRows") /\ ui.loading)
Enabled(i) == i \notin ui.busy
Started1(i) == [ui EXCEPT !.busy = IF Is("one") THEN {i} ELSE IF Is("each") THEN @ \cup {i} ELSE @]
Ended(i) == [ui EXCEPT !.busy = IF Is("each") THEN @ \ {i} ELSE {}]

Refresh == Is("refresh") /\ Whole /\ ui' = Loading(ui) /\ Send(List(FALSE))
Retry == Is("retry") /\ ui.error /\ ui' = Loading(ui) /\ Send(List(FALSE))

\* What follows a write to entry i that succeeded, and one that failed.
Wrote(r, op, i, state) ==
    Answer(r, op, Loading(IF Is("waits") THEN state ELSE [state EXCEPT !.busy = Ended(i).busy]), List(Is("waits")), Ended(i))
-----------------------------------------------------------------------------
(* Creating. *)

OpenForm == Is("create") /\ ~Is("inline") /\ Whole /\ ~ui.open /\ Set([ui EXCEPT !.open = TRUE])
CloseForm == Whole /\ ui.open /\ Set([ui EXCEPT !.open = FALSE])

\* BOUND: no two creations choose the same name; the list began with 1 and 2.
Create(tried) == [op |-> "create", tried |-> tried, name |-> sent + 3]

Submit ==
    /\ Is("create") /\ Whole /\ (ui.open \/ Is("inline"))
    /\ ~ui.submitting
    /\ Ask([ui EXCEPT !.submitting = Is("guards")], Create(FALSE))

\* The form of a database connection creates the connection to test it, does not
\* fetch the list and removes nothing.
TryConnection ==
    /\ ui.page = "connections" /\ ui.open
    /\ Ask(ui, Create(TRUE))

Created(r) ==
    IF r.ask.tried THEN Answer(r, "create", [ui EXCEPT !.partial = TRUE], <<>>, ui)
    ELSE LET after == [ui EXCEPT !.submitting = FALSE, !.open = Is("stays") /\ @]
         IN  IF Is("leaves") THEN Answer(r, "create", [after EXCEPT !.left = TRUE], <<>>, [ui EXCEPT !.submitting = FALSE])
             ELSE Answer(r, "create", Loading(after), List(FALSE), [ui EXCEPT !.submitting = FALSE])
-----------------------------------------------------------------------------
(* Deleting. *)

Delete(i, force, batch) == [op |-> "delete", id |-> i, force |-> force, batch |-> batch]

\* Without a dialog of the page: window.confirm, or nothing at all.
DeleteNow(i) ==
    /\ ~Is("modal") /\ Row(i) /\ Enabled(i)
    /\ (Is("stored") => ui.list[i] = "on") /\ (Is("purges") => ui.list[i] = "off")
    /\ Ask(Started1(i), Delete(i, TRUE, 0))

ChooseTarget(i) == Is("modal") /\ Row(i) /\ ui.target = None /\ Set([ui EXCEPT !.target = i])
NoTarget(state) == [state EXCEPT !.target = None, !.force = FALSE]
Cancel == Whole /\ ui.target # None /\ ~(Is("locks") /\ ui.deleting) /\ Set(NoTarget(ui))

\* The dialog of local models is disabled during the request.  ConfirmModal has a
\* disabled button for it as well, but Enter confirms all the same.
Confirm ==
    /\ Whole /\ ui.target # None /\ ~(Is("locks") /\ ui.deleting)
    /\ Ask([ui EXCEPT !.deleting = Is("locks")], Delete(ui.target, ui.force, 0))

\* A collection that holds documents is not deleted; the dialog asks again.
Deleted(r) ==
    /\ Came(r, "delete") /\ r.ask.batch = 0
    /\ IF r.got = "not empty" THEN ui' = [ui EXCEPT !.target = r.ask.id, !.force = TRUE] /\ Done(r)
       ELSE IF r.got = Failed
       THEN /\ ui' = [IF Is("keeps") THEN ui ELSE NoTarget(Ended(r.ask.id)) EXCEPT !.deleting = FALSE]
            /\ Done(r)
       ELSE IF Is("drops") THEN ui' = [Ended(r.ask.id) EXCEPT !.list = Drop(@, r.ask.id)] /\ Done(r)
       ELSE Wrote(r, "delete", r.ask.id, NoTarget(ui))

\* The selection: single entries, or all that are on screen.
Select(i) == Is("bulk") /\ Row(i) /\ Set([ui EXCEPT !.selected = IF i \in @ THEN @ \ {i} ELSE @ \cup {i}])
DeleteSelected ==
    /\ Is("bulk") /\ Whole /\ ui.selected # {}
    /\ UNCHANGED ui
    /\ Send([n \in 1 .. Cardinality(ui.selected) |-> Delete(SetToSeq(ui.selected)[n], TRUE, sent + 1)])

\* Promise.all: the first failure ends it, with the list as it was; otherwise the
\* last answer clears the selection.
BulkDeleted(r) ==
    /\ Came(r, "delete") /\ r.ask.batch # 0
    /\ LET last == ~\E q \in net \ {r} : q.ask.op = "delete" /\ q.ask.batch = r.ask.batch
       IN  IF r.got = Failed THEN ui' = [ui EXCEPT !.failed = @ \cup {r.ask.batch}, !.partial = TRUE] /\ Done(r)
           ELSE IF last /\ r.ask.batch \notin ui.failed
           THEN ui' = Loading([ui EXCEPT !.selected = {}]) /\ Go(r, List(FALSE))
           ELSE UNCHANGED ui /\ Done(r)
-----------------------------------------------------------------------------
(* The rest. *)

Toggle(i) ==
    /\ Is("toggle") /\ Row(i) /\ Enabled(i) /\ (Is("purges") => ui.list[i] = "on")
    /\ Ask(Started1(i), [op |-> "toggle", id |-> i, from |-> ui.list[i]])
Toggled(r) == Came(r, "toggle") /\ Wrote(r, "toggle", r.ask.id, ui)

Test(i) == Is("test") /\ Row(i) /\ Enabled(i) /\ Ask(Started1(i), [op |-> "test", id |-> i])
Tested(r) == Answer(r, "test", Ended(r.ask.id), <<>>, Ended(r.ask.id))

\* The chunks that come are shown for the document that is open by then.
Preview(i) == Is("preview") /\ Row(i) /\ Ask([ui EXCEPT !.preview = i], [op |-> "chunks", id |-> i])
ClosePreview == ui.preview # None /\ Set([ui EXCEPT !.preview = None])
ChunksFetched(r) ==
    /\ Came(r, "chunks")
    /\ ui' = [ui EXCEPT !.chunks = IF r.got = Failed THEN None ELSE r.ask.id,
                        !.crossed = r.got = Failed \/ r.ask.id # ui.preview]
    /\ Done(r)

\* The page of keys and the upload of a document call fetch() themselves.
SentByRequest == {r \in net : ui.page # "keys" /\ ~(ui.page = "documents" /\ r.ask.op = "create")}

OthersChange ==
    /\ sent = 1 /\ ~raced /\ server.items # Empty
    /\ server' = [server EXCEPT !.items = Drop(@, 1)]
    /\ raced' = TRUE /\ UNCHANGED <<ui, net, sent>>
-----------------------------------------------------------------------------
Next ==
    \/ Refresh \/ Retry \/ OpenForm \/ CloseForm \/ Submit \/ TryConnection \/ Cancel \/ Confirm
    \/ DeleteSelected \/ ClosePreview \/ OthersChange
    \/ \E i \in DOMAIN ui.list :
          DeleteNow(i) \/ ChooseTarget(i) \/ Select(i) \/ Toggle(i) \/ Test(i) \/ Preview(i)
    \/ \E r \in net :
          \/ ListFetched(r) \/ Deleted(r) \/ BulkDeleted(r) \/ Toggled(r) \/ Tested(r) \/ ChunksFetched(r)
          \/ r.ask.op = "create" /\ Created(r)
    \/ Serve(Refused, Effect, Reply) \/ RepeatOne(SentByRequest, Refused, Effect, Same)

Spec == Init /\ [][Next]_vars
-----------------------------------------------------------------------------
TypeOK ==
    /\ ui.page \in DOMAIN Pages
    /\ {ui.loading, ui.error, ui.open, ui.submitting, ui.force, ui.deleting} \subseteq BOOLEAN
    /\ \A i \in DOMAIN ui.list : ui.list[i] \in {"on", "off"}

BusyHasCause ==
    /\ ui.loading => Out({"list"})
    /\ ui.submitting => Out({"create"})
    /\ ui.deleting => Out({"delete", "list"})
    /\ ui.busy # {} => Out({"delete", "toggle", "test", "list"})

\* Once nothing is under way the page shows the list as the gateway holds it,
\* except where it does not fetch it: after a bulk deletion that failed in part,
\* and after a connection was created to test it.
Fresh ==
    Quiet /\ ~raced /\ ~ui.error /\ ~ui.left /\ ~ui.partial =>
        /\ ui.list = server.items
        /\ ui.preview # None /\ ~ui.crossed => ui.chunks = ui.preview
=============================================================================
