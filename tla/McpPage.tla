------------------------------- MODULE McpPage -------------------------------
(***************************************************************************)
(* The registry of MCP servers and their tools: its page (MCPHubPage.tsx)   *)
(* and the gateway's handlers (api/mcp_manager.py).                         *)
(*                                                                         *)
(* The gateway keeps a row for each tool a server was found to have: it    *)
(* asks the server, looks which rows there are, and adds the missing ones. *)
(* Registering a server commits it, then its health, and then discovers    *)
(* its tools.  Toggling a tool flips its row, and the page flips what it   *)
(* shows when the answer comes, without fetching.  Each server exposes one *)
(* tool here.                                                              *)
(***************************************************************************)
EXTENDS Page

Server(internal, name, health) == [internal |-> internal, name |-> name, health |-> health]
Tool(s) == [server |-> s, enabled |-> TRUE]
Fetch == <<[op |-> "fetch"]>>
NewServer == [op |-> "create", id |-> None, read |-> None]

\* An internal server with its tool, and an external one that was never asked.
\* up: the external servers answer.
Init ==
    \E up \in BOOLEAN :
        Started([servers |-> Empty, tools |-> Empty, loading |-> TRUE, error |-> FALSE,
                 form |-> None, submitting |-> FALSE, target |-> None,
                 testing |-> None, result |-> None, executing |-> FALSE, moved |-> FALSE, crossed |-> FALSE],
                [servers |-> <<Server(TRUE, "internal", "healthy"), Server(FALSE, "old", "unknown")>>,
                 tools |-> <<Tool(1)>>, up |-> up, overlapped |-> FALSE],
                Fetch)
-----------------------------------------------------------------------------
(* The gateway. *)

Health(answers) == IF answers THEN "healthy" ELSE "unhealthy"
Answers(s) == server.servers[s].internal \/ server.up
RowsOf(s) == {t \in DOMAIN server.tools : server.tools[t].server = s}
Names(others) == {server.servers[s].name : s \in DOMAIN server.servers \ others}

\* register_mcp_server up to its first commit.
Registers(r) ==
    /\ r.ask.op = "create" /\ r.got = Waiting /\ r.ask.id = None /\ "new" \notin Names({})
    /\ Moves(r, [r EXCEPT !.ask.id = r.id + 2, !.acts = @ + 1],
             [server EXCEPT !.servers = Put(@, r.id + 2, Server(FALSE, "new", "unknown"))])
    /\ UNCHANGED <<sent, raced>>

\* sync_server_tools_db has asked the server and looks which rows there are; a
\* server that is registered gets its health before that.
Looks(r) ==
    /\ r.ask.op \in {"sync", "create"} /\ r.got = Waiting /\ r.ask.read = None /\ r.ask.id \in DOMAIN server.servers
    /\ Moves(r, [r EXCEPT !.ask.read = RowsOf(r.ask.id)],
             IF r.ask.op = "sync" THEN server ELSE [server EXCEPT !.servers[r.ask.id].health = Health(server.up)])
    /\ UNCHANGED <<sent, raced>>

\* register_mcp_server goes on without the tools if discovering them fails.
DiscoveryFails(r) ==
    /\ r.ask.op = "create" /\ r.got = Waiting /\ r.ask.read # None /\ r.ask.id \in DOMAIN server.servers
    /\ Settle(r, "done", server) /\ UNCHANGED raced
Ready == {r \in net : r.ask.op = "sync" /\ r.ask.id \in DOMAIN server.servers => r.ask.read # None}

\* A name is taken once; a server that is deleted while it is registered fails the
\* request.
Refused(r) ==
    CASE r.ask.op = "fetch" -> FALSE
      [] r.ask.op = "create" -> r.ask.read = None \/ r.ask.id \notin DOMAIN server.servers
      [] r.ask.op = "update" -> r.ask.id \notin DOMAIN server.servers \/ "new" \in Names({r.ask.id})
      [] r.ask.op = "delete" -> r.ask.id \notin DOMAIN server.servers \/ server.servers[r.ask.id].internal
      [] r.ask.op = "toggle" -> r.ask.id \notin DOMAIN server.tools
      [] OTHER -> r.ask.id \notin DOMAIN server.servers

\* (mutant) A row is added whether or not the tool has one.
MissingAlways(r) == TRUE

\* An external server that does not answer has no tools; an internal one has
\* default ones.
Missing(r) == r.ask.read = {} /\ Answers(r.ask.id)
Synced(r) ==
    IF Missing(r)
    THEN [server EXCEPT !.tools = Put(@, r.id, Tool(r.ask.id)), !.overlapped = @ \/ RowsOf(r.ask.id) # r.ask.read]
    ELSE server
\* Deleting a server deletes its tools; a rename keeps them.
Effect(r) ==
    CASE r.ask.op = "update" -> [server EXCEPT !.servers[r.ask.id].name = "new"]
      [] r.ask.op = "delete" -> [server EXCEPT !.servers = Drop(@, r.ask.id),
                                               !.tools = [t \in DOMAIN @ \ RowsOf(r.ask.id) |-> @[t]]]
      [] r.ask.op = "health" -> [server EXCEPT !.servers[r.ask.id].health = Health(Answers(r.ask.id))]
      [] r.ask.op \in {"sync", "create"} -> Synced(r)
      [] r.ask.op = "toggle" -> [server EXCEPT !.tools[r.ask.id].enabled = ~@]
      [] OTHER -> server
Reply(r) == IF r.ask.op = "fetch" THEN [servers |-> server.servers, tools |-> server.tools] ELSE "done"

\* What is sent again starts anew, at whatever point a registration was lost.
Again(r) == IF r.ask.op = "sync" THEN [r.ask EXCEPT !.read = None] ELSE r.ask
CreatesAgain(r) ==
    /\ r.ask.op = "create" /\ r.got = Waiting /\ r.ask.id # None
    /\ \/ SentAgain(r, r.acts, NewServer, server)
       \/ ~Refused(r) /\ SentAgain(r, r.acts, NewServer, Effect(r))

\* Another administrator switches a tool.  BOUND: once.
OthersToggle ==
    /\ ~raced /\ 1 \in DOMAIN server.tools
    /\ server' = [server EXCEPT !.tools[1].enabled = ~@]
    /\ raced' = TRUE /\ UNCHANGED <<ui, net, sent>>
-----------------------------------------------------------------------------
(* The list.  While it loads no server is on screen; searching and folding  *)
(* can bring any of them on screen.                                        *)

Loading(state) == [state EXCEPT !.loading = TRUE]

\* Promise.all of both lists, read together here.  A list that comes while a
\* toggle is under way may have its flip already, and is flipped again.
Fetched(r) ==
    Answer(r, "fetch", [ui EXCEPT !.servers = r.got.servers, !.tools = r.got.tools, !.loading = FALSE,
                                  !.error = FALSE, !.crossed = Out({"toggle"})], <<>>,
                       [ui EXCEPT !.loading = FALSE, !.error = TRUE])
\* Each of the three dialogs covers the page.
Uncovered == ui.form = None /\ ui.target = None /\ ui.testing = None
Refresh == Uncovered /\ ~ui.loading /\ ui' = Loading(ui) /\ Send(Fetch)

OnScreen(s) == Uncovered /\ ~ui.loading /\ s \in DOMAIN ui.servers
ToolOnScreen(t) == Uncovered /\ ~ui.loading /\ t \in DOMAIN ui.tools /\ ui.tools[t].server \in DOMAIN ui.servers
-----------------------------------------------------------------------------
(* Servers.  The form is for a new one, <<>>, or for the one that is edited. *)

OpenAdd == Uncovered /\ Set([ui EXCEPT !.form = <<>>])
OpenEdit(s) == OnScreen(s) /\ Set([ui EXCEPT !.form = <<s>>])
CloseForm == ui.form # None /\ Set([ui EXCEPT !.form = None])
SaveServer ==
    /\ ui.form # None /\ ~ui.submitting
    /\ Ask([ui EXCEPT !.submitting = TRUE],
           IF ui.form = <<>> THEN NewServer ELSE [op |-> "update", id |-> ui.form[1]])
ServerSaved(r) ==
    \E op \in {"create", "update"} :
        Answer(r, op, Loading([ui EXCEPT !.submitting = FALSE, !.form = None]), Fetch,
                      [ui EXCEPT !.submitting = FALSE])

ChooseTarget(s) ==
    OnScreen(s) /\ ~ui.servers[s].internal /\ Set([ui EXCEPT !.target = s])
Cancel == ui.target # None /\ Set([ui EXCEPT !.target = None])
DeleteServer == ui.target # None /\ Ask(ui, [op |-> "delete", id |-> ui.target])
ServerDeleted(r) ==
    Answer(r, "delete", Loading([ui EXCEPT !.target = None]), Fetch, [ui EXCEPT !.target = None])

TriggerHealth(s) == OnScreen(s) /\ Ask(ui, [op |-> "health", id |-> s])
SyncTools(s) == OnScreen(s) /\ Ask(ui, [op |-> "sync", id |-> s, read |-> None])
HealthOrToolsCame(r) == \E op \in {"health", "sync"} : Answer(r, op, Loading(ui), Fetch, ui)
-----------------------------------------------------------------------------
(* Tools. *)

ToggleTool(t) == ToolOnScreen(t) /\ Ask(ui, [op |-> "toggle", id |-> t])

\* The update of prev: whatever the page shows by then is flipped.
Flipped(t) == IF t \in DOMAIN ui.tools THEN [ui EXCEPT !.tools[t].enabled = ~@] ELSE ui

\* A toggle that was sent again may have flipped the row more often than once.
ToolToggled(r) ==
    Answer(r, "toggle", [Flipped(r.ask.id) EXCEPT !.crossed = @ \/ r.acts # 0], <<>>, ui)

OpenTest(t) ==
    /\ ToolOnScreen(t)
    /\ Set([ui EXCEPT !.testing = [tool |-> t, server |-> ui.tools[t].server], !.result = None, !.moved = ui.executing])
CloseTest == ui.testing # None /\ Set([ui EXCEPT !.testing = None, !.moved = ui.executing])
ExecuteTest ==
    /\ ui.testing # None /\ ~ui.executing
    /\ Ask([ui EXCEPT !.executing = TRUE, !.result = None, !.moved = FALSE],
           [op |-> "test", id |-> ui.testing.server, tool |-> ui.testing.tool])
\* Parameters that are no JSON.
ExecuteInvalid == ui.testing # None /\ ~ui.executing /\ Set([ui EXCEPT !.result = None])

\* The result is shown for the tool that is open by then.
Tested(r) ==
    Answer(r, "test", [ui EXCEPT !.result = r.ask.tool, !.executing = FALSE], <<>>, [ui EXCEPT !.executing = FALSE])
-----------------------------------------------------------------------------
Next ==
    \/ Refresh \/ OpenAdd \/ CloseForm \/ SaveServer \/ Cancel \/ DeleteServer
    \/ CloseTest \/ ExecuteTest \/ ExecuteInvalid \/ OthersToggle
    \/ \E s \in DOMAIN ui.servers : OpenEdit(s) \/ ChooseTarget(s) \/ TriggerHealth(s) \/ SyncTools(s)
    \/ \E t \in DOMAIN ui.tools : ToggleTool(t) \/ OpenTest(t)
    \/ \E r \in net : Registers(r) \/ Looks(r) \/ DiscoveryFails(r) \/ CreatesAgain(r)
    \/ \E r \in net : Fetched(r) \/ ServerSaved(r) \/ ServerDeleted(r) \/ HealthOrToolsCame(r)
                      \/ ToolToggled(r) \/ Tested(r)
    \/ ServeOne(Ready, Refused, Effect, Reply)
    \/ RepeatOne({r \in Ready : r.ask.op # "create"}, Refused, Effect, Again)

Spec == Init /\ [][Next]_vars
-----------------------------------------------------------------------------
TypeOK ==
    /\ {ui.loading, ui.error, ui.submitting, ui.executing} \subseteq BOOLEAN
    /\ \A t \in DOMAIN server.tools : server.tools[t].server \in DOMAIN server.servers

BusyHasCause ==
    /\ ui.loading => Out({"fetch"})
    /\ ui.submitting => Out({"create", "update"})
    /\ ui.executing => Out({"test"})

\* Once nothing is under way, and unless a list came while a toggle was or a toggle
\* was sent again, the page shows servers and tools as the gateway holds them, each
\* flip included; the result in the drawer is of the tool in its title unless the
\* drawer was closed or moved on during the test.
Fresh ==
    Quiet /\ ~raced =>
        /\ ~ui.error /\ ~ui.crossed => ui.servers = server.servers /\ ui.tools = server.tools
        /\ ui.testing # None /\ ui.result # None /\ ~ui.moved => ui.result = ui.testing.tool

\* Unless two discoveries on a server overlapped, each of its tools has one row:
\* no sequence of registering, renaming and syncing adds a second
\* (sync_server_tools_db; mcp_tool_cache has no constraint but its key).
ToolsOnce == ~server.overlapped => \A s \in DOMAIN server.servers : Cardinality(RowsOf(s)) <= 1
=============================================================================
