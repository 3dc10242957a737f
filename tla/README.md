# Verification of ContAIned

TLA+ models of ContAIned, model-checked with TLC on small instances and, for
the properties that matter most, proved with TLAPS for every instance.
Paths are relative to `src/` of the repository; line numbers are those of the
commit the models were written from.

ContAIned is a platform around three kinds of processes: a FastAPI **gateway**
(`gateway/`: authentication, hubs, agents, workflows, evaluation, ingestion), an
**inference server** (`inference/`) that keeps machine-learning models in GPU
memory, and a browser **console** (`frontend/`, React). Both servers share clients and services
(`common/`), PostgreSQL, Redis and a few other stores. The workers that execute
workflows, ingestion and evaluation are git submodules (`projects/*`) whose
contents are not part of the repository.

## 1. Inventory

The servers:

| component | state | operations | what is hard | what makes it correct |
|---|---|---|---|---|
| VRAM manager (`inference/core/vram_manager.py`, `inference/main.py`, `inference/routes/`) | slot table, loaders, semaphores, one asyncio lock | ensure_loaded, unload, eviction, idle cleanup, registry reload, calls through a wrapper | the lock is held over a load of minutes while hits, unloads and reloads go on; objects outlive their slot | one load at a time, budget kept, calls bounded, everyone answered |
| Hub membership (`gateway/api/hubs.py`, `common/services/hub_repository.py`, `gateway/auth/hub_context.py`) | rows `hubs`, `hub_members`; per request a session with its row objects | add, update, remove, transfer, archive, unarchive, delete, grants of administrators | READ COMMITTED transactions that check, then write; stale row objects and contexts | a hub keeps an owner, ownership comes from owners, an archived hub is frozen but for what the archiving overtook |
| Invitations and sign-up (`gateway/auth/invites.py`, `identities.py`, `signup_service.py`, `routes.py`) | rows `user_invites`, `users` | create, resend, revoke, sweep, redeem, register, first OAuth log-in | one path locks its row, the others do not; a dropped unique index; a background sweeper | links are redeemed once and only while valid; an accepted invitation let its address in |
| Log-in and sessions (`gateway/auth/routes.py`, `resolver.py`, `utils.py`) | `user_sessions`, failure counters, reset tokens, an in-memory set of revoked tokens | log-in, log-out, change and reset of passwords | lost updates of counters, restart forgets revocations | lockout after five failures, never earlier |
| Model registry (`gateway/api/models.py`) | `model_registry`, one default per role by convention | register, select, delete | the default is moved in two steps, no constraint backs it | a role has one default |
| MCP servers (`gateway/api/mcp_manager.py`) | `mcp_servers`, `mcp_tool_cache` | register, rename, delete, discover, toggle, test | discovery looks, awaits the server, then inserts | a tool has one row |
| Hub links (`common/services/hub_resolver.py`) | `hub_links`, a cache per run | link, revoke, resolve | revocation while a run uses a cached link | access only over a live link |
| User administration (`gateway/api/admin_users.py`) | `users.status`, `platform_role` | approve, reject, suspend, reinstate, delete | the floor of one administrator under concurrency | an active administrator remains |
| API keys (`gateway/auth/api_key_middleware.py`, `gateway/api/external.py`) | `api_keys`, counters in Redis | authenticate, limit, count | lost counts, window boundaries, Redis down | limit per minute |
| Inference client (`common/clients/inference.py`) | failure count, degraded flag, time of last failure | request with retries | overlapping retries and late answers | opens after five failures, recovers |
| Agent cache (`common/services/agent_runtime.py`, `gateway/api/agent_crud.py`, `common/clients/redis.py`) | in-memory cache, listener task | change and publish, receive and reload | lost or reordered events, a listener that stops | the cache follows the table |
| Connector pool (`common/clients/db_connectors/pool_manager.py`) | connectors by credential, a lock | get, remove, close_all | a fast path without the lock | nobody holds a closed connector |
| Workflows, ingestion, evaluation (`gateway/api/*.py`) | drafts, job and run rows | create, list, cancel, delete | the workers are in absent submodules | a draft is replaced only by who has read it |

The console (paths below `frontend/src/`), where a handler runs to its first
await, goes on when the answer comes, and everything may happen in between:

| component | state | operations | what is hard | what makes it correct |
|---|---|---|---|---|
| Requests (`services/api.ts`) | none | request with retries, timeout and errors | a request that failed may have taken effect; one whose answer was lost is made again, and may take effect twice | the caller learns how it ended |
| Workflow editor (`components/hubs/workflow/`) | graph, undo history, draft in localStorage, ETag, saves under way | load, edit, connect, undo, redo, save, leave, reload | two drafts and a starter graph compete; saves outlive the page; undo after deletions | work is not lost, no cycle, no loose edge, undo returns what was recorded |
| Test run (`WorkflowRunModal.tsx`) | log, result, event stream | run, stream, lose the stream, close, grant | a stream and a poll both end a run | one run in the log, an end is reported |
| Hubs (`HubDirectory.tsx`, `HubShell.tsx`, `HubSwitcher.tsx`, `useHubPermissions.ts`, `store/hubSlice.ts`) | list, hub on screen, active hub | list, visit, switch, archive, delete | late answers for a hub that was left; two tables of permissions | the shell shows its hub, what is offered is accepted |
| New hub (`HubCreateWizard.tsx`) | steps, slug and its check, links | fill in, go back, check, create | a check that is not cancelled; going back after choosing links | legal links only, a true mark at the slug |
| Members and links (`MembersPanel.tsx`, `HubLinksPanel.tsx`) | the panel's list | invite, change, remove, link, revoke | others write meanwhile; hub and role were read by the shell, once | list up to date; what is offered is refused only for the reasons named |
| List pages (thirteen, from `WorkflowLibrary.tsx` to `ApprovalQueue.tsx`) | list, form, dialog, busy marks | fetch, create, delete, toggle, test, bulk | answers of overlapping fetches and writes | list up to date, no page stuck |
| Playground (`PlaygroundPage.tsx`) | conversation, sessions, attachments | send, save, switch, rename, delete, clear | answers arrive after a switch | whole exchanges, in the right session |
| Sign-in (`LoginPage.tsx`, `AuthGuard.tsx`, `store/authSlice.ts`) | token, user, guard | sign in, check, sign out | repeated attempts count twice; overlapping sign-outs | open to an accepted token only |
| Model registry page, MCP page (`ModelRegistryManager.tsx`, `MCPHubPage.tsx`) | rows, forms, drawer | as their handlers | local flips beside fetches | what is shown is what is held |

The rest (LLM fallback, telemetry, audit, credentials, proxy, start-up, vector
and graph clients, scripts) is sequential code or I/O.

The components interact through PostgreSQL rows (HubMembership and Invites
share `users` and `hub_members`: redeeming an invitation and approving a user
add memberships, which HubMembership has as the steps GrantChecks and Grant), through
HTTP (console to gateway, gateway to inference server) and through Redis events
(agent changes). `PROJECT.json` lists every component with its files, and every
hazard at its line.

## 2. Modules

In the order they were built, the behaviour that matters most first:

| modules | what they are |
|---|---|
| `LruEviction`, `EvictLoop`, `VramBudget`, `VramManager`, and the `_proofs` of all but `VramBudget` | the VRAM manager, its eviction loop, and the account of memory it implements |
| `HubMembership`, `HubMembership_proofs` | members, owners and archiving of a hub |
| `Invites`, `Invites_proofs` | invitations and sign-up |
| `LinearUndo`, `EditorHistory`, `WorkflowGraph`, `WorkflowEditor`, `WorkflowEditor_proofs` | the workflow editor: what an undo history promises, the history that implements it, graphs, the page |
| `Page`, `Permissions`, `HubPages`, `HubWizard`, `HubPanels`, `ListPages`, `Playground`, `WorkflowRun`, `Login`, `ModelRegistry`, `McpPage` | the pages of the console, each with its part of the gateway |
| `Console`, `ConsolePages_proofs`, `Console_proofs` | all pages together, and the proofs about them: first the pages that keep registries, then the others and what all of them show |

Each component has one module with its state machine; an MC module that names
the values of an instance; one `.cfg` per question; and a `_proofs` module that
EXTENDS the component's. `VramManager` composes `LruEviction` (EXTENDS) and is
shown to implement `VramBudget`, `WorkflowEditor` composes `EditorHistory` and
`WorkflowGraph` and is shown to implement `LinearUndo` (both INSTANCE ... WITH).
`Console` composes the pages: it instantiates each over one set of variables,
with a `route` that says which is open, and is checked and proved about as it is. No module uses RECURSIVE. Operators
commented `(mutant)` are plausible faults of the definition that follows them;
each property is violated when its mutant takes the place of that definition.

What would come next. Modules: `Accounts` (suspension, reset of passwords),
`AgentCache` (agent changes, publication, a listener that loses events, with a
register that is read late as its abstract specification), `InferenceBreaker`
and `ConnectorPool`, each with the theorems of the safety properties it states. Of
the modules there are, every safety property of a passing run is proved.

## 3. The VRAM manager

`VramManager` has one action per stretch of code between two awaits.

| code | model |
|---|---|
| `_slots`, `_loaders`, `_semaphores` | `slots`, `loaderMb`, `gen` (the number of the current semaphore) |
| `async with self._lock` | `lock` while a load is awaited, `lockQueue` for those who wait, first in first out as asyncio.Lock wakes them |
| a request of `main.py` or `routes/` | `pc`, `req`; Arrive, Respond, BadImage (routes/embed.py:42 fails between two calls) |
| ensure_loaded | EnsureHit, EnsureUnknown, EnsureMiss (evicts, then awaits the loader), LoadSucceeds, LoadFails |
| unload, cleanup_idle | Unload; CleanerWakes, CleanupIdle |
| ConcurrencyLimiterWrapper | `wrap`; CallStarts (semaphore), CallReturns, CallRaises |
| `POST /reload` | ReloadCanonical, then after the query ReloadRows or ReloadFallback |
| the clock | `slots[m].idle`, time since last_used, advanced by Tick |

Left out: the loaders' own work, logging, the JSON of the answers and the
downloads.

**Runs.**
- `evict_loop`: the `while` of `_evict_to_fit`, one iteration a step, on every
  slot table of three models with sizes and idle times from small sets. It ends
  (WF of the loop itself, a single thread), and its victims are the ones the
  operator EvictsToFit describes; VramManager and the proofs use the operator.
- `vram_safety`: TypeOK, LoadExclusive, RoomReserved, BudgetRespected
  and the refinement ImplementsBudget. Two requests, the cleanup loop
  and reloads; three models of which one is only known to the registry; sizes 2
  and 1 against a budget of 3, and 4, which is over it, so that hits, evictions
  and the oversize model all occur. Two calls a request (embed makes two).
- `vram_live`: RequestsAnswered and IdleModelsUnloaded under FairSpec. Reloads
  are off (MaxReloads = 0) to keep the graph small; they never block anybody.
- `vram_memory`, `vram_semaphore`: expected violations, see section 8.

**Bounds.** MaxIdle: idle times above it are not told apart, and it is above
IdleTimeout, so both sides of the comparison occur. MaxReloads: two, enough for
a semaphore to be replaced twice while calls run. Two requests show every pair of
interleavings; queues of three form with the cleanup loop. Insts names objects
and has as many names as can be live at once.

**Fairness.** The event loop runs each ready task (WF of the steps of requests
and cleanup, and of the clock). Loads and inference calls end, with an answer or
an exception. asyncio.Lock wakes waiters in order, which the queue models; so
does asyncio.Semaphore, for which SF of CallStarts stands. Nothing requires
requests to arrive or registries to be reloaded.

**Proved** in `VramManager_proofs`, for any models, sizes, budget, requests and
bounds: TypeCorrectness, LoadsExclusive, RoomStaysReserved,
ManagerImplementsBudget and StaysWithinBudget (BudgetRespected).
The invariant is TypeOK with HoldsInv (what a request holds at each pc), QueueInv
(a task queues once and is nowhere else), NeedInv and LoadExclusive. LoadExclusive
alone is not inductive: without QueueInv a request could leave the queue twice,
and be loading and admitted. RoomReserved follows from it, because only the holder
of the lock adds a slot; ImplementsBudget from RoomReserved, each step being an
Admit, a Release or a stutter; BudgetRespected from RoomReserved too, once it is
known what a step does to the sum: a new slot adds its size to the rest, and
slots that go take theirs away.

`LruEviction_proofs` has those facts of used_mb, for any finite set of models. The
sum is a fold in the order of a CHOOSE, and they are shown by induction on the
set of models (SetInduction): a set that holds the empty set, and every set of
models of which it holds the rest once the first is taken away, holds them all; a
smallest set it missed would be a contradiction. The property is given as a set
and not as an operator, which is what lets the provers apply the lemma.

In `EvictLoop_proofs`, for any finite table of models, any sizes, times and
budget: LoopDescribed (LoopMatchesDescription) and DescriptionExact
(DescriptionMatchesLoop), so that VramManager may take EvictsToFit for the loop.
The invariant says of each iteration what EvictsToFit says of the end: what went
was used no later than what is left, and the last of it did not fit beside the
rest.

Assumed: the named ASSUMEs of the modules, which TLC evaluates in each run.
FiniteModels is one of them: `_loaders` and `_slots` are dictionaries.
Only model-checked: RequestsAnswered, IdleModelsUnloaded and LoopEnds, which are
liveness.

## 4. Hub membership

`HubMembership` models one hub. Requests on different hubs share no row.

| code | model |
|---|---|
| `hub_members`, `hubs` as committed | `role`, `hub` |
| a request, with its transaction | `pc`, `op`, `ctx` (HubContext), `todo` (calls of the repository still to make), `draft`, `draftHub` (written, not committed: locked rows) |
| the identity map of an AsyncSession | `loaded`: a row object keeps the role it was first read with |
| a query | View: committed rows overlaid by own writes |
| require_hub | Authorize |
| checks of a route | Allowed, with LosesLastOwner and MayGrant; Proceed or Refuse |
| upsert_member, remove_member | LastOwnerError, Skip, Prepare (statement chosen), Flush or FlushFails (row locked, unique key, stale row) |
| archive_hub, delete_hub_if_empty, `ctx.hub.owner_id = ...` | WriteHub, HubGone |
| commit, rollback, lost connection | Commit, Refuse and the other failures, Abort |
| approve_user, redeem_invite | GrantChecks (is_archived), Grant (the row, if there is none), then Flush and Commit as any request |

`overlapped` is a history variable: another transaction has committed since the
request was let in. It appears in properties only.

**Run** `hub_membership`: two concurrent requests, a member and an
administrator, every operation, roles owner and viewer (maintainer arises from
transfers). KeepsOwner: a request that ran alone never removes the last owner,
in whatever state the hub is and although routes and repository check with stale
row objects. OwnersMadeByOwners: whoever becomes an owner was made one by a
request of an owner or administrator, or by an administrator's grant.
ArchivedIsFrozen: the members of an archived hub change only through requests
that were let in, and grants that had looked at the hub, before the archiving and
were overtaken by it: approve_user and redeem_invite await the audit row, the flush
and the commit after they have asked for is_archived. 2,156,658 distinct states.
Deadlock is not checked: two requests can
wait for each other's rows, as in PostgreSQL, whose deadlock detector is Abort,
and a deleted hub accepts nothing more. Two requests are what a write skew needs;
two users are enough because the guards ask only for one other owner.
Only safety is claimed: nothing obliges a client to finish.

**Proved** in `HubMembership_proofs`, for any users, administrators and number
of requests: TypeCorrectness, LastOwnerStays (KeepsOwner), OwnersComeFromOwners
(OwnersMadeByOwners) and ArchivedStaysFrozen (ArchivedIsFrozen). For the first
two the invariant says, of each request that nothing overlapped: its row objects are
what a query would return (FreshInv), what it has written leaves an owner
(OwnerInv), and the statement it has prepared does too (PlannedInv). The last is
why both the guard and the write have to be in the invariant: between Prepare
and Flush the count is no longer looked at. A lemma says what steps of others
leave alone (Undisturbed), so each action is treated once for its own request.

For the other two (RightsInv) it says what the context of a request allows of
its calls still to make and of its uncommitted writes: whoever was no
administrator and no owner has no owner to make, and whoever found the hub
archived has no membership to write, however old the context has become.

Not modelled: creation (it is the initial state), update_hub (name and settings), links,
inactive users (add and transfer refuse them as targets), audit rows.

## 5. Invitations and sign-up

`Invites` models the tables `user_invites` and `users` and five kinds of tasks
on them, each one transaction.

| code | model |
|---|---|
| create_invites | CreateReadsUser, CreateReadsInvites, CreateCommits |
| redeem_invite | RedeemLocks (SELECT ... FOR UPDATE and the checks), InsertUser or InsertFails, UpdateInvites, Commit |
| register_user with resolve_signup, resolve_identity | SignUpReadsUser, SignUpReadsInvite, Decide, then as above |
| resend_invite, revoke_invite | AdminReads, UpdateInvites, Commit |
| sweep_expired_invites, run by the gateway every 15 minutes | SweepReads, UpdateInvites, Commit |
| the clock | TimePasses makes a row overdue |
| rollback | Abort, and the failures |

A link is a number, given in the order of issue; `lock` is the row lock that
FOR UPDATE and UPDATE take. The unique index on `users.email` makes the second
INSERT wait and then fail (KeyFree, InsertFails). At the start the gateway
seeds administrators (gateway/core/setup.py:118) and goes on if that fails: both
are initial states, and only in the second does the first OAuth log-in become
administrator. create_invites takes several addresses; one at a time is
modelled, since rows of different addresses do not interact. Hub grants, the
linking of a second identity to an account, suspension and deletion of accounts
and mail are left out.

**Run** `invites`: two requests and the sweeper, two addresses, two invitations,
three links. RedeemsLiveLink: what redeem_invite checked still holds when it
commits. AcceptedLetIn: an invitation marked accepted has an active account with
the role it granted. Deadlock is not checked because the bounds (Invites,
MaxTokens) exhaust and because two transactions can wait for each other.
Two invitations and three links allow one resend or a second invitation of the
same address; two requests and the sweeper are three concurrent transactions.

**Proved** in `Invites_proofs`, for any number of addresses, invitations and
tasks: TypeCorrectness, LiveLinkRedeemed (RedeemsLiveLink) and AcceptedIsLetIn
(AcceptedLetIn). The invariant says that whoever is about to commit rows holds their locks
(HoldsInv), and that the row of a redemption is locked and as checked from the
check on (RedeemInv). The second needs the first: another task's commit changes
only rows it holds. For AcceptedLetIn it is strengthened by LetInInv: a task that
has inserted has the key of its address to itself, so the account it will commit
is nobody else's (KeyInv), and its account is the one its rows grant, of which a
redemption has one (DraftInv). The committed part alone is not inductive, since
the account is written before the row that is marked.

## 6. The workflow editor

`WorkflowEditor` has one action per handler, with the effects its state changes
trigger; what follows an await is an action of its own, taken whether or not the
page that asked is still open.

| code | model |
|---|---|
| `nodes`, `edges` | `canvas`, a graph of WorkflowGraph: nodes by id with type, resource and position, edges between ports |
| `history`, `historyIndex`, pushHistory, undo, redo | EditorHistory: Push, Undo, Redo, Unrecorded (a change that is shown, not recorded) |
| fetchWorkflowAndHubResources | Open, WorkflowFetched (the graph chosen by Resolved), FetchFailed, ResourcesFetched (the lists, then the auto-bind effect AutoBind) |
| handleAddNode, handleDuplicate, handleDeleteNode, drags, the drawer | AddNode (with the slot search), Duplicate, DeleteNode, MoveNode, EditField, ChooseResource, Select |
| handleStartConnection, handleEndConnection, createsCycle | StartConnection, Connect, DropConnection, DeleteEdge; CreatesCycle |
| the effect that writes localStorage | `local`, written by each action that changes the graph |
| `starterGraph` of the history entry | `entry`: a reload keeps it, a visit from the library has none |
| handleSaveDraft, the ETag | `saves`, `server`; SaveDraft, ReadEtag, Put and PutFails (a PUT is sent again after it was lost, before or after it took effect), SaveAnswered |
| other editors | OtherSaves |

Left out: validation messages, zoom and pan, the text of nodes beyond whether it
was edited. Graphs are written out as functions, so that cycles are the real
question, and cards have the pixel positions of the code, since the slot search
computes with them.

**Run** `workflow_editor`. AlwaysAcyclic and NoDanglingEdge: on the canvas and in
every snapshot, however undo, deletions and connections interleave.
LinearUndoSpec: the history implements LinearUndo. WorkSurvives: the graph last
worked on is in localStorage or was the last one the server took from this
browser. SavedIsKept: a page that says "Saved" shows what a reload would bring.
NewNodesApart: a card from the palette covers no other. `editor_failedload` is an
expected violation, see section 8.

`holes` and `stray` are history variables: the two ways in which the code loses
work (a failed load writes the empty page over the draft; the answer of a save
removes a draft written meanwhile) and the one way to a loose edge (the source
of a connection is deleted while it is drawn). The properties hold apart from
these, and the run shows that there are no others.

**Bounds.** `Budgets` has one record per kind of behaviour: how many edits, node
ids, visits, saves, saves of others and sendings of a PUT, and from which
template the workflow was made. One budget edits long on one visit; others save
over two and three visits, save twice at once, and start from each template. A
record of all maxima would be out of reach, and one edit is what a save can
miss. HISTORY_CAP is 2 where the code has 50, so that the cap is met. MaxNode is
5, the largest starter graph. Cycles need two nodes, three edits. Deadlock is not
checked: the budgets run out. There is no fairness: nothing obliges a user to
save, and only safety is claimed.

**Proved** in `WorkflowEditor_proofs`, for any palette, catalogue, drags, history
cap and budgets: TypeCorrect, EdgesStayAttached (NoDanglingEdge), NeverCyclic
(AlwaysAcyclic), EditorUndoIsLinear (LinearUndoSpec), WorkIsNotLost
(WorkSurvives), SavedStays (SavedIsKept); and PaletteNodesApart (NewNodesApart)
for at most twenty nodes.

NoDanglingEdge is not inductive: undo, redo, a reload and a save bring back
older graphs, whose ports depend on the type a node had. The invariant AllFit
says that one assignment of types to node ids fits every graph there is: the canvas, the
snapshots, localStorage, the saves, the server and the history entry. It holds
since an id is never given to another type. AlwaysAcyclic is strengthened the same
way: every one of these graphs is acyclic (AllAcyclic). Only a connection adds an
edge. The walk of createsCycle, from the target of the new edge, is written as the
set it visits: what lies in every set that holds the target and is closed under
the edges. A graph is acyclic if each node has a closed set that holds what
follows it and not the node; a closed set without the new source shows the same
of the graph with the new edge, so that no induction over paths is needed. WorkSurvives and SavedIsKept rest on
NoHole, which says, as long as no hole has happened, where the work is: it is
kept, the saves under way carry it, what is dirty is persisted, what is shown is
kept. From the history alone, LinearUndo follows with HistoryOK, the bounds of
the index.

NewNodesApart has a hypothesis, because the code has one: the slot search tries 60
places and falls back to the first. Twenty of them, in every other row and
column, are so far apart that no card touches two; with fewer than twenty cards
one is free. Twenty cards dropped between the slots can cover all 60, so that more
cannot be proved.

## 7. The pages of the console

`Page` is what they share.

| code | model |
|---|---|
| the React state of the page on screen | `ui`, a record |
| requests under way, each in its own await | `net`; Send and Ask by a handler, Came, Answer and Go for what follows the await |
| the gateway's handlers of this page | `server`; Refused, Effect and Reply of a request, taken by Serve at any moment |
| request() of api.ts: errors, the timeout of 30 s | ServeOne: an answer, a refusal, or a failure before the gateway acted, or after |
| the loop of request(): every other error is followed by another attempt, three in all, POST and PUT included | RepeatOne: the gateway acts, the answer is lost, the request is made again and waits to be acted on, refused or lost in its turn |
| other users | an action of each page that writes `server` |

`raced` (HISTORY): the gateway acted on a request that failed, in its last attempt or
in one before, or its state had moved on when an answer came. A page cannot know
better then, and its freshness is claimed without it.

A request that is made again and then succeeds does not set `raced`: the page is told
of one success while the gateway acted more than once, and its properties have to
hold all the same. What the second attempt does depends on the route. It is refused
where a name is taken, or where the entry is gone (so that the page is told of a
failure); it changes nothing where the write sets a value; and it takes effect again
in four places: a tool is switched back (mcp_manager.py:412), a session is created
twice (playground.py:433), a run is started twice (workflows.py:533), and the soft
deletion of a user becomes a purge (admin_users.py:650). Fresh holds of the last two,
because those pages fetch or follow the answer they get, and names the first two.
A registration of an MCP server or a change of a default, lost between two of its
commits, starts anew (CreatesAgain, Again). Left out is an attempt that reaches the gateway only
after its repetition was answered, or after the timeout told the page of a failure;
the pages of API keys and the uploads of documents call fetch themselves and make
nothing again (SentByRequest).

| module | what the page does in it |
|---|---|
| `Playground` | send, save after the answer, switch, rename, delete and clear conversations, upload and remove attachments |
| `HubPages` with `Permissions` | directory, shell and switcher; what a role is offered beside what the routes accept |
| `HubWizard` | four steps back and forth, the slug check with its timer, targets that drop out of the list, creation |
| `HubPanels` | members and links, each with its fetch after a write; require_hub on the gateway's side, with a hub and a role that change behind the shell |
| `ListPages` | thirteen pages as one program; sets of features say what the handlers of each do and what it shows |
| `WorkflowRun` | run, event stream, poll after a lost stream, closing, granting a link |
| `Login` | sign-in with its repetitions, the guard, sign-out; login_user read and written in two steps, the lock passing, sessions revoked. `bad` counts the wrong passwords since a lock last passed, which is weaker than since the last sign-in |
| `ModelRegistry` | the page and register, select and delete in their two steps |
| `McpPage` | servers, registration with its three commits, discovery in its two steps, toggles, tests |

**Run** `console`. BusyHasCause: no order of answers, failures and visits leaves
a spinner or a disabled button without the request that ends it. Fresh: when
nothing is under way a page shows what the gateway holds. TranscriptsComplete,
ShellShowsItsHub, OfferedIsAccepted, LinksAreLegal, OffersAreAccepted,
RunReported, LockoutIsEarned, OneDefault and ToolsOnce are about
one page each and stated at the end of its module. Their premises (`crossed`,
`strayed`, `twice`, `overlapped`, `partial`, `moved`, `stale`, `left`) are history
variables (`twice` is of the test run, `crossed` of five pages) which name the order
of events in which the code does not keep the property; section 8 lists what happens
then. The run shows that it takes no less. OffersAreAccepted has AsShown for one: the
panels keep the hub and the role the shell read when the address changed, and after an
archiving, a demotion or the owner's own departure require_hub refuses what they offer.
LinksAreLegal is about types; a target that was archived after it was chosen stays
chosen.

**Bounds.** Three requests of the user a visit (two in the wizard, four in the
registry): an answer that is overtaken, and one more on top. Two entries, hubs or
roles are what it takes to confuse one with the other. One change by others.
Deadlock is not checked because a visit may end. Only safety: a user need not act
and requests may be lost. 2,146,545 distinct states.

**Proved** in `Console_proofs` (the pages that keep registries in
`ConsolePages_proofs`), for any number of requests, any hubs and either kind of
user: PagesAreTyped (TypeOK), SpinnersEnd (BusyHasCause), ConversationsWhole
(TranscriptsComplete), LockoutsEarned (LockoutIsEarned), ShellInStep
(ShellShowsItsHub), OffersMatchRoles (OfferedIsAccepted), WizardLinksLegally
(LinksAreLegal), OneRunOnScreen (RunReported),
DefaultsUnique (OneDefault), ToolsUnique (ToolsOnce), PagesFresh (Fresh) and
OffersHold (OffersAreAccepted). The number of requests is a constant; no invariant mentions
it, nor how often a request was made again. Each page has an inductive invariant of its own, and IInv says that the page
that is open has its:

- every page: what a request carries, and what its kind is answered with.
  BusyHasCause holds as it stands of the simple pages only. On others a button
  waits for a request of one kind and may be released by another, and the
  invariant names the request that is its own: the save after a chat, the list
  fetched after a write, the check a sign-in has sent on.
- playground: a chat carries a conversation that ends with its own prompt, a save
  a whole one (ChatCarriesInv); the page generates until the exchange is over, so
  that there is no second one (ChatExchangeInv). What is attached, active and
  kept was sent before (ChatBoundsInv).
- sign-in: an attempt may write a count it read long ago; a count that was read
  never exceeds the wrong passwords checked by now (SessionReadsInv). That
  needs the bound on LockPasses: fifteen minutes do not pass while an attempt is
  between its read and its commit. It also says what becomes of a lock that a
  right password, read before it, leaves without failures.
- test run: unless runs overlapped, one request or one stream follows the run, and
  only while the page says it runs; the log is of that run, and ends where its
  stream is (RunsOneInv). The first attempt at this invariant failed: handleGrantLink
  runs again through the closure of an older render, so that a run started meanwhile
  overlaps. `twice` now counts that as an overlap.
- hubs: the address, the shell and the store name the same hub also while
  requests are under way (HubsShellInv).
- models: a row is numbered by the request that registered it, so that a number
  keeps its role also while the row is deleted, and what a change has found is of
  its own role (ModelsRolesInv).
- MCP: the number of a registration that is not served yet is free, and a tool is
  of a server there is, so that a new server starts without rows (McpNumbersInv,
  McpRowsIn).
- list pages: which features a page may have together (ListsFeatures), and of each
  the request its form, its dialog and its marks wait for.

PagesFresh needs more: `Fresh` only speaks of a page with nothing under way, so that
it is never inductive, and says nothing of the answers that will come. CurrentInv
says it of every state, for each page in the terms of its handlers, and is proved
along with IInv (InitCurrent, NextCurrent). Its pattern is that, unless `raced`, an
answer which is *on time* (served, and the gateway's state has not changed since)
carries what the gateway holds, and that what is on screen differs from it at most
by what the answers under way put right. Serving another request changes that state,
and makes them late, or leaves what they say true (the lemmas `...Settles`, `...Serving`);
showing a late one sets `raced`. In an empty net only `Fresh` is left.

- directory, panels, models: the list is the gateway's, or a fetch is under way, or
  a write whose answer will be followed by one (HubsFreshInv, PanelsFreshInv,
  ModelsRowsFresh). The form of the registry offers a model of its provider, or waits
  for those of this provider and of no other (ModelsFormFresh).
- list pages: the same, where a page fetches after its writes. A page that takes a
  decided entry off its list instead shows the gateway's list once all that were
  decided are taken off (ListsLeft, ListsShownInv).
- MCP: a toggle is flipped on screen, not fetched. The tools shown become the
  gateway's when every flip under way has been shown (McpFlipped), and there is one
  such flip at most (McpFlipsInv): a second one served makes the first late. A flip
  that was made again is the exception, until the list is fetched.
- wizard: that a slug is taken stays true; that it is free is true until the hub is
  created (WizardAnswersInv, WizardMarkInv).
- playground: a row of the list is the gateway's session, or a save, rename or
  deletion of it is under way (ChatRowsInv, ChatAllInv); the conversation is that of the
  active session or of the exchange under way (ChatTalkInv). ChatSaysInv is what
  these answers say while they are on time.
- sign-in: a token held is not revoked until its own sign-out, which is alone and
  crosses no check (SessionTokenInv). This refuted the property as it was first
  written: with `twice` for overlapping sign-outs only, SessionTokenInv is not
  inductive, and TLC found why beyond the run's bound, in 44 states and 18 requests:
  Sign Out is pressed while a check of the session is out, the answer of the sign-out
  takes the token of a later sign-in, and the check's answer sets the user.
  authSlice.ts does this (logout, checkAuth), so the premise is now `crossed`.

The test run has no such property (Fresh is TRUE there): it shows a log, not a list.

Assumed, beside the types of the bounds: NoneApart (null is no number, hub,
message or record) and RepliesApart (a request that is not served yet or failed has no
reply: the two marks for that are no number, flag, saved conversation or other reply).

## 8. What the code does not keep

Each is a run that TLC ends with a counterexample, and a finding in
`PROJECT.json` that quotes the text.

- `vram_memory`: a model in the middle of a call can be evicted, unloaded or
  cleaned up. Its charge is gone, its memory is not, and the next load exceeds
  the GPU budget the class promises to keep (vram_manager.py:60).
- `vram_semaphore`: a registry reload replaces semaphores in use, so a model
  runs more calls than max_concurrency (vram_manager.py:90).
- `hub_concurrent`: two concurrent demotions or removals leave a hub without an
  owner, which the routes refuse one at a time (hubs.py:470).
- `invites_open`: a later migration drops the index that kept one open invitation
  per address (migrations/versions/9505282eda4d...:113); two concurrent requests
  store two, and scalar_one_or_none then fails for that address.
- `editor_failedload`: a load of the editor that fails writes an empty graph over
  the local draft.

Seen while the models were written, without a run. Those of the modelled pages
are steps of the models, and where a property would break its premise names them.

Gateway:
- A model larger than the whole budget is loaded after everything else was
  evicted (BudgetRespected states the exception).
- Sign-up accepts overdue invitations and drops their hub grants
  (identities.py:208); resolve_signup lacks the step its docstring lists
  (signup_service.py:20).
- An invitation to a hub sends an e-mail address; add_hub_member looks for a user
  with that id (hubs.py:391) and answers 404 always.
- login_user reads, counts and writes without a lock: concurrent failures count
  once. Revoked tokens are kept in memory only (utils.py:95).
- reset_password compares an aware time with a naive one and fails.
- Overlapping changes of a role's models leave two defaults; a model registered
  under two roles cannot be deleted. Overlapping discoveries add a tool twice.

Requests of the console:
- "Retry on 5xx status codes only" (api.ts:157), but every error is repeated, 401
  and 423 included: a wrong password counts three times, and two submissions lock
  an account. A POST or PUT whose answer was lost is sent while the form still says
  that it is submitting, so that no disabled button keeps an entry from being sent
  twice; section 7 says which take effect twice. `Page` has this, for every page.
- updateDraft asks for the ETag without a token; a PUT whose answer was lost ends in
  a conflict with itself.

Pages of the console:
- Editor: the starter graph in the history entry is preferred to the draft on the
  server; edits during a save are removed from localStorage with the draft that was saved;
  drags and drawer edits are not recorded, although undo is said to cover them; a
  connection can be finished from a deleted node; the Retry of ResourceSelect is
  never reached.
- Test run: closing under an open stream leaves the button disabled; a grant
  answered while another run starts makes two runs share a log.
- Hubs: a late answer of a hub that was left is shown, or made active; the
  Unarchive button is never shown; the directory offers archiving and deletion to
  every role; SuiteDetailWorkspace.tsx:513 asks for an action that is in no
  table; deletion of resources and datastores is offered to contributors and
  refused to them.
- Wizard: a late check marks the slug of an earlier moment; a check that failed
  counts as available.
- List pages: the bulk deletion of documents neither fetches nor clears the
  selection when one of them fails; one busy mark is cleared by whichever request
  ends first; APIKeysPanel does not guard its form, so that two clicks make two
  keys; the "temporary credential" of CreateDatabaseConnectionDialog.tsx:61 is
  stored for good; Enter confirms a ConfirmModal whose request is out.
- Playground: an answer replaces whatever conversation is on screen; a session whose
  creation was made again is there twice, and listed once.
- Sign-in: a Sign Out answered after a quick sign-in takes the new token, and a check
  that was under way when it was pressed then sets the user: the app is open without a
  token (found by a proof, section 7); one failed /auth/me drops the token.
- Members and links: the shell's hub and role are not read again, see section 7; hubs
  that may only be viewed are offered as targets (hub_resolver.py:324).
- MCP: a toggle made again flips twice and is shown once; a toggle beside a fetch is shown wrongly; a
  test result can be shown under another tool.

## 9. Not modelled

- Workers: workflows, ingestion and evaluation are executed in
  `projects/*`, submodules without contents here. Their job and run rows have no
  behaviour of their own.
- Behaviour that is over before it can be interrupted: validation, encryption,
  the LLM fallback, schemas, audit and telemetry; pages that only show; the
  remaining detail pages, whose requests are of the patterns in `ListPages`.
- I/O: drivers, vector and graph clients, downloads, mail, OAuth redirects.
- User administration: the floor of one administrator is asked for with
  FOR UPDATE on an aggregate, which PostgreSQL refuses; the routes that ask it
  fail.
- State that is left for further modules: agent cache, inference breaker,
  connector pool, API key counters, link resolver, reset and change of passwords.

Beyond the reach of the proofs: liveness (RequestsAnswered, IdleModelsUnloaded,
LoopEnds), which depends on fairness. TLC checks it on the instances of section
3. Where an argument goes by induction over data (the sum over a slot table, the
number of slots a set of cards covers) it is on the set itself, and what is
proved holds of every finite set. Every safety property of a passing run is proved,
NewNodesApart with the hypothesis of twenty nodes that section 6 gives.

## 10. Running

    tlc -config VramManager_safety.cfg MCVramManager.tla
    tlc -config Console.cfg Console.tla
    tlapm WorkflowEditor_proofs.tla

Each configuration is listed with its module in `PROJECT.json`. The longest runs,
`workflow_editor` and `console`, take two to four minutes;
the proofs of the console, in two modules, a quarter of an hour each.
