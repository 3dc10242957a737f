-------------------------------- MODULE Console --------------------------------
(***************************************************************************)
(* The pages of the console, each on its own: the route chosen at the start *)
(* says which page is open.  The pages share the state of Page.tla; what   *)
(* they do not share is the gateway's state, which each sees a part of.    *)
(***************************************************************************)
EXTENDS Integers, Sequences

CONSTANTS
    None, Waiting, Failed, NoRole,
    MaxRequests,        \* BOUND: the requests of one visit to a page,
    MaxWizardRequests,  \* to the wizard for a new hub,
    MaxModelRequests,   \* and to the registry of models
    HubIds,             \* the hubs there are
    Admin               \* isPlatformAdmin

\* null is no number, no hub, no message and no record of a hub.
ASSUME NoneApart ==
    /\ None \notin Int /\ None \notin HubIds /\ None \notin {"failed", "link", "lost"}
    /\ None \notin [id : HubIds, is : [archived : BOOLEAN, role : {"owner", "maintainer", "contributor", "viewer"}]]

\* A request that is not served yet, or that failed, has no reply: what marks it
\* is no number, no flag and no saved conversation.
ASSUME RepliesApart ==
    /\ Failed # Waiting /\ {Waiting, Failed} \cap {"done", "not empty"} = {}
    /\ \A mark \in {Waiting, Failed} :
          /\ mark \notin Int \cup BOOLEAN
          /\ mark \notin [name : {"auto", "renamed"}, messages : Seq({"prompt", "answer", "error"} \X Int),
                          files : SUBSET Int, prompt : Int]

VARIABLES
    route,  \* the page that is open
    ui, net, server, sent, raced

vars == <<route, ui, net, server, sent, raced>>

Chat == INSTANCE Playground
Hubs == INSTANCE HubPages WITH Hubs <- HubIds
Wizard == INSTANCE HubWizard WITH MaxRequests <- MaxWizardRequests
Panels == INSTANCE HubPanels
Lists == INSTANCE ListPages
Runs == INSTANCE WorkflowRun
Session == INSTANCE Login
Models == INSTANCE ModelRegistry WITH MaxRequests <- MaxModelRequests
Mcp == INSTANCE McpPage

Init ==
    \/ route = "chat" /\ Chat!Init
    \/ route = "hubs" /\ Hubs!Init
    \/ route = "wizard" /\ Wizard!Init
    \/ route = "panels" /\ Panels!Init
    \/ route = "lists" /\ Lists!Init
    \/ route = "runs" /\ Runs!Init
    \/ route = "session" /\ Session!Init
    \/ route = "models" /\ Models!Init
    \/ route = "mcp" /\ Mcp!Init

Next ==
    /\ UNCHANGED route
    /\ \/ route = "chat" /\ Chat!Next
       \/ route = "hubs" /\ Hubs!Next
       \/ route = "wizard" /\ Wizard!Next
       \/ route = "panels" /\ Panels!Next
       \/ route = "lists" /\ Lists!Next
       \/ route = "runs" /\ Runs!Next
       \/ route = "session" /\ Session!Next
       \/ route = "models" /\ Models!Next
       \/ route = "mcp" /\ Mcp!Next

Spec == Init /\ [][Next]_vars
-----------------------------------------------------------------------------
\* Every page's state is well typed.
TypeOK ==
    CASE route = "chat" -> Chat!TypeOK
      [] route = "hubs" -> Hubs!TypeOK
      [] route = "wizard" -> Wizard!TypeOK
      [] route = "panels" -> Panels!TypeOK
      [] route = "lists" -> Lists!TypeOK
      [] route = "runs" -> Runs!TypeOK
      [] route = "session" -> Session!TypeOK
      [] route = "models" -> Models!TypeOK
      [] route = "mcp" -> Mcp!TypeOK

\* A spinner turns, and a button is disabled, only while the request that ends
\* it is under way: no order of answers, failures and visits leaves a page stuck.
BusyHasCause ==
    CASE route = "chat" -> Chat!BusyHasCause
      [] route = "hubs" -> Hubs!BusyHasCause
      [] route = "wizard" -> Wizard!BusyHasCause
      [] route = "panels" -> Panels!BusyHasCause
      [] route = "lists" -> Lists!BusyHasCause
      [] route = "runs" -> Runs!BusyHasCause
      [] route = "session" -> Session!BusyHasCause
      [] route = "models" -> Models!BusyHasCause
      [] route = "mcp" -> Mcp!BusyHasCause

\* Once nothing is under way a page shows what the gateway holds, unless others
\* changed it meanwhile or the page is one of those named where its Fresh is.
Fresh ==
    CASE route = "chat" -> Chat!Fresh
      [] route = "hubs" -> Hubs!Fresh
      [] route = "wizard" -> Wizard!Fresh
      [] route = "panels" -> Panels!Fresh
      [] route = "lists" -> Lists!Fresh
      [] route = "session" -> Session!Fresh
      [] route = "models" -> Models!Fresh
      [] route = "mcp" -> Mcp!Fresh
      [] OTHER -> TRUE

\* The conversations on screen and in the gateway are whole exchanges
\* (PlaygroundPage.tsx).
TranscriptsComplete == route = "chat" => Chat!TranscriptsComplete

\* The shell shows the hub of its address, and what it offers the gateway
\* accepts (HubShell.tsx, useHubPermissions.ts).
ShellShowsItsHub == route = "hubs" => Hubs!ShellShowsItsHub
OfferedIsAccepted == route = "hubs" => Hubs!OfferedIsAccepted

\* A new hub links only where its type may (HubCreateWizard.tsx).
LinksAreLegal == route = "wizard" => Wizard!LinksAreLegal

\* What the members and the links panels ask for is not refused without notice
\* (MembersPanel.tsx, HubLinksPanel.tsx).
OffersAreAccepted == [][route = "panels" => Panels!OfferAccepted]_vars

\* The log and the result on screen are those of one run (WorkflowRunModal.tsx).
RunReported == route = "runs" => Runs!RunReported

\* An account is locked only after five wrong passwords since its last lock
\* passed (login_user of auth/routes.py).
LockoutIsEarned == route = "session" => Session!LockoutIsEarned

\* A role has one default model (api/models.py).
OneDefault == route = "models" => Models!OneDefault

\* A tool of an MCP server has one row (sync_server_tools_db).
ToolsOnce == route = "mcp" => Mcp!ToolsOnce
=============================================================================
