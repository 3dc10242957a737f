------------------------------- MODULE HubPages -------------------------------
(***************************************************************************)
(* The directory of hubs, the shell around a hub's pages and the switcher  *)
(* (HubDirectory.tsx, HubShell.tsx, HubSwitcher.tsx) over the store's list  *)
(* of hubs (store/hubSlice.ts), while others archive and delete hubs and   *)
(* change the user's role in them.                                         *)
(***************************************************************************)
EXTENDS Page, Permissions

CONSTANTS
    Hubs,
    Admin           \* isPlatformAdmin

Hub(archived, role) == [archived |-> archived, role |-> role]

Init ==
    Started([screen |-> "directory", hubs |-> Empty, listStatus |-> "loading",
             at |-> None, hub |-> None, status |-> "idle", active |-> None, crossed |-> FALSE],
            [hubs |-> [h \in Hubs |-> Hub(FALSE, "owner")], changes |-> 0],
            << [op |-> "list"] >>)
-----------------------------------------------------------------------------
(* The gateway. *)

Known(r) == r.ask.hub \in DOMAIN server.hubs
MayWrite(r) == Known(r) /\ Accepted("deleteHub", server.hubs[r.ask.hub].role, FALSE, Admin)
Refused(r) ==
    CASE r.ask.op = "list" -> FALSE
      [] r.ask.op = "get" -> ~Known(r)
      [] r.ask.op = "archive" -> ~MayWrite(r) \/ server.hubs[r.ask.hub].archived
      [] OTHER -> ~MayWrite(r)
Effect(r) ==
    CASE r.ask.op = "archive" -> [server EXCEPT !.hubs[r.ask.hub].archived = TRUE]
      [] r.ask.op = "unarchive" -> [server EXCEPT !.hubs[r.ask.hub].archived = FALSE]
      [] r.ask.op = "delete" -> [server EXCEPT !.hubs = Drop(@, r.ask.hub)]
      [] OTHER -> server
Reply(r) ==
    CASE r.ask.op = "list" -> server.hubs
      [] r.ask.op = "get" -> server.hubs[r.ask.hub]
      [] OTHER -> r.id

\* Somebody else changes a role, archives, unarchives or deletes a hub.
OthersChange(h) ==
    /\ server.changes = 0 /\ h \in DOMAIN server.hubs
    /\ \/ \E role \in {"viewer", "contributor", "maintainer"} :
             server' = [server EXCEPT !.hubs[h].role = role, !.changes = 1]
       \/ server' = [server EXCEPT !.hubs[h].archived = TRUE, !.changes = 1]
       \/ server' = [server EXCEPT !.hubs = Drop(@, h), !.changes = 1]
    /\ raced' = TRUE /\ UNCHANGED <<ui, net, sent>>
-----------------------------------------------------------------------------
(* The directory. *)

\* setHubs and setHubListStatus.
ListFetched(r) ==
    /\ Came(r, "list")
    /\ ui' = IF r.got = Failed THEN [ui EXCEPT !.listStatus = "error"]
             ELSE [ui EXCEPT !.hubs = r.got, !.listStatus = "ready"]
    /\ Done(r)

Retry ==
    /\ ui.screen = "directory" /\ ui.listStatus = "error"
    /\ ui' = [ui EXCEPT !.listStatus = "loading"] /\ Send(<<[op |-> "list"]>>)

\* processHubList: the type chips, the search and "Show archived" can bring any
\* hub of the list on screen.
Listed(h) == ui.screen = "directory" /\ ui.listStatus = "ready" /\ h \in DOMAIN ui.hubs

\* Every card has both buttons, whatever the role; each asks to confirm.
ToggleArchive(h) ==
    /\ Listed(h) /\ UNCHANGED ui
    /\ Send(<<[op |-> IF ui.hubs[h].archived THEN "unarchive" ELSE "archive", hub |-> h, from |-> "directory"]>>)
DeleteHub(h) ==
    /\ Listed(h) /\ UNCHANGED ui
    /\ Send(<<[op |-> "delete", hub |-> h, from |-> "directory"]>>)

\* (mutant) The list is not fetched again.
WrittenWithoutFetch(r) ==
    /\ \E op \in {"archive", "unarchive", "delete"} : Came(r, op) /\ r.ask.from = "directory"
    /\ UNCHANGED ui /\ Done(r)

\* After a write from the directory the list is fetched again.
WrittenFromDirectory(r) ==
    /\ \E op \in {"archive", "unarchive", "delete"} : Came(r, op) /\ r.ask.from = "directory"
    /\ IF r.got = Failed THEN UNCHANGED ui /\ Done(r)
       ELSE ui' = [ui EXCEPT !.listStatus = "loading"] /\ Go(r, <<[op |-> "list"]>>)
-----------------------------------------------------------------------------
(* The shell. *)

\* (mutant) The hub of the address before stays the active one.
EnterWithoutCleanup(h, state) ==
    [state EXCEPT !.screen = "hub", !.at = h, !.status = "loading", !.crossed = FALSE]

\* The effect on the address: its cleanup for the address before, then fetchHub.
Enter(h, state) ==
    [state EXCEPT !.screen = "hub", !.at = h, !.status = "loading", !.active = None, !.crossed = FALSE]

OpenHub(h) == Listed(h) /\ ui' = Enter(h, ui) /\ Send(<<[op |-> "get", hub |-> h]>>)

\* An answer is taken for the hub on screen, whichever it was asked for; the
\* store takes it even when the shell is gone.
HubFetched(r) ==
    /\ Came(r, "get")
    /\ LET shown == ui.screen = "hub"
       IN  ui' = [ui EXCEPT
                !.hub = IF shown /\ r.got # Failed THEN [id |-> r.ask.hub, is |-> r.got] ELSE @,
                !.status = IF ~shown THEN @ ELSE IF r.got = Failed THEN "error" ELSE "success",
                !.active = IF r.got = Failed THEN @ ELSE r.ask.hub,
                !.crossed = IF r.got = Failed THEN @ ELSE r.ask.hub # ui.at]
    /\ Done(r)

RetryHub == ui.screen = "hub" /\ ui.status = "error"
            /\ ui' = [ui EXCEPT !.status = "loading"] /\ Send(<<[op |-> "get", hub |-> ui.at]>>)

\* Leaving unmounts the shell; the directory fetches its list as it mounts.
Directory(state) ==
    [state EXCEPT !.screen = "directory", !.at = None, !.hub = None, !.status = "idle", !.active = None,
                  !.listStatus = "loading", !.crossed = FALSE]
Leave == ui.screen = "hub" /\ ui' = Directory(ui) /\ Send(<<[op |-> "list"]>>)

\* can(), from the hub and the role the shell last fetched.
Shown == ui.screen = "hub" /\ ui.status = "success" /\ ui.hub # None
Can(b) == Shown /\ Offered(b, ui.hub.is.role, ui.hub.is.archived, Admin)

\* The header's button; it deletes the hub on screen and goes to the start page.
DeleteThisHub ==
    /\ Can("deleteHub") /\ UNCHANGED ui
    /\ Send(<<[op |-> "delete", hub |-> ui.hub.id, from |-> "hub"]>>)
ThisHubDeleted(r) ==
    /\ Came(r, "delete") /\ r.ask.from = "hub"
    /\ IF r.got = Failed THEN UNCHANGED ui /\ Done(r)
       ELSE ui' = Directory(ui) /\ Go(r, <<[op |-> "list"]>>)
-----------------------------------------------------------------------------
(* The switcher (Ctrl+K), over the store's list. *)

\* Opened anywhere, it offers any hub of the list: the one highlighted with the
\* arrows, one of the matches, a recent one, an archived one on demand.
Switchable(h) == h \in DOMAIN ui.hubs /\ h # ui.at
SwitchTo(h) ==
    /\ Switchable(h)
    /\ ui' = Enter(h, ui) /\ Send(<<[op |-> "get", hub |-> h]>>)
-----------------------------------------------------------------------------
Next ==
    \/ Retry \/ RetryHub \/ Leave \/ DeleteThisHub
    \/ \E h \in Hubs : ToggleArchive(h) \/ DeleteHub(h) \/ OpenHub(h) \/ SwitchTo(h) \/ OthersChange(h)
    \/ \E r \in net : ListFetched(r) \/ WrittenFromDirectory(r) \/ HubFetched(r) \/ ThisHubDeleted(r)
    \/ Serve(Refused, Effect, Reply) \/ Repeat(Refused, Effect)

Spec == Init /\ [][Next]_vars
-----------------------------------------------------------------------------
TypeOK ==
    /\ ui.screen \in {"directory", "hub"} /\ (ui.screen = "hub" <=> ui.at # None)
    /\ DOMAIN server.hubs \subseteq Hubs /\ DOMAIN ui.hubs \subseteq Hubs

BusyHasCause ==
    /\ ui.screen = "directory" /\ ui.listStatus = "loading" => Out({"list"})
    /\ ui.screen = "hub" /\ ui.status = "loading" => Out({"get"})

\* Once nothing is under way the directory lists what the gateway holds.
Fresh ==
    Quiet /\ ~raced /\ ui.screen = "directory" /\ ui.listStatus = "ready" => ui.hubs = server.hubs

\* Unless the last answer that came is of a hub visited before, the shell shows the
\* hub of its address and the store names it as the active one, or none if it
\* could not be fetched or no hub is on screen (fetchHub, the effect's cleanup,
\* HubSwitcher).
ShellShowsItsHub ==
    ~ui.crossed /\ Quiet =>
        /\ ui.screen = "hub" /\ ui.status = "success" => ui.hub.id = ui.at /\ ui.active = ui.at
        /\ ui.active \in {None, ui.at}

\* What a page of a hub offers the gateway accepts, as long as the hub and the
\* role are those it was fetched with; the buttons that ask for less than the
\* route does, and those nobody is offered, are the ones listed.
OfferedIsAccepted ==
    Shown /\ ui.hub.id \in DOMAIN server.hubs /\ ui.hub.is = server.hubs[ui.hub.id] =>
        \A b \in DOMAIN Buttons :
            /\ Can(b) /\ b \notin Overpromised => Accepted(b, ui.hub.is.role, ui.hub.is.archived, Admin)
            /\ ~Can(b) /\ Accepted(b, ui.hub.is.role, ui.hub.is.archived, Admin) =>
                    b \in NeverOffered \/ (b = "deleteHub" /\ ui.hub.is.archived)
=============================================================================
