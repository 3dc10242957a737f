------------------------------ MODULE HubPanels ------------------------------
(***************************************************************************)
(* The members and the links of a hub (MembersPanel.tsx,                    *)
(* HubLinksPanel.tsx), seen by an owner.  Either panel fetches its list as  *)
(* it mounts and after each of its writes, while others write.              *)
(*                                                                         *)
(* Its buttons depend on the hub and the role that the shell read when the *)
(* address last changed: they stay an owner's, on a hub in use, after the  *)
(* owner left the hub or was demoted and after the hub was archived.       *)
(***************************************************************************)
EXTENDS Page

\* BOUND: the user "me", a second member and somebody to invite; two hubs of the
\* types to link to, one of which "me" may only view, and one that links here.
Grantable == {"maintainer", "contributor", "viewer"}
Hubs == {"h1", "h2"}
Contributes == {"h1"}

ListOp(panel) == <<[op |-> panel]>>

Init ==
    \E panel \in {"members", "links"}, role \in {"owner", "contributor"} :
        Started([panel |-> panel, list |-> Empty, incoming |-> {}, loading |-> TRUE, error |-> FALSE,
                 open |-> FALSE, submitting |-> FALSE, refused |-> FALSE],
                [members |-> [m \in {"me", "u"} |-> IF m = "me" THEN "owner" ELSE role],
                 links |-> Empty, incoming |-> {"h3"}, archived |-> FALSE, changes |-> 0],
                ListOp(panel))
-----------------------------------------------------------------------------
(* The gateway.  require_hub comes first: to who is no member the hub does  *)
(* not exist, nobody writes to an archived one, and but for leaving the hub *)
(* every write takes a maintainer.                                         *)

Writes(r) == r.ask.op \notin {"members", "links"}
Leaves(r) == r.ask.op = "remove" /\ r.ask.user = "me"
Denied(r) ==
    \/ "me" \notin DOMAIN server.members
    \/ Writes(r) /\ server.archived
    \/ Writes(r) /\ ~Leaves(r) /\ server.members["me"] \notin {"owner", "maintainer"}

\* A hub keeps an owner; an invitation names an e-mail address and
\* add_hub_member looks for a user id.
Owners(members) == {m \in DOMAIN members : members[m] = "owner"}
LastOwner(members, m) == Owners(members) = {m}
Refused(r) ==
    \/ Denied(r) \/ r.ask.op = "invite"
    \/ /\ r.ask.op \in {"role", "remove"}
       /\ r.ask.user \notin DOMAIN server.members \/ LastOwner(server.members, r.ask.user)
    \/ r.ask.op = "link" /\ (r.ask.hub \in DOMAIN server.links \/ r.ask.hub \notin Contributes)
    \/ r.ask.op = "revoke" /\ r.ask.hub \notin DOMAIN server.links
Effect(r) ==
    CASE r.ask.op = "role" -> [server EXCEPT !.members[r.ask.user] = r.ask.role]
      [] r.ask.op = "remove" -> [server EXCEPT !.members = Drop(@, r.ask.user)]
      [] r.ask.op = "link" -> [server EXCEPT !.links = Put(@, r.ask.hub, r.ask.level)]
      [] r.ask.op = "revoke" -> [server EXCEPT !.links = Drop(@, r.ask.hub)]
      [] OTHER -> server
Reply(r) ==
    CASE r.ask.op = "members" -> server.members
      [] r.ask.op = "links" -> [out |-> server.links, in |-> server.incoming]
      [] OTHER -> r.id

\* BOUND: one change by others, of a platform admin or another owner: u is made
\* an owner, the user is demoted or removed, a hub is linked, this one archived.
OthersChange ==
    /\ server.changes = 0
    /\ \/ "u" \in DOMAIN server.members
          /\ server' = [server EXCEPT !.members["u"] = "owner", !.changes = 1]
       \/ /\ "me" \in DOMAIN server.members /\ ~LastOwner(server.members, "me")
          /\ \/ server' = [server EXCEPT !.members["me"] = "viewer", !.changes = 1]
             \/ server' = [server EXCEPT !.members = Drop(@, "me"), !.changes = 1]
       \/ \E h \in Hubs \ DOMAIN server.links :
             server' = [server EXCEPT !.links = Put(@, h, "read"), !.changes = 1]
       \/ server' = [server EXCEPT !.archived = TRUE, !.changes = 1]
    /\ raced' = TRUE /\ UNCHANGED <<ui, net, sent>>
-----------------------------------------------------------------------------
(* The lists. *)

Loading(state) == [state EXCEPT !.loading = TRUE, !.error = FALSE]
Refetch == ListOp(ui.panel)

MembersFetched(r) ==
    Answer(r, "members", [ui EXCEPT !.list = r.got, !.loading = FALSE], <<>>,
                         [ui EXCEPT !.loading = FALSE, !.error = TRUE])

\* Promise.all: both lists are shown, or neither if one of the requests fails;
\* they are read together here, no property compares them.
LinksFetched(r) ==
    Answer(r, "links", [ui EXCEPT !.list = r.got.out, !.incoming = r.got.in, !.loading = FALSE], <<>>,
                       [ui EXCEPT !.loading = FALSE, !.error = TRUE])

\* While the list loads nothing else is rendered; the form keeps its state.
Ready(panel) == ui.panel = panel /\ ~ui.loading

\* A write from the list asks nothing of the user and shows nothing if it fails.
Wrote(r, ops) == \E op \in ops : Answer(r, op, Loading(ui), Refetch, ui)
-----------------------------------------------------------------------------
(* The members: search and role filter can bring any of them on screen. *)

OwnerCount == Cardinality(Owners(ui.list))
OnScreen(m) == Ready("members") /\ m \in DOMAIN ui.list

ChangeRole(m, role) ==
    /\ OnScreen(m) /\ ui.list[m] \notin {"owner", role}
    /\ Ask(ui, [op |-> "role", user |-> m, role |-> role])

\* (mutant) The last owner has the button as well.
RemoveMemberEvenLast(m) ==
    OnScreen(m) /\ Ask(ui, [op |-> "remove", user |-> m])

RemoveMember(m) ==
    /\ OnScreen(m) /\ ~(ui.list[m] = "owner" /\ OwnerCount <= 1)
    /\ Ask(ui, [op |-> "remove", user |-> m])

\* The invitation form: its answer is always an error.
OpenForm(panel) == Ready(panel) /\ ~ui.open /\ Set([ui EXCEPT !.open = TRUE])
CloseForm(panel) == Ready(panel) /\ ui.open /\ Set([ui EXCEPT !.open = FALSE])
Submit(state) == [state EXCEPT !.submitting = TRUE, !.refused = FALSE]
InviteMember == Ready("members") /\ ui.open /\ ~ui.submitting /\ Ask(Submit(ui), [op |-> "invite"])
Invited(r) ==
    Answer(r, "invite", Loading([ui EXCEPT !.submitting = FALSE, !.open = FALSE]), Refetch,
                        [ui EXCEPT !.submitting = FALSE, !.refused = TRUE])
-----------------------------------------------------------------------------
(* The links. *)

\* A hub that is linked already is still offered.
CreateLink(h, level) ==
    /\ Ready("links") /\ ui.open /\ ~ui.submitting
    /\ Ask(Submit(ui), [op |-> "link", hub |-> h, level |-> level])
LinkCreated(r) ==
    Answer(r, "link", Loading([ui EXCEPT !.submitting = FALSE, !.open = FALSE]), Refetch,
                      [ui EXCEPT !.submitting = FALSE, !.refused = TRUE])
RevokeLink(h) == Ready("links") /\ h \in DOMAIN ui.list /\ Ask(ui, [op |-> "revoke", hub |-> h])
-----------------------------------------------------------------------------
Next ==
    \/ InviteMember \/ OthersChange
    \/ \E panel \in {"members", "links"} : OpenForm(panel) \/ CloseForm(panel)
    \/ \E m \in {"me", "u"} : RemoveMember(m) \/ (\E role \in Grantable : ChangeRole(m, role))
    \/ \E h \in Hubs : RevokeLink(h) \/ (\E level \in {"use", "read"} : CreateLink(h, level))
    \/ \E r \in net : MembersFetched(r) \/ LinksFetched(r) \/ Wrote(r, {"role", "remove", "revoke"})
                      \/ Invited(r) \/ LinkCreated(r)
    \/ Serve(Refused, Effect, Reply) \/ Repeat(Refused, Effect)

Spec == Init /\ [][Next]_vars
-----------------------------------------------------------------------------
TypeOK ==
    /\ {ui.loading, ui.error, ui.open, ui.submitting, ui.refused} \subseteq BOOLEAN
    /\ ui.panel = "members" => \A m \in DOMAIN ui.list : ui.list[m] \in Grantable \cup {"owner"}
    /\ ui.panel = "links" => DOMAIN ui.list \subseteq Hubs

BusyHasCause ==
    /\ ui.loading => Out({"members", "links"})
    /\ ui.submitting => Out({"invite", "link"})

UpToDate == ui.list = IF ui.panel = "members" THEN server.members ELSE server.links

\* Once nothing is under way the panel shows the list as the gateway holds it:
\* every write that succeeds is followed by a fetch, whatever was written or
\* fetched meanwhile.
Fresh == Quiet /\ ~raced /\ ~ui.error => UpToDate

\* The hub and the caller's role are what the shell took them for.
AsShown == "me" \in DOMAIN server.members /\ server.members["me"] = "owner" /\ ~server.archived

\* With the gateway's list on screen and nothing under way, what the panel asks
\* for is refused only because the hub or the role has changed behind the shell,
\* because nobody is ever invited, or for a hub that is linked already or may only
\* be viewed, which the panel offers all the same.
OfferAccepted ==
    UpToDate /\ Quiet =>
        \A r \in net' : Refused(r) =>
            \/ ~AsShown \/ r.ask.op = "invite"
            \/ r.ask.op = "link" /\ (r.ask.hub \in DOMAIN ui.list \/ r.ask.hub \notin Contributes)
OffersAreAccepted == [][OfferAccepted]_vars
=============================================================================
