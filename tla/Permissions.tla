----------------------------- MODULE Permissions -----------------------------
(***************************************************************************)
(* What the console offers to a member of a hub (hooks/useHubPermissions.ts *)
(* and the gates of the hub pages) beside what the gateway accepts from one *)
(* (require_hub of gateway/auth/hub_context.py, with the min_role of each   *)
(* route).                                                                 *)
(***************************************************************************)
EXTENDS Integers

CONSTANT NoRole     \* no membership

Ladder == [owner |-> 4, maintainer |-> 3, contributor |-> 2, viewer |-> 1]
Roles == DOMAIN Ladder

MinRole == [
    view |-> "viewer", run_readonly |-> "viewer",
    create_resource |-> "contributor", edit_resource |-> "contributor", execute |-> "contributor",
    delete_resource |-> "contributor", manage_datastores |-> "contributor",
    manage_members |-> "maintainer", manage_links |-> "maintainer",
    rename_hub |-> "maintainer", archive_hub |-> "maintainer",
    transfer_ownership |-> "owner", hard_delete_hub |-> "owner"]
Mutating == DOMAIN MinRole \ {"view", "run_readonly"}

\* (mutant) An archived hub is not looked at.
AllowedWhenArchived(role, action, archived, admin) ==
    /\ action \in DOMAIN MinRole
    /\ admin \/ role # NoRole
    /\ Ladder[IF admin THEN "owner" ELSE role] >= Ladder[MinRole[action]]

\* evaluate; an action that is not in the table is denied to everybody.
Allowed(role, action, archived, admin) ==
    /\ action \in DOMAIN MinRole
    /\ admin \/ role # NoRole
    /\ Ladder[IF admin THEN "owner" ELSE role] >= Ladder[MinRole[action]]
    /\ ~(archived /\ action \in Mutating)

\* The buttons of the hub pages: the action their gate asks for, and whether
\* they are rendered for an archived hub alone.
Button(gate, needs) == [gate |-> gate, needs |-> needs]
Buttons == [
    create |-> Button("create_resource", "contributor"),            \* workflows, agents, suites, collections, documents
    edit |-> Button("edit_resource", "contributor"),                \* WorkflowEditor.tsx:980, AgentDetail.tsx:291
    editCase |-> Button("update_resource", "contributor"),          \* SuiteDetailWorkspace.tsx:513
    deleteCase |-> Button("delete_resource", "contributor"),        \* SuiteDetailWorkspace.tsx:522
    deleteResource |-> Button("delete_resource", "maintainer"),     \* WorkflowLibrary.tsx:197, AgentLibrary.tsx:411, ...
    bindDatastore |-> Button("manage_datastores", "maintainer"),    \* DatastoresWorkspace.tsx:224
    manageMembers |-> Button("manage_members", "maintainer"),       \* MembersPanel.tsx:130
    manageLinks |-> Button("manage_links", "maintainer"),           \* HubLinksPanel.tsx:127
    unarchive |-> Button("archive_hub", "owner"),                   \* HubShell.tsx:250
    deleteHub |-> Button("archive_hub", "owner")]                   \* HubShell.tsx:283

Offered(b, role, archived, admin) ==
    /\ Allowed(role, Buttons[b].gate, archived, admin)
    /\ b = "unarchive" => archived

\* require_hub: a member or an administrator, whose role reaches the route's,
\* and a hub that is not archived unless the route allows that.
Accepted(b, role, archived, admin) ==
    /\ admin \/ role # NoRole
    /\ Ladder[IF admin THEN "owner" ELSE role] >= Ladder[Buttons[b].needs]
    /\ archived => b \in {"unarchive", "deleteHub"}

\* Buttons a role sees and the gateway refuses to it, and those nobody sees.
Overpromised == {"deleteResource", "bindDatastore", "deleteHub"}
NeverOffered == {"editCase", "unarchive"}
=============================================================================
