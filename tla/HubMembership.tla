----------------------------- MODULE HubMembership -----------------------------
(***************************************************************************)
(* Who belongs to a hub and with which role: the membership and lifecycle  *)
(* routes of gateway/api/hubs.py over common/services/hub_repository.py,   *)
(* authorised by require_hub (gateway/auth/hub_context.py); and the roles   *)
(* an administrator grants, which approve_user (gateway/api/admin_users.py)*)
(* and redeem_invite (gateway/auth/invites.py) add.                        *)
(*                                                                         *)
(* A request is one PostgreSQL transaction at READ COMMITTED, opened by    *)
(* the dependency that authorises it.  It locks no row it only reads, so   *)
(* other requests commit between its reads and its writes; a row it has    *)
(* written is locked until it ends.  The ORM session keeps each row it has *)
(* read once, and a later query tells it only whether the row still        *)
(* exists.  One hub is modelled; requests on different hubs share no row.  *)
(***************************************************************************)
EXTENDS Naturals, Sequences, FiniteSets

CONSTANTS
    Users,          \* accounts with a row in users
    Admins,         \* those whose platform_role is admin
    Creator,        \* who created the hub
    Requests,       \* concurrent HTTP requests
    GrantedRoles,   \* BOUND: the role names requests use
    NoRole,         \* no membership row
    Unset,          \* a row not read, or not written, by a request
    NoOp, NoPlan, NoCtx, NoHub

\* PATCH takes any string for a role; "unknown" stands for all that are none.
Roles == {"owner", "maintainer", "contributor", "viewer", "unknown"}

VARIABLES
    role,       \* committed hub_members rows: the role of each user
    hub,        \* committed hubs row
    pc,         \* where each request is
    op,         \* what it asks for
    ctx,        \* its HubContext, with the hub columns it has read
    loaded,     \* roles in the rows its session has read
    todo,       \* writes it has still to make
    plan,       \* the statement its next flush will emit
    draft,      \* hub_members rows it has written and not committed
    draftHub,   \* the hubs row it has written and not committed
    overlapped  \* HISTORY: another transaction committed since it started

local == <<pc, op, ctx, loaded, todo, plan, draft, draftHub>>
vars == <<role, hub, local, overlapped>>

\* hub_role_rank
Rank(x) == [owner |-> 4, maintainer |-> 3, contributor |-> 2, viewer |-> 1, unknown |-> 0][x]

RouteOps ==
    [kind: {"add"}, user: Users, role: GrantedRoles \ {"unknown"}]
        \cup [kind: {"update"}, user: Users, role: GrantedRoles]
        \cup [kind: {"remove"}, user: Users]
        \cup [kind: {"transfer"}, user: Users, keep: BOOLEAN]
        \cup [kind: {"archive", "unarchive", "delete"}]

\* The role an administrator grants a user who is approved or accepts an
\* invitation.
Grants == [kind: {"grant"}, user: Users, role: GrantedRoles \ {"unknown"}]

Ops == RouteOps \cup Grants

HubRow == [owner: Users, archived: BOOLEAN, deleted: BOOLEAN]

\* The frozen HubContext of a request, with the columns it has read.
Context == [actor: Users, role: Roles, archived: BOOLEAN, owner: Users]

ASSUME HubAssumption ==
    /\ IsFiniteSet(Users)
    /\ Admins \subseteq Users
    /\ Creator \in Users
    /\ GrantedRoles \subseteq Roles
    /\ NoRole \notin Roles
    /\ Unset \notin Roles \cup {NoRole}
    /\ NoOp \notin Ops
    /\ NoCtx \notin Context

\* min_role of the route, and whether it accepts an archived hub
MinRole(kind) ==
    CASE kind \in {"add", "update"} -> "maintainer"
      [] kind = "remove" -> "viewer"
      [] OTHER -> "owner"
AllowArchived == {"unarchive", "delete"}

RoleOrNone == Roles \cup {NoRole}

\* A write: a role for a member (NoRole to remove it), or a hub column.
MemberWrite == [what: {"member"}, user: Users, role: RoleOrNone]
HubWrite ==
    [what: {"hub"}, field: {"owner"}, value: Users]
        \cup [what: {"hub"}, field: {"archived", "deleted"}, value: BOOLEAN]
Member(u, x) == [what |-> "member", user |-> u, role |-> x]
Column(f, v) == [what |-> "hub", field |-> f, value |-> v]

-----------------------------------------------------------------------------
\* (mutant) Only the rows of this transaction, as if they were the table.
ViewOfWrites(r) == draft[r]

\* What request r's own queries see: committed rows and its own writes.
View(r) == [u \in Users |-> IF draft[r][u] # Unset THEN draft[r][u] ELSE role[u]]

\* The role in the row object of u: as first read, whatever was committed since.
Attr(r, u) == IF loaded[r][u] # Unset THEN loaded[r][u] ELSE View(r)[u]

Owners(rows) == {u \in Users : rows[u] = "owner"}

\* (mutant) count_owners is compared with zero, as if it left the user out.
LosesLastOwnerOff(r, u) ==
    Attr(r, u) = "owner" /\ Cardinality(Owners(View(r))) <= 0

\* The guard of routes and repository alike: u is the last owner.
LosesLastOwner(r, u) ==
    Attr(r, u) = "owner" /\ Cardinality(Owners(View(r))) <= 1

\* No other transaction holds the lock of u's membership row, of the hub row.
RowFree(r, u) == \A q \in Requests \ {r} : draft[q][u] = Unset
HubFree(r) == \A q \in Requests \ {r} : draftHub[q] = NoHub

Unread == [u \in Users |-> Unset]

\* The request is over; what it wrote is rolled back unless it was committed.
End(r) ==
    /\ pc' = [pc EXCEPT ![r] = "idle"]
    /\ op' = [op EXCEPT ![r] = NoOp]
    /\ ctx' = [ctx EXCEPT ![r] = NoCtx]
    /\ todo' = [todo EXCEPT ![r] = <<>>]
    /\ plan' = [plan EXCEPT ![r] = NoPlan]
    /\ draft' = [draft EXCEPT ![r] = Unread]
    /\ draftHub' = [draftHub EXCEPT ![r] = NoHub]

Fail(r) ==
    /\ End(r)
    /\ loaded' = [loaded EXCEPT ![r] = Unread]
    /\ overlapped' = [overlapped EXCEPT ![r] = FALSE]
    /\ UNCHANGED <<role, hub>>

\* Requests other than r see that something was committed.
Overlap(r) == overlapped' = [q \in Requests |-> IF q = r \/ pc[q] = "idle" THEN FALSE ELSE TRUE]

-----------------------------------------------------------------------------
\* create_hub has enrolled the creator as owner.
Init ==
    /\ role = [u \in Users |-> IF u = Creator THEN "owner" ELSE NoRole]
    /\ hub = [owner |-> Creator, archived |-> FALSE, deleted |-> FALSE]
    /\ pc = [r \in Requests |-> "idle"]
    /\ op = [r \in Requests |-> NoOp]
    /\ ctx = [r \in Requests |-> NoCtx]
    /\ loaded = [r \in Requests |-> Unread]
    /\ todo = [r \in Requests |-> <<>>]
    /\ plan = [r \in Requests |-> NoPlan]
    /\ draft = [r \in Requests |-> Unread]
    /\ draftHub = [r \in Requests |-> NoHub]
    /\ overlapped = [r \in Requests |-> FALSE]

\* (mutant) An archived hub is refused only to the read-only methods.
PassesArchived(kind) == TRUE

OpenFor(kind) == ~hub.archived \/ kind \in AllowArchived

\* require_hub reads the hub and the caller's membership and lets the request
\* in.  A request it turns away changes nothing and is not a step.
Authorize(r) ==
    /\ pc[r] = "idle"
    /\ ~hub.deleted
    /\ \E a \in Users, o \in RouteOps :
        LET effective == IF a \in Admins THEN "owner" ELSE role[a] IN
        /\ a \in Admins \/ role[a] # NoRole
        /\ OpenFor(o.kind)
        /\ Rank(effective) >= Rank(MinRole(o.kind))
        /\ op' = [op EXCEPT ![r] = o]
        /\ ctx' = [ctx EXCEPT ![r] = [actor |-> a, role |-> effective,
                                      archived |-> hub.archived, owner |-> hub.owner]]
        /\ loaded' = [loaded EXCEPT ![r][a] = IF role[a] # NoRole THEN role[a] ELSE Unset]
    /\ pc' = [pc EXCEPT ![r] = "checking"]
    /\ UNCHANGED <<role, hub, todo, plan, draft, draftHub, overlapped>>

\* (mutant) The route asks nobody's leave to make an owner.
MayGrantAny(r, x) == TRUE

MayGrant(r, x) == x = "owner" => ctx[r].role = "owner"

\* The checks of the route's own body.  Every user of the model is active, as
\* add and transfer demand of their target.
Allowed(r, o) ==
    CASE o.kind = "add" -> MayGrant(r, o.role) /\ View(r)[o.user] = NoRole
      [] o.kind = "update" ->
            /\ View(r)[o.user] # NoRole
            /\ MayGrant(r, o.role)
            /\ o.role # "owner" => ~LosesLastOwner(r, o.user)
      [] o.kind = "remove" ->
            /\ o.user = ctx[r].actor \/ Rank(ctx[r].role) >= Rank("maintainer")
            /\ View(r)[o.user] # NoRole
            /\ ~LosesLastOwner(r, o.user)
      [] o.kind = "transfer" -> o.user # ctx[r].actor
      [] OTHER -> TRUE

\* What the route then calls of the repository, in order.
Writes(r, o) ==
    CASE o.kind \in {"add", "update"} -> <<Member(o.user, o.role)>>
      [] o.kind = "remove" -> <<Member(o.user, NoRole)>>
      [] o.kind = "transfer" ->
            IF o.keep
            THEN <<Member(o.user, "owner"), Column("owner", o.user)>>
            ELSE <<Member(o.user, "owner"), Column("owner", o.user),
                   Member(ctx[r].actor, "maintainer")>>
      [] o.kind = "archive" -> <<Column("archived", TRUE)>>
      [] o.kind = "unarchive" -> <<Column("archived", FALSE)>>
      [] o.kind = "delete" -> <<Column("deleted", TRUE)>>

Proceed(r) ==
    /\ pc[r] = "checking" /\ op[r] \notin Grants
    /\ Allowed(r, op[r])
    /\ todo' = [todo EXCEPT ![r] = Writes(r, op[r])]
    /\ loaded' = IF op[r].kind \in {"update", "remove"}
                 THEN [loaded EXCEPT ![r][op[r].user] = Attr(r, op[r].user)]
                 ELSE loaded
    /\ op' = [op EXCEPT ![r] = NoOp]
    /\ pc' = [pc EXCEPT ![r] = "writing"]
    /\ UNCHANGED <<role, hub, ctx, plan, draft, draftHub, overlapped>>

Refuse(r) ==
    /\ pc[r] = "checking" /\ op[r] \notin Grants
    /\ ~Allowed(r, op[r])
    /\ Fail(r)

\* approve_user and redeem_invite ask of the hub whether it is archived, and
\* of nobody's membership: the administrator who granted the role may do so.
GrantChecks(r) ==
    /\ pc[r] = "idle"
    /\ ~hub.archived
    /\ \E o \in Grants :
        /\ op' = [op EXCEPT ![r] = o]
        /\ ctx' = [ctx EXCEPT ![r] = [actor |-> o.user, role |-> "owner",
                                      archived |-> hub.archived, owner |-> hub.owner]]
    /\ pc' = [pc EXCEPT ![r] = "checking"]
    /\ UNCHANGED <<role, hub, loaded, todo, plan, draft, draftHub, overlapped>>

\* Whoever has no row is given one by the flush before the commit; a row that
\* is there stays as it is.
Grant(r) ==
    LET o == op[r] IN
    /\ pc[r] = "checking" /\ o \in Grants
    /\ IF View(r)[o.user] = NoRole
       THEN /\ todo' = [todo EXCEPT ![r] = <<Member(o.user, o.role)>>]
            /\ plan' = [plan EXCEPT ![r] = "insert"]
            /\ UNCHANGED loaded
       ELSE /\ loaded' = [loaded EXCEPT ![r][o.user] = Attr(r, o.user)]
            /\ UNCHANGED <<todo, plan>>
    /\ op' = [op EXCEPT ![r] = NoOp]
    /\ pc' = [pc EXCEPT ![r] = "writing"]
    /\ UNCHANGED <<role, hub, ctx, draft, draftHub, overlapped>>

-----------------------------------------------------------------------------
AtMember(r) ==
    pc[r] = "writing" /\ todo[r] # <<>> /\ plan[r] = NoPlan /\ Head(todo[r]).what = "member"

AtHub(r) == pc[r] = "writing" /\ todo[r] # <<>> /\ Head(todo[r]).what = "hub"

\* upsert_member and remove_member look again before they write.
Demotes(r) == Head(todo[r]).role # "owner"

LastOwnerError(r) ==
    LET t == Head(todo[r]) IN
    /\ AtMember(r)
    /\ View(r)[t.user] # NoRole
    /\ Demotes(r) /\ LosesLastOwner(r, t.user)
    /\ Fail(r)

\* Nothing to write: the member to remove is gone, or has the role already.
Skip(r) ==
    LET t == Head(todo[r]) IN
    /\ AtMember(r)
    /\ ~(Demotes(r) /\ LosesLastOwner(r, t.user))
    /\ IF View(r)[t.user] = NoRole THEN t.role = NoRole ELSE t.role = Attr(r, t.user)
    /\ todo' = [todo EXCEPT ![r] = Tail(todo[r])]
    /\ loaded' = IF View(r)[t.user] = NoRole THEN loaded
                 ELSE [loaded EXCEPT ![r][t.user] = Attr(r, t.user)]
    /\ UNCHANGED <<role, hub, pc, op, ctx, plan, draft, draftHub, overlapped>>

\* INSERT, UPDATE or DELETE of the membership row
Prepare(r) ==
    LET t == Head(todo[r]) IN
    /\ AtMember(r)
    /\ IF View(r)[t.user] = NoRole
       THEN /\ t.role # NoRole
            /\ plan' = [plan EXCEPT ![r] = "insert"]
            /\ loaded' = [loaded EXCEPT ![r][t.user] = Unset]
       ELSE /\ t.role # Attr(r, t.user)
            /\ ~(Demotes(r) /\ LosesLastOwner(r, t.user))
            /\ plan' = [plan EXCEPT ![r] = IF t.role = NoRole THEN "delete" ELSE "update"]
            /\ loaded' = [loaded EXCEPT ![r][t.user] = Attr(r, t.user)]
    /\ UNCHANGED <<role, hub, pc, op, ctx, todo, draft, draftHub, overlapped>>

\* The row the statement was prepared for is (still) there to be written.
Applies(r) ==
    LET t == Head(todo[r]) IN
    IF plan[r] = "insert" THEN role[t.user] = NoRole ELSE loaded[r][t.user] # Unset

\* The flush writes the row, once no other transaction holds it.  A DELETE
\* that finds no row passes; that of a row the session has not read cannot be.
Flush(r) ==
    LET t == Head(todo[r]) IN
    /\ plan[r] # NoPlan
    /\ RowFree(r, t.user)
    /\ Applies(r) \/ plan[r] = "delete"
    /\ draft' = [draft EXCEPT ![r][t.user] = IF Applies(r) THEN t.role ELSE Unset]
    /\ loaded' = [loaded EXCEPT ![r][t.user] = IF t.role = NoRole THEN Unset ELSE t.role]
    /\ plan' = [plan EXCEPT ![r] = NoPlan]
    /\ todo' = [todo EXCEPT ![r] = Tail(todo[r])]
    /\ UNCHANGED <<role, hub, pc, op, ctx, draftHub, overlapped>>

\* IntegrityError of an INSERT, StaleDataError of an UPDATE
FlushFails(r) ==
    /\ plan[r] # NoPlan
    /\ RowFree(r, Head(todo[r]).user)
    /\ ~Applies(r) /\ plan[r] # "delete"
    /\ Fail(r)

\* archive_hub and delete_hub_if_empty fetch the hub once more; the others use
\* the object of the context, and write no column that already has the value.
FindsHub(t) == t.field = "deleted" \/ (t.field = "archived" /\ t.value)
SameAsRead(r, t) ==
    \/ t.field = "owner" /\ t.value = ctx[r].owner
    \/ t.field = "archived" /\ t.value = ctx[r].archived

WriteHub(r) ==
    LET t == Head(todo[r]) IN
    /\ AtHub(r)
    /\ FindsHub(t) => ~hub.deleted
    /\ IF SameAsRead(r, t) THEN UNCHANGED draftHub
       ELSE /\ HubFree(r)
            /\ draftHub' = [draftHub EXCEPT ![r] = [hub EXCEPT ![t.field] = t.value]]
    /\ todo' = [todo EXCEPT ![r] = Tail(todo[r])]
    /\ UNCHANGED <<role, hub, pc, op, ctx, loaded, plan, draft, overlapped>>

\* HubNotFoundError
HubGone(r) ==
    /\ AtHub(r)
    /\ FindsHub(Head(todo[r])) /\ hub.deleted
    /\ Fail(r)

\* A row that is gone is no longer the row other sessions have read.
Commit(r) ==
    /\ pc[r] = "writing" /\ todo[r] = <<>>
    /\ role' = View(r)
    /\ hub' = IF draftHub[r] = NoHub THEN hub ELSE draftHub[r]
    /\ loaded' = [q \in Requests |-> IF q = r THEN Unread
                    ELSE [u \in Users |-> IF draft[r][u] = NoRole THEN Unset ELSE loaded[q][u]]]
    /\ Overlap(r)
    /\ End(r)

\* The database, the connection or the deadlock detector ends the transaction.
Abort(r) == pc[r] # "idle" /\ Fail(r)

RequestStep(r) ==
    \/ Authorize(r) \/ Proceed(r) \/ Refuse(r) \/ GrantChecks(r) \/ Grant(r)
    \/ LastOwnerError(r) \/ Skip(r) \/ Prepare(r) \/ Flush(r) \/ FlushFails(r)
    \/ WriteHub(r) \/ HubGone(r) \/ Commit(r) \/ Abort(r)

Next == \E r \in Requests : RequestStep(r)

Spec == Init /\ [][Next]_vars

-----------------------------------------------------------------------------
(* Properties *)

Statuses == {"idle", "checking", "writing"}
TypeOK ==
    /\ role \in [Users -> RoleOrNone]
    /\ hub \in HubRow
    /\ pc \in [Requests -> Statuses]
    /\ op \in [Requests -> Ops \cup {NoOp}]
    /\ ctx \in [Requests -> Context \cup {NoCtx}]
    /\ \A r \in Requests :
        /\ pc[r] = "checking" => op[r] # NoOp
        /\ pc[r] # "idle" => ctx[r] # NoCtx
    /\ loaded \in [Requests -> [Users -> Roles \cup {Unset}]]
    /\ draft \in [Requests -> [Users -> RoleOrNone \cup {Unset}]]
    /\ todo \in [Requests -> Seq(MemberWrite \cup HubWrite)]
    /\ draftHub \in [Requests -> HubRow \cup {NoHub}]
    /\ plan \in [Requests -> {NoPlan, "insert", "update", "delete"}]
    /\ overlapped \in [Requests -> BOOLEAN]

\* A request that no other commit overlapped leaves the hub an owner, in
\* whatever order it removes, demotes and transfers: the last-owner guards of
\* the routes and of upsert_member and remove_member do their work.
KeepsOwner ==
    [][\A r \in Requests :
        Commit(r) /\ ~overlapped[r] /\ Owners(role) # {} => Owners(role') # {}]_vars

\* Nobody becomes an owner except by the request of an owner or an
\* administrator, or a grant an administrator made: add_hub_member,
\* update_member_role and transfer_ownership, approve_user and redeem_invite.
OwnersMadeByOwners ==
    [][\A u \in Users : role[u] # "owner" /\ role'[u] = "owner" =>
        \E r \in Requests : Commit(r) /\ ctx[r].role = "owner"]_vars

\* The membership of an archived hub changes only by requests that read it
\* before it was archived, and have been overtaken by the archiving: requests
\* that require_hub let in, and the grants of approve_user and redeem_invite.
ArchivedIsFrozen ==
    [][hub.archived /\ role' # role =>
        \E r \in Requests : Commit(r) /\ ~ctx[r].archived /\ overlapped[r]]_vars

\* hubs.py:470, "A hub must retain at least one owner": two requests that each
\* saw two owners take one away each.
OwnerRemains == Owners(role) # {}
=============================================================================
