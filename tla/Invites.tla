-------------------------------- MODULE Invites --------------------------------
(***************************************************************************)
(* How an e-mail address becomes an account: invitations are created,      *)
(* resent, revoked, swept and redeemed (gateway/auth/invites.py), and a    *)
(* sign-up by password (register_user with resolve_signup) or by OAuth     *)
(* (resolve_identity) takes a pending invitation along.                    *)
(*                                                                         *)
(* Every task is one transaction at READ COMMITTED: it reads committed     *)
(* rows, one query at a time, then writes, and holds what it has written   *)
(* until it ends.  Only redeem_invite locks the row it reads.              *)
(***************************************************************************)
EXTENDS Naturals, FiniteSets

CONSTANTS
    Emails,         \* addresses
    Seeded,         \* those the start of the gateway gives an administrator
    AutoApproved,   \* those in AUTO_APPROVE_EMAIL_DOMAINS
    Invites,        \* BOUND: the rows user_invites can come to hold
    Requests,       \* concurrent HTTP requests
    Sweeper,        \* the task of gateway/core/setup.py
    MaxTokens,      \* BOUND: links issued
    NoInvite, NoAccount, NoOp, Free

VARIABLES
    invites,    \* committed user_invites rows
    accounts,   \* committed users rows
    issued,     \* links are numbered in the order they were issued
    pc,         \* where each task is
    op,         \* what it does
    found,      \* the user_invites rows it has read and will write
    draft,      \* the users row it inserts
    lock        \* the task that holds each user_invites row

vars == <<invites, accounts, issued, pc, op, found, draft, lock>>

Tasks == Requests \cup {Sweeper}
PlatformRoles == {"admin", "member"}
Statuses == {"pending", "accepted", "revoked", "expired"}

\* overdue: expires_at has passed; taken: accepted_user_id is set
Invite == [email: Emails, role: PlatformRoles, status: Statuses, token: 1..MaxTokens,
           overdue: BOOLEAN, taken: BOOLEAN]
Account == [status: {"active", "pending"}, role: PlatformRoles]

SignUps == {"register", "oauth"}
Ops == [kind: {"create"}, email: Emails, role: PlatformRoles]
           \cup [kind: {"redeem"}, email: Emails, token: 1..MaxTokens]
           \cup [kind: SignUps \cup {"bootstrap"}, email: Emails]
           \cup [kind: {"resend", "revoke", "sweep"}]

Administrator == [status |-> "active", role |-> "admin"]

ASSUME InvitesAssumption ==
    /\ Sweeper \notin Requests
    /\ IsFiniteSet(Invites)
    /\ MaxTokens \in Nat
    /\ Free \notin Tasks
    /\ NoInvite \notin Invite
    /\ NoAccount \notin Account
    /\ NoOp \notin Ops

-----------------------------------------------------------------------------
Open(e) == {i \in Invites :
    invites[i] # NoInvite /\ invites[i].email = e /\ invites[i].status = "pending"}

\* The INSERT into users waits for one of the same address to end.
KeyFree(r) == \A q \in Tasks \ {r} :
    pc[q] \in {"update", "commit"} /\ draft[q] # NoAccount => op[q].email # op[r].email

\* (mutant) SELECT without FOR UPDATE waits for nobody.
ReadWithoutLock(i) == TRUE

\* SELECT ... FOR UPDATE waits until the row is nobody's.
Lockable(i) == lock[i] = Free

End(r) ==
    /\ pc' = [pc EXCEPT ![r] = "idle"]
    /\ op' = [op EXCEPT ![r] = NoOp]
    /\ found' = [found EXCEPT ![r] = {}]
    /\ draft' = [draft EXCEPT ![r] = NoAccount]
    /\ lock' = [i \in Invites |-> IF lock[i] = r THEN Free ELSE lock[i]]

Fail(r) == End(r) /\ UNCHANGED <<invites, accounts, issued>>

Start(r, o, step) ==
    /\ pc[r] = "idle"
    /\ op' = [op EXCEPT ![r] = o]
    /\ pc' = [pc EXCEPT ![r] = step]

\* lifespan seeds the administrators, and goes on without them when it fails.
Init ==
    /\ invites = [i \in Invites |-> NoInvite]
    /\ \E seeded \in {Seeded, {}} :
          accounts = [e \in Emails |-> IF e \in seeded THEN Administrator ELSE NoAccount]
    /\ issued = 0
    /\ pc = [r \in Tasks |-> "idle"]
    /\ op = [r \in Tasks |-> NoOp]
    /\ found = [r \in Tasks |-> {}]
    /\ draft = [r \in Tasks |-> NoAccount]
    /\ lock = [i \in Invites |-> Free]

-----------------------------------------------------------------------------
(* create_invites, for one address, on behalf of a platform administrator *)

CreateReadsUser(r) ==
    /\ \E a \in Emails : accounts[a] = Administrator
    /\ \E e \in Emails, x \in PlatformRoles :
        /\ accounts[e] = NoAccount
        /\ Start(r, [kind |-> "create", email |-> e, role |-> x], "open")
    /\ UNCHANGED <<invites, accounts, issued, found, draft, lock>>

CreateReadsInvites(r) ==
    /\ pc[r] = "open" /\ op[r].kind = "create"
    /\ IF Open(op[r].email) = {}
       THEN /\ pc' = [pc EXCEPT ![r] = "insert"]
            /\ UNCHANGED <<invites, accounts, issued, op, found, draft, lock>>
       ELSE Fail(r)

CreateCommits(r) ==
    /\ pc[r] = "insert" /\ op[r].kind = "create"
    /\ issued < MaxTokens
    /\ \E i \in Invites :
        /\ invites[i] = NoInvite
        /\ invites' = [invites EXCEPT ![i] =
              [email |-> op[r].email, role |-> op[r].role, status |-> "pending",
               token |-> issued + 1, overdue |-> FALSE, taken |-> FALSE]]
    /\ issued' = issued + 1
    /\ End(r)
    /\ UNCHANGED accounts

-----------------------------------------------------------------------------
(* redeem_invite *)

\* SELECT ... FOR UPDATE by the hash of the link, and the checks of the row
RedeemLocks(r) ==
    /\ \E i \in Invites, e \in Emails, t \in 1..issued :
        /\ invites[i] # NoInvite /\ invites[i].token = t
        /\ Lockable(i)
        /\ invites[i].email = e
        /\ invites[i].status = "pending" /\ ~invites[i].overdue
        /\ lock' = [lock EXCEPT ![i] = r]
        /\ found' = [found EXCEPT ![r] = {i}]
        /\ draft' = [draft EXCEPT ![r] = [status |-> "active", role |-> invites[i].role]]
        /\ Start(r, [kind |-> "redeem", email |-> e, token |-> t], "insert")
    /\ UNCHANGED <<invites, accounts, issued>>

-----------------------------------------------------------------------------
(* register_user and resolve_identity, for an address without an account *)

SignUpReadsUser(r) ==
    /\ \E e \in Emails, k \in SignUps :
        /\ accounts[e] = NoAccount
        /\ Start(r, [kind |-> k, email |-> e], "open")
    /\ UNCHANGED <<invites, accounts, issued, found, draft, lock>>

\* More than one open invitation is an error to scalar_one_or_none.
SignUpReadsInvite(r) ==
    LET open == Open(op[r].email) IN
    /\ pc[r] = "open" /\ op[r].kind \in SignUps
    /\ IF Cardinality(open) > 1 THEN Fail(r)
       ELSE /\ pc' = [pc EXCEPT ![r] = "decide"]
            /\ found' = [found EXCEPT ![r] = open]
            /\ UNCHANGED <<invites, accounts, issued, op, draft, lock>>

\* (mutant) An invitation lets in, as a plain member.
InvitedRoleForgotten(r) == "member"

\* (mutant) The wrong column of the invitation
InvitedStatus(r) == invites[CHOOSE i \in found[r] : TRUE].status

InvitedRole(r) == invites[CHOOSE i \in found[r] : TRUE].role

\* Only resolve_identity counts the users and makes the first an administrator.
First(r) == op[r].kind = "oauth" /\ \A e \in Emails : accounts[e] = NoAccount

Decide(r) ==
    /\ pc[r] = "decide"
    /\ draft' = [draft EXCEPT ![r] =
          IF First(r) THEN Administrator
          ELSE IF found[r] # {} THEN [status |-> "active", role |-> InvitedRole(r)]
          ELSE IF op[r].email \in AutoApproved THEN [status |-> "active", role |-> "member"]
          ELSE [status |-> "pending", role |-> "member"]]
    /\ op' = [op EXCEPT ![r].kind = IF First(r) THEN "bootstrap" ELSE @]
    /\ pc' = [pc EXCEPT ![r] = "insert"]
    /\ UNCHANGED <<invites, accounts, issued, found, lock>>

\* All that insert an account: redeem_invite, register_user, resolve_identity.
Admits(r) == op[r] # NoOp /\ op[r].kind \in SignUps \cup {"redeem", "bootstrap"}

InsertUser(r) ==
    /\ pc[r] = "insert" /\ Admits(r)
    /\ KeyFree(r) /\ accounts[op[r].email] = NoAccount
    /\ pc' = [pc EXCEPT ![r] = IF found[r] = {} THEN "commit" ELSE "update"]
    /\ UNCHANGED <<invites, accounts, issued, op, found, draft, lock>>

\* IntegrityError: the address has an account by now.
InsertFails(r) ==
    /\ pc[r] = "insert" /\ Admits(r)
    /\ KeyFree(r) /\ accounts[op[r].email] # NoAccount
    /\ Fail(r)

-----------------------------------------------------------------------------
(* resend_invite, revoke_invite and sweep_expired_invites *)

AdminReads(r) ==
    /\ \E i \in Invites, k \in {"resend", "revoke"} :
        /\ invites[i] # NoInvite /\ invites[i].status = "pending"
        /\ found' = [found EXCEPT ![r] = {i}]
        /\ Start(r, [kind |-> k], "update")
    /\ UNCHANGED <<invites, accounts, issued, draft, lock>>

Overdue == {i \in Invites :
    invites[i] # NoInvite /\ invites[i].status = "pending" /\ invites[i].overdue}

SweepReads ==
    /\ Overdue # {}
    /\ found' = [found EXCEPT ![Sweeper] = Overdue]
    /\ Start(Sweeper, [kind |-> "sweep"], "update")
    /\ UNCHANGED <<invites, accounts, issued, draft, lock>>

-----------------------------------------------------------------------------
\* The UPDATE of the user_invites rows, by primary key, whatever they hold now
UpdateInvites(r) ==
    /\ pc[r] = "update"
    /\ \A i \in found[r] : lock[i] \in {Free, r}
    /\ op[r].kind = "resend" => issued < MaxTokens
    /\ lock' = [i \in Invites |-> IF i \in found[r] THEN r ELSE lock[i]]
    /\ pc' = [pc EXCEPT ![r] = "commit"]
    /\ UNCHANGED <<invites, accounts, issued, op, found, draft>>

\* The columns a task writes in a row it has found
Written(r, row) ==
    CASE op[r].kind \in SignUps \cup {"redeem"} ->
            [row EXCEPT !.status = "accepted", !.taken = TRUE]
      [] op[r].kind = "bootstrap" -> [row EXCEPT !.taken = TRUE]
      [] op[r].kind = "resend" -> [row EXCEPT !.token = issued + 1, !.overdue = FALSE]
      [] op[r].kind = "revoke" -> [row EXCEPT !.status = "revoked"]
      [] op[r].kind = "sweep" -> [row EXCEPT !.status = "expired"]

Commit(r) ==
    /\ pc[r] = "commit"
    /\ invites' = [i \in Invites |->
          IF i \in found[r] THEN Written(r, invites[i]) ELSE invites[i]]
    /\ accounts' = IF Admits(r) THEN [accounts EXCEPT ![op[r].email] = draft[r]] ELSE accounts
    /\ op[r].kind = "resend" => issued < MaxTokens
    /\ issued' = IF op[r].kind = "resend" THEN issued + 1 ELSE issued
    /\ End(r)

\* The connection, the database or its deadlock detector ends the transaction.
Abort(r) == pc[r] # "idle" /\ Fail(r)

TimePasses ==
    /\ \E i \in Invites :
        /\ invites[i] # NoInvite /\ ~invites[i].overdue
        /\ invites' = [invites EXCEPT ![i].overdue = TRUE]
    /\ UNCHANGED <<accounts, issued, pc, op, found, draft, lock>>

RequestStep(r) ==
    \/ CreateReadsUser(r) \/ CreateReadsInvites(r) \/ CreateCommits(r)
    \/ RedeemLocks(r)
    \/ SignUpReadsUser(r) \/ SignUpReadsInvite(r) \/ Decide(r)
    \/ InsertUser(r) \/ InsertFails(r)
    \/ AdminReads(r)
    \/ UpdateInvites(r) \/ Commit(r) \/ Abort(r)

Next ==
    \/ \E r \in Requests : RequestStep(r)
    \/ SweepReads \/ UpdateInvites(Sweeper) \/ Commit(Sweeper) \/ Abort(Sweeper)
    \/ TimePasses

Spec == Init /\ [][Next]_vars

-----------------------------------------------------------------------------
(* Properties *)

Steps == {"idle", "open", "decide", "insert", "update", "commit"}
TypeOK ==
    /\ invites \in [Invites -> Invite \cup {NoInvite}]
    /\ accounts \in [Emails -> Account \cup {NoAccount}]
    /\ issued \in 0..MaxTokens
    /\ pc \in [Tasks -> Steps]
    /\ op \in [Tasks -> Ops \cup {NoOp}]
    /\ found \in [Tasks -> SUBSET Invites]
    /\ draft \in [Tasks -> Account \cup {NoAccount}]
    /\ lock \in [Invites -> Tasks \cup {Free}]
    /\ \A r \in Tasks : pc[r] # "idle" => op[r] # NoOp

\* A link that redeem_invite accepts is, until the account exists, the last one
\* issued for an invitation that is still pending: no resend, revocation, sweep
\* or second redemption slips between its check and its commit.
RedeemsLiveLink ==
    [][\A r \in Requests : Commit(r) /\ op[r].kind = "redeem" =>
        \A i \in found[r] : invites[i].status = "pending" /\ invites[i].token = op[r].token]_vars

\* An invitation marked accepted has let its address in: the account exists, is
\* active and has the platform role the administrator chose.
AcceptedLetIn ==
    \A i \in Invites : invites[i] # NoInvite /\ invites[i].status = "accepted" =>
        accounts[invites[i].email] = [status |-> "active", role |-> invites[i].role]

\* c8d3e4f5a6b7_v6_user_identity_invites.py:75, "one open invite per email";
\* 9505282eda4d drops the index again.
OneOpenInvite == \A e \in Emails : Cardinality(Open(e)) <= 1
===============================================================================
