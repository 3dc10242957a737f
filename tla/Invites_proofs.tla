---------------------------- MODULE Invites_proofs ----------------------------
(***************************************************************************)
(* TypeOK, RedeemsLiveLink and AcceptedLetIn of Invites, for any addresses, *)
(* invitations and number of concurrent requests.                          *)
(*                                                                         *)
(* RedeemsLiveLink rests on the row lock: whoever commits a row holds its  *)
(* lock, and a redemption holds it from its check on.  AcceptedLetIn rests *)
(* on the index on addresses as well, which lets one task at a time insert. *)
(***************************************************************************)
EXTENDS Invites, FiniteSetTheorems, TLAPS

\* A task finds rows that exist; the kind of a task goes with its step.
FoundInv(r) == \A i \in found[r] : invites[i] # NoInvite
StepInv(r) ==
    /\ pc[r] = "decide" => op[r].kind \in SignUps
    /\ pc[r] \in {"update", "commit"} => op[r].kind # "create"

\* The rows a task is about to commit are its own.
HoldsInv(r) == pc[r] = "commit" => \A i \in found[r] : lock[i] = r

\* So are those of a redemption, which stay as it has checked them.
RedeemInv(r) ==
    pc[r] # "idle" /\ op[r].kind = "redeem" =>
        \A i \in found[r] :
            /\ lock[i] = r
            /\ invites[i].status = "pending"
            /\ invites[i].token = op[r].token

TaskInv(r) == FoundInv(r) /\ StepInv(r) /\ HoldsInv(r) /\ RedeemInv(r)

IInv == TypeOK /\ \A r \in Tasks : TaskInv(r)
-----------------------------------------------------------------------------
\* The row a commit leaves is an invitation again.
LEMMA WrittenType ==
    ASSUME TypeOK, NEW r \in Tasks, NEW row \in Invite,
           op[r] # NoOp, op[r].kind # "create",
           op[r].kind = "resend" => issued < MaxTokens
    PROVE  /\ Written(r, row) \in Invite
           /\ Written(r, row).email = row.email /\ Written(r, row).role = row.role
<1>1. CASE op[r].kind \in SignUps \cup {"redeem"}
  <2>1. Written(r, row) = [row EXCEPT !.status = "accepted", !.taken = TRUE]
    BY <1>1 DEF Written, SignUps
  <2>2. QED
    BY <2>1 DEF Invite, Statuses
<1>2. CASE op[r].kind = "bootstrap"
  <2>1. Written(r, row) = [row EXCEPT !.taken = TRUE]
    BY <1>2 DEF Written, SignUps
  <2>2. QED
    BY <2>1 DEF Invite
<1>3. CASE op[r].kind = "resend"
  <2>1. Written(r, row) = [row EXCEPT !.token = issued + 1, !.overdue = FALSE]
    BY <1>3 DEF Written, SignUps
  <2>2. issued + 1 \in 1..MaxTokens
    BY <1>3, InvitesAssumption DEF TypeOK
  <2>3. QED
    BY <2>1, <2>2 DEF Invite
<1>4. CASE op[r].kind = "revoke"
  <2>1. Written(r, row) = [row EXCEPT !.status = "revoked"]
    BY <1>4 DEF Written, SignUps
  <2>2. QED
    BY <2>1 DEF Invite, Statuses
<1>5. CASE op[r].kind = "sweep"
  <2>1. Written(r, row) = [row EXCEPT !.status = "expired"]
    BY <1>5 DEF Written, SignUps
  <2>2. QED
    BY <2>1 DEF Invite, Statuses
<1>6. QED
  BY <1>1, <1>2, <1>3, <1>4, <1>5 DEF TypeOK, Ops, SignUps
\* What ends a task, well or badly, keeps the types.
LEMMA EndType ==
    ASSUME TypeOK, NEW r \in Tasks, End(r)
    PROVE  /\ pc' \in [Tasks -> Steps]
           /\ op' \in [Tasks -> Ops \cup {NoOp}]
           /\ found' \in [Tasks -> SUBSET Invites]
           /\ draft' \in [Tasks -> Account \cup {NoAccount}]
           /\ lock' \in [Invites -> Tasks \cup {Free}]
           /\ \A q \in Tasks : pc'[q] # "idle" => op'[q] # NoOp
  BY DEF TypeOK, End, Steps

LEMMA FailType == ASSUME TypeOK, NEW r \in Tasks, Fail(r) PROVE TypeOK'
  BY EndType DEF Fail, TypeOK

\* So does what begins one.
LEMMA StartType ==
    ASSUME TypeOK, NEW r \in Tasks, NEW o \in Ops, NEW step \in Steps, Start(r, o, step)
    PROVE  /\ pc' \in [Tasks -> Steps]
           /\ op' \in [Tasks -> Ops \cup {NoOp}]
           /\ \A q \in Tasks : pc'[q] # "idle" => op'[q] # NoOp
  BY InvitesAssumption DEF TypeOK, Start

LEMMA CommitType ==
    ASSUME IInv, NEW r \in Tasks, Commit(r)
    PROVE  TypeOK'
<1>1. pc[r] = "commit" /\ op[r] \in Ops /\ op[r].kind # "create"
  BY DEF Commit, IInv, TaskInv, StepInv, TypeOK
<1>2. op[r] # NoOp
  BY <1>1, InvitesAssumption
<1>3. invites' \in [Invites -> Invite \cup {NoInvite}]
  <2>1. ASSUME NEW i \in found[r] PROVE Written(r, invites[i]) \in Invite
    <3>1. invites[i] \in Invite
      BY DEF IInv, TaskInv, FoundInv, TypeOK
    <3>2. op[r].kind = "resend" => issued < MaxTokens
      BY DEF Commit
    <3>3. QED
      BY <1>1, <1>2, <3>1, <3>2, WrittenType DEF IInv
  <2>2. invites' = [i \in Invites |->
            IF i \in found[r] THEN Written(r, invites[i]) ELSE invites[i]]
    BY DEF Commit
  <2>3. QED
    BY <2>1, <2>2 DEF IInv, TypeOK
<1>4. accounts' \in [Emails -> Account \cup {NoAccount}]
  <2>1. accounts' = accounts \/ accounts' = [accounts EXCEPT ![op[r].email] = draft[r]]
    BY DEF Commit
  <2>2. QED
    BY <2>1 DEF IInv, TypeOK
<1>5. issued' \in 0..MaxTokens
  BY InvitesAssumption DEF Commit, IInv, TypeOK
<1>6. End(r)
  BY DEF Commit
<1>7. QED
  BY <1>3, <1>4, <1>5, <1>6, EndType DEF IInv, TypeOK

\* Every step keeps the types.
LEMMA TypeStep == ASSUME IInv, [Next]_vars PROVE TypeOK'
<1> USE DEF IInv
<1>1. ASSUME NEW r \in Requests, CreateReadsUser(r) PROVE TypeOK'
  <2>1. PICK o \in Ops : Start(r, o, "open")
    BY <1>1 DEF CreateReadsUser, Ops
  <2>2. UNCHANGED <<invites, accounts, issued, found, draft, lock>>
    BY <1>1 DEF CreateReadsUser
  <2>3. QED
    BY <2>1, <2>2, StartType DEF Tasks, TypeOK, Steps
<1>2. ASSUME NEW r \in Requests, CreateReadsInvites(r) PROVE TypeOK'
  <2>1. CASE Fail(r)
    BY <2>1, FailType DEF Tasks
  <2>2. CASE ~Fail(r)
    BY <1>2, <2>2 DEF CreateReadsInvites, TypeOK, Tasks, Steps
  <2>3. QED
    BY <2>1, <2>2
<1>3. ASSUME NEW r \in Requests, CreateCommits(r) PROVE TypeOK'
  <2>1. pc[r] = "insert" /\ op[r].kind = "create" /\ issued < MaxTokens /\ End(r) /\ r \in Tasks
    BY <1>3 DEF CreateCommits, Tasks
  <2>2. op[r] \in Ops
    BY <2>1 DEF TypeOK
  <2>3. op[r].email \in Emails /\ op[r].role \in PlatformRoles
    BY <2>1, <2>2 DEF Ops, SignUps
  <2>4. issued + 1 \in 1..MaxTokens
    BY <2>1, InvitesAssumption DEF TypeOK
  <2> DEFINE row == [email |-> op[r].email, role |-> op[r].role, status |-> "pending",
                     token |-> issued + 1, overdue |-> FALSE, taken |-> FALSE]
  <2>5. row \in Invite
    BY <2>3, <2>4 DEF Invite, Statuses
  <2>6. PICK i \in Invites : invites' = [invites EXCEPT ![i] = row]
    BY <1>3 DEF CreateCommits
  <2> HIDE DEF row
  <2>7. invites' \in [Invites -> Invite \cup {NoInvite}]
    BY <2>5, <2>6 DEF TypeOK
  <2>8. issued' \in 0..MaxTokens /\ accounts' = accounts
    BY <1>3, <2>4, InvitesAssumption DEF CreateCommits
  <2>9. QED
    BY <2>1, <2>7, <2>8, EndType DEF TypeOK
<1>4. ASSUME NEW r \in Requests, RedeemLocks(r) PROVE TypeOK'
  <2>1. PICK i \in Invites, e \in Emails, t \in 1..issued :
          /\ invites[i] # NoInvite
          /\ lock' = [lock EXCEPT ![i] = r]
          /\ found' = [found EXCEPT ![r] = {i}]
          /\ draft' = [draft EXCEPT ![r] = [status |-> "active", role |-> invites[i].role]]
          /\ Start(r, [kind |-> "redeem", email |-> e, token |-> t], "insert")
    BY <1>4 DEF RedeemLocks
  <2>2. t \in 1..MaxTokens
    BY InvitesAssumption DEF TypeOK
  <2>3. [kind |-> "redeem", email |-> e, token |-> t] \in Ops
    BY <2>2 DEF Ops
  <2>4. [status |-> "active", role |-> invites[i].role] \in Account
    BY <2>1 DEF TypeOK, Invite, Account
  <2>5. /\ lock' \in [Invites -> Tasks \cup {Free}]
        /\ found' \in [Tasks -> SUBSET Invites]
        /\ draft' \in [Tasks -> Account \cup {NoAccount}]
    BY <2>1, <2>4 DEF TypeOK, Tasks
  <2>6. UNCHANGED <<invites, accounts, issued>>
    BY <1>4 DEF RedeemLocks
  <2>7. QED
    BY <2>1, <2>3, <2>5, <2>6, StartType DEF Tasks, TypeOK, Steps
<1>5. ASSUME NEW r \in Requests, SignUpReadsUser(r) PROVE TypeOK'
  <2>1. PICK o \in Ops : Start(r, o, "open")
    BY <1>5 DEF SignUpReadsUser, Ops
  <2>2. UNCHANGED <<invites, accounts, issued, found, draft, lock>>
    BY <1>5 DEF SignUpReadsUser
  <2>3. QED
    BY <2>1, <2>2, StartType DEF Tasks, TypeOK, Steps
<1>6. ASSUME NEW r \in Requests, SignUpReadsInvite(r) PROVE TypeOK'
  <2>1. CASE Fail(r)
    BY <2>1, FailType DEF Tasks
  <2>2. CASE ~Fail(r)
    BY <1>6, <2>2 DEF SignUpReadsInvite, TypeOK, Tasks, Steps, Open
  <2>3. QED
    BY <2>1, <2>2
<1>7. ASSUME NEW r \in Requests, Decide(r) PROVE TypeOK'
  <2>1. pc[r] = "decide" /\ r \in Tasks
    BY <1>7 DEF Decide, Tasks
  <2>2. op[r] \in Ops /\ op[r].kind \in SignUps
    BY <2>1 DEF TypeOK, TaskInv, StepInv
  <2>3. op[r] \in [kind: SignUps \cup {"bootstrap"}, email: Emails]
    BY <2>2 DEF Ops, SignUps
  <2>4. PICK k \in SignUps \cup {"bootstrap"} : op' = [op EXCEPT ![r].kind = k]
    BY <1>7, <2>2 DEF Decide
  <2>5. [op[r] EXCEPT !.kind = k] \in Ops
    BY <2>3 DEF Ops
  <2>6. op' \in [Tasks -> Ops \cup {NoOp}] /\ op'[r] # NoOp
    BY <2>1, <2>4, <2>5, InvitesAssumption DEF TypeOK
  <2>7. found[r] # {} => InvitedRole(r) \in PlatformRoles
    BY <2>1 DEF TypeOK, TaskInv, FoundInv, InvitedRole, Invite
  <2>8. draft' \in [Tasks -> Account \cup {NoAccount}]
    <3> DEFINE a == IF First(r) THEN Administrator
                    ELSE IF found[r] # {} THEN [status |-> "active", role |-> InvitedRole(r)]
                    ELSE IF op[r].email \in AutoApproved
                         THEN [status |-> "active", role |-> "member"]
                    ELSE [status |-> "pending", role |-> "member"]
    <3>1. a \in Account
      BY <2>7 DEF Account, PlatformRoles, Administrator
    <3>2. draft' = [draft EXCEPT ![r] = a]
      BY <1>7 DEF Decide
    <3> HIDE DEF a
    <3>3. QED
      BY <3>1, <3>2 DEF TypeOK
  <2>9. QED
    BY <1>7, <2>1, <2>4, <2>6, <2>8 DEF Decide, TypeOK, Steps
<1>8. ASSUME NEW r \in Requests, InsertUser(r) PROVE TypeOK'
  BY <1>8 DEF InsertUser, TypeOK, Tasks, Steps
<1>9. ASSUME NEW r \in Requests, AdminReads(r) PROVE TypeOK'
  <2>1. PICK i \in Invites, k \in {"resend", "revoke"} :
          found' = [found EXCEPT ![r] = {i}] /\ Start(r, [kind |-> k], "update")
    BY <1>9 DEF AdminReads
  <2>2. [kind |-> k] \in Ops
    BY DEF Ops
  <2>3. found' \in [Tasks -> SUBSET Invites]
    BY <2>1 DEF TypeOK
  <2>4. UNCHANGED <<invites, accounts, issued, draft, lock>>
    BY <1>9 DEF AdminReads
  <2>5. QED
    BY <2>1, <2>2, <2>3, <2>4, StartType DEF Tasks, TypeOK, Steps
<1>10. CASE SweepReads
  <2>1. [kind |-> "sweep"] \in Ops
    BY DEF Ops
  <2>2. found' \in [Tasks -> SUBSET Invites]
    BY <1>10 DEF SweepReads, TypeOK, Overdue
  <2>3. /\ Start(Sweeper, [kind |-> "sweep"], "update")
        /\ UNCHANGED <<invites, accounts, issued, draft, lock>>
    BY <1>10 DEF SweepReads
  <2>4. QED
    BY <2>1, <2>2, <2>3, StartType DEF Tasks, TypeOK, Steps
<1>11. ASSUME NEW r \in Tasks, UpdateInvites(r) PROVE TypeOK'
  BY <1>11 DEF UpdateInvites, TypeOK, Steps
<1>12. ASSUME NEW r \in Tasks, Fail(r) PROVE TypeOK'
  BY <1>12, FailType
<1>13. ASSUME NEW r \in Tasks, Commit(r) PROVE TypeOK'
  BY <1>13, CommitType
<1>14. CASE TimePasses
  <2>1. PICK i \in Invites :
          invites[i] # NoInvite /\ invites' = [invites EXCEPT ![i].overdue = TRUE]
    BY <1>14 DEF TimePasses
  <2>2. [invites[i] EXCEPT !.overdue = TRUE] \in Invite
    BY <2>1 DEF TypeOK, Invite
  <2>3. invites' \in [Invites -> Invite \cup {NoInvite}]
    BY <2>1, <2>2 DEF TypeOK
  <2>4. QED
    BY <1>14, <2>3 DEF TimePasses, TypeOK
<1>15. CASE UNCHANGED vars
  BY <1>15 DEF vars, TypeOK
<1>16. QED
  BY <1>1, <1>2, <1>3, <1>4, <1>5, <1>6, <1>7, <1>8, <1>9, <1>10, <1>11, <1>12, <1>13, <1>14, <1>15
  DEF Next, RequestStep, InsertFails, Abort, Tasks
-----------------------------------------------------------------------------
\* What the steps of others, and time, leave to task r: its own state, the rows
\* it holds, and those rows but for their age.
Undisturbed(r) ==
    /\ pc'[r] = pc[r] /\ op'[r] = op[r] /\ found'[r] = found[r]
    /\ \A i \in Invites : lock[i] = r => lock'[i] = r
    /\ \A i \in Invites : invites[i] # NoInvite => invites'[i] # NoInvite
    /\ \A i \in Invites : lock[i] = r /\ invites[i] # NoInvite =>
          invites'[i].status = invites[i].status /\ invites'[i].token = invites[i].token

LEMMA UndisturbedKeeps ==
    ASSUME TypeOK, NEW r \in Tasks, TaskInv(r), Undisturbed(r)
    PROVE  TaskInv(r)'
<1>1. found[r] \subseteq Invites
  BY DEF TypeOK
<1>2. FoundInv(r)' /\ StepInv(r)'
  BY <1>1 DEF TaskInv, FoundInv, StepInv, Undisturbed
<1>3. HoldsInv(r)'
  BY <1>1 DEF TaskInv, HoldsInv, Undisturbed
<1>4. RedeemInv(r)'
  BY <1>1 DEF TaskInv, RedeemInv, FoundInv, Undisturbed
<1>5. QED
  BY <1>2, <1>3, <1>4 DEF TaskInv

\* The actions of one task that touch no row.
Local(q) ==
    /\ UNCHANGED invites
    /\ \A r \in Tasks \ {q} : pc'[r] = pc[r] /\ op'[r] = op[r] /\ found'[r] = found[r]
    /\ \A i \in Invites : lock[i] # q /\ lock[i] # Free => lock'[i] = lock[i]

LEMMA StepIsLocal ==
    ASSUME IInv, NEW q \in Tasks,
           \/ CreateReadsUser(q) \/ CreateReadsInvites(q) \/ RedeemLocks(q)
           \/ SignUpReadsUser(q) \/ SignUpReadsInvite(q) \/ Decide(q)
           \/ InsertUser(q) \/ InsertFails(q) \/ AdminReads(q)
           \/ UpdateInvites(q) \/ Abort(q) \/ (SweepReads /\ q = Sweeper)
    PROVE  Local(q)
<1> USE DEF IInv
<1>1. ASSUME Fail(q) PROVE Local(q)
  BY <1>1 DEF Fail, End, Local, TypeOK
<1>2. CASE RedeemLocks(q)
  BY <1>2 DEF RedeemLocks, Lockable, Start, Local, TypeOK
<1>3. CASE UpdateInvites(q)
  BY <1>3 DEF UpdateInvites, Local, TypeOK
<1>4. CASE CreateReadsUser(q) \/ SignUpReadsUser(q) \/ AdminReads(q) \/ (SweepReads /\ q = Sweeper)
  <2>1. \E o, s : Start(q, o, s)
    BY <1>4 DEF CreateReadsUser, SignUpReadsUser, AdminReads, SweepReads
  <2>2. /\ UNCHANGED <<invites, lock>>
        /\ \A r \in Tasks \ {q} : found'[r] = found[r]
    BY <1>4 DEF CreateReadsUser, SignUpReadsUser, AdminReads, SweepReads, TypeOK
  <2>3. QED
    BY <2>1, <2>2 DEF Start, Local, TypeOK
<1>5. CASE (CreateReadsInvites(q) \/ SignUpReadsInvite(q)) /\ ~Fail(q)
  BY <1>5 DEF CreateReadsInvites, SignUpReadsInvite, Local, TypeOK
<1>6. CASE Decide(q)
  BY <1>6 DEF Decide, Local, TypeOK
<1>7. CASE InsertUser(q)
  BY <1>7 DEF InsertUser, Local, TypeOK
<1>8. QED
  BY <1>1, <1>2, <1>3, <1>4, <1>5, <1>6, <1>7 DEF InsertFails, Abort

LEMMA LocalUndisturbed ==
    ASSUME IInv, NEW r \in Tasks, NEW q \in Tasks, q # r, Local(q)
    PROVE  Undisturbed(r)
  BY InvitesAssumption DEF IInv, TypeOK, Local, Undisturbed

\* A commit changes only rows the task holds, which are nobody else's.
LEMMA CommitUndisturbed ==
    ASSUME IInv, NEW r \in Tasks, NEW q \in Tasks, q # r, Commit(q)
    PROVE  Undisturbed(r)
<1>1. \A i \in found[q] : lock[i] = q
  BY DEF Commit, IInv, TaskInv, HoldsInv
<1>2. invites' = [i \in Invites |->
          IF i \in found[q] THEN Written(q, invites[i]) ELSE invites[i]]
  BY DEF Commit
<1>3. \A i \in Invites : lock[i] = r => invites'[i] = invites[i] /\ lock'[i] = r
  BY <1>1, <1>2 DEF Commit, End
<1>4. ASSUME NEW i \in Invites, invites[i] # NoInvite PROVE invites'[i] # NoInvite
  <2>1. CASE i \in found[q]
    <3>1. invites[i] \in Invite /\ pc[q] = "commit"
      BY <1>4 DEF Commit, IInv, TypeOK
    <3>2. op[q].kind # "create" /\ op[q] # NoOp
      BY <3>1 DEF IInv, TypeOK, TaskInv, StepInv
    <3>3. Written(q, invites[i]) \in Invite
      BY <3>1, <3>2, WrittenType DEF Commit, IInv
    <3>4. QED
      BY <1>2, <2>1, <3>3, InvitesAssumption
  <2>2. CASE i \notin found[q]
    BY <1>2, <1>4, <2>2
  <2>3. QED
    BY <2>1, <2>2
<1>5. pc'[r] = pc[r] /\ op'[r] = op[r] /\ found'[r] = found[r]
  BY DEF Commit, End, IInv, TypeOK
<1>6. QED
  BY <1>3, <1>4, <1>5 DEF Undisturbed

LEMMA CreateCommitsUndisturbed ==
    ASSUME IInv, NEW r \in Tasks, NEW q \in Tasks, q # r, CreateCommits(q)
    PROVE  Undisturbed(r)
<1>1. PICK i \in Invites, row \in [email: {op[q].email}, role: {op[q].role}, status: {"pending"},
            token: {issued + 1}, overdue: {FALSE}, taken: {FALSE}] :
        invites[i] = NoInvite /\ invites' = [invites EXCEPT ![i] = row]
  BY DEF CreateCommits
<1>2. \A j \in Invites : invites[j] # NoInvite => invites'[j] = invites[j]
  BY <1>1 DEF IInv, TypeOK
<1>3. /\ pc'[r] = pc[r] /\ op'[r] = op[r] /\ found'[r] = found[r]
      /\ \A j \in Invites : lock[j] = r => lock'[j] = r
  BY DEF CreateCommits, End, IInv, TypeOK
<1>4. QED
  BY <1>2, <1>3 DEF Undisturbed

LEMMA TimeUndisturbed ==
    ASSUME IInv, NEW r \in Tasks, TimePasses
    PROVE  Undisturbed(r)
<1>1. PICK i \in Invites :
        invites[i] # NoInvite /\ invites' = [invites EXCEPT ![i].overdue = TRUE]
  BY DEF TimePasses
<1>2. invites[i] \in Invite /\ [invites[i] EXCEPT !.overdue = TRUE] \in Invite
  BY <1>1 DEF IInv, TypeOK, Invite
<1>3. [invites[i] EXCEPT !.overdue = TRUE] # NoInvite
  BY <1>2, InvitesAssumption
<1>4. \A j \in Invites : invites[j] # NoInvite =>
        /\ invites'[j] # NoInvite
        /\ invites'[j].status = invites[j].status /\ invites'[j].token = invites[j].token
  BY <1>1, <1>2, <1>3 DEF IInv, TypeOK, Invite
<1>5. QED
  BY <1>4 DEF TimePasses, Undisturbed

-----------------------------------------------------------------------------
\* A task that has ended holds nothing.
LEMMA EndKeeps == ASSUME TypeOK, NEW r \in Tasks, End(r) PROVE TaskInv(r)'
  BY DEF TypeOK, End, TaskInv, FoundInv, StepInv, HoldsInv, RedeemInv

\* The first step of a task.
LEMMA StartKeeps ==
    ASSUME IInv, NEW r \in Tasks,
           \/ CreateReadsUser(r) \/ SignUpReadsUser(r) \/ RedeemLocks(r)
           \/ AdminReads(r) \/ (SweepReads /\ r = Sweeper)
    PROVE  TaskInv(r)'
<1> USE DEF IInv, TypeOK
<1>1. CASE CreateReadsUser(r) \/ SignUpReadsUser(r)
  <2>1. PICK o \in Ops :
          /\ o.kind \notin {"redeem"}
          /\ pc' = [pc EXCEPT ![r] = "open"] /\ op' = [op EXCEPT ![r] = o]
    BY <1>1 DEF CreateReadsUser, SignUpReadsUser, Start, Ops, SignUps
  <2>2. UNCHANGED <<invites, found>>
    BY <1>1 DEF CreateReadsUser, SignUpReadsUser
  <2>3. QED
    BY <2>1, <2>2 DEF TaskInv, FoundInv, StepInv, HoldsInv, RedeemInv
<1>2. CASE RedeemLocks(r)
  <2>1. PICK i \in Invites, e \in Emails, t \in 1..issued :
          /\ invites[i] # NoInvite /\ invites[i].token = t /\ invites[i].status = "pending"
          /\ lock' = [lock EXCEPT ![i] = r]
          /\ found' = [found EXCEPT ![r] = {i}]
          /\ Start(r, [kind |-> "redeem", email |-> e, token |-> t], "insert")
          /\ UNCHANGED invites
    BY <1>2 DEF RedeemLocks
  <2>2. /\ found'[r] = {i} /\ lock'[i] = r /\ pc'[r] = "insert"
        /\ op'[r] = [kind |-> "redeem", email |-> e, token |-> t]
    BY <2>1 DEF Start
  <2>3. QED
    BY <2>1, <2>2 DEF TaskInv, FoundInv, StepInv, HoldsInv, RedeemInv
<1>3. CASE AdminReads(r)
  <2>1. PICK i \in Invites, k \in {"resend", "revoke"} :
          /\ invites[i] # NoInvite /\ UNCHANGED invites
          /\ found' = [found EXCEPT ![r] = {i}] /\ Start(r, [kind |-> k], "update")
    BY <1>3 DEF AdminReads
  <2>2. found'[r] = {i} /\ pc'[r] = "update" /\ op'[r] = [kind |-> k]
    BY <2>1 DEF Start
  <2>3. QED
    BY <2>1, <2>2 DEF TaskInv, FoundInv, StepInv, HoldsInv, RedeemInv
<1>4. CASE SweepReads /\ r = Sweeper
  <2>1. found'[r] = Overdue /\ UNCHANGED invites
    BY <1>4 DEF SweepReads
  <2>2. pc'[r] = "update" /\ op'[r] = [kind |-> "sweep"]
    BY <1>4 DEF SweepReads, Start
  <2>3. QED
    BY <2>1, <2>2 DEF TaskInv, FoundInv, StepInv, HoldsInv, RedeemInv, Overdue
<1>5. QED
  BY <1>1, <1>2, <1>3, <1>4

\* The steps from there to the commit.
LEMMA MiddleKeeps ==
    ASSUME IInv, NEW r \in Tasks,
           \/ (CreateReadsInvites(r) /\ ~Fail(r))
           \/ (SignUpReadsInvite(r) /\ ~Fail(r))
           \/ Decide(r) \/ InsertUser(r) \/ UpdateInvites(r)
    PROVE  TaskInv(r)'
<1> USE DEF IInv, TypeOK, TaskInv, FoundInv, StepInv, HoldsInv, RedeemInv
<1>1. CASE CreateReadsInvites(r) /\ ~Fail(r)
  BY <1>1 DEF CreateReadsInvites
<1>2. CASE SignUpReadsInvite(r) /\ ~Fail(r)
  <2>1. /\ pc'[r] = "decide" /\ found'[r] = Open(op[r].email)
        /\ op[r].kind \in SignUps /\ UNCHANGED <<invites, op>>
    BY <1>2 DEF SignUpReadsInvite
  <2>2. QED
    BY <2>1 DEF Open, SignUps
<1>3. CASE Decide(r)
  <2>1. pc'[r] = "insert" /\ UNCHANGED <<invites, found, lock>>
    BY <1>3 DEF Decide
  <2>2. op[r].kind \in SignUps
    BY <1>3 DEF Decide
  <2>3. op'[r].kind # "redeem"
    <3>1. PICK k \in SignUps \cup {"bootstrap"} : op' = [op EXCEPT ![r].kind = k]
      BY <1>3, <2>2 DEF Decide
    <3>2. op'[r] = [op[r] EXCEPT !.kind = k]
      BY <3>1
    <3>3. op[r] \in Ops
      BY <1>3 DEF Decide
    <3>4. op[r] \in [kind: SignUps \cup {"bootstrap"}, email: Emails]
      BY <2>2, <3>3 DEF Ops, SignUps
    <3>5. QED
      BY <3>2, <3>4 DEF SignUps
  <2>4. QED
    BY <2>1, <2>3
<1>4. CASE InsertUser(r)
  <2>1. /\ pc[r] = "insert" /\ op[r].kind # "create"
        /\ UNCHANGED <<invites, op, found, lock>>
        /\ pc'[r] = IF found[r] = {} THEN "commit" ELSE "update"
    BY <1>4 DEF InsertUser, Admits, SignUps
  <2>2. QED
    BY <2>1
<1>5. CASE UpdateInvites(r)
  <2>1. /\ pc[r] = "update" /\ pc'[r] = "commit"
        /\ \A i \in found[r] : lock'[i] = r
        /\ UNCHANGED <<invites, op, found>>
    BY <1>5 DEF UpdateInvites
  <2>2. QED
    BY <2>1
<1>6. QED
  BY <1>1, <1>2, <1>3, <1>4, <1>5

\* The steps of task r.
TaskStep(r) == RequestStep(r) \/ (SweepReads /\ r = Sweeper)

LEMMA OwnStepKeeps ==
    ASSUME IInv, NEW r \in Tasks, TaskStep(r)
    PROVE  TaskInv(r)'
<1>1. CASE Fail(r) \/ Commit(r) \/ CreateCommits(r)
  <2>1. End(r)
    BY <1>1 DEF Fail, Commit, CreateCommits
  <2>2. QED
    BY <2>1, EndKeeps DEF IInv
<1>2. QED
  BY <1>1, StartKeeps, MiddleKeeps DEF TaskStep, RequestStep, InsertFails, Abort

LEMMA OthersUndisturbed ==
    ASSUME IInv, NEW r \in Tasks, NEW q \in Tasks, q # r, TaskStep(q)
    PROVE  Undisturbed(r)
  BY StepIsLocal, LocalUndisturbed, CommitUndisturbed, CreateCommitsUndisturbed
  DEF TaskStep, RequestStep

LEMMA TasksStep == Next => (\E q \in Tasks : TaskStep(q)) \/ TimePasses
<1>1. ASSUME NEW q \in Requests, RequestStep(q) PROVE \E s \in Tasks : TaskStep(s)
  <2>1. q \in Tasks /\ TaskStep(q)
    BY <1>1 DEF TaskStep, Tasks
  <2>2. QED
    BY <2>1
<1>2. ASSUME SweepReads \/ UpdateInvites(Sweeper) \/ Commit(Sweeper) \/ Abort(Sweeper)
      PROVE  TaskStep(Sweeper)
  BY <1>2 DEF TaskStep, RequestStep
<1>3. Sweeper \in Tasks
  BY DEF Tasks
<1>4. QED
  BY <1>1, <1>2, <1>3 DEF Next

LEMMA StepKeepsIInv == IInv /\ [Next]_vars => IInv'
<1>1. SUFFICES ASSUME IInv, [Next]_vars PROVE IInv'
  OBVIOUS
<1>2. TypeOK'
  BY <1>1, TypeStep
<1>3. ASSUME NEW r \in Tasks PROVE TaskInv(r)'
  <2>1. CASE \E q \in Tasks : TaskStep(q)
    BY <1>1, <2>1, OwnStepKeeps, OthersUndisturbed, UndisturbedKeeps DEF IInv
  <2>2. CASE TimePasses
    BY <1>1, <2>2, TimeUndisturbed, UndisturbedKeeps DEF IInv
  <2>3. CASE UNCHANGED vars
    <3>1. Undisturbed(r)
      BY <2>3 DEF vars, Undisturbed
    <3>2. QED
      BY <1>1, <3>1, UndisturbedKeeps DEF IInv
  <2>4. CASE Next
    <3>1. Next => (\E q \in Tasks : TaskStep(q)) \/ TimePasses
      BY TasksStep
    <3>2. QED
      BY <2>1, <2>2, <2>4, <3>1
  <2>5. QED
    BY <1>1, <2>3, <2>4
<1>4. QED
  BY <1>2, <1>3 DEF IInv

LEMMA InitIInv == Init => IInv
<1> SUFFICES ASSUME Init PROVE IInv
  OBVIOUS
<1>1. TypeOK
  <2>1. accounts \in [Emails -> Account \cup {NoAccount}]
    BY DEF Init, Administrator, Account, PlatformRoles
  <2>2. QED
    BY <2>1, InvitesAssumption DEF Init, TypeOK, Steps
<1>2. QED
  BY <1>1 DEF Init, IInv, TaskInv, FoundInv, StepInv, HoldsInv, RedeemInv
-----------------------------------------------------------------------------
\* Every reachable state is well typed, for any addresses and number of
\* requests, the sweeper at work.
THEOREM TypeCorrectness == Spec => []TypeOK
<1>1. IInv => TypeOK
  BY DEF IInv
<1>2. QED
  BY InitIInv, StepKeepsIInv, <1>1, PTL DEF Spec

\* Whoever redeem_invite lets in redeems, at its commit, the last link issued
\* for an invitation that is still pending: no resend, revocation, sweep or
\* other redemption comes between the check under FOR UPDATE and the commit.
THEOREM LiveLinkRedeemed == Spec => RedeemsLiveLink
<1>1. IInv /\ [Next]_vars =>
        [\A r \in Requests : Commit(r) /\ op[r].kind = "redeem" =>
            \A i \in found[r] :
                invites[i].status = "pending" /\ invites[i].token = op[r].token]_vars
  BY DEF Commit, IInv, TaskInv, RedeemInv, Tasks
<1>2. QED
  BY InitIInv, StepKeepsIInv, <1>1, PTL DEF Spec, RedeemsLiveLink
-----------------------------------------------------------------------------
(* AcceptedLetIn: what a task that lets somebody in has found and drafted. *)

FoundRows(r) == Admits(r) => \A i \in found[r] : invites[i].email = op[r].email
OneRow(r) ==
    /\ pc[r] \in {"idle", "open"} => found[r] = {}
    /\ pc[r] = "decide" => \A i, j \in found[r] : i = j
Drafted(r) ==
    Admits(r) /\ pc[r] \in {"insert", "update", "commit"} =>
        /\ draft[r] \in Account
        /\ op[r].kind # "bootstrap" =>
              \A i \in found[r] : draft[r] = [status |-> "active", role |-> invites[i].role]
DraftInv(r) == FoundRows(r) /\ OneRow(r) /\ Drafted(r)

\* Between its INSERT and its commit a task has the key of its address for itself.
HasKey(r) == Admits(r) /\ pc[r] \in {"update", "commit"}
KeyInv ==
    \A r \in Tasks : HasKey(r) =>
        /\ accounts[op[r].email] = NoAccount
        /\ \A q \in Tasks \ {r} : HasKey(q) => op[q].email # op[r].email

LetInInv == AcceptedLetIn /\ KeyInv /\ \A r \in Tasks : DraftInv(r)

\* An invitation keeps its address and its role.
RowsKept ==
    \A i \in Invites : invites[i] # NoInvite =>
        invites'[i] # NoInvite /\ invites'[i].email = invites[i].email /\ invites'[i].role = invites[i].role

LEMMA CommitKeepsRows == ASSUME IInv, NEW r \in Tasks, Commit(r) PROVE RowsKept
<1> SUFFICES ASSUME NEW i \in Invites, invites[i] # NoInvite
             PROVE  invites'[i] # NoInvite /\ invites'[i].email = invites[i].email /\ invites'[i].role = invites[i].role
  BY DEF RowsKept
<1>1. invites'[i] = IF i \in found[r] THEN Written(r, invites[i]) ELSE invites[i]
  BY DEF Commit
<1>2. CASE i \in found[r]
  <2>1. invites[i] \in Invite /\ pc[r] = "commit"
    BY DEF Commit, IInv, TypeOK
  <2>2. op[r].kind # "create" /\ op[r] # NoOp
    BY <2>1 DEF IInv, TypeOK, TaskInv, StepInv
  <2>3. op[r].kind = "resend" => issued < MaxTokens
    BY DEF Commit
  <2>4. /\ Written(r, invites[i]) \in Invite
        /\ Written(r, invites[i]).email = invites[i].email /\ Written(r, invites[i]).role = invites[i].role
    BY <2>1, <2>2, <2>3, WrittenType DEF IInv
  <2>5. QED
    BY <1>1, <1>2, <2>4, InvitesAssumption
<1>3. QED
  BY <1>1, <1>2

LEMMA NewRow ==
    ASSUME IInv, NEW r \in Tasks, CreateCommits(r)
    PROVE  RowsKept /\ \A i \in Invites : invites[i] # NoInvite \/ invites'[i] = NoInvite \/ invites'[i].status = "pending"
<1>1. PICK i \in Invites, row \in [email: {op[r].email}, role: {op[r].role}, status: {"pending"},
            token: {issued + 1}, overdue: {FALSE}, taken: {FALSE}] :
        invites[i] = NoInvite /\ invites' = [invites EXCEPT ![i] = row]
  BY DEF CreateCommits
<1>2. \A j \in Invites : j # i => invites'[j] = invites[j]
  BY <1>1 DEF IInv, TypeOK
<1>3. invites'[i].status = "pending"
  BY <1>1 DEF IInv, TypeOK
<1>4. QED
  BY <1>1, <1>2, <1>3 DEF RowsKept

LEMMA OlderRow ==
    ASSUME IInv, TimePasses
    PROVE  /\ RowsKept
           /\ \A i \in Invites : IF invites[i] = NoInvite THEN invites'[i] = NoInvite
                                 ELSE invites'[i].status = invites[i].status
<1>1. PICK i \in Invites :
        invites[i] # NoInvite /\ invites' = [invites EXCEPT ![i].overdue = TRUE]
  BY DEF TimePasses
<1>2. invites[i] \in Invite /\ [invites[i] EXCEPT !.overdue = TRUE] \in Invite
  BY <1>1 DEF IInv, TypeOK, Invite
<1>3. /\ [invites[i] EXCEPT !.overdue = TRUE] # NoInvite
      /\ [invites[i] EXCEPT !.overdue = TRUE].email = invites[i].email
      /\ [invites[i] EXCEPT !.overdue = TRUE].role = invites[i].role
      /\ [invites[i] EXCEPT !.overdue = TRUE].status = invites[i].status
  BY <1>2, InvitesAssumption DEF Invite
<1>4. invites'[i] = [invites[i] EXCEPT !.overdue = TRUE] /\ \A j \in Invites : j # i => invites'[j] = invites[j]
  BY <1>1 DEF IInv, TypeOK
<1>5. QED
  BY <1>1, <1>3, <1>4 DEF RowsKept

\* What a step leaves to the tasks that do not take it.
OthersRest(r) ==
    \A q \in Tasks \ {r} : pc'[q] = pc[q] /\ op'[q] = op[q] /\ found'[q] = found[q] /\ draft'[q] = draft[q]

LEMMA OthersAreRested == ASSUME IInv, NEW r \in Tasks, TaskStep(r) PROVE OthersRest(r)
<1> USE DEF OthersRest
<1>1. CASE End(r)
  BY <1>1 DEF IInv, TypeOK, End
<1>2. CASE CreateReadsUser(r) \/ SignUpReadsUser(r) \/ AdminReads(r) \/ (SweepReads /\ r = Sweeper)
  <2>1. \E o, s : Start(r, o, s)
    BY <1>2 DEF CreateReadsUser, SignUpReadsUser, AdminReads, SweepReads
  <2>2. \A q \in Tasks \ {r} : found'[q] = found[q] /\ draft'[q] = draft[q]
    BY <1>2 DEF IInv, TypeOK, CreateReadsUser, SignUpReadsUser, AdminReads, SweepReads
  <2>3. QED
    BY <2>1, <2>2 DEF IInv, TypeOK, Start
<1>3. CASE RedeemLocks(r)
  BY <1>3 DEF IInv, TypeOK, RedeemLocks, Start
<1>4. CASE (CreateReadsInvites(r) \/ SignUpReadsInvite(r)) /\ ~Fail(r)
  BY <1>4 DEF IInv, TypeOK, CreateReadsInvites, SignUpReadsInvite
<1>5. CASE Decide(r)
  BY <1>5 DEF IInv, TypeOK, Decide
<1>6. CASE InsertUser(r)
  BY <1>6 DEF IInv, TypeOK, InsertUser
<1>7. CASE UpdateInvites(r)
  BY <1>7 DEF IInv, TypeOK, UpdateInvites
<1>8. QED
  BY <1>1, <1>2, <1>3, <1>4, <1>5, <1>6, <1>7
  DEF TaskStep, RequestStep, InsertFails, Abort, Fail, Commit, CreateCommits

\* Only commits change rows and accounts.
Unwritten == UNCHANGED <<invites, accounts>>
LEMMA OnlyCommitsWrite ==
    ASSUME NEW r \in Tasks, TaskStep(r)
    PROVE  Unwritten \/ Commit(r) \/ CreateCommits(r)
  BY DEF TaskStep, RequestStep, Unwritten, CreateReadsUser, CreateReadsInvites, RedeemLocks, SignUpReadsUser,
         SignUpReadsInvite, Decide, InsertUser, InsertFails, AdminReads, UpdateInvites, Abort, Fail, SweepReads

LEMMA TasksKeepRows == ASSUME IInv, NEW r \in Tasks, TaskStep(r) PROVE RowsKept
  BY OnlyCommitsWrite, CommitKeepsRows, NewRow DEF Unwritten, RowsKept

LEMMA RestedKeepDraft ==
    ASSUME IInv, RowsKept, NEW r \in Tasks, DraftInv(r),
           pc'[r] = pc[r] /\ op'[r] = op[r] /\ found'[r] = found[r] /\ draft'[r] = draft[r]
    PROVE  DraftInv(r)'
<1>1. \A i \in found[r] : i \in Invites /\ invites[i] # NoInvite
  BY DEF IInv, TypeOK, TaskInv, FoundInv
<1>2. \A i \in found[r] : invites'[i].email = invites[i].email /\ invites'[i].role = invites[i].role
  BY <1>1 DEF RowsKept
<1>3. FoundRows(r)'
  BY <1>2 DEF DraftInv, FoundRows, Admits
<1>4. OneRow(r)'
  BY DEF DraftInv, OneRow
<1>5. Drafted(r)'
  BY <1>2 DEF DraftInv, Drafted, Admits
<1> QED
  BY <1>3, <1>4, <1>5 DEF DraftInv

LEMMA EndKeepsDraft == ASSUME TypeOK, NEW r \in Tasks, End(r) PROVE DraftInv(r)'
  BY DEF TypeOK, End, DraftInv, FoundRows, OneRow, Drafted, Admits

\* A set with at most one element.
LEMMA AtMostOne ==
    ASSUME NEW S, IsFiniteSet(S), ~(Cardinality(S) > 1), NEW i \in S, NEW j \in S
    PROVE  i = j
<1> SUFFICES ASSUME i # j PROVE FALSE
  OBVIOUS
<1>1. IsFiniteSet({i}) /\ Cardinality({i}) = 1
  BY FS_Singleton
<1>2. Cardinality({i} \cup {j}) = 2
  BY <1>1, FS_AddElement
<1>3. Cardinality({i} \cup {j}) <= Cardinality(S)
  BY FS_Subset
<1> QED
  BY <1>2, <1>3, FS_CardinalityType

LEMMA OwnStepKeepsDraft ==
    ASSUME IInv, NEW r \in Tasks, DraftInv(r), TaskStep(r)
    PROVE  DraftInv(r)'
<1> USE DEF IInv, TypeOK
<1>1. CASE End(r)
  BY <1>1, EndKeepsDraft
<1>2. CASE CreateReadsUser(r) \/ SignUpReadsUser(r)
  <2>1. pc[r] = "idle" /\ pc'[r] = "open" /\ UNCHANGED found
    BY <1>2 DEF CreateReadsUser, SignUpReadsUser, Start
  <2>2. found'[r] = {}
    BY <2>1 DEF DraftInv, OneRow
  <2> QED
    BY <2>1, <2>2 DEF DraftInv, FoundRows, OneRow, Drafted
<1>3. CASE RedeemLocks(r)
  <2>1. PICK i \in Invites, e \in Emails, t \in 1..issued :
          /\ invites[i] # NoInvite /\ invites[i].email = e
          /\ found' = [found EXCEPT ![r] = {i}]
          /\ draft' = [draft EXCEPT ![r] = [status |-> "active", role |-> invites[i].role]]
          /\ Start(r, [kind |-> "redeem", email |-> e, token |-> t], "insert")
          /\ UNCHANGED invites
    BY <1>3 DEF RedeemLocks
  <2>2. found'[r] = {i} /\ pc'[r] = "insert" /\ op'[r].email = invites'[i].email
    BY <2>1 DEF Start
  <2>3. draft'[r] = [status |-> "active", role |-> invites'[i].role] /\ draft'[r] \in Account
    BY <2>1 DEF Account, Invite
  <2> QED
    BY <2>2, <2>3 DEF DraftInv, FoundRows, OneRow, Drafted
<1>4. CASE AdminReads(r) \/ (SweepReads /\ r = Sweeper)
  <2>1. PICK k \in {"resend", "revoke", "sweep"} : Start(r, [kind |-> k], "update")
    BY <1>4 DEF AdminReads, SweepReads
  <2>2. op'[r].kind = k /\ pc'[r] = "update"
    BY <2>1 DEF Start
  <2> QED
    BY <2>2 DEF DraftInv, FoundRows, OneRow, Drafted, Admits, SignUps
<1>5. CASE CreateReadsInvites(r) /\ ~Fail(r)
  <2>1. op'[r].kind = "create" /\ pc'[r] = "insert"
    BY <1>5 DEF CreateReadsInvites
  <2> QED
    BY <2>1 DEF DraftInv, FoundRows, OneRow, Drafted, Admits, SignUps
<1>6. CASE SignUpReadsInvite(r) /\ ~Fail(r)
  <2>1. /\ pc'[r] = "decide" /\ found'[r] = Open(op[r].email) /\ UNCHANGED <<invites, op>>
        /\ ~(Cardinality(Open(op[r].email)) > 1)
    BY <1>6 DEF SignUpReadsInvite
  <2>2. IsFiniteSet(Open(op[r].email))
    BY InvitesAssumption, FS_Subset DEF Open
  <2>3. \A i, j \in found'[r] : i = j
    BY <2>1, <2>2, AtMostOne
  <2> QED
    BY <2>1, <2>3 DEF DraftInv, FoundRows, OneRow, Drafted, Open
<1>7. CASE Decide(r)
  <2> DEFINE a == IF First(r) THEN Administrator
                  ELSE IF found[r] # {} THEN [status |-> "active", role |-> InvitedRole(r)]
                  ELSE IF op[r].email \in AutoApproved THEN [status |-> "active", role |-> "member"]
                  ELSE [status |-> "pending", role |-> "member"]
  <2>1. /\ pc[r] = "decide" /\ pc'[r] = "insert" /\ UNCHANGED <<invites, found>>
        /\ draft'[r] = a /\ op[r] \in Ops /\ op[r].kind \in SignUps
    BY <1>7 DEF Decide, TaskInv, StepInv
  <2>2. op'[r].email = op[r].email
    BY <1>7 DEF Decide
  <2>3. First(r) => op'[r].kind = "bootstrap"
    <3>1. CASE First(r)
      <4>1. op' = [op EXCEPT ![r].kind = "bootstrap"]
        BY <1>7, <3>1 DEF Decide
      <4>2. op'[r] = [op[r] EXCEPT !.kind = "bootstrap"]
        BY <4>1
      <4>3. op[r] \in [kind: SignUps \cup {"bootstrap"}, email: Emails]
        BY <2>1 DEF Ops, SignUps
      <4> QED
        BY <4>2, <4>3
    <3> QED
      BY <3>1
  <2>4. ASSUME NEW i \in found[r] PROVE InvitedRole(r) = invites[i].role /\ InvitedRole(r) \in PlatformRoles
    <3>1. (CHOOSE j \in found[r] : TRUE) = i
      BY <2>1 DEF DraftInv, OneRow
    <3>2. invites[i] \in Invite
      BY <2>1 DEF TaskInv, FoundInv
    <3> QED
      BY <3>1, <3>2 DEF InvitedRole, Invite
  <2>5. a \in Account
    BY <2>4 DEF Account, PlatformRoles, Administrator
  <2>6. ~First(r) => \A i \in found[r] : a = [status |-> "active", role |-> invites[i].role]
    BY <2>4
  <2> HIDE DEF a
  <2>7. FoundRows(r)'
    BY <2>1, <2>2, InvitesAssumption DEF DraftInv, FoundRows, Admits, SignUps
  <2> QED
    BY <2>1, <2>3, <2>5, <2>6, <2>7 DEF DraftInv, OneRow, Drafted
<1>8. CASE InsertUser(r)
  <2>1. pc[r] = "insert" /\ pc'[r] \in {"update", "commit"} /\ UNCHANGED <<invites, op, found, draft>>
    BY <1>8 DEF InsertUser
  <2> QED
    BY <2>1 DEF DraftInv, FoundRows, OneRow, Drafted, Admits
<1>9. CASE UpdateInvites(r)
  <2>1. pc[r] = "update" /\ pc'[r] = "commit" /\ UNCHANGED <<invites, op, found, draft>>
    BY <1>9 DEF UpdateInvites
  <2> QED
    BY <2>1 DEF DraftInv, FoundRows, OneRow, Drafted, Admits
<1> QED
  BY <1>1, <1>2, <1>3, <1>4, <1>5, <1>6, <1>7, <1>8, <1>9
  DEF TaskStep, RequestStep, InsertFails, Abort, Fail, Commit, CreateCommits

\* Apart from the INSERT, a step gives nobody a key.
LEMMA NoNewKey ==
    ASSUME IInv, NEW r \in Tasks, TaskStep(r), ~InsertUser(r), NEW q \in Tasks, HasKey(q)'
    PROVE  HasKey(q) /\ op'[q] = op[q] /\ (q = r => UpdateInvites(r))
<1>1. CASE q # r
  BY <1>1, OthersAreRested DEF OthersRest, HasKey, Admits
<1>2. CASE q = r
  <2>1. ~End(r)
    BY <1>2 DEF HasKey, End, IInv, TypeOK
  <2>2. ~(CreateReadsUser(r) \/ SignUpReadsUser(r) \/ RedeemLocks(r))
    BY <1>2 DEF HasKey, CreateReadsUser, SignUpReadsUser, RedeemLocks, Start, IInv, TypeOK
  <2>3. ~(AdminReads(r) \/ (SweepReads /\ r = Sweeper))
    <3> SUFFICES ASSUME AdminReads(r) \/ (SweepReads /\ r = Sweeper) PROVE FALSE
      OBVIOUS
    <3>1. PICK k \in {"resend", "revoke", "sweep"} : Start(r, [kind |-> k], "update")
      BY DEF AdminReads, SweepReads
    <3>2. op'[r].kind = k
      BY <3>1 DEF Start, IInv, TypeOK
    <3> QED
      BY <1>2, <3>2 DEF HasKey, Admits, SignUps
  <2>4. ~(CreateReadsInvites(r) \/ SignUpReadsInvite(r) \/ Decide(r))
    BY <1>2, <2>1 DEF HasKey, CreateReadsInvites, SignUpReadsInvite, Decide, Fail, IInv, TypeOK
  <2>5. UpdateInvites(r)
    BY <2>1, <2>2, <2>3, <2>4
    DEF TaskStep, RequestStep, InsertFails, Abort, Fail, Commit, CreateCommits
  <2> QED
    BY <1>2, <2>5 DEF UpdateInvites, HasKey, Admits
<1> QED
  BY <1>1, <1>2

LEMMA KeyStep ==
    ASSUME IInv, LetInInv, NEW r \in Tasks, TaskStep(r)
    PROVE  KeyInv'
<1>1. CASE InsertUser(r)
  <2>1. /\ pc[r] = "insert" /\ Admits(r) /\ KeyFree(r) /\ accounts[op[r].email] = NoAccount
        /\ UNCHANGED <<accounts, op, draft>>
        /\ \A q \in Tasks \ {r} : pc'[q] = pc[q]
    BY <1>1 DEF InsertUser, IInv, TypeOK
  <2>2. ASSUME NEW q \in Tasks \ {r}, HasKey(q) PROVE op[q].email # op[r].email
    <3>1. draft[q] # NoAccount
      BY <2>2, InvitesAssumption DEF HasKey, LetInInv, DraftInv, Drafted
    <3> QED
      BY <2>1, <2>2, <3>1 DEF KeyFree, HasKey
  <2>3. \A q \in Tasks \ {r} : HasKey(q)' => HasKey(q)
    BY <2>1 DEF HasKey, Admits
  <2> QED
    BY <2>1, <2>2, <2>3 DEF KeyInv, LetInInv
<1>2. CASE ~InsertUser(r)
  <2> SUFFICES ASSUME NEW q \in Tasks, HasKey(q)'
               PROVE  /\ accounts'[op'[q].email] = NoAccount
                      /\ \A s \in Tasks \ {q} : HasKey(s)' => op'[s].email # op'[q].email
    BY DEF KeyInv
  <2>1. HasKey(q) /\ op'[q] = op[q] /\ (q = r => UpdateInvites(r))
    BY <1>2, NoNewKey
  <2>2. \A s \in Tasks \ {q} : HasKey(s)' => op'[s].email # op'[q].email
    BY <1>2, <2>1, NoNewKey DEF KeyInv, LetInInv
  <2>3. accounts'[op[q].email] = accounts[op[q].email]
    <3>1. CASE Commit(r)
      <4>1. q # r
        BY <2>1, <3>1 DEF Commit, UpdateInvites
      <4>2. CASE Admits(r)
        <5>1. HasKey(r) /\ accounts' = [accounts EXCEPT ![op[r].email] = draft[r]]
          BY <3>1, <4>2 DEF Commit, HasKey
        <5>2. op[q].email # op[r].email
          BY <2>1, <4>1, <5>1 DEF KeyInv, LetInInv
        <5> QED
          BY <5>1, <5>2 DEF IInv, TypeOK
      <4>3. CASE ~Admits(r)
        BY <3>1, <4>3 DEF Commit
      <4> QED
        BY <4>2, <4>3
    <3>2. CASE ~Commit(r)
      BY <3>2, OnlyCommitsWrite DEF Unwritten, CreateCommits
    <3> QED
      BY <3>1, <3>2
  <2> QED
    BY <2>1, <2>2, <2>3 DEF KeyInv, LetInInv
<1> QED
  BY <1>1, <1>2

\* A commit marks a row accepted only with the account it promised.
LEMMA CommitLetsIn ==
    ASSUME IInv, LetInInv, NEW r \in Tasks, Commit(r)
    PROVE  AcceptedLetIn'
<1> SUFFICES ASSUME NEW i \in Invites, invites'[i] # NoInvite, invites'[i].status = "accepted"
             PROVE  accounts'[invites'[i].email] = [status |-> "active", role |-> invites'[i].role]
  BY DEF AcceptedLetIn
<1> DEFINE granted == [status |-> "active", role |-> invites[i].role]
<1>1. /\ pc[r] = "commit" /\ op[r] \in Ops /\ op[r] # NoOp /\ op[r].kind # "create"
      /\ invites' = [j \in Invites |-> IF j \in found[r] THEN Written(r, invites[j]) ELSE invites[j]]
      /\ accounts' = IF Admits(r) THEN [accounts EXCEPT ![op[r].email] = draft[r]] ELSE accounts
  BY InvitesAssumption DEF Commit, IInv, TaskInv, StepInv, TypeOK
<1>2. invites[i] # NoInvite
  BY <1>1 DEF IInv, TaskInv, FoundInv
<1>3. invites'[i].email = invites[i].email /\ invites'[i].role = invites[i].role
  BY <1>2, CommitKeepsRows DEF RowsKept
<1>4. invites[i] \in Invite /\ invites[i].email \in Emails /\ granted \in Account
  BY <1>2 DEF IInv, TypeOK, Invite, Account
<1>5. CASE invites[i].status = "accepted"
  <2>1. accounts[invites[i].email] = granted /\ granted # NoAccount
    BY <1>2, <1>4, <1>5, InvitesAssumption DEF LetInInv, AcceptedLetIn
  <2>2. Admits(r) => op[r].email # invites[i].email
    BY <1>1, <2>1 DEF LetInInv, KeyInv, HasKey
  <2> QED
    BY <1>1, <1>3, <2>1, <2>2 DEF IInv, TypeOK
<1>6. CASE invites[i].status # "accepted"
  <2>1. i \in found[r] /\ invites'[i] = Written(r, invites[i])
    BY <1>1, <1>6
  <2>2. op[r].kind \in SignUps \cup {"redeem"}
    <3>1. ASSUME op[r].kind \notin SignUps \cup {"redeem"} PROVE Written(r, invites[i]).status # "accepted"
      <4>1. op[r].kind \in {"bootstrap", "resend", "revoke", "sweep"}
        BY <1>1, <3>1 DEF Ops, SignUps
      <4>2. CASE op[r].kind = "bootstrap"
        <5>1. Written(r, invites[i]) = [invites[i] EXCEPT !.taken = TRUE]
          BY <3>1, <4>2 DEF Written
        <5> QED
          BY <1>4, <1>6, <5>1 DEF Invite
      <4>3. CASE op[r].kind = "resend"
        <5>1. Written(r, invites[i]) = [invites[i] EXCEPT !.token = issued + 1, !.overdue = FALSE]
          BY <3>1, <4>3 DEF Written
        <5> QED
          BY <1>4, <1>6, <5>1 DEF Invite
      <4>4. CASE op[r].kind = "revoke"
        <5>1. Written(r, invites[i]) = [invites[i] EXCEPT !.status = "revoked"]
          BY <3>1, <4>4 DEF Written
        <5> QED
          BY <1>4, <5>1 DEF Invite
      <4>5. CASE op[r].kind = "sweep"
        <5>1. Written(r, invites[i]) = [invites[i] EXCEPT !.status = "expired"]
          BY <3>1, <4>5 DEF Written
        <5> QED
          BY <1>4, <5>1 DEF Invite
      <4> QED
        BY <4>1, <4>2, <4>3, <4>4, <4>5
    <3> QED
      BY <2>1, <3>1
  <2>3. Admits(r) /\ op[r].kind # "bootstrap"
    BY <1>1, <2>2 DEF Admits, SignUps
  <2>4. draft[r] = granted /\ op[r].email = invites[i].email
    BY <1>1, <2>1, <2>3 DEF LetInInv, DraftInv, Drafted, FoundRows
  <2> QED
    BY <1>1, <1>3, <1>4, <2>3, <2>4 DEF IInv, TypeOK
<1> QED
  BY <1>5, <1>6

LEMMA AcceptedStep ==
    ASSUME IInv, LetInInv, NEW r \in Tasks, TaskStep(r)
    PROVE  AcceptedLetIn'
<1>1. CASE Commit(r)
  BY <1>1, CommitLetsIn
<1>2. CASE CreateCommits(r)
  <2>1. accounts' = accounts
    BY <1>2 DEF CreateCommits
  <2>2. ASSUME NEW i \in Invites, invites'[i] # NoInvite, invites'[i].status = "accepted"
        PROVE  invites'[i] = invites[i]
    <3>1. PICK j \in Invites, row \in [email: {op[r].email}, role: {op[r].role}, status: {"pending"},
                token: {issued + 1}, overdue: {FALSE}, taken: {FALSE}] :
            invites' = [invites EXCEPT ![j] = row]
      BY <1>2 DEF CreateCommits
    <3> QED
      BY <2>2, <3>1 DEF IInv, TypeOK
  <2> QED
    BY <2>1, <2>2 DEF LetInInv, AcceptedLetIn
<1>3. CASE Unwritten
  BY <1>3 DEF Unwritten, LetInInv, AcceptedLetIn
<1> QED
  BY <1>1, <1>2, <1>3, OnlyCommitsWrite

LEMMA LetInStep == IInv /\ LetInInv /\ [Next]_vars => LetInInv'
<1> SUFFICES ASSUME IInv, LetInInv, [Next]_vars PROVE LetInInv'
  OBVIOUS
<1>1. ASSUME NEW q \in Tasks, TaskStep(q) PROVE LetInInv'
  <2>1. ASSUME NEW r \in Tasks PROVE DraftInv(r)'
    <3>1. CASE r = q
      BY <1>1, <3>1, OwnStepKeepsDraft DEF LetInInv
    <3>2. CASE r # q
      BY <1>1, <3>2, OthersAreRested, TasksKeepRows, RestedKeepDraft DEF OthersRest, LetInInv
    <3> QED
      BY <3>1, <3>2
  <2> QED
    BY <1>1, <2>1, KeyStep, AcceptedStep DEF LetInInv
<1>2. ASSUME RowsKept, UNCHANGED <<accounts, pc, op, found, draft>>,
             \A i \in Invites : IF invites[i] = NoInvite THEN invites'[i] = NoInvite
                                ELSE invites'[i].status = invites[i].status
      PROVE  LetInInv'
  <2>1. \A r \in Tasks : DraftInv(r)'
    BY <1>2, RestedKeepDraft DEF LetInInv
  <2>2. KeyInv'
    BY <1>2 DEF LetInInv, KeyInv, HasKey, Admits
  <2>3. AcceptedLetIn'
    BY <1>2 DEF LetInInv, AcceptedLetIn, RowsKept
  <2> QED
    BY <2>1, <2>2, <2>3 DEF LetInInv
<1>3. CASE TimePasses
  BY <1>2, <1>3, OlderRow DEF TimePasses
<1>4. CASE UNCHANGED vars
  BY <1>2, <1>4 DEF vars, RowsKept
<1>5. Next => (\E q \in Tasks : TaskStep(q)) \/ TimePasses
  BY TasksStep
<1> QED
  BY <1>1, <1>3, <1>4, <1>5

LEMMA LetInInit == Init => LetInInv
<1> SUFFICES ASSUME Init PROVE LetInInv
  OBVIOUS
<1>1. AcceptedLetIn
  BY DEF Init, AcceptedLetIn
<1>2. KeyInv /\ \A r \in Tasks : DraftInv(r)
  BY DEF Init, KeyInv, HasKey, DraftInv, FoundRows, OneRow, Drafted, Admits
<1> QED
  BY <1>1, <1>2 DEF LetInInv

\* An invitation marked accepted has an active account of its address with the
\* role the administrator chose, for any number of requests, whoever signs up,
\* resends, revokes or sweeps meanwhile.
THEOREM AcceptedIsLetIn == Spec => []AcceptedLetIn
<1>1. LetInInv => AcceptedLetIn
  BY DEF LetInInv
<1> QED
  BY InitIInv, StepKeepsIInv, LetInInit, LetInStep, <1>1, PTL DEF Spec

===============================================================================
