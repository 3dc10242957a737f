------------------------- MODULE HubMembership_proofs -------------------------
(***************************************************************************)
(* TypeOK, KeepsOwner, OwnersMadeByOwners and ArchivedIsFrozen of          *)
(* HubMembership, for any users, administrators and number of concurrent   *)
(* requests.                                                               *)
(*                                                                         *)
(* KeepsOwner rests on what a request may rely on while no other commit    *)
(* has overlapped it: the rows its session keeps are the rows a query      *)
(* would return, what it has written leaves an owner, and the statement it *)
(* has prepared will too.  The other two rest on the context the request   *)
(* was let in with: it says which rows the request may still write.        *)
(***************************************************************************)
EXTENDS HubMembership, FiniteSetTheorems, TLAPS

\* An idle request has read and written nothing.
IdleInv(r) ==
    pc[r] = "idle" => loaded[r] = Unread /\ draft[r] = Unread /\ plan[r] = NoPlan

\* A prepared statement is for the membership row at the head of todo.
PlanInv(r) ==
    plan[r] # NoPlan =>
        /\ pc[r] = "writing" /\ todo[r] # <<>> /\ Head(todo[r]).what = "member"
        /\ plan[r] = "delete" => Head(todo[r]).role = NoRole

\* Row objects are up to date as long as nothing else was committed.
FreshInv(r) ==
    ~overlapped[r] => \A u \in Users : loaded[r][u] # Unset => loaded[r][u] = View(r)[u]

\* What the request has written leaves an owner.
OwnerInv(r) ==
    ~overlapped[r] /\ Owners(role) # {} => Owners(View(r)) # {}

\* So will the statement it has prepared.
PlannedInv(r) ==
    plan[r] # NoPlan /\ ~overlapped[r] /\ Demotes(r) /\ Owners(role) # {} =>
        \E u \in Users : u # Head(todo[r]).user /\ View(r)[u] = "owner"

RequestInv(r) == IdleInv(r) /\ PlanInv(r) /\ FreshInv(r) /\ OwnerInv(r) /\ PlannedInv(r)

IInv == TypeOK /\ \A r \in Requests : RequestInv(r)
-----------------------------------------------------------------------------
LEMMA OneInSeq == ASSUME NEW S, NEW x \in S PROVE <<x>> \in Seq(S)
  OBVIOUS

LEMMA TwoInSeq == ASSUME NEW S, NEW x \in S, NEW y \in S PROVE <<x, y>> \in Seq(S)
  OBVIOUS

LEMMA ThreeInSeq == ASSUME NEW S, NEW x \in S, NEW y \in S, NEW z \in S PROVE <<x, y, z>> \in Seq(S)
  OBVIOUS

LEMMA WritesType ==
    ASSUME NEW r \in Requests, NEW o \in RouteOps, ctx[r].actor \in Users
    PROVE  Writes(r, o) \in Seq(MemberWrite \cup HubWrite)
<1>1. /\ o.kind \in {"add", "update"} => o.user \in Users /\ o.role \in RoleOrNone
      /\ o.kind \in {"remove", "transfer"} => o.user \in Users
      /\ o.kind \in {"add", "update", "remove", "transfer", "archive", "unarchive", "delete"}
  BY HubAssumption DEF RouteOps, RoleOrNone
<1>2. ASSUME NEW u \in Users, NEW x \in RoleOrNone
      PROVE  Member(u, x) \in MemberWrite \cup HubWrite
  BY <1>2 DEF Member, MemberWrite
<1>3. ASSUME NEW u \in Users PROVE Column("owner", u) \in MemberWrite \cup HubWrite
  BY <1>3 DEF Column, HubWrite
<1>4. ASSUME NEW f \in {"archived", "deleted"}, NEW b \in BOOLEAN
      PROVE  Column(f, b) \in MemberWrite \cup HubWrite
  BY <1>4 DEF Column, HubWrite
<1>5. "owner" \in RoleOrNone /\ "maintainer" \in RoleOrNone /\ NoRole \in RoleOrNone
  BY DEF RoleOrNone, Roles
<1>6. CASE o.kind \in {"add", "update"}
  <2>1. Writes(r, o) = <<Member(o.user, o.role)>>
    BY <1>6 DEF Writes
  <2>2. Member(o.user, o.role) \in MemberWrite \cup HubWrite
    BY <1>1, <1>2, <1>6
  <2>3. QED
    BY <2>1, <2>2, OneInSeq, Zenon
<1>7. CASE o.kind = "remove"
  <2>1. Writes(r, o) = <<Member(o.user, NoRole)>>
    BY <1>7 DEF Writes
  <2>2. Member(o.user, NoRole) \in MemberWrite \cup HubWrite
    BY <1>1, <1>2, <1>5, <1>7
  <2>3. QED
    BY <2>1, <2>2, OneInSeq, Zenon
<1>8. CASE o.kind = "transfer"
  <2>1. Member(o.user, "owner") \in MemberWrite \cup HubWrite
    BY <1>1, <1>2, <1>5, <1>8
  <2>2. Column("owner", o.user) \in MemberWrite \cup HubWrite
    BY <1>1, <1>3, <1>8
  <2>3. Member(ctx[r].actor, "maintainer") \in MemberWrite \cup HubWrite
    BY <1>2, <1>5
  <2>4. \/ Writes(r, o) = <<Member(o.user, "owner"), Column("owner", o.user)>>
        \/ Writes(r, o) = <<Member(o.user, "owner"), Column("owner", o.user),
                            Member(ctx[r].actor, "maintainer")>>
    BY <1>8 DEF Writes
  <2>5. CASE Writes(r, o) = <<Member(o.user, "owner"), Column("owner", o.user)>>
    BY <2>1, <2>2, <2>5, TwoInSeq, Zenon
  <2>6. CASE Writes(r, o) = <<Member(o.user, "owner"), Column("owner", o.user),
                              Member(ctx[r].actor, "maintainer")>>
    BY <2>1, <2>2, <2>3, <2>6, ThreeInSeq, Zenon
  <2>7. QED
    BY <2>4, <2>5, <2>6
<1>9. CASE o.kind = "archive"
  <2>1. Writes(r, o) = <<Column("archived", TRUE)>>
    BY <1>9 DEF Writes
  <2>2. Column("archived", TRUE) \in MemberWrite \cup HubWrite
    BY <1>4
  <2>3. QED
    BY <2>1, <2>2, OneInSeq, Zenon
<1>10. CASE o.kind = "unarchive"
  <2>1. Writes(r, o) = <<Column("archived", FALSE)>>
    BY <1>10 DEF Writes
  <2>2. Column("archived", FALSE) \in MemberWrite \cup HubWrite
    BY <1>4
  <2>3. QED
    BY <2>1, <2>2, OneInSeq, Zenon
<1>11. CASE o.kind = "delete"
  <2>1. Writes(r, o) = <<Column("deleted", TRUE)>>
    BY <1>11 DEF Writes
  <2>2. Column("deleted", TRUE) \in MemberWrite \cup HubWrite
    BY <1>4
  <2>3. QED
    BY <2>1, <2>2, OneInSeq, Zenon
<1>12. QED
  BY <1>1, <1>6, <1>7, <1>8, <1>9, <1>10, <1>11

LEMMA WriteAtHead ==
    ASSUME TypeOK, NEW r \in Requests, todo[r] # <<>>
    PROVE  /\ Tail(todo[r]) \in Seq(MemberWrite \cup HubWrite)
           /\ Head(todo[r]) \in MemberWrite \cup HubWrite
           /\ Head(todo[r]).what = "member" =>
                Head(todo[r]).user \in Users /\ Head(todo[r]).role \in RoleOrNone
<1>1. todo[r] \in Seq(MemberWrite \cup HubWrite)
  BY DEF TypeOK
<1>2. /\ Tail(todo[r]) \in Seq(MemberWrite \cup HubWrite)
      /\ Head(todo[r]) \in MemberWrite \cup HubWrite
  BY <1>1
<1>3. QED
  BY <1>2 DEF MemberWrite, HubWrite

\* A count above one leaves another owner.
LEMMA AnotherOwner ==
    ASSUME NEW r \in Requests, NEW u \in Users, View(r)[u] = "owner",
           ~(Cardinality(Owners(View(r))) <= 1)
    PROVE  Owners(View(r)) \ {u} # {}
<1>1. SUFFICES ASSUME Owners(View(r)) \ {u} = {} PROVE FALSE
  OBVIOUS
<1>2. Owners(View(r)) = {u}
  BY <1>1 DEF Owners
<1>3. Cardinality({u}) = 1
  BY FS_Singleton
<1>4. QED
  BY <1>2, <1>3

LEMMA ViewType ==
    ASSUME TypeOK, NEW r \in Requests
    PROVE  /\ View(r) \in [Users -> RoleOrNone]
           /\ \A u \in Users : Attr(r, u) \in RoleOrNone
           /\ \A u \in Users : View(r)[u] # NoRole => Attr(r, u) \in Roles
  BY HubAssumption DEF TypeOK, View, Attr, RoleOrNone

\* What ends a request, well or badly, keeps the types.
LEMMA EndType ==
    ASSUME TypeOK, NEW r \in Requests, End(r)
    PROVE  /\ pc' \in [Requests -> Statuses]
           /\ op' \in [Requests -> Ops \cup {NoOp}]
           /\ ctx' \in [Requests -> Context \cup {NoCtx}]
           /\ \A q \in Requests :
                /\ pc'[q] = "checking" => op'[q] # NoOp
                /\ pc'[q] # "idle" => ctx'[q] # NoCtx
           /\ draftHub' \in [Requests -> HubRow \cup {NoHub}]
           /\ todo' \in [Requests -> Seq(MemberWrite \cup HubWrite)]
           /\ draft' \in [Requests -> [Users -> RoleOrNone \cup {Unset}]]
           /\ plan' \in [Requests -> {NoPlan, "insert", "update", "delete"}]
<1>1. pc' \in [Requests -> Statuses] /\ pc'[r] = "idle"
  BY DEF TypeOK, End, Statuses
<1>2. /\ op' \in [Requests -> Ops \cup {NoOp}]
      /\ ctx' \in [Requests -> Context \cup {NoCtx}]
      /\ draftHub' \in [Requests -> HubRow \cup {NoHub}]
      /\ \A q \in Requests : pc'[q] # "idle" =>
            q # r /\ pc'[q] = pc[q] /\ op'[q] = op[q] /\ ctx'[q] = ctx[q]
  BY <1>1 DEF TypeOK, End
<1>3. todo' \in [Requests -> Seq(MemberWrite \cup HubWrite)]
  BY DEF TypeOK, End
<1>4. draft' \in [Requests -> [Users -> RoleOrNone \cup {Unset}]]
  BY DEF TypeOK, End, Unread
<1>5. plan' \in [Requests -> {NoPlan, "insert", "update", "delete"}]
  BY DEF TypeOK, End
<1>6. QED
  BY <1>1, <1>2, <1>3, <1>4, <1>5 DEF TypeOK, Statuses

LEMMA FailType == ASSUME TypeOK, NEW r \in Requests, Fail(r) PROVE TypeOK'
<1>1. End(r)
  BY DEF Fail
<1>2. loaded' \in [Requests -> [Users -> Roles \cup {Unset}]] /\ overlapped' \in [Requests -> BOOLEAN]
  BY DEF Fail, TypeOK, Unread
<1>3. QED
  BY <1>1, <1>2, EndType DEF Fail, TypeOK

-----------------------------------------------------------------------------
LEMMA InitIInv == Init => IInv
<1>1. SUFFICES ASSUME Init PROVE IInv
  OBVIOUS
<1>2. TypeOK
  <2>1. /\ role \in [Users -> RoleOrNone]
        /\ hub \in HubRow
        /\ pc \in [Requests -> Statuses]
    BY <1>1, HubAssumption DEF Init, HubRow, Statuses, RoleOrNone, Roles
  <2>2. /\ loaded \in [Requests -> [Users -> Roles \cup {Unset}]]
        /\ draft \in [Requests -> [Users -> RoleOrNone \cup {Unset}]]
    BY <1>1 DEF Init, Unread
  <2>3. QED
    BY <1>1, <2>1, <2>2 DEF Init, TypeOK
<1>3. \A r \in Requests : View(r) = role
  BY <1>1 DEF Init, View, Unread
<1>4. ASSUME NEW r \in Requests PROVE RequestInv(r)
  BY <1>1, <1>3
  DEF Init, RequestInv, IdleInv, PlanInv, FreshInv, OwnerInv, PlannedInv, Unread
<1>5. QED
  BY <1>2, <1>4 DEF IInv

\* Every step keeps the types.
LEMMA TypeStep ==
    ASSUME IInv, [Next]_vars PROVE TypeOK'
<1> USE DEF IInv
<1>1. ASSUME NEW r \in Requests, Authorize(r) PROVE TypeOK'
  <2>1. PICK a \in Users, o \in RouteOps :
          LET effective == IF a \in Admins THEN "owner" ELSE role[a] IN
          /\ a \in Admins \/ role[a] # NoRole
          /\ op' = [op EXCEPT ![r] = o]
          /\ ctx' = [ctx EXCEPT ![r] = [actor |-> a, role |-> effective,
                                        archived |-> hub.archived, owner |-> hub.owner]]
          /\ loaded' = [loaded EXCEPT ![r][a] = IF role[a] # NoRole THEN role[a] ELSE Unset]
    BY <1>1 DEF Authorize
  <2> DEFINE c == [actor |-> a, role |-> IF a \in Admins THEN "owner" ELSE role[a],
                   archived |-> hub.archived, owner |-> hub.owner]
  <2>2. c \in Context
    BY <2>1 DEF TypeOK, RoleOrNone, Roles, Context, HubRow
  <2>3. c # NoCtx /\ o # NoOp /\ o \in Ops
    BY <2>2, HubAssumption DEF Ops
  <2>4. loaded' \in [Requests -> [Users -> Roles \cup {Unset}]]
    BY <2>1 DEF TypeOK, RoleOrNone
  <2>5. pc' \in [Requests -> Statuses] /\ \A q \in Requests : q # r => pc'[q] = pc[q]
    BY <1>1 DEF Authorize, TypeOK, Statuses
  <2>6. /\ op' \in [Requests -> Ops \cup {NoOp}]
        /\ op'[r] = o /\ \A q \in Requests : q # r => op'[q] = op[q]
    BY <2>1, <2>3 DEF TypeOK
  <2>7. ctx' = [ctx EXCEPT ![r] = c]
    BY <2>1
  <2> HIDE DEF c
  <2>8. /\ ctx' \in [Requests -> Context \cup {NoCtx}]
        /\ ctx'[r] = c /\ \A q \in Requests : q # r => ctx'[q] = ctx[q]
    BY <2>2, <2>7 DEF TypeOK
  <2>9. QED
    BY <1>1, <2>3, <2>4, <2>5, <2>6, <2>8 DEF Authorize, TypeOK
<1>2. ASSUME NEW r \in Requests, Proceed(r) PROVE TypeOK'
  <2>1. op[r] \in RouteOps /\ ctx[r] \in Context
    BY <1>2 DEF Proceed, TypeOK, Ops
  <2>2. Writes(r, op[r]) \in Seq(MemberWrite \cup HubWrite)
    BY <2>1, WritesType DEF Context
  <2>3. todo' \in [Requests -> Seq(MemberWrite \cup HubWrite)]
    BY <1>2, <2>2 DEF Proceed, TypeOK
  <2>4. loaded' \in [Requests -> [Users -> Roles \cup {Unset}]]
    <3>1. CASE op[r].kind \in {"update", "remove"}
      <4>1. op[r].user \in Users
        BY <2>1, <3>1 DEF RouteOps
      <4>2. View(r)[op[r].user] # NoRole
        BY <1>2, <3>1 DEF Proceed, Allowed
      <4>3. Attr(r, op[r].user) \in Roles
        BY <4>1, <4>2, ViewType
      <4>4. loaded' = [loaded EXCEPT ![r][op[r].user] = Attr(r, op[r].user)]
        BY <1>2, <3>1 DEF Proceed
      <4>5. QED
        BY <4>1, <4>3, <4>4 DEF TypeOK
    <3>2. CASE op[r].kind \notin {"update", "remove"}
      BY <1>2, <3>2 DEF Proceed, TypeOK
    <3>3. QED
      BY <3>1, <3>2
  <2>5. /\ pc' \in [Requests -> Statuses] /\ pc'[r] = "writing"
        /\ \A q \in Requests : q # r => pc'[q] = pc[q]
    BY <1>2 DEF Proceed, TypeOK, Statuses
  <2>6. op' \in [Requests -> Ops \cup {NoOp}] /\ \A q \in Requests : q # r => op'[q] = op[q]
    BY <1>2 DEF Proceed, TypeOK
  <2>7. UNCHANGED <<role, hub, ctx, plan, draft, draftHub, overlapped>> /\ pc[r] = "checking"
    BY <1>2 DEF Proceed
  <2>8. QED
    BY <2>3, <2>4, <2>5, <2>6, <2>7 DEF TypeOK
<1>3. ASSUME NEW r \in Requests, Fail(r) PROVE TypeOK'
  BY <1>3, FailType
<1>4. ASSUME NEW r \in Requests, Skip(r) \/ Prepare(r) PROVE TypeOK'
  <2>1. /\ AtMember(r)
        /\ UNCHANGED <<role, hub, pc, op, ctx, draft, draftHub, overlapped>>
    BY <1>4 DEF Skip, Prepare
  <2>2. Head(todo[r]).user \in Users /\ Tail(todo[r]) \in Seq(MemberWrite \cup HubWrite)
    BY <2>1, WriteAtHead DEF AtMember
  <2>3. View(r)[Head(todo[r]).user] # NoRole => Attr(r, Head(todo[r]).user) \in Roles
    BY <2>2, ViewType
  <2>4. PICK x \in Roles \cup {Unset} :
          loaded' = loaded \/ loaded' = [loaded EXCEPT ![r][Head(todo[r]).user] = x]
    BY <1>4, <2>3 DEF Skip, Prepare
  <2>5. loaded' \in [Requests -> [Users -> Roles \cup {Unset}]]
    <3>1. CASE loaded' = loaded
      BY <3>1 DEF TypeOK
    <3>2. CASE loaded' = [loaded EXCEPT ![r][Head(todo[r]).user] = x]
      BY <2>2, <3>2 DEF TypeOK
    <3>3. QED
      BY <2>4, <3>1, <3>2
  <2>6. todo' \in [Requests -> Seq(MemberWrite \cup HubWrite)]
    BY <1>4, <2>2 DEF Skip, Prepare, TypeOK
  <2>7. plan' \in [Requests -> {NoPlan, "insert", "update", "delete"}]
    BY <1>4 DEF Skip, Prepare, TypeOK
  <2>8. QED
    BY <2>1, <2>5, <2>6, <2>7 DEF TypeOK
<1>5. ASSUME NEW r \in Requests, Flush(r) PROVE TypeOK'
  <2>1. /\ plan[r] # NoPlan
        /\ UNCHANGED <<role, hub, pc, op, ctx, draftHub, overlapped>>
    BY <1>5 DEF Flush
  <2>2. /\ Head(todo[r]).user \in Users /\ Head(todo[r]).role \in RoleOrNone
        /\ Tail(todo[r]) \in Seq(MemberWrite \cup HubWrite)
    BY <2>1, WriteAtHead DEF RequestInv, PlanInv
  <2>3. loaded' \in [Requests -> [Users -> Roles \cup {Unset}]]
    BY <1>5, <2>2 DEF Flush, TypeOK, RoleOrNone
  <2>4. draft' \in [Requests -> [Users -> RoleOrNone \cup {Unset}]]
    BY <1>5, <2>2 DEF Flush, TypeOK
  <2>5. todo' \in [Requests -> Seq(MemberWrite \cup HubWrite)]
    BY <1>5, <2>2 DEF Flush, TypeOK
  <2>6. plan' \in [Requests -> {NoPlan, "insert", "update", "delete"}]
    BY <1>5 DEF Flush, TypeOK
  <2>7. QED
    BY <2>1, <2>3, <2>4, <2>5, <2>6 DEF TypeOK
<1>6. ASSUME NEW r \in Requests, WriteHub(r) PROVE TypeOK'
  <2> DEFINE t == Head(todo[r])
  <2>1. /\ AtHub(r)
        /\ UNCHANGED <<role, hub, pc, op, ctx, loaded, plan, draft, overlapped>>
        /\ todo' = [todo EXCEPT ![r] = Tail(todo[r])]
        /\ \/ draftHub' = draftHub
           \/ draftHub' = [draftHub EXCEPT ![r] = [hub EXCEPT ![t.field] = t.value]]
    BY <1>6 DEF WriteHub
  <2>2. t \in MemberWrite \cup HubWrite /\ Tail(todo[r]) \in Seq(MemberWrite \cup HubWrite)
    BY <2>1, WriteAtHead DEF AtHub
  <2>3. t \in HubWrite
    BY <2>1, <2>2 DEF AtHub, MemberWrite, HubWrite
  <2>4. [hub EXCEPT ![t.field] = t.value] \in HubRow
    <3>1. \/ t.field = "owner" /\ t.value \in Users
          \/ t.field = "archived" /\ t.value \in BOOLEAN
          \/ t.field = "deleted" /\ t.value \in BOOLEAN
      BY <2>3 DEF HubWrite
    <3> HIDE DEF t
    <3>2. hub \in HubRow
      BY DEF TypeOK
    <3>3. QED
      BY <3>1, <3>2 DEF HubRow
  <2>5. draftHub' \in [Requests -> HubRow \cup {NoHub}]
    BY <2>1, <2>4 DEF TypeOK
  <2>6. todo' \in [Requests -> Seq(MemberWrite \cup HubWrite)]
    BY <2>1, <2>2 DEF TypeOK
  <2>7. QED
    BY <2>1, <2>5, <2>6 DEF TypeOK
<1>7. ASSUME NEW r \in Requests, Commit(r) PROVE TypeOK'
  <2>1. role' \in [Users -> RoleOrNone]
    BY <1>7, ViewType DEF Commit
  <2>2. hub' \in HubRow
    BY <1>7 DEF Commit, TypeOK
  <2>3. loaded' \in [Requests -> [Users -> Roles \cup {Unset}]]
    BY <1>7 DEF Commit, TypeOK, Unread
  <2>4. overlapped' \in [Requests -> BOOLEAN]
    BY <1>7 DEF Commit, Overlap
  <2>5. End(r)
    BY <1>7 DEF Commit
  <2>6. QED
    BY <2>1, <2>2, <2>3, <2>4, <2>5, EndType DEF TypeOK
<1>8. ASSUME NEW r \in Requests, GrantChecks(r) PROVE TypeOK'
  <2>1. PICK o \in Grants :
          /\ op' = [op EXCEPT ![r] = o]
          /\ ctx' = [ctx EXCEPT ![r] = [actor |-> o.user, role |-> "owner",
                                        archived |-> hub.archived, owner |-> hub.owner]]
    BY <1>8 DEF GrantChecks
  <2> DEFINE c == [actor |-> o.user, role |-> "owner", archived |-> hub.archived, owner |-> hub.owner]
  <2>2. c \in Context
    BY <2>1 DEF TypeOK, Roles, Context, HubRow, Grants
  <2>3. c # NoCtx /\ o # NoOp /\ o \in Ops
    BY <2>2, HubAssumption DEF Ops
  <2>4. pc' \in [Requests -> Statuses] /\ \A q \in Requests : q # r => pc'[q] = pc[q]
    BY <1>8 DEF GrantChecks, TypeOK, Statuses
  <2>5. /\ op' \in [Requests -> Ops \cup {NoOp}]
        /\ op'[r] = o /\ \A q \in Requests : q # r => op'[q] = op[q]
    BY <2>1, <2>3 DEF TypeOK
  <2>6. ctx' = [ctx EXCEPT ![r] = c]
    BY <2>1
  <2> HIDE DEF c
  <2>7. /\ ctx' \in [Requests -> Context \cup {NoCtx}]
        /\ ctx'[r] = c /\ \A q \in Requests : q # r => ctx'[q] = ctx[q]
    BY <2>2, <2>6 DEF TypeOK
  <2>8. QED
    BY <1>8, <2>3, <2>4, <2>5, <2>7 DEF GrantChecks, TypeOK
<1>11. ASSUME NEW r \in Requests, Grant(r) PROVE TypeOK'
  <2> DEFINE o == op[r]
  <2>1. /\ pc[r] = "checking" /\ o \in Grants
        /\ UNCHANGED <<role, hub, ctx, draft, draftHub, overlapped>>
    BY <1>11 DEF Grant
  <2>2. o.user \in Users /\ o.role \in RoleOrNone
    BY <2>1, HubAssumption DEF Grants, RoleOrNone
  <2>3. Member(o.user, o.role) \in MemberWrite \cup HubWrite
    BY <2>2 DEF Member, MemberWrite
  <2>4. <<Member(o.user, o.role)>> \in Seq(MemberWrite \cup HubWrite)
    BY <2>3, OneInSeq, Zenon
  <2>5. \/ todo' = todo
        \/ todo' = [todo EXCEPT ![r] = <<Member(o.user, o.role)>>]
    BY <1>11 DEF Grant
  <2>6. todo' \in [Requests -> Seq(MemberWrite \cup HubWrite)]
    BY <2>4, <2>5 DEF TypeOK
  <2>7. loaded' \in [Requests -> [Users -> Roles \cup {Unset}]]
    <3>1. CASE View(r)[o.user] = NoRole
      BY <1>11, <3>1 DEF Grant, TypeOK
    <3>2. CASE View(r)[o.user] # NoRole
      <4>1. Attr(r, o.user) \in Roles
        BY <2>2, <3>2, ViewType
      <4>2. loaded' = [loaded EXCEPT ![r][o.user] = Attr(r, o.user)]
        BY <1>11, <3>2 DEF Grant
      <4>3. QED
        BY <2>2, <4>1, <4>2 DEF TypeOK
    <3>3. QED
      BY <3>1, <3>2
  <2>8. plan' \in [Requests -> {NoPlan, "insert", "update", "delete"}]
    BY <1>11 DEF Grant, TypeOK
  <2>9. /\ pc' \in [Requests -> Statuses] /\ pc'[r] = "writing"
        /\ \A q \in Requests : q # r => pc'[q] = pc[q]
    BY <1>11 DEF Grant, TypeOK, Statuses
  <2>10. op' \in [Requests -> Ops \cup {NoOp}] /\ \A q \in Requests : q # r => op'[q] = op[q]
    BY <1>11 DEF Grant, TypeOK
  <2>11. QED
    BY <2>1, <2>6, <2>7, <2>8, <2>9, <2>10 DEF TypeOK
<1>9. CASE UNCHANGED vars
  BY <1>9 DEF vars, local, TypeOK
<1>10. QED
  BY <1>1, <1>2, <1>3, <1>4, <1>5, <1>6, <1>7, <1>8, <1>9, <1>11
  DEF Next, RequestStep, Refuse, LastOwnerError, FlushFails, HubGone, Abort

-----------------------------------------------------------------------------
\* What the steps of others leave to request r: its own state, and unless they
\* overlap it or it is idle, also the rows it sees.
Undisturbed(r) ==
    /\ pc'[r] = pc[r] /\ todo'[r] = todo[r] /\ plan'[r] = plan[r] /\ draft'[r] = draft[r]
    /\ \/ loaded'[r] = loaded[r] /\ role' = role /\ overlapped'[r] = overlapped[r]
       \/ pc[r] = "idle" /\ loaded'[r] = loaded[r]
       \/ pc[r] # "idle" /\ overlapped'[r]

LEMMA UndisturbedKeeps ==
    ASSUME TypeOK, NEW r \in Requests, RequestInv(r), Undisturbed(r)
    PROVE  RequestInv(r)'
<1>1. IdleInv(r)'
  <2>1. CASE pc[r] # "idle"
    BY <2>1 DEF Undisturbed, IdleInv
  <2>2. CASE pc[r] = "idle" /\ loaded'[r] = loaded[r]
    BY <2>2 DEF Undisturbed, IdleInv, RequestInv
  <2>3. QED
    BY <2>1, <2>2 DEF Undisturbed
<1>2. PlanInv(r)'
  BY DEF Undisturbed, RequestInv, PlanInv
<1>3. CASE loaded'[r] = loaded[r] /\ role' = role /\ overlapped'[r] = overlapped[r]
  <2>1. View(r)' = View(r)
    BY <1>3 DEF Undisturbed, View
  <2>2. Demotes(r)' = Demotes(r) /\ Owners(role)' = Owners(role)
    BY <1>3 DEF Undisturbed, Demotes, Owners
  <2>3. Owners(View(r))' = Owners(View(r))
    BY <2>1 DEF Owners
  <2>4. QED
    BY <1>1, <1>2, <1>3, <2>1, <2>2, <2>3
    DEF Undisturbed, RequestInv, FreshInv, OwnerInv, PlannedInv
<1>4. CASE pc[r] = "idle" /\ loaded'[r] = loaded[r]
  <2>1. loaded'[r] = Unread /\ draft'[r] = Unread /\ plan'[r] = NoPlan
    BY <1>4 DEF Undisturbed, RequestInv, IdleInv
  <2>2. \A u \in Users : View(r)'[u] = role'[u]
    BY <2>1 DEF View, Unread
  <2>3. Owners(View(r))' = Owners(role)'
    BY <2>2 DEF Owners
  <2>4. QED
    BY <1>1, <1>2, <2>1, <2>3 DEF RequestInv, FreshInv, OwnerInv, PlannedInv, Unread
<1>5. CASE pc[r] # "idle" /\ overlapped'[r]
  BY <1>1, <1>2, <1>5 DEF RequestInv, FreshInv, OwnerInv, PlannedInv
<1>6. QED
  BY <1>3, <1>4, <1>5 DEF Undisturbed

LEMMA OthersUndisturbed ==
    ASSUME IInv, NEW r \in Requests, NEW q \in Requests, q # r, RequestStep(q)
    PROVE  Undisturbed(r)
<1> USE DEF IInv
<1>1. CASE Authorize(q)
  BY <1>1 DEF Authorize, Undisturbed, TypeOK
<1>2. CASE Proceed(q)
  <2>1. \/ loaded' = [loaded EXCEPT ![q][op[q].user] = Attr(q, op[q].user)]
        \/ loaded' = loaded
    BY <1>2 DEF Proceed
  <2>2. loaded'[r] = loaded[r]
    BY <2>1 DEF TypeOK
  <2>3. QED
    BY <1>2, <2>2 DEF Proceed, Undisturbed, TypeOK
<1>3. CASE Fail(q)
  BY <1>3 DEF Fail, End, Undisturbed, TypeOK
<1>4. CASE Skip(q) \/ Prepare(q)
  <2>1. \/ loaded' = loaded
        \/ \E x \in RoleOrNone \cup {Unset} : loaded' = [loaded EXCEPT ![q][Head(todo[q]).user] = x]
    <3>1. AtMember(q)
      BY <1>4 DEF Skip, Prepare
    <3>2. Attr(q, Head(todo[q]).user) \in RoleOrNone
      BY <3>1, WriteAtHead, ViewType DEF AtMember
    <3>3. QED
      BY <1>4, <3>2 DEF Skip, Prepare
  <2>2. loaded'[r] = loaded[r]
    BY <2>1 DEF TypeOK
  <2>3. QED
    BY <1>4, <2>2 DEF Skip, Prepare, Undisturbed, TypeOK
<1>5. CASE Flush(q)
  BY <1>5 DEF Flush, Undisturbed, TypeOK
<1>6. CASE WriteHub(q)
  BY <1>6 DEF WriteHub, Undisturbed, TypeOK
<1>7. CASE Commit(q)
  <2>1. pc'[r] = pc[r] /\ todo'[r] = todo[r] /\ plan'[r] = plan[r] /\ draft'[r] = draft[r]
    BY <1>7 DEF Commit, End, TypeOK
  <2>2. pc[r] # "idle" => overlapped'[r]
    BY <1>7 DEF Commit, Overlap
  <2>3. pc[r] = "idle" => loaded'[r] = loaded[r]
    <3>1. SUFFICES ASSUME pc[r] = "idle" PROVE loaded'[r] = loaded[r]
      OBVIOUS
    <3>2. loaded[r] = Unread
      BY <3>1 DEF RequestInv, IdleInv
    <3>3. loaded'[r] = [u \in Users |-> IF draft[q][u] = NoRole THEN Unset ELSE loaded[r][u]]
      BY <1>7 DEF Commit
    <3>4. QED
      BY <3>2, <3>3 DEF Unread
  <2>4. QED
    BY <2>1, <2>2, <2>3 DEF Undisturbed
<1>8. CASE GrantChecks(q)
  BY <1>8 DEF GrantChecks, Undisturbed, TypeOK
<1>9. CASE Grant(q)
  <2>1. loaded' = loaded \/ loaded' = [loaded EXCEPT ![q][op[q].user] = Attr(q, op[q].user)]
    BY <1>9 DEF Grant
  <2>2. loaded'[r] = loaded[r]
    BY <2>1 DEF TypeOK
  <2>3. QED
    BY <1>9, <2>2 DEF Grant, Undisturbed, TypeOK
<1>10. QED
  BY <1>1, <1>2, <1>3, <1>4, <1>5, <1>6, <1>7, <1>8, <1>9
  DEF RequestStep, Refuse, LastOwnerError, FlushFails, HubGone, Abort
-----------------------------------------------------------------------------
(* The steps of request r itself. *)

LEMMA EndKeeps ==
    ASSUME TypeOK, NEW r \in Requests, End(r), loaded'[r] = Unread
    PROVE  RequestInv(r)'
<1>1. draft'[r] = Unread /\ plan'[r] = NoPlan
  BY DEF End, TypeOK
<1>2. \A u \in Users : View(r)'[u] = role'[u]
  BY <1>1 DEF View, Unread
<1>3. Owners(View(r))' = Owners(role)'
  BY <1>2 DEF Owners
<1>4. QED
  BY <1>1, <1>3
  DEF RequestInv, IdleInv, PlanInv, FreshInv, OwnerInv, PlannedInv, Unread

LEMMA AuthorizeKeeps ==
    ASSUME IInv, NEW r \in Requests, Authorize(r)
    PROVE  RequestInv(r)'
<1>1. /\ draft[r] = Unread /\ loaded[r] = Unread /\ plan[r] = NoPlan
      /\ UNCHANGED <<role, plan, draft, overlapped>>
  BY DEF Authorize, IInv, RequestInv, IdleInv
<1>2. pc'[r] = "checking"
  BY DEF Authorize, IInv, TypeOK
<1>3. \A u \in Users : View(r)'[u] = role[u]
  BY <1>1 DEF View, Unread
<1>4. \A u \in Users : loaded'[r][u] # Unset => loaded'[r][u] = role[u]
  <2>1. PICK a \in Users :
          loaded' = [loaded EXCEPT ![r][a] = IF role[a] # NoRole THEN role[a] ELSE Unset]
    BY DEF Authorize
  <2>2. QED
    BY <1>1, <2>1 DEF IInv, TypeOK, Unread
<1>5. Owners(View(r))' = Owners(role)'
  BY <1>1, <1>3 DEF Owners
<1>6. QED
  BY <1>1, <1>2, <1>3, <1>4, <1>5
  DEF RequestInv, IdleInv, PlanInv, FreshInv, OwnerInv, PlannedInv

\* A step that reads rows and writes none: what it reads is what is there.
LEMMA ReadingKeeps ==
    ASSUME IInv, NEW r \in Requests, NEW u \in Users,
           UNCHANGED <<role, draft, overlapped>>, pc'[r] # "idle",
           \/ loaded' = loaded
           \/ loaded' = [loaded EXCEPT ![r][u] = Attr(r, u)]
           \/ loaded' = [loaded EXCEPT ![r][u] = Unset]
    PROVE  IdleInv(r)' /\ FreshInv(r)' /\ OwnerInv(r)' /\ View(r)' = View(r)
<1>1. View(r)' = View(r)
  BY DEF View
<1>2. Owners(View(r))' = Owners(View(r)) /\ Owners(role)' = Owners(role)
  BY <1>1 DEF Owners
<1>3. FreshInv(r)'
  <2>1. SUFFICES ASSUME ~overlapped[r]
                 PROVE \A v \in Users : loaded'[r][v] # Unset => loaded'[r][v] = View(r)[v]
    BY <1>1 DEF FreshInv
  <2>2. \A v \in Users : loaded[r][v] # Unset => loaded[r][v] = View(r)[v]
    BY <2>1 DEF IInv, RequestInv, FreshInv
  <2>3. Attr(r, u) = View(r)[u]
    BY <2>2 DEF Attr
  <2>4. QED
    BY <2>2, <2>3 DEF IInv, TypeOK
<1>4. QED
  BY <1>1, <1>2, <1>3 DEF IInv, RequestInv, IdleInv, OwnerInv

LEMMA ProceedKeeps ==
    ASSUME IInv, NEW r \in Requests, Proceed(r)
    PROVE  RequestInv(r)'
<1>1. pc[r] = "checking" /\ UNCHANGED <<role, draft, overlapped, plan>> /\ op[r] \in Ops
  BY DEF Proceed, IInv, TypeOK
<1>2. pc'[r] = "writing" /\ plan[r] = NoPlan
  BY <1>1 DEF Proceed, IInv, TypeOK, RequestInv, PlanInv
<1>3. \E u \in Users :
        \/ loaded' = loaded
        \/ loaded' = [loaded EXCEPT ![r][u] = Attr(r, u)]
  <2>1. CASE op[r].kind \in {"update", "remove"}
    <3>1. op[r].user \in Users
      BY <1>1, <2>1 DEF Ops, RouteOps, Grants
    <3>2. QED
      BY <2>1, <3>1 DEF Proceed
  <2>2. CASE op[r].kind \notin {"update", "remove"}
    BY <2>2, HubAssumption DEF Proceed
  <2>3. QED
    BY <2>1, <2>2
<1>4. IdleInv(r)' /\ FreshInv(r)' /\ OwnerInv(r)'
  BY <1>1, <1>2, <1>3, ReadingKeeps
<1>5. QED
  BY <1>1, <1>2, <1>4 DEF RequestInv, PlanInv, PlannedInv

LEMMA GrantChecksKeeps ==
    ASSUME IInv, NEW r \in Requests, GrantChecks(r)
    PROVE  RequestInv(r)'
<1>1. /\ draft[r] = Unread /\ loaded[r] = Unread /\ plan[r] = NoPlan
      /\ UNCHANGED <<role, loaded, plan, draft, overlapped>>
  BY DEF GrantChecks, IInv, RequestInv, IdleInv
<1>2. pc'[r] = "checking"
  BY DEF GrantChecks, IInv, TypeOK
<1>3. \A u \in Users : View(r)'[u] = role[u]
  BY <1>1 DEF View, Unread
<1>4. Owners(View(r))' = Owners(role)'
  BY <1>1, <1>3 DEF Owners
<1>5. QED
  BY <1>1, <1>2, <1>4
  DEF RequestInv, IdleInv, PlanInv, FreshInv, OwnerInv, PlannedInv, Unread

\* A grant takes the place of no row: an owner is still one afterwards.
LEMMA GrantKeeps ==
    ASSUME IInv, NEW r \in Requests, Grant(r)
    PROVE  RequestInv(r)'
<1> DEFINE u == op[r].user
<1>1. /\ pc[r] = "checking" /\ op[r] \in Grants
      /\ UNCHANGED <<role, draft, overlapped>>
  BY DEF Grant
<1>2. u \in Users /\ pc'[r] = "writing" /\ plan[r] = NoPlan
  BY <1>1 DEF Grant, Grants, IInv, TypeOK, RequestInv, PlanInv
<1>3. loaded' = loaded \/ loaded' = [loaded EXCEPT ![r][u] = Attr(r, u)]
  BY DEF Grant
<1>4. IdleInv(r)' /\ FreshInv(r)' /\ OwnerInv(r)' /\ View(r)' = View(r)
  BY <1>1, <1>2, <1>3, ReadingKeeps
<1>5. CASE View(r)[u] = NoRole
  <2> DEFINE t == Member(u, op[r].role)
  <2>1. plan'[r] = "insert" /\ todo'[r] = <<t>>
    BY <1>5 DEF Grant, IInv, TypeOK
  <2>2. t.what = "member" /\ t.user = u
    BY DEF Member
  <2> HIDE DEF t
  <2>3. todo'[r] # <<>> /\ Head(todo'[r]) = t
    BY <2>1
  <2>4. PlanInv(r)'
    BY <1>2, <2>1, <2>2, <2>3 DEF PlanInv
  <2>5. PlannedInv(r)'
    <3>1. SUFFICES ASSUME ~overlapped[r], Owners(role) # {}
                   PROVE \E v \in Users : v # u /\ View(r)[v] = "owner"
      BY <1>1, <1>4, <2>2, <2>3 DEF PlannedInv, Owners
    <3>2. Owners(View(r)) # {}
      BY <3>1 DEF IInv, RequestInv, OwnerInv
    <3>3. QED
      BY <1>5, <3>2, HubAssumption DEF Owners, Roles
  <2>6. QED
    BY <1>4, <2>4, <2>5 DEF RequestInv
<1>6. CASE View(r)[u] # NoRole
  <2>1. plan'[r] = NoPlan
    BY <1>2, <1>6 DEF Grant
  <2>2. QED
    BY <1>4, <2>1 DEF RequestInv, PlanInv, PlannedInv
<1>7. QED
  BY <1>5, <1>6

LEMMA SkipKeeps ==
    ASSUME IInv, NEW r \in Requests, Skip(r)
    PROVE  RequestInv(r)'
<1> DEFINE u == Head(todo[r]).user
<1>1. AtMember(r) /\ UNCHANGED <<role, draft, overlapped, plan, pc>>
  BY DEF Skip
<1>2. u \in Users /\ pc'[r] # "idle" /\ plan'[r] = NoPlan
  BY <1>1, WriteAtHead DEF AtMember, IInv
<1>3. loaded' = loaded \/ loaded' = [loaded EXCEPT ![r][u] = Attr(r, u)]
  BY DEF Skip
<1>4. IdleInv(r)' /\ FreshInv(r)' /\ OwnerInv(r)'
  BY <1>1, <1>2, <1>3, ReadingKeeps
<1>5. QED
  BY <1>2, <1>4 DEF RequestInv, PlanInv, PlannedInv
\* The guard of the last owner: a write that takes ownership from someone
\* leaves it with someone else.
LEMMA PrepareKeeps ==
    ASSUME IInv, NEW r \in Requests, Prepare(r)
    PROVE  RequestInv(r)'
<1> DEFINE u == Head(todo[r]).user
<1>1. AtMember(r) /\ UNCHANGED <<role, draft, overlapped, pc, todo>>
  BY DEF Prepare
<1>2. u \in Users /\ pc'[r] = "writing" /\ todo'[r] = todo[r]
  BY <1>1, WriteAtHead DEF AtMember, IInv
<1>3. /\ \/ loaded' = [loaded EXCEPT ![r][u] = Attr(r, u)]
         \/ loaded' = [loaded EXCEPT ![r][u] = Unset]
      /\ View(r)[u] = NoRole \/ ~(Demotes(r) /\ LosesLastOwner(r, u))
  BY DEF Prepare
<1>4. IdleInv(r)' /\ FreshInv(r)' /\ OwnerInv(r)' /\ View(r)' = View(r)
  BY <1>1, <1>2, <1>3, ReadingKeeps
<1>5. PlanInv(r)'
  <2>1. plan'[r] = "delete" => Head(todo[r]).role = NoRole
    BY DEF Prepare, IInv, TypeOK
  <2>2. QED
    BY <1>1, <1>2, <2>1 DEF PlanInv, AtMember
<1>6. PlannedInv(r)'
  <2>1. SUFFICES ASSUME ~overlapped[r], Demotes(r), Owners(role) # {}
                 PROVE \E v \in Users : v # u /\ View(r)[v] = "owner"
    <3>1. Demotes(r)' = Demotes(r)
      BY <1>2 DEF Demotes
    <3>2. QED
      BY <1>1, <1>2, <1>4, <3>1 DEF PlannedInv, Owners
  <2>2. Owners(View(r)) # {} /\ (loaded[r][u] # Unset => loaded[r][u] = View(r)[u])
    BY <1>2, <2>1 DEF IInv, RequestInv, OwnerInv, FreshInv
  <2>3. CASE View(r)[u] # "owner"
    BY <2>2, <2>3 DEF Owners
  <2>4. CASE View(r)[u] = "owner"
    <3>1. Attr(r, u) = "owner"
      BY <2>2, <2>4 DEF Attr
    <3>2. View(r)[u] # NoRole
      BY <2>4, HubAssumption DEF Roles
    <3>3. ~(Cardinality(Owners(View(r))) <= 1)
      BY <1>3, <2>1, <3>1, <3>2 DEF LosesLastOwner
    <3>4. Owners(View(r)) \ {u} # {}
      BY <1>2, <2>4, <3>3, AnotherOwner
    <3>5. QED
      BY <3>4 DEF Owners
  <2>5. QED
    BY <2>3, <2>4
<1>7. QED
  BY <1>4, <1>5, <1>6 DEF RequestInv

LEMMA FlushKeeps ==
    ASSUME IInv, NEW r \in Requests, Flush(r)
    PROVE  RequestInv(r)'
<1> DEFINE t == Head(todo[r])
<1>1. plan[r] # NoPlan /\ UNCHANGED <<role, overlapped, pc>>
  BY DEF Flush
<1>2. pc[r] = "writing" /\ (plan[r] = "delete" => t.role = NoRole)
  BY <1>1 DEF IInv, RequestInv, PlanInv
<1>3. t.user \in Users /\ t.role \in RoleOrNone
  BY <1>1, WriteAtHead DEF IInv, RequestInv, PlanInv
<1>4. plan'[r] = NoPlan
  BY DEF Flush, IInv, TypeOK
<1>5. \/ t.role # Unset /\ draft' = [draft EXCEPT ![r][t.user] = t.role]
      \/ t.role = NoRole /\ draft' = [draft EXCEPT ![r][t.user] = Unset]
  BY <1>2, <1>3, HubAssumption DEF Flush, RoleOrNone
<1>6. loaded' = [loaded EXCEPT ![r][t.user] = IF t.role = NoRole THEN Unset ELSE t.role]
  BY DEF Flush
<1>7. \A v \in Users : v # t.user => View(r)'[v] = View(r)[v]
  BY <1>1, <1>3, <1>5 DEF View, IInv, TypeOK
<1>8. t.role # NoRole => View(r)'[t.user] = t.role
  BY <1>1, <1>3, <1>5 DEF View, IInv, TypeOK
<1>9. FreshInv(r)'
  <2>1. SUFFICES ASSUME ~overlapped[r], NEW v \in Users, loaded'[r][v] # Unset
                 PROVE loaded'[r][v] = View(r)'[v]
    BY <1>1 DEF FreshInv
  <2>2. CASE v = t.user
    BY <1>3, <1>6, <1>8, <2>1, <2>2 DEF IInv, TypeOK
  <2>3. CASE v # t.user
    <3>1. loaded'[r][v] = loaded[r][v]
      BY <1>3, <1>6, <2>3 DEF IInv, TypeOK
    <3>2. QED
      BY <1>7, <2>1, <2>3, <3>1 DEF IInv, RequestInv, FreshInv
  <2>4. QED
    BY <2>2, <2>3
<1>10. OwnerInv(r)'
  <2>1. SUFFICES ASSUME ~overlapped[r], Owners(role) # {}
                 PROVE \E v \in Users : View(r)'[v] = "owner"
    BY <1>1 DEF OwnerInv, Owners
  <2>2. CASE Demotes(r)
    <3>1. PICK v \in Users : v # t.user /\ View(r)[v] = "owner"
      BY <1>1, <2>1, <2>2 DEF IInv, RequestInv, PlannedInv
    <3>2. QED
      BY <1>7, <3>1
  <2>3. CASE ~Demotes(r)
    BY <1>3, <1>8, <2>3, HubAssumption DEF Demotes, Roles
  <2>4. QED
    BY <2>2, <2>3
<1>11. QED
  BY <1>1, <1>2, <1>4, <1>9, <1>10
  DEF RequestInv, IdleInv, PlanInv, PlannedInv

LEMMA WriteHubKeeps ==
    ASSUME IInv, NEW r \in Requests, WriteHub(r)
    PROVE  RequestInv(r)'
<1>1. /\ UNCHANGED <<role, pc, loaded, plan, draft, overlapped>>
      /\ AtHub(r)
  BY DEF WriteHub
<1>2. plan[r] = NoPlan
  BY <1>1 DEF AtHub, IInv, RequestInv, PlanInv
<1>3. View(r)' = View(r)
  BY <1>1 DEF View
<1>4. Owners(View(r))' = Owners(View(r)) /\ Owners(role)' = Owners(role)
  BY <1>1, <1>3 DEF Owners
<1>5. QED
  BY <1>1, <1>2, <1>3, <1>4
  DEF IInv, RequestInv, IdleInv, PlanInv, FreshInv, OwnerInv, PlannedInv

LEMMA OwnStepKeeps ==
    ASSUME IInv, NEW r \in Requests, RequestStep(r)
    PROVE  RequestInv(r)'
<1>1. CASE Fail(r)
  <2>1. End(r) /\ loaded'[r] = Unread
    BY <1>1 DEF Fail, IInv, TypeOK
  <2>2. QED
    BY <2>1, EndKeeps DEF IInv
<1>2. CASE Commit(r)
  <2>1. End(r) /\ loaded'[r] = Unread
    BY <1>2 DEF Commit
  <2>2. QED
    BY <2>1, EndKeeps DEF IInv
<1>3. QED
  BY <1>1, <1>2, AuthorizeKeeps, ProceedKeeps, GrantChecksKeeps, GrantKeeps, SkipKeeps, PrepareKeeps, FlushKeeps, WriteHubKeeps
  DEF RequestStep, Refuse, LastOwnerError, FlushFails, HubGone, Abort

LEMMA StepKeepsIInv == IInv /\ [Next]_vars => IInv'
<1>1. SUFFICES ASSUME IInv, [Next]_vars PROVE IInv'
  OBVIOUS
<1>2. TypeOK'
  BY <1>1, TypeStep
<1>3. ASSUME NEW r \in Requests PROVE RequestInv(r)'
  <2>1. CASE RequestStep(r)
    BY <1>1, <2>1, OwnStepKeeps
  <2>2. ASSUME NEW q \in Requests, q # r, RequestStep(q) PROVE RequestInv(r)'
    BY <1>1, <2>2, OthersUndisturbed, UndisturbedKeeps DEF IInv
  <2>4. CASE UNCHANGED vars
    <3>1. Undisturbed(r)
      BY <2>4 DEF vars, local, Undisturbed
    <3>2. QED
      BY <1>1, <3>1, UndisturbedKeeps DEF IInv
  <2>5. QED
    BY <1>1, <2>1, <2>2, <2>4 DEF Next
<1>4. QED
  BY <1>2, <1>3 DEF IInv

-----------------------------------------------------------------------------
\* Every reachable state is well typed, for any users and number of requests.
THEOREM TypeCorrectness == Spec => []TypeOK
<1>1. IInv => TypeOK
  BY DEF IInv
<1>2. QED
  BY InitIInv, StepKeepsIInv, <1>1, PTL DEF Spec

\* No request that runs alone takes the last owner away: the guards of
\* update_member_role, remove_hub_member, upsert_member and remove_member are
\* enough without concurrency, in every order of the writes of a route.
THEOREM LastOwnerStays == Spec => KeepsOwner
<1>1. IInv /\ [Next]_vars =>
        [\A r \in Requests :
            Commit(r) /\ ~overlapped[r] /\ Owners(role) # {} => Owners(role') # {}]_vars
  <2>1. SUFFICES ASSUME IInv, NEW r \in Requests,
                        Commit(r), ~overlapped[r], Owners(role) # {}
                 PROVE  Owners(role') # {}
    OBVIOUS
  <2>2. Owners(View(r)) # {}
    BY <2>1 DEF IInv, RequestInv, OwnerInv
  <2>3. QED
    BY <2>1, <2>2 DEF Commit
<1>2. QED
  BY InitIInv, StepKeepsIInv, <1>1, PTL DEF Spec, KeepsOwner
-----------------------------------------------------------------------------
(* OwnersMadeByOwners and ArchivedIsFrozen: what the context a request was  *)
(* let in with says of what it may still write.                            *)

\* A write of membership rows comes of a hub that was not archived, one that
\* makes an owner comes from an owner.
MayWriteRole(r, x) == ~ctx[r].archived /\ (x = "owner" => ctx[r].role = "owner")

LetInInv(r) ==
    pc[r] = "checking" =>
        /\ op[r].kind \notin AllowArchived => ~ctx[r].archived
        /\ op[r].kind \in {"transfer", "grant"} => ctx[r].role = "owner"
PlansInv(r) ==
    pc[r] = "writing" =>
        \A i \in 1 .. Len(todo[r]) : todo[r][i].what = "member" => MayWriteRole(r, todo[r][i].role)
WroteInv(r) ==
    pc[r] # "idle" => \A u \in Users : draft[r][u] # Unset => MayWriteRole(r, draft[r][u])
\* The context grows stale by a commit of others only.
ContextInv(r) == pc[r] # "idle" /\ ~overlapped[r] => ctx[r].archived = hub.archived

RightsInv(r) == LetInInv(r) /\ PlansInv(r) /\ WroteInv(r) /\ ContextInv(r)

\* What is left of todo was in it.
LEMMA TailOfTodo ==
    ASSUME TypeOK, NEW r \in Requests, todo[r] # <<>>
    PROVE  /\ Head(todo[r]) = todo[r][1] /\ 1 \in 1 .. Len(todo[r])
           /\ \A i \in 1 .. Len(Tail(todo[r])) : i + 1 \in 1 .. Len(todo[r]) /\ Tail(todo[r])[i] = todo[r][i + 1]
<1>1. todo[r] \in Seq(MemberWrite \cup HubWrite)
  BY DEF TypeOK
<1>2. /\ Len(todo[r]) \in Nat \ {0} /\ Head(todo[r]) = todo[r][1]
      /\ Len(Tail(todo[r])) = Len(todo[r]) - 1
      /\ \A i \in 1 .. Len(Tail(todo[r])) : Tail(todo[r])[i] = todo[r][i + 1]
  BY <1>1
<1> QED
  BY <1>2

LEMMA RightsOfEnded == ASSUME TypeOK, NEW r \in Requests, End(r) PROVE RightsInv(r)'
<1>1. pc'[r] = "idle"
  BY DEF TypeOK, End
<1> QED
  BY <1>1 DEF RightsInv, LetInInv, PlansInv, WroteInv, ContextInv

LEMMA RightsOfAuthorized == ASSUME IInv, NEW r \in Requests, Authorize(r) PROVE RightsInv(r)'
<1>1. PICK a \in Users, o \in RouteOps :
        LET effective == IF a \in Admins THEN "owner" ELSE role[a] IN
        /\ a \in Admins \/ role[a] # NoRole
        /\ OpenFor(o.kind)
        /\ Rank(effective) >= Rank(MinRole(o.kind))
        /\ op' = [op EXCEPT ![r] = o]
        /\ ctx' = [ctx EXCEPT ![r] = [actor |-> a, role |-> effective,
                                      archived |-> hub.archived, owner |-> hub.owner]]
  BY DEF Authorize
<1> DEFINE effective == IF a \in Admins THEN "owner" ELSE role[a]
<1>2. /\ op'[r] = o /\ ctx'[r].role = effective /\ ctx'[r].archived = hub.archived
      /\ pc'[r] = "checking" /\ draft'[r] = Unread /\ UNCHANGED <<hub, overlapped>>
  <2>1. draft[r] = Unread
    BY DEF Authorize, IInv, RequestInv, IdleInv
  <2> QED
    BY <1>1, <2>1 DEF Authorize, IInv, TypeOK
<1>3. o.kind = "transfer" => effective = "owner"
  <2>1. effective \in Roles
    BY <1>1 DEF IInv, TypeOK, RoleOrNone, Roles
  <2>2. o.kind = "transfer" => Rank(effective) >= 4
    BY <1>1 DEF MinRole, Rank
  <2> HIDE DEF effective
  <2> QED
    BY <2>1, <2>2 DEF Roles, Rank
<1>4. o.kind \notin AllowArchived => ~hub.archived
  BY <1>1 DEF OpenFor
<1> QED
  BY <1>2, <1>3, <1>4 DEF RightsInv, LetInInv, PlansInv, WroteInv, ContextInv, Unread, RouteOps

LEMMA RightsOfGrantChecked == ASSUME IInv, NEW r \in Requests, GrantChecks(r) PROVE RightsInv(r)'
<1>1. PICK o \in Grants :
        /\ ~hub.archived
        /\ op' = [op EXCEPT ![r] = o]
        /\ ctx' = [ctx EXCEPT ![r] = [actor |-> o.user, role |-> "owner",
                                      archived |-> hub.archived, owner |-> hub.owner]]
  BY DEF GrantChecks
<1>2. /\ op'[r] = o /\ ctx'[r].role = "owner" /\ ctx'[r].archived = hub.archived
      /\ pc'[r] = "checking" /\ draft'[r] = Unread /\ UNCHANGED <<hub, overlapped>>
  <2>1. draft[r] = Unread
    BY DEF GrantChecks, IInv, RequestInv, IdleInv
  <2> QED
    BY <1>1, <2>1 DEF GrantChecks, IInv, TypeOK
<1> QED
  BY <1>1, <1>2 DEF RightsInv, LetInInv, PlansInv, WroteInv, ContextInv, Unread, Grants

LEMMA RightsOfGranting == ASSUME IInv, NEW r \in Requests, RightsInv(r), Grant(r) PROVE RightsInv(r)'
<1> DEFINE o == op[r]
<1>1. /\ pc[r] = "checking" /\ o \in Grants /\ pc'[r] = "writing"
      /\ UNCHANGED <<hub, ctx, draft, overlapped>>
  BY DEF Grant, IInv, TypeOK
<1>2. ~ctx[r].archived /\ ctx[r].role = "owner"
  BY <1>1 DEF RightsInv, LetInInv, Grants, AllowArchived
<1>3. \A x : MayWriteRole(r, x) /\ MayWriteRole(r, x)'
  BY <1>1, <1>2 DEF MayWriteRole
<1> QED
  BY <1>1, <1>2, <1>3 DEF RightsInv, LetInInv, PlansInv, WroteInv, ContextInv

LEMMA RightsOfProceeding == ASSUME IInv, NEW r \in Requests, RightsInv(r), Proceed(r) PROVE RightsInv(r)'
<1> DEFINE o == op[r]
<1>1. /\ pc[r] = "checking" /\ Allowed(r, o) /\ o \in RouteOps /\ todo'[r] = Writes(r, o)
      /\ pc'[r] = "writing" /\ UNCHANGED <<hub, ctx, draft, overlapped>>
  BY DEF Proceed, IInv, TypeOK, Ops
<1>2. ASSUME NEW i \in 1 .. Len(Writes(r, o)), Writes(r, o)[i].what = "member"
      PROVE  MayWriteRole(r, Writes(r, o)[i].role)
  <2>1. CASE o.kind \in {"add", "update"}
    <3>1. Writes(r, o) = <<Member(o.user, o.role)>> /\ MayGrant(r, o.role)
      BY <1>1, <2>1 DEF Writes, Allowed
    <3>2. Writes(r, o)[i].role = o.role
      BY <3>1 DEF Member
    <3> QED
      BY <1>1, <2>1, <3>1, <3>2 DEF MayGrant, MayWriteRole, RightsInv, LetInInv, AllowArchived
  <2>2. CASE o.kind = "remove"
    <3>1. Writes(r, o) = <<Member(o.user, NoRole)>>
      BY <2>2 DEF Writes
    <3>2. Writes(r, o)[i].role = NoRole /\ NoRole # "owner"
      BY <3>1, HubAssumption DEF Member, Roles
    <3> QED
      BY <1>1, <2>2, <3>2 DEF MayWriteRole, RightsInv, LetInInv, AllowArchived
  <2>3. CASE o.kind = "transfer"
    BY <1>1, <2>3 DEF MayWriteRole, RightsInv, LetInInv, AllowArchived
  <2>4. CASE o.kind \in {"archive", "unarchive", "delete"}
    <3>1. \E f, v : Writes(r, o) = <<Column(f, v)>>
      BY <2>4 DEF Writes
    <3>2. Writes(r, o)[i].what = "hub"
      BY <3>1 DEF Column
    <3> QED
      BY <1>2, <3>2
  <2> QED
    BY <1>1, <2>1, <2>2, <2>3, <2>4 DEF RouteOps
<1> HIDE DEF o
<1> QED
  BY <1>1, <1>2 DEF RightsInv, LetInInv, PlansInv, WroteInv, ContextInv, MayWriteRole

\* The writes themselves.
LEMMA RightsOfWriting ==
    ASSUME IInv, NEW r \in Requests, RightsInv(r), Skip(r) \/ Prepare(r) \/ Flush(r) \/ WriteHub(r)
    PROVE  RightsInv(r)'
<1>1. /\ pc[r] = "writing" /\ todo[r] # <<>>
      /\ UNCHANGED <<hub, pc, ctx, overlapped>>
      /\ todo'[r] \in {todo[r], Tail(todo[r])}
  <2>1. CASE Skip(r) \/ Prepare(r)
    BY <2>1 DEF Skip, Prepare, AtMember, IInv, TypeOK
  <2>2. CASE Flush(r)
    BY <2>2 DEF Flush, IInv, TypeOK, RequestInv, PlanInv
  <2>3. CASE WriteHub(r)
    BY <2>3 DEF WriteHub, AtHub, IInv, TypeOK
  <2> QED
    BY <2>1, <2>2, <2>3
<1>2. PlansInv(r)'
  <2>1. \A i \in 1 .. Len(todo[r]) : todo[r][i].what = "member" => MayWriteRole(r, todo[r][i].role)
    BY <1>1 DEF RightsInv, PlansInv
  <2>2. CASE todo'[r] = todo[r]
    BY <1>1, <2>1, <2>2 DEF PlansInv, MayWriteRole
  <2>3. CASE todo'[r] = Tail(todo[r])
    BY <1>1, <2>1, <2>3, TailOfTodo DEF PlansInv, MayWriteRole, IInv
  <2> QED
    BY <1>1, <2>2, <2>3
<1>3. WroteInv(r)'
  <2>1. CASE ~Flush(r)
    <3>1. UNCHANGED draft
      BY <2>1 DEF Skip, Prepare, WriteHub
    <3> QED
      BY <1>1, <3>1 DEF RightsInv, WroteInv, MayWriteRole
  <2>2. CASE Flush(r)
    <3> DEFINE t == Head(todo[r])
    <3>1. /\ t = todo[r][1] /\ 1 \in 1 .. Len(todo[r])
      BY <1>1, TailOfTodo DEF IInv
    <3>2. t.what = "member" /\ t.user \in Users
      BY <2>2, WriteAtHead DEF Flush, IInv, RequestInv, PlanInv
    <3>3. MayWriteRole(r, t.role)
      BY <1>1, <3>1, <3>2 DEF RightsInv, PlansInv
    <3>4. \/ draft' = [draft EXCEPT ![r][t.user] = t.role]
          \/ draft' = [draft EXCEPT ![r][t.user] = Unset]
      BY <2>2 DEF Flush
    <3> HIDE DEF t
    <3>5. \A u \in Users : draft'[r][u] \in {draft[r][u], Unset} \/ (u = t.user /\ draft'[r][u] = t.role)
      BY <3>2, <3>4 DEF IInv, TypeOK
    <3> QED
      BY <1>1, <3>3, <3>5 DEF RightsInv, WroteInv, MayWriteRole
  <2> QED
    BY <2>1, <2>2
<1> QED
  BY <1>1, <1>2, <1>3 DEF RightsInv, LetInInv, ContextInv, MayWriteRole

LEMMA OwnRights == ASSUME IInv, NEW r \in Requests, RightsInv(r), RequestStep(r) PROVE RightsInv(r)'
<1>1. CASE Fail(r) \/ Commit(r)
  BY <1>1, RightsOfEnded DEF Fail, Commit, IInv
<1> QED
  BY <1>1, RightsOfAuthorized, RightsOfProceeding, RightsOfGrantChecked, RightsOfGranting, RightsOfWriting
  DEF RequestStep, Refuse, LastOwnerError, FlushFails, HubGone, Abort

\* The steps of others leave a request its rights, and change the hub only in
\* overlapping it.
LEMMA RightsOfOthers ==
    ASSUME NEW r \in Requests, RightsInv(r),
           pc'[r] = pc[r] /\ op'[r] = op[r] /\ ctx'[r] = ctx[r] /\ todo'[r] = todo[r] /\ draft'[r] = draft[r],
           (hub' = hub /\ overlapped'[r] = overlapped[r]) \/ pc[r] = "idle" \/ overlapped'[r]
    PROVE  RightsInv(r)'
  BY DEF RightsInv, LetInInv, PlansInv, WroteInv, ContextInv, MayWriteRole

LEMMA OthersKeepRights ==
    ASSUME IInv, NEW r \in Requests, NEW q \in Requests, q # r, RightsInv(r), RequestStep(q)
    PROVE  RightsInv(r)'
<1>1. pc'[r] = pc[r] /\ todo'[r] = todo[r] /\ draft'[r] = draft[r]
  BY OthersUndisturbed DEF Undisturbed
<1>2. op'[r] = op[r] /\ ctx'[r] = ctx[r]
  <2>1. CASE End(q)
    BY <2>1 DEF End, IInv, TypeOK
  <2>2. CASE Authorize(q)
    BY <2>2 DEF Authorize, IInv, TypeOK
  <2>3. CASE Proceed(q) \/ GrantChecks(q) \/ Grant(q)
    BY <2>3 DEF Proceed, GrantChecks, Grant, IInv, TypeOK
  <2>4. CASE Skip(q) \/ Prepare(q) \/ Flush(q) \/ WriteHub(q)
    BY <2>4 DEF Skip, Prepare, Flush, WriteHub
  <2> QED
    BY <2>1, <2>2, <2>3, <2>4
    DEF RequestStep, Refuse, LastOwnerError, FlushFails, HubGone, Abort, Fail, Commit
<1>3. (hub' = hub /\ overlapped'[r] = overlapped[r]) \/ pc[r] = "idle" \/ overlapped'[r]
  <2>1. CASE Commit(q)
    BY <2>1 DEF Commit, Overlap
  <2>2. CASE Fail(q)
    BY <2>2 DEF Fail, IInv, TypeOK
  <2>3. CASE Authorize(q) \/ Proceed(q) \/ GrantChecks(q) \/ Grant(q) \/ Skip(q) \/ Prepare(q)
             \/ Flush(q) \/ WriteHub(q)
    BY <2>3 DEF Authorize, Proceed, GrantChecks, Grant, Skip, Prepare, Flush, WriteHub
  <2> QED
    BY <2>1, <2>2, <2>3 DEF RequestStep, Refuse, LastOwnerError, FlushFails, HubGone, Abort
<1> QED
  BY <1>1, <1>2, <1>3, RightsOfOthers

Rights == \A r \in Requests : RightsInv(r)

LEMMA RightsStep == IInv /\ Rights /\ [Next]_vars => Rights'
<1> SUFFICES ASSUME IInv, Rights, [Next]_vars, NEW r \in Requests PROVE RightsInv(r)'
  BY DEF Rights
<1>1. RightsInv(r)
  BY DEF Rights
<1>2. ASSUME NEW q \in Requests, RequestStep(q) PROVE RightsInv(r)'
  BY <1>1, <1>2, OwnRights, OthersKeepRights
<1>4. CASE UNCHANGED vars
  BY <1>1, <1>4, RightsOfOthers DEF vars, local
<1> QED
  BY <1>2, <1>4 DEF Next

LEMMA RightsInit == Init => Rights
  BY DEF Init, Rights, RightsInv, LetInInv, PlansInv, WroteInv, ContextInv

\* Ownership is handed on by owners and administrators only, however requests
\* interleave: what require_hub and the checks of the routes let pass is still
\* theirs to write when they commit.
THEOREM OwnersComeFromOwners == Spec => OwnersMadeByOwners
<1>1. IInv /\ Rights /\ [Next]_vars =>
        [\A u \in Users : role[u] # "owner" /\ role'[u] = "owner" =>
            \E r \in Requests : Commit(r) /\ ctx[r].role = "owner"]_vars
  <2> SUFFICES ASSUME Rights, Next, NEW u \in Users, role[u] # "owner", role'[u] = "owner"
               PROVE  \E r \in Requests : Commit(r) /\ ctx[r].role = "owner"
    OBVIOUS
  <2>1. PICK r \in Requests : RequestStep(r)
    BY DEF Next
  <2>2. Commit(r)
    BY <2>1 DEF RequestStep, Authorize, Proceed, GrantChecks, Grant, Refuse, LastOwnerError, Skip, Prepare, Flush, FlushFails,
                WriteHub, HubGone, Abort, Fail
  <2>3. View(r)[u] = "owner" /\ pc[r] = "writing"
    BY <2>2 DEF Commit
  <2>4. draft[r][u] # Unset /\ draft[r][u] = "owner"
    BY <2>3 DEF View
  <2>5. ctx[r].role = "owner"
    BY <2>3, <2>4 DEF Rights, RightsInv, WroteInv, MayWriteRole
  <2> QED
    BY <2>2, <2>5
<1> QED
  BY InitIInv, StepKeepsIInv, RightsInit, RightsStep, <1>1, PTL DEF Spec, OwnersMadeByOwners

\* The members of an archived hub are changed only by requests let in before,
\* which the archiving has overtaken: whatever else a request does, require_hub
\* has kept it out.
THEOREM ArchivedStaysFrozen == Spec => ArchivedIsFrozen
<1>1. IInv /\ Rights /\ [Next]_vars =>
        [hub.archived /\ role' # role =>
            \E r \in Requests : Commit(r) /\ ~ctx[r].archived /\ overlapped[r]]_vars
  <2> SUFFICES ASSUME IInv, Rights, Next, hub.archived, role' # role
               PROVE  \E r \in Requests : Commit(r) /\ ~ctx[r].archived /\ overlapped[r]
    OBVIOUS
  <2>1. PICK r \in Requests : RequestStep(r)
    BY DEF Next
  <2>2. Commit(r)
    BY <2>1 DEF RequestStep, Authorize, Proceed, GrantChecks, Grant, Refuse, LastOwnerError, Skip, Prepare, Flush, FlushFails,
                WriteHub, HubGone, Abort, Fail
  <2>3. role' = View(r) /\ pc[r] = "writing"
    BY <2>2 DEF Commit
  <2>4. PICK u \in Users : draft[r][u] # Unset
    <3>1. role \in [Users -> RoleOrNone]
      BY DEF IInv, TypeOK
    <3> QED
      BY <2>3, <3>1 DEF View
  <2>5. ~ctx[r].archived
    BY <2>3, <2>4 DEF Rights, RightsInv, WroteInv, MayWriteRole
  <2>6. overlapped[r]
    BY <2>3, <2>5 DEF Rights, RightsInv, ContextInv
  <2> QED
    BY <2>2, <2>5, <2>6
<1> QED
  BY InitIInv, StepKeepsIInv, RightsInit, RightsStep, <1>1, PTL DEF Spec, ArchivedIsFrozen

===============================================================================
