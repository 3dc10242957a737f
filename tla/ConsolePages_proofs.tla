-------------------------- MODULE ConsolePages_proofs --------------------------
(***************************************************************************)
(* Invariants of the pages that keep the console's registries, for any     *)
(* number of requests: signing in, the models, the lists and the MCP       *)
(* servers.                                                                *)
(*                                                                         *)
(* Each page has its part, here and in Console_proofs: what its state, the *)
(* gateway's and the requests under way are made of (App, Server, Sent),   *)
(* an inductive invariant (IInv), the kinds of step, and what the          *)
(* invariant shows (Shown).  A button waits for a request of its own: that *)
(* the request is still out is part of each invariant.                     *)
(*                                                                         *)
(* A second invariant of each page (FreshInv) says what is on screen in    *)
(* terms of what the gateway holds and of the answers under way, so that   *)
(* the two agree once there are none.                                      *)
(***************************************************************************)
EXTENDS Console, Integers, Sequences, FiniteSets, FunctionTheorems, FiniteSetTheorems, TLAPS

(* Requests, on every page. *)

\* A handler sends one request, or none.
NewRequest(n, ask) == [id |-> n + 1, ask |-> ask, got |-> Waiting, late |-> FALSE, acts |-> 0]

LEMMA OneAsked ==
    ASSUME NEW ask, NEW n
    PROVE  /\ {[id |-> n + i, ask |-> <<ask>>[i], got |-> Waiting, late |-> FALSE, acts |-> 0] : i \in DOMAIN <<ask>>} = {NewRequest(n, ask)}
           /\ Len(<<ask>>) = 1
<1>1. DOMAIN <<ask>> = {1} /\ <<ask>>[1] = ask /\ Len(<<ask>>) = 1
  OBVIOUS
<1> DEFINE New(i) == [id |-> n + i, ask |-> <<ask>>[i], got |-> Waiting, late |-> FALSE, acts |-> 0]
<1>2. New(1) = NewRequest(n, ask)
  BY <1>1 DEF NewRequest
<1> HIDE DEF New
<1>3. {New(i) : i \in DOMAIN <<ask>>} = {NewRequest(n, ask)}
  BY <1>1, <1>2
<1> QED
  BY <1>1, <1>3 DEF New

LEMMA NoneAsked ==
    ASSUME NEW n
    PROVE  /\ {[id |-> n + i, ask |-> <<>>[i], got |-> Waiting, late |-> FALSE, acts |-> 0] : i \in DOMAIN <<>>} = {}
           /\ Len(<<>>) = 0
OBVIOUS

\* A page starts with one request, or with two.
FirstRequest(i, ask) == [id |-> i, ask |-> ask, got |-> Waiting, late |-> FALSE, acts |-> 0]

LEMMA StartedWithOne ==
    ASSUME NEW ask
    PROVE  /\ {[id |-> i, ask |-> <<ask>>[i], got |-> Waiting, late |-> FALSE, acts |-> 0] : i \in DOMAIN <<ask>>} = {FirstRequest(1, ask)}
           /\ Len(<<ask>>) = 1
<1>1. DOMAIN <<ask>> = {1} /\ <<ask>>[1] = ask /\ Len(<<ask>>) = 1
  OBVIOUS
<1> DEFINE New(i) == [id |-> i, ask |-> <<ask>>[i], got |-> Waiting, late |-> FALSE, acts |-> 0]
<1>2. New(1) = FirstRequest(1, ask)
  BY <1>1 DEF FirstRequest
<1> HIDE DEF New
<1>3. {New(i) : i \in DOMAIN <<ask>>} = {FirstRequest(1, ask)}
  BY <1>1, <1>2
<1> QED
  BY <1>1, <1>3 DEF New

LEMMA StartedWithTwo ==
    ASSUME NEW ask, NEW other
    PROVE  /\ {[id |-> i, ask |-> <<ask, other>>[i], got |-> Waiting, late |-> FALSE, acts |-> 0] : i \in DOMAIN <<ask, other>>}
                = {FirstRequest(1, ask), FirstRequest(2, other)}
           /\ Len(<<ask, other>>) = 2
<1>1. DOMAIN <<ask, other>> = {1, 2} /\ <<ask, other>>[1] = ask /\ <<ask, other>>[2] = other /\ Len(<<ask, other>>) = 2
  OBVIOUS
<1> DEFINE New(i) == [id |-> i, ask |-> <<ask, other>>[i], got |-> Waiting, late |-> FALSE, acts |-> 0]
<1>2. New(1) = FirstRequest(1, ask) /\ New(2) = FirstRequest(2, other)
  BY <1>1 DEF FirstRequest
<1> HIDE DEF New
<1>3. {New(i) : i \in DOMAIN <<ask, other>>} = {FirstRequest(1, ask), FirstRequest(2, other)}
  BY <1>1, <1>2
<1> QED
  BY <1>1, <1>3 DEF New

\* What a page or the gateway keeps by number: functions on some of the keys K.
Maps(K, V) == UNION {[D -> V] : D \in SUBSET K}
PutIn(f, k, v) == [x \in DOMAIN f \cup {k} |-> IF x = k THEN v ELSE f[x]]
DropFrom(f, k) == [x \in DOMAIN f \ {k} |-> f[x]]

LEMMA MapFacts ==
    ASSUME NEW K, NEW V, NEW f, f \in Maps(K, V)
    PROVE  f \in [DOMAIN f -> V] /\ DOMAIN f \subseteq K
BY DEF Maps

LEMMA MapIs ==
    ASSUME NEW K, NEW V, NEW D, D \subseteq K, NEW f, f \in [D -> V]
    PROVE  f \in Maps(K, V)
BY DEF Maps

LEMMA PutFacts ==
    ASSUME NEW K, NEW V, NEW f, f \in Maps(K, V), NEW k, k \in K, NEW v, v \in V
    PROVE  /\ PutIn(f, k, v) \in Maps(K, V) /\ DOMAIN PutIn(f, k, v) = DOMAIN f \cup {k}
           /\ PutIn(f, k, v)[k] = v /\ \A x \in DOMAIN f : x # k => PutIn(f, k, v)[x] = f[x]
<1>1. f \in [DOMAIN f -> V] /\ DOMAIN f \subseteq K
  BY MapFacts
<1>2. PutIn(f, k, v) \in [DOMAIN f \cup {k} -> V] /\ DOMAIN f \cup {k} \subseteq K
  BY <1>1 DEF PutIn
<1>3. PutIn(f, k, v) \in Maps(K, V)
  BY <1>2, MapIs
<1> QED
  BY <1>3 DEF PutIn

LEMMA DropFacts ==
    ASSUME NEW K, NEW V, NEW f, f \in Maps(K, V), NEW k
    PROVE  /\ DropFrom(f, k) \in Maps(K, V) /\ DOMAIN DropFrom(f, k) = DOMAIN f \ {k}
           /\ \A x \in DOMAIN f : x # k => DropFrom(f, k)[x] = f[x]
<1>1. f \in [DOMAIN f -> V] /\ DOMAIN f \subseteq K
  BY MapFacts
<1>2. DropFrom(f, k) \in [DOMAIN f \ {k} -> V] /\ DOMAIN f \ {k} \subseteq K
  BY <1>1 DEF DropFrom
<1>3. DropFrom(f, k) \in Maps(K, V)
  BY <1>2, MapIs
<1> QED
  BY <1>3 DEF DropFrom
-----------------------------------------------------------------------------
\* A request is answered; an answer is on time if its state has not moved on since.
Served(r) == r.got # Waiting /\ r.got # Failed
OnTime(r) == Served(r) /\ ~r.late
\* An answer under way is no longer on time: raced will be set when it comes.
Doomed == \E r \in net : Served(r) /\ r.late

\* The gateway has acted on a request: its answer, or that of a repetition, is yet to come.
Acted(r) == r.got # Failed /\ (r.got # Waiting \/ r.acts # 0)

LEMMA NewIsWaiting ==
    ASSUME NEW n, NEW ask
    PROVE  /\ NewRequest(n, ask).ask = ask /\ NewRequest(n, ask).got = Waiting /\ NewRequest(n, ask).late = FALSE
           /\ NewRequest(n, ask).id = n + 1 /\ ~Served(NewRequest(n, ask)) /\ ~OnTime(NewRequest(n, ask))
           /\ ~Acted(NewRequest(n, ask))
BY DEF NewRequest, Served, OnTime, Acted

\* The gateway serves r, which may be sent again: what the requests under way become, new.
Serves(r, new) ==
    /\ net' = {new[q] : q \in net} /\ UNCHANGED ui
    /\ new[r].ask = r.ask /\ (new[r].late => r.late) /\ (new[r].acts = 0 => r.acts = 0)
    /\ \A q \in net : q # r => /\ new[q].id = q.id /\ new[q].ask = q.ask /\ new[q].got = q.got /\ new[q].acts = q.acts
                               /\ new[q].late = (q.got # Waiting /\ (q.late \/ server' # server))

\* An answer that is on time once r is served was so before, and the gateway's state has not changed; or it is r's.
LEMMA OnTimeAfter ==
    ASSUME NEW r \in net, NEW new, Serves(r, new), NEW q \in net, OnTime(new[q]), q # r
    PROVE  OnTime(q) /\ server' = server /\ new[q].ask = q.ask /\ new[q].got = q.got
BY DEF Serves, OnTime, Served
-----------------------------------------------------------------------------
(* Signing in and out. *)

SessionLocked == {"no", "yes", "passed"}
SessionRow == [failed : Nat, locked : SessionLocked]
SessionTokens == Int \cup {None}
SessionAsks == [op : {"health"}, then : {"guard", "login"}]
        \cup [op : {"me"}, then : {"guard", "login"}, token : SessionTokens]
        \cup [op : {"logout"}, token : SessionTokens]
        \cup [op : {"login"}, mine : BOOLEAN, good : BOOLEAN, n : Int, read : SessionRow \cup {None}]
SessionSent == [id : Int, ask : SessionAsks, got : {Waiting, Failed, "done", "refused"}, late : BOOLEAN, acts : Nat]

SessionAccounts == [failed : Nat, locked : SessionLocked, bad : Nat, sessions : SUBSET Int, revoked : SUBSET SessionTokens]

SessionApp == [page : {"login", "app"}, loading : BOOLEAN, token : SessionTokens, user : BOOLEAN, enabled : BOOLEAN,
        authLoading : BOOLEAN, error : BOOLEAN, crossed : BOOLEAN]

SessionTypeInv ==
    /\ sent \in Nat /\ net \subseteq SessionSent /\ ui \in SessionApp
    /\ server \in SessionAccounts

\* The account: unless a lock has passed, a failure that counts was a wrong password.
SessionAccountInv ==
    /\ server.locked # "passed" => server.failed <= server.bad
    /\ Session!LockoutIsEarned

\* What an attempt has read of the account, beside what the account is now.
SessionReadInv(read) ==
    /\ read.locked = "passed" /\ server.locked = "passed" => read.failed = server.failed
    /\ read.locked = "no" => read.failed <= server.bad /\ server.locked # "passed"

SessionReadsInv == \A r \in net : r.ask.op = "login" /\ r.ask.read # None => SessionReadInv(r.ask.read)

SessionIInv == SessionTypeInv /\ SessionAccountInv /\ SessionReadsInv
-----------------------------------------------------------------------------
\* The accounts the app may load with.
LEMMA SessionPastAccounts ==
    ASSUME NEW past \in Session!Pasts
    PROVE  /\ past \in SessionAccounts
           /\ past.locked # "passed" => past.failed <= past.bad
           /\ past.locked # "yes"
<1>1. /\ Session!Account \in SessionAccounts
      /\ Session!Account.failed = 0 /\ Session!Account.locked = "no" /\ Session!Account.bad = 0
  BY DEF Session!Account, SessionAccounts, SessionLocked
<1>2. CASE past = [Session!Account EXCEPT !.sessions = {0}]
  BY <1>1, <1>2 DEF SessionAccounts
<1>3. CASE past = [Session!Account EXCEPT !.failed = 3, !.bad = 3]
  <2>1. LET w == [Session!Account EXCEPT !.failed = 3, !.bad = 3]
        IN  w \in SessionAccounts /\ w.failed = 3 /\ w.bad = 3 /\ w.locked = Session!Account.locked
    BY <1>1 DEF SessionAccounts
  <2>2. QED
    BY <1>1, <1>3, <2>1
<1>4. CASE past = [Session!Account EXCEPT !.failed = Session!Lockout, !.locked = "passed"]
  <2>1. LET w == [Session!Account EXCEPT !.failed = Session!Lockout, !.locked = "passed"]
        IN  w \in SessionAccounts /\ w.failed = 5 /\ w.locked = "passed"
    BY <1>1 DEF SessionAccounts, Session!Lockout, SessionLocked
  <2>2. QED
    BY <1>4, <2>1
<1>5. QED
  BY <1>2, <1>3, <1>4 DEF Session!Pasts

LEMMA SessionInitIInv == Session!Init => SessionIInv
<1> SUFFICES ASSUME Session!Init PROVE SessionIInv
  OBVIOUS
<1> PICK past \in Session!Pasts :
        Session!Started([page |-> "app", loading |-> FALSE, token |-> IF past.sessions = {} THEN None ELSE 0, user |-> FALSE,
                 enabled |-> FALSE, authLoading |-> TRUE, error |-> FALSE, crossed |-> FALSE],
                past, <<Session!Check("guard")>>)
  BY DEF Session!Init
<1>1. net = {Session!Request(1, Session!Check("guard"))} /\ sent = 1 /\ server = past
  BY DEF Session!Started
<1>2. Session!Request(1, Session!Check("guard")) \in SessionSent
  BY DEF Session!Request, Session!Check, SessionSent, SessionAsks
<1>3. ui \in SessionApp
  BY DEF Session!Started, SessionApp, SessionTokens
<1>4. SessionTypeInv
  BY <1>1, <1>2, <1>3, SessionPastAccounts DEF SessionTypeInv
<1>5. SessionAccountInv
  BY <1>1, SessionPastAccounts DEF SessionAccountInv, Session!LockoutIsEarned
<1>6. SessionReadsInv
  BY <1>1 DEF SessionReadsInv, Session!Request, Session!Check
<1>7. QED
  BY <1>4, <1>5, <1>6 DEF SessionIInv
-----------------------------------------------------------------------------
\* An account whose lock is earned, from which no wrong password is dropped and
\* which has not passed a lock meanwhile.
SessionFollows(held) ==
    /\ held \in SessionAccounts /\ held.bad >= server.bad
    /\ held.locked = "passed" => server.locked = "passed" /\ held.failed = server.failed
    /\ held.locked # "passed" => held.failed <= held.bad
    /\ held.locked = "yes" => held.bad >= Session!Lockout

\* What the gateway does to the account for an attempt, from the row it has read.
LEMMA SessionAttemptFollows ==
    ASSUME SessionIInv, NEW r \in net, r.ask.op = "login", r.ask.read # None
    PROVE  SessionFollows(Session!Effect(r))
<1>1. /\ r \in SessionSent /\ r.ask.read \in SessionRow /\ r.id \in Int
      /\ r.ask.read.failed \in Nat /\ r.ask.read.locked \in SessionLocked
  <2>1. r \in SessionSent /\ r.ask \in SessionAsks /\ r.id \in Int
    BY DEF SessionIInv, SessionTypeInv, SessionSent
  <2>2. r.ask \in [op : {"login"}, mine : BOOLEAN, good : BOOLEAN, n : Int, read : SessionRow \cup {None}]
    BY <2>1 DEF SessionAsks
  <2>3. r.ask.read \in SessionRow
    BY <2>2
  <2>4. QED
    BY <2>1, <2>3 DEF SessionRow
<1>2. SessionReadInv(r.ask.read)
  BY DEF SessionIInv, SessionReadsInv
<1>3. /\ server \in SessionAccounts /\ server.failed \in Nat /\ server.bad \in Nat
      /\ server.locked \in SessionLocked /\ server.sessions \in SUBSET Int
      /\ SessionAccountInv
  BY DEF SessionIInv, SessionTypeInv, SessionAccounts
<1>4. SessionFollows(server)
  BY <1>3 DEF SessionFollows, SessionAccountInv, Session!LockoutIsEarned, Session!Lockout
<1>5. ASSUME r.ask.read.locked # "yes" PROVE SessionFollows(Session!RightPassword(r))
  <2> DEFINE f == IF r.ask.read.failed = 0 THEN server.failed ELSE 0
             l == IF r.ask.read.locked = "no" THEN server.locked ELSE "no"
             on == server.sessions \cup {r.id}
             w == [server EXCEPT !.failed = f, !.locked = l, !.sessions = on]
  <2>1. Session!RightPassword(r) = w
    BY DEF Session!RightPassword
  <2>2. f \in Nat /\ l \in SessionLocked /\ on \in SUBSET Int
    BY <1>1, <1>3 DEF SessionLocked
  <2>3. w \in SessionAccounts /\ w.failed = f /\ w.bad = server.bad /\ w.locked = l
    <3> HIDE DEF f, l, on
    <3>1. QED
      BY <1>3, <2>2 DEF SessionAccounts
  <2> HIDE DEF w
  <2>4. QED
    BY <1>1, <1>2, <1>3, <1>5, <2>1, <2>3 DEF SessionFollows, SessionReadInv, SessionAccountInv, Session!LockoutIsEarned, Session!Lockout, SessionLocked
<1>6. ASSUME r.ask.read.locked # "yes" PROVE SessionFollows(Session!WrongPassword(r))
  <2> DEFINE f == Session!Counted(r) + 1
             l == IF f >= Session!Lockout THEN "yes" ELSE IF r.ask.read.locked = "passed" THEN "no" ELSE server.locked
             bad == server.bad + 1
             w == [server EXCEPT !.failed = f, !.bad = bad, !.locked = l]
  <2>1. Session!WrongPassword(r) = w
    BY DEF Session!WrongPassword
  <2>2. f \in Nat /\ l \in SessionLocked /\ bad \in Nat
    BY <1>1, <1>3 DEF SessionLocked, Session!Counted
  <2>3. w \in SessionAccounts /\ w.failed = f /\ w.bad = bad /\ w.locked = l
    <3> HIDE DEF f, l, bad
    <3>1. QED
      BY <1>3, <2>2 DEF SessionAccounts
  <2> HIDE DEF w
  <2>4. Session!Counted(r) <= server.bad
    BY <1>1, <1>2, <1>3, <1>6 DEF Session!Counted, SessionReadInv, SessionLocked
  <2>5. f <= server.bad + 1 /\ f # 0
    BY <1>1, <1>3, <2>4 DEF Session!Counted
  <2> HIDE DEF f
  <2>6. QED
    BY <1>1, <1>2, <1>3, <1>6, <2>1, <2>2, <2>3, <2>5 DEF SessionFollows, SessionReadInv, SessionAccountInv, Session!LockoutIsEarned, Session!Lockout, SessionLocked
<1>7. Session!Effect(r) = IF r.ask.read.locked = "yes" THEN server
                  ELSE IF r.ask.good THEN Session!RightPassword(r) ELSE Session!WrongPassword(r)
  BY DEF Session!Effect
<1>8. QED
  BY <1>4, <1>5, <1>6, <1>7

\* What it does for any other request.
LEMMA SessionOtherFollows ==
    ASSUME SessionIInv, NEW r \in net, r.ask.op # "login"
    PROVE  SessionFollows(Session!Effect(r))
<1>1. /\ server \in SessionAccounts /\ server.failed \in Nat /\ server.bad \in Nat
      /\ server.locked \in SessionLocked /\ server.sessions \in SUBSET Int /\ server.revoked \in SUBSET SessionTokens
      /\ SessionAccountInv
  BY DEF SessionIInv, SessionTypeInv, SessionAccounts
<1>2. SessionFollows(server)
  BY <1>1 DEF SessionFollows, SessionAccountInv, Session!LockoutIsEarned, Session!Lockout
<1>3. CASE r.ask.op = "logout"
  <2>1. r.ask \in SessionAsks
    BY DEF SessionIInv, SessionTypeInv, SessionSent
  <2>2. r.ask \in [op : {"logout"}, token : SessionTokens]
    BY <1>3, <2>1 DEF SessionAsks
  <2>3. server.revoked \cup server.sessions \cup {r.ask.token} \in SUBSET SessionTokens
    BY <1>1, <2>2 DEF SessionTokens
  <2>4. Session!LoggedOutAll(r) \in SessionAccounts /\ Session!LoggedOutAll(r).failed = server.failed
        /\ Session!LoggedOutAll(r).bad = server.bad /\ Session!LoggedOutAll(r).locked = server.locked
    BY <1>1, <2>3 DEF Session!LoggedOutAll, SessionAccounts
  <2>5. Session!Effect(r) = Session!LoggedOutAll(r)
    BY <1>3 DEF Session!Effect
  <2>6. QED
    BY <1>2, <2>4, <2>5 DEF SessionFollows
<1>4. CASE r.ask.op # "logout"
  BY <1>2, <1>4 DEF Session!Effect
<1>5. QED
  BY <1>3, <1>4
-----------------------------------------------------------------------------
\* The gateway answers r, or r is lost, and the account becomes held.
LEMMA SessionSettleStep ==
    ASSUME SessionIInv, NEW r \in net, NEW got \in {Failed, "done", "refused"}, NEW held,
           SessionFollows(held), Session!Settle(r, got, held)
    PROVE  SessionIInv'
<1>1. server' = held /\ ui' = ui /\ sent' = sent
  BY DEF Session!Settle, Session!Moves
<1>2. \A p \in net' : \E q \in net : p.ask = q.ask /\ p \in SessionSent
  <2> TAKE p \in net'
  <2>1. PICK q \in net :
            p = IF q = r THEN [q EXCEPT !.got = got]
                ELSE [q EXCEPT !.late = q.got # Waiting /\ (@ \/ held # server)]
    BY DEF Session!Settle, Session!Moves
  <2>2. q \in SessionSent
    BY DEF SessionIInv, SessionTypeInv
  <2>3. CASE q = r
    <3>1. p = [q EXCEPT !.got = got]
      BY <2>1, <2>3
    <3>2. p.ask = q.ask /\ p \in SessionSent
      BY <2>2, <3>1 DEF SessionSent
    <3>3. QED
      BY <3>2
  <2>4. CASE q # r
    <3> DEFINE late == q.got # Waiting /\ (q.late \/ held # server)
    <3>1. p = [q EXCEPT !.late = late]
      BY <2>1, <2>4
    <3>2. late \in BOOLEAN
      OBVIOUS
    <3> HIDE DEF late
    <3>3. p.ask = q.ask /\ p \in SessionSent
      BY <2>2, <3>1, <3>2 DEF SessionSent
    <3>4. QED
      BY <3>3
  <2>5. QED
    BY <2>3, <2>4
<1>3. SessionTypeInv'
  BY <1>1, <1>2 DEF SessionIInv, SessionTypeInv, SessionFollows
<1>4. SessionAccountInv'
  BY <1>1 DEF SessionAccountInv, Session!LockoutIsEarned, SessionFollows
<1>5. SessionReadsInv'
  <2> SUFFICES ASSUME NEW p \in net', p.ask.op = "login", p.ask.read # None
               PROVE  SessionReadInv(p.ask.read)'
    BY DEF SessionReadsInv
  <2>1. PICK q \in net : p.ask = q.ask /\ p \in SessionSent
    BY <1>2
  <2>2. SessionReadInv(p.ask.read)
    BY <2>1 DEF SessionIInv, SessionReadsInv
  <2>3. server.bad \in Nat /\ held.bad \in Nat
    BY DEF SessionIInv, SessionTypeInv, SessionFollows, SessionAccounts
  <2>4. p.ask.read.locked = "no" => p.ask.read.failed \in Nat
    <3>1. p.ask \in SessionAsks
      BY <2>1 DEF SessionSent
    <3>2. p.ask.read \in SessionRow
      BY <3>1 DEF SessionAsks
    <3>3. QED
      BY <3>2 DEF SessionRow
  <2>5. QED
    BY <1>1, <2>2, <2>3, <2>4 DEF SessionReadInv, SessionFollows
<1>6. QED
  BY <1>3, <1>4, <1>5 DEF SessionIInv

\* Requests go out and answers are taken off the network.
LEMMA SessionSentStep ==
    ASSUME SessionIInv, NEW asks \in Seq(SessionAsks),
           \A i \in DOMAIN asks : asks[i].op = "login" => asks[i].read = None,
           net' \subseteq net \cup Session!Requests(asks), sent' = sent + Len(asks),
           UNCHANGED server, ui' \in SessionApp
    PROVE  SessionIInv'
<1>1. \A p \in Session!Requests(asks) :
        /\ p \in SessionSent
        /\ p.ask.op = "login" => p.ask.read = None
  <2> TAKE p \in Session!Requests(asks)
  <2>1. PICK i \in DOMAIN asks : p = Session!Request(sent + i, asks[i])
    BY DEF Session!Requests
  <2>2. asks[i] \in SessionAsks /\ sent + i \in Int
    BY DEF SessionIInv, SessionTypeInv
  <2>3. QED
    BY <2>1, <2>2 DEF Session!Request, SessionSent
<1>2. SessionTypeInv'
  BY <1>1 DEF SessionIInv, SessionTypeInv
<1>3. SessionAccountInv'
  BY DEF SessionIInv, SessionAccountInv, Session!LockoutIsEarned
<1>4. SessionReadsInv'
  BY <1>1 DEF SessionIInv, SessionReadsInv, SessionReadInv
<1>5. QED
  BY <1>2, <1>3, <1>4 DEF SessionIInv

LEMMA SessionServeStep ==
    ASSUME SessionIInv, Session!ServeOne(Session!Read, Session!Refused, Session!Effect, Session!Reply)
    PROVE  SessionIInv'
<1>1. PICK r \in Session!Read :
        \/ Session!Settle(r, Session!Reply(r), Session!Effect(r))
        \/ Session!Settle(r, Failed, server)
        \/ Session!Settle(r, Failed, Session!Effect(r))
  BY DEF Session!ServeOne
<1>2. r \in net /\ (r.ask.op = "login" => r.ask.read # None)
  BY DEF Session!Read
<1>3. SessionFollows(Session!Effect(r))
  BY <1>2, SessionAttemptFollows, SessionOtherFollows
<1>4. SessionFollows(server)
  BY DEF SessionFollows, SessionIInv, SessionTypeInv, SessionAccountInv, Session!LockoutIsEarned, SessionAccounts
<1>5. Session!Reply(r) \in {"done", "refused"}
  BY DEF Session!Reply
<1>6. QED
  BY <1>1, <1>2, <1>3, <1>4, <1>5, SessionSettleStep

LEMMA SessionReadsStep ==
    ASSUME SessionIInv, NEW r \in net, Session!Reads(r)
    PROVE  SessionIInv'
<1> DEFINE row == [failed |-> server.failed, locked |-> server.locked]
           p == [r EXCEPT !.ask.read = row]
<1>1. net' = (net \ {r}) \cup {p} /\ UNCHANGED <<ui, server, sent>>
  BY DEF Session!Reads
<1>2. row \in SessionRow
  BY DEF SessionIInv, SessionTypeInv, SessionAccounts, SessionRow
<1>3. r \in SessionSent /\ r.ask \in SessionAsks /\ r.ask.op = "login"
  BY DEF SessionIInv, SessionTypeInv, SessionSent, Session!Reads
<1>4. r.ask \in [op : {"login"}, mine : BOOLEAN, good : BOOLEAN, n : Int, read : SessionRow \cup {None}]
  BY <1>3 DEF SessionAsks
<1>5. [r.ask EXCEPT !.read = row] \in SessionAsks /\ [r.ask EXCEPT !.read = row].read = row
  <2> HIDE DEF row
  <2>1. QED
    BY <1>2, <1>4 DEF SessionAsks
<1>6. p = [r EXCEPT !.ask = [r.ask EXCEPT !.read = row]]
  OBVIOUS
<1>7. p \in SessionSent /\ p.ask.read = row
  <2> DEFINE ask == [r.ask EXCEPT !.read = row]
  <2>1. p = [r EXCEPT !.ask = ask]
    BY <1>6
  <2>2. ask \in SessionAsks /\ ask.read = row
    BY <1>5
  <2> HIDE DEF ask, p, row
  <2>3. p \in SessionSent /\ p.ask = ask
    BY <1>3, <2>1, <2>2 DEF SessionSent
  <2>4. QED
    BY <2>2, <2>3
<1>8. SessionReadInv(row)
  BY DEF SessionIInv, SessionAccountInv, SessionReadInv
<1> HIDE DEF p, row
<1>9. SessionTypeInv'
  BY <1>1, <1>7 DEF SessionIInv, SessionTypeInv
<1>10. SessionAccountInv'
  BY <1>1 DEF SessionIInv, SessionAccountInv, Session!LockoutIsEarned
<1>11. SessionReadsInv'
  BY <1>1, <1>7, <1>8 DEF SessionIInv, SessionReadsInv, SessionReadInv
<1>12. QED
  BY <1>9, <1>10, <1>11 DEF SessionIInv

LEMMA SessionLockPassesStep ==
    ASSUME SessionIInv, Session!LockPasses
    PROVE  SessionIInv'
<1> DEFINE locked == "passed"
<1>1. /\ server' = [server EXCEPT !.locked = locked, !.bad = 0]
      /\ UNCHANGED <<ui, net, sent>> /\ server.locked = "yes"
  BY DEF Session!LockPasses
<1>2. server \in SessionAccounts /\ locked \in SessionLocked
  BY DEF SessionIInv, SessionTypeInv, SessionLocked
<1>3. server' \in SessionAccounts /\ server'.locked = locked /\ server'.failed = server.failed
  <2> HIDE DEF locked
  <2>1. QED
    BY <1>1, <1>2 DEF SessionAccounts
<1>4. SessionTypeInv'
  BY <1>1, <1>3 DEF SessionIInv, SessionTypeInv
<1>5. SessionAccountInv'
  BY <1>3 DEF SessionAccountInv, Session!LockoutIsEarned
<1>6. SessionReadsInv'
  BY <1>1 DEF SessionReadsInv, Session!LockPasses, Session!Out
<1>7. QED
  BY <1>4, <1>5, <1>6 DEF SessionIInv

\* One request goes out, which has read nothing, or none.
LEMMA SessionOneSent ==
    ASSUME SessionIInv, NEW ask \in SessionAsks, ask.op = "login" => ask.read = None,
           Session!Send(<<ask>>) \/ \E r \in net : Session!Go(r, <<ask>>), ui' \in SessionApp
    PROVE  SessionIInv'
<1>1. /\ <<ask>> \in Seq(SessionAsks) /\ DOMAIN <<ask>> = {1} /\ <<ask>>[1] = ask
  OBVIOUS
<1>2. net' \subseteq net \cup Session!Requests(<<ask>>) /\ sent' = sent + Len(<<ask>>) /\ UNCHANGED server
  BY DEF Session!Send, Session!Go
<1>3. QED
  BY <1>1, <1>2, SessionSentStep

LEMMA SessionNoneSent ==
    ASSUME SessionIInv, NEW r \in net, Session!Done(r), ui' \in SessionApp
    PROVE  SessionIInv'
<1>1. <<>> \in Seq(SessionAsks) /\ DOMAIN <<>> = {}
  OBVIOUS
<1>2. net' \subseteq net \cup Session!Requests(<<>>) /\ sent' = sent + Len(<<>>) /\ UNCHANGED server
  BY DEF Session!Done, Session!Go
<1>3. QED
  BY <1>1, <1>2, SessionSentStep

LEMMA SessionAsked ==
    /\ \A then \in {"guard", "login"} : Session!Check(then) \in SessionAsks /\ Session!Check(then).op = "health"
    /\ \A mine, good \in BOOLEAN, n \in Int :
        Session!Attempt(mine, good, n) \in SessionAsks /\ Session!Attempt(mine, good, n).read = None
  BY DEF Session!Check, Session!Attempt, SessionAsks

LEMMA SessionGuardedState == ASSUME NEW state \in SessionApp PROVE Session!Guarded(state) \in SessionApp
  BY DEF Session!Guarded, SessionApp

LEMMA SessionSignedOutState == ASSUME NEW state \in SessionApp PROVE Session!SignedOut(state) \in SessionApp
  BY DEF Session!SignedOut, SessionApp, SessionTokens

LEMMA SessionCheckedStep ==
    ASSUME SessionIInv, NEW r \in net, NEW state \in SessionApp, Session!Checked(r, state)
    PROVE  SessionIInv'
<1> DEFINE checked == [state EXCEPT !.authLoading = FALSE]
<1>1. checked \in SessionApp
  BY DEF SessionApp
<1>2. CASE r.ask.then = "guard"
  <2>1. ui' = Session!Guarded(checked) /\ Session!Done(r)
    BY <1>2 DEF Session!Checked
  <2>2. QED
    BY <1>1, <2>1, SessionGuardedState, SessionNoneSent
<1>3. CASE r.ask.then # "guard"
  <2> DEFINE opened == [checked EXCEPT !.page = "app", !.loading = FALSE]
  <2>1. ui' = [Session!Guarded(opened) EXCEPT !.authLoading = TRUE] /\ Session!Go(r, <<Session!Check("guard")>>)
    BY <1>3 DEF Session!Checked
  <2>2. opened \in SessionApp
    <3> HIDE DEF checked
    <3>1. QED
      BY <1>1 DEF SessionApp
  <2>3. Session!Guarded(opened) \in SessionApp
    BY <2>2, SessionGuardedState
  <2>4. ui' \in SessionApp
    BY <2>1, <2>3 DEF SessionApp
  <2>5. QED
    BY <2>1, <2>4, SessionAsked, SessionOneSent
<1>4. QED
  BY <1>2, <1>3

\* What the user does.
LEMMA SessionUserStep ==
    ASSUME SessionIInv, NEW good \in BOOLEAN, Session!Logout \/ Session!Submit(good) \/ Session!OthersSubmit(good)
    PROVE  SessionIInv'
<1>1. ui \in SessionApp /\ ui.token \in SessionTokens
  BY DEF SessionIInv, SessionTypeInv, SessionApp
<1>2. CASE Session!Logout
  <2> DEFINE ask == [op |-> "logout", token |-> ui.token]
             crossed == ui.crossed \/ Session!Out({"logout", "health", "me"})
  <2>1. ask \in SessionAsks /\ ask.op # "login"
    BY <1>1 DEF SessionAsks
  <2>2. crossed \in BOOLEAN
    OBVIOUS
  <2>3. ui' = [ui EXCEPT !.crossed = crossed] /\ Session!Send(<<ask>>)
    BY <1>2 DEF Session!Logout, Session!Ask
  <2> HIDE DEF ask, crossed
  <2>4. ui' \in SessionApp
    BY <1>1, <2>2, <2>3 DEF SessionApp
  <2>5. QED
    BY <2>1, <2>3, <2>4, SessionOneSent
<1>3. CASE Session!Submit(good)
  <2>1. ui' = [ui EXCEPT !.loading = TRUE, !.error = FALSE] /\ Session!Send(<<Session!Attempt(TRUE, good, 1)>>)
    BY <1>3 DEF Session!Submit, Session!Ask
  <2>2. ui' \in SessionApp
    BY <1>1, <2>1 DEF SessionApp
  <2>3. Session!Attempt(TRUE, good, 1) \in SessionAsks /\ Session!Attempt(TRUE, good, 1).read = None
    BY DEF Session!Attempt, SessionAsks
  <2>4. QED
    BY <2>1, <2>2, <2>3, SessionOneSent
<1>4. CASE Session!OthersSubmit(good)
  <2>1. ui' = ui /\ Session!Send(<<Session!Attempt(FALSE, good, 3)>>)
    BY <1>4 DEF Session!OthersSubmit, Session!Ask
  <2>2. Session!Attempt(FALSE, good, 3) \in SessionAsks /\ Session!Attempt(FALSE, good, 3).read = None
    BY DEF Session!Attempt, SessionAsks
  <2>3. QED
    BY <1>1, <2>1, <2>2, SessionOneSent
<1>5. QED
  BY <1>2, <1>3, <1>4

\* What follows the answer to an attempt.
LEMMA SessionLoginStep ==
    ASSUME SessionIInv, NEW r \in net, Session!TriedAgain(r) \/ Session!LoginAnswered(r)
    PROVE  SessionIInv'
<1>1. ui \in SessionApp /\ r.id \in SessionTokens /\ r.ask \in SessionAsks /\ r.ask.op = "login"
  BY DEF SessionIInv, SessionTypeInv, SessionSent, SessionTokens, Session!TriedAgain, Session!LoginAnswered, Session!Came
<1>2. CASE Session!TriedAgain(r)
  <2> DEFINE ask == Session!Attempt(TRUE, r.ask.good, r.ask.n + 1)
  <2>1. ui' = ui /\ Session!Go(r, <<ask>>)
    BY <1>2 DEF Session!TriedAgain
  <2>2. r.ask.good \in BOOLEAN /\ r.ask.n + 1 \in Int
    BY <1>1 DEF SessionAsks
  <2>3. ask \in SessionAsks /\ ask.read = None
    BY <2>2, SessionAsked
  <2> HIDE DEF ask
  <2>4. QED
    BY <1>1, <2>1, <2>3, SessionOneSent
<1>3. CASE Session!LoginAnswered(r)
  <2>1. CASE ~r.ask.mine
    BY <1>1, <1>3, <2>1, SessionNoneSent DEF Session!LoginAnswered
  <2>2. CASE r.ask.mine /\ r.got = "done"
    <3>1. ui' = [ui EXCEPT !.token = r.id, !.authLoading = TRUE] /\ Session!Go(r, <<Session!Check("login")>>)
      BY <1>3, <2>2 DEF Session!LoginAnswered
    <3>2. ui' \in SessionApp
      BY <1>1, <3>1 DEF SessionApp
    <3>3. QED
      BY <3>1, <3>2, SessionAsked, SessionOneSent
  <2>3. CASE r.ask.mine /\ r.got # "done"
    <3>1. ui' = [ui EXCEPT !.error = TRUE, !.loading = FALSE] /\ Session!Done(r)
      BY <1>3, <2>3 DEF Session!LoginAnswered
    <3>2. ui' \in SessionApp
      BY <1>1, <3>1 DEF SessionApp
    <3>3. QED
      BY <3>1, <3>2, SessionNoneSent
  <2>4. QED
    BY <2>1, <2>2, <2>3
<1>4. QED
  BY <1>2, <1>3

\* What follows the other answers.
LEMMA SessionSignStep ==
    ASSUME SessionIInv, NEW r \in net, Session!HealthFetched(r) \/ Session!MeFetched(r) \/ Session!LoggedOut(r)
    PROVE  SessionIInv'
<1>1. ui \in SessionApp /\ ui.token \in SessionTokens /\ r.ask \in SessionAsks
  BY DEF SessionIInv, SessionTypeInv, SessionSent, SessionApp
<1>2. CASE Session!HealthFetched(r)
  <2>1. CASE r.got = Failed
    <3>1. Session!Checked(r, [ui EXCEPT !.user = FALSE])
      BY <1>2, <2>1 DEF Session!HealthFetched
    <3>2. [ui EXCEPT !.user = FALSE] \in SessionApp
      BY <1>1 DEF SessionApp
    <3>3. QED
      BY <3>1, <3>2, SessionCheckedStep
  <2>2. CASE r.got # Failed /\ ui.token = None
    <3>1. Session!Checked(r, [ui EXCEPT !.enabled = TRUE, !.user = FALSE])
      BY <1>2, <2>2 DEF Session!HealthFetched
    <3>2. [ui EXCEPT !.enabled = TRUE, !.user = FALSE] \in SessionApp
      BY <1>1 DEF SessionApp
    <3>3. QED
      BY <3>1, <3>2, SessionCheckedStep
  <2>3. CASE r.got # Failed /\ ui.token # None
    <3> DEFINE ask == [op |-> "me", then |-> r.ask.then, token |-> ui.token]
    <3>1. ui' = [ui EXCEPT !.enabled = TRUE] /\ Session!Go(r, <<ask>>)
      BY <1>2, <2>3 DEF Session!HealthFetched
    <3>2. r.ask.op = "health"
      BY <1>2 DEF Session!HealthFetched, Session!Came
    <3>3. r.ask.then \in {"guard", "login"}
      BY <1>1, <3>2 DEF SessionAsks
    <3>4. ask \in SessionAsks /\ ask.op # "login"
      BY <1>1, <3>3 DEF SessionAsks
    <3>5. ui' \in SessionApp
      BY <1>1, <3>1 DEF SessionApp
    <3> HIDE DEF ask
    <3>6. QED
      BY <3>1, <3>4, <3>5, SessionOneSent
  <2>4. QED
    BY <2>1, <2>2, <2>3
<1>3. CASE Session!MeFetched(r)
  <2> DEFINE state == IF r.got = Failed THEN Session!SignedOut(ui) ELSE [ui EXCEPT !.user = TRUE]
  <2>1. Session!Checked(r, state)
    BY <1>3 DEF Session!MeFetched
  <2>2. [ui EXCEPT !.user = TRUE] \in SessionApp
    BY <1>1 DEF SessionApp
  <2>3. state \in SessionApp
    BY <1>1, <2>2, SessionSignedOutState
  <2> HIDE DEF state
  <2>4. QED
    BY <2>1, <2>3, SessionCheckedStep
<1>4. CASE Session!LoggedOut(r)
  BY <1>1, <1>4, SessionSignedOutState, SessionGuardedState, SessionNoneSent DEF Session!LoggedOut
<1>5. QED
  BY <1>2, <1>3, <1>4
-----------------------------------------------------------------------------
LEMMA SessionNextIInv ==
    ASSUME SessionIInv, [Session!Next]_(Session!vars)
    PROVE  SessionIInv'
<1>1. CASE Session!LockPasses
  BY <1>1, SessionLockPassesStep
<1>2. CASE \E good \in BOOLEAN : Session!Logout \/ Session!Submit(good) \/ Session!OthersSubmit(good)
  BY <1>2, SessionUserStep
<1>3. CASE \E r \in net : Session!Reads(r)
  BY <1>3, SessionReadsStep
<1>4. CASE \E r \in net : Session!TriedAgain(r) \/ Session!LoginAnswered(r)
  BY <1>4, SessionLoginStep
<1>5. CASE \E r \in net : Session!HealthFetched(r) \/ Session!MeFetched(r) \/ Session!LoggedOut(r)
  BY <1>5, SessionSignStep
<1>6. CASE Session!ServeOne(Session!Read, Session!Refused, Session!Effect, Session!Reply)
  BY <1>6, SessionServeStep
<1>7. CASE UNCHANGED Session!vars
  BY <1>7 DEF Session!vars, SessionIInv, SessionTypeInv, SessionAccountInv, Session!LockoutIsEarned, SessionReadsInv, SessionReadInv
<1>8. QED
  BY <1>1, <1>2, <1>3, <1>4, <1>5, <1>6, <1>7 DEF Session!Next
-----------------------------------------------------------------------------
\* The form waits for its attempt and for what checks the token it brought; the
\* guard waits for a check.
SessionFormWaits(ask) == (ask.op = "login" /\ ask.mine) \/ (ask.op \in {"health", "me"} /\ ask.then = "login")
SessionWaitsInv ==
    /\ ui.loading => \E r \in net : SessionFormWaits(r.ask)
    /\ ui.authLoading => \E r \in net : r.ask.op \in {"health", "me"}

LEMMA SessionInitWaits == Session!Init => SessionWaitsInv
<1> SUFFICES ASSUME Session!Init PROVE SessionWaitsInv
  OBVIOUS
<1>1. PICK past \in Session!Pasts :
        Session!Started([page |-> "app", loading |-> FALSE, token |-> IF past.sessions = {} THEN None ELSE 0, user |-> FALSE,
                 enabled |-> FALSE, authLoading |-> TRUE, error |-> FALSE, crossed |-> FALSE],
                past, <<Session!Check("guard")>>)
  BY DEF Session!Init
<1>2. ui.loading = FALSE /\ net = {Session!Request(1, Session!Check("guard"))}
  BY <1>1 DEF Session!Started
<1> QED
  BY <1>2 DEF SessionWaitsInv, Session!Request, Session!Check

LEMMA SessionAsks1 ==
    ASSUME NEW ask
    PROVE  /\ Session!Send(<<ask>>) => net' = net \cup {NewRequest(sent, ask)} /\ sent' = sent + 1 /\ UNCHANGED server
           /\ \A r : Session!Go(r, <<ask>>) =>
                net' = (net \ {r}) \cup {NewRequest(sent, ask)} /\ sent' = sent + 1 /\ UNCHANGED server
<1>1. Session!Requests(<<ask>>) = {NewRequest(sent, ask)} /\ Len(<<ask>>) = 1
  BY OneAsked DEF Session!Requests, Session!Request
<1> QED
  BY <1>1 DEF Session!Send, Session!Go

LEMMA SessionEnds ==
    ASSUME NEW r, sent \in Nat, Session!Done(r)
    PROVE  net' = net \ {r} /\ UNCHANGED <<sent, server>>
<1>1. Session!Requests(<<>>) = {} /\ Len(<<>>) = 0
  BY NoneAsked DEF Session!Requests, Session!Request
<1> QED
  BY <1>1 DEF Session!Done, Session!Go


LEMMA SessionKeptAsks ==
    ASSUME SessionIInv, NEW r, NEW got, NEW held, Session!Settle(r, got, held)
    PROVE  \A q \in net : \E p \in net' : p.ask = q.ask
<1> TAKE q \in net
<1> DEFINE late == q.got # Waiting /\ (q.late \/ held # server)
           p == IF q = r THEN [q EXCEPT !.got = got] ELSE [q EXCEPT !.late = late]
<1>1. p \in net'
  BY DEF Session!Settle, Session!Moves
<1>2. p.ask = q.ask
  <2>1. q \in SessionSent
    BY DEF SessionIInv, SessionTypeInv
  <2> HIDE DEF late
  <2> QED
    BY <2>1 DEF SessionSent
<1> HIDE DEF p
<1> QED
  BY <1>1, <1>2

\* The guard changes the page alone.
LEMMA SessionGuardKeeps ==
    ASSUME NEW state \in SessionApp
    PROVE  /\ Session!Guarded(state).loading = state.loading /\ Session!Guarded(state).authLoading = state.authLoading
           /\ Session!Guarded(state) \in SessionApp
BY DEF Session!Guarded, SessionApp

\* What a check leaves waiting.
LEMMA SessionCheckedWaits ==
    ASSUME SessionIInv, SessionWaitsInv, NEW r \in net, NEW state \in SessionApp, state.loading = ui.loading,
           r.ask.op \in {"health", "me"}, Session!Checked(r, state)
    PROVE  SessionWaitsInv'
<1> DEFINE checked == [state EXCEPT !.authLoading = FALSE]
           ask == Session!Check("guard")
<1>1. checked \in SessionApp /\ checked.loading = ui.loading /\ checked.authLoading = FALSE
  BY DEF SessionApp
<1> HIDE DEF checked
<1>2. r.ask.then \in {"guard", "login"}
  <2>1. r.ask \in SessionAsks
    BY DEF SessionIInv, SessionTypeInv, SessionSent
  <2> QED
    BY <2>1 DEF SessionAsks
<1>3. CASE r.ask.then = "guard"
  <2>1. ui' = Session!Guarded(checked) /\ net' = net \ {r}
    BY <1>3, SessionEnds DEF Session!Checked, SessionIInv, SessionTypeInv, checked
  <2>2. ui'.loading = ui.loading /\ ui'.authLoading = FALSE
    BY <1>1, <2>1, SessionGuardKeeps
  <2> QED
    BY <1>3, <2>1, <2>2 DEF SessionWaitsInv, SessionFormWaits
<1>4. CASE r.ask.then # "guard"
  <2> DEFINE opened == [checked EXCEPT !.page = "app", !.loading = FALSE]
  <2>1. ui' = [Session!Guarded(opened) EXCEPT !.authLoading = TRUE] /\ Session!Go(r, <<ask>>)
    BY <1>4 DEF Session!Checked, checked
  <2>2. net' = (net \ {r}) \cup {NewRequest(sent, ask)} /\ NewRequest(sent, ask).ask = ask /\ ask.op = "health"
    BY <2>1, SessionAsks1 DEF NewRequest, Session!Check
  <2>3. opened \in SessionApp /\ opened.loading = FALSE
    BY <1>1 DEF SessionApp
  <2> HIDE DEF opened, ask
  <2>4. ui'.loading = FALSE
    BY <2>1, <2>3, SessionGuardKeeps DEF SessionApp
  <2> QED
    BY <2>2, <2>4 DEF SessionWaitsInv
<1> QED
  BY <1>3, <1>4

LEMMA SessionNextWaits == ASSUME SessionIInv, SessionWaitsInv, [Session!Next]_(Session!vars) PROVE SessionWaitsInv'
<1>1. ui \in SessionApp /\ net \subseteq SessionSent /\ sent \in Nat
  BY DEF SessionIInv, SessionTypeInv
<1>2. CASE Session!LockPasses \/ UNCHANGED Session!vars
  BY <1>2 DEF Session!LockPasses, Session!vars, SessionWaitsInv
<1>3. CASE Session!Logout
  <2> DEFINE ask == [op |-> "logout", token |-> ui.token]
             crossed == ui.crossed \/ Session!Out({"logout", "health", "me"})
  <2>1. ui' = [ui EXCEPT !.crossed = crossed] /\ net' = net \cup {NewRequest(sent, ask)}
    BY <1>3, SessionAsks1 DEF Session!Logout, Session!Ask
  <2> HIDE DEF ask, crossed
  <2>2. ui'.loading = ui.loading /\ ui'.authLoading = ui.authLoading
    BY <1>1, <2>1 DEF SessionApp
  <2> QED
    BY <2>1, <2>2 DEF SessionWaitsInv
<1>4. ASSUME NEW good \in BOOLEAN, Session!Submit(good)
      PROVE  SessionWaitsInv'
  <2> DEFINE ask == Session!Attempt(TRUE, good, 1)
  <2>1. ui' = [ui EXCEPT !.loading = TRUE, !.error = FALSE] /\ net' = net \cup {NewRequest(sent, ask)}
    BY <1>4, SessionAsks1 DEF Session!Submit, Session!Ask
  <2>2. ui'.authLoading = ui.authLoading
    BY <1>1, <2>1 DEF SessionApp
  <2>3. NewRequest(sent, ask).ask = ask /\ SessionFormWaits(ask)
    BY DEF NewRequest, Session!Attempt, SessionFormWaits
  <2> HIDE DEF ask
  <2> QED
    BY <2>1, <2>2, <2>3 DEF SessionWaitsInv
<1>5. ASSUME NEW good \in BOOLEAN, Session!OthersSubmit(good)
      PROVE  SessionWaitsInv'
  <2> DEFINE ask == Session!Attempt(FALSE, good, 3)
  <2>1. ui' = ui /\ net' = net \cup {NewRequest(sent, ask)}
    BY <1>5, SessionAsks1 DEF Session!OthersSubmit, Session!Ask
  <2> QED
    BY <2>1 DEF SessionWaitsInv
<1>6. ASSUME NEW r \in net, Session!Reads(r)
      PROVE  SessionWaitsInv'
  <2> DEFINE row == [failed |-> server.failed, locked |-> server.locked]
             ask == [r.ask EXCEPT !.read = row]
             new == [r EXCEPT !.ask = ask]
  <2>1. r.ask.op = "login" /\ ui' = ui /\ net' = (net \ {r}) \cup {new}
    BY <1>6 DEF Session!Reads
  <2>2. r \in SessionSent /\ r.ask \in [op : {"login"}, mine : BOOLEAN, good : BOOLEAN, n : Int, read : SessionRow \cup {None}]
    <3>1. r.ask \in SessionAsks /\ r \in SessionSent
      BY <1>1 DEF SessionSent
    <3> QED
      BY <2>1, <3>1 DEF SessionAsks
  <2> HIDE DEF row
  <2>3. ask.op = "login" /\ ask.mine = r.ask.mine
    BY <2>2
  <2> HIDE DEF ask
  <2>4. new.ask = ask
    BY <2>2 DEF SessionSent
  <2> HIDE DEF new
  <2> QED
    BY <2>1, <2>3, <2>4 DEF SessionWaitsInv, SessionFormWaits
<1>7. ASSUME NEW r \in net, Session!TriedAgain(r)
      PROVE  SessionWaitsInv'
  <2> DEFINE ask == Session!Attempt(TRUE, r.ask.good, r.ask.n + 1)
  <2>1. r.ask.op = "login" /\ ui' = ui /\ net' = (net \ {r}) \cup {NewRequest(sent, ask)}
    BY <1>7, SessionAsks1 DEF Session!TriedAgain, Session!Came
  <2>2. NewRequest(sent, ask).ask = ask /\ SessionFormWaits(ask)
    BY DEF NewRequest, Session!Attempt, SessionFormWaits
  <2> HIDE DEF ask
  <2> QED
    BY <2>1, <2>2 DEF SessionWaitsInv
<1>8. ASSUME NEW r \in net, Session!LoginAnswered(r)
      PROVE  SessionWaitsInv'
  <2>1. r.ask.op = "login"
    BY <1>8 DEF Session!LoginAnswered, Session!Came
  <2>2. CASE ~r.ask.mine
    <3>1. ui' = ui /\ net' = net \ {r}
      BY <1>1, <1>8, <2>2, SessionEnds DEF Session!LoginAnswered
    <3> QED
      BY <2>1, <2>2, <3>1 DEF SessionWaitsInv, SessionFormWaits
  <2>3. CASE r.ask.mine /\ r.got = "done"
    <3> DEFINE ask == Session!Check("login")
    <3>1. net' = (net \ {r}) \cup {NewRequest(sent, ask)}
      BY <1>8, <2>3, SessionAsks1 DEF Session!LoginAnswered
    <3>2. NewRequest(sent, ask).ask = ask /\ SessionFormWaits(ask) /\ ask.op = "health"
      BY DEF NewRequest, Session!Check, SessionFormWaits
    <3> HIDE DEF ask
    <3> QED
      BY <3>1, <3>2 DEF SessionWaitsInv
  <2>4. CASE r.ask.mine /\ r.got # "done"
    <3>1. ui' = [ui EXCEPT !.error = TRUE, !.loading = FALSE] /\ net' = net \ {r}
      BY <1>1, <1>8, <2>4, SessionEnds DEF Session!LoginAnswered
    <3>2. ui'.loading = FALSE /\ ui'.authLoading = ui.authLoading
      BY <1>1, <3>1 DEF SessionApp
    <3> QED
      BY <2>1, <3>1, <3>2 DEF SessionWaitsInv
  <2> QED
    BY <2>2, <2>3, <2>4
<1>9. ASSUME NEW r \in net, Session!HealthFetched(r)
      PROVE  SessionWaitsInv'
  <2>1. r.ask.op = "health"
    BY <1>9 DEF Session!HealthFetched, Session!Came
  <2>2. CASE r.got # Failed /\ ui.token # None
    <3> DEFINE ask == [op |-> "me", then |-> r.ask.then, token |-> ui.token]
    <3>1. ui' = [ui EXCEPT !.enabled = TRUE] /\ net' = (net \ {r}) \cup {NewRequest(sent, ask)}
      BY <1>9, <2>2, SessionAsks1 DEF Session!HealthFetched
    <3>2. ui'.loading = ui.loading /\ ui'.authLoading = ui.authLoading
      BY <1>1, <3>1 DEF SessionApp
    <3>3. NewRequest(sent, ask).ask = ask /\ ask.op = "me" /\ (SessionFormWaits(r.ask) => SessionFormWaits(ask))
      BY <2>1 DEF NewRequest, SessionFormWaits
    <3> HIDE DEF ask
    <3> QED
      BY <3>1, <3>2, <3>3 DEF SessionWaitsInv
  <2>3. CASE ~(r.got # Failed /\ ui.token # None)
    <3>1. PICK state \in {[ui EXCEPT !.user = FALSE], [ui EXCEPT !.enabled = TRUE, !.user = FALSE]} : Session!Checked(r, state)
      BY <1>9, <2>3 DEF Session!HealthFetched
    <3>2. state \in SessionApp /\ state.loading = ui.loading
      BY <1>1 DEF SessionApp
    <3> QED
      BY <2>1, <3>1, <3>2, SessionCheckedWaits
  <2> QED
    BY <2>2, <2>3
<1>10. ASSUME NEW r \in net, Session!MeFetched(r)
       PROVE  SessionWaitsInv'
  <2> DEFINE state == IF r.got = Failed THEN Session!SignedOut(ui) ELSE [ui EXCEPT !.user = TRUE]
  <2>1. r.ask.op = "me" /\ Session!Checked(r, state)
    BY <1>10 DEF Session!MeFetched, Session!Came
  <2>2. state \in SessionApp /\ state.loading = ui.loading
    BY <1>1 DEF Session!SignedOut, SessionApp, SessionTokens
  <2> HIDE DEF state
  <2> QED
    BY <2>1, <2>2, SessionCheckedWaits
<1>11. ASSUME NEW r \in net, Session!LoggedOut(r)
       PROVE  SessionWaitsInv'
  <2>1. r.ask.op = "logout" /\ ui' = Session!Guarded(Session!SignedOut(ui)) /\ net' = net \ {r}
    BY <1>1, <1>11, SessionEnds DEF Session!LoggedOut, Session!Came
  <2>2. LET s == Session!SignedOut(ui) IN s \in SessionApp /\ s.loading = ui.loading /\ s.authLoading = ui.authLoading
    BY <1>1 DEF Session!SignedOut, SessionApp, SessionTokens
  <2>3. ui'.loading = ui.loading /\ ui'.authLoading = ui.authLoading
    BY <2>1, <2>2, SessionGuardKeeps
  <2> QED
    BY <2>1, <2>3 DEF SessionWaitsInv, SessionFormWaits
<1>12. CASE Session!ServeOne(Session!Read, Session!Refused, Session!Effect, Session!Reply)
  <2>1. PICK r \in Session!Read : \/ Session!Settle(r, Session!Reply(r), Session!Effect(r))
                                 \/ Session!Settle(r, Failed, server)
                                 \/ Session!Settle(r, Failed, Session!Effect(r))
    BY <1>12 DEF Session!ServeOne
  <2>2. PICK got \in {Session!Reply(r), Failed}, held \in {Session!Effect(r), server} : Session!Settle(r, got, held)
    BY <2>1
  <2>3. \A q \in net : \E p \in net' : p.ask = q.ask
    BY <2>2, SessionKeptAsks
  <2>4. ui' = ui
    BY <2>2 DEF Session!Settle, Session!Moves
  <2> QED
    BY <2>3, <2>4 DEF SessionWaitsInv
<1> QED
  BY <1>2, <1>3, <1>4, <1>5, <1>6, <1>7, <1>8, <1>9, <1>10, <1>11, <1>12 DEF Session!Next

LEMMA SessionShown ==
    SessionIInv /\ SessionWaitsInv => Session!TypeOK /\ Session!BusyHasCause /\ Session!LockoutIsEarned
<1> SUFFICES ASSUME SessionIInv, SessionWaitsInv
             PROVE  Session!TypeOK /\ Session!BusyHasCause /\ Session!LockoutIsEarned
  OBVIOUS
<1>1. Session!TypeOK
  BY DEF SessionIInv, SessionTypeInv, SessionApp, SessionAccounts, SessionLocked, Session!TypeOK
<1>2. Session!BusyHasCause
  BY DEF SessionWaitsInv, SessionFormWaits, Session!BusyHasCause, Session!Out
<1>3. Session!LockoutIsEarned
  BY DEF SessionIInv, SessionAccountInv
<1> QED
  BY <1>1, <1>2, <1>3
-----------------------------------------------------------------------------
(* Signing in and out: the token of an open app. *)

\* Sessions, tokens and requests are numbered so far; another browser tries once.
SessionNumbersInv ==
    /\ server.sessions \subseteq 0 .. sent /\ server.revoked \subseteq (0 .. sent) \cup {None}
    /\ ui.token \in (0 .. sent) \cup {None}
    /\ \A r \in net :
          /\ r.id \in 0 .. sent
          /\ r.ask.op \in {"logout", "me"} => r.ask.token \in (0 .. sent) \cup {None}
          /\ r.ask.op = "login" /\ ~r.ask.mine => r.ask.n = 3

\* The form has one attempt or check under way, and stays while it has.
SessionFlowInv ==
    /\ \A q, r \in net : SessionFormWaits(q.ask) /\ SessionFormWaits(r.ask) => q = r
    /\ \A r \in net : SessionFormWaits(r.ask) => ui.loading /\ ui.page = "login"
    /\ \A r \in net : r.ask.op = "me" => ui.enabled

\* A sign-out that crosses nothing is alone; a token held is good until it is
\* signed out, and without one the app is open to nobody once it has checked.
SessionTokenInv ==
    ~ui.crossed =>
        /\ \A q, r \in net : q.ask.op = "logout" /\ r.ask.op = "logout" => q = r
        /\ \A q, r \in net : q.ask.op = "logout" => r.ask.op \notin {"health", "me"} /\ ~SessionFormWaits(r.ask)
        /\ \A r \in net : r.ask.op = "logout" => ui.page = "app"
        /\ \A r \in net : r.ask.op = "login" /\ r.ask.mine => r.id \notin server.revoked
        /\ ui.token # None => ui.token \notin server.revoked \/ \E r \in net : r.ask.op = "logout"
        /\ ui.page = "app" /\ ui.token = None =>
              (\E r \in net : r.ask.op = "health") \/ (~ui.user /\ \A r \in net : r.ask.op # "me")

SessionFreshInv == SessionNumbersInv /\ SessionFlowInv /\ SessionTokenInv

SessionGots == {Waiting, Failed, "done", "refused"}

\* What others find when the gateway serves a request, which becomes to.
LEMMA SessionMovesLate ==
    ASSUME NEW r \in net, NEW to \in SessionSent, NEW held, net \subseteq SessionSent, Session!Moves(r, to, held)
    PROVE  \E new \in [net -> SessionSent] :
              /\ net' = {new[q] : q \in net} /\ server' = held /\ UNCHANGED ui
              /\ new[r] = to
              /\ \A q \in net : q # r => /\ new[q].id = q.id /\ new[q].ask = q.ask /\ new[q].got = q.got /\ new[q].acts = q.acts
                                         /\ new[q].late = (q.got # Waiting /\ (q.late \/ held # server))
<1>1. net' = {IF q = r THEN to ELSE [q EXCEPT !.late = q.got # Waiting /\ (@ \/ held # server)] : q \in net}
  BY DEF Session!Moves
<1> DEFINE Late(q) == q.got # Waiting /\ (q.late \/ held # server)
           New(q) == IF q = r THEN to ELSE [q EXCEPT !.late = Late(q)]
           new == [q \in net |-> New(q)]
<1>2. ASSUME NEW q \in net
      PROVE  /\ New(q) \in SessionSent /\ (q = r => New(q) = to)
             /\ q # r => /\ New(q).id = q.id /\ New(q).ask = q.ask /\ New(q).got = q.got /\ New(q).acts = q.acts
                         /\ New(q).late = Late(q)
  <2>1. q \in SessionSent /\ Late(q) \in BOOLEAN
    OBVIOUS
  <2> HIDE DEF Late
  <2> QED
    BY <2>1 DEF SessionSent, SessionGots
<1>3. net' = {New(q) : q \in net}
  BY <1>1
<1>4. \A q \in net : q # r => New(q).late = (q.got # Waiting /\ (q.late \/ held # server))
  BY <1>2
<1> HIDE DEF New
<1>5. new \in [net -> SessionSent] /\ \A q \in net : new[q] = New(q)
  BY <1>2
<1>6. net' = {new[q] : q \in net}
  BY <1>3, <1>5
<1> HIDE DEF new
<1>7. server' = held /\ UNCHANGED ui
  BY DEF Session!Moves
<1> QED
  BY <1>2, <1>4, <1>5, <1>6, <1>7

LEMMA SessionSettlesLate ==
    ASSUME NEW r \in net, NEW got, got \in SessionGots, NEW held, net \subseteq SessionSent, Session!Settle(r, got, held)
    PROVE  sent' = sent /\ server' = held /\ \E new \in [net -> SessionSent] : Serves(r, new) /\ new[r].got = got /\ new[r].id = r.id
<1> DEFINE to == [r EXCEPT !.got = got]
<1>1. r \in SessionSent
  OBVIOUS
<1>2. to \in SessionSent /\ to.ask = r.ask /\ to.got = got /\ to.late = r.late /\ to.id = r.id /\ to.acts = r.acts
  BY <1>1 DEF SessionSent, SessionGots
<1>3. Session!Moves(r, to, held) /\ sent' = sent
  BY DEF Session!Settle
<1> HIDE DEF to
<1>4. PICK new \in [net -> SessionSent] :
              /\ net' = {new[q] : q \in net} /\ server' = held /\ UNCHANGED ui
              /\ new[r] = to
              /\ \A q \in net : q # r => /\ new[q].id = q.id /\ new[q].ask = q.ask /\ new[q].got = q.got /\ new[q].acts = q.acts
                                         /\ new[q].late = (q.got # Waiting /\ (q.late \/ held # server))
  BY <1>2, <1>3, SessionMovesLate
<1>5. server' = held
  BY <1>4
<1>6. Serves(r, new)
  BY <1>2, <1>4 DEF Serves
<1> QED
  BY <1>2, <1>3, <1>4, <1>5, <1>6

LEMMA SessionServing ==
    ASSUME net \subseteq SessionSent, Session!ServeOne(Session!Read, Session!Refused, Session!Effect, Session!Reply), Session!Read \subseteq net,
           \A r \in net : ~Session!Refused(r) => Session!Reply(r) \in SessionGots
    PROVE  \E r \in net : \E new \in [net -> SessionSent] :
              /\ r.got = Waiting /\ Serves(r, new)
              /\ \/ /\ ~Session!Refused(r) /\ new[r].got = Session!Reply(r) /\ server' = Session!Effect(r) /\ raced' = raced
                    /\ sent' = sent /\ new[r].id = r.id
                 \/ /\ new[r].got = Failed /\ server' = server /\ raced' = (raced \/ r.acts # 0)
                    /\ sent' = sent /\ new[r].id = r.id
                 \/ /\ ~Session!Refused(r) /\ new[r].got = Failed /\ server' = Session!Effect(r) /\ raced' = TRUE
                    /\ sent' = sent /\ new[r].id = r.id
<1>1. Failed \in SessionGots
  BY DEF SessionGots
<1>2. PICK r \in net : /\ r.got = Waiting
                       /\ \/ ~Session!Refused(r) /\ Session!Settle(r, Session!Reply(r), Session!Effect(r)) /\ raced' = raced
                          \/ Session!Settle(r, Failed, server) /\ raced' = (raced \/ r.acts # 0)
                          \/ ~Session!Refused(r) /\ Session!Settle(r, Failed, Session!Effect(r)) /\ raced' = TRUE
  BY DEF Session!Serve, Session!ServeOne
<1>3. CASE ~Session!Refused(r) /\ Session!Settle(r, Session!Reply(r), Session!Effect(r)) /\ raced' = raced
  BY <1>2, <1>3, SessionSettlesLate
<1>4. CASE Session!Settle(r, Failed, server) /\ raced' = (raced \/ r.acts # 0)
  BY <1>1, <1>2, <1>4, SessionSettlesLate
<1>5. CASE ~Session!Refused(r) /\ Session!Settle(r, Failed, Session!Effect(r)) /\ raced' = TRUE
  <2> DEFINE held == Session!Effect(r)
  <2>1. Session!Settle(r, Failed, held)
    BY <1>5
  <2> HIDE DEF held
  <2>2. sent' = sent /\ server' = held /\ \E new \in [net -> SessionSent] : Serves(r, new) /\ new[r].got = Failed /\ new[r].id = r.id
    BY <1>1, <2>1, SessionSettlesLate
  <2> QED
    BY <1>2, <1>5, <2>2 DEF held
<1> QED
  BY <1>2, <1>3, <1>4, <1>5

\* The same as long as nothing that the page was told is out of date.
LEMMA SessionServingOnTime ==
    ASSUME net \subseteq SessionSent, Session!ServeOne(Session!Read, Session!Refused, Session!Effect, Session!Reply), Session!Read \subseteq net, ~raced',
           \A r \in net : ~Session!Refused(r) => Session!Reply(r) \in SessionGots
    PROVE  \E r \in net : \E new \in [net -> SessionSent] :
              /\ r.got = Waiting /\ Serves(r, new) /\ ~raced
              /\ \/ /\ ~Session!Refused(r) /\ new[r].got = Session!Reply(r) /\ server' = Session!Effect(r)
                    /\ sent' = sent /\ new[r].id = r.id
                 \/ /\ new[r].got = Failed /\ server' = server /\ r.acts = 0
                    /\ sent' = sent /\ new[r].id = r.id
<1> DEFINE Answered(r, new) == /\ ~Session!Refused(r) /\ new[r].got = Session!Reply(r) /\ server' = Session!Effect(r)
                               /\ sent' = sent /\ new[r].id = r.id
           Unheard(r, new) == new[r].got = Failed /\ server' = server /\ sent' = sent /\ new[r].id = r.id
           Again(r, new) == FALSE
<1>1. PICK r \in net : \E new \in [net -> SessionSent] :
              /\ r.got = Waiting /\ Serves(r, new)
              /\ \/ Answered(r, new) /\ raced' = raced
                 \/ Unheard(r, new) /\ raced' = (raced \/ r.acts # 0)
                 \/ raced' = TRUE
                 \/ Again(r, new) /\ raced' = raced
  BY SessionServing
<1>2. PICK new \in [net -> SessionSent] :
              /\ r.got = Waiting /\ Serves(r, new)
              /\ \/ Answered(r, new) /\ raced' = raced
                 \/ Unheard(r, new) /\ raced' = (raced \/ r.acts # 0)
                 \/ raced' = TRUE
                 \/ Again(r, new) /\ raced' = raced
  BY <1>1
<1> HIDE DEF Answered, Unheard, Again
<1>3. ~raced /\ (Answered(r, new) \/ (Unheard(r, new) /\ r.acts = 0) \/ Again(r, new))
  <2>1. CASE Answered(r, new) /\ raced' = raced
    BY <2>1
  <2>2. CASE Unheard(r, new) /\ raced' = (raced \/ r.acts # 0)
    <3> DEFINE acted == r.acts # 0
    <3>1. raced' = (raced \/ acted)
      BY <2>2
    <3> HIDE DEF acted
    <3>2. ~raced /\ ~acted
      BY <3>1
    <3> QED
      BY <2>2, <3>2 DEF acted
  <2>3. CASE Again(r, new) /\ raced' = raced
    BY <2>3
  <2>4. CASE raced' = TRUE
    BY <2>4
  <2> QED
    BY <1>2, <2>1, <2>2, <2>3, <2>4
<1> QED
  BY <1>2, <1>3 DEF Answered, Unheard, Again

LEMMA SessionPage ==
    ASSUME SessionIInv
    PROVE  ui \in SessionApp /\ server \in SessionAccounts /\ net \subseteq SessionSent /\ sent \in Nat
BY DEF SessionIInv, SessionTypeInv

LEMMA SessionInitFresh == Session!Init => SessionFreshInv
<1> SUFFICES ASSUME Session!Init PROVE SessionFreshInv
  OBVIOUS
<1> PICK past \in Session!Pasts :
        Session!Started([page |-> "app", loading |-> FALSE, token |-> IF past.sessions = {} THEN None ELSE 0, user |-> FALSE,
                 enabled |-> FALSE, authLoading |-> TRUE, error |-> FALSE, crossed |-> FALSE],
                past, <<Session!Check("guard")>>)
  BY DEF Session!Init
<1> DEFINE ask == Session!Check("guard")
<1>1. net = {FirstRequest(1, ask)} /\ sent = 1 /\ server = past
  BY StartedWithOne DEF Session!Started, Session!Request
<1>2. ask.op = "health" /\ ask.then = "guard"
  BY DEF Session!Check
<1>3. ui.token = (IF past.sessions = {} THEN None ELSE 0) /\ ui.user = FALSE /\ ui.page = "app"
  BY DEF Session!Started
<1>4. past.sessions \subseteq {0} /\ past.revoked = {}
  <2>1. CASE past = [Session!Account EXCEPT !.sessions = {0}]
    BY <2>1 DEF Session!Account
  <2>2. CASE past = [Session!Account EXCEPT !.failed = 3, !.bad = 3]
    BY <2>2 DEF Session!Account
  <2>3. CASE past = [Session!Account EXCEPT !.failed = Session!Lockout, !.locked = "passed"]
    BY <2>3 DEF Session!Account
  <2> QED
    BY <2>1, <2>2, <2>3 DEF Session!Pasts
<1> HIDE DEF ask
<1>5. FirstRequest(1, ask).ask = ask /\ FirstRequest(1, ask).id = 1
  BY DEF FirstRequest
<1>6. SessionNumbersInv
  BY <1>1, <1>2, <1>3, <1>4, <1>5 DEF SessionNumbersInv
<1>7. SessionFlowInv
  BY <1>1, <1>2, <1>5 DEF SessionFlowInv, SessionFormWaits
<1>8. SessionTokenInv
  BY <1>1, <1>2, <1>3, <1>4, <1>5 DEF SessionTokenInv, SessionFormWaits
<1> QED
  BY <1>6, <1>7, <1>8 DEF SessionFreshInv

\* The numbers, when a request goes out, some are answered, or neither.
LEMMA SessionNumbersStep ==
    ASSUME SessionIInv, SessionNumbersInv, UNCHANGED server,
           \/ sent' = sent /\ net' \subseteq net
           \/ sent' = sent + 1 /\ \E ask : /\ net' \subseteq net \cup {NewRequest(sent, ask)}
                                           /\ ask.op \in {"logout", "me"} => ask.token \in (0 .. sent) \cup {None}
                                           /\ ask.op = "login" /\ ~ask.mine => ask.n = 3,
           ui'.token \in (0 .. sent) \cup {None}
    PROVE  SessionNumbersInv'
<1>1. sent \in Nat /\ sent' \in Nat /\ sent <= sent'
  BY SessionPage
<1>2. 0 .. sent \subseteq 0 .. sent'
  BY <1>1
<1>3. CASE sent' = sent /\ net' \subseteq net
  BY <1>3 DEF SessionNumbersInv
<1>4. ASSUME NEW ask, sent' = sent + 1, net' \subseteq net \cup {NewRequest(sent, ask)},
             ask.op \in {"logout", "me"} => ask.token \in (0 .. sent) \cup {None},
             ask.op = "login" /\ ~ask.mine => ask.n = 3
      PROVE  SessionNumbersInv'
  <2>1. NewRequest(sent, ask).ask = ask /\ NewRequest(sent, ask).id = sent + 1
    BY NewIsWaiting
  <2>2. sent + 1 \in 0 .. sent'
    BY <1>1, <1>4
  <2> QED
    BY <1>2, <1>4, <2>1, <2>2 DEF SessionNumbersInv
<1> QED
  BY <1>3, <1>4

LEMMA SessionLogoutFresh == ASSUME SessionIInv, SessionFreshInv, Session!Logout PROVE SessionFreshInv'
<1> DEFINE ask == [op |-> "logout", token |-> ui.token]
           crossed == ui.crossed \/ Session!Out({"logout", "health", "me"})
<1>1. /\ ui' = [ui EXCEPT !.crossed = crossed] /\ net' = net \cup {NewRequest(sent, ask)} /\ sent' = sent + 1
      /\ UNCHANGED server /\ ui.page = "app"
  BY SessionAsks1 DEF Session!Logout, Session!Ask
<1>2. ask.op = "logout" /\ ask.token = ui.token /\ ~SessionFormWaits(ask)
  BY DEF SessionFormWaits
<1>3. ~crossed => ~ui.crossed /\ \A r \in net : r.ask.op \notin {"logout", "health", "me"}
  BY DEF Session!Out
<1> HIDE DEF ask, crossed
<1>4. NewRequest(sent, ask).ask = ask /\ NewRequest(sent, ask).id = sent + 1
  BY NewIsWaiting
<1>5. /\ ui'.page = ui.page /\ ui'.loading = ui.loading /\ ui'.token = ui.token /\ ui'.user = ui.user
      /\ ui'.enabled = ui.enabled /\ ui'.crossed = crossed
  BY <1>1, SessionPage DEF SessionApp
<1>6. SessionNumbersInv'
  BY <1>1, <1>2, <1>5, SessionNumbersStep DEF SessionFreshInv, SessionNumbersInv
<1>7. SessionFlowInv'
  BY <1>1, <1>2, <1>4, <1>5 DEF SessionFreshInv, SessionFlowInv
<1>8. SessionTokenInv'
  <2> SUFFICES ASSUME ~crossed PROVE SessionTokenInv'
    BY <1>5 DEF SessionTokenInv
  <2>1. \A r \in net : ~SessionFormWaits(r.ask)
    BY <1>1 DEF SessionFreshInv, SessionFlowInv
  <2> QED
    BY <1>1, <1>2, <1>3, <1>4, <1>5, <2>1 DEF SessionFreshInv, SessionTokenInv
<1> QED
  BY <1>6, <1>7, <1>8 DEF SessionFreshInv

LEMMA SessionSubmitFresh ==
    ASSUME SessionIInv, SessionFreshInv, NEW good, Session!Submit(good) \/ Session!OthersSubmit(good)
    PROVE  SessionFreshInv'
<1>1. CASE Session!Submit(good)
  <2> DEFINE ask == Session!Attempt(TRUE, good, 1)
  <2>1. /\ ui' = [ui EXCEPT !.loading = TRUE, !.error = FALSE] /\ net' = net \cup {NewRequest(sent, ask)} /\ sent' = sent + 1
        /\ UNCHANGED server /\ ui.page = "login" /\ ~ui.loading
    BY <1>1, SessionAsks1 DEF Session!Submit, Session!Ask
  <2>2. ask.op = "login" /\ ask.mine /\ SessionFormWaits(ask)
    BY DEF SessionFormWaits, Session!Attempt
  <2> HIDE DEF ask
  <2>3. NewRequest(sent, ask).ask = ask /\ NewRequest(sent, ask).id = sent + 1
    BY NewIsWaiting
  <2>4. /\ ui'.page = ui.page /\ ui'.loading /\ ui'.token = ui.token /\ ui'.user = ui.user
        /\ ui'.enabled = ui.enabled /\ ui'.crossed = ui.crossed
    BY <2>1, SessionPage DEF SessionApp
  <2>5. \A r \in net : ~SessionFormWaits(r.ask)
    BY <2>1 DEF SessionFreshInv, SessionFlowInv
  <2>6. SessionNumbersInv'
    BY <2>1, <2>2, <2>4, SessionNumbersStep DEF SessionFreshInv, SessionNumbersInv
  <2>7. SessionFlowInv'
    BY <2>1, <2>2, <2>3, <2>4, <2>5 DEF SessionFreshInv, SessionFlowInv
  <2>8. sent + 1 \notin server.revoked
    BY SessionPage, NoneApart DEF SessionFreshInv, SessionNumbersInv
  <2>9. SessionTokenInv'
    BY <2>1, <2>2, <2>3, <2>4, <2>8 DEF SessionFreshInv, SessionTokenInv
  <2> QED
    BY <2>6, <2>7, <2>9 DEF SessionFreshInv
<1>2. CASE Session!OthersSubmit(good)
  <2> DEFINE ask == Session!Attempt(FALSE, good, 3)
  <2>1. ui' = ui /\ net' = net \cup {NewRequest(sent, ask)} /\ sent' = sent + 1 /\ UNCHANGED server
    BY <1>2, SessionAsks1 DEF Session!OthersSubmit, Session!Ask
  <2>2. ask.op = "login" /\ ~ask.mine /\ ask.n = 3 /\ ~SessionFormWaits(ask)
    BY DEF SessionFormWaits, Session!Attempt
  <2> HIDE DEF ask
  <2>3. NewRequest(sent, ask).ask = ask
    BY NewIsWaiting
  <2>4. SessionNumbersInv'
    BY <2>1, <2>2, SessionNumbersStep DEF SessionFreshInv, SessionNumbersInv
  <2>5. SessionFlowInv'
    BY <2>1, <2>2, <2>3 DEF SessionFreshInv, SessionFlowInv
  <2>6. SessionTokenInv'
    BY <2>1, <2>2, <2>3 DEF SessionFreshInv, SessionTokenInv
  <2> QED
    BY <2>4, <2>5, <2>6 DEF SessionFreshInv
<1> QED
  BY <1>1, <1>2

LEMMA SessionReadsFresh == ASSUME SessionIInv, SessionFreshInv, NEW r \in net, Session!Reads(r) PROVE SessionFreshInv'
<1> DEFINE row == [failed |-> server.failed, locked |-> server.locked]
           ask == [r.ask EXCEPT !.read = row]
           p == [r EXCEPT !.ask = ask]
<1>1. r.ask.op = "login" /\ UNCHANGED <<ui, server, sent>> /\ net' = (net \ {r}) \cup {p}
  BY DEF Session!Reads
<1>2. r \in SessionSent /\ r.ask \in [op : {"login"}, mine : BOOLEAN, good : BOOLEAN, n : Int, read : SessionRow \cup {None}]
  <2>1. r \in SessionSent /\ r.ask \in SessionAsks
    BY SessionPage DEF SessionSent
  <2> QED
    BY <1>1, <2>1 DEF SessionAsks
<1> HIDE DEF row
<1>3. ask.op = "login" /\ ask.mine = r.ask.mine /\ ask.n = r.ask.n
  BY <1>2
<1> HIDE DEF ask
<1>4. p.ask = ask /\ p.id = r.id
  BY <1>2 DEF SessionSent
<1> HIDE DEF p
<1>5. SessionFormWaits(ask) <=> SessionFormWaits(r.ask)
  BY <1>1, <1>3 DEF SessionFormWaits
<1>6. SessionNumbersInv'
  BY <1>1, <1>3, <1>4 DEF SessionFreshInv, SessionNumbersInv
<1>7. SessionFlowInv'
  BY <1>1, <1>3, <1>4, <1>5 DEF SessionFreshInv, SessionFlowInv
<1>8. SessionTokenInv'
  BY <1>1, <1>3, <1>4, <1>5 DEF SessionFreshInv, SessionTokenInv
<1> QED
  BY <1>6, <1>7, <1>8 DEF SessionFreshInv

LEMMA SessionLoginFresh ==
    ASSUME SessionIInv, SessionFreshInv, NEW r \in net, Session!TriedAgain(r) \/ Session!LoginAnswered(r)
    PROVE  SessionFreshInv'
<1>1. r.ask.op = "login" /\ r.id \in 0 .. sent /\ r.id # None
  BY SessionPage, NoneApart DEF Session!TriedAgain, Session!LoginAnswered, Session!Came, SessionFreshInv, SessionNumbersInv
<1>2. CASE Session!TriedAgain(r)
  <2> DEFINE ask == Session!Attempt(TRUE, r.ask.good, r.ask.n + 1)
  <2>1. ui' = ui /\ net' = (net \ {r}) \cup {NewRequest(sent, ask)} /\ sent' = sent + 1 /\ UNCHANGED server /\ r.ask.n < 3
    BY <1>2, SessionAsks1 DEF Session!TriedAgain
  <2>2. ask.op = "login" /\ ask.mine /\ SessionFormWaits(ask)
    BY DEF SessionFormWaits, Session!Attempt
  <2> HIDE DEF ask
  <2>3. NewRequest(sent, ask).ask = ask /\ NewRequest(sent, ask).id = sent + 1
    BY NewIsWaiting
  <2>4. SessionFormWaits(r.ask)
    BY <1>1, <2>1 DEF SessionFreshInv, SessionNumbersInv, SessionFormWaits
  <2>5. SessionNumbersInv'
    BY <2>1, <2>2, SessionNumbersStep DEF SessionFreshInv, SessionNumbersInv
  <2>6. SessionFlowInv'
    BY <2>1, <2>2, <2>3, <2>4 DEF SessionFreshInv, SessionFlowInv
  <2>7. sent + 1 \notin server.revoked
    BY SessionPage, NoneApart DEF SessionFreshInv, SessionNumbersInv
  <2>8. ui.page = "login"
    BY <2>4 DEF SessionFreshInv, SessionFlowInv
  <2>9. SessionTokenInv'
    BY <1>1, <2>1, <2>2, <2>3, <2>7, <2>8 DEF SessionFreshInv, SessionTokenInv
  <2> QED
    BY <2>5, <2>6, <2>9 DEF SessionFreshInv
<1>3. CASE Session!LoginAnswered(r) /\ ~r.ask.mine
  <2>1. ui' = ui /\ net' = net \ {r} /\ UNCHANGED <<server, sent>>
    BY <1>3, SessionPage, SessionEnds DEF Session!LoginAnswered
  <2>2. SessionNumbersInv'
    BY <2>1, SessionNumbersStep DEF SessionFreshInv, SessionNumbersInv
  <2>3. SessionFlowInv'
    BY <2>1 DEF SessionFreshInv, SessionFlowInv
  <2>4. SessionTokenInv'
    BY <1>1, <2>1 DEF SessionFreshInv, SessionTokenInv
  <2> QED
    BY <2>2, <2>3, <2>4 DEF SessionFreshInv
<1>4. ASSUME Session!LoginAnswered(r), r.ask.mine
      PROVE  SessionFreshInv'
  <2>1. SessionFormWaits(r.ask) /\ ui.page = "login"
    BY <1>1, <1>4 DEF SessionFreshInv, SessionFlowInv, SessionFormWaits
  <2>2. ~ui.crossed => r.id \notin server.revoked /\ \A q \in net : q.ask.op # "logout"
    BY <1>1, <1>4, <2>1 DEF SessionFreshInv, SessionTokenInv
  <2>3. CASE r.got = "done"
    <3> DEFINE ask == Session!Check("login")
    <3>1. /\ ui' = [ui EXCEPT !.token = r.id, !.authLoading = TRUE]
          /\ net' = (net \ {r}) \cup {NewRequest(sent, ask)} /\ sent' = sent + 1 /\ UNCHANGED server
      BY <1>4, <2>3, SessionAsks1 DEF Session!LoginAnswered
    <3>2. ask.op = "health" /\ SessionFormWaits(ask)
      BY DEF SessionFormWaits, Session!Check
    <3> HIDE DEF ask
    <3>3. NewRequest(sent, ask).ask = ask
      BY NewIsWaiting
    <3>4. /\ ui'.page = ui.page /\ ui'.loading = ui.loading /\ ui'.token = r.id /\ ui'.user = ui.user
          /\ ui'.enabled = ui.enabled /\ ui'.crossed = ui.crossed
      BY <3>1, SessionPage DEF SessionApp
    <3>5. SessionNumbersInv'
      BY <1>1, <3>1, <3>2, <3>4, SessionNumbersStep DEF SessionFreshInv, SessionNumbersInv
    <3>6. SessionFlowInv'
      BY <2>1, <3>1, <3>2, <3>3, <3>4 DEF SessionFreshInv, SessionFlowInv
    <3>7. SessionTokenInv'
      BY <1>1, <2>1, <2>2, <3>1, <3>2, <3>3, <3>4 DEF SessionFreshInv, SessionTokenInv
    <3> QED
      BY <3>5, <3>6, <3>7 DEF SessionFreshInv
  <2>4. CASE r.got # "done"
    <3>1. ui' = [ui EXCEPT !.error = TRUE, !.loading = FALSE] /\ net' = net \ {r} /\ UNCHANGED <<server, sent>>
      BY <1>4, <2>4, SessionPage, SessionEnds DEF Session!LoginAnswered
    <3>2. /\ ui'.page = ui.page /\ ui'.token = ui.token /\ ui'.user = ui.user
          /\ ui'.enabled = ui.enabled /\ ui'.crossed = ui.crossed
      BY <3>1, SessionPage DEF SessionApp
    <3>3. SessionNumbersInv'
      BY <3>1, <3>2, SessionNumbersStep DEF SessionFreshInv, SessionNumbersInv
    <3>4. SessionFlowInv'
      BY <2>1, <3>1, <3>2 DEF SessionFreshInv, SessionFlowInv
    <3>5. SessionTokenInv'
      BY <1>1, <2>1, <2>2, <3>1, <3>2 DEF SessionFreshInv, SessionTokenInv
    <3> QED
      BY <3>3, <3>4, <3>5 DEF SessionFreshInv
  <2> QED
    BY <2>3, <2>4
<1> QED
  BY <1>2, <1>3, <1>4

LEMMA SessionGuardOpens ==
    ASSUME NEW state \in SessionApp
    PROVE  LET s == Session!Guarded(state)
           IN  /\ s \in SessionApp /\ s.token = state.token /\ s.user = state.user /\ s.enabled = state.enabled
               /\ s.crossed = state.crossed /\ s.loading = state.loading
               /\ s.page = IF state.page = "app" /\ ~state.authLoading /\ state.enabled /\ ~state.user THEN "login" ELSE state.page
BY DEF Session!Guarded, SessionApp

\* The end of a check: a user is set or not, a token kept or given up.
LEMMA SessionCheckedFresh ==
    ASSUME SessionIInv, SessionFreshInv, NEW r \in net, NEW state \in SessionApp, Session!Checked(r, state),
           r.ask.op \in {"health", "me"}, r.ask.then \in {"guard", "login"},
           state.page = ui.page, state.loading = ui.loading, state.crossed = ui.crossed,
           ui.enabled => state.enabled,
           state.token = ui.token \/ (state.token = None /\ r.ask.op = "me"),
           \/ ~state.user
           \/ r.ask.op = "me" /\ state.token = ui.token
    PROVE  SessionFreshInv'
<1> DEFINE checked == [state EXCEPT !.authLoading = FALSE]
<1>1. /\ checked \in SessionApp /\ checked.page = ui.page /\ checked.loading = ui.loading /\ checked.crossed = ui.crossed
      /\ checked.enabled = state.enabled /\ checked.token = state.token /\ checked.user = state.user
      /\ checked.authLoading = FALSE
  BY DEF SessionApp
<1>2. Session!Checked(r, state) = IF r.ask.then = "guard" THEN ui' = Session!Guarded(checked) /\ Session!Done(r)
        ELSE /\ ui' = [Session!Guarded([checked EXCEPT !.page = "app", !.loading = FALSE]) EXCEPT !.authLoading = TRUE]
             /\ Session!Go(r, <<Session!Check("guard")>>)
  BY DEF Session!Checked
<1> HIDE DEF checked
<1>3. state.token \in (0 .. sent) \cup {None}
  BY DEF SessionFreshInv, SessionNumbersInv
<1>4. ~ui.crossed => \A q \in net : q.ask.op # "logout"
  BY DEF SessionFreshInv, SessionTokenInv
<1>5. CASE r.ask.then = "guard"
  <2>1. ui' = Session!Guarded(checked) /\ net' = net \ {r} /\ UNCHANGED <<server, sent>>
    BY <1>2, <1>5, SessionPage, SessionEnds
  <2>2. /\ ui'.token = state.token /\ ui'.user = state.user /\ ui'.enabled = state.enabled
        /\ ui'.crossed = ui.crossed /\ ui'.loading = ui.loading
        /\ ui'.page = IF ui.page = "app" /\ state.enabled /\ ~state.user THEN "login" ELSE ui.page
    BY <1>1, <2>1, SessionGuardOpens
  <2>3. SessionNumbersInv'
    BY <1>3, <2>1, <2>2, SessionNumbersStep DEF SessionFreshInv
  <2>4. SessionFlowInv'
    BY <2>1, <2>2 DEF SessionFreshInv, SessionFlowInv
  <2>5. ASSUME ~ui.crossed, ui'.page = "app", ui'.token = None
        PROVE  (\E q \in net' : q.ask.op = "health") \/ (~ui'.user /\ \A q \in net' : q.ask.op # "me")
    <3>1. CASE state.user
      <4>1. r.ask.op = "me" /\ ui.token = None /\ ui.page = "app"
        BY <2>2, <2>5, <3>1
      <4>2. \E q \in net : q.ask.op = "health"
        BY <2>5, <4>1 DEF SessionFreshInv, SessionTokenInv
      <4> QED
        BY <2>1, <4>1, <4>2
    <3>2. CASE ~state.user
      <4>1. ~ui.enabled
        BY <2>2, <2>5, <3>2
      <4> QED
        BY <2>1, <2>2, <3>2, <4>1 DEF SessionFreshInv, SessionFlowInv
    <3> QED
      BY <3>1, <3>2
  <2>6. SessionTokenInv'
    BY <1>4, <2>1, <2>2, <2>5 DEF SessionFreshInv, SessionTokenInv
  <2> QED
    BY <2>3, <2>4, <2>6 DEF SessionFreshInv
<1>6. CASE r.ask.then = "login"
  <2> DEFINE ask == Session!Check("guard")
             opened == [checked EXCEPT !.page = "app", !.loading = FALSE]
  <2>1. /\ ui' = [Session!Guarded(opened) EXCEPT !.authLoading = TRUE]
        /\ net' = (net \ {r}) \cup {NewRequest(sent, ask)} /\ sent' = sent + 1 /\ UNCHANGED server
    BY <1>2, <1>6, SessionAsks1
  <2>2. opened \in SessionApp /\ opened.token = state.token /\ opened.enabled = state.enabled /\ opened.crossed = ui.crossed
    BY <1>1 DEF SessionApp
  <2>3. ask.op = "health" /\ ~SessionFormWaits(ask)
    BY DEF SessionFormWaits, Session!Check
  <2> HIDE DEF ask, opened
  <2>4. NewRequest(sent, ask).ask = ask
    BY ONLY NewIsWaiting
  <2>5. ui'.token = state.token /\ ui'.enabled = state.enabled /\ ui'.crossed = ui.crossed
    BY <2>1, <2>2, SessionGuardOpens DEF SessionApp
  <2>6. SessionFormWaits(r.ask)
    BY <1>6 DEF SessionFormWaits
  <2>7. \A q \in net : SessionFormWaits(q.ask) => q = r
    BY <2>6 DEF SessionFreshInv, SessionFlowInv
  <2>8. SessionNumbersInv'
    BY <1>3, <2>1, <2>3, <2>5, SessionNumbersStep DEF SessionFreshInv
  <2>9. SessionFlowInv'
    BY <2>1, <2>3, <2>4, <2>5, <2>7 DEF SessionFreshInv, SessionFlowInv
  <2>10. SessionTokenInv'
    BY <1>4, <2>1, <2>3, <2>4, <2>5 DEF SessionFreshInv, SessionTokenInv
  <2> QED
    BY <2>8, <2>9, <2>10 DEF SessionFreshInv
<1> QED
  BY <1>5, <1>6

LEMMA SessionChecksFresh ==
    ASSUME SessionIInv, SessionFreshInv, NEW r \in net, Session!HealthFetched(r) \/ Session!MeFetched(r)
    PROVE  SessionFreshInv'
<1>1. r.ask.op \in {"health", "me"}
  BY DEF Session!HealthFetched, Session!MeFetched, Session!Came
<1>2. r.ask.then \in {"guard", "login"}
  <2>1. r.ask \in SessionAsks
    BY SessionPage DEF SessionSent
  <2> QED
    BY <1>1, <2>1 DEF SessionAsks
<1>3. CASE Session!MeFetched(r)
  <2> DEFINE state == IF r.got = Failed THEN Session!SignedOut(ui) ELSE [ui EXCEPT !.user = TRUE]
  <2>1. r.ask.op = "me" /\ Session!Checked(r, state)
    BY <1>3 DEF Session!MeFetched, Session!Came
  <2>2. /\ state \in SessionApp /\ state.page = ui.page /\ state.loading = ui.loading /\ state.crossed = ui.crossed
        /\ state.enabled = ui.enabled
        /\ (state.token = None /\ ~state.user) \/ state.token = ui.token
    BY SessionPage DEF Session!SignedOut, SessionApp, SessionTokens
  <2> HIDE DEF state
  <2> QED
    BY <1>1, <1>2, <2>1, <2>2, SessionCheckedFresh
<1>4. CASE Session!HealthFetched(r) /\ ~(r.got # Failed /\ ui.token # None)
  <2>1. PICK state \in {[ui EXCEPT !.user = FALSE], [ui EXCEPT !.enabled = TRUE, !.user = FALSE]} : Session!Checked(r, state)
    BY <1>4 DEF Session!HealthFetched
  <2>2. /\ state \in SessionApp /\ state.page = ui.page /\ state.loading = ui.loading /\ state.crossed = ui.crossed
        /\ (ui.enabled => state.enabled) /\ state.token = ui.token /\ ~state.user
    BY SessionPage DEF SessionApp
  <2> QED
    BY <1>1, <1>2, <2>1, <2>2, SessionCheckedFresh
<1>5. CASE Session!HealthFetched(r) /\ r.got # Failed /\ ui.token # None
  <2> DEFINE ask == [op |-> "me", then |-> r.ask.then, token |-> ui.token]
  <2>1. /\ ui' = [ui EXCEPT !.enabled = TRUE] /\ net' = (net \ {r}) \cup {NewRequest(sent, ask)} /\ sent' = sent + 1
        /\ UNCHANGED server /\ r.ask.op = "health"
    BY <1>5, SessionAsks1 DEF Session!HealthFetched, Session!Came
  <2>2. ask.op = "me" /\ ask.token = ui.token /\ (SessionFormWaits(ask) <=> SessionFormWaits(r.ask))
    BY <2>1 DEF SessionFormWaits
  <2> HIDE DEF ask
  <2>3. NewRequest(sent, ask).ask = ask
    BY NewIsWaiting
  <2>4. /\ ui'.page = ui.page /\ ui'.loading = ui.loading /\ ui'.token = ui.token /\ ui'.user = ui.user
        /\ ui'.enabled /\ ui'.crossed = ui.crossed
    BY <2>1, SessionPage DEF SessionApp
  <2>5. SessionNumbersInv'
    BY <2>1, <2>2, <2>4, SessionNumbersStep DEF SessionFreshInv, SessionNumbersInv
  <2>6. SessionFlowInv'
    BY <2>1, <2>2, <2>3, <2>4 DEF SessionFreshInv, SessionFlowInv
  <2>7. ~ui.crossed => \A q \in net : q.ask.op # "logout"
    BY <2>1 DEF SessionFreshInv, SessionTokenInv
  <2>8. SessionTokenInv'
    BY <1>5, <2>1, <2>2, <2>3, <2>4, <2>7 DEF SessionFreshInv, SessionTokenInv
  <2> QED
    BY <2>5, <2>6, <2>8 DEF SessionFreshInv
<1> QED
  BY <1>3, <1>4, <1>5

LEMMA SessionLoggedOutFresh == ASSUME SessionIInv, SessionFreshInv, NEW r \in net, Session!LoggedOut(r) PROVE SessionFreshInv'
<1> DEFINE out == Session!SignedOut(ui)
<1>1. r.ask.op = "logout" /\ ui' = Session!Guarded(out) /\ net' = net \ {r} /\ UNCHANGED <<server, sent>>
  BY SessionPage, SessionEnds DEF Session!LoggedOut, Session!Came
<1>2. /\ out \in SessionApp /\ out.page = ui.page /\ out.loading = ui.loading /\ out.enabled = ui.enabled
      /\ out.crossed = ui.crossed /\ out.token = None /\ ~out.user
  BY SessionPage DEF Session!SignedOut, SessionApp, SessionTokens
<1> HIDE DEF out
<1>3. /\ ui'.token = None /\ ~ui'.user /\ ui'.enabled = ui.enabled /\ ui'.crossed = ui.crossed /\ ui'.loading = ui.loading
      /\ ui'.page \in {ui.page, "login"}
  BY <1>1, <1>2, SessionGuardOpens
<1>4. SessionNumbersInv'
  BY <1>1, <1>3, SessionNumbersStep DEF SessionFreshInv
<1>5. SessionFlowInv'
  BY <1>1, <1>3 DEF SessionFreshInv, SessionFlowInv
<1>6. SessionTokenInv'
  BY <1>1, <1>3 DEF SessionFreshInv, SessionTokenInv
<1> QED
  BY <1>4, <1>5, <1>6 DEF SessionFreshInv

LEMMA SessionServesFresh ==
    ASSUME SessionIInv, SessionFreshInv, Session!ServeOne(Session!Read, Session!Refused, Session!Effect, Session!Reply)
    PROVE  SessionFreshInv'
<1>1. \A r \in net : Session!Reply(r) \in SessionGots
  BY DEF Session!Reply, SessionGots
<1>2. PICK r \in net : \E new \in [net -> SessionSent] :
              Serves(r, new) /\ server' \in {server, Session!Effect(r)} /\ sent' = sent /\ new[r].id = r.id
  BY <1>1, SessionPage, SessionServing DEF Session!Read
<1>3. PICK new \in [net -> SessionSent] :
              Serves(r, new) /\ server' \in {server, Session!Effect(r)} /\ sent' = sent /\ new[r].id = r.id
  BY <1>2
<1>4. net' = {new[q] : q \in net} /\ UNCHANGED <<ui, sent>>
  BY <1>3 DEF Serves
<1>5. \A q \in net : new[q].id = q.id /\ new[q].ask = q.ask
  BY <1>3 DEF Serves
<1>6. /\ server'.sessions \subseteq server.sessions \cup {r.id}
      /\ server'.revoked \subseteq server.revoked \cup server.sessions \cup {r.ask.token}
      /\ r.ask.op # "logout" => server'.revoked = server.revoked
  <2>1. CASE server' = server
    BY <2>1
  <2>2. CASE server' = Session!LoggedOutAll(r) /\ r.ask.op = "logout"
    <3> DEFINE revoked == server.revoked \cup server.sessions \cup {r.ask.token}
               none == {}
    <3>1. server' = [server EXCEPT !.revoked = revoked, !.sessions = none]
      BY <2>2 DEF Session!LoggedOutAll
    <3> HIDE DEF revoked, none
    <3>2. server'.revoked = revoked /\ server'.sessions = none
      BY <3>1, SessionPage DEF SessionAccounts
    <3> QED
      BY <2>2, <3>2 DEF revoked, none
  <2>3. CASE server' = Session!RightPassword(r)
    <3> DEFINE failed == IF r.ask.read.failed = 0 THEN server.failed ELSE 0
               locked == IF r.ask.read.locked = "no" THEN server.locked ELSE "no"
               sessions == server.sessions \cup {r.id}
    <3>1. server' = [server EXCEPT !.failed = failed, !.locked = locked, !.sessions = sessions]
      BY <2>3 DEF Session!RightPassword
    <3> HIDE DEF failed, locked, sessions
    <3>2. server'.revoked = server.revoked /\ server'.sessions = sessions
      BY <3>1, SessionPage DEF SessionAccounts
    <3> QED
      BY <3>2 DEF sessions
  <2>4. CASE server' = Session!WrongPassword(r)
    <3>1. server'.revoked = server.revoked /\ server'.sessions = server.sessions
      BY <2>4, SessionPage DEF Session!WrongPassword, SessionAccounts
    <3> QED
      BY <3>1
  <2>5. \/ Session!Effect(r) = server
        \/ Session!Effect(r) = Session!LoggedOutAll(r) /\ r.ask.op = "logout"
        \/ Session!Effect(r) \in {Session!RightPassword(r), Session!WrongPassword(r)}
    BY DEF Session!Effect
  <2> QED
    BY <1>3, <2>1, <2>2, <2>3, <2>4, <2>5
<1>7. /\ r.id \in 0 .. sent /\ (r.ask.op = "logout" => r.ask.token \in (0 .. sent) \cup {None})
      /\ server.sessions \subseteq 0 .. sent /\ server.revoked \subseteq (0 .. sent) \cup {None}
  BY DEF SessionFreshInv, SessionNumbersInv
<1>8. server'.sessions \subseteq 0 .. sent /\ server'.revoked \subseteq (0 .. sent) \cup {None}
  <2>1. CASE r.ask.op = "logout"
    BY <1>6, <1>7, <2>1
  <2>2. CASE r.ask.op # "logout"
    BY <1>6, <1>7, <2>2
  <2> QED
    BY <2>1, <2>2
<1>9. SessionNumbersInv'
  BY <1>4, <1>5, <1>8 DEF SessionFreshInv, SessionNumbersInv
<1>10. SessionFlowInv'
  BY <1>4, <1>5 DEF SessionFreshInv, SessionFlowInv
<1>11. SessionTokenInv'
  <2> SUFFICES ASSUME ~ui.crossed PROVE SessionTokenInv'
    BY <1>4 DEF SessionTokenInv
  <2>1. /\ \A p, q \in net' : p.ask.op = "logout" /\ q.ask.op = "logout" => p = q
        /\ \A p, q \in net' : p.ask.op = "logout" => q.ask.op \notin {"health", "me"} /\ ~SessionFormWaits(q.ask)
        /\ \A p \in net' : p.ask.op = "logout" => ui.page = "app"
    BY <1>4, <1>5 DEF SessionFreshInv, SessionTokenInv
  <2>2. \A q \in net : q.ask.op = "login" /\ q.ask.mine => q.id \notin server'.revoked
    <3>1. CASE r.ask.op = "logout"
      BY <3>1 DEF SessionFreshInv, SessionTokenInv, SessionFormWaits
    <3>2. CASE r.ask.op # "logout"
      BY <1>6, <3>2 DEF SessionFreshInv, SessionTokenInv
    <3> QED
      BY <3>1, <3>2
  <2>3. ui.token # None => ui.token \notin server'.revoked \/ \E q \in net : q.ask.op = "logout"
    BY <1>6 DEF SessionFreshInv, SessionTokenInv
  <2>4. ui.page = "app" /\ ui.token = None =>
            (\E q \in net : q.ask.op = "health") \/ (~ui.user /\ \A q \in net : q.ask.op # "me")
    BY DEF SessionFreshInv, SessionTokenInv
  <2> QED
    BY <1>4, <1>5, <2>1, <2>2, <2>3, <2>4 DEF SessionTokenInv
<1> QED
  BY <1>9, <1>10, <1>11 DEF SessionFreshInv

LEMMA SessionNextFresh == SessionIInv /\ SessionFreshInv /\ [Session!Next]_(Session!vars) => SessionFreshInv'
<1> SUFFICES ASSUME SessionIInv, SessionFreshInv, [Session!Next]_(Session!vars) PROVE SessionFreshInv'
  OBVIOUS
<1>1. CASE UNCHANGED Session!vars \/ Session!LockPasses
  <2>1. UNCHANGED <<ui, net, sent>> /\ server'.sessions = server.sessions /\ server'.revoked = server.revoked
    <3>1. CASE UNCHANGED Session!vars
      BY <3>1 DEF Session!vars
    <3>2. CASE Session!LockPasses
      BY <3>2, SessionPage DEF Session!LockPasses, SessionAccounts
    <3> QED
      BY <1>1, <3>1, <3>2
  <2> QED
    BY <2>1 DEF SessionFreshInv, SessionNumbersInv, SessionFlowInv, SessionTokenInv
<1>2. CASE Session!Next
  <2>1. \/ Session!LockPasses \/ Session!Logout
        \/ \E good : Session!Submit(good) \/ Session!OthersSubmit(good)
        \/ \E r \in net : \/ Session!Reads(r) \/ Session!TriedAgain(r) \/ Session!LoginAnswered(r)
                          \/ Session!HealthFetched(r) \/ Session!MeFetched(r) \/ Session!LoggedOut(r)
        \/ Session!ServeOne(Session!Read, Session!Refused, Session!Effect, Session!Reply)
    BY <1>2 DEF Session!Next
  <2> QED
    BY <1>1, <2>1, SessionLogoutFresh, SessionSubmitFresh, SessionReadsFresh, SessionLoginFresh, SessionChecksFresh,
       SessionLoggedOutFresh, SessionServesFresh
<1> QED
  BY <1>1, <1>2

LEMMA SessionShowFresh == SessionFreshInv => Session!Fresh
BY DEF SessionFreshInv, SessionTokenInv, Session!Fresh, Session!Quiet, Session!Accepts
-----------------------------------------------------------------------------
(* The registry of models. *)

ModelsNames == {"m"} \cup Models!Providers
ModelsRow == [role : Models!Roles, model : ModelsNames, default : BOOLEAN]
ModelsRows == Maps(Int, ModelsRow)
ModelsBusy == {None, <<"register">>} \cup {<<"select", role>> : role \in Models!Roles}
              \cup {<<"delete", model>> : model \in ModelsNames}

ModelsApp ==
    [rows : ModelsRows \cup {None}, loading : BOOLEAN, error : BOOLEAN, busy : ModelsBusy,
     role : Models!Roles, provider : Models!Providers, model : Models!Providers \cup {None},
     makeDefault : BOOLEAN, fetching : BOOLEAN, stale : BOOLEAN]
ModelsServer == [rows : ModelsRows, overlapped : BOOLEAN]

ModelsLook == [found : SUBSET Int, rows : SUBSET Int]
ModelsRegister ==
    [op : {"register"}, mine : BOOLEAN, role : Models!Roles, model : ModelsNames, default : BOOLEAN,
     read : ModelsLook \cup {None}]
ModelsSelect == [op : {"select"}, role : Models!Roles, model : ModelsNames, read : ModelsLook \cup {None}]
ModelsAsks ==
    [op : {"list"}, clears : BOOLEAN] \cup [op : {"lite"}, provider : Models!Providers]
    \cup ModelsRegister \cup ModelsSelect \cup [op : {"delete"}, model : ModelsNames]
ModelsGots == {Waiting, Failed, "done"} \cup ModelsRows
ModelsSent == [id : Int, ask : ModelsAsks, got : ModelsGots, late : BOOLEAN, acts : Nat]

ModelsTypeInv ==
    /\ ui \in ModelsApp /\ server \in ModelsServer /\ net \subseteq ModelsSent /\ sent \in Nat
    /\ \A r \in net : r.ask.op = "list" /\ r.got \notin {Waiting, Failed} => r.got \in ModelsRows

\* A row is numbered by the request that registered it, so that a number keeps
\* its role, also while the row is deleted: what a change found is of its role.
ModelsHasLooked(r) == r.ask.op \in Models!Changes /\ r.ask.read # None
ModelsRolesInv ==
    \E of \in [Int -> Models!Roles] :
        /\ \A i \in DOMAIN server.rows : i <= sent + 2 /\ server.rows[i].role = of[i]
        /\ \A r \in net :
              /\ r.id <= sent
              /\ r.ask.op = "register" => of[r.id + 2] = r.ask.role
              /\ ModelsHasLooked(r) => \A i \in r.ask.read.found : i <= sent + 2 /\ of[i] = r.ask.role

\* A button waits for its own write, and then for the list fetched after it.
ModelsOwn(ask) ==
    \/ ask.op \in {"select", "delete"}
    \/ ask.op = "register" /\ ask.mine
    \/ ask.op = "list" /\ ask.clears
ModelsBusyInv ==
    /\ ui.loading => \E r \in net : r.ask.op = "list"
    /\ ui.fetching => \E r \in net : r.ask.op = "lite"
    /\ ui.busy # None => \E r \in net : ModelsOwn(r.ask)

ModelsIInv == ModelsTypeInv /\ ModelsRolesInv /\ ModelsBusyInv /\ Models!OneDefault

LEMMA ModelsAsks1 ==
    ASSUME NEW ask
    PROVE  /\ Models!Send(<<ask>>) => net' = net \cup {NewRequest(sent, ask)} /\ sent' = sent + 1 /\ UNCHANGED server
           /\ \A r : Models!Go(r, <<ask>>) =>
                net' = (net \ {r}) \cup {NewRequest(sent, ask)} /\ sent' = sent + 1 /\ UNCHANGED server
<1>1. Models!Requests(<<ask>>) = {NewRequest(sent, ask)} /\ Len(<<ask>>) = 1
  BY OneAsked DEF Models!Requests, Models!Request
<1> QED
  BY <1>1 DEF Models!Send, Models!Go

LEMMA ModelsEnds ==
    ASSUME NEW r, sent \in Nat, Models!Done(r)
    PROVE  net' = net \ {r} /\ UNCHANGED <<sent, server>>
<1>1. Models!Requests(<<>>) = {} /\ Len(<<>>) = 0
  BY NoneAsked DEF Models!Requests, Models!Request
<1> QED
  BY <1>1 DEF Models!Done, Models!Go


LEMMA ModelsInitIInv == Models!Init => ModelsIInv
<1> SUFFICES ASSUME Models!Init PROVE ModelsIInv
  OBVIOUS
<1> DEFINE list == Models!List(FALSE)
           lite == Models!Lite("p")
           one == Models!Row("completion", "m", TRUE)
           two == Models!Row("classifier", "p", TRUE)
           rows == <<one, two>>
<1>1. net = {FirstRequest(1, list), FirstRequest(2, lite)} /\ sent = 2
  BY StartedWithTwo DEF Models!Init, Models!Started, Models!Request
<1>2. server = [rows |-> rows, overlapped |-> FALSE]
  BY DEF Models!Init, Models!Started
<1>3. ui \in ModelsApp /\ ui.busy = None
  <2>1. /\ None \in ModelsRows \cup {None} /\ None \in ModelsBusy /\ "completion" \in Models!Roles
        /\ "p" \in Models!Providers /\ None \in Models!Providers \cup {None}
    BY DEF ModelsBusy, Models!Roles, Models!Providers
  <2> QED
    BY <2>1 DEF Models!Init, Models!Started, ModelsApp
<1>4. one \in ModelsRow /\ two \in ModelsRow /\ one.role = "completion" /\ two.role = "classifier"
  BY DEF Models!Row, ModelsRow, ModelsNames, Models!Roles, Models!Providers
<1>5. list \in ModelsAsks /\ lite \in ModelsAsks /\ list.op = "list" /\ lite.op = "lite"
  BY DEF Models!List, Models!Lite, ModelsAsks, Models!Providers
<1> HIDE DEF one, two, list, lite
<1>6. DOMAIN rows = {1, 2} /\ rows[1] = one /\ rows[2] = two /\ rows \in [{1, 2} -> ModelsRow]
  BY <1>4
<1> HIDE DEF rows
<1>7. rows \in ModelsRows
  BY <1>6, MapIs DEF ModelsRows
<1>8. net \subseteq ModelsSent
  BY <1>1, <1>5 DEF FirstRequest, ModelsSent, ModelsGots
<1>9. \A r \in net : (r.ask = list \/ r.ask = lite) /\ r.id \in {1, 2} /\ r.got = Waiting
  BY <1>1 DEF FirstRequest
<1>10. ModelsTypeInv
  BY <1>1, <1>2, <1>3, <1>7, <1>8, <1>9 DEF ModelsTypeInv, ModelsServer
<1>11. ModelsRolesInv
  <2> DEFINE of == [i \in Int |-> IF i = 1 THEN "completion" ELSE "classifier"]
  <2>1. of \in [Int -> Models!Roles]
    BY DEF Models!Roles
  <2>2. \A i \in DOMAIN server.rows : i <= sent + 2 /\ server.rows[i].role = of[i]
    BY <1>1, <1>2, <1>4, <1>6
  <2>3. \A r \in net : r.id <= sent /\ r.ask.op \notin {"register", "select"}
    BY <1>1, <1>5, <1>9
  <2> HIDE DEF of
  <2> QED
    BY <2>1, <2>2, <2>3 DEF ModelsRolesInv, ModelsHasLooked, Models!Changes
<1>12. ModelsBusyInv
  BY <1>1, <1>3, <1>5 DEF ModelsBusyInv, FirstRequest
<1>13. Models!OneDefault
  BY <1>2, <1>4, <1>6 DEF Models!OneDefault
<1> QED
  BY <1>10, <1>11, <1>12, <1>13 DEF ModelsIInv
-----------------------------------------------------------------------------
\* Requests go out that have not looked yet, and answers are taken off.
LEMMA ModelsNetStep ==
    ASSUME ModelsIInv, UNCHANGED server, ui' \in ModelsApp,
           \/ sent' = sent /\ net' \subseteq net
           \/ sent' = sent + 1 /\ \E ask \in ModelsAsks :
                /\ net' \subseteq net \cup {NewRequest(sent, ask)}
                /\ ask.op \in Models!Changes => ask.read = None
    PROVE  ModelsTypeInv' /\ ModelsRolesInv' /\ Models!OneDefault'
<1>1. /\ server \in ModelsServer /\ net \subseteq ModelsSent /\ sent \in Nat /\ sent' \in Nat
      /\ \A r \in net : r.ask.op = "list" /\ r.got \notin {Waiting, Failed} => r.got \in ModelsRows
  BY DEF ModelsIInv, ModelsTypeInv
<1>2. Models!OneDefault'
  BY DEF ModelsIInv, Models!OneDefault
<1>3. PICK of \in [Int -> Models!Roles] :
        /\ \A i \in DOMAIN server.rows : i <= sent + 2 /\ server.rows[i].role = of[i]
        /\ \A r \in net :
              /\ r.id <= sent
              /\ r.ask.op = "register" => of[r.id + 2] = r.ask.role
              /\ ModelsHasLooked(r) => \A i \in r.ask.read.found : i <= sent + 2 /\ of[i] = r.ask.role
  BY DEF ModelsIInv, ModelsRolesInv
<1>4. CASE sent' = sent /\ net' \subseteq net
  <2>1. ModelsTypeInv'
    BY <1>1, <1>4 DEF ModelsTypeInv
  <2>2. ModelsRolesInv'
    BY <1>3, <1>4 DEF ModelsRolesInv, ModelsHasLooked
  <2> QED
    BY <1>2, <2>1, <2>2
<1>5. ASSUME sent' = sent + 1, NEW ask \in ModelsAsks, net' \subseteq net \cup {NewRequest(sent, ask)},
             ask.op \in Models!Changes => ask.read = None
      PROVE  ModelsTypeInv' /\ ModelsRolesInv'
  <2> DEFINE new == NewRequest(sent, ask)
  <2>1. new \in ModelsSent /\ new.id = sent + 1 /\ new.ask = ask /\ new.got = Waiting
    BY <1>1 DEF NewRequest, ModelsSent, ModelsGots
  <2>2. net' \subseteq net \cup {new}
    BY <1>5
  <2> HIDE DEF new
  <2>3. ModelsTypeInv'
    BY <1>1, <2>1, <2>2 DEF ModelsTypeInv
  <2>4. ask.op = "register" => ask.role \in Models!Roles
    BY DEF ModelsAsks, ModelsRegister, ModelsSelect
  <2> DEFINE its == IF ask.op = "register" THEN ask.role ELSE "completion"
  <2>5. its \in Models!Roles
    BY <2>4 DEF Models!Roles
  <2> HIDE DEF its
  <2> DEFINE of2 == [of EXCEPT ![sent + 3] = its]
  <2>6. of2 \in [Int -> Models!Roles] /\ of2[sent + 3] = its /\ \A i \in Int : i # sent + 3 => of2[i] = of[i]
    BY <1>1, <2>5
  <2> HIDE DEF of2
  <2>7. \A i \in DOMAIN server.rows : i \in Int
    BY <1>1, MapFacts DEF ModelsServer, ModelsRows
  <2>8. \A i \in DOMAIN server.rows : i <= sent' + 2 /\ server.rows[i].role = of2[i]
    BY <1>1, <1>3, <1>5, <2>6, <2>7
  <2>9. ASSUME NEW r \in net'
        PROVE  /\ r.id <= sent'
               /\ r.ask.op = "register" => of2[r.id + 2] = r.ask.role
               /\ ModelsHasLooked(r) => \A i \in r.ask.read.found : i <= sent' + 2 /\ of2[i] = r.ask.role
    <3>1. CASE r = new
      <4>1. r.id = sent + 1 /\ r.ask = ask /\ ~ModelsHasLooked(r)
        BY <1>5, <2>1, <3>1 DEF ModelsHasLooked
      <4>2. r.id <= sent' /\ r.id + 2 = sent + 3
        BY <1>1, <1>5, <4>1
      <4> QED
        BY <2>6, <4>1, <4>2 DEF its
    <3>2. CASE r \in net
      <4>1. r.id \in Int /\ r.id <= sent
        BY <1>1, <1>3, <3>2 DEF ModelsSent
      <4>2. r.id + 2 # sent + 3 /\ r.id + 2 \in Int /\ r.id <= sent'
        BY <1>1, <1>5, <4>1
      <4>3. ModelsHasLooked(r) => r.ask.read.found \subseteq Int
        <5>1. r.ask \in ModelsAsks
          BY <1>1, <3>2 DEF ModelsSent
        <5>2. ModelsHasLooked(r) => r.ask.read \in ModelsLook
          BY <5>1 DEF ModelsHasLooked, Models!Changes, ModelsAsks, ModelsRegister, ModelsSelect
        <5> QED
          BY <5>2 DEF ModelsLook
      <4>4. ModelsHasLooked(r) => \A i \in r.ask.read.found : i <= sent + 2 /\ of[i] = r.ask.role
        BY <1>3, <3>2
      <4>5. ModelsHasLooked(r) => \A i \in r.ask.read.found : i <= sent' + 2 /\ of2[i] = r.ask.role
        BY <1>1, <1>5, <2>6, <4>3, <4>4
      <4>6. r.ask.op = "register" => of2[r.id + 2] = r.ask.role
        BY <1>3, <2>6, <3>2, <4>2
      <4> QED
        BY <4>2, <4>5, <4>6
    <3> QED
      BY <2>2, <3>1, <3>2
  <2>10. ModelsRolesInv'
    BY <2>6, <2>8, <2>9 DEF ModelsRolesInv, ModelsHasLooked
  <2> QED
    BY <2>3, <2>10
<1> QED
  BY <1>2, <1>4, <1>5

\* A handler sends a request, whose end it waits for, if it waits for one.
LEMMA ModelsAskStep ==
    ASSUME ModelsIInv, NEW ask, ask \in ModelsAsks, Models!Send(<<ask>>), ui' \in ModelsApp,
           ask.op \in Models!Changes => ask.read = None,
           ui'.loading => ui.loading \/ ask.op = "list",
           ui'.fetching => ui.fetching \/ ask.op = "lite",
           ui'.busy # None => ui.busy # None \/ ModelsOwn(ask)
    PROVE  ModelsIInv'
<1>1. net' = net \cup {NewRequest(sent, ask)} /\ sent' = sent + 1 /\ UNCHANGED server
  BY ModelsAsks1
<1>2. NewRequest(sent, ask).ask = ask
  BY DEF NewRequest
<1>3. ModelsTypeInv' /\ ModelsRolesInv' /\ Models!OneDefault'
  BY <1>1, ModelsNetStep
<1>4. ModelsBusyInv'
  BY <1>1, <1>2 DEF ModelsIInv, ModelsBusyInv, ModelsOwn
<1> QED
  BY <1>3, <1>4 DEF ModelsIInv

\* An answer is taken, and what waited for it goes on.
LEMMA ModelsDoneStep ==
    ASSUME ModelsIInv, NEW r, net' = net \ {r}, UNCHANGED <<sent, server>>, ui' \in ModelsApp,
           ui'.loading => ui.loading /\ r.ask.op # "list",
           ui'.fetching => ui.fetching /\ r.ask.op # "lite",
           ui'.busy # None => ui.busy # None /\ ~ModelsOwn(r.ask)
    PROVE  ModelsIInv'
<1>1. ModelsTypeInv' /\ ModelsRolesInv' /\ Models!OneDefault'
  BY ModelsNetStep
<1>2. ModelsBusyInv'
  BY DEF ModelsIInv, ModelsBusyInv, ModelsOwn
<1> QED
  BY <1>1, <1>2 DEF ModelsIInv

\* After a write the list is fetched.
LEMMA ModelsListStep ==
    ASSUME ModelsIInv, NEW r, Models!Go(r, <<Models!List(TRUE)>>), ui' \in ModelsApp,
           r.ask.op # "lite", ui'.fetching = ui.fetching
    PROVE  ModelsIInv'
<1> DEFINE ask == Models!List(TRUE)
<1>1. ask \in ModelsAsks /\ ask.op = "list" /\ ModelsOwn(ask)
  BY DEF Models!List, ModelsAsks, ModelsOwn
<1>2. Models!Go(r, <<ask>>)
  OBVIOUS
<1> HIDE DEF ask
<1>3. net' = (net \ {r}) \cup {NewRequest(sent, ask)} /\ sent' = sent + 1 /\ UNCHANGED server
  BY <1>2, ModelsAsks1
<1>4. NewRequest(sent, ask).ask = ask
  BY DEF NewRequest
<1>5. ModelsTypeInv' /\ ModelsRolesInv' /\ Models!OneDefault'
  BY <1>1, <1>3, ModelsNetStep DEF Models!Changes
<1>6. ModelsBusyInv'
  <2>1. NewRequest(sent, ask) \in net' /\ NewRequest(sent, ask).ask.op = "list" /\ ModelsOwn(NewRequest(sent, ask).ask)
    BY <1>1, <1>3, <1>4
  <2>2. ui'.fetching => \E q \in net' : q.ask.op = "lite"
    BY <1>3 DEF ModelsIInv, ModelsBusyInv
  <2> QED
    BY <2>1, <2>2 DEF ModelsBusyInv, ModelsOwn
<1> QED
  BY <1>5, <1>6 DEF ModelsIInv

LEMMA ModelsPage == ASSUME ModelsIInv PROVE ui \in ModelsApp /\ sent \in Nat /\ net \subseteq ModelsSent
BY DEF ModelsIInv, ModelsTypeInv

LEMMA ModelsLoading ==
    ASSUME NEW state, state \in ModelsApp
    PROVE  /\ Models!Loading(state) \in ModelsApp /\ Models!Loading(state).loading
           /\ Models!Loading(state).fetching = state.fetching /\ Models!Loading(state).busy = state.busy
BY DEF Models!Loading, ModelsApp

LEMMA ModelsFormStep ==
    ASSUME ModelsIInv,
           \/ Models!Refresh \/ Models!TickDefault \/ Models!Register \/ Models!OthersRegister
           \/ \E role \in Models!Roles, provider \in Models!Providers : Models!ChangeForm(role, provider)
    PROVE  ModelsIInv'
<1>1. CASE Models!Refresh
  <2> DEFINE ask == Models!List(FALSE)
  <2>1. ui' = Models!Loading(ui) /\ Models!Send(<<ask>>)
    BY <1>1 DEF Models!Refresh, Models!Ask
  <2>2. ask \in ModelsAsks /\ ask.op = "list"
    BY DEF Models!List, ModelsAsks
  <2> HIDE DEF ask
  <2>3. /\ ui' \in ModelsApp /\ ui'.fetching = ui.fetching /\ ui'.busy = ui.busy
    BY <2>1, ModelsPage, ModelsLoading
  <2> QED
    BY <2>1, <2>2, <2>3, ModelsAskStep DEF Models!Changes
<1>2. CASE Models!TickDefault
  <2> DEFINE ticked == ~ui.makeDefault
  <2>1. ui' = [ui EXCEPT !.makeDefault = ticked] /\ UNCHANGED <<net, server, sent>>
    BY <1>2 DEF Models!TickDefault, Models!Set, Models!Local
  <2>2. ticked \in BOOLEAN
    OBVIOUS
  <2> HIDE DEF ticked
  <2>3. ui' \in ModelsApp /\ ui'.loading = ui.loading /\ ui'.fetching = ui.fetching /\ ui'.busy = ui.busy
    BY <2>1, <2>2, ModelsPage DEF ModelsApp
  <2>4. ModelsTypeInv' /\ ModelsRolesInv' /\ Models!OneDefault'
    BY <2>1, <2>3, ModelsNetStep
  <2>5. ModelsBusyInv'
    BY <2>1, <2>3 DEF ModelsIInv, ModelsBusyInv, ModelsOwn
  <2> QED
    BY <2>4, <2>5 DEF ModelsIInv
<1>3. CASE Models!Register
  <2> DEFINE busy == <<"register">>
             ask == [op |-> "register", mine |-> TRUE, role |-> ui.role, model |-> ui.model,
                     default |-> ui.makeDefault, read |-> None]
  <2>1. ui' = [ui EXCEPT !.busy = busy, !.error = FALSE] /\ Models!Send(<<ask>>) /\ ui.model # None
    BY <1>3 DEF Models!Register, Models!Ask
  <2>2. busy \in ModelsBusy
    BY DEF ModelsBusy
  <2>3. ask \in ModelsAsks /\ ask.op = "register" /\ ask.mine /\ ask.read = None
    BY <2>1, ModelsPage DEF ModelsApp, ModelsAsks, ModelsRegister, ModelsNames
  <2> HIDE DEF busy, ask
  <2>4. ui' \in ModelsApp /\ ui'.loading = ui.loading /\ ui'.fetching = ui.fetching
    BY <2>1, <2>2, ModelsPage DEF ModelsApp
  <2> QED
    BY <2>1, <2>3, <2>4, ModelsAskStep DEF ModelsOwn
<1>4. CASE Models!OthersRegister
  <2> DEFINE ask == [op |-> "register", mine |-> FALSE, role |-> "completion", model |-> "p", default |-> TRUE,
                     read |-> None]
  <2>1. ui' = ui /\ Models!Send(<<ask>>)
    BY <1>4 DEF Models!OthersRegister, Models!Ask
  <2>2. ask \in ModelsAsks /\ ask.read = None
    BY DEF ModelsAsks, ModelsRegister, ModelsNames, Models!Roles, Models!Providers
  <2> HIDE DEF ask
  <2> QED
    BY <2>1, <2>2, ModelsPage, ModelsAskStep
<1>5. CASE \E role \in Models!Roles, provider \in Models!Providers : Models!ChangeForm(role, provider)
  <2> PICK role \in Models!Roles, provider \in Models!Providers : Models!ChangeForm(role, provider)
    BY <1>5
  <2> DEFINE ask == Models!Lite(provider)
             stale == ui.stale \/ Models!Out({"lite"})
  <2>1. ui' = [ui EXCEPT !.role = role, !.provider = provider, !.fetching = TRUE, !.stale = stale] /\ Models!Send(<<ask>>)
    BY DEF Models!ChangeForm, Models!Ask
  <2>2. ask \in ModelsAsks /\ ask.op = "lite" /\ stale \in BOOLEAN
    BY DEF Models!Lite, ModelsAsks
  <2> HIDE DEF ask, stale
  <2>3. ui' \in ModelsApp /\ ui'.loading = ui.loading /\ ui'.busy = ui.busy
    BY <2>1, <2>2, ModelsPage DEF ModelsApp
  <2> QED
    BY <2>1, <2>2, <2>3, ModelsAskStep DEF Models!Changes
<1> QED
  BY <1>1, <1>2, <1>3, <1>4, <1>5

LEMMA ModelsRowStep ==
    ASSUME ModelsIInv, ui.rows # None, NEW i \in DOMAIN ui.rows,
           Models!HandleSelectDefault(i) \/ Models!HandleDeleteModel(i)
    PROVE  ModelsIInv'
<1> DEFINE role == ui.rows[i].role
           model == ui.rows[i].model
<1>1. role \in Models!Roles /\ model \in ModelsNames
  <2>1. ui.rows \in ModelsRows
    BY ModelsPage DEF ModelsApp
  <2>2. ui.rows[i] \in ModelsRow
    BY <2>1, MapFacts DEF ModelsRows
  <2> QED
    BY <2>2 DEF ModelsRow
<1>2. CASE Models!HandleSelectDefault(i)
  <2> DEFINE busy == <<"select", role>>
             ask == [op |-> "select", role |-> role, model |-> model, read |-> None]
  <2>1. ui' = [ui EXCEPT !.busy = busy] /\ Models!Send(<<ask>>)
    BY <1>2 DEF Models!HandleSelectDefault, Models!Ask
  <2> HIDE DEF role, model
  <2>2. busy \in ModelsBusy /\ ask \in ModelsAsks /\ ask.op = "select" /\ ask.read = None
    BY <1>1 DEF ModelsBusy, ModelsAsks, ModelsSelect
  <2> HIDE DEF busy, ask
  <2>3. ui' \in ModelsApp /\ ui'.loading = ui.loading /\ ui'.fetching = ui.fetching
    BY <2>1, <2>2, ModelsPage DEF ModelsApp
  <2> QED
    BY <2>1, <2>2, <2>3, ModelsAskStep DEF ModelsOwn
<1>3. CASE Models!HandleDeleteModel(i)
  <2> DEFINE busy == <<"delete", model>>
             ask == [op |-> "delete", model |-> model]
  <2>1. ui' = [ui EXCEPT !.busy = busy] /\ Models!Send(<<ask>>)
    BY <1>3 DEF Models!HandleDeleteModel, Models!Ask
  <2> HIDE DEF role, model
  <2>2. busy \in ModelsBusy /\ ask \in ModelsAsks /\ ask.op = "delete"
    BY <1>1 DEF ModelsBusy, ModelsAsks
  <2> HIDE DEF busy, ask
  <2>3. ui' \in ModelsApp /\ ui'.loading = ui.loading /\ ui'.fetching = ui.fetching
    BY <2>1, <2>2, ModelsPage DEF ModelsApp
  <2> QED
    BY <2>1, <2>2, <2>3, ModelsAskStep DEF ModelsOwn, Models!Changes
<1> QED
  BY <1>2, <1>3

LEMMA ModelsAnswerStep ==
    ASSUME ModelsIInv, NEW r \in net,
           \/ Models!ListFetched(r) \/ Models!LiteFetched(r) \/ Models!Registered(r)
           \/ Models!Wrote(r, "select", ui) \/ Models!Wrote(r, "delete", ui)
    PROVE  ModelsIInv'
<1>1. Models!Done(r) => net' = net \ {r} /\ UNCHANGED <<sent, server>>
  BY ModelsPage, ModelsEnds
<1>2. ASSUME NEW op \in {"register", "select", "delete"}, NEW state, state \in ModelsApp, state.fetching = ui.fetching,
             Models!Wrote(r, op, state)
      PROVE  ModelsIInv'
  <2>1. r.ask.op = op
    BY <1>2 DEF Models!Wrote, Models!Answer, Models!Came
  <2>2. \/ ui' = Models!Loading(state) /\ Models!Go(r, <<Models!List(TRUE)>>)
        \/ ui' = [ui EXCEPT !.error = TRUE, !.busy = None] /\ Models!Done(r)
    BY <1>2 DEF Models!Wrote, Models!Answer
  <2>3. CASE ui' = Models!Loading(state) /\ Models!Go(r, <<Models!List(TRUE)>>)
    BY <1>2, <2>1, <2>3, ModelsLoading, ModelsListStep
  <2>4. CASE ui' = [ui EXCEPT !.error = TRUE, !.busy = None] /\ Models!Done(r)
    <3>1. None \in ModelsBusy
      BY DEF ModelsBusy
    <3>2. ui' \in ModelsApp /\ ui'.loading = ui.loading /\ ui'.fetching = ui.fetching /\ ui'.busy = None
      BY <2>4, <3>1, ModelsPage DEF ModelsApp
    <3> QED
      BY <1>1, <2>1, <2>4, <3>2, ModelsDoneStep
  <2> QED
    BY <2>2, <2>3, <2>4
<1>3. CASE Models!Wrote(r, "select", ui) \/ Models!Wrote(r, "delete", ui)
  BY <1>2, <1>3, ModelsPage
<1>4. CASE Models!Registered(r)
  <2>1. r.ask.op = "register"
    BY <1>4 DEF Models!Registered, Models!Came
  <2>2. CASE r.ask.mine
    <3> DEFINE state == [ui EXCEPT !.makeDefault = FALSE]
    <3>1. Models!Wrote(r, "register", state)
      BY <1>4, <2>2 DEF Models!Registered
    <3>2. state \in ModelsApp /\ state.fetching = ui.fetching
      BY ModelsPage DEF ModelsApp
    <3> HIDE DEF state
    <3> QED
      BY <1>2, <3>1, <3>2
  <2>3. CASE ~r.ask.mine
    <3>1. net' = net \ {r} /\ UNCHANGED <<ui, server, sent>>
      BY <1>4, <2>3 DEF Models!Registered
    <3> QED
      BY <2>1, <2>3, <3>1, ModelsPage, ModelsDoneStep DEF ModelsOwn
  <2> QED
    BY <2>2, <2>3
<1>5. CASE Models!ListFetched(r)
  <2> DEFINE busy == IF r.ask.clears THEN None ELSE ui.busy
             state == [ui EXCEPT !.loading = FALSE, !.busy = busy]
  <2>1. r.ask.op = "list" /\ r.got # Waiting /\ Models!Done(r)
    BY <1>5 DEF Models!ListFetched, Models!Came
  <2>2. ui' = IF r.got = Failed THEN [state EXCEPT !.error = TRUE] ELSE [state EXCEPT !.rows = r.got]
    BY <1>5 DEF Models!ListFetched
  <2>3. busy \in ModelsBusy
    BY ModelsPage DEF ModelsApp, ModelsBusy
  <2>4. busy # None => ui.busy # None /\ ~ModelsOwn(r.ask)
    BY <2>1 DEF ModelsOwn
  <2> HIDE DEF busy
  <2>5. state \in ModelsApp /\ state.loading = FALSE /\ state.fetching = ui.fetching /\ state.busy = busy
    BY <2>3, ModelsPage DEF ModelsApp
  <2> HIDE DEF state
  <2>6. r.got # Failed => r.got \in ModelsRows
    BY <2>1 DEF ModelsIInv, ModelsTypeInv
  <2>7. ui' \in ModelsApp /\ ui'.loading = FALSE /\ ui'.fetching = ui.fetching /\ ui'.busy = busy
    BY <2>2, <2>5, <2>6 DEF ModelsApp
  <2> QED
    BY <1>1, <2>1, <2>4, <2>7, ModelsDoneStep
<1>6. CASE Models!LiteFetched(r)
  <2>1. r.ask.op = "lite" /\ Models!Done(r)
    BY <1>6 DEF Models!LiteFetched, Models!Answer, Models!Done
  <2>2. r.ask.provider \in Models!Providers
    <3>1. r.ask \in ModelsAsks
      BY ModelsPage DEF ModelsSent
    <3> QED
      BY <2>1, <3>1 DEF ModelsAsks, ModelsRegister, ModelsSelect
  <2>3. PICK model \in {r.ask.provider, None} :
            \/ ui' = [ui EXCEPT !.model = model, !.fetching = FALSE]
            \/ ui' = [ui EXCEPT !.fetching = FALSE, !.stale = TRUE]
    BY <1>6 DEF Models!LiteFetched, Models!Answer
  <2>4. ui' \in ModelsApp /\ ui'.loading = ui.loading /\ ui'.fetching = FALSE /\ ui'.busy = ui.busy
    BY <2>2, <2>3, ModelsPage DEF ModelsApp
  <2> QED
    BY <1>1, <2>1, <2>4, ModelsDoneStep DEF ModelsOwn
<1> QED
  BY <1>3, <1>4, <1>5, <1>6
-----------------------------------------------------------------------------
\* A change looks at rows of its role only.
LEMMA ModelsLooksStep ==
    ASSUME ModelsIInv, NEW r \in net, Models!Looks(r)
    PROVE  ModelsIInv'
<1>1. /\ server \in ModelsServer /\ net \subseteq ModelsSent /\ sent \in Nat /\ ui \in ModelsApp
      /\ \A q \in net : q.ask.op = "list" /\ q.got \notin {Waiting, Failed} => q.got \in ModelsRows
  BY DEF ModelsIInv, ModelsTypeInv
<1>2. PICK of \in [Int -> Models!Roles] :
        /\ \A i \in DOMAIN server.rows : i <= sent + 2 /\ server.rows[i].role = of[i]
        /\ \A q \in net :
              /\ q.id <= sent
              /\ q.ask.op = "register" => of[q.id + 2] = q.ask.role
              /\ ModelsHasLooked(q) => \A i \in q.ask.read.found : i <= sent + 2 /\ of[i] = q.ask.role
  BY DEF ModelsIInv, ModelsRolesInv
<1> DEFINE look == Models!Looked(r)
           ask == [r.ask EXCEPT !.read = look]
           new == [r EXCEPT !.ask = ask]
<1>3. /\ r.ask.op \in Models!Changes /\ net' = (net \ {r}) \cup {new} /\ UNCHANGED <<ui, server, sent>>
  BY DEF Models!Looks
<1>4. \A i \in DOMAIN server.rows : i \in Int
  BY <1>1, MapFacts DEF ModelsServer, ModelsRows
<1>5. look \in ModelsLook /\ \A i \in look.found : i \in DOMAIN server.rows /\ server.rows[i].role = r.ask.role
  BY <1>4 DEF Models!Looked, Models!RowsOf, Models!Named, ModelsLook
<1> HIDE DEF look
<1>6. r.ask \in ModelsRegister \cup ModelsSelect
  <2>1. r.ask \in ModelsAsks
    BY <1>1 DEF ModelsSent
  <2> QED
    BY <1>3, <2>1 DEF ModelsAsks, Models!Changes
<1>7. ask \in ModelsRegister \cup ModelsSelect /\ ask.op = r.ask.op /\ ask.role = r.ask.role /\ ask.read = look
      /\ (ask.op = "register" => ask.mine = r.ask.mine)
  BY <1>5, <1>6 DEF ModelsRegister, ModelsSelect
<1>8. ask \in ModelsAsks /\ r \in ModelsSent
  BY <1>1, <1>7 DEF ModelsAsks
<1> HIDE DEF ask
<1>9. new \in ModelsSent /\ new.id = r.id /\ new.ask = ask /\ new.got = r.got
  BY <1>8 DEF ModelsSent
<1> HIDE DEF new
<1>10. ModelsTypeInv'
  <2>1. new.ask.op # "list"
    BY <1>3, <1>7, <1>9 DEF Models!Changes
  <2> QED
    BY <1>1, <1>3, <1>9, <2>1 DEF ModelsTypeInv
<1>11. ModelsRolesInv'
  <2>1. \A q \in net' :
              /\ q.id <= sent
              /\ q.ask.op = "register" => of[q.id + 2] = q.ask.role
              /\ ModelsHasLooked(q) => \A i \in q.ask.read.found : i <= sent + 2 /\ of[i] = q.ask.role
    BY <1>2, <1>3, <1>5, <1>7, <1>9
  <2> QED
    BY <1>2, <1>3, <2>1 DEF ModelsRolesInv, ModelsHasLooked
<1>12. ModelsBusyInv'
  <2>1. ModelsOwn(new.ask) <=> ModelsOwn(r.ask)
    BY <1>3, <1>7, <1>9 DEF ModelsOwn, Models!Changes
  <2>2. new.ask.op = r.ask.op
    BY <1>7, <1>9
  <2> QED
    BY <1>3, <2>1, <2>2 DEF ModelsIInv, ModelsBusyInv, ModelsOwn
<1>13. Models!OneDefault'
  BY <1>3 DEF ModelsIInv, Models!OneDefault
<1> QED
  BY <1>10, <1>11, <1>12, <1>13 DEF ModelsIInv

\* What the statement of a change leaves.
LEMMA ModelsClearedFacts ==
    ASSUME server \in ModelsServer, NEW r
    PROVE  /\ Models!Cleared(r) \in ModelsRows /\ DOMAIN Models!Cleared(r) = DOMAIN server.rows
           /\ \A i \in DOMAIN server.rows :
                 /\ Models!Cleared(r)[i].role = server.rows[i].role
                 /\ Models!Cleared(r)[i].default => server.rows[i].default /\ i \notin r.ask.read.rows
<1>1. server.rows \in [DOMAIN server.rows -> ModelsRow] /\ DOMAIN server.rows \subseteq Int
  BY MapFacts DEF ModelsServer, ModelsRows
<1> DEFINE cleared == Models!Cleared(r)
<1>2. /\ DOMAIN cleared = DOMAIN server.rows
      /\ \A i \in DOMAIN server.rows :
            cleared[i] = IF i \in r.ask.read.rows THEN [server.rows[i] EXCEPT !.default = FALSE] ELSE server.rows[i]
      /\ cleared = [i \in DOMAIN server.rows |-> cleared[i]]
  BY DEF Models!Cleared
<1> HIDE DEF cleared
<1>3. \A i \in DOMAIN server.rows :
          /\ cleared[i] \in ModelsRow /\ cleared[i].role = server.rows[i].role
          /\ cleared[i].default => server.rows[i].default /\ i \notin r.ask.read.rows
  <2> TAKE i \in DOMAIN server.rows
  <2>1. server.rows[i] \in ModelsRow
    BY <1>1
  <2> QED
    BY <1>2, <2>1 DEF ModelsRow
<1>4. cleared \in [DOMAIN server.rows -> ModelsRow]
  BY <1>2, <1>3
<1>5. cleared \in ModelsRows
  BY <1>1, <1>4, MapIs DEF ModelsRows
<1> QED
  BY <1>2, <1>3, <1>5 DEF cleared

ModelsOneIn(held) ==
    ~held.overlapped =>
        \A i, j \in DOMAIN held.rows :
            held.rows[i].default /\ held.rows[j].default /\ held.rows[i].role = held.rows[j].role => i = j

\* What the gateway does with a request keeps one default a role.
LEMMA ModelsEffectFacts ==
    ASSUME ModelsIInv, NEW r \in net, r.ask.op \in Models!Changes => r.ask.read # None, ~Models!Refused(r),
           NEW held, held = Models!Effect(r)
    PROVE  /\ held \in ModelsServer /\ ModelsOneIn(held)
           /\ \A i \in DOMAIN held.rows :
                 \/ i \in DOMAIN server.rows /\ held.rows[i].role = server.rows[i].role
                 \/ i = r.id + 2 /\ r.ask.op = "register" /\ held.rows[i].role = r.ask.role
<1>1. server \in ModelsServer /\ net \subseteq ModelsSent /\ ModelsOneIn(server)
  BY DEF ModelsIInv, ModelsTypeInv, ModelsOneIn, Models!OneDefault
<1>2. server.rows \in ModelsRows /\ server.overlapped \in BOOLEAN /\ DOMAIN server.rows \subseteq Int
      /\ \A i \in DOMAIN server.rows : server.rows[i] \in ModelsRow
  BY <1>1, MapFacts DEF ModelsServer, ModelsRows
<1>3. r.id \in Int /\ r.ask \in ModelsAsks
  BY <1>1 DEF ModelsSent
<1> DEFINE cleared == Models!Cleared(r)
<1>4. /\ cleared \in ModelsRows /\ DOMAIN cleared = DOMAIN server.rows
      /\ \A i \in DOMAIN server.rows :
            /\ cleared[i].role = server.rows[i].role
            /\ cleared[i].default => server.rows[i].default /\ i \notin r.ask.read.rows
  BY <1>1, ModelsClearedFacts
<1> HIDE DEF cleared
<1>5. CASE r.ask.op = "register"
  <2> DEFINE row == Models!Row(r.ask.role, r.ask.model, r.ask.default)
             base == IF r.ask.default THEN cleared ELSE server.rows
             rows == PutIn(base, r.id + 2, row)
             overlapped == server.overlapped \/ Models!Overlaps(r)
  <2>1. held = [server EXCEPT !.rows = rows, !.overlapped = overlapped]
    BY <1>5 DEF Models!Effect, Models!Put, PutIn, cleared
  <2>2. r.ask.role \in Models!Roles /\ r.ask.default \in BOOLEAN /\ r.ask.model \in ModelsNames
    <3>1. r.ask \in ModelsRegister
      BY <1>3, <1>5 DEF ModelsAsks, ModelsSelect
    <3> QED
      BY <3>1 DEF ModelsRegister
  <2>3. row \in ModelsRow /\ row.role = r.ask.role /\ row.default = r.ask.default
    BY <2>2 DEF Models!Row, ModelsRow
  <2>4. overlapped \in BOOLEAN
    BY <1>2
  <2>5. base \in ModelsRows /\ DOMAIN base = DOMAIN server.rows
        /\ \A i \in DOMAIN server.rows :
              base[i].role = server.rows[i].role
              /\ (base[i].default => server.rows[i].default /\ (r.ask.default => i \notin r.ask.read.rows))
    BY <1>2, <1>4
  <2>6. ~overlapped => ~server.overlapped
                       /\ \A i \in DOMAIN server.rows : server.rows[i].role = r.ask.role => i \in r.ask.read.rows
    BY DEF Models!Overlaps, Models!RowsOf
  <2> HIDE DEF row, base, overlapped
  <2>7. /\ rows \in ModelsRows /\ DOMAIN rows = DOMAIN server.rows \cup {r.id + 2}
        /\ rows[r.id + 2] = row /\ \A i \in DOMAIN server.rows : i # r.id + 2 => rows[i] = base[i]
    BY <1>3, <2>3, <2>5, PutFacts DEF ModelsRows
  <2> HIDE DEF rows
  <2>8. held \in ModelsServer /\ held.rows = rows /\ held.overlapped = overlapped
    BY <1>1, <2>1, <2>4, <2>7 DEF ModelsServer
  <2>9. ASSUME ~overlapped, NEW i \in DOMAIN rows, NEW j \in DOMAIN rows,
               rows[i].default, rows[j].default, rows[i].role = rows[j].role
        PROVE  i = j
    <3>1. CASE i # r.id + 2 /\ j # r.id + 2
      <4>1. server.rows[i].default /\ server.rows[j].default /\ server.rows[i].role = server.rows[j].role
            /\ i \in DOMAIN server.rows /\ j \in DOMAIN server.rows
        BY <2>5, <2>7, <2>9, <3>1
      <4> QED
        BY <1>1, <2>6, <2>9, <4>1 DEF ModelsOneIn
    <3>2. ASSUME NEW k \in DOMAIN rows, k # r.id + 2, rows[k].default, row.default, rows[k].role = row.role
          PROVE  FALSE
      <4>1. k \in DOMAIN server.rows /\ server.rows[k].role = r.ask.role /\ k \notin r.ask.read.rows
        BY <2>3, <2>5, <2>7, <3>2
      <4> QED
        BY <2>6, <2>9, <4>1
    <3> QED
      BY <2>7, <2>9, <3>1, <3>2
  <2>10. ModelsOneIn(held)
    BY <2>8, <2>9 DEF ModelsOneIn
  <2> QED
    BY <1>5, <2>3, <2>5, <2>7, <2>8, <2>10
<1>6. CASE r.ask.op = "select"
  <2> DEFINE i == CHOOSE i \in r.ask.read.found : i \in DOMAIN server.rows
             rows == [cleared EXCEPT ![i].default = TRUE]
             overlapped == server.overlapped \/ Models!Overlaps(r)
  <2>1. held = [server EXCEPT !.rows = rows, !.overlapped = overlapped]
    BY <1>6 DEF Models!Effect, cleared
  <2>2. i \in r.ask.read.found /\ i \in DOMAIN server.rows
    BY <1>6 DEF Models!Refused
  <2>3. server.rows[i].role = r.ask.role
    BY <1>6, <2>2 DEF ModelsIInv, ModelsRolesInv, ModelsHasLooked, Models!Changes
  <2>4. overlapped \in BOOLEAN
    BY <1>2
  <2>5. ~overlapped => ~server.overlapped
                       /\ \A k \in DOMAIN server.rows : server.rows[k].role = r.ask.role => k \in r.ask.read.rows
    BY DEF Models!Overlaps, Models!RowsOf
  <2> HIDE DEF i, overlapped
  <2>6. cleared \in [DOMAIN server.rows -> ModelsRow]
    BY <1>4, MapFacts DEF ModelsRows
  <2> DEFINE row == [cleared[i] EXCEPT !.default = TRUE]
  <2>7. row \in ModelsRow /\ row.role = r.ask.role
    <3>1. cleared[i] \in ModelsRow /\ cleared[i].role = r.ask.role
      BY <1>4, <2>2, <2>3, <2>6
    <3> QED
      BY <3>1 DEF ModelsRow
  <2>8. rows = [cleared EXCEPT ![i] = row]
    OBVIOUS
  <2> HIDE DEF row, rows
  <2>9. /\ rows \in [DOMAIN server.rows -> ModelsRow] /\ rows[i] = row
        /\ \A k \in DOMAIN server.rows : k # i => rows[k] = cleared[k]
    BY <2>2, <2>6, <2>7, <2>8
  <2>10. rows \in ModelsRows /\ DOMAIN rows = DOMAIN server.rows
    BY <1>2, <2>9, MapIs DEF ModelsRows
  <2>11. held \in ModelsServer /\ held.rows = rows /\ held.overlapped = overlapped
    BY <1>1, <2>1, <2>4, <2>10 DEF ModelsServer
  <2>12. \A k \in DOMAIN rows : rows[k].role = server.rows[k].role
    BY <1>4, <2>3, <2>7, <2>9, <2>10
  <2>13. ASSUME ~overlapped, NEW k \in DOMAIN rows, k # i, rows[k].default
         PROVE  server.rows[k].default /\ server.rows[k].role # r.ask.role
    BY <1>4, <2>5, <2>9, <2>10, <2>13
  <2>14. ModelsOneIn(held)
    <3> SUFFICES ASSUME ~overlapped, NEW k \in DOMAIN rows, NEW l \in DOMAIN rows,
                        rows[k].default, rows[l].default, rows[k].role = rows[l].role
                 PROVE  k = l
      BY <2>11 DEF ModelsOneIn
    <3>1. CASE k # i /\ l # i
      BY <1>1, <2>5, <2>10, <2>12, <2>13, <3>1 DEF ModelsOneIn
    <3> QED
      BY <2>3, <2>10, <2>12, <2>13, <3>1
  <2> QED
    BY <2>10, <2>11, <2>12, <2>14
<1>7. CASE r.ask.op = "delete"
  <2> DEFINE i == CHOOSE i \in Models!Named(r.ask.model) : TRUE
             rows == DropFrom(server.rows, i)
  <2>1. held = [server EXCEPT !.rows = rows]
    BY <1>7 DEF Models!Effect, Models!Drop, DropFrom
  <2> HIDE DEF i
  <2>2. /\ rows \in ModelsRows /\ DOMAIN rows = DOMAIN server.rows \ {i}
        /\ \A k \in DOMAIN server.rows : k # i => rows[k] = server.rows[k]
    <3>1. server.rows \in Maps(Int, ModelsRow)
      BY <1>2 DEF ModelsRows
    <3>2. rows \in Maps(Int, ModelsRow)
      BY <3>1, DropFacts
    <3>3. DOMAIN rows = DOMAIN server.rows \ {i} /\ \A k \in DOMAIN server.rows : k # i => rows[k] = server.rows[k]
      BY DEF DropFrom
    <3> QED
      BY <3>2, <3>3 DEF ModelsRows
  <2> HIDE DEF rows
  <2>3. held \in ModelsServer /\ held.rows = rows /\ held.overlapped = server.overlapped
    BY <1>1, <2>1, <2>2 DEF ModelsServer
  <2>4. ModelsOneIn(held)
    BY <1>1, <2>2, <2>3 DEF ModelsOneIn
  <2> QED
    BY <2>2, <2>3, <2>4
<1>8. CASE r.ask.op \notin {"register", "select", "delete"}
  <2>1. held = server
    BY <1>8 DEF Models!Effect
  <2> QED
    BY <1>1, <2>1
<1> QED
  BY <1>5, <1>6, <1>7, <1>8

\* The gateway goes on with r, which becomes to: it is answered, or sent again and has yet to look.
LEMMA ModelsMoveStep ==
    ASSUME ModelsIInv, NEW r \in net, NEW to \in ModelsSent, NEW held, Models!Moves(r, to, held),
           to.ask.op = r.ask.op, ModelsOwn(to.ask) <=> ModelsOwn(r.ask),
           r.ask.op = "list" => to.got \in {Waiting, Failed} \cup ModelsRows,
           held \in ModelsServer, ModelsOneIn(held),
           \A i \in DOMAIN held.rows :
                 \/ i \in DOMAIN server.rows /\ held.rows[i].role = server.rows[i].role
                 \/ i = r.id + 2 /\ r.ask.op = "register" /\ held.rows[i].role = r.ask.role,
           \/ sent' = sent /\ to.id = r.id /\ to.ask = r.ask
           \/ sent' = sent + 1 /\ to.id = sent + 1 /\ ~ModelsHasLooked(to)
    PROVE  ModelsIInv'
<1>1. /\ server \in ModelsServer /\ net \subseteq ModelsSent /\ sent \in Nat /\ ui \in ModelsApp
      /\ \A q \in net : q.ask.op = "list" /\ q.got \notin {Waiting, Failed} => q.got \in ModelsRows
  BY DEF ModelsIInv, ModelsTypeInv
<1>2. /\ server' = held /\ UNCHANGED ui /\ sent' \in Nat /\ sent <= sent'
      /\ net' = {IF q = r THEN to ELSE [q EXCEPT !.late = q.got # Waiting /\ (@ \/ held # server)] : q \in net}
  BY <1>1 DEF Models!Moves
<1> DEFINE Late(q) == q.got # Waiting /\ (q.late \/ held # server)
           New(q) == IF q = r THEN to ELSE [q EXCEPT !.late = Late(q)]
<1>3. ASSUME NEW q \in net
      PROVE  /\ New(q) \in ModelsSent /\ (q = r => New(q) = to)
             /\ q # r => New(q).id = q.id /\ New(q).ask = q.ask /\ New(q).got = q.got
  <2>1. q \in ModelsSent /\ Late(q) \in BOOLEAN
    BY <1>1
  <2> HIDE DEF Late
  <2> QED
    BY <2>1 DEF ModelsSent
<1>4. net' = {New(q) : q \in net}
  BY <1>2
<1> HIDE DEF New
<1>5. ModelsTypeInv'
  <2>1. ASSUME NEW q \in net, New(q).ask.op = "list", New(q).got \notin {Waiting, Failed}
        PROVE  New(q).got \in ModelsRows
    <3>1. CASE q = r
      BY <1>3, <2>1, <3>1
    <3>2. CASE q # r
      BY <1>1, <1>3, <2>1, <3>2
    <3> QED
      BY <3>1, <3>2
  <2>2. net' \subseteq ModelsSent
    BY <1>3, <1>4
  <2> QED
    BY <1>1, <1>2, <1>4, <2>1, <2>2 DEF ModelsTypeInv
<1>6. ModelsRolesInv'
  <2> PICK of \in [Int -> Models!Roles] :
        /\ \A i \in DOMAIN server.rows : i <= sent + 2 /\ server.rows[i].role = of[i]
        /\ \A q \in net :
              /\ q.id <= sent
              /\ q.ask.op = "register" => of[q.id + 2] = q.ask.role
              /\ ModelsHasLooked(q) => \A i \in q.ask.read.found : i <= sent + 2 /\ of[i] = q.ask.role
    BY DEF ModelsIInv, ModelsRolesInv
  <2>1. to.ask.op = "register" => to.ask.role \in Models!Roles
    <3>1. to.ask \in ModelsAsks
      BY DEF ModelsSent
    <3> QED
      BY <3>1 DEF ModelsAsks, ModelsRegister, ModelsSelect
  <2> DEFINE its == IF to.ask.op = "register" THEN to.ask.role ELSE "completion"
  <2>2. its \in Models!Roles
    BY <2>1 DEF Models!Roles
  <2> HIDE DEF its
  <2> DEFINE of2 == [of EXCEPT ![sent + 3] = its]
  <2>3. of2 \in [Int -> Models!Roles] /\ of2[sent + 3] = its /\ \A i \in Int : i <= sent + 2 => of2[i] = of[i]
    BY <1>1, <2>2
  <2> HIDE DEF of2
  <2>4. \A q \in net : q.id \in Int /\ q.id <= sent /\ q.id + 2 \in Int /\ q.id + 2 <= sent + 2
    BY <1>1 DEF ModelsSent
  <2>5. DOMAIN held.rows \subseteq Int
    BY MapFacts DEF ModelsServer, ModelsRows
  <2>6. \A i \in DOMAIN held.rows : i <= sent' + 2 /\ held.rows[i].role = of2[i]
    <3> TAKE i \in DOMAIN held.rows
    <3>1. i \in Int /\ i <= sent + 2 /\ held.rows[i].role = of[i]
      BY <2>4, <2>5
    <3> QED
      BY <1>1, <1>2, <2>3, <3>1
  <2>7. ASSUME NEW p, NEW q \in net, p.id = q.id, p.ask = q.ask
        PROVE  /\ p.id <= sent'
               /\ p.ask.op = "register" => of2[p.id + 2] = p.ask.role
               /\ ModelsHasLooked(p) => \A i \in p.ask.read.found : i <= sent' + 2 /\ of2[i] = p.ask.role
    <3>1. ModelsHasLooked(q) => q.ask.read.found \subseteq Int
      <4>1. q.ask \in ModelsAsks
        BY <1>1 DEF ModelsSent
      <4>2. ModelsHasLooked(q) => q.ask.read \in ModelsLook
        BY <4>1 DEF ModelsHasLooked, Models!Changes, ModelsAsks, ModelsRegister, ModelsSelect
      <4> QED
        BY <4>2 DEF ModelsLook
    <3>2. ModelsHasLooked(p) => ModelsHasLooked(q)
      BY <2>7 DEF ModelsHasLooked
    <3>3. ModelsHasLooked(q) => \A i \in q.ask.read.found : i <= sent + 2 /\ of[i] = q.ask.role
      OBVIOUS
    <3>4. ModelsHasLooked(q) => \A i \in q.ask.read.found : i <= sent' + 2 /\ of2[i] = q.ask.role
      BY <1>1, <1>2, <2>3, <3>1, <3>3
    <3> QED
      BY <1>1, <1>2, <2>3, <2>4, <2>7, <3>2, <3>4
  <2>8. /\ to.id <= sent'
        /\ to.ask.op = "register" => of2[to.id + 2] = to.ask.role
        /\ ModelsHasLooked(to) => \A i \in to.ask.read.found : i <= sent' + 2 /\ of2[i] = to.ask.role
    <3>1. CASE to.id = r.id /\ to.ask = r.ask
      BY <2>7, <3>1
    <3>2. CASE sent' = sent + 1 /\ to.id = sent + 1 /\ ~ModelsHasLooked(to)
      <4>1. to.id <= sent' /\ to.id + 2 = sent + 3
        BY <1>1, <3>2
      <4> QED
        BY <2>3, <3>2, <4>1 DEF its
    <3> QED
      BY <3>1, <3>2
  <2>9. ASSUME NEW p \in net'
        PROVE  /\ p.id <= sent'
               /\ p.ask.op = "register" => of2[p.id + 2] = p.ask.role
               /\ ModelsHasLooked(p) => \A i \in p.ask.read.found : i <= sent' + 2 /\ of2[i] = p.ask.role
    <3> PICK q \in net : p = New(q)
      BY <1>4
    <3>1. CASE q = r
      BY <1>3, <2>8, <3>1
    <3>2. CASE q # r
      BY <1>3, <2>7, <3>2
    <3> QED
      BY <3>1, <3>2
  <2> QED
    BY <1>2, <2>3, <2>6, <2>9 DEF ModelsRolesInv, ModelsHasLooked
<1>7. ModelsBusyInv'
  <2>1. \A q \in net : New(q).ask.op = q.ask.op /\ (ModelsOwn(New(q).ask) <=> ModelsOwn(q.ask))
    BY <1>3
  <2>2. /\ (\E q \in net : q.ask.op = "list") => \E p \in net' : p.ask.op = "list"
        /\ (\E q \in net : q.ask.op = "lite") => \E p \in net' : p.ask.op = "lite"
        /\ (\E q \in net : ModelsOwn(q.ask)) => \E p \in net' : ModelsOwn(p.ask)
    BY <1>4, <2>1
  <2> QED
    BY <1>2, <2>2 DEF ModelsIInv, ModelsBusyInv, ModelsOwn
<1>8. Models!OneDefault'
  BY <1>2 DEF Models!OneDefault, ModelsOneIn
<1> QED
  BY <1>5, <1>6, <1>7, <1>8 DEF ModelsIInv

LEMMA ModelsServeStep ==
    ASSUME ModelsIInv, NEW r \in net, NEW got, NEW held, Models!Settle(r, got, held),
           got = Failed \/ (r.ask.op = "list" /\ got \in ModelsRows) \/ (r.ask.op # "list" /\ got = "done"),
           held \in ModelsServer, ModelsOneIn(held),
           \A i \in DOMAIN held.rows :
                 \/ i \in DOMAIN server.rows /\ held.rows[i].role = server.rows[i].role
                 \/ i = r.id + 2 /\ r.ask.op = "register" /\ held.rows[i].role = r.ask.role
    PROVE  ModelsIInv'
<1> DEFINE to == [r EXCEPT !.got = got]
<1>1. r \in ModelsSent /\ got \in ModelsGots
  BY DEF ModelsIInv, ModelsTypeInv, ModelsGots
<1>2. to \in ModelsSent /\ to.ask = r.ask /\ to.got = got /\ to.id = r.id
  BY <1>1 DEF ModelsSent
<1>3. Models!Moves(r, to, held) /\ sent' = sent
  BY DEF Models!Settle
<1> HIDE DEF to
<1> QED
  BY <1>2, <1>3, ModelsMoveStep

LEMMA ModelsServes ==
    ASSUME ModelsIInv, Models!ServeOne(Models!Ready, Models!Refused, Models!Effect, Models!Reply)
    PROVE  ModelsIInv'
<1>1. PICK r \in Models!Ready :
        \/ ~Models!Refused(r) /\ Models!Settle(r, Models!Reply(r), Models!Effect(r))
        \/ Models!Settle(r, Failed, server)
        \/ ~Models!Refused(r) /\ Models!Settle(r, Failed, Models!Effect(r))
  BY DEF Models!ServeOne
<1>2. r \in net /\ (r.ask.op \in Models!Changes => r.ask.read # None)
  BY DEF Models!Ready
<1>3. server \in ModelsServer /\ ModelsOneIn(server) /\ server.rows \in ModelsRows
  BY DEF ModelsIInv, ModelsTypeInv, ModelsOneIn, Models!OneDefault, ModelsServer
<1> DEFINE reply == Models!Reply(r)
           effect == Models!Effect(r)
<1>4. (r.ask.op = "list" /\ reply \in ModelsRows) \/ (r.ask.op # "list" /\ reply = "done")
  BY <1>3 DEF Models!Reply
<1>5. ~Models!Refused(r) =>
          /\ effect \in ModelsServer /\ ModelsOneIn(effect)
          /\ \A i \in DOMAIN effect.rows :
                 \/ i \in DOMAIN server.rows /\ effect.rows[i].role = server.rows[i].role
                 \/ i = r.id + 2 /\ r.ask.op = "register" /\ effect.rows[i].role = r.ask.role
  BY <1>2, ModelsEffectFacts
<1> HIDE DEF reply, effect
<1>6. CASE ~Models!Refused(r) /\ Models!Settle(r, reply, effect)
  BY <1>2, <1>4, <1>5, <1>6, ModelsServeStep
<1>7. CASE Models!Settle(r, Failed, server)
  BY <1>2, <1>3, <1>7, ModelsServeStep
<1>8. CASE ~Models!Refused(r) /\ Models!Settle(r, Failed, effect)
  BY <1>2, <1>5, <1>8, ModelsServeStep
<1> QED
  BY <1>1, <1>6, <1>7, <1>8 DEF reply, effect

\* What is sent again is the same, but has yet to look.
LEMMA ModelsAgains ==
    ASSUME ModelsIInv, NEW r \in net
    PROVE  /\ Models!Again(r) \in ModelsAsks /\ Models!Again(r).op = r.ask.op
           /\ Models!Again(r).op \in Models!Changes => Models!Again(r).read = None
           /\ ModelsOwn(Models!Again(r)) <=> ModelsOwn(r.ask)
           /\ r.ask.op = "lite" => Models!Again(r) = r.ask
<1> DEFINE none == None
           again == [r.ask EXCEPT !.read = none]
<1>1. r.ask \in ModelsAsks /\ none \in ModelsLook \cup {None}
  BY DEF ModelsIInv, ModelsTypeInv, ModelsSent
<1>2. CASE r.ask.op \in Models!Changes
  <2>1. Models!Again(r) = again
    BY <1>2 DEF Models!Again
  <2>2. r.ask \in ModelsRegister \cup ModelsSelect
    BY <1>1, <1>2 DEF ModelsAsks, Models!Changes
  <2> HIDE DEF none
  <2>3. /\ again \in ModelsRegister \cup ModelsSelect /\ again.op = r.ask.op /\ again.read = none
        /\ r.ask.op = "register" => again.mine = r.ask.mine
    BY <1>1, <2>2 DEF ModelsRegister, ModelsSelect
  <2> HIDE DEF again
  <2>4. again \in ModelsAsks /\ (ModelsOwn(again) <=> ModelsOwn(r.ask))
    BY <1>2, <2>3 DEF ModelsAsks, ModelsOwn, Models!Changes
  <2> QED
    BY <1>2, <2>1, <2>3, <2>4 DEF none, Models!Changes
<1>3. CASE r.ask.op \notin Models!Changes
  BY <1>1, <1>3 DEF Models!Again
<1> QED
  BY <1>2, <1>3

LEMMA ModelsRepeats ==
    ASSUME ModelsIInv, Models!RepeatOne(Models!Ready, Models!Refused, Models!Effect, Models!Again)
    PROVE  ModelsIInv'
<1>1. PICK r \in Models!Ready : ~Models!Refused(r) /\ Models!SentAgain(r, r.acts + 1, Models!Again(r), Models!Effect(r))
  BY DEF Models!RepeatOne
<1>2. r \in net /\ (r.ask.op \in Models!Changes => r.ask.read # None)
  BY DEF Models!Ready
<1> DEFINE ask == Models!Again(r)
           effect == Models!Effect(r)
           acts == r.acts + 1
           req == Models!Request(sent + 1, ask)
           to == [req EXCEPT !.acts = acts]
<1>3. Waiting \in ModelsGots /\ sent + 1 \in Nat /\ acts \in Nat
  BY <1>2 DEF ModelsIInv, ModelsTypeInv, ModelsSent, ModelsGots
<1>4. Models!Moves(r, to, effect) /\ sent' = sent + 1
  BY <1>1 DEF Models!SentAgain
<1>5. /\ effect \in ModelsServer /\ ModelsOneIn(effect)
      /\ \A i \in DOMAIN effect.rows :
                 \/ i \in DOMAIN server.rows /\ effect.rows[i].role = server.rows[i].role
                 \/ i = r.id + 2 /\ r.ask.op = "register" /\ effect.rows[i].role = r.ask.role
  BY <1>1, <1>2, ModelsEffectFacts
<1>6. /\ ask \in ModelsAsks /\ ask.op = r.ask.op /\ (ask.op \in Models!Changes => ask.read = None)
      /\ ModelsOwn(ask) <=> ModelsOwn(r.ask)
  BY <1>2, ModelsAgains
<1> HIDE DEF ask, effect, acts
<1>7. req \in ModelsSent /\ req.ask = ask /\ req.got = Waiting /\ req.id = sent + 1
  BY <1>3, <1>6 DEF Models!Request, ModelsSent
<1> HIDE DEF req
<1>8. to \in ModelsSent /\ to.ask = ask /\ to.got = Waiting /\ to.id = sent + 1
  BY <1>3, <1>7 DEF ModelsSent
<1> HIDE DEF to
<1>9. ~ModelsHasLooked(to)
  BY <1>6, <1>8 DEF ModelsHasLooked
<1> QED
  BY <1>2, <1>4, <1>5, <1>6, <1>8, <1>9, ModelsMoveStep

LEMMA ModelsNextIInv == ModelsIInv /\ [Models!Next]_(Models!vars) => ModelsIInv'
<1> SUFFICES ASSUME ModelsIInv, [Models!Next]_(Models!vars) PROVE ModelsIInv'
  OBVIOUS
<1>1. CASE UNCHANGED Models!vars
  <2>1. UNCHANGED <<ui, net, server, sent>>
    BY <1>1 DEF Models!vars
  <2> QED
    BY <2>1 DEF ModelsIInv, ModelsTypeInv, ModelsRolesInv, ModelsHasLooked, ModelsBusyInv, ModelsOwn, Models!OneDefault
<1>2. CASE Models!Next
  <2>1. \/ Models!Refresh \/ Models!TickDefault \/ Models!Register \/ Models!OthersRegister
        \/ \E role \in Models!Roles, provider \in Models!Providers : Models!ChangeForm(role, provider)
        \/ ui.rows # None /\ \E i \in DOMAIN ui.rows : Models!HandleSelectDefault(i) \/ Models!HandleDeleteModel(i)
        \/ \E r \in net : Models!Looks(r)
        \/ \E r \in net : \/ Models!ListFetched(r) \/ Models!LiteFetched(r) \/ Models!Registered(r)
                          \/ Models!Wrote(r, "select", ui) \/ Models!Wrote(r, "delete", ui)
        \/ Models!ServeOne(Models!Ready, Models!Refused, Models!Effect, Models!Reply)
        \/ Models!RepeatOne(Models!Ready, Models!Refused, Models!Effect, Models!Again)
    BY <1>2 DEF Models!Next
  <2> QED
    BY <2>1, ModelsFormStep, ModelsRowStep, ModelsLooksStep, ModelsAnswerStep, ModelsServes,
       ModelsRepeats
<1> QED
  BY <1>1, <1>2

LEMMA ModelsShown == ModelsIInv => Models!TypeOK /\ Models!BusyHasCause /\ Models!OneDefault
<1> SUFFICES ASSUME ModelsIInv PROVE Models!TypeOK /\ Models!BusyHasCause /\ Models!OneDefault
  OBVIOUS
<1>1. ui \in ModelsApp /\ server \in ModelsServer
  BY DEF ModelsIInv, ModelsTypeInv
<1>2. \A i \in DOMAIN server.rows : server.rows[i].role \in Models!Roles
  <2>1. server.rows \in [DOMAIN server.rows -> ModelsRow]
    BY <1>1, MapFacts DEF ModelsServer, ModelsRows
  <2> QED
    BY <2>1 DEF ModelsRow
<1>3. Models!TypeOK
  BY <1>1, <1>2 DEF ModelsApp, Models!TypeOK
<1>4. Models!BusyHasCause
  BY DEF ModelsIInv, ModelsBusyInv, ModelsOwn, Models!BusyHasCause, Models!Out, Models!Changes
<1> QED
  BY <1>3, <1>4 DEF ModelsIInv
-----------------------------------------------------------------------------
(* Models: what is shown is current. *)

ModelsRowsFresh ==
    /\ ~raced => \A r \in net : OnTime(r) /\ r.ask.op = "list" => r.got = server.rows
    /\ ~raced /\ ~ui.error => ui.rows = server.rows \/ \E r \in net : r.ask.op # "lite"
\* Only the models of the provider in the form are under way, unless stale.
ModelsFormFresh ==
    ~ui.stale => /\ \A r \in net : r.ask.op = "lite" => r.ask.provider = ui.provider
                 /\ ui.model \in {ui.provider, None} \/ \E r \in net : r.ask.op = "lite"
ModelsFreshInv == ModelsRowsFresh /\ ModelsFormFresh

LEMMA ModelsRaces ==
    ASSUME NEW r, NEW asks
    PROVE  /\ Models!Send(asks) => UNCHANGED <<server, raced>>
           /\ Models!Go(r, asks) => UNCHANGED server /\ raced' = (raced \/ (r.late /\ r.got # Failed))
           /\ Models!Done(r) => UNCHANGED server /\ raced' = (raced \/ (r.late /\ r.got # Failed))
BY DEF Models!Send, Models!Done, Models!Go

\* What others find when the gateway serves a request, which becomes to.
LEMMA ModelsMovesLate ==
    ASSUME NEW r \in net, NEW to \in ModelsSent, NEW held, net \subseteq ModelsSent, Models!Moves(r, to, held)
    PROVE  \E new \in [net -> ModelsSent] :
              /\ net' = {new[q] : q \in net} /\ server' = held /\ UNCHANGED ui
              /\ new[r] = to
              /\ \A q \in net : q # r => /\ new[q].id = q.id /\ new[q].ask = q.ask /\ new[q].got = q.got /\ new[q].acts = q.acts
                                         /\ new[q].late = (q.got # Waiting /\ (q.late \/ held # server))
<1>1. net' = {IF q = r THEN to ELSE [q EXCEPT !.late = q.got # Waiting /\ (@ \/ held # server)] : q \in net}
  BY DEF Models!Moves
<1> DEFINE Late(q) == q.got # Waiting /\ (q.late \/ held # server)
           New(q) == IF q = r THEN to ELSE [q EXCEPT !.late = Late(q)]
           new == [q \in net |-> New(q)]
<1>2. ASSUME NEW q \in net
      PROVE  /\ New(q) \in ModelsSent /\ (q = r => New(q) = to)
             /\ q # r => /\ New(q).id = q.id /\ New(q).ask = q.ask /\ New(q).got = q.got /\ New(q).acts = q.acts
                         /\ New(q).late = Late(q)
  <2>1. q \in ModelsSent /\ Late(q) \in BOOLEAN
    OBVIOUS
  <2> HIDE DEF Late
  <2> QED
    BY <2>1 DEF ModelsSent
<1>3. net' = {New(q) : q \in net}
  BY <1>1
<1>4. \A q \in net : q # r => New(q).late = (q.got # Waiting /\ (q.late \/ held # server))
  BY <1>2
<1> HIDE DEF New
<1>5. new \in [net -> ModelsSent] /\ \A q \in net : new[q] = New(q)
  BY <1>2
<1>6. net' = {new[q] : q \in net}
  BY <1>3, <1>5
<1> HIDE DEF new
<1>7. server' = held /\ UNCHANGED ui
  BY DEF Models!Moves
<1> QED
  BY <1>2, <1>4, <1>5, <1>6, <1>7

LEMMA ModelsInitFresh == Models!Init => ModelsFreshInv
<1> SUFFICES ASSUME Models!Init PROVE ModelsFreshInv
  OBVIOUS
<1> DEFINE list == Models!List(FALSE)
           lite == Models!Lite("p")
<1>1. net = {FirstRequest(1, list), FirstRequest(2, lite)} /\ ui.provider = "p"
  BY StartedWithTwo DEF Models!Init, Models!Started, Models!Request
<1>2. list.op = "list" /\ lite.op = "lite" /\ lite.provider = "p"
  BY DEF Models!List, Models!Lite
<1> HIDE DEF list, lite
<1>3. \A i, ask : FirstRequest(i, ask).ask = ask /\ FirstRequest(i, ask).got = Waiting
  BY DEF FirstRequest
<1> QED
  BY <1>1, <1>2, <1>3 DEF ModelsFreshInv, ModelsRowsFresh, ModelsFormFresh, OnTime, Served

LEMMA ModelsSendFresh ==
    ASSUME ModelsFreshInv, NEW ask, Models!Send(<<ask>>), ui'.rows = ui.rows,
           \/ ask.op # "lite" /\ ui'.model = ui.model /\ ui'.provider = ui.provider /\ ui'.stale = ui.stale
           \/ /\ ask.op = "lite" /\ ask.provider = ui'.provider /\ ui'.error = ui.error
              /\ ui'.stale = (ui.stale \/ Models!Out({"lite"}))
    PROVE  ModelsFreshInv'
<1>1. UNCHANGED <<server, raced>> /\ net' = net \cup {NewRequest(sent, ask)}
  BY ModelsRaces, ModelsAsks1
<1>2. NewRequest(sent, ask).ask = ask /\ ~OnTime(NewRequest(sent, ask))
  BY NewIsWaiting
<1>3. ModelsRowsFresh'
  BY <1>1, <1>2 DEF ModelsFreshInv, ModelsRowsFresh
<1>4. ModelsFormFresh'
  BY <1>1, <1>2 DEF ModelsFreshInv, ModelsFormFresh, Models!Out
<1> QED
  BY <1>3, <1>4 DEF ModelsFreshInv

LEMMA ModelsAskFresh ==
    ASSUME ModelsIInv, ModelsFreshInv,
           \/ Models!Refresh \/ Models!Register \/ Models!OthersRegister
           \/ \E role \in Models!Roles, provider \in Models!Providers : Models!ChangeForm(role, provider)
           \/ \E i : Models!HandleSelectDefault(i) \/ Models!HandleDeleteModel(i)
    PROVE  ModelsFreshInv'
<1>1. CASE \E role \in Models!Roles, provider \in Models!Providers : Models!ChangeForm(role, provider)
  <2>1. PICK role \in Models!Roles, provider \in Models!Providers :
            /\ Models!Send(<<Models!Lite(provider)>>)
            /\ ui' = [ui EXCEPT !.role = role, !.provider = provider, !.fetching = TRUE, !.stale = @ \/ Models!Out({"lite"})]
    BY <1>1 DEF Models!ChangeForm, Models!Ask
  <2>2. /\ ui'.rows = ui.rows /\ ui'.provider = provider /\ ui'.error = ui.error
        /\ ui'.stale = (ui.stale \/ Models!Out({"lite"}))
    BY <2>1, ModelsPage DEF ModelsApp
  <2>3. Models!Lite(provider).op = "lite" /\ Models!Lite(provider).provider = provider
    BY DEF Models!Lite
  <2> QED
    BY <2>1, <2>2, <2>3, ModelsSendFresh
<1>2. CASE \/ Models!Refresh \/ Models!Register \/ Models!OthersRegister
           \/ \E i : Models!HandleSelectDefault(i) \/ Models!HandleDeleteModel(i)
  <2>1. /\ \E ask : ask.op # "lite" /\ Models!Send(<<ask>>)
        /\ \/ ui' = ui \/ ui' = Models!Loading(ui) \/ \E busy : ui' = [ui EXCEPT !.busy = busy]
           \/ \E busy : ui' = [ui EXCEPT !.busy = busy, !.error = FALSE]
    <3>1. CASE Models!Refresh
      BY <3>1 DEF Models!Refresh, Models!Ask, Models!List
    <3>2. CASE Models!Register
      BY <3>2 DEF Models!Register, Models!Ask
    <3>3. CASE Models!OthersRegister
      BY <3>3 DEF Models!OthersRegister, Models!Ask
    <3>4. ASSUME NEW i, Models!HandleSelectDefault(i) \/ Models!HandleDeleteModel(i)
          PROVE  (\E ask : ask.op # "lite" /\ Models!Send(<<ask>>)) /\ \E busy : ui' = [ui EXCEPT !.busy = busy]
      BY <3>4 DEF Models!HandleSelectDefault, Models!HandleDeleteModel, Models!Ask
    <3> QED
      BY <1>2, <3>1, <3>2, <3>3, <3>4
  <2>2. ui'.rows = ui.rows /\ ui'.model = ui.model /\ ui'.provider = ui.provider /\ ui'.stale = ui.stale
    BY <2>1, ModelsPage DEF ModelsApp, Models!Loading
  <2> QED
    BY <2>1, <2>2, ModelsSendFresh
<1> QED
  BY <1>1, <1>2

LEMMA ModelsAnswerFresh ==
    ASSUME ModelsIInv, ModelsFreshInv, NEW r \in net,
           \/ Models!ListFetched(r) \/ Models!LiteFetched(r) \/ Models!Registered(r)
           \/ Models!Wrote(r, "select", ui) \/ Models!Wrote(r, "delete", ui)
    PROVE  ModelsFreshInv'
<1>1. \/ Models!ListFetched(r) \/ Models!LiteFetched(r)
      \/ \E op \in {"register", "select", "delete"} : Models!Wrote(r, op, ui) \/ Models!Wrote(r, op, [ui EXCEPT !.makeDefault = FALSE])
      \/ net' = net \ {r} /\ raced' = TRUE /\ UNCHANGED <<ui, server, sent>> /\ r.ask.op = "register"
  BY DEF Models!Registered, Models!Came
<1>2. CASE net' = net \ {r} /\ raced' = TRUE /\ UNCHANGED <<ui, server, sent>> /\ r.ask.op = "register"
  BY <1>2 DEF ModelsFreshInv, ModelsRowsFresh, ModelsFormFresh
<1>3. CASE Models!ListFetched(r)
  <2>1. /\ r.ask.op = "list" /\ r.got # Waiting /\ Models!Done(r)
        /\ \E busy : ui' = IF r.got = Failed THEN [ui EXCEPT !.loading = FALSE, !.busy = busy, !.error = TRUE]
                           ELSE [ui EXCEPT !.loading = FALSE, !.busy = busy, !.rows = r.got]
    <3> DEFINE busy == IF r.ask.clears THEN None ELSE ui.busy
    <3>1. ui' = IF r.got = Failed THEN [ui EXCEPT !.loading = FALSE, !.busy = busy, !.error = TRUE]
                ELSE [ui EXCEPT !.loading = FALSE, !.busy = busy, !.rows = r.got]
      BY <1>3, ModelsPage DEF Models!ListFetched, ModelsApp
    <3> QED
      BY <1>3, <3>1 DEF Models!ListFetched, Models!Came
  <2>2. net' = net \ {r} /\ UNCHANGED server /\ raced' = (raced \/ (r.late /\ r.got # Failed))
    BY <2>1, ModelsPage, ModelsEnds, ModelsRaces
  <2>3. /\ ui'.model = ui.model /\ ui'.provider = ui.provider /\ ui'.stale = ui.stale
        /\ IF r.got = Failed THEN ui'.error ELSE ui'.rows = r.got /\ ui'.error = ui.error
    BY <2>1, ModelsPage DEF ModelsApp
  <2>4. r.got # Failed /\ ~raced' => OnTime(r) /\ ~raced
    BY <2>1, <2>2 DEF OnTime, Served
  <2>5. ModelsRowsFresh'
    BY <2>1, <2>2, <2>3, <2>4 DEF ModelsFreshInv, ModelsRowsFresh
  <2>6. ModelsFormFresh'
    BY <2>1, <2>2, <2>3 DEF ModelsFreshInv, ModelsFormFresh
  <2> QED
    BY <2>5, <2>6 DEF ModelsFreshInv
<1>4. CASE Models!LiteFetched(r)
  <2>1. PICK model \in {r.ask.provider, None} :
            /\ r.ask.op = "lite" /\ Models!Done(r)
            /\ ui' = IF r.got = Failed THEN [ui EXCEPT !.fetching = FALSE, !.stale = TRUE]
                     ELSE [ui EXCEPT !.model = model, !.fetching = FALSE]
    BY <1>4 DEF Models!LiteFetched, Models!Answer, Models!Came, Models!Done
  <2>2. net' = net \ {r} /\ UNCHANGED server /\ raced' = (raced \/ (r.late /\ r.got # Failed))
    BY <2>1, ModelsPage, ModelsEnds, ModelsRaces
  <2>3. /\ ui'.rows = ui.rows /\ ui'.error = ui.error
        /\ ui'.stale \/ (ui'.model = model /\ ui'.provider = ui.provider /\ ui'.stale = ui.stale)
    BY <2>1, ModelsPage DEF ModelsApp
  <2>4. ModelsRowsFresh'
    BY <2>1, <2>2, <2>3 DEF ModelsFreshInv, ModelsRowsFresh
  <2>5. ModelsFormFresh'
    BY <2>1, <2>2, <2>3 DEF ModelsFreshInv, ModelsFormFresh
  <2> QED
    BY <2>4, <2>5 DEF ModelsFreshInv
<1>5. ASSUME NEW op \in {"register", "select", "delete"}, NEW state, state = ui \/ state = [ui EXCEPT !.makeDefault = FALSE],
             Models!Wrote(r, op, state)
      PROVE  ModelsFreshInv'
  <2> DEFINE ask == Models!List(TRUE)
  <2>1. /\ r.ask.op = op
        /\ \/ ui' = Models!Loading(state) /\ Models!Go(r, <<ask>>)
           \/ ui' = [ui EXCEPT !.error = TRUE, !.busy = None] /\ Models!Done(r)
    BY <1>5 DEF Models!Wrote, Models!Answer, Models!Came
  <2>2. state \in ModelsApp /\ state.model = ui.model /\ state.provider = ui.provider /\ state.stale = ui.stale
    BY <1>5, ModelsPage DEF ModelsApp
  <2>3. ui'.model = ui.model /\ ui'.provider = ui.provider /\ ui'.stale = ui.stale
    BY <2>1, <2>2, ModelsPage DEF ModelsApp, Models!Loading
  <2>4. ask.op = "list"
    BY DEF Models!List
  <2> HIDE DEF ask
  <2>5. UNCHANGED server /\ raced' = (raced \/ (r.late /\ r.got # Failed))
    BY <2>1, ModelsRaces
  <2>6. CASE Models!Go(r, <<ask>>)
    <3>1. net' = (net \ {r}) \cup {NewRequest(sent, ask)}
      BY <2>6, ModelsAsks1
    <3>2. NewRequest(sent, ask).ask = ask /\ ~OnTime(NewRequest(sent, ask))
      BY NewIsWaiting
    <3>3. ModelsRowsFresh'
      BY <2>4, <2>5, <3>1, <3>2 DEF ModelsFreshInv, ModelsRowsFresh
    <3>4. ModelsFormFresh'
      BY <2>1, <2>3, <2>4, <3>1, <3>2 DEF ModelsFreshInv, ModelsFormFresh
    <3> QED
      BY <3>3, <3>4 DEF ModelsFreshInv
  <2>7. CASE ui' = [ui EXCEPT !.error = TRUE, !.busy = None] /\ Models!Done(r)
    <3>1. net' = net \ {r} /\ ui'.error
      BY <2>7, ModelsPage, ModelsEnds DEF ModelsApp
    <3>2. ModelsRowsFresh'
      BY <2>5, <3>1 DEF ModelsFreshInv, ModelsRowsFresh
    <3>3. ModelsFormFresh'
      BY <2>1, <2>3, <3>1 DEF ModelsFreshInv, ModelsFormFresh
    <3> QED
      BY <3>2, <3>3 DEF ModelsFreshInv
  <2> QED
    BY <2>1, <2>6, <2>7
<1> QED
  BY <1>1, <1>2, <1>3, <1>4, <1>5

LEMMA ModelsLooksFresh == ASSUME ModelsIInv, ModelsFreshInv, NEW r \in net, Models!Looks(r) PROVE ModelsFreshInv'
<1> DEFINE look == Models!Looked(r)
           asks == [r.ask EXCEPT !.read = look]
           p == [r EXCEPT !.ask = asks]
<1>1. /\ r.ask.op \in {"register", "select"} /\ r.got = Waiting /\ net' = (net \ {r}) \cup {p}
      /\ UNCHANGED <<ui, server, raced>>
  BY DEF Models!Looks, Models!Changes
<1>2. r \in ModelsSent /\ r.ask \in ModelsRegister \cup ModelsSelect
  BY <1>1, ModelsPage DEF ModelsSent, ModelsAsks
<1> HIDE DEF look
<1>3. asks.op = r.ask.op
  BY <1>1, <1>2 DEF ModelsRegister, ModelsSelect
<1> HIDE DEF asks
<1>4. p.ask.op = r.ask.op /\ p.got = Waiting
  BY <1>1, <1>2, <1>3 DEF ModelsSent
<1> HIDE DEF p
<1>5. ModelsRowsFresh'
  BY <1>1, <1>4 DEF ModelsFreshInv, ModelsRowsFresh, OnTime, Served
<1>6. ModelsFormFresh'
  BY <1>1, <1>4 DEF ModelsFreshInv, ModelsFormFresh
<1> QED
  BY <1>5, <1>6 DEF ModelsFreshInv

LEMMA ModelsMoveFresh ==
    ASSUME ModelsIInv, ModelsFreshInv, NEW r \in net, r.got = Waiting, NEW to \in ModelsSent, NEW held,
           Models!Moves(r, to, held), raced => raced', to.ask.op = r.ask.op, r.ask.op = "lite" => to.ask = r.ask,
           r.ask.op \in {"list", "lite"} => held = server,
           ~raced' /\ r.ask.op = "list" /\ Served(to) => to.got = held.rows
    PROVE  ModelsFreshInv'
<1>1. PICK new \in [net -> ModelsSent] :
         /\ net' = {new[q] : q \in net} /\ server' = held /\ UNCHANGED ui
         /\ new[r] = to
         /\ \A q \in net : q # r => /\ new[q].id = q.id /\ new[q].ask = q.ask /\ new[q].got = q.got /\ new[q].acts = q.acts
                                    /\ new[q].late = (q.got # Waiting /\ (q.late \/ held # server))
  BY ModelsPage, ModelsMovesLate
<1>2. \A q \in net : /\ new[q] \in net' /\ new[q].ask.op = q.ask.op
                     /\ q.ask.op = "lite" => new[q].ask = q.ask
  BY <1>1
<1>3. ASSUME ~raced', NEW p \in net', OnTime(p), p.ask.op = "list"
      PROVE  p.got = server'.rows
  <2>1. PICK q \in net : p = new[q]
    BY <1>1
  <2>2. CASE q = r
    BY <1>1, <1>3, <2>1, <2>2 DEF OnTime
  <2>3. CASE q # r
    <3>1. OnTime(q) /\ server' = server /\ q.ask = p.ask /\ q.got = p.got
      BY <1>1, <1>3, <2>1, <2>3 DEF OnTime, Served
    <3> QED
      BY <1>3, <3>1 DEF ModelsFreshInv, ModelsRowsFresh
  <2> QED
    BY <2>2, <2>3
<1>4. ASSUME ~raced', ~ui.error
      PROVE  ui.rows = server'.rows \/ \E p \in net' : p.ask.op # "lite"
  <2>1. CASE server' = server
    BY <1>2, <1>4, <2>1 DEF ModelsFreshInv, ModelsRowsFresh
  <2>2. CASE server' # server
    BY <1>1, <1>2, <2>2
  <2> QED
    BY <2>1, <2>2
<1>5. ModelsRowsFresh'
  BY <1>1, <1>3, <1>4 DEF ModelsRowsFresh
<1>6. ASSUME ~ui.stale, NEW p \in net', p.ask.op = "lite"
      PROVE  p.ask.provider = ui.provider
  BY <1>1, <1>2, <1>6 DEF ModelsFreshInv, ModelsFormFresh
<1>7. ModelsFormFresh'
  BY <1>1, <1>2, <1>6 DEF ModelsFreshInv, ModelsFormFresh
<1> QED
  BY <1>5, <1>7 DEF ModelsFreshInv

LEMMA ModelsServesFresh ==
    ASSUME ModelsIInv, ModelsFreshInv, Models!ServeOne(Models!Ready, Models!Refused, Models!Effect, Models!Reply)
    PROVE  ModelsFreshInv'
<1>1. PICK r \in Models!Ready :
        /\ r.got = Waiting
        /\ \/ Models!Settle(r, Models!Reply(r), Models!Effect(r)) /\ raced' = raced
           \/ Models!Settle(r, Failed, server) /\ raced' = (raced \/ r.acts # 0)
           \/ Models!Settle(r, Failed, Models!Effect(r)) /\ raced' = TRUE
  BY DEF Models!ServeOne
<1>2. /\ r.got = Waiting /\ (raced => raced')
      /\ \/ Models!Settle(r, Models!Reply(r), Models!Effect(r))
         \/ Models!Settle(r, Failed, server)
         \/ Models!Settle(r, Failed, Models!Effect(r))
  <2>1. CASE Models!Settle(r, Models!Reply(r), Models!Effect(r)) /\ raced' = raced
    BY <1>1, <2>1
  <2>2. CASE Models!Settle(r, Failed, server) /\ raced' = (raced \/ r.acts # 0)
    BY <1>1, <2>2
  <2>3. CASE Models!Settle(r, Failed, Models!Effect(r)) /\ raced' = TRUE
    BY <1>1, <2>3
  <2> QED
    BY <1>1, <2>1, <2>2, <2>3
<1>3. r \in net /\ r \in ModelsSent
  BY ModelsPage DEF Models!Ready
<1>4. /\ r.ask.op = "list" => Models!Reply(r) = server.rows
      /\ r.ask.op \in {"list", "lite"} => Models!Effect(r) = server
  BY DEF Models!Reply, Models!Effect
<1>5. Models!Reply(r) \in ModelsGots /\ Failed \in ModelsGots
  BY DEF ModelsIInv, ModelsTypeInv, Models!Reply, ModelsGots, ModelsServer
<1>6. ASSUME NEW got \in ModelsGots, NEW held, Models!Settle(r, got, held),
             r.ask.op \in {"list", "lite"} => held = server,
             r.ask.op = "list" => got \in {Failed, server.rows}
      PROVE  ModelsFreshInv'
  <2> DEFINE to == [r EXCEPT !.got = got]
  <2>1. Models!Moves(r, to, held)
    BY <1>6 DEF Models!Settle
  <2>2. to \in ModelsSent /\ to.ask = r.ask /\ to.got = got
    BY <1>3, <1>6 DEF ModelsSent
  <2> HIDE DEF to
  <2> QED
    BY <1>2, <1>3, <1>6, <2>1, <2>2, ModelsMoveFresh DEF Served
<1> QED
  BY <1>2, <1>4, <1>5, <1>6

LEMMA ModelsRepeatsFresh ==
    ASSUME ModelsIInv, ModelsFreshInv, Models!RepeatOne(Models!Ready, Models!Refused, Models!Effect, Models!Again)
    PROVE  ModelsFreshInv'
<1>1. PICK r \in Models!Ready : r.got = Waiting /\ Models!SentAgain(r, r.acts + 1, Models!Again(r), Models!Effect(r))
                                /\ Models!Effect(r) # server
  BY DEF Models!RepeatOne
<1>2. r \in net
  BY DEF Models!Ready
<1> DEFINE ask == Models!Again(r)
           effect == Models!Effect(r)
           acts == r.acts + 1
           req == Models!Request(sent + 1, ask)
           to == [req EXCEPT !.acts = acts]
<1>3. Waiting \in ModelsGots /\ sent + 1 \in Nat /\ acts \in Nat
  BY <1>2 DEF ModelsIInv, ModelsTypeInv, ModelsSent, ModelsGots
<1>4. Models!Moves(r, to, effect) /\ raced' = raced
  BY <1>1 DEF Models!SentAgain
<1>5. r.ask.op \notin {"list", "lite"}
  BY <1>1 DEF Models!Effect
<1>6. ask \in ModelsAsks /\ ask.op = r.ask.op
  BY <1>2, ModelsAgains
<1> HIDE DEF ask, effect, acts
<1>7. req \in ModelsSent /\ req.ask = ask /\ req.got = Waiting
  BY <1>3, <1>6 DEF Models!Request, ModelsSent
<1> HIDE DEF req
<1>8. to \in ModelsSent /\ to.ask = ask /\ to.got = Waiting
  BY <1>3, <1>7 DEF ModelsSent
<1> HIDE DEF to
<1> QED
  BY <1>1, <1>2, <1>4, <1>5, <1>6, <1>8, ModelsMoveFresh

LEMMA ModelsNextFresh == ModelsIInv /\ ModelsFreshInv /\ [Models!Next]_(Models!vars) => ModelsFreshInv'
<1> SUFFICES ASSUME ModelsIInv, ModelsFreshInv, [Models!Next]_(Models!vars) PROVE ModelsFreshInv'
  OBVIOUS
<1>1. CASE UNCHANGED Models!vars
  BY <1>1 DEF Models!vars, ModelsFreshInv, ModelsRowsFresh, ModelsFormFresh
<1>2. CASE Models!Next
  <2>1. \/ Models!TickDefault
        \/ \/ Models!Refresh \/ Models!Register \/ Models!OthersRegister
           \/ \E role \in Models!Roles, provider \in Models!Providers : Models!ChangeForm(role, provider)
           \/ \E i : Models!HandleSelectDefault(i) \/ Models!HandleDeleteModel(i)
        \/ \E r \in net : \/ Models!ListFetched(r) \/ Models!LiteFetched(r) \/ Models!Registered(r)
                          \/ Models!Wrote(r, "select", ui) \/ Models!Wrote(r, "delete", ui)
        \/ \E r \in net : Models!Looks(r)
        \/ Models!ServeOne(Models!Ready, Models!Refused, Models!Effect, Models!Reply)
        \/ Models!RepeatOne(Models!Ready, Models!Refused, Models!Effect, Models!Again)
    BY <1>2 DEF Models!Next
  <2>2. CASE Models!TickDefault
    <3>1. UNCHANGED <<net, server, raced>> /\ ui' = [ui EXCEPT !.makeDefault = ~@]
      BY <2>2 DEF Models!TickDefault, Models!Set, Models!Local
    <3>2. /\ ui'.rows = ui.rows /\ ui'.error = ui.error /\ ui'.model = ui.model /\ ui'.provider = ui.provider
          /\ ui'.stale = ui.stale
      BY <3>1, ModelsPage DEF ModelsApp
    <3> QED
      BY <3>1, <3>2 DEF ModelsFreshInv, ModelsRowsFresh, ModelsFormFresh
  <2> QED
    BY <2>1, <2>2, ModelsAskFresh, ModelsAnswerFresh, ModelsLooksFresh, ModelsServesFresh, ModelsRepeatsFresh
<1> QED
  BY <1>1, <1>2

LEMMA ModelsShowFresh == ModelsFreshInv => Models!Fresh
BY DEF ModelsFreshInv, ModelsRowsFresh, ModelsFormFresh, Models!Fresh, Models!Quiet
-----------------------------------------------------------------------------
(* The pages that list what the gateway holds. *)

ListsStates == {"on", "off"}
ListsItems == Maps(Int, ListsStates)
ListsMaybe == Int \cup {None}
ListsApp ==
    [page : DOMAIN Lists!Pages, list : ListsItems, loading : BOOLEAN, error : BOOLEAN, left : BOOLEAN,
     open : BOOLEAN, submitting : BOOLEAN, target : ListsMaybe, force : BOOLEAN, deleting : BOOLEAN,
     busy : SUBSET Int, selected : SUBSET Int, failed : SUBSET Int, partial : BOOLEAN,
     preview : ListsMaybe, chunks : ListsMaybe, crossed : BOOLEAN]
ListsServer == [items : ListsItems]
ListsAsks ==
    [op : {"list"}, clears : BOOLEAN] \cup [op : {"create"}, tried : BOOLEAN, name : Int]
    \cup [op : {"delete"}, id : Int, force : BOOLEAN, batch : Int]
    \cup [op : {"toggle"}, id : Int, from : ListsStates] \cup [op : {"test", "chunks"}, id : Int]
ListsGots == {Waiting, Failed, "not empty", "done"} \cup ListsItems
ListsSent == [id : Int, ask : ListsAsks, got : ListsGots, late : BOOLEAN, acts : Nat]

ListsTypeInv ==
    /\ ui \in ListsApp /\ server \in ListsServer /\ net \subseteq ListsSent /\ sent \in Nat
    /\ IsFiniteSet(ui.selected)
    /\ \A r \in net : r.ask.op = "list" /\ r.got \notin {Waiting, Failed} => r.got \in ListsItems

\* A page sends only what it has buttons for.
ListsMayAsk(ask) ==
    /\ ask.op = "toggle" => Lists!Is("toggle")
    /\ ask.op = "test" => Lists!Is("test")
    /\ ask.op = "list" /\ ask.clears => Lists!Is("waits")
    /\ ask.op = "delete" /\ ask.batch # 0 => Lists!Is("bulk")
ListsFromInv ==
    /\ ui.target # None => Lists!Is("modal")
    /\ \A r \in net : ListsMayAsk(r.ask) /\ (r.ask.op = "delete" /\ r.got = "not empty" => ui.page = "collections")

\* The form says that it is submitting while its entry is sent.
ListsEntry(r) == r.ask.op = "create" /\ ~r.ask.tried
ListsFormInv == ui.submitting => \E r \in net : ListsEntry(r)

ListsClears(r) == r.ask.op = "list" /\ r.ask.clears
ListsWaitInv ==
    /\ ui.loading => \E r \in net : r.ask.op = "list"
    /\ ui.deleting => Lists!Is("locks") /\ \E r \in net : r.ask.op = "delete" \/ ListsClears(r)

\* A page remembers no entry that is busy, or one that a request will clear, or
\* those that are being decided, each once.
ListsCause(r) == r.ask.op \in {"toggle", "test"} \/ ListsClears(r) \/ (r.ask.op = "delete" /\ ~Lists!Is("modal"))
ListsBusyInv ==
    /\ ~Lists!Is("one") /\ ~Lists!Is("each") => ui.busy = {}
    /\ Lists!Is("one") /\ ui.busy # {} => \E r \in net : ListsCause(r)
    /\ Lists!Is("each") =>
          /\ \A q, r \in net : q # r /\ q.ask.op = "delete" /\ r.ask.op = "delete" => q.ask.id # r.ask.id
          /\ \A r \in net : r.ask.op = "delete" => r.ask.id \in ui.busy
          /\ \A i \in ui.busy : \E r \in net : r.ask.op = "delete" /\ r.ask.id = i

ListsIInv == ListsTypeInv /\ ListsFromInv /\ ListsFormInv /\ ListsWaitInv /\ ListsBusyInv

LEMMA ListsAsks1 ==
    ASSUME NEW ask
    PROVE  /\ Lists!Send(<<ask>>) => net' = net \cup {NewRequest(sent, ask)} /\ sent' = sent + 1 /\ UNCHANGED server
           /\ \A r : Lists!Go(r, <<ask>>) =>
                net' = (net \ {r}) \cup {NewRequest(sent, ask)} /\ sent' = sent + 1 /\ UNCHANGED server
<1>1. Lists!Requests(<<ask>>) = {NewRequest(sent, ask)} /\ Len(<<ask>>) = 1
  BY OneAsked DEF Lists!Requests, Lists!Request
<1> QED
  BY <1>1 DEF Lists!Send, Lists!Go

LEMMA ListsEnds ==
    ASSUME NEW r, sent \in Nat, Lists!Done(r)
    PROVE  net' = net \ {r} /\ UNCHANGED <<sent, server>>
<1>1. Lists!Requests(<<>>) = {} /\ Len(<<>>) = 0
  BY NoneAsked DEF Lists!Requests, Lists!Request
<1> QED
  BY <1>1 DEF Lists!Done, Lists!Go

\* r is answered, or the gateway acts on it and it is sent again.
ListsMoved(r, got, held) ==
    \/ Lists!Settle(r, got, held)
    \/ got = Waiting /\ \E acts \in Nat : Lists!SentAgain(r, acts, r.ask, held)

LEMMA ListsMoves ==
    ASSUME NEW r \in net, NEW got, got \in ListsGots, NEW held, net \subseteq ListsSent, sent \in Nat, ListsMoved(r, got, held)
    PROVE  /\ sent' \in {sent, sent + 1}
           /\ \E to \in ListsSent : Lists!Moves(r, to, held) /\ to.id \in {r.id, sent'} /\ to.ask = r.ask /\ to.got = got
                             /\ (got # Waiting => to.id = r.id)
<1>1. r \in ListsSent
  OBVIOUS
<1>2. CASE Lists!Settle(r, got, held)
  <2> DEFINE to == [r EXCEPT !.got = got]
  <2>1. to \in ListsSent /\ to.id = r.id /\ to.ask = r.ask /\ to.got = got
    BY <1>1 DEF ListsSent
  <2>2. Lists!Moves(r, to, held) /\ sent' = sent
    BY <1>2 DEF Lists!Settle
  <2> QED
    BY <2>1, <2>2
<1>3. CASE got = Waiting /\ \E acts \in Nat : Lists!SentAgain(r, acts, r.ask, held)
  <2>1. PICK acts \in Nat : Lists!SentAgain(r, acts, r.ask, held)
    BY <1>3
  <2> DEFINE req == Lists!Request(sent + 1, r.ask)
             to == [req EXCEPT !.acts = acts]
  <2>2. req \in ListsSent /\ req.id = sent + 1 /\ req.ask = r.ask /\ req.got = Waiting
    BY <1>1, <1>3 DEF ListsSent, Lists!Request
  <2> HIDE DEF req
  <2>3. to \in ListsSent /\ to.id = sent + 1 /\ to.ask = r.ask /\ to.got = got
    BY <1>3, <2>2 DEF ListsSent
  <2>4. Lists!Moves(r, to, held) /\ sent' = sent + 1
    BY <2>1 DEF Lists!SentAgain, req
  <2> QED
    BY <1>3, <2>3, <2>4
<1> QED
  BY <1>2, <1>3 DEF ListsMoved

LEMMA ListsSettled ==
    ASSUME NEW r \in net, NEW got, got \in ListsGots, NEW held, net \subseteq ListsSent, sent \in Nat, ListsMoved(r, got, held)
    PROVE  /\ server' = held /\ UNCHANGED ui /\ sent' \in {sent, sent + 1}
           /\ \E new \in [net -> ListsSent] :
              /\ net' = {new[q] : q \in net}
              /\ \A q \in net : /\ new[q].ask = q.ask /\ new[q].got = IF q = r THEN got ELSE q.got
                                /\ new[q].id = q.id \/ (q = r /\ new[q].id = sent')
                                /\ got # Waiting => new[q].id = q.id
<1>1. PICK to \in ListsSent : Lists!Moves(r, to, held) /\ to.id \in {r.id, sent'} /\ to.ask = r.ask /\ to.got = got
                             /\ (got # Waiting => to.id = r.id)
  BY ListsMoves
<1>2. net' = {IF q = r THEN to ELSE [q EXCEPT !.late = q.got # Waiting /\ (@ \/ held # server)] : q \in net}
  BY <1>1 DEF Lists!Moves
<1> DEFINE Late(q) == q.got # Waiting /\ (q.late \/ held # server)
           New(q) == IF q = r THEN to ELSE [q EXCEPT !.late = Late(q)]
<1>3. ASSUME NEW q \in net
      PROVE  /\ New(q) \in ListsSent /\ New(q).ask = q.ask /\ New(q).got = IF q = r THEN got ELSE q.got
             /\ New(q).id = q.id \/ (q = r /\ New(q).id = sent')
             /\ got # Waiting => New(q).id = q.id
  <2>1. q \in ListsSent /\ Late(q) \in BOOLEAN
    OBVIOUS
  <2> HIDE DEF Late
  <2> QED
    BY <1>1, <2>1 DEF ListsSent
<1>4. net' = {New(q) : q \in net}
  BY <1>2
<1> HIDE DEF New
<1> DEFINE new == [q \in net |-> New(q)]
<1>5. new \in [net -> ListsSent] /\ \A q \in net : new[q] = New(q)
  BY <1>3
<1>6. net' = {new[q] : q \in net}
  BY <1>4, <1>5
<1> HIDE DEF new
<1>7. server' = held /\ UNCHANGED ui /\ sent' \in {sent, sent + 1}
  BY <1>1, ListsMoves DEF Lists!Moves
<1> QED
  BY <1>3, <1>5, <1>6, <1>7

LEMMA ListsSettles ==
    ASSUME NEW r \in net, NEW got, got \in ListsGots, NEW held, net \subseteq ListsSent, sent \in Nat, ListsMoved(r, got, held)
    PROVE  /\ net' \subseteq ListsSent /\ server' = held /\ UNCHANGED ui /\ sent' \in Nat
           /\ \A p \in net' : \E q \in net : p.ask = q.ask /\ p.got = IF q = r THEN got ELSE q.got
           /\ \A q \in net : \E p \in net' : p.ask = q.ask /\ p.got = IF q = r THEN got ELSE q.got
<1>1. /\ server' = held /\ UNCHANGED ui /\ sent' \in {sent, sent + 1}
      /\ \E new \in [net -> ListsSent] :
            /\ net' = {new[q] : q \in net}
            /\ \A q \in net : /\ new[q].ask = q.ask /\ new[q].got = IF q = r THEN got ELSE q.got
                              /\ new[q].id = q.id \/ (q = r /\ new[q].id = sent')
  BY ListsSettled
<1>2. PICK new \in [net -> ListsSent] :
            /\ net' = {new[q] : q \in net}
            /\ \A q \in net : new[q].ask = q.ask /\ new[q].got = IF q = r THEN got ELSE q.got
  BY <1>1
<1>3. sent' \in Nat
  BY <1>1
<1> QED
  BY ONLY <1>1, <1>2, <1>3

LEMMA ListsActs ==
    ASSUME net \subseteq ListsSent,
           Lists!Serve(Lists!Refused, Lists!Effect, Lists!Reply) \/ Lists!RepeatOne(Lists!SentByRequest, Lists!Refused, Lists!Effect, Lists!Same)
    PROVE  \E r \in net :
              \/ ListsMoved(r, Failed, server)
              \/ ~Lists!Refused(r) /\ \E got \in {Waiting, Failed, Lists!Reply(r)} : ListsMoved(r, got, Lists!Effect(r))
<1>1. CASE Lists!Serve(Lists!Refused, Lists!Effect, Lists!Reply)
  BY <1>1 DEF Lists!Serve, Lists!ServeOne, ListsMoved
<1>2. CASE Lists!RepeatOne(Lists!SentByRequest, Lists!Refused, Lists!Effect, Lists!Same)
  <2>1. PICK r \in net : ~Lists!Refused(r) /\ Lists!SentAgain(r, r.acts + 1, r.ask, Lists!Effect(r))
    BY <1>2 DEF Lists!RepeatOne, Lists!Same, Lists!SentByRequest
  <2>2. r.acts + 1 \in Nat
    BY DEF ListsSent
  <2> QED
    BY <2>1, <2>2 DEF ListsMoved
<1> QED
  BY <1>1, <1>2

\* Which details go together.
LEMMA ListsFeatures ==
    ASSUME ui.page \in DOMAIN Lists!Pages
    PROVE  /\ Lists!Is("each") => /\ Lists!Is("drops") /\ ~Lists!Is("one") /\ ~Lists!Is("modal") /\ ~Lists!Is("toggle")
                                  /\ ~Lists!Is("test") /\ ~Lists!Is("bulk") /\ ~Lists!Is("waits")
           /\ Lists!Is("one") => ~Lists!Is("drops") /\ ~Lists!Is("bulk") /\ ui.page # "collections"
           /\ Lists!Is("locks") => /\ Lists!Is("waits") /\ Lists!Is("modal") /\ ~Lists!Is("drops") /\ ~Lists!Is("bulk")
                                   /\ ui.page # "collections"
           /\ Lists!Is("waits") => Lists!Is("one")
           /\ Lists!Is("keeps") => Lists!Is("modal")
           /\ Lists!Is("drops") => Lists!Is("each") /\ ~Lists!Is("create") /\ ~Lists!Is("stored") /\ ui.page # "connections"
           /\ ui.page = "collections" => Lists!Is("modal") /\ ~Lists!Is("toggle") /\ ~Lists!Is("stays") /\ ~Lists!Is("stored")
<1>1. ui.page \in {"workflows", "agents", "suites", "collections", "datastores", "documents", "keys", "credentials",
                   "connections", "users", "invites", "approvals", "models"}
  BY DEF Lists!Pages
<1>2. CASE ui.page \in {"workflows", "agents", "suites", "collections"}
  BY <1>2 DEF Lists!Is, Lists!Pages, Lists!WorkflowLibrary, Lists!WorkflowLibraryView, Lists!AgentLibrary, Lists!AgentLibraryView,
     Lists!SuiteManager, Lists!SuiteManagerView, Lists!CollectionsWorkspace, Lists!CollectionsWorkspaceView
<1>3. CASE ui.page \in {"datastores", "documents", "keys", "credentials"}
  BY <1>3 DEF Lists!Is, Lists!Pages, Lists!DatastoresWorkspace, Lists!DatastoresWorkspaceView, Lists!DocumentsWorkspace,
     Lists!DocumentsWorkspaceView, Lists!APIKeysPanel, Lists!APIKeysPanelView, Lists!CredentialsSettings,
     Lists!CredentialsSettingsView
<1>4. CASE ui.page \in {"connections", "users", "invites"}
  BY <1>4 DEF Lists!Is, Lists!Pages, Lists!DatabaseConnectionsTab, Lists!DatabaseConnectionsTabView, Lists!UserDirectory,
     Lists!UserDirectoryView, Lists!InvitesTable, Lists!InvitesTableView
<1>5. CASE ui.page \in {"approvals", "models"}
  BY <1>5 DEF Lists!Is, Lists!Pages, Lists!ApprovalQueue, Lists!ApprovalQueueView, Lists!LocalModelsPage,
     Lists!LocalModelsPageView
<1> QED
  BY <1>1, <1>2, <1>3, <1>4, <1>5

LEMMA ListsInitIInv == Lists!Init => ListsIInv
<1> SUFFICES ASSUME Lists!Init PROVE ListsIInv
  OBVIOUS
<1> DEFINE ask == [op |-> "list", clears |-> FALSE]
           list == Lists!Empty
           none == {}
           items == <<"on", "off">>
<1>1. PICK page \in DOMAIN Lists!Pages :
        /\ ui = [page |-> page, list |-> list, loading |-> TRUE, error |-> FALSE, left |-> FALSE,
                 open |-> FALSE, submitting |-> FALSE, target |-> None, force |-> FALSE, deleting |-> FALSE,
                 busy |-> none, selected |-> none, failed |-> none, partial |-> FALSE,
                 preview |-> None, chunks |-> None, crossed |-> FALSE]
        /\ server = [items |-> items]
        /\ net = {Lists!Request(i, <<ask>>[i]) : i \in DOMAIN <<ask>>} /\ sent = Len(<<ask>>)
  BY DEF Lists!Init, Lists!Started, Lists!List
<1>2. net = {FirstRequest(1, ask)} /\ sent = 1
  BY <1>1, StartedWithOne DEF Lists!Request
<1>3. ask \in ListsAsks /\ ask.op = "list" /\ ~ask.clears
  BY DEF ListsAsks
<1>4. list \in ListsItems
  <2>1. list \in [{} -> ListsStates]
    BY DEF Lists!Empty
  <2> QED
    BY <2>1, MapIs DEF ListsItems
<1>5. items \in ListsItems
  <2>1. items \in [1 .. 2 -> ListsStates] /\ 1 .. 2 \subseteq Int
    BY DEF ListsStates
  <2> QED
    BY <2>1, MapIs DEF ListsItems
<1>6. none \in SUBSET Int /\ None \in ListsMaybe /\ IsFiniteSet(none) /\ none = {}
  BY FS_EmptySet DEF ListsMaybe
<1> HIDE DEF ask, list, none, items
<1>7. /\ ui \in ListsApp /\ ui.page = page /\ ui.submitting = FALSE /\ ui.target = None /\ ui.deleting = FALSE
      /\ ui.busy = none /\ ui.selected = none
  BY <1>1, <1>4, <1>6 DEF ListsApp
<1>8. server \in ListsServer
  BY <1>1, <1>5 DEF ListsServer
<1>9. FirstRequest(1, ask) \in ListsSent /\ FirstRequest(1, ask).ask = ask /\ FirstRequest(1, ask).got = Waiting
  BY <1>3 DEF FirstRequest, ListsSent, ListsGots
<1>10. ListsTypeInv
  BY <1>2, <1>6, <1>7, <1>8, <1>9 DEF ListsTypeInv
<1>11. ListsFromInv /\ ListsFormInv /\ ListsWaitInv /\ ListsBusyInv
  BY <1>2, <1>3, <1>6, <1>7, <1>9
     DEF ListsFromInv, ListsMayAsk, ListsFormInv, ListsEntry, ListsWaitInv, ListsClears, ListsBusyInv, ListsCause
<1> QED
  BY <1>10, <1>11 DEF ListsIInv
-----------------------------------------------------------------------------
LEMMA ListsPage ==
    ASSUME ListsIInv
    PROVE  /\ ui \in ListsApp /\ server \in ListsServer /\ net \subseteq ListsSent /\ sent \in Nat
           /\ server.items \in ListsItems /\ ui.page \in DOMAIN Lists!Pages /\ IsFiniteSet(ui.selected)
BY DEF ListsIInv, ListsTypeInv, ListsServer, ListsApp

LEMMA ListsRowIds == ASSUME ListsIInv, NEW i, i \in DOMAIN ui.list PROVE i \in Int /\ ui.list[i] \in ListsStates
<1>1. ui.list \in ListsItems
  BY ListsPage DEF ListsApp
<1>2. ui.list \in [DOMAIN ui.list -> ListsStates] /\ DOMAIN ui.list \subseteq Int
  BY <1>1, MapFacts DEF ListsItems
<1> QED
  BY <1>2

\* A page stays what it is.
LEMMA ListsSame == ASSUME ui'.page = ui.page PROVE \A f : Lists!Is(f)' <=> Lists!Is(f)
BY DEF Lists!Is

LEMMA ListsNetStep ==
    ASSUME ListsIInv, UNCHANGED server, ui' \in ListsApp, ui'.page = ui.page, IsFiniteSet(ui'.selected),
           ui'.target # None => Lists!Is("modal"),
           \/ sent' = sent /\ net' \subseteq net
           \/ sent' = sent + 1 /\ \E ask \in ListsAsks : ListsMayAsk(ask) /\ net' \subseteq net \cup {NewRequest(sent, ask)}
    PROVE  ListsTypeInv' /\ ListsFromInv'
<1>1. \A ask \in ListsAsks : /\ NewRequest(sent, ask) \in ListsSent /\ NewRequest(sent, ask).got = Waiting
                             /\ NewRequest(sent, ask).ask = ask
  <2>1. Waiting \in ListsGots /\ sent + 1 \in Int
    BY ListsPage DEF ListsGots
  <2> QED
    BY <2>1 DEF NewRequest, ListsSent
<1>2. ListsTypeInv'
  BY <1>1 DEF ListsIInv, ListsTypeInv
<1>3. \A r \in net' : ListsMayAsk(r.ask) /\ (r.ask.op = "delete" /\ r.got = "not empty" => ui.page = "collections")
  BY <1>1, RepliesApart DEF ListsIInv, ListsFromInv
<1>4. ListsFromInv'
  BY <1>3, ListsSame DEF ListsFromInv, ListsMayAsk
<1> QED
  BY <1>2, <1>4

\* The helpers of the handlers.
ListsLike(s) ==
    /\ s \in ListsApp /\ s.page = ui.page /\ IsFiniteSet(s.selected) /\ (s.target # None => Lists!Is("modal"))

LEMMA ListsLoading ==
    ASSUME NEW s, ListsLike(s)
    PROVE  LET l == Lists!Loading(s)
           IN  ListsLike(l) /\ l.submitting = s.submitting /\ l.deleting = s.deleting /\ l.busy = s.busy
BY DEF ListsLike, Lists!Loading, ListsApp

LEMMA ListsMarked ==
    ASSUME ListsIInv, NEW i, i \in Int
    PROVE  /\ LET s == Lists!Started1(i)
              IN  /\ ListsLike(s) /\ s.submitting = ui.submitting /\ s.deleting = ui.deleting /\ s.loading = ui.loading
                  /\ s.busy = IF Lists!Is("one") THEN {i} ELSE IF Lists!Is("each") THEN ui.busy \cup {i} ELSE ui.busy
           /\ LET s == Lists!Ended(i)
              IN  /\ ListsLike(s) /\ s.submitting = ui.submitting /\ s.deleting = ui.deleting /\ s.loading = ui.loading
                  /\ s.target = ui.target /\ s.list = ui.list
                  /\ s.busy = IF Lists!Is("each") THEN ui.busy \ {i} ELSE {}
<1> DEFINE started == IF Lists!Is("one") THEN {i} ELSE IF Lists!Is("each") THEN ui.busy \cup {i} ELSE ui.busy
           ended == IF Lists!Is("each") THEN ui.busy \ {i} ELSE {}
<1>1. Lists!Started1(i) = [ui EXCEPT !.busy = started] /\ Lists!Ended(i) = [ui EXCEPT !.busy = ended]
  BY DEF Lists!Started1, Lists!Ended
<1>2. ui \in ListsApp /\ ui.busy \in SUBSET Int
  BY ListsPage DEF ListsApp
<1>3. started \in SUBSET Int /\ ended \in SUBSET Int
  BY <1>2
<1>4. ui.target # None => Lists!Is("modal")
  BY DEF ListsIInv, ListsFromInv
<1> HIDE DEF started, ended
<1>5. LET s == Lists!Started1(i)
      IN  /\ s \in ListsApp /\ s.page = ui.page /\ s.selected = ui.selected /\ s.target = ui.target
          /\ s.submitting = ui.submitting /\ s.deleting = ui.deleting /\ s.loading = ui.loading /\ s.busy = started
  BY <1>1, <1>2, <1>3 DEF ListsApp
<1>6. LET s == Lists!Ended(i)
      IN  /\ s \in ListsApp /\ s.page = ui.page /\ s.selected = ui.selected /\ s.target = ui.target /\ s.list = ui.list
          /\ s.submitting = ui.submitting /\ s.deleting = ui.deleting /\ s.loading = ui.loading /\ s.busy = ended
  BY <1>1, <1>2, <1>3 DEF ListsApp
<1> QED
  BY <1>4, <1>5, <1>6, ListsPage DEF ListsLike, started, ended

LEMMA ListsNow == ListsIInv => ListsLike(ui)
BY ListsPage DEF ListsLike, ListsIInv, ListsFromInv

LEMMA ListsForgotten ==
    ASSUME NEW s, ListsLike(s)
    PROVE  LET l == Lists!NoTarget(s)
           IN  /\ ListsLike(l) /\ l.submitting = s.submitting /\ l.deleting = s.deleting /\ l.busy = s.busy /\ l.loading = s.loading
               /\ l.list = s.list
BY DEF ListsLike, Lists!NoTarget, ListsApp, ListsMaybe
-----------------------------------------------------------------------------
\* What the user changes on the page alone.
LEMMA ListsLocalStep ==
    ASSUME ListsIInv, UNCHANGED <<net, server, sent>>, ListsLike(ui'), ui'.submitting = ui.submitting,
           ui'.deleting = ui.deleting, ui'.busy = ui.busy, ui'.loading = ui.loading
    PROVE  ListsIInv'
<1>1. ListsTypeInv' /\ ListsFromInv'
  BY ListsNetStep DEF ListsLike
<1>2. ListsFormInv' /\ ListsWaitInv' /\ ListsBusyInv'
  BY ListsSame DEF ListsLike, ListsIInv, ListsFormInv, ListsEntry, ListsWaitInv, ListsClears, ListsBusyInv, ListsCause
<1> QED
  BY <1>1, <1>2 DEF ListsIInv

LEMMA ListsPageStep ==
    ASSUME ListsIInv, \/ Lists!OpenForm \/ Lists!CloseForm \/ Lists!Cancel \/ Lists!ClosePreview
                      \/ \E i \in DOMAIN ui.list : Lists!ChooseTarget(i) \/ Lists!Select(i)
    PROVE  ListsIInv'
<1>1. CASE Lists!OpenForm \/ Lists!CloseForm \/ Lists!ClosePreview
  <2>1. \/ \E open \in BOOLEAN : ui' = [ui EXCEPT !.open = open]
        \/ ui' = [ui EXCEPT !.preview = None]
    BY <1>1 DEF Lists!OpenForm, Lists!CloseForm, Lists!ClosePreview, Lists!Set
  <2>2. UNCHANGED <<net, server, sent>>
    BY <1>1 DEF Lists!OpenForm, Lists!CloseForm, Lists!ClosePreview, Lists!Set, Lists!Local
  <2>3. /\ ListsLike(ui') /\ ui'.submitting = ui.submitting /\ ui'.deleting = ui.deleting /\ ui'.busy = ui.busy
        /\ ui'.loading = ui.loading
    BY <2>1, ListsNow DEF ListsLike, ListsApp, ListsMaybe
  <2> QED
    BY <2>2, <2>3, ListsLocalStep
<1>2. CASE Lists!Cancel
  <2>1. ui' = Lists!NoTarget(ui) /\ UNCHANGED <<net, server, sent>>
    BY <1>2 DEF Lists!Cancel, Lists!Set, Lists!Local
  <2> QED
    BY <2>1, ListsNow, ListsForgotten, ListsLocalStep
<1>3. ASSUME NEW i \in DOMAIN ui.list, Lists!ChooseTarget(i)
      PROVE  ListsIInv'
  <2>1. ui' = [ui EXCEPT !.target = i] /\ UNCHANGED <<net, server, sent>> /\ Lists!Is("modal")
    BY <1>3 DEF Lists!ChooseTarget, Lists!Set, Lists!Local
  <2>2. i \in ListsMaybe
    BY ListsRowIds DEF ListsMaybe
  <2>3. /\ ListsLike(ui') /\ ui'.submitting = ui.submitting /\ ui'.deleting = ui.deleting /\ ui'.busy = ui.busy
        /\ ui'.loading = ui.loading
    BY <2>1, <2>2, ListsNow DEF ListsLike, ListsApp
  <2> QED
    BY <2>1, <2>3, ListsLocalStep
<1>4. ASSUME NEW i \in DOMAIN ui.list, Lists!Select(i)
      PROVE  ListsIInv'
  <2> DEFINE selected == IF i \in ui.selected THEN ui.selected \ {i} ELSE ui.selected \cup {i}
  <2>1. ui' = [ui EXCEPT !.selected = selected] /\ UNCHANGED <<net, server, sent>>
    BY <1>4 DEF Lists!Select, Lists!Set, Lists!Local
  <2>2. selected \in SUBSET Int
    <3>1. ui.selected \in SUBSET Int
      BY ListsPage DEF ListsApp
    <3> QED
      BY <3>1, ListsRowIds
  <2>3. IsFiniteSet(selected)
    BY ListsPage, FS_AddElement, FS_RemoveElement
  <2> HIDE DEF selected
  <2>4. /\ ui' \in ListsApp /\ ui'.page = ui.page /\ ui'.selected = selected /\ ui'.target = ui.target
        /\ ui'.submitting = ui.submitting /\ ui'.deleting = ui.deleting /\ ui'.busy = ui.busy /\ ui'.loading = ui.loading
    BY <2>1, <2>2, ListsPage DEF ListsApp
  <2>5. ListsLike(ui')
    BY <2>3, <2>4, ListsNow DEF ListsLike
  <2> QED
    BY <2>1, <2>4, <2>5, ListsLocalStep
<1> QED
  BY <1>1, <1>2, <1>3, <1>4

\* A request that neither creates an entry nor deletes one.
LEMMA ListsAskStep ==
    ASSUME ListsIInv, NEW ask, ask \in ListsAsks, ListsMayAsk(ask), Lists!Send(<<ask>>), ListsLike(ui'),
           ui'.submitting = ui.submitting, ui'.deleting = ui.deleting,
           ui'.loading => ui.loading \/ ask.op = "list",
           ask.op # "delete", ask.op = "create" => ask.tried,
           ui'.busy = ui.busy \/ (ask.op \in {"toggle", "test"} /\ Lists!Is("one"))
    PROVE  ListsIInv'
<1>1. net' = net \cup {NewRequest(sent, ask)} /\ sent' = sent + 1 /\ UNCHANGED server
  BY ListsAsks1
<1>2. NewRequest(sent, ask).ask = ask
  BY DEF NewRequest
<1>3. ListsTypeInv' /\ ListsFromInv'
  BY <1>1, ListsNetStep DEF ListsLike
<1>4. ListsFormInv'
  BY <1>1, <1>2, ListsSame DEF ListsLike, ListsIInv, ListsFormInv, ListsEntry
<1>5. ListsWaitInv'
  BY <1>1, <1>2, ListsSame DEF ListsLike, ListsIInv, ListsWaitInv, ListsClears
<1>6. ListsBusyInv'
  <2>1. Lists!Is("one") => ~Lists!Is("each")
    BY ListsPage, ListsFeatures
  <2> QED
    BY <1>1, <1>2, <2>1, ListsSame DEF ListsLike, ListsIInv, ListsBusyInv, ListsCause, ListsClears
<1> QED
  BY <1>3, <1>4, <1>5, <1>6 DEF ListsIInv

LEMMA ListsCreations ==
    ASSUME ListsIInv, NEW tried \in BOOLEAN
    PROVE  /\ Lists!Create(tried) \in ListsAsks /\ ListsMayAsk(Lists!Create(tried))
           /\ Lists!Create(tried).op = "create" /\ Lists!Create(tried).tried = tried
<1> DEFINE name == sent + 3
<1>1. name \in Int /\ Lists!Create(tried) = [op |-> "create", tried |-> tried, name |-> name]
  BY ListsPage DEF Lists!Create
<1> HIDE DEF name
<1> QED
  BY <1>1 DEF ListsAsks, ListsMayAsk

LEMMA ListsButtonStep ==
    ASSUME ListsIInv, \/ Lists!Refresh \/ Lists!Retry \/ Lists!TryConnection
                      \/ \E i \in DOMAIN ui.list : Lists!Toggle(i) \/ Lists!Test(i) \/ Lists!Preview(i)
    PROVE  ListsIInv'
<1>1. CASE Lists!Refresh \/ Lists!Retry
  <2> DEFINE ask == [op |-> "list", clears |-> FALSE]
  <2>1. ui' = Lists!Loading(ui) /\ Lists!Send(<<ask>>)
    BY <1>1 DEF Lists!Refresh, Lists!Retry, Lists!List
  <2>2. ask \in ListsAsks /\ ListsMayAsk(ask) /\ ask.op = "list"
    BY DEF ListsAsks, ListsMayAsk
  <2> HIDE DEF ask
  <2>3. ListsLike(ui') /\ ui'.submitting = ui.submitting /\ ui'.deleting = ui.deleting /\ ui'.busy = ui.busy
    BY <2>1, ListsNow, ListsLoading
  <2> QED
    BY <2>1, <2>2, <2>3, ListsAskStep
<1>2. CASE Lists!TryConnection
  <2> DEFINE ask == Lists!Create(TRUE)
  <2>1. ui' = ui /\ Lists!Send(<<ask>>)
    BY <1>2 DEF Lists!TryConnection, Lists!Ask
  <2>2. ask \in ListsAsks /\ ListsMayAsk(ask) /\ ask.op = "create" /\ ask.tried
    BY ListsCreations
  <2> HIDE DEF ask
  <2> QED
    BY <2>1, <2>2, ListsNow, ListsAskStep
<1>3. ASSUME NEW i \in DOMAIN ui.list, Lists!Toggle(i)
      PROVE  ListsIInv'
  <2> DEFINE ask == [op |-> "toggle", id |-> i, from |-> ui.list[i]]
  <2>1. ui' = Lists!Started1(i) /\ Lists!Send(<<ask>>) /\ Lists!Is("toggle")
    BY <1>3 DEF Lists!Toggle, Lists!Ask
  <2>2. ask \in ListsAsks /\ ListsMayAsk(ask) /\ ask.op = "toggle"
    BY <2>1, ListsRowIds DEF ListsAsks, ListsMayAsk
  <2>3. ~Lists!Is("each")
    BY <2>1, ListsPage, ListsFeatures
  <2> HIDE DEF ask
  <2> QED
    BY <2>1, <2>2, <2>3, ListsRowIds, ListsMarked, ListsAskStep
<1>4. ASSUME NEW i \in DOMAIN ui.list, Lists!Test(i)
      PROVE  ListsIInv'
  <2> DEFINE ask == [op |-> "test", id |-> i]
  <2>1. ui' = Lists!Started1(i) /\ Lists!Send(<<ask>>) /\ Lists!Is("test")
    BY <1>4 DEF Lists!Test, Lists!Ask
  <2>2. ask \in ListsAsks /\ ListsMayAsk(ask) /\ ask.op = "test"
    BY <2>1, ListsRowIds DEF ListsAsks, ListsMayAsk
  <2>3. ~Lists!Is("each")
    BY <2>1, ListsPage, ListsFeatures
  <2> HIDE DEF ask
  <2> QED
    BY <2>1, <2>2, <2>3, ListsRowIds, ListsMarked, ListsAskStep
<1>5. ASSUME NEW i \in DOMAIN ui.list, Lists!Preview(i)
      PROVE  ListsIInv'
  <2> DEFINE ask == [op |-> "chunks", id |-> i]
  <2>1. ui' = [ui EXCEPT !.preview = i] /\ Lists!Send(<<ask>>)
    BY <1>5 DEF Lists!Preview, Lists!Ask
  <2>2. ask \in ListsAsks /\ ListsMayAsk(ask) /\ ask.op = "chunks" /\ i \in ListsMaybe
    BY ListsRowIds DEF ListsAsks, ListsMayAsk, ListsMaybe
  <2> HIDE DEF ask
  <2>3. /\ ListsLike(ui') /\ ui'.submitting = ui.submitting /\ ui'.deleting = ui.deleting /\ ui'.busy = ui.busy
        /\ ui'.loading = ui.loading
    BY <2>1, <2>2, ListsNow DEF ListsLike, ListsApp
  <2> QED
    BY <2>1, <2>2, <2>3, ListsAskStep
<1> QED
  BY <1>1, <1>2, <1>3, <1>4, <1>5

\* The form sends its entry.
LEMMA ListsSubmitStep == ASSUME ListsIInv, Lists!Submit PROVE ListsIInv'
<1> DEFINE ask == Lists!Create(FALSE)
           guarded == Lists!Is("guards")
<1>1. ui' = [ui EXCEPT !.submitting = guarded] /\ Lists!Send(<<ask>>) /\ ~ui.submitting
  BY DEF Lists!Submit, Lists!Ask
<1>2. ask \in ListsAsks /\ ListsMayAsk(ask) /\ ask.op = "create" /\ ~ask.tried
  BY ListsCreations
<1>3. guarded \in BOOLEAN /\ (guarded <=> Lists!Is("guards"))
  BY DEF Lists!Is
<1> HIDE DEF ask, guarded
<1>4. net' = net \cup {NewRequest(sent, ask)} /\ sent' = sent + 1 /\ UNCHANGED server
  BY <1>1, ListsAsks1
<1>5. NewRequest(sent, ask).ask = ask
  BY DEF NewRequest
<1>6. /\ ListsLike(ui') /\ ui'.submitting = guarded /\ ui'.deleting = ui.deleting /\ ui'.busy = ui.busy /\ ui'.loading = ui.loading
  BY <1>1, <1>3, ListsNow DEF ListsLike, ListsApp
<1>7. ListsTypeInv' /\ ListsFromInv'
  BY <1>2, <1>4, <1>6, ListsNetStep DEF ListsLike
<1>8. ListsFormInv'
  BY <1>2, <1>4, <1>5, <1>6 DEF ListsFormInv, ListsEntry
<1>9. ListsWaitInv' /\ ListsBusyInv'
  BY <1>2, <1>4, <1>5, <1>6, ListsSame DEF ListsLike, ListsIInv, ListsWaitInv, ListsClears, ListsBusyInv, ListsCause
<1> QED
  BY <1>7, <1>8, <1>9 DEF ListsIInv

\* An entry is to be deleted.
LEMMA ListsDeleteStep ==
    ASSUME ListsIInv, NEW ask, ask \in ListsAsks, ask.op = "delete", ask.batch = 0, Lists!Send(<<ask>>), ListsLike(ui'),
           ui'.submitting = ui.submitting, ui'.loading = ui.loading,
           ui'.deleting => ui.deleting \/ Lists!Is("locks"),
           \/ Lists!Is("modal") /\ ui'.busy = ui.busy
           \/ /\ ~Lists!Is("modal") /\ ask.id \notin ui.busy
              /\ ui'.busy = IF Lists!Is("one") THEN {ask.id} ELSE IF Lists!Is("each") THEN ui.busy \cup {ask.id} ELSE ui.busy
    PROVE  ListsIInv'
<1>1. net' = net \cup {NewRequest(sent, ask)} /\ sent' = sent + 1 /\ UNCHANGED server
  BY ListsAsks1
<1> DEFINE new == NewRequest(sent, ask)
<1>2. new.ask = ask /\ net' = net \cup {new}
  BY <1>1 DEF NewRequest
<1>3. ListsMayAsk(ask)
  BY DEF ListsMayAsk
<1>4. ListsTypeInv' /\ ListsFromInv'
  BY <1>1, <1>3, ListsNetStep DEF ListsLike
<1> HIDE DEF new
<1>5. ListsFormInv'
  BY <1>2, ListsSame DEF ListsLike, ListsIInv, ListsFormInv, ListsEntry
<1>6. ListsWaitInv'
  BY <1>2, ListsSame DEF ListsLike, ListsIInv, ListsWaitInv, ListsClears
<1>7. ListsBusyInv'
  <2>1. Lists!Is("each") => ~Lists!Is("one") /\ ~Lists!Is("modal")
    BY ListsPage, ListsFeatures
  <2>2. ~Lists!Is("one") /\ ~Lists!Is("each") => ui'.busy = {}
    BY DEF ListsIInv, ListsBusyInv
  <2>3. Lists!Is("one") /\ ui'.busy # {} => \E r \in net' : ListsCause(r)
    BY <1>2 DEF ListsIInv, ListsBusyInv, ListsCause
  <2>4. ASSUME Lists!Is("each")
        PROVE  /\ \A q, r \in net' : q # r /\ q.ask.op = "delete" /\ r.ask.op = "delete" => q.ask.id # r.ask.id
               /\ \A r \in net' : r.ask.op = "delete" => r.ask.id \in ui'.busy
               /\ \A i \in ui'.busy : \E r \in net' : r.ask.op = "delete" /\ r.ask.id = i
    <3>1. ui'.busy = ui.busy \cup {ask.id} /\ ask.id \notin ui.busy
      BY <2>1, <2>4
    <3>2. \A r \in net : r.ask.op = "delete" => r.ask.id \in ui.busy
      BY <2>4 DEF ListsIInv, ListsBusyInv
    <3> QED
      BY <1>2, <2>4, <3>1, <3>2 DEF ListsIInv, ListsBusyInv
  <2> QED
    BY <2>2, <2>3, <2>4, ListsSame DEF ListsLike, ListsBusyInv, ListsCause, ListsClears
<1> QED
  BY <1>4, <1>5, <1>6, <1>7 DEF ListsIInv

LEMMA ListsConfirmStep ==
    ASSUME ListsIInv, Lists!Confirm \/ \E i \in DOMAIN ui.list : Lists!DeleteNow(i)
    PROVE  ListsIInv'
<1>1. CASE Lists!Confirm
  <2> DEFINE ask == [op |-> "delete", id |-> ui.target, force |-> ui.force, batch |-> 0]
             locked == Lists!Is("locks")
  <2>1. ui' = [ui EXCEPT !.deleting = locked] /\ Lists!Send(<<ask>>) /\ ui.target # None
    BY <1>1 DEF Lists!Confirm, Lists!Ask, Lists!Delete
  <2>2. ui.target \in Int /\ ui.force \in BOOLEAN /\ Lists!Is("modal")
    BY <2>1, ListsPage DEF ListsApp, ListsMaybe, ListsIInv, ListsFromInv
  <2>3. ask \in ListsAsks /\ ask.op = "delete" /\ ask.batch = 0
    BY <2>2 DEF ListsAsks
  <2>4. locked \in BOOLEAN /\ (locked <=> Lists!Is("locks"))
    BY DEF Lists!Is
  <2> HIDE DEF ask, locked
  <2>5. /\ ListsLike(ui') /\ ui'.submitting = ui.submitting /\ ui'.deleting = locked /\ ui'.busy = ui.busy
        /\ ui'.loading = ui.loading
    BY <2>1, <2>4, ListsNow DEF ListsLike, ListsApp
  <2> QED
    BY <2>1, <2>2, <2>3, <2>4, <2>5, ListsDeleteStep
<1>2. ASSUME NEW i \in DOMAIN ui.list, Lists!DeleteNow(i)
      PROVE  ListsIInv'
  <2> DEFINE ask == [op |-> "delete", id |-> i, force |-> TRUE, batch |-> 0]
  <2>1. ui' = Lists!Started1(i) /\ Lists!Send(<<ask>>) /\ ~Lists!Is("modal") /\ i \notin ui.busy
    BY <1>2 DEF Lists!DeleteNow, Lists!Ask, Lists!Delete, Lists!Enabled
  <2>2. ask \in ListsAsks /\ ask.op = "delete" /\ ask.batch = 0 /\ ask.id = i
    BY ListsRowIds DEF ListsAsks
  <2> HIDE DEF ask
  <2>3. LET s == Lists!Started1(i)
        IN  /\ ListsLike(s) /\ s.submitting = ui.submitting /\ s.deleting = ui.deleting /\ s.loading = ui.loading
            /\ s.busy = IF Lists!Is("one") THEN {i} ELSE IF Lists!Is("each") THEN ui.busy \cup {i} ELSE ui.busy
    BY ListsRowIds, ListsMarked
  <2> QED
    BY <2>1, <2>2, <2>3, ListsDeleteStep
<1> QED
  BY <1>1, <1>2

\* A selection is to be deleted: one request for each of its entries.
LEMMA ListsSelectedStep == ASSUME ListsIInv, Lists!DeleteSelected PROVE ListsIInv'
<1> DEFINE n == Lists!Cardinality(ui.selected)
           seq == Lists!SetToSeq(ui.selected)
           asks == [k \in 1 .. n |-> Lists!Delete(seq[k], TRUE, sent + 1)]
<1>1. ui' = ui /\ Lists!Send(asks) /\ Lists!Is("bulk")
  BY DEF Lists!DeleteSelected
<1>2. n = Cardinality(ui.selected) /\ n \in Nat
  <2>1. n = Cardinality(ui.selected)
    BY DEF Lists!Cardinality, Cardinality
  <2> QED
    BY <2>1, ListsPage, FS_CardinalityType
<1>3. seq \in [1 .. n -> ui.selected]
  <2>1. ExistsBijection(1 .. Cardinality(ui.selected), ui.selected)
    BY ListsPage, FS_CardinalityType
  <2>2. PICK f \in [1 .. n -> ui.selected] : \A a, b \in 1 .. n : f[a] = f[b] => a = b
    BY <1>2, <2>1 DEF ExistsBijection, Bijection, Injection, IsInjective
  <2>3. \E g \in [1 .. n -> ui.selected] : Lists!IsInjective(g)
    BY <2>2 DEF Lists!IsInjective
  <2> QED
    BY <2>3 DEF Lists!SetToSeq
<1>4. ui.selected \subseteq Int
  BY ListsPage DEF ListsApp
<1> HIDE DEF seq
<1>5. \A k \in 1 .. n : asks[k] = [op |-> "delete", id |-> seq[k], force |-> TRUE, batch |-> sent + 1]
  BY DEF Lists!Delete
<1>6. \A k \in 1 .. n : asks[k] \in ListsAsks /\ asks[k].op = "delete" /\ asks[k].batch # 0
  <2> TAKE k \in 1 .. n
  <2> DEFINE id == seq[k]
             batch == sent + 1
  <2>1. id \in Int /\ batch \in Int /\ batch # 0
    BY <1>3, <1>4, ListsPage
  <2>2. asks[k] = [op |-> "delete", id |-> id, force |-> TRUE, batch |-> batch]
    BY <1>5
  <2> HIDE DEF id, batch, asks
  <2> QED
    BY <2>1, <2>2 DEF ListsAsks
<1>7. DOMAIN asks = 1 .. n /\ Len(asks) = n
  <2>1. asks \in [1 .. n -> ListsAsks]
    BY <1>6
  <2> HIDE DEF asks, n
  <2>2. asks \in Seq(ListsAsks)
    BY <1>2, <2>1
  <2> QED
    BY <1>2, <2>1, <2>2
<1> HIDE DEF asks, n
<1>8. net' = net \cup {Lists!Request(sent + k, asks[k]) : k \in 1 .. n} /\ sent' = sent + n /\ UNCHANGED server
  BY <1>1, <1>7 DEF Lists!Send, Lists!Requests
<1>9. \A r \in net' : \/ r \in net
                      \/ /\ r \in ListsSent /\ r.got = Waiting /\ r.ask.op = "delete" /\ r.ask.batch # 0
  <2> SUFFICES ASSUME NEW k \in 1 .. n
               PROVE  LET r == Lists!Request(sent + k, asks[k])
                      IN  r \in ListsSent /\ r.got = Waiting /\ r.ask.op = "delete" /\ r.ask.batch # 0
    BY <1>8
  <2>1. sent + k \in Int
    BY <1>2, ListsPage
  <2> QED
    BY <1>6, <2>1 DEF Lists!Request, ListsSent, ListsGots
<1>10. ~Lists!Is("one") /\ ~Lists!Is("each")
  BY <1>1, ListsPage, ListsFeatures
<1>11. ListsTypeInv'
  BY <1>1, <1>2, <1>8, <1>9, ListsPage DEF ListsIInv, ListsTypeInv
<1>12. \A r \in net' : ListsMayAsk(r.ask) /\ (r.ask.op = "delete" /\ r.got = "not empty" => ui.page = "collections")
  BY <1>1, <1>9, RepliesApart DEF ListsIInv, ListsFromInv, ListsMayAsk
<1>13. ListsFromInv'
  BY <1>1, <1>12, ListsSame DEF ListsIInv, ListsFromInv, ListsMayAsk
<1>14. net \subseteq net'
  BY <1>8
<1>15. ListsFormInv'
  BY <1>1, <1>9, <1>14, ListsSame DEF ListsIInv, ListsFormInv, ListsEntry
<1>16. ListsWaitInv' /\ ListsBusyInv'
  BY <1>1, <1>9, <1>10, <1>14, ListsSame DEF ListsIInv, ListsWaitInv, ListsClears, ListsBusyInv
<1> QED
  BY <1>11, <1>13, <1>15, <1>16 DEF ListsIInv
-----------------------------------------------------------------------------
\* The answers.
LEMMA ListsAnswered ==
    ASSUME ListsIInv, NEW r, r \in net
    PROVE  /\ Lists!Done(r) => net' = net \ {r} /\ UNCHANGED <<sent, server>>
           /\ \A clears : Lists!Go(r, Lists!List(clears)) =>
                /\ net' = (net \ {r}) \cup {NewRequest(sent, [op |-> "list", clears |-> clears])}
                /\ sent' = sent + 1 /\ UNCHANGED server
<1>1. Lists!Done(r) => net' = net \ {r} /\ UNCHANGED <<sent, server>>
  BY ListsPage, ListsEnds
<1> QED
  BY <1>1, ListsAsks1 DEF Lists!List

\* A list comes; if it is the one that clears, no entry is busy any more.
LEMMA ListsFetchedStep == ASSUME ListsIInv, NEW r \in net, Lists!ListFetched(r) PROVE ListsIInv'
<1> DEFINE none == {}
           state == [IF r.ask.clears THEN Lists!Rested(ui) ELSE ui EXCEPT !.loading = FALSE]
<1>1. /\ r.ask.op = "list" /\ r.got # Waiting
      /\ \/ r.got = Failed /\ ui' = [state EXCEPT !.error = TRUE]
         \/ r.got # Failed /\ ui' = [state EXCEPT !.list = r.got]
      /\ net' = net \ {r} /\ UNCHANGED <<sent, server>>
  BY ListsAnswered DEF Lists!ListFetched, Lists!Came
<1>2. r.ask.clears \in BOOLEAN
  <2>1. r.ask \in ListsAsks
    BY ListsPage DEF ListsSent
  <2> QED
    BY <1>1, <2>1 DEF ListsAsks
<1>3. LET s == Lists!Rested(ui)
      IN  ListsLike(s) /\ s.submitting = ui.submitting /\ s.deleting = FALSE /\ s.busy = none /\ s.loading = ui.loading
  <2>1. none \in SUBSET Int /\ Lists!Rested(ui) = [ui EXCEPT !.busy = none, !.deleting = FALSE]
    BY DEF Lists!Rested
  <2> HIDE DEF none
  <2> QED
    BY <2>1, ListsNow DEF ListsLike, ListsApp
<1>4. /\ ListsLike(state) /\ state.submitting = ui.submitting /\ state.loading = FALSE
      /\ IF r.ask.clears THEN state.deleting = FALSE /\ state.busy = none
         ELSE state.deleting = ui.deleting /\ state.busy = ui.busy
  <2> HIDE DEF none
  <2>1. CASE r.ask.clears
    <3>1. state = [Lists!Rested(ui) EXCEPT !.loading = FALSE]
      BY <2>1
    <3> HIDE DEF state
    <3> QED
      BY <1>3, <2>1, <3>1 DEF ListsLike, ListsApp
  <2>2. CASE ~r.ask.clears
    <3>1. state = [ui EXCEPT !.loading = FALSE]
      BY <2>2
    <3> HIDE DEF state
    <3> QED
      BY <2>2, <3>1, ListsNow DEF ListsLike, ListsApp
  <2> QED
    BY <1>2, <2>1, <2>2
<1>5. r.got # Failed => r.got \in ListsItems
  BY <1>1 DEF ListsIInv, ListsTypeInv
<1> HIDE DEF state
<1>6. /\ ListsLike(ui') /\ ui'.submitting = state.submitting /\ ui'.deleting = state.deleting /\ ui'.busy = state.busy
      /\ ui'.loading = state.loading
  BY <1>1, <1>4, <1>5 DEF ListsLike, ListsApp
<1>7. ListsTypeInv' /\ ListsFromInv'
  BY <1>1, <1>6, ListsNetStep DEF ListsLike
<1>8. ListsFormInv'
  BY <1>1, <1>4, <1>6, ListsSame DEF ListsLike, ListsIInv, ListsFormInv, ListsEntry
<1>9. ListsWaitInv'
  BY <1>1, <1>4, <1>6, ListsSame DEF ListsLike, ListsIInv, ListsWaitInv, ListsClears
<1>10. ListsBusyInv'
  <2>1. r.ask.clears => ~Lists!Is("each")
    BY <1>1, ListsPage, ListsFeatures DEF ListsIInv, ListsFromInv, ListsMayAsk
  <2> QED
    BY <1>1, <1>4, <1>6, <2>1, ListsSame DEF ListsLike, ListsIInv, ListsBusyInv, ListsCause, ListsClears
<1> QED
  BY <1>7, <1>8, <1>9, <1>10 DEF ListsIInv

\* A write has gone through.  The list is fetched; the entry is no longer busy, or
\* will not be once the list has come.
LEMMA ListsWroteStep ==
    ASSUME ListsIInv, NEW r \in net, r.ask.op \in {"delete", "toggle"}, ~Lists!Is("each"),
           NEW s, ListsLike(s), s.submitting = ui.submitting, s.deleting = ui.deleting, s.busy = ui.busy, s.loading = ui.loading,
           ui' = Lists!Loading(IF Lists!Is("waits") THEN s ELSE [s EXCEPT !.busy = Lists!Ended(r.ask.id).busy]),
           Lists!Go(r, Lists!List(Lists!Is("waits")))
    PROVE  ListsIInv'
<1> DEFINE clears == Lists!Is("waits")
           ask == [op |-> "list", clears |-> clears]
           none == {}
           t == IF clears THEN s ELSE [s EXCEPT !.busy = Lists!Ended(r.ask.id).busy]
<1>1. net' = (net \ {r}) \cup {NewRequest(sent, ask)} /\ sent' = sent + 1 /\ UNCHANGED server
  BY ListsAnswered
<1>2. Lists!Ended(r.ask.id).busy = none
  <2>1. Lists!Ended(r.ask.id) = [ui EXCEPT !.busy = none]
    BY DEF Lists!Ended
  <2> HIDE DEF none
  <2> QED
    BY <2>1, ListsPage DEF ListsApp
<1>3. clears \in BOOLEAN /\ ui' = Lists!Loading(t) /\ none \in SUBSET Int
  BY DEF Lists!Is
<1>4. ask \in ListsAsks /\ ListsMayAsk(ask) /\ ask.op = "list" /\ ask.clears = clears
  BY <1>3 DEF ListsAsks, ListsMayAsk
<1>5. /\ ListsLike(t) /\ t.submitting = ui.submitting /\ t.deleting = ui.deleting
      /\ t.busy = IF clears THEN ui.busy ELSE none
  <2>1. CASE clears
    BY <2>1
  <2>2. CASE ~clears
    <3>1. t = [s EXCEPT !.busy = none]
      BY <1>2, <2>2
    <3> HIDE DEF t, none, clears
    <3> QED
      BY <1>3, <2>2, <3>1 DEF ListsLike, ListsApp
  <2> QED
    BY <2>1, <2>2
<1> HIDE DEF t
<1>6. ListsLike(ui') /\ ui'.submitting = ui.submitting /\ ui'.deleting = ui.deleting /\ ui'.busy = t.busy
  BY <1>3, <1>5, ListsLoading
<1> DEFINE new == NewRequest(sent, ask)
<1>7. new.ask.op = "list" /\ new.ask.clears = clears /\ net' = (net \ {r}) \cup {new}
  BY <1>1, <1>4 DEF NewRequest
<1>8. ListsTypeInv' /\ ListsFromInv'
  BY <1>1, <1>4, <1>6, ListsNetStep DEF ListsLike
<1> HIDE DEF new, ask
<1>9. ListsFormInv'
  BY <1>6, <1>7, ListsSame DEF ListsLike, ListsIInv, ListsFormInv, ListsEntry
<1>10. ListsWaitInv'
  <2>1. Lists!Is("locks") => clears
    BY ListsPage, ListsFeatures
  <2>2. ui.deleting => Lists!Is("locks")
    BY DEF ListsIInv, ListsWaitInv
  <2>3. ui'.deleting => Lists!Is("locks") /\ ListsClears(new) /\ new \in net'
    BY <1>6, <1>7, <2>1, <2>2 DEF ListsClears
  <2>4. new.ask.op = "list" /\ new \in net'
    BY <1>7
  <2> QED
    BY <1>6, <2>3, <2>4, ListsSame DEF ListsLike, ListsWaitInv, ListsClears
<1>11. ListsBusyInv'
  <2>1. clears => ListsClears(new) /\ new \in net'
    BY <1>7 DEF ListsClears
  <2>2. ~Lists!Is("one") => ui'.busy = {}
    BY <1>5, <1>6 DEF ListsIInv, ListsBusyInv
  <2>3. ~clears => ui'.busy = {}
    BY <1>5, <1>6
  <2> QED
    BY <1>6, <2>1, <2>2, <2>3, ListsSame DEF ListsLike, ListsBusyInv, ListsCause, ListsClears
<1> QED
  BY <1>8, <1>9, <1>10, <1>11 DEF ListsIInv

\* A request has ended that leaves no entry busy.
LEMMA ListsRestStep ==
    ASSUME ListsIInv, NEW r \in net, r.ask.op \notin {"create", "list"}, net' = net \ {r}, UNCHANGED <<sent, server>>,
           ListsLike(ui'), ui'.submitting = ui.submitting, ui'.loading = ui.loading,
           \/ ui'.deleting = FALSE
           \/ ui'.deleting = ui.deleting /\ r.ask.op # "delete",
           \/ Lists!Is("each") /\ r.ask.op = "delete" /\ ui'.busy = ui.busy \ {r.ask.id}
           \/ ~Lists!Is("each") /\ ui'.busy = {}
           \/ ~Lists!Is("each") /\ ui'.busy = ui.busy /\ ~ListsCause(r)
           \/ Lists!Is("each") /\ ui'.busy = ui.busy /\ r.ask.op # "delete"
    PROVE  ListsIInv'
<1>1. ListsTypeInv' /\ ListsFromInv'
  BY ListsNetStep DEF ListsLike
<1>2. ListsFormInv'
  BY ListsSame DEF ListsLike, ListsIInv, ListsFormInv, ListsEntry
<1>3. ListsWaitInv'
  BY ListsSame DEF ListsLike, ListsIInv, ListsWaitInv, ListsClears
<1>4. ListsBusyInv'
  <2>1. Lists!Is("each") => ~Lists!Is("one")
    BY ListsPage, ListsFeatures
  <2>2. CASE Lists!Is("each") /\ r.ask.op = "delete" /\ ui'.busy = ui.busy \ {r.ask.id}
    <3>1. /\ \A p, q \in net' : p # q /\ p.ask.op = "delete" /\ q.ask.op = "delete" => p.ask.id # q.ask.id
          /\ \A q \in net' : q.ask.op = "delete" => q.ask.id \in ui'.busy
          /\ \A i \in ui'.busy : \E q \in net' : q.ask.op = "delete" /\ q.ask.id = i
      BY <2>2 DEF ListsIInv, ListsBusyInv
    <3> QED
      BY <2>1, <2>2, <3>1, ListsSame DEF ListsLike, ListsBusyInv
  <2>3. CASE ~(Lists!Is("each") /\ r.ask.op = "delete" /\ ui'.busy = ui.busy \ {r.ask.id})
    BY <2>1, <2>3, ListsSame DEF ListsLike, ListsIInv, ListsBusyInv, ListsCause, ListsClears
  <2> QED
    BY <2>2, <2>3
<1> QED
  BY <1>1, <1>2, <1>3, <1>4 DEF ListsIInv

LEMMA ListsToggledStep ==
    ASSUME ListsIInv, NEW r \in net, Lists!Toggled(r) \/ Lists!Tested(r) \/ Lists!ChunksFetched(r)
    PROVE  ListsIInv'
<1>1. r.ask.op \in {"toggle", "test", "chunks"} => r.ask.id \in Int
  <2>1. r.ask \in ListsAsks
    BY ListsPage DEF ListsSent
  <2> QED
    BY <2>1 DEF ListsAsks
<1>2. r.ask.op \in {"toggle", "test"} => ~Lists!Is("each")
  BY ListsPage, ListsFeatures DEF ListsIInv, ListsFromInv, ListsMayAsk
<1>3. ASSUME r.ask.op \in {"toggle", "test"}, ui' = Lists!Ended(r.ask.id), Lists!Done(r)
      PROVE  ListsIInv'
  <2>1. /\ ListsLike(ui') /\ ui'.submitting = ui.submitting /\ ui'.deleting = ui.deleting /\ ui'.loading = ui.loading
        /\ ui'.busy = {}
    BY <1>1, <1>2, <1>3, ListsMarked
  <2>2. net' = net \ {r} /\ UNCHANGED <<sent, server>>
    BY <1>3, ListsAnswered
  <2> QED
    BY <1>2, <1>3, <2>1, <2>2, ListsRestStep
<1>4. CASE Lists!Toggled(r)
  <2>1. /\ r.ask.op = "toggle"
        /\ \/ /\ ui' = Lists!Loading(IF Lists!Is("waits") THEN ui ELSE [ui EXCEPT !.busy = Lists!Ended(r.ask.id).busy])
              /\ Lists!Go(r, Lists!List(Lists!Is("waits")))
           \/ ui' = Lists!Ended(r.ask.id) /\ Lists!Done(r)
    BY <1>4 DEF Lists!Toggled, Lists!Wrote, Lists!Answer, Lists!Came
  <2> QED
    BY <1>2, <1>3, <2>1, ListsNow, ListsWroteStep
<1>5. CASE Lists!Tested(r)
  <2>1. r.ask.op = "test" /\ ui' = Lists!Ended(r.ask.id) /\ Lists!Done(r)
    BY <1>5 DEF Lists!Tested, Lists!Answer, Lists!Came, Lists!Done
  <2> QED
    BY <1>3, <2>1
<1>6. CASE Lists!ChunksFetched(r)
  <2> DEFINE chunks == IF r.got = Failed THEN None ELSE r.ask.id
             crossed == r.got = Failed \/ r.ask.id # ui.preview
  <2>1. r.ask.op = "chunks" /\ ui' = [ui EXCEPT !.chunks = chunks, !.crossed = crossed] /\ Lists!Done(r)
    BY <1>6 DEF Lists!ChunksFetched, Lists!Came
  <2>2. chunks \in ListsMaybe /\ crossed \in BOOLEAN
    BY <1>1, <2>1 DEF ListsMaybe
  <2> HIDE DEF chunks, crossed
  <2>3. /\ ListsLike(ui') /\ ui'.submitting = ui.submitting /\ ui'.deleting = ui.deleting /\ ui'.busy = ui.busy
        /\ ui'.loading = ui.loading
    BY <2>1, <2>2, ListsNow DEF ListsLike, ListsApp
  <2>4. net' = net \ {r} /\ UNCHANGED <<sent, server>>
    BY <2>1, ListsAnswered
  <2>5. ~ListsCause(r)
    BY <2>1 DEF ListsCause, ListsClears
  <2> QED
    BY <2>1, <2>3, <2>4, <2>5, ListsRestStep
<1> QED
  BY <1>4, <1>5, <1>6

\* A deletion has ended.
LEMMA ListsDeletedStep == ASSUME ListsIInv, NEW r \in net, Lists!Deleted(r) PROVE ListsIInv'
<1>1. r.ask.op = "delete" /\ r.ask.batch = 0 /\ r.got # Waiting
  BY DEF Lists!Deleted, Lists!Came
<1>2. r.ask.id \in Int
  <2>1. r.ask \in ListsAsks
    BY ListsPage DEF ListsSent
  <2> QED
    BY <1>1, <2>1 DEF ListsAsks
<1> DEFINE ended == Lists!Ended(r.ask.id)
<1>3. /\ ListsLike(ended) /\ ended.submitting = ui.submitting /\ ended.deleting = ui.deleting /\ ended.loading = ui.loading
      /\ ended.list = ui.list /\ ended.busy = IF Lists!Is("each") THEN ui.busy \ {r.ask.id} ELSE {}
  BY <1>2, ListsMarked
<1>4. Lists!Done(r) => net' = net \ {r} /\ UNCHANGED <<sent, server>>
  BY ListsAnswered
<1>5. CASE r.got = "not empty"
  <2>1. ui' = [ui EXCEPT !.target = r.ask.id, !.force = TRUE] /\ Lists!Done(r)
    BY <1>5 DEF Lists!Deleted
  <2>2. ui.page = "collections"
    BY <1>1, <1>5 DEF ListsIInv, ListsFromInv
  <2>3. Lists!Is("modal") /\ ~Lists!Is("locks") /\ ~Lists!Is("each")
    BY <2>2, ListsPage, ListsFeatures
  <2>4. /\ ListsLike(ui') /\ ui'.submitting = ui.submitting /\ ui'.deleting = ui.deleting /\ ui'.busy = ui.busy
        /\ ui'.loading = ui.loading
    BY <1>2, <2>1, <2>3, ListsNow DEF ListsLike, ListsApp, ListsMaybe
  <2>5. ui'.deleting = FALSE
    BY <2>3, <2>4, ListsPage DEF ListsApp, ListsIInv, ListsWaitInv
  <2>6. ~ListsCause(r)
    BY <1>1, <2>3 DEF ListsCause, ListsClears
  <2> QED
    BY <1>1, <1>4, <2>1, <2>3, <2>4, <2>5, <2>6, ListsRestStep
<1>6. CASE r.got # "not empty" /\ r.got = Failed
  <2>1. ui' = [IF Lists!Is("keeps") THEN ui ELSE Lists!NoTarget(ended) EXCEPT !.deleting = FALSE] /\ Lists!Done(r)
    BY <1>6 DEF Lists!Deleted
  <2>2. CASE Lists!Is("keeps")
    <3>1. ui' = [ui EXCEPT !.deleting = FALSE]
      BY <2>1, <2>2
    <3>2. /\ ListsLike(ui') /\ ui'.submitting = ui.submitting /\ ui'.deleting = FALSE /\ ui'.busy = ui.busy
          /\ ui'.loading = ui.loading
      BY <3>1, ListsNow DEF ListsLike, ListsApp
    <3>3. Lists!Is("modal") /\ ~Lists!Is("each")
      BY <2>2, ListsPage, ListsFeatures
    <3>4. ~ListsCause(r)
      BY <1>1, <3>3 DEF ListsCause, ListsClears
    <3> QED
      BY <1>1, <1>4, <2>1, <3>2, <3>3, <3>4, ListsRestStep
  <2>3. CASE ~Lists!Is("keeps")
    <3>1. ui' = [Lists!NoTarget(ended) EXCEPT !.deleting = FALSE]
      BY <2>1, <2>3
    <3> HIDE DEF ended
    <3>2. LET l == Lists!NoTarget(ended)
          IN  ListsLike(l) /\ l.submitting = ui.submitting /\ l.busy = ended.busy /\ l.loading = ui.loading
      BY <1>3, ListsForgotten
    <3>3. /\ ListsLike(ui') /\ ui'.submitting = ui.submitting /\ ui'.deleting = FALSE /\ ui'.busy = ended.busy
          /\ ui'.loading = ui.loading
      BY <3>1, <3>2 DEF ListsLike, ListsApp
    <3> QED
      BY <1>1, <1>3, <1>4, <2>1, <3>3, ListsRestStep
  <2> QED
    BY <2>2, <2>3
<1>7. CASE r.got # "not empty" /\ r.got # Failed /\ Lists!Is("drops")
  <2> DEFINE list == DropFrom(ended.list, r.ask.id)
  <2>1. ui' = [ended EXCEPT !.list = list] /\ Lists!Done(r)
    BY <1>7 DEF Lists!Deleted, Lists!Drop, DropFrom
  <2>2. list \in ListsItems
    <3>1. ended.list \in ListsItems
      BY <1>3, ListsPage DEF ListsApp
    <3> QED
      BY <3>1, DropFacts DEF ListsItems
  <2>3. Lists!Is("each") /\ ~Lists!Is("locks")
    BY <1>7, ListsPage, ListsFeatures
  <2> HIDE DEF ended, list
  <2>4. /\ ListsLike(ui') /\ ui'.submitting = ui.submitting /\ ui'.deleting = ui.deleting /\ ui'.busy = ended.busy
        /\ ui'.loading = ui.loading
    BY <1>3, <2>1, <2>2 DEF ListsLike, ListsApp
  <2>5. ui'.deleting = FALSE
    BY <2>3, <2>4, ListsPage DEF ListsApp, ListsIInv, ListsWaitInv
  <2> QED
    BY <1>1, <1>3, <1>4, <2>1, <2>3, <2>4, <2>5, ListsRestStep
<1>8. CASE r.got # "not empty" /\ r.got # Failed /\ ~Lists!Is("drops")
  <2> DEFINE s == Lists!NoTarget(ui)
  <2>1. /\ ui' = Lists!Loading(IF Lists!Is("waits") THEN s ELSE [s EXCEPT !.busy = Lists!Ended(r.ask.id).busy])
        /\ Lists!Go(r, Lists!List(Lists!Is("waits")))
    BY <1>8 DEF Lists!Deleted, Lists!Wrote, Lists!Answer
  <2>2. ~Lists!Is("each")
    BY <1>8, ListsPage, ListsFeatures
  <2>3. ListsLike(s) /\ s.submitting = ui.submitting /\ s.deleting = ui.deleting /\ s.busy = ui.busy /\ s.loading = ui.loading
    BY ListsNow, ListsForgotten
  <2> HIDE DEF s
  <2> QED
    BY <1>1, <2>1, <2>2, <2>3, ListsWroteStep
<1> QED
  BY <1>5, <1>6, <1>7, <1>8

\* One of a selection was deleted, or was not.
LEMMA ListsBulkStep == ASSUME ListsIInv, NEW r \in net, Lists!BulkDeleted(r) PROVE ListsIInv'
<1> DEFINE failed == ui.failed \cup {r.ask.batch}
           none == {}
           rested == [ui EXCEPT !.selected = none]
           clears == FALSE
           ask == [op |-> "list", clears |-> clears]
<1>1. /\ r.ask.op = "delete" /\ r.ask.batch # 0
      /\ \/ ui' = [ui EXCEPT !.failed = failed, !.partial = TRUE] /\ Lists!Done(r)
         \/ ui' = Lists!Loading(rested) /\ Lists!Go(r, Lists!List(clears))
         \/ ui' = ui /\ Lists!Done(r)
  BY DEF Lists!BulkDeleted, Lists!Came
<1>2. r.ask.batch \in Int
  <2>1. r.ask \in ListsAsks
    BY ListsPage DEF ListsSent
  <2> QED
    BY <1>1, <2>1 DEF ListsAsks
<1>3. Lists!Is("bulk")
  BY <1>1 DEF ListsIInv, ListsFromInv, ListsMayAsk
<1>4. ~Lists!Is("one") /\ ~Lists!Is("each") /\ ~Lists!Is("locks")
  BY <1>3, ListsPage, ListsFeatures
<1>5. ui.busy = {} /\ ui.deleting = FALSE
  BY <1>4, ListsPage DEF ListsApp, ListsIInv, ListsBusyInv, ListsWaitInv
<1>6. Lists!Done(r) => net' = net \ {r} /\ UNCHANGED <<sent, server>>
  BY ListsAnswered
<1>7. failed \in SUBSET Int /\ none \in SUBSET Int /\ IsFiniteSet(none) /\ clears \in BOOLEAN
  <2>1. ui.failed \in SUBSET Int
    BY ListsPage DEF ListsApp
  <2> QED
    BY <1>2, <2>1, FS_EmptySet
<1> HIDE DEF failed, none
<1>8. CASE ui' = [ui EXCEPT !.failed = failed, !.partial = TRUE] /\ Lists!Done(r)
  <2>1. /\ ListsLike(ui') /\ ui'.submitting = ui.submitting /\ ui'.deleting = ui.deleting /\ ui'.busy = ui.busy
        /\ ui'.loading = ui.loading
    BY <1>7, <1>8, ListsNow DEF ListsLike, ListsApp
  <2> QED
    BY <1>1, <1>4, <1>5, <1>6, <1>8, <2>1, ListsRestStep
<1>9. CASE ui' = ui /\ Lists!Done(r)
  BY <1>1, <1>4, <1>5, <1>6, <1>9, ListsNow, ListsRestStep
<1>10. CASE ui' = Lists!Loading(rested) /\ Lists!Go(r, Lists!List(clears))
  <2>1. /\ ListsLike(rested) /\ rested.submitting = ui.submitting /\ rested.deleting = ui.deleting /\ rested.busy = ui.busy
    BY <1>7, ListsNow DEF ListsLike, ListsApp
  <2> HIDE DEF rested
  <2>2. ListsLike(ui') /\ ui'.submitting = ui.submitting /\ ui'.deleting = ui.deleting /\ ui'.busy = ui.busy
    BY <1>10, <2>1, ListsLoading
  <2>3. net' = (net \ {r}) \cup {NewRequest(sent, ask)} /\ sent' = sent + 1 /\ UNCHANGED server
    BY <1>10, ListsAnswered
  <2>4. ask \in ListsAsks /\ ListsMayAsk(ask) /\ ask.op = "list"
    BY <1>7 DEF ListsAsks, ListsMayAsk
  <2> HIDE DEF ask
  <2>5. NewRequest(sent, ask).ask = ask
    BY DEF NewRequest
  <2>6. ListsTypeInv' /\ ListsFromInv'
    BY <2>2, <2>3, <2>4, ListsNetStep DEF ListsLike
  <2>7. ListsFormInv'
    BY <1>1, <2>2, <2>3, <2>4, <2>5, ListsSame DEF ListsLike, ListsIInv, ListsFormInv, ListsEntry
  <2>8. ListsWaitInv' /\ ListsBusyInv'
    BY <1>4, <1>5, <2>2, <2>3, <2>4, <2>5, ListsSame DEF ListsLike, ListsWaitInv, ListsBusyInv
  <2> QED
    BY <2>6, <2>7, <2>8 DEF ListsIInv
<1> QED
  BY <1>1, <1>8, <1>9, <1>10

\* An entry was created, or was not.
LEMMA ListsCreatedStep == ASSUME ListsIInv, NEW r \in net, r.ask.op = "create", Lists!Created(r) PROVE ListsIInv'
<1> DEFINE open == Lists!Is("stays") /\ ui.open
           after == [ui EXCEPT !.submitting = FALSE, !.open = open]
           clears == FALSE
           ask == [op |-> "list", clears |-> clears]
<1>1. \/ r.ask.tried /\ ui' \in {[ui EXCEPT !.partial = TRUE], ui} /\ Lists!Done(r)
      \/ /\ ~r.ask.tried /\ Lists!Done(r)
         /\ ui' \in {[after EXCEPT !.left = TRUE], [ui EXCEPT !.submitting = FALSE]}
      \/ ~r.ask.tried /\ ui' = Lists!Loading(after) /\ Lists!Go(r, Lists!List(clears))
  <2>1. after = [ui EXCEPT !.submitting = FALSE, !.open = Lists!Is("stays") /\ @]
    OBVIOUS
  <2> QED
    BY <2>1 DEF Lists!Created, Lists!Answer, Lists!Done
<1>2. Lists!Done(r) => net' = net \ {r} /\ UNCHANGED <<sent, server>>
  BY ListsAnswered
<1>3. open \in BOOLEAN /\ clears \in BOOLEAN
  BY DEF Lists!Is
<1>4. ListsLike(after) /\ after.submitting = FALSE /\ after.deleting = ui.deleting /\ after.busy = ui.busy /\ after.loading = ui.loading
  <2> HIDE DEF open
  <2> QED
    BY <1>3, ListsNow DEF ListsLike, ListsApp
<1> HIDE DEF after
<1>5. CASE r.ask.tried /\ ui' \in {[ui EXCEPT !.partial = TRUE], ui} /\ Lists!Done(r)
  <2>1. /\ ListsLike(ui') /\ ui'.submitting = ui.submitting /\ ui'.deleting = ui.deleting /\ ui'.busy = ui.busy
        /\ ui'.loading = ui.loading
    BY <1>5, ListsNow DEF ListsLike, ListsApp
  <2>2. ListsTypeInv' /\ ListsFromInv'
    BY <1>2, <1>5, <2>1, ListsNetStep DEF ListsLike
  <2>3. ListsFormInv'
    BY <1>2, <1>5, <2>1, ListsSame DEF ListsLike, ListsIInv, ListsFormInv, ListsEntry
  <2>4. ListsWaitInv' /\ ListsBusyInv'
    BY <1>2, <1>5, <2>1, ListsSame DEF ListsLike, ListsIInv, ListsWaitInv, ListsClears, ListsBusyInv, ListsCause
  <2> QED
    BY <2>2, <2>3, <2>4 DEF ListsIInv
<1>6. CASE /\ ~r.ask.tried /\ Lists!Done(r)
           /\ ui' \in {[after EXCEPT !.left = TRUE], [ui EXCEPT !.submitting = FALSE]}
  <2>1. /\ ListsLike(ui') /\ ui'.submitting = FALSE /\ ui'.deleting = ui.deleting /\ ui'.busy = ui.busy
        /\ ui'.loading = ui.loading
    BY <1>4, <1>6, ListsNow DEF ListsLike, ListsApp
  <2>2. ListsTypeInv' /\ ListsFromInv'
    BY <1>2, <1>6, <2>1, ListsNetStep DEF ListsLike
  <2>3. ListsFormInv'
    BY <2>1 DEF ListsFormInv
  <2>4. ListsWaitInv' /\ ListsBusyInv'
    BY <1>2, <1>6, <2>1, ListsSame DEF ListsLike, ListsIInv, ListsWaitInv, ListsClears, ListsBusyInv, ListsCause
  <2> QED
    BY <2>2, <2>3, <2>4 DEF ListsIInv
<1>7. CASE ~r.ask.tried /\ ui' = Lists!Loading(after) /\ Lists!Go(r, Lists!List(clears))
  <2>1. ListsLike(ui') /\ ui'.submitting = FALSE /\ ui'.deleting = ui.deleting /\ ui'.busy = ui.busy
    BY <1>4, <1>7, ListsLoading
  <2>2. net' = (net \ {r}) \cup {NewRequest(sent, ask)} /\ sent' = sent + 1 /\ UNCHANGED server
    BY <1>7, ListsAnswered
  <2>3. ask \in ListsAsks /\ ListsMayAsk(ask) /\ ask.op = "list"
    BY <1>3 DEF ListsAsks, ListsMayAsk
  <2> HIDE DEF ask
  <2>4. NewRequest(sent, ask).ask = ask
    BY DEF NewRequest
  <2>5. ListsTypeInv' /\ ListsFromInv'
    BY <2>1, <2>2, <2>3, ListsNetStep DEF ListsLike
  <2>6. ListsFormInv'
    BY <2>1 DEF ListsFormInv
  <2>7. ListsWaitInv' /\ ListsBusyInv'
    BY <1>7, <2>1, <2>2, <2>3, <2>4, ListsSame
       DEF ListsLike, ListsIInv, ListsWaitInv, ListsClears, ListsBusyInv, ListsCause
  <2> QED
    BY <2>5, <2>6, <2>7 DEF ListsIInv
<1> QED
  BY <1>1, <1>5, <1>6, <1>7
-----------------------------------------------------------------------------
\* The gateway.
LEMMA ListsServeStep ==
    ASSUME ListsIInv, NEW r \in net, NEW got, got \in ListsGots, NEW held, ListsMoved(r, got, held), held \in ListsServer,
           r.ask.op = "list" /\ got \notin {Waiting, Failed} => got \in ListsItems,
           r.ask.op = "delete" /\ got = "not empty" => ui.page = "collections"
    PROVE  ListsIInv'
<1>1. net \subseteq ListsSent /\ sent \in Nat
  BY ListsPage
<1>2. \E new \in [net -> ListsSent] :
        /\ net' = {new[q] : q \in net}
        /\ \A q \in net : new[q].ask = q.ask /\ new[q].got = IF q = r THEN got ELSE q.got
  BY ONLY <1>1, got \in ListsGots, ListsMoved(r, got, held), ListsSettled
<1>3. PICK new \in [net -> ListsSent] :
        /\ net' = {new[q] : q \in net}
        /\ \A q \in net : new[q].ask = q.ask /\ new[q].got = IF q = r THEN got ELSE q.got
  BY <1>2
<1>4. server' = held /\ UNCHANGED ui /\ sent' \in Nat
  BY ONLY <1>1, got \in ListsGots, ListsMoved(r, got, held), ListsSettles
<1>5. \A q \in net : /\ new[q] \in net' /\ new[q] \in ListsSent /\ new[q].ask = q.ask
                     /\ new[q].got = IF q = r THEN got ELSE q.got
  BY ONLY <1>3, new \in [net -> ListsSent]
<1>6. \A p \in net' : \E q \in net : p = new[q]
  BY ONLY <1>3
<1>7. ListsTypeInv'
  <2>1. net' \subseteq ListsSent
    BY ONLY <1>5, <1>6
  <2>2. \A q \in net : new[q].ask.op = "list" /\ new[q].got \notin {Waiting, Failed} => new[q].got \in ListsItems
    BY <1>5 DEF ListsIInv, ListsTypeInv
  <2> QED
    BY <1>4, <1>6, <2>1, <2>2, ListsPage DEF ListsTypeInv
<1>8. ListsFromInv'
  <2>1. \A q \in net : /\ ListsMayAsk(new[q].ask)
                       /\ new[q].ask.op = "delete" /\ new[q].got = "not empty" => ui.page = "collections"
    BY <1>5 DEF ListsIInv, ListsFromInv
  <2>2. \A p \in net' : ListsMayAsk(p.ask) /\ (p.ask.op = "delete" /\ p.got = "not empty" => ui.page = "collections")
    BY ONLY <1>6, <2>1
  <2> QED
    BY <1>4, <2>2, ListsSame DEF ListsIInv, ListsFromInv, ListsMayAsk
<1>9. ListsFormInv'
  <2>1. \A q \in net : ListsEntry(new[q]) <=> ListsEntry(q)
    BY ONLY <1>5 DEF ListsEntry
  <2>2. ui.submitting => \E q \in net' : ListsEntry(q)
    BY <1>5, <2>1 DEF ListsIInv, ListsFormInv
  <2> QED
    BY <1>4, <2>2 DEF ListsFormInv, ListsEntry
<1>10. ListsWaitInv'
  <2>1. ui.loading => \E p \in net' : p.ask.op = "list"
    BY <1>5 DEF ListsIInv, ListsWaitInv
  <2>2. ui.deleting => Lists!Is("locks") /\ \E p \in net' : p.ask.op = "delete" \/ ListsClears(p)
    BY <1>5 DEF ListsIInv, ListsWaitInv, ListsClears
  <2> QED
    BY <1>4, <2>1, <2>2, ListsSame DEF ListsWaitInv, ListsClears
<1>11. ListsBusyInv'
  <2>1. \A q \in net : ListsCause(new[q]) <=> ListsCause(q)
    BY ONLY <1>5 DEF ListsCause, ListsClears
  <2>2. Lists!Is("one") /\ ui.busy # {} => \E p \in net' : ListsCause(p)
    BY <1>5, <2>1 DEF ListsIInv, ListsBusyInv
  <2>3. ASSUME Lists!Is("each")
        PROVE  /\ \A p, q \in net' : p # q /\ p.ask.op = "delete" /\ q.ask.op = "delete" => p.ask.id # q.ask.id
               /\ \A q \in net' : q.ask.op = "delete" => q.ask.id \in ui.busy
               /\ \A i \in ui.busy : \E q \in net' : q.ask.op = "delete" /\ q.ask.id = i
    <3>1. /\ \A p, q \in net : p # q /\ p.ask.op = "delete" /\ q.ask.op = "delete" => p.ask.id # q.ask.id
          /\ \A q \in net : q.ask.op = "delete" => q.ask.id \in ui.busy
          /\ \A i \in ui.busy : \E q \in net : q.ask.op = "delete" /\ q.ask.id = i
      BY <2>3 DEF ListsIInv, ListsBusyInv
    <3> QED
      BY ONLY <1>5, <1>6, <3>1
  <2>4. ~Lists!Is("one") /\ ~Lists!Is("each") => ui.busy = {}
    BY DEF ListsIInv, ListsBusyInv
  <2> QED
    BY <1>4, <2>2, <2>3, <2>4, ListsSame DEF ListsBusyInv, ListsCause, ListsClears
<1> QED
  BY <1>7, <1>8, <1>9, <1>10, <1>11 DEF ListsIInv

LEMMA ListsEffectFacts == ASSUME ListsIInv, NEW r \in net, ~Lists!Refused(r) PROVE Lists!Effect(r) \in ListsServer
<1> DEFINE effect == Lists!Effect(r)
<1>1. r.ask \in ListsAsks /\ r.id \in Int
  BY ListsPage DEF ListsSent
<1>2. server.items \in [DOMAIN server.items -> ListsStates] /\ DOMAIN server.items \subseteq Int
  BY ListsPage, MapFacts DEF ListsItems
<1>3. ASSUME NEW items \in ListsItems
      PROVE  [server EXCEPT !.items = items] \in ListsServer
  BY ListsPage DEF ListsServer
<1>4. CASE r.ask.op = "create"
  <2> DEFINE K == Int
             k == r.ask.name
             v == Lists!New
             f == server.items
  <2>1. f \in Maps(K, ListsStates) /\ k \in K /\ v \in ListsStates
    BY <1>1, <1>4, ListsPage DEF ListsAsks, ListsItems, ListsStates, Lists!New
  <2>2. effect = [server EXCEPT !.items = PutIn(f, k, v)]
    BY <1>4 DEF Lists!Effect, Lists!Purges, Lists!Put, PutIn
  <2> HIDE DEF K, k, v, f, effect
  <2>3. PutIn(f, k, v) \in Maps(K, ListsStates)
    BY <2>1, PutFacts
  <2>4. PutIn(f, k, v) \in ListsItems
    BY <2>3 DEF ListsItems, K
  <2> QED
    BY <1>3, <2>2, <2>4 DEF effect
<1>5. CASE (r.ask.op = "delete" /\ ~Lists!NotEmpty(r)) \/ Lists!Purges(r)
  <2>1. effect = [server EXCEPT !.items = DropFrom(server.items, r.ask.id)]
    BY <1>5 DEF Lists!Effect, Lists!Drop, Lists!Purges, DropFrom
  <2>2. DropFrom(server.items, r.ask.id) \in ListsItems
    BY ListsPage, DropFacts DEF ListsItems
  <2> QED
    BY <1>3, <2>1, <2>2
<1>6. CASE r.ask.op = "toggle" /\ ~Lists!Purges(r)
  <2> DEFINE items == [server.items EXCEPT ![r.ask.id] = Lists!Flip(r.ask.from)]
  <2>1. effect = [server EXCEPT !.items = items]
    BY <1>6 DEF Lists!Effect
  <2>2. Lists!Flip(r.ask.from) \in ListsStates
    BY DEF Lists!Flip, ListsStates
  <2>3. items \in [DOMAIN server.items -> ListsStates]
    BY <1>2, <2>2
  <2>4. items \in ListsItems
    BY <1>2, <2>3, MapIs DEF ListsItems
  <2> HIDE DEF items
  <2> QED
    BY <1>3, <2>1, <2>4
<1>7. CASE r.ask.op \notin {"create", "toggle"} /\ ~((r.ask.op = "delete" /\ ~Lists!NotEmpty(r)) \/ Lists!Purges(r))
  <2>1. effect = server
    BY <1>7 DEF Lists!Effect
  <2> QED
    BY <2>1, ListsPage
<1> QED
  BY <1>4, <1>5, <1>6, <1>7

LEMMA ListsServes ==
    ASSUME ListsIInv, Lists!Serve(Lists!Refused, Lists!Effect, Lists!Reply) \/ Lists!RepeatOne(Lists!SentByRequest, Lists!Refused, Lists!Effect, Lists!Same)
    PROVE  ListsIInv'
<1>1. PICK r \in net :
        \/ ListsMoved(r, Failed, server)
        \/ ~Lists!Refused(r) /\ \E got \in {Waiting, Failed, Lists!Reply(r)} : ListsMoved(r, got, Lists!Effect(r))
  BY ListsPage, ListsActs
<1> DEFINE reply == Lists!Reply(r)
           effect == Lists!Effect(r)
<1>2. /\ r.ask.op = "list" => reply \in ListsItems
      /\ r.ask.op # "list" => reply \in {"not empty", "done"}
      /\ r.ask.op = "delete" /\ reply = "not empty" => ui.page = "collections"
  BY ListsPage DEF Lists!Reply, Lists!NotEmpty
<1>3. reply \in ListsGots /\ {Waiting, Failed} \subseteq ListsGots
  BY <1>2 DEF ListsGots
<1>4. ~Lists!Refused(r) => effect \in ListsServer
  BY ListsEffectFacts
<1> HIDE DEF reply, effect
<1>5. CASE ListsMoved(r, Failed, server)
  BY <1>3, <1>5, ListsPage, RepliesApart, ListsServeStep
<1>6. ASSUME ~Lists!Refused(r), NEW got \in {Waiting, Failed, reply}, ListsMoved(r, got, effect)
      PROVE  ListsIInv'
  BY <1>2, <1>3, <1>4, RepliesApart, <1>6, ListsServeStep
<1> QED
  BY <1>1, <1>5, <1>6 DEF reply, effect

LEMMA ListsOthersStep == ASSUME ListsIInv, Lists!OthersChange PROVE ListsIInv'
<1>1. server' = [server EXCEPT !.items = DropFrom(server.items, 1)] /\ UNCHANGED <<ui, net, sent>>
  BY DEF Lists!OthersChange, Lists!Drop, DropFrom
<1> DEFINE items == DropFrom(server.items, 1)
<1>2. items \in ListsItems
  BY ListsPage, DropFacts DEF ListsItems
<1> HIDE DEF items
<1>3. server' \in ListsServer
  BY <1>1, <1>2, ListsPage DEF ListsServer, items
<1>4. ListsTypeInv'
  BY <1>1, <1>3 DEF ListsIInv, ListsTypeInv
<1>5. ListsFromInv' /\ ListsFormInv' /\ ListsWaitInv' /\ ListsBusyInv'
  BY <1>1, ListsSame DEF ListsIInv, ListsFromInv, ListsMayAsk, ListsFormInv, ListsEntry, ListsWaitInv, ListsClears,
     ListsBusyInv, ListsCause
<1> QED
  BY <1>4, <1>5 DEF ListsIInv

LEMMA ListsNextIInv == ListsIInv /\ [Lists!Next]_(Lists!vars) => ListsIInv'
<1> SUFFICES ASSUME ListsIInv, [Lists!Next]_(Lists!vars) PROVE ListsIInv'
  OBVIOUS
<1>1. CASE UNCHANGED Lists!vars
  <2>1. UNCHANGED <<ui, net, server, sent>>
    BY <1>1 DEF Lists!vars
  <2> QED
    BY <2>1, ListsNow, ListsLocalStep
<1>2. CASE Lists!Next
  <2>1. \/ Lists!OpenForm \/ Lists!CloseForm \/ Lists!Cancel \/ Lists!ClosePreview
        \/ \E i \in DOMAIN ui.list : Lists!ChooseTarget(i) \/ Lists!Select(i)
        \/ Lists!Refresh \/ Lists!Retry \/ Lists!TryConnection
        \/ \E i \in DOMAIN ui.list : Lists!Toggle(i) \/ Lists!Test(i) \/ Lists!Preview(i)
        \/ Lists!Submit
        \/ (Lists!Confirm \/ \E i \in DOMAIN ui.list : Lists!DeleteNow(i))
        \/ Lists!DeleteSelected \/ Lists!OthersChange
        \/ \E r \in net :
              \/ Lists!ListFetched(r) \/ Lists!Deleted(r) \/ Lists!BulkDeleted(r) \/ Lists!Toggled(r) \/ Lists!Tested(r)
              \/ Lists!ChunksFetched(r) \/ (r.ask.op = "create" /\ Lists!Created(r))
        \/ Lists!Serve(Lists!Refused, Lists!Effect, Lists!Reply) \/ Lists!RepeatOne(Lists!SentByRequest, Lists!Refused, Lists!Effect, Lists!Same)
    BY <1>2 DEF Lists!Next
  <2> QED
    BY <2>1, ListsPageStep, ListsButtonStep, ListsSubmitStep, ListsConfirmStep, ListsSelectedStep, ListsOthersStep,
       ListsFetchedStep, ListsDeletedStep, ListsBulkStep, ListsToggledStep, ListsCreatedStep, ListsServes
<1> QED
  BY <1>1, <1>2

LEMMA ListsShown == ListsIInv => Lists!TypeOK /\ Lists!BusyHasCause
<1> SUFFICES ASSUME ListsIInv PROVE Lists!TypeOK /\ Lists!BusyHasCause
  OBVIOUS
<1>1. Lists!TypeOK
  BY ListsPage, ListsRowIds DEF ListsApp, ListsStates, Lists!TypeOK
<1>2. ui.busy # {} => \E r \in net : r.ask.op \in {"delete", "toggle", "test", "list"}
  <2>1. CASE Lists!Is("one")
    BY <2>1 DEF ListsIInv, ListsBusyInv, ListsCause, ListsClears
  <2>2. CASE Lists!Is("each")
    BY <2>2 DEF ListsIInv, ListsBusyInv
  <2>3. CASE ~Lists!Is("one") /\ ~Lists!Is("each")
    BY <2>3 DEF ListsIInv, ListsBusyInv
  <2> QED
    BY <2>1, <2>2, <2>3
<1>3. Lists!BusyHasCause
  BY <1>2 DEF ListsIInv, ListsFormInv, ListsEntry, ListsWaitInv, ListsClears, Lists!BusyHasCause, Lists!Out
<1> QED
  BY <1>1, <1>3
-----------------------------------------------------------------------------
(* The list pages: the list on screen is current, and so are the chunks. *)

\* A decided registration that is still in the answer, and the list once all are taken off it.
ListsDecided(r) == Lists!Is("drops") /\ r.ask.op = "delete" /\ Acted(r)
ListsGone == {r.ask.id : r \in {r \in net : ListsDecided(r)}}
ListsLeft(f) == [i \in DOMAIN f \ ListsGone |-> f[i]]
\* The list comes with r, or is fetched when r has come.
ListsFetches(r) ==
    \/ r.ask.op = "list"
    \/ r.ask.op \in {"create", "toggle"} /\ Acted(r)
    \/ r.ask.op = "delete" /\ r.ask.batch = 0 /\ ~Lists!Is("drops") /\ Acted(r) /\ r.got # "not empty"
    \/ r.ask.op = "delete" /\ r.ask.batch # 0

\* A collection that was deleted once does not turn out to hold documents when that is repeated.
ListsEmptied(r) ==
    r.ask.op = "delete" /\ r.got = Waiting /\ r.acts # 0 /\ r.ask.id \in DOMAIN server.items => ~Lists!NotEmpty(r)

ListsAnswersInv ==
    ~raced => \A r \in net : /\ r.ask.op = "list" /\ OnTime(r) => r.got = server.items
                             /\ ListsDecided(r) => r.ask.id \notin DOMAIN server.items
                             /\ ListsEmptied(r)
ListsMarksInv ==
    /\ ui.failed # {} => ui.partial
    /\ Lists!Is("drops") => \A r \in net : r.ask.op # "create"
ListsShownInv ==
    ~raced /\ ~ui.error /\ ~ui.left /\ ~ui.partial =>
        (\E r \in net : ListsFetches(r)) \/ ListsLeft(ui.list) = server.items
ListsChunksInv ==
    ui.preview # None /\ ~ui.crossed => ui.chunks = ui.preview \/ \E r \in net : r.ask.op = "chunks"
ListsFreshInv == ListsAnswersInv /\ ListsMarksInv /\ ListsShownInv /\ ListsChunksInv

LEMMA ListsRaces ==
    ASSUME NEW r, NEW asks
    PROVE  /\ Lists!Send(asks) => UNCHANGED <<server, raced>>
           /\ Lists!Go(r, asks) => UNCHANGED server /\ raced' = (raced \/ (r.late /\ r.got # Failed))
           /\ Lists!Done(r) => UNCHANGED server /\ raced' = (raced \/ (r.late /\ r.got # Failed))
BY DEF Lists!Send, Lists!Done, Lists!Go

\* What others find when the gateway serves a request, which becomes to.
LEMMA ListsMovesLate ==
    ASSUME NEW r \in net, NEW to \in ListsSent, NEW held, net \subseteq ListsSent, Lists!Moves(r, to, held)
    PROVE  \E new \in [net -> ListsSent] :
              /\ net' = {new[q] : q \in net} /\ server' = held /\ UNCHANGED ui
              /\ new[r] = to
              /\ \A q \in net : q # r => /\ new[q].id = q.id /\ new[q].ask = q.ask /\ new[q].got = q.got /\ new[q].acts = q.acts
                                         /\ new[q].late = (q.got # Waiting /\ (q.late \/ held # server))
<1>1. net' = {IF q = r THEN to ELSE [q EXCEPT !.late = q.got # Waiting /\ (@ \/ held # server)] : q \in net}
  BY DEF Lists!Moves
<1> DEFINE Late(q) == q.got # Waiting /\ (q.late \/ held # server)
           New(q) == IF q = r THEN to ELSE [q EXCEPT !.late = Late(q)]
           new == [q \in net |-> New(q)]
<1>2. ASSUME NEW q \in net
      PROVE  /\ New(q) \in ListsSent /\ (q = r => New(q) = to)
             /\ q # r => /\ New(q).id = q.id /\ New(q).ask = q.ask /\ New(q).got = q.got /\ New(q).acts = q.acts
                         /\ New(q).late = Late(q)
  <2>1. q \in ListsSent /\ Late(q) \in BOOLEAN
    OBVIOUS
  <2> HIDE DEF Late
  <2> QED
    BY <2>1 DEF ListsSent
<1>3. net' = {New(q) : q \in net}
  BY <1>1
<1>4. \A q \in net : q # r => New(q).late = (q.got # Waiting /\ (q.late \/ held # server))
  BY <1>2
<1> HIDE DEF New
<1>5. new \in [net -> ListsSent] /\ \A q \in net : new[q] = New(q)
  BY <1>2
<1>6. net' = {new[q] : q \in net}
  BY <1>3, <1>5
<1> HIDE DEF new
<1>7. server' = held /\ UNCHANGED ui
  BY DEF Lists!Moves
<1> QED
  BY <1>2, <1>4, <1>5, <1>6, <1>7

LEMMA ListsSettlesLate ==
    ASSUME NEW r \in net, NEW got, got \in ListsGots, NEW held, net \subseteq ListsSent, Lists!Settle(r, got, held)
    PROVE  sent' = sent /\ server' = held /\ \E new \in [net -> ListsSent] : Serves(r, new) /\ new[r].got = got /\ new[r].id = r.id
<1> DEFINE to == [r EXCEPT !.got = got]
<1>1. r \in ListsSent
  OBVIOUS
<1>2. to \in ListsSent /\ to.ask = r.ask /\ to.got = got /\ to.late = r.late /\ to.id = r.id /\ to.acts = r.acts
  BY <1>1 DEF ListsSent
<1>3. Lists!Moves(r, to, held) /\ sent' = sent
  BY DEF Lists!Settle
<1> HIDE DEF to
<1>4. PICK new \in [net -> ListsSent] :
              /\ net' = {new[q] : q \in net} /\ server' = held /\ UNCHANGED ui
              /\ new[r] = to
              /\ \A q \in net : q # r => /\ new[q].id = q.id /\ new[q].ask = q.ask /\ new[q].got = q.got /\ new[q].acts = q.acts
                                         /\ new[q].late = (q.got # Waiting /\ (q.late \/ held # server))
  BY <1>2, <1>3, ListsMovesLate
<1>5. server' = held
  BY <1>4
<1>6. Serves(r, new)
  BY <1>2, <1>4 DEF Serves
<1> QED
  BY <1>2, <1>3, <1>4, <1>5, <1>6

LEMMA ListsRepeatsLate ==
    ASSUME NEW r \in net, NEW acts \in Nat, acts # 0, NEW held, net \subseteq ListsSent, sent \in Nat, Lists!SentAgain(r, acts, r.ask, held)
    PROVE  /\ server' = held /\ sent' = sent + 1 /\ raced' = raced
           /\ \E new \in [net -> ListsSent] : Serves(r, new) /\ new[r].got = Waiting /\ new[r].acts = acts
<1> DEFINE req == Lists!Request(sent + 1, r.ask)
           to == [req EXCEPT !.acts = acts]
<1>1. req \in ListsSent /\ req.ask = r.ask /\ req.got = Waiting /\ req.late = FALSE
  <2>1. r.ask \in ListsAsks
    BY DEF ListsSent
  <2>2. Waiting \in ListsGots
    BY DEF ListsGots
  <2> QED
    BY <2>1, <2>2 DEF ListsSent, Lists!Request
<1>2. Lists!Moves(r, to, held) /\ sent' = sent + 1 /\ raced' = raced
  BY DEF Lists!SentAgain
<1> HIDE DEF req
<1>3. to \in ListsSent /\ to.ask = r.ask /\ to.got = Waiting /\ to.late = FALSE /\ to.acts = acts
  BY <1>1 DEF ListsSent
<1> HIDE DEF to
<1>4. PICK new \in [net -> ListsSent] :
              /\ net' = {new[q] : q \in net} /\ server' = held /\ UNCHANGED ui
              /\ new[r] = to
              /\ \A q \in net : q # r => /\ new[q].id = q.id /\ new[q].ask = q.ask /\ new[q].got = q.got /\ new[q].acts = q.acts
                                         /\ new[q].late = (q.got # Waiting /\ (q.late \/ held # server))
  BY <1>2, <1>3, ListsMovesLate
<1>5. server' = held
  BY <1>4
<1>6. Serves(r, new)
  BY <1>3, <1>4 DEF Serves
<1> QED
  BY <1>2, <1>3, <1>4, <1>5, <1>6

LEMMA ListsServing ==
    ASSUME net \subseteq ListsSent, sent \in Nat, Lists!Serve(Lists!Refused, Lists!Effect, Lists!Reply) \/ Lists!RepeatOne(Lists!SentByRequest, Lists!Refused, Lists!Effect, Lists!Same),
           \A r \in net : ~Lists!Refused(r) => Lists!Reply(r) \in ListsGots
    PROVE  \E r \in net : \E new \in [net -> ListsSent] :
              /\ r.got = Waiting /\ Serves(r, new)
              /\ \/ /\ ~Lists!Refused(r) /\ new[r].got = Lists!Reply(r) /\ server' = Lists!Effect(r) /\ raced' = raced
                    /\ sent' = sent /\ new[r].id = r.id
                 \/ /\ new[r].got = Failed /\ server' = server /\ raced' = (raced \/ r.acts # 0)
                    /\ sent' = sent /\ new[r].id = r.id
                 \/ /\ ~Lists!Refused(r) /\ new[r].got = Failed /\ server' = Lists!Effect(r) /\ raced' = TRUE
                    /\ sent' = sent /\ new[r].id = r.id
                 \/ /\ ~Lists!Refused(r) /\ new[r].got = Waiting /\ new[r].acts # 0 /\ server' = Lists!Effect(r) /\ raced' = raced
                    /\ sent' = sent + 1 /\ server' # server
<1>1. Failed \in ListsGots
  BY DEF ListsGots
<1>2. CASE Lists!Serve(Lists!Refused, Lists!Effect, Lists!Reply)
  <2>1. PICK r \in net : /\ r.got = Waiting
                         /\ \/ ~Lists!Refused(r) /\ Lists!Settle(r, Lists!Reply(r), Lists!Effect(r)) /\ raced' = raced
                            \/ Lists!Settle(r, Failed, server) /\ raced' = (raced \/ r.acts # 0)
                            \/ ~Lists!Refused(r) /\ Lists!Settle(r, Failed, Lists!Effect(r)) /\ raced' = TRUE
    BY <1>2 DEF Lists!Serve, Lists!ServeOne
  <2>2. CASE ~Lists!Refused(r) /\ Lists!Settle(r, Lists!Reply(r), Lists!Effect(r)) /\ raced' = raced
    BY <2>1, <2>2, ListsSettlesLate
  <2>3. CASE Lists!Settle(r, Failed, server) /\ raced' = (raced \/ r.acts # 0)
    BY <1>1, <2>1, <2>3, ListsSettlesLate
  <2>4. CASE ~Lists!Refused(r) /\ Lists!Settle(r, Failed, Lists!Effect(r)) /\ raced' = TRUE
    <3> DEFINE held == Lists!Effect(r)
    <3>1. Lists!Settle(r, Failed, held)
      BY <2>4
    <3> HIDE DEF held
    <3>2. sent' = sent /\ server' = held /\ \E new \in [net -> ListsSent] : Serves(r, new) /\ new[r].got = Failed /\ new[r].id = r.id
      BY <1>1, <3>1, ListsSettlesLate
    <3> QED
      BY <2>1, <2>4, <3>2 DEF held
  <2> QED
    BY <2>1, <2>2, <2>3, <2>4
<1>3. CASE Lists!RepeatOne(Lists!SentByRequest, Lists!Refused, Lists!Effect, Lists!Same)
  <2>1. PICK r \in net : /\ r.got = Waiting /\ ~Lists!Refused(r) /\ Lists!Effect(r) # server
                         /\ Lists!SentAgain(r, r.acts + 1, r.ask, Lists!Effect(r))
    BY <1>3 DEF Lists!RepeatOne, Lists!Same, Lists!SentByRequest
  <2> DEFINE held == Lists!Effect(r)
             acts == r.acts + 1
  <2>2. acts \in Nat /\ acts # 0
    BY DEF ListsSent
  <2>3. Lists!SentAgain(r, acts, r.ask, held)
    BY <2>1
  <2> HIDE DEF held, acts
  <2>4. /\ server' = held /\ sent' = sent + 1 /\ raced' = raced
        /\ \E new \in [net -> ListsSent] : Serves(r, new) /\ new[r].got = Waiting /\ new[r].acts = acts
    BY <2>2, <2>3, ListsRepeatsLate
  <2> QED
    BY <2>1, <2>2, <2>4 DEF held
<1> QED
  BY <1>2, <1>3

\* The same as long as nothing that the page was told is out of date.
LEMMA ListsServingOnTime ==
    ASSUME net \subseteq ListsSent, sent \in Nat, Lists!Serve(Lists!Refused, Lists!Effect, Lists!Reply) \/ Lists!RepeatOne(Lists!SentByRequest, Lists!Refused, Lists!Effect, Lists!Same), ~raced',
           \A r \in net : ~Lists!Refused(r) => Lists!Reply(r) \in ListsGots
    PROVE  \E r \in net : \E new \in [net -> ListsSent] :
              /\ r.got = Waiting /\ Serves(r, new) /\ ~raced
              /\ \/ /\ ~Lists!Refused(r) /\ new[r].got = Lists!Reply(r) /\ server' = Lists!Effect(r)
                    /\ sent' = sent /\ new[r].id = r.id
                 \/ /\ new[r].got = Failed /\ server' = server /\ r.acts = 0
                    /\ sent' = sent /\ new[r].id = r.id
                 \/ /\ ~Lists!Refused(r) /\ new[r].got = Waiting /\ new[r].acts # 0 /\ server' = Lists!Effect(r)
                    /\ sent' = sent + 1 /\ server' # server
<1> DEFINE Answered(r, new) == /\ ~Lists!Refused(r) /\ new[r].got = Lists!Reply(r) /\ server' = Lists!Effect(r)
                               /\ sent' = sent /\ new[r].id = r.id
           Unheard(r, new) == new[r].got = Failed /\ server' = server /\ sent' = sent /\ new[r].id = r.id
           Again(r, new) == /\ ~Lists!Refused(r) /\ new[r].got = Waiting /\ new[r].acts # 0 /\ server' = Lists!Effect(r)
                            /\ sent' = sent + 1 /\ server' # server
<1>1. PICK r \in net : \E new \in [net -> ListsSent] :
              /\ r.got = Waiting /\ Serves(r, new)
              /\ \/ Answered(r, new) /\ raced' = raced
                 \/ Unheard(r, new) /\ raced' = (raced \/ r.acts # 0)
                 \/ raced' = TRUE
                 \/ Again(r, new) /\ raced' = raced
  BY ListsServing
<1>2. PICK new \in [net -> ListsSent] :
              /\ r.got = Waiting /\ Serves(r, new)
              /\ \/ Answered(r, new) /\ raced' = raced
                 \/ Unheard(r, new) /\ raced' = (raced \/ r.acts # 0)
                 \/ raced' = TRUE
                 \/ Again(r, new) /\ raced' = raced
  BY <1>1
<1> HIDE DEF Answered, Unheard, Again
<1>3. ~raced /\ (Answered(r, new) \/ (Unheard(r, new) /\ r.acts = 0) \/ Again(r, new))
  <2>1. CASE Answered(r, new) /\ raced' = raced
    BY <2>1
  <2>2. CASE Unheard(r, new) /\ raced' = (raced \/ r.acts # 0)
    <3> DEFINE acted == r.acts # 0
    <3>1. raced' = (raced \/ acted)
      BY <2>2
    <3> HIDE DEF acted
    <3>2. ~raced /\ ~acted
      BY <3>1
    <3> QED
      BY <2>2, <3>2 DEF acted
  <2>3. CASE Again(r, new) /\ raced' = raced
    BY <2>3
  <2>4. CASE raced' = TRUE
    BY <2>4
  <2> QED
    BY <1>2, <2>1, <2>2, <2>3, <2>4
<1> QED
  BY <1>2, <1>3 DEF Answered, Unheard, Again

LEMMA ListsInitFresh == Lists!Init => ListsFreshInv
<1> SUFFICES ASSUME Lists!Init PROVE ListsFreshInv
  OBVIOUS
<1> DEFINE clears == FALSE
           ask == [op |-> "list", clears |-> clears]
<1>1. PICK page \in DOMAIN Lists!Pages :
        Lists!Started([page |-> page, list |-> Lists!Empty, loading |-> TRUE, error |-> FALSE, left |-> FALSE,
                 open |-> FALSE, submitting |-> FALSE, target |-> None, force |-> FALSE, deleting |-> FALSE,
                 busy |-> {}, selected |-> {}, failed |-> {}, partial |-> FALSE,
                 preview |-> None, chunks |-> None, crossed |-> FALSE],
                [items |-> <<"on", "off">>], <<ask>>)
  BY DEF Lists!Init, Lists!List
<1>2. ui.failed = {} /\ ui.preview = None
  BY <1>1 DEF Lists!Started
<1>3. ask.op = "list"
  OBVIOUS
<1> HIDE DEF ask
<1>4. net = {FirstRequest(1, ask)}
  BY <1>1, StartedWithOne DEF Lists!Started, Lists!Request
<1>5. FirstRequest(1, ask).ask = ask /\ FirstRequest(1, ask).got = Waiting /\ FirstRequest(1, ask).acts = 0
  BY DEF FirstRequest
<1>6. ListsAnswersInv
  BY <1>3, <1>4, <1>5 DEF ListsAnswersInv, ListsDecided, ListsEmptied, OnTime, Served
<1>7. ListsMarksInv /\ ListsShownInv /\ ListsChunksInv
  BY <1>2, <1>3, <1>4, <1>5 DEF ListsMarksInv, ListsShownInv, ListsFetches, ListsChunksInv
<1> QED
  BY <1>6, <1>7 DEF ListsFreshInv

LEMMA ListsSameAsks ==
    ASSUME ui'.page = ui.page
    PROVE  \A q : (ListsDecided(q)' <=> ListsDecided(q)) /\ (ListsFetches(q)' <=> ListsFetches(q))
BY ListsSame DEF ListsDecided, ListsFetches

LEMMA ListsSameEmptied ==
    ASSUME ui'.page = ui.page, UNCHANGED server
    PROVE  \A q : ListsEmptied(q)' <=> ListsEmptied(q)
BY DEF ListsEmptied, Lists!NotEmpty

\* One that the gateway has not acted on.
LEMMA ListsNotActed == ASSUME NEW q, ~Acted(q) PROVE ListsEmptied(q) /\ ~ListsDecided(q) /\ ~OnTime(q)
BY RepliesApart DEF Acted, OnTime, Served, ListsEmptied, ListsDecided

-----------------------------------------------------------------------------
\* What the user does leaves what is shown as it is.
LEMMA ListsAskedFresh ==
    ASSUME ListsIInv, ListsFreshInv, UNCHANGED <<server, raced>>, net \subseteq net',
           \A q \in net' : q \in net \/ (~Acted(q) /\ (Lists!Is("drops") => q.ask.op # "create")),
           ui'.page = ui.page, ui'.list = ui.list, ui'.left = ui.left, ui'.failed = ui.failed, ui'.partial = ui.partial,
           ui'.chunks = ui.chunks, ui'.crossed = ui.crossed,
           ui'.error = ui.error \/ \E q \in net' : q.ask.op = "list",
           ui'.preview \in {ui.preview, None} \/ \E q \in net' : q.ask.op = "chunks"
    PROVE  ListsFreshInv'
<1>1. \A q : (ListsDecided(q)' <=> ListsDecided(q)) /\ (ListsFetches(q)' <=> ListsFetches(q))
  BY ListsSameAsks
<1>2. \A q \in net' : ListsDecided(q) \/ OnTime(q) => q \in net
  BY ListsNotActed
<1>3. ListsAnswersInv'
  BY <1>1, <1>2, ListsNotActed, ListsSameEmptied DEF ListsFreshInv, ListsAnswersInv
<1>4. ListsMarksInv'
  BY ListsSame DEF ListsFreshInv, ListsMarksInv
<1>5. ListsGone' = ListsGone
  BY <1>1, <1>2 DEF ListsGone
<1>6. ListsLeft(ui.list)' = ListsLeft(ui.list)
  BY <1>5 DEF ListsLeft
<1>7. ListsShownInv'
  <2>1. CASE \E q \in net' : q.ask.op = "list"
    BY <1>1, <2>1 DEF ListsShownInv, ListsFetches
  <2>2. CASE ~\E q \in net' : q.ask.op = "list"
    <3>1. (\E q \in net : ListsFetches(q)) => \E q \in net' : ListsFetches(q)'
      BY <1>1
    <3> QED
      BY <1>6, <2>2, <3>1 DEF ListsFreshInv, ListsShownInv
  <2> QED
    BY <2>1, <2>2
<1>8. ListsChunksInv'
  BY DEF ListsFreshInv, ListsChunksInv
<1> QED
  BY <1>3, <1>4, <1>7, <1>8 DEF ListsFreshInv

\* A state of the page that differs in what its buttons and dialogs show only.
ListsStays(s) ==
    /\ ListsLike(s) /\ s.list = ui.list /\ s.left = ui.left /\ s.partial = ui.partial /\ s.failed = ui.failed
    /\ s.preview = ui.preview /\ s.chunks = ui.chunks /\ s.crossed = ui.crossed

LEMMA ListsStaysAlong ==
    ASSUME ListsIInv
    PROVE  /\ ListsStays(ui)
           /\ \A i \in Int : /\ ListsStays(Lists!Started1(i)) /\ Lists!Started1(i).error = ui.error
                             /\ ListsStays(Lists!Ended(i)) /\ Lists!Ended(i).error = ui.error
           /\ \A s : ListsStays(s) => ListsStays(Lists!Loading(s)) /\ ListsStays(Lists!NoTarget(s))
                                      /\ Lists!NoTarget(s).error = s.error
<1>1. ListsStays(ui)
  BY ListsNow DEF ListsStays
<1>2. ASSUME NEW i \in Int
      PROVE  /\ ListsStays(Lists!Started1(i)) /\ Lists!Started1(i).error = ui.error
             /\ ListsStays(Lists!Ended(i)) /\ Lists!Ended(i).error = ui.error
  <2>1. ListsLike(Lists!Started1(i)) /\ ListsLike(Lists!Ended(i))
    BY ListsMarked
  <2>2. \A busy : LET s == [ui EXCEPT !.busy = busy]
                  IN  /\ s.list = ui.list /\ s.left = ui.left /\ s.partial = ui.partial /\ s.failed = ui.failed
                      /\ s.preview = ui.preview /\ s.chunks = ui.chunks /\ s.crossed = ui.crossed /\ s.error = ui.error
    BY ListsPage DEF ListsApp
  <2> QED
    BY <2>1, <2>2 DEF ListsStays, Lists!Started1, Lists!Ended
<1>3. ASSUME NEW s, ListsStays(s)
      PROVE  ListsStays(Lists!Loading(s)) /\ ListsStays(Lists!NoTarget(s)) /\ Lists!NoTarget(s).error = s.error
  <2>1. ListsLike(Lists!Loading(s)) /\ ListsLike(Lists!NoTarget(s))
    BY <1>3, ListsLoading, ListsForgotten DEF ListsStays
  <2>2. s \in ListsApp
    BY <1>3 DEF ListsStays, ListsLike
  <2>3. LET l == Lists!Loading(s)
        IN  /\ l.list = s.list /\ l.left = s.left /\ l.partial = s.partial /\ l.failed = s.failed
            /\ l.preview = s.preview /\ l.chunks = s.chunks /\ l.crossed = s.crossed
    BY <2>2 DEF ListsApp, Lists!Loading
  <2>4. LET l == Lists!NoTarget(s)
        IN  /\ l.list = s.list /\ l.left = s.left /\ l.partial = s.partial /\ l.failed = s.failed
            /\ l.preview = s.preview /\ l.chunks = s.chunks /\ l.crossed = s.crossed /\ l.error = s.error
    BY <2>2 DEF ListsApp, Lists!NoTarget
  <2> QED
    BY <1>3, <2>1, <2>3, <2>4 DEF ListsStays
<1> QED
  BY <1>1, <1>2, <1>3

LEMMA ListsAskFresh ==
    ASSUME ListsIInv, ListsFreshInv, NEW ask, Lists!Send(<<ask>>), Lists!Is("drops") => ask.op # "create",
           ListsStays(ui'), ui'.error = ui.error \/ ask.op = "list"
    PROVE  ListsFreshInv'
<1>1. UNCHANGED <<server, raced>> /\ net' = net \cup {NewRequest(sent, ask)}
  BY ListsRaces, ListsAsks1
<1>2. NewRequest(sent, ask).ask = ask /\ ~Acted(NewRequest(sent, ask))
  BY NewIsWaiting
<1> QED
  BY <1>1, <1>2, ListsAskedFresh DEF ListsStays, ListsLike

LEMMA ListsLocalFresh ==
    ASSUME ListsIInv, ListsFreshInv,
           \/ Lists!OpenForm \/ Lists!CloseForm \/ Lists!Cancel \/ Lists!ClosePreview
           \/ \E i \in DOMAIN ui.list : Lists!ChooseTarget(i) \/ Lists!Select(i)
    PROVE  ListsFreshInv'
<1>1. UNCHANGED <<net, server, raced>>
  BY DEF Lists!OpenForm, Lists!CloseForm, Lists!Cancel, Lists!ClosePreview, Lists!ChooseTarget, Lists!Select, Lists!Set,
     Lists!Local
<1>2. \/ \E open : ui' = [ui EXCEPT !.open = open]
      \/ ui' = Lists!NoTarget(ui)
      \/ ui' = [ui EXCEPT !.preview = None]
      \/ \E i : ui' = [ui EXCEPT !.target = i]
      \/ \E s : ui' = [ui EXCEPT !.selected = s]
  BY DEF Lists!OpenForm, Lists!CloseForm, Lists!Cancel, Lists!ClosePreview, Lists!ChooseTarget, Lists!Select, Lists!Set
<1>3. /\ ui'.page = ui.page /\ ui'.list = ui.list /\ ui'.left = ui.left /\ ui'.failed = ui.failed /\ ui'.partial = ui.partial
      /\ ui'.chunks = ui.chunks /\ ui'.crossed = ui.crossed /\ ui'.error = ui.error /\ ui'.preview \in {ui.preview, None}
  BY <1>2, ListsPage DEF ListsApp, Lists!NoTarget
<1> QED
  BY <1>1, <1>3, ListsAskedFresh

LEMMA ListsButtonFresh ==
    ASSUME ListsIInv, ListsFreshInv,
           \/ Lists!Refresh \/ Lists!Retry \/ Lists!TryConnection \/ Lists!Submit \/ Lists!Confirm
           \/ \E i \in DOMAIN ui.list : Lists!DeleteNow(i) \/ Lists!Toggle(i) \/ Lists!Test(i)
    PROVE  ListsFreshInv'
<1>1. CASE Lists!Refresh \/ Lists!Retry
  <2> DEFINE ask == [op |-> "list", clears |-> FALSE]
  <2>1. ui' = Lists!Loading(ui) /\ Lists!Send(<<ask>>) /\ ask.op = "list"
    BY <1>1 DEF Lists!Refresh, Lists!Retry, Lists!List
  <2> HIDE DEF ask
  <2> QED
    BY <2>1, ListsStaysAlong, ListsAskFresh
<1>2. CASE Lists!TryConnection
  <2> DEFINE ask == Lists!Create(TRUE)
  <2>1. ui' = ui /\ Lists!Send(<<ask>>) /\ ui.page = "connections"
    BY <1>2 DEF Lists!TryConnection, Lists!Ask
  <2>2. ~Lists!Is("drops")
    BY <2>1, ListsPage, ListsFeatures
  <2> HIDE DEF ask
  <2> QED
    BY <2>1, <2>2, ListsStaysAlong, ListsAskFresh
<1>3. CASE Lists!Submit
  <2> DEFINE ask == Lists!Create(FALSE)
             guarded == Lists!Is("guards")
  <2>1. ui' = [ui EXCEPT !.submitting = guarded] /\ Lists!Send(<<ask>>) /\ Lists!Is("create")
    BY <1>3 DEF Lists!Submit, Lists!Ask
  <2>2. guarded \in BOOLEAN
    BY DEF Lists!Is
  <2>3. ~Lists!Is("drops")
    BY <2>1, ListsPage, ListsFeatures
  <2> HIDE DEF ask, guarded
  <2>4. ListsStays(ui') /\ ui'.error = ui.error
    BY <2>1, <2>2, ListsNow DEF ListsStays, ListsLike, ListsApp
  <2> QED
    BY <2>1, <2>3, <2>4, ListsAskFresh
<1>4. CASE Lists!Confirm
  <2> DEFINE ask == [op |-> "delete", id |-> ui.target, force |-> ui.force, batch |-> 0]
             locked == Lists!Is("locks")
  <2>1. ui' = [ui EXCEPT !.deleting = locked] /\ Lists!Send(<<ask>>)
    BY <1>4 DEF Lists!Confirm, Lists!Ask, Lists!Delete
  <2>2. locked \in BOOLEAN /\ ask.op = "delete"
    BY DEF Lists!Is
  <2> HIDE DEF ask, locked
  <2>3. ListsStays(ui') /\ ui'.error = ui.error
    BY <2>1, <2>2, ListsNow DEF ListsStays, ListsLike, ListsApp
  <2> QED
    BY <2>1, <2>2, <2>3, ListsAskFresh
<1>5. ASSUME NEW i \in DOMAIN ui.list, Lists!DeleteNow(i) \/ Lists!Toggle(i) \/ Lists!Test(i)
      PROVE  ListsFreshInv'
  <2>1. \E ask : ask.op # "create" /\ Lists!Send(<<ask>>) /\ ui' = Lists!Started1(i)
    <3>1. CASE Lists!DeleteNow(i)
      BY <3>1 DEF Lists!DeleteNow, Lists!Ask, Lists!Delete
    <3>2. CASE Lists!Toggle(i)
      BY <3>2 DEF Lists!Toggle, Lists!Ask
    <3>3. CASE Lists!Test(i)
      BY <3>3 DEF Lists!Test, Lists!Ask
    <3> QED
      BY <1>5, <3>1, <3>2, <3>3
  <2> QED
    BY <2>1, ListsRowIds, ListsStaysAlong, ListsAskFresh
<1> QED
  BY <1>1, <1>2, <1>3, <1>4, <1>5

LEMMA ListsPreviewFresh == ASSUME ListsIInv, ListsFreshInv, NEW i \in DOMAIN ui.list, Lists!Preview(i) PROVE ListsFreshInv'
<1> DEFINE ask == [op |-> "chunks", id |-> i]
<1>1. ui' = [ui EXCEPT !.preview = i] /\ Lists!Send(<<ask>>) /\ ask.op = "chunks"
  BY DEF Lists!Preview, Lists!Ask
<1> HIDE DEF ask
<1>2. UNCHANGED <<server, raced>> /\ net' = net \cup {NewRequest(sent, ask)}
  BY <1>1, ListsRaces, ListsAsks1
<1>3. NewRequest(sent, ask).ask = ask /\ ~Acted(NewRequest(sent, ask))
  BY NewIsWaiting
<1>4. /\ ui'.page = ui.page /\ ui'.list = ui.list /\ ui'.left = ui.left /\ ui'.failed = ui.failed /\ ui'.partial = ui.partial
      /\ ui'.chunks = ui.chunks /\ ui'.crossed = ui.crossed /\ ui'.error = ui.error
  BY <1>1, ListsPage DEF ListsApp
<1> QED
  BY <1>1, <1>2, <1>3, <1>4, ListsAskedFresh

LEMMA ListsSelectedFresh == ASSUME ListsIInv, ListsFreshInv, Lists!DeleteSelected PROVE ListsFreshInv'
<1> DEFINE asks == [n \in 1 .. Lists!Cardinality(ui.selected) |->
                        Lists!Delete(Lists!SetToSeq(ui.selected)[n], TRUE, sent + 1)]
<1>1. ui' = ui /\ Lists!Send(asks)
  BY DEF Lists!DeleteSelected
<1>2. \A n \in DOMAIN asks : asks[n].op = "delete"
  BY DEF Lists!Delete
<1> HIDE DEF asks
<1>3. UNCHANGED <<server, raced>> /\ net' = net \cup {Lists!Request(sent + n, asks[n]) : n \in DOMAIN asks}
  BY <1>1 DEF Lists!Send, Lists!Requests
<1>4. \A q \in net' : q \in net \/ (~Acted(q) /\ q.ask.op = "delete")
  BY <1>2, <1>3 DEF Lists!Request, Acted
<1> QED
  BY <1>1, <1>3, <1>4, ListsAskedFresh
-----------------------------------------------------------------------------
\* An answer leaves the gateway as it is, and the answers that are left as current as they were.
LEMMA ListsAnsweredRest ==
    ASSUME ListsIInv, ListsFreshInv, NEW r \in net, UNCHANGED server, raced => raced',
           \A q \in net' : q \in net \/ (~Acted(q) /\ q.ask.op = "list"),
           \A q \in net : q \in net' \/ q = r,
           ui'.page = ui.page, ui'.failed # {} => ui'.partial,
           \/ r.ask.op # "chunks" /\ ui'.preview = ui.preview /\ ui'.chunks = ui.chunks /\ ui'.crossed = ui.crossed
           \/ ui'.crossed \/ ui'.chunks = ui'.preview
    PROVE  ListsAnswersInv' /\ ListsMarksInv' /\ ListsChunksInv'
<1>1. \A q : ListsDecided(q)' <=> ListsDecided(q)
  BY ListsSameAsks
<1>2. \A q \in net' : ListsDecided(q) \/ OnTime(q) => q \in net
  BY ListsNotActed
<1>3. ListsAnswersInv'
  BY <1>1, <1>2, ListsNotActed, ListsSameEmptied DEF ListsFreshInv, ListsAnswersInv
<1>4. ListsMarksInv'
  BY ListsSame DEF ListsFreshInv, ListsMarksInv
<1>5. ListsChunksInv'
  BY DEF ListsFreshInv, ListsChunksInv
<1> QED
  BY <1>3, <1>4, <1>5

\* The list is fetched again.
LEMMA ListsRefetched ==
    ASSUME ListsIInv, ListsFreshInv, NEW r \in net, r.ask.op # "chunks", NEW clears, Lists!Go(r, Lists!List(clears)),
           ListsStays(ui')
    PROVE  ListsFreshInv'
<1> DEFINE ask == [op |-> "list", clears |-> clears]
<1>1. ask.op = "list" /\ Lists!List(clears) = <<ask>>
  BY DEF Lists!List
<1> HIDE DEF ask
<1>2. net' = (net \ {r}) \cup {NewRequest(sent, ask)} /\ UNCHANGED server /\ (raced => raced')
  BY <1>1, ListsAsks1, ListsRaces
<1>3. NewRequest(sent, ask).ask = ask /\ ~Acted(NewRequest(sent, ask))
  BY NewIsWaiting
<1>4. ListsAnswersInv' /\ ListsMarksInv' /\ ListsChunksInv'
  BY <1>1, <1>2, <1>3, ListsAnsweredRest DEF ListsStays, ListsLike, ListsFreshInv, ListsMarksInv
<1>5. ListsShownInv'
  BY <1>1, <1>2, <1>3 DEF ListsShownInv, ListsFetches
<1> QED
  BY <1>4, <1>5 DEF ListsFreshInv

\* What is shown does not change with an answer after which the list is not fetched.
LEMMA ListsEndsFresh ==
    ASSUME ListsIInv, ListsFreshInv, NEW r \in net, Lists!Done(r),
           ui'.page = ui.page, ui'.failed # {} => ui'.partial,
           \/ r.ask.op # "chunks" /\ ui'.preview = ui.preview /\ ui'.chunks = ui.chunks /\ ui'.crossed = ui.crossed
           \/ ui'.crossed \/ ui'.chunks = ui'.preview,
           \/ ui'.error \/ ui'.left \/ ui'.partial
           \/ /\ ui'.error = ui.error /\ ui'.left = ui.left /\ ui'.partial = ui.partial
              /\ \/ ui'.list = ui.list /\ ~ListsDecided(r) /\ ~ListsFetches(r)
                 \/ ui'.list = DropFrom(ui.list, r.ask.id) /\ ListsDecided(r) /\ ~ListsFetches(r)
                 \/ \E q \in net : q # r /\ ListsFetches(q)
    PROVE  ListsFreshInv'
<1>1. net' = net \ {r} /\ UNCHANGED server /\ (raced => raced')
  BY ListsPage, ListsEnds, ListsRaces
<1>2. \A q : (ListsDecided(q)' <=> ListsDecided(q)) /\ (ListsFetches(q)' <=> ListsFetches(q))
  BY ListsSameAsks
<1>3. ListsAnswersInv' /\ ListsMarksInv' /\ ListsChunksInv'
  BY <1>1, ListsAnsweredRest
<1>4. ListsGone' = {q.ask.id : q \in {q \in net \ {r} : ListsDecided(q)}}
  BY <1>1, <1>2 DEF ListsGone
<1>5. ASSUME ui'.error = ui.error, ui'.left = ui.left, ui'.partial = ui.partial,
             \/ ui'.list = ui.list /\ ~ListsDecided(r) /\ ~ListsFetches(r)
             \/ ui'.list = DropFrom(ui.list, r.ask.id) /\ ListsDecided(r) /\ ~ListsFetches(r)
      PROVE  ListsShownInv'
  <2>1. ListsLeft(ui.list)' = ListsLeft(ui.list)
    <3>1. CASE ui'.list = ui.list /\ ~ListsDecided(r)
      <4>1. ListsGone' = ListsGone
        BY <1>4, <3>1 DEF ListsGone
      <4> QED
        BY <3>1, <4>1 DEF ListsLeft
    <3>2. CASE ui'.list = DropFrom(ui.list, r.ask.id) /\ ListsDecided(r)
      <4>1. ListsGone = ListsGone' \cup {r.ask.id}
        BY <1>4, <3>2 DEF ListsGone
      <4>2. DOMAIN ui'.list = DOMAIN ui.list \ {r.ask.id} /\ \A i \in DOMAIN ui'.list : ui'.list[i] = ui.list[i]
        BY <3>2 DEF DropFrom
      <4>3. DOMAIN ui'.list \ ListsGone' = DOMAIN ui.list \ ListsGone
        BY <4>1, <4>2
      <4> QED
        BY <4>2, <4>3 DEF ListsLeft
    <3> QED
      BY <1>5, <3>1, <3>2
  <2>2. (\E q \in net : ListsFetches(q)) => \E q \in net' : ListsFetches(q)'
    BY <1>1, <1>2, <1>5
  <2> QED
    BY <1>1, <1>5, <2>1, <2>2 DEF ListsFreshInv, ListsShownInv
<1>6. ASSUME \E q \in net : q # r /\ ListsFetches(q)
      PROVE  ListsShownInv'
  <2>1. \E q \in net' : ListsFetches(q)'
    BY <1>1, <1>2, <1>6
  <2> QED
    BY <2>1 DEF ListsShownInv
<1>7. ListsShownInv'
  <2>1. CASE ui'.error \/ ui'.left \/ ui'.partial
    BY <2>1 DEF ListsShownInv
  <2> QED
    BY <1>5, <1>6, <2>1
<1> QED
  BY <1>3, <1>7 DEF ListsFreshInv

LEMMA ListsFetchedFresh == ASSUME ListsIInv, ListsFreshInv, NEW r \in net, Lists!ListFetched(r) PROVE ListsFreshInv'
<1> DEFINE state == [IF r.ask.clears THEN Lists!Rested(ui) ELSE ui EXCEPT !.loading = FALSE]
<1>1. /\ r.ask.op = "list" /\ r.got # Waiting /\ Lists!Done(r)
      /\ \/ r.got = Failed /\ ui' = [state EXCEPT !.error = TRUE]
         \/ r.got # Failed /\ ui' = [state EXCEPT !.list = r.got]
  BY DEF Lists!ListFetched, Lists!Came
<1>2. r.ask.clears \in BOOLEAN
  <2>1. r.ask \in ListsAsks
    BY ListsPage DEF ListsSent
  <2> QED
    BY <1>1, <2>1 DEF ListsAsks
<1>3. ListsStays(state) /\ state.error = ui.error
  <2>1. CASE r.ask.clears
    <3> DEFINE none == {}
    <3>1. state = [ui EXCEPT !.busy = none, !.deleting = FALSE, !.loading = FALSE] /\ none \in SUBSET Int
      BY <2>1, ListsPage DEF Lists!Rested, ListsApp
    <3> HIDE DEF state, none
    <3> QED
      BY <3>1, ListsNow DEF ListsStays, ListsLike, ListsApp
  <2>2. CASE ~r.ask.clears
    <3>1. state = [ui EXCEPT !.loading = FALSE]
      BY <2>2
    <3> HIDE DEF state
    <3> QED
      BY <3>1, ListsNow DEF ListsStays, ListsLike, ListsApp
  <2> QED
    BY <1>2, <2>1, <2>2
<1> HIDE DEF state
<1>4. /\ ui'.page = ui.page /\ ui'.left = ui.left /\ ui'.partial = ui.partial /\ ui'.failed = ui.failed
      /\ ui'.preview = ui.preview /\ ui'.chunks = ui.chunks /\ ui'.crossed = ui.crossed
      /\ \/ r.got = Failed /\ ui'.error
         \/ r.got # Failed /\ ui'.error = ui.error /\ ui'.list = r.got
  BY <1>1, <1>3 DEF ListsStays, ListsLike, ListsApp
<1>5. ui'.failed # {} => ui'.partial
  BY <1>4 DEF ListsFreshInv, ListsMarksInv
<1>6. net' = net \ {r} /\ UNCHANGED server /\ raced' = (raced \/ (r.late /\ r.got # Failed))
  BY <1>1, ListsPage, ListsEnds, ListsRaces
<1>7. CASE r.got = Failed
  BY <1>1, <1>4, <1>5, <1>7, ListsEndsFresh
<1>8. CASE r.got # Failed
  <2>1. \A q : (ListsDecided(q)' <=> ListsDecided(q)) /\ (ListsFetches(q)' <=> ListsFetches(q))
    BY <1>4, ListsSameAsks
  <2>2. ListsAnswersInv' /\ ListsMarksInv' /\ ListsChunksInv'
    BY <1>1, <1>4, <1>5, <1>6, ListsAnsweredRest
  <2>3. ASSUME ~raced'
        PROVE  ListsLeft(ui.list)' = server.items
    <3>1. ui'.list = server.items
      BY <1>1, <1>4, <1>6, <1>8, <2>3 DEF ListsFreshInv, ListsAnswersInv, OnTime, Served
    <3>2. \A q \in net' : ListsDecided(q) => q.ask.id \notin DOMAIN server.items
      BY <1>6, <2>3 DEF ListsFreshInv, ListsAnswersInv
    <3>3. DOMAIN server.items \ ListsGone' = DOMAIN server.items
      BY <2>1, <3>2 DEF ListsGone
    <3>4. server.items = [i \in DOMAIN server.items |-> server.items[i]]
      BY ListsPage, MapFacts DEF ListsItems
    <3> QED
      BY <3>1, <3>3, <3>4 DEF ListsLeft
  <2>4. ListsShownInv'
    BY <1>6, <2>3 DEF ListsShownInv
  <2> QED
    BY <2>2, <2>4 DEF ListsFreshInv
<1> QED
  BY <1>7, <1>8

LEMMA ListsAskIds == ASSUME ListsIInv, NEW r \in net PROVE r.ask.op \in {"delete", "toggle", "test", "chunks"} => r.ask.id \in Int
<1>1. r.ask \in ListsAsks
  BY ListsPage DEF ListsSent
<1> QED
  BY <1>1 DEF ListsAsks

\* A write to an entry has gone through, or has not.
LEMMA ListsWroteFresh ==
    ASSUME ListsIInv, ListsFreshInv, NEW r \in net, NEW op, op \in {"delete", "toggle"},
           NEW s, ListsStays(s), r.ask.id \in Int, ~Lists!Is("drops"), Lists!Wrote(r, op, r.ask.id, s),
           op = "delete" => r.ask.batch = 0
    PROVE  ListsFreshInv'
<1> DEFINE ended == Lists!Ended(r.ask.id)
           busy == ended.busy
           next == IF Lists!Is("waits") THEN s ELSE [s EXCEPT !.busy = busy]
<1>1. /\ r.ask.op = op /\ r.got # Waiting
      /\ \/ ui' = Lists!Loading(next) /\ Lists!Go(r, Lists!List(Lists!Is("waits")))
         \/ r.got = Failed /\ ui' = ended /\ Lists!Done(r)
  BY DEF Lists!Wrote, Lists!Answer, Lists!Came
<1>2. ListsStays(ended) /\ ended.error = ui.error
  BY ListsStaysAlong
<1> HIDE DEF ended
<1>3. ListsStays(next)
  <2>1. ended \in ListsApp /\ IsFiniteSet(s.selected)
    BY <1>2 DEF ListsStays, ListsLike
  <2>2. busy \in SUBSET Int
    BY <2>1 DEF ListsApp
  <2> HIDE DEF busy
  <2> QED
    BY <2>2 DEF ListsStays, ListsLike, ListsApp
<1> HIDE DEF next
<1>4. CASE ui' = Lists!Loading(next) /\ Lists!Go(r, Lists!List(Lists!Is("waits")))
  BY <1>1, <1>3, <1>4, ListsStaysAlong, ListsRefetched
<1>5. CASE r.got = Failed /\ ui' = ended /\ Lists!Done(r)
  <2>1. ~ListsDecided(r) /\ ~ListsFetches(r) /\ r.ask.op # "chunks"
    BY <1>1, <1>5 DEF ListsDecided, ListsFetches, Acted
  <2> QED
    BY <1>2, <1>5, <2>1, ListsEndsFresh DEF ListsStays, ListsLike, ListsFreshInv, ListsMarksInv
<1> QED
  BY <1>1, <1>4, <1>5

LEMMA ListsDeletedFresh == ASSUME ListsIInv, ListsFreshInv, NEW r \in net, Lists!Deleted(r) PROVE ListsFreshInv'
<1> DEFINE ended == Lists!Ended(r.ask.id)
<1>1. r.ask.op = "delete" /\ r.ask.batch = 0 /\ r.got # Waiting
  BY DEF Lists!Deleted, Lists!Came
<1>2. r.ask.id \in Int
  BY <1>1, ListsAskIds
<1>3. ListsStays(ended) /\ ended.error = ui.error
  BY <1>2, ListsStaysAlong
<1>4. ui.failed # {} => ui.partial
  BY DEF ListsFreshInv, ListsMarksInv
<1>5. CASE r.got = "not empty"
  <2>1. ui' = [ui EXCEPT !.target = r.ask.id, !.force = TRUE] /\ Lists!Done(r)
    BY <1>5 DEF Lists!Deleted
  <2>2. /\ ui'.page = ui.page /\ ui'.list = ui.list /\ ui'.left = ui.left /\ ui'.partial = ui.partial /\ ui'.failed = ui.failed
        /\ ui'.preview = ui.preview /\ ui'.chunks = ui.chunks /\ ui'.crossed = ui.crossed /\ ui'.error = ui.error
    BY <2>1, ListsPage DEF ListsApp
  <2>3. ui.page = "collections"
    BY <1>1, <1>5 DEF ListsIInv, ListsFromInv
  <2>4. ~Lists!Is("drops")
    BY <2>3, ListsPage, ListsFeatures
  <2>5. ~ListsDecided(r) /\ ~ListsFetches(r)
    BY <1>1, <1>5, <2>4 DEF ListsDecided, ListsFetches
  <2> QED
    BY <1>1, <1>4, <2>1, <2>2, <2>5, ListsEndsFresh
<1>6. CASE r.got # "not empty" /\ r.got = Failed
  <2>1. ui' = [IF Lists!Is("keeps") THEN ui ELSE Lists!NoTarget(ended) EXCEPT !.deleting = FALSE] /\ Lists!Done(r)
    BY <1>6 DEF Lists!Deleted
  <2> HIDE DEF ended
  <2>2. ASSUME NEW s, ListsStays(s), s.error = ui.error, ui' = [s EXCEPT !.deleting = FALSE]
        PROVE  ListsStays(ui') /\ ui'.error = ui.error
    BY <2>2 DEF ListsStays, ListsLike, ListsApp
  <2>3. ListsStays(ui') /\ ui'.error = ui.error
    BY <1>3, <2>1, <2>2, ListsStaysAlong
  <2>4. ~ListsDecided(r) /\ ~ListsFetches(r)
    BY <1>1, <1>6 DEF ListsDecided, ListsFetches, Acted
  <2> QED
    BY <1>1, <1>4, <2>1, <2>3, <2>4, ListsEndsFresh DEF ListsStays, ListsLike
<1>7. CASE r.got # "not empty" /\ r.got # Failed /\ Lists!Is("drops")
  <2> DEFINE list == DropFrom(ended.list, r.ask.id)
  <2>1. ui' = [ended EXCEPT !.list = list] /\ Lists!Done(r)
    BY <1>7 DEF Lists!Deleted, Lists!Drop, DropFrom
  <2> HIDE DEF ended
  <2>2. list = DropFrom(ui.list, r.ask.id)
    BY <1>3 DEF ListsStays
  <2> HIDE DEF list
  <2>3. /\ ui'.page = ui.page /\ ui'.list = list /\ ui'.left = ui.left /\ ui'.partial = ui.partial /\ ui'.failed = ui.failed
        /\ ui'.preview = ui.preview /\ ui'.chunks = ui.chunks /\ ui'.crossed = ui.crossed /\ ui'.error = ui.error
    BY <1>3, <2>1 DEF ListsStays, ListsLike, ListsApp
  <2>4. ListsDecided(r) /\ ~ListsFetches(r)
    BY <1>1, <1>7 DEF ListsDecided, ListsFetches, Acted
  <2> QED
    BY <1>1, <1>4, <2>1, <2>2, <2>3, <2>4, ListsEndsFresh
<1>8. CASE r.got # "not empty" /\ r.got # Failed /\ ~Lists!Is("drops")
  <2>1. Lists!Wrote(r, "delete", r.ask.id, Lists!NoTarget(ui))
    BY <1>8 DEF Lists!Deleted
  <2> QED
    BY <1>1, <1>2, <1>8, <2>1, ListsStaysAlong, ListsWroteFresh
<1> QED
  BY <1>5, <1>6, <1>7, <1>8

LEMMA ListsBulkFresh == ASSUME ListsIInv, ListsFreshInv, NEW r \in net, Lists!BulkDeleted(r) PROVE ListsFreshInv'
<1> DEFINE failed == ui.failed \cup {r.ask.batch}
           rested == [ui EXCEPT !.selected = {}]
           clears == FALSE
           last == ~\E q \in net \ {r} : q.ask.op = "delete" /\ q.ask.batch = r.ask.batch
<1>1. /\ r.ask.op = "delete" /\ r.ask.batch # 0
      /\ \/ ui' = [ui EXCEPT !.failed = failed, !.partial = TRUE] /\ Lists!Done(r)
         \/ ui' = Lists!Loading(rested) /\ Lists!Go(r, Lists!List(clears))
         \/ ~(last /\ r.ask.batch \notin ui.failed) /\ ui' = ui /\ Lists!Done(r)
  BY DEF Lists!BulkDeleted, Lists!Came
<1>2. CASE ui' = [ui EXCEPT !.failed = failed, !.partial = TRUE] /\ Lists!Done(r)
  <2> HIDE DEF failed
  <2>1. ui'.page = ui.page /\ ui'.partial /\ ui'.preview = ui.preview /\ ui'.chunks = ui.chunks /\ ui'.crossed = ui.crossed
    BY <1>2, ListsPage DEF ListsApp
  <2> QED
    BY <1>1, <1>2, <2>1, ListsEndsFresh
<1>3. CASE ui' = Lists!Loading(rested) /\ Lists!Go(r, Lists!List(clears))
  <2>1. ListsStays(rested)
    <3> DEFINE none == {}
    <3>1. none \in SUBSET Int /\ IsFiniteSet(none) /\ rested = [ui EXCEPT !.selected = none]
      BY FS_EmptySet
    <3> HIDE DEF none, rested
    <3> QED
      BY <3>1, ListsNow DEF ListsStays, ListsLike, ListsApp
  <2> HIDE DEF rested
  <2> QED
    BY <1>1, <1>3, <2>1, ListsStaysAlong, ListsRefetched
<1>4. CASE ~(last /\ r.ask.batch \notin ui.failed) /\ ui' = ui /\ Lists!Done(r)
  <2>1. ui.failed # {} => ui.partial
    BY DEF ListsFreshInv, ListsMarksInv
  <2>2. CASE ~last
    <3>1. \E q \in net : q # r /\ ListsFetches(q)
      BY <1>1, <2>2 DEF ListsFetches
    <3> QED
      BY <1>1, <1>4, <2>1, <3>1, ListsEndsFresh
  <2>3. CASE r.ask.batch \in ui.failed
    BY <1>1, <1>4, <2>1, <2>3, ListsEndsFresh
  <2> QED
    BY <1>4, <2>2, <2>3
<1> QED
  BY <1>1, <1>2, <1>3, <1>4

LEMMA ListsCreatedFresh ==
    ASSUME ListsIInv, ListsFreshInv, NEW r \in net, r.ask.op = "create", Lists!Created(r)
    PROVE  ListsFreshInv'
<1> DEFINE open == Lists!Is("stays") /\ ui.open
           after == [ui EXCEPT !.submitting = FALSE, !.open = open]
           clears == FALSE
<1>1. /\ r.got # Waiting
      /\ \/ Lists!Done(r) /\ ui' = [ui EXCEPT !.partial = TRUE]
         \/ Lists!Done(r) /\ ui' = [after EXCEPT !.left = TRUE]
         \/ Lists!Done(r) /\ r.got = Failed /\ ui' \in {ui, [ui EXCEPT !.submitting = FALSE]}
         \/ ui' = Lists!Loading(after) /\ Lists!Go(r, Lists!List(clears))
  <2>1. after = [ui EXCEPT !.submitting = FALSE, !.open = Lists!Is("stays") /\ @]
    OBVIOUS
  <2> QED
    BY <2>1 DEF Lists!Created, Lists!Answer, Lists!Done, Lists!Came
<1>2. ListsStays(after)
  <2>1. open \in BOOLEAN
    BY DEF Lists!Is
  <2> HIDE DEF open
  <2> QED
    BY <2>1, ListsNow DEF ListsStays, ListsLike, ListsApp
<1> HIDE DEF after
<1>3. ui.failed # {} => ui.partial
  BY DEF ListsFreshInv, ListsMarksInv
<1>4. CASE Lists!Done(r) /\ ui' = [ui EXCEPT !.partial = TRUE]
  <2>1. ui'.page = ui.page /\ ui'.partial /\ ui'.preview = ui.preview /\ ui'.chunks = ui.chunks /\ ui'.crossed = ui.crossed
    BY <1>4, ListsPage DEF ListsApp
  <2> QED
    BY <1>4, <2>1, ListsEndsFresh
<1>5. CASE Lists!Done(r) /\ ui' = [after EXCEPT !.left = TRUE]
  <2>1. /\ ui'.page = ui.page /\ ui'.left /\ ui'.partial = ui.partial /\ ui'.failed = ui.failed
        /\ ui'.preview = ui.preview /\ ui'.chunks = ui.chunks /\ ui'.crossed = ui.crossed
    BY <1>2, <1>5 DEF ListsStays, ListsLike, ListsApp
  <2> QED
    BY <1>3, <1>5, <2>1, ListsEndsFresh
<1>6. CASE Lists!Done(r) /\ r.got = Failed /\ ui' \in {ui, [ui EXCEPT !.submitting = FALSE]}
  <2>1. /\ ui'.page = ui.page /\ ui'.list = ui.list /\ ui'.left = ui.left /\ ui'.partial = ui.partial /\ ui'.failed = ui.failed
        /\ ui'.preview = ui.preview /\ ui'.chunks = ui.chunks /\ ui'.crossed = ui.crossed /\ ui'.error = ui.error
    BY <1>6, ListsPage DEF ListsApp
  <2>2. ~ListsDecided(r) /\ ~ListsFetches(r)
    BY <1>6 DEF ListsDecided, ListsFetches, Acted
  <2> QED
    BY <1>3, <1>6, <2>1, <2>2, ListsEndsFresh
<1>7. CASE ui' = Lists!Loading(after) /\ Lists!Go(r, Lists!List(clears))
  BY <1>2, <1>7, ListsStaysAlong, ListsRefetched
<1> QED
  BY <1>1, <1>4, <1>5, <1>6, <1>7

LEMMA ListsToggledFresh ==
    ASSUME ListsIInv, ListsFreshInv, NEW r \in net, Lists!Toggled(r) \/ Lists!Tested(r) \/ Lists!ChunksFetched(r)
    PROVE  ListsFreshInv'
<1>1. ui.failed # {} => ui.partial
  BY DEF ListsFreshInv, ListsMarksInv
<1>2. CASE Lists!Toggled(r)
  <2>1. r.ask.op = "toggle" /\ Lists!Wrote(r, "toggle", r.ask.id, ui)
    BY <1>2 DEF Lists!Toggled, Lists!Came
  <2>2. ~Lists!Is("drops")
    BY <2>1, ListsPage, ListsFeatures DEF ListsIInv, ListsFromInv, ListsMayAsk
  <2> QED
    BY <2>1, <2>2, ListsAskIds, ListsStaysAlong, ListsWroteFresh
<1>3. CASE Lists!Tested(r)
  <2>1. r.ask.op = "test" /\ ui' = Lists!Ended(r.ask.id) /\ Lists!Done(r)
    BY <1>3 DEF Lists!Tested, Lists!Answer, Lists!Came, Lists!Done
  <2>2. ListsStays(ui') /\ ui'.error = ui.error
    BY <2>1, ListsAskIds, ListsStaysAlong
  <2>3. ~ListsDecided(r) /\ ~ListsFetches(r)
    BY <2>1 DEF ListsDecided, ListsFetches
  <2> QED
    BY <1>1, <2>1, <2>2, <2>3, ListsEndsFresh DEF ListsStays, ListsLike
<1>4. CASE Lists!ChunksFetched(r)
  <2> DEFINE chunks == IF r.got = Failed THEN None ELSE r.ask.id
             crossed == r.got = Failed \/ r.ask.id # ui.preview
  <2>1. r.ask.op = "chunks" /\ ui' = [ui EXCEPT !.chunks = chunks, !.crossed = crossed] /\ Lists!Done(r)
    BY <1>4 DEF Lists!ChunksFetched, Lists!Came
  <2>2. crossed \/ chunks = ui.preview
    OBVIOUS
  <2> HIDE DEF chunks, crossed
  <2>3. /\ ui'.page = ui.page /\ ui'.list = ui.list /\ ui'.left = ui.left /\ ui'.partial = ui.partial /\ ui'.failed = ui.failed
        /\ ui'.preview = ui.preview /\ ui'.chunks = chunks /\ ui'.crossed = crossed /\ ui'.error = ui.error
    BY <2>1, ListsPage DEF ListsApp
  <2>4. ~ListsDecided(r) /\ ~ListsFetches(r)
    BY <2>1 DEF ListsDecided, ListsFetches
  <2> QED
    BY <1>1, <2>1, <2>2, <2>3, <2>4, ListsEndsFresh
<1> QED
  BY <1>2, <1>3, <1>4
-----------------------------------------------------------------------------
\* Nothing is claimed any more of what the page was told.
LEMMA ListsRacedFresh ==
    ASSUME ListsFreshInv, raced', UNCHANGED ui, \A q \in net : \E p \in net' : p.ask = q.ask,
           \A p \in net' : \E q \in net : p.ask = q.ask
    PROVE  ListsFreshInv'
<1>1. ListsMarksInv'
  BY ListsSame DEF ListsFreshInv, ListsMarksInv
<1>2. ListsChunksInv'
  BY DEF ListsFreshInv, ListsChunksInv
<1> QED
  BY <1>1, <1>2 DEF ListsFreshInv, ListsAnswersInv, ListsShownInv

\* No collection comes to hold documents.
LEMMA ListsCollections ==
    ASSUME ListsIInv, ui.page = "collections", NEW r \in net, server' = server \/ (~Lists!Refused(r) /\ server' = Lists!Effect(r)),
           NEW i, i \in DOMAIN server'.items, server'.items[i] = "on"
    PROVE  i \in DOMAIN server.items /\ server.items[i] = "on"
<1>1. r.ask.op # "toggle" /\ Lists!New = "off"
  BY ListsPage, ListsFeatures DEF ListsIInv, ListsFromInv, ListsMayAsk, Lists!New
<1>2. CASE server' = server
  BY <1>2
<1>3. CASE server' = Lists!Effect(r) /\ r.ask.op = "create"
  <2>1. server' = [server EXCEPT !.items = PutIn(server.items, r.ask.name, "off")]
    BY <1>1, <1>3 DEF Lists!Effect, Lists!Purges, Lists!Put, PutIn
  <2>2. server'.items = PutIn(server.items, r.ask.name, "off")
    BY <2>1, ListsPage DEF ListsServer
  <2> QED
    BY <2>2 DEF PutIn
<1>4. CASE server' = Lists!Effect(r) /\ r.ask.op = "delete" /\ ~Lists!NotEmpty(r)
  <2>1. server' = [server EXCEPT !.items = DropFrom(server.items, r.ask.id)]
    BY <1>4 DEF Lists!Effect, Lists!Purges, Lists!Drop, DropFrom
  <2>2. server'.items = DropFrom(server.items, r.ask.id)
    BY <2>1, ListsPage DEF ListsServer
  <2> QED
    BY <2>2 DEF DropFrom
<1>5. CASE server' = Lists!Effect(r) /\ r.ask.op # "create" /\ ~(r.ask.op = "delete" /\ ~Lists!NotEmpty(r))
  BY <1>1, <1>5 DEF Lists!Effect, Lists!Purges
<1> QED
  BY <1>2, <1>3, <1>4, <1>5

\* A request is served: what it changes on the gateway is shown once its answer has come.
LEMMA ListsServesFresh ==
    ASSUME ListsIInv, ListsFreshInv, Lists!Serve(Lists!Refused, Lists!Effect, Lists!Reply) \/ Lists!RepeatOne(Lists!SentByRequest, Lists!Refused, Lists!Effect, Lists!Same)
    PROVE  ListsFreshInv'
<1>1. \A r \in net : Lists!Reply(r) \in ListsGots
  BY ListsPage DEF Lists!Reply, ListsGots
<1> SUFFICES ASSUME ~raced'
             PROVE  ListsFreshInv'
  <2>1. PICK r \in net : \E new \in [net -> ListsSent] : Serves(r, new)
    BY <1>1, ListsPage, ListsServing
  <2>2. PICK new \in [net -> ListsSent] : Serves(r, new)
    BY <2>1
  <2>3. /\ UNCHANGED ui /\ \A q \in net : \E p \in net' : p.ask = q.ask
        /\ \A p \in net' : \E q \in net : p.ask = q.ask
    BY <2>2 DEF Serves
  <2> QED
    BY <2>3, ListsRacedFresh
<1>2. PICK r \in net : \E new \in [net -> ListsSent] :
              /\ r.got = Waiting /\ Serves(r, new) /\ ~raced
              /\ \/ ~Lists!Refused(r) /\ new[r].got = Lists!Reply(r) /\ server' = Lists!Effect(r)
                 \/ new[r].got = Failed /\ server' = server /\ r.acts = 0
                 \/ /\ ~Lists!Refused(r) /\ new[r].got = Waiting /\ new[r].acts # 0 /\ server' = Lists!Effect(r)
                    /\ server' # server
  BY <1>1, ListsPage, ListsServingOnTime
<1>3. PICK new \in [net -> ListsSent] :
              /\ r.got = Waiting /\ Serves(r, new) /\ ~raced
              /\ \/ ~Lists!Refused(r) /\ new[r].got = Lists!Reply(r) /\ server' = Lists!Effect(r)
                 \/ new[r].got = Failed /\ server' = server /\ r.acts = 0
                 \/ /\ ~Lists!Refused(r) /\ new[r].got = Waiting /\ new[r].acts # 0 /\ server' = Lists!Effect(r)
                    /\ server' # server
  BY <1>2
<1>4. ui' = ui /\ net' = {new[q] : q \in net}
  BY <1>3 DEF Serves
<1>5. \A q \in net : /\ new[q] \in net' /\ new[q].ask = q.ask
                     /\ q # r => new[q].got = q.got /\ new[q].acts = q.acts
  BY <1>3 DEF Serves
<1>6. \A q : (ListsDecided(q)' <=> ListsDecided(q)) /\ (ListsFetches(q)' <=> ListsFetches(q))
  BY <1>4, ListsSameAsks
<1>7. \A q \in net : q # r => (ListsDecided(new[q]) <=> ListsDecided(q)) /\ (ListsFetches(new[q]) <=> ListsFetches(q))
  BY <1>5 DEF ListsDecided, ListsFetches, Acted
<1>8. ListsDecided(r) => Lists!Refused(r) /\ r.acts # 0
  <2>1. ListsDecided(r) => r.ask.id \notin DOMAIN server.items /\ ~Lists!Is("stored") /\ r.acts # 0
    BY <1>3, ListsPage, ListsFeatures DEF ListsFreshInv, ListsAnswersInv, ListsDecided, Acted
  <2> QED
    BY <2>1 DEF ListsDecided, Lists!Refused
<1>9. Lists!Is("drops") => \A q \in net : /\ q.ask.op \notin {"create", "toggle"}
                                          /\ q.ask.op = "delete" => q.ask.batch = 0
                                          /\ ~Lists!NotEmpty(q)
  BY ListsPage, ListsFeatures DEF ListsFreshInv, ListsMarksInv, ListsIInv, ListsFromInv, ListsMayAsk, Lists!NotEmpty
<1>10. \A q \in net : q # r => ListsEmptied(new[q])'
  <2> SUFFICES ASSUME NEW q \in net, q # r, q.ask.op = "delete", q.got = Waiting, q.acts # 0,
                      q.ask.id \in DOMAIN server'.items, ui.page = "collections", server'.items[q.ask.id] = "on"
               PROVE  q.ask.force
    BY <1>4, <1>5 DEF ListsEmptied, Lists!NotEmpty
  <2>1. q.ask.id \in DOMAIN server.items /\ server.items[q.ask.id] = "on"
    BY <1>3, ListsCollections
  <2>2. ListsEmptied(q)
    BY <1>3 DEF ListsFreshInv, ListsAnswersInv
  <2> QED
    BY <2>1, <2>2 DEF ListsEmptied, Lists!NotEmpty
<1>11. CASE new[r].got = Failed /\ server' = server /\ r.acts = 0
  <2>1. ListsAnswersInv'
    <3>1. ASSUME NEW p \in net'
          PROVE  /\ p.ask.op = "list" /\ OnTime(p) => p.got = server'.items
                 /\ ListsDecided(p) => p.ask.id \notin DOMAIN server'.items
                 /\ ListsEmptied(p)'
      <4>1. PICK q \in net : p = new[q]
        BY <1>4
      <4>2. CASE q = r
        BY <1>11, <4>1, <4>2, RepliesApart DEF OnTime, Served, Acted, ListsDecided, ListsEmptied
      <4>3. CASE q # r
        <5>1. OnTime(p) => OnTime(q)
          BY <1>3, <4>1, <4>3, OnTimeAfter
        <5> QED
          BY <1>3, <1>5, <1>7, <1>10, <1>11, <4>1, <4>3, <5>1 DEF ListsFreshInv, ListsAnswersInv
      <4> QED
        BY <4>2, <4>3
    <3> QED
      BY <1>6, <3>1 DEF ListsAnswersInv
  <2>2. ListsMarksInv' /\ ListsChunksInv'
    BY <1>4, <1>5, ListsSame DEF ListsFreshInv, ListsMarksInv, ListsChunksInv
  <2>3. ~ListsDecided(new[r]) /\ (ListsFetches(r) => ListsFetches(new[r]))
    BY <1>3, <1>5, <1>11 DEF ListsDecided, ListsFetches, Acted
  <2>4. ListsGone' = ListsGone
    <3>1. \A q \in net : (ListsDecided(new[q]) <=> ListsDecided(q)) /\ new[q].ask.id = q.ask.id
      BY <1>5, <1>7, <1>8, <1>11, <2>3
    <3> QED
      BY <1>4, <1>6, <3>1 DEF ListsGone
  <2>5. (\E q \in net : ListsFetches(q)) => \E p \in net' : ListsFetches(p)'
    BY <1>5, <1>6, <1>7, <2>3
  <2>6. ListsLeft(ui.list)' = ListsLeft(ui.list)
    BY <1>4, <2>4 DEF ListsLeft
  <2>7. ListsShownInv'
    BY <1>3, <1>4, <1>11, <2>5, <2>6 DEF ListsFreshInv, ListsShownInv
  <2> QED
    BY <2>1, <2>2, <2>7 DEF ListsFreshInv
<1>12. CASE /\ ~Lists!Refused(r) /\ server' = Lists!Effect(r)
            /\ \/ new[r].got = Lists!Reply(r)
               \/ new[r].got = Waiting /\ new[r].acts # 0 /\ server' # server
  <2>1. /\ r.ask.op = "list" => Lists!Reply(r) = server.items
        /\ r.ask.op \in {"list", "test", "chunks"} => Lists!Effect(r) = server
        /\ r.ask.op = "delete" /\ Lists!NotEmpty(r) => Lists!Reply(r) = "not empty" /\ Lists!Effect(r) = server
        /\ r.ask.op # "list" /\ ~Lists!NotEmpty(r) => Lists!Reply(r) = "done"
    BY DEF Lists!Reply, Lists!Effect, Lists!NotEmpty, Lists!Purges
  <2>2. r.ask.op \in {"list", "create", "delete", "toggle", "test", "chunks"}
    <3>1. r.ask \in ListsAsks
      BY ListsPage DEF ListsSent
    <3> QED
      BY <3>1 DEF ListsAsks
  <2>3. Lists!Is("drops") /\ r.ask.op = "delete" =>
           ListsDecided(new[r]) /\ server'.items = DropFrom(server.items, r.ask.id)
    <3>1. ASSUME Lists!Is("drops"), r.ask.op = "delete"
          PROVE  ListsDecided(new[r]) /\ server'.items = DropFrom(server.items, r.ask.id)
      <4>1. Lists!Reply(r) = "done" /\ Lists!Effect(r) = [server EXCEPT !.items = DropFrom(server.items, r.ask.id)]
        BY <1>9, <3>1 DEF Lists!Reply, Lists!Effect, Lists!Drop, DropFrom
      <4> QED
        BY <1>5, <1>12, <3>1, <4>1, ListsPage, RepliesApart DEF ListsDecided, Acted, ListsServer
    <3> QED
      BY <3>1
  <2>4. ~(Lists!Is("drops") /\ r.ask.op = "delete") =>
           ~ListsDecided(new[r]) /\ (server' = server \/ ListsFetches(new[r]))
    <3>1. ASSUME ~(Lists!Is("drops") /\ r.ask.op = "delete"), server' # server
          PROVE  ListsFetches(new[r])
      <4>1. r.ask.op \in {"create", "delete", "toggle"} /\ ~Lists!NotEmpty(r)
        BY <1>12, <2>1, <2>2, <3>1 DEF Lists!NotEmpty
      <4>2. new[r].got \in {"done", Waiting} /\ Acted(new[r]) /\ new[r].got # "not empty"
        BY <1>12, <2>1, <4>1, RepliesApart DEF Acted
      <4> QED
        BY <1>5, <3>1, <4>1, <4>2 DEF ListsFetches
    <3> QED
      BY <1>5, <3>1 DEF ListsDecided
  <2>5. ListsFetches(r) => ListsFetches(new[r])
    <3>1. ASSUME Acted(r), r.ask.op \in {"create", "toggle", "delete"}
          PROVE  Acted(new[r]) /\ new[r].got # "not empty"
      <4>1. r.acts # 0
        BY <1>3, <3>1 DEF Acted
      <4>2. r.ask.op = "delete" => ~Lists!NotEmpty(r)
        <5>1. ASSUME Lists!NotEmpty(r)
              PROVE  FALSE
          <6>1. r.ask.op = "delete" /\ ui.page = "collections"
            BY <5>1 DEF Lists!NotEmpty
          <6>2. ~Lists!Is("stored") /\ ListsEmptied(r)
            BY <1>3, <6>1, ListsPage, ListsFeatures DEF ListsFreshInv, ListsAnswersInv
          <6>3. r.ask.id \in DOMAIN server.items
            BY <1>12, <6>1, <6>2 DEF Lists!Refused
          <6> QED
            BY <1>3, <4>1, <5>1, <6>1, <6>2, <6>3 DEF ListsEmptied
        <5> QED
          BY <5>1
      <4>3. new[r].got \in {"done", Waiting} /\ (new[r].got = Waiting => new[r].acts # 0)
        BY <1>12, <2>1, <3>1, <4>2, RepliesApart DEF Lists!NotEmpty
      <4> QED
        BY <4>3, RepliesApart DEF Acted
    <3> QED
      BY <1>5, <3>1 DEF ListsFetches
  <2>6. ASSUME NEW q \in net, Lists!Is("drops")
        PROVE  DOMAIN server'.items \subseteq DOMAIN server.items
    <3>1. CASE r.ask.op = "delete"
      BY <2>3, <2>6, <3>1 DEF DropFrom
    <3>2. CASE r.ask.op # "delete"
      <4>1. server' = server
        BY <1>9, <1>12, <2>1, <2>2, <2>6, <3>2
      <4> QED
        BY <4>1
    <3> QED
      BY <3>1, <3>2
  <2>7. ASSUME NEW p \in net'
        PROVE  /\ p.ask.op = "list" /\ OnTime(p) => p.got = server'.items
               /\ ListsDecided(p) => p.ask.id \notin DOMAIN server'.items
               /\ ListsEmptied(p)'
    <3>1. PICK q \in net : p = new[q]
      BY <1>4
    <3>2. CASE q = r
      <4>1. p.ask.op = "list" /\ OnTime(p) => p.got = server'.items
        BY <1>5, <1>12, <2>1, <3>1, <3>2 DEF OnTime, Served
      <4>2. ListsDecided(p) => p.ask.id \notin DOMAIN server'.items
        BY <1>5, <2>3, <2>4, <3>1, <3>2 DEF DropFrom
      <4>3. ListsEmptied(p)'
        <5> SUFFICES ASSUME p.ask.op = "delete", p.got = Waiting
                     PROVE  r.ask.id \notin DOMAIN server'.items
          BY <1>5, <3>1, <3>2 DEF ListsEmptied
        <5>1. r.ask.op = "delete" /\ ~Lists!NotEmpty(r)
          BY <1>5, <1>12, <2>1, <3>1, <3>2, RepliesApart
        <5>2. Lists!Effect(r) = [server EXCEPT !.items = DropFrom(server.items, r.ask.id)]
          BY <5>1 DEF Lists!Effect, Lists!Purges, Lists!Drop, DropFrom
        <5> QED
          BY <1>12, <5>2, ListsPage DEF ListsServer, DropFrom
      <4> QED
        BY <4>1, <4>2, <4>3
    <3>3. CASE q # r
      <4>1. OnTime(p) => OnTime(q) /\ server' = server
        BY <1>3, <3>1, <3>3, OnTimeAfter
      <4>2. ListsDecided(p) => ListsDecided(q) /\ Lists!Is("drops")
        BY <1>7, <3>1, <3>3 DEF ListsDecided
      <4> QED
        BY <1>3, <1>5, <1>10, <2>6, <3>1, <3>3, <4>1, <4>2 DEF ListsFreshInv, ListsAnswersInv
    <3> QED
      BY <3>2, <3>3
  <2>8. ListsAnswersInv'
    BY <1>6, <2>7 DEF ListsAnswersInv
  <2>9. ListsMarksInv' /\ ListsChunksInv'
    BY <1>4, <1>5, ListsSame DEF ListsFreshInv, ListsMarksInv, ListsChunksInv
  <2>10. (\E q \in net : ListsFetches(q)) => \E p \in net' : ListsFetches(p)'
    BY <1>5, <1>6, <1>7, <2>5
  <2>11. CASE Lists!Is("drops") /\ r.ask.op = "delete"
    <3>1. ListsGone' = ListsGone \cup {r.ask.id}
      <4>1. \A q \in net : ListsDecided(new[q]) <=> ListsDecided(q) \/ q = r
        BY <1>7, <2>3, <2>11
      <4> QED
        BY <1>4, <1>5, <1>6, <4>1 DEF ListsGone
    <3>2. ListsLeft(ui.list)' = DropFrom(ListsLeft(ui.list), r.ask.id)
      <4>1. DOMAIN ui.list \ ListsGone' = (DOMAIN ui.list \ ListsGone) \ {r.ask.id}
        BY <3>1
      <4> QED
        BY <1>4, <4>1 DEF ListsLeft, DropFrom
    <3>3. ListsLeft(ui.list) = server.items => ListsLeft(ui.list)' = server'.items
      BY <2>3, <2>11, <3>2
    <3>4. ListsShownInv'
      BY <1>3, <1>4, <2>10, <3>3 DEF ListsFreshInv, ListsShownInv
    <3> QED
      BY <2>8, <2>9, <3>4 DEF ListsFreshInv
  <2>12. CASE ~(Lists!Is("drops") /\ r.ask.op = "delete")
    <3>1. ListsGone' = ListsGone
      <4>1. \A q \in net : ListsDecided(new[q]) <=> ListsDecided(q)
        BY <1>7, <1>8, <1>12, <2>4, <2>12
      <4> QED
        BY <1>4, <1>5, <1>6, <4>1 DEF ListsGone
    <3>2. ListsLeft(ui.list)' = ListsLeft(ui.list)
      BY <1>4, <3>1 DEF ListsLeft
    <3>3. server' = server \/ \E p \in net' : ListsFetches(p)'
      BY <1>5, <1>6, <2>4, <2>12
    <3>4. ListsShownInv'
      BY <1>3, <1>4, <2>10, <3>2, <3>3 DEF ListsFreshInv, ListsShownInv
    <3> QED
      BY <2>8, <2>9, <3>4 DEF ListsFreshInv
  <2> QED
    BY <2>11, <2>12
<1> QED
  BY <1>3, <1>11, <1>12

LEMMA ListsNextFresh == ListsIInv /\ ListsFreshInv /\ [Lists!Next]_(Lists!vars) => ListsFreshInv'
<1> SUFFICES ASSUME ListsIInv, ListsFreshInv, [Lists!Next]_(Lists!vars) PROVE ListsFreshInv'
  OBVIOUS
<1>1. CASE UNCHANGED Lists!vars
  <2>1. UNCHANGED <<ui, net, server, raced>>
    BY <1>1 DEF Lists!vars
  <2> QED
    BY <2>1, ListsAskedFresh
<1>2. CASE Lists!Next
  <2>1. \/ Lists!OpenForm \/ Lists!CloseForm \/ Lists!Cancel \/ Lists!ClosePreview
        \/ \E i \in DOMAIN ui.list : Lists!ChooseTarget(i) \/ Lists!Select(i)
        \/ Lists!Refresh \/ Lists!Retry \/ Lists!TryConnection \/ Lists!Submit \/ Lists!Confirm
        \/ \E i \in DOMAIN ui.list : Lists!DeleteNow(i) \/ Lists!Toggle(i) \/ Lists!Test(i)
        \/ \E i \in DOMAIN ui.list : Lists!Preview(i)
        \/ Lists!DeleteSelected \/ Lists!OthersChange
        \/ \E r \in net :
              \/ Lists!ListFetched(r) \/ Lists!Deleted(r) \/ Lists!BulkDeleted(r) \/ Lists!Toggled(r) \/ Lists!Tested(r)
              \/ Lists!ChunksFetched(r) \/ (r.ask.op = "create" /\ Lists!Created(r))
        \/ Lists!Serve(Lists!Refused, Lists!Effect, Lists!Reply) \/ Lists!RepeatOne(Lists!SentByRequest, Lists!Refused, Lists!Effect, Lists!Same)
    BY <1>2 DEF Lists!Next
  <2>2. CASE Lists!OthersChange
    <3>1. raced' = TRUE /\ UNCHANGED <<ui, net>>
      BY <2>2 DEF Lists!OthersChange
    <3>2. ListsMarksInv' /\ ListsChunksInv'
      BY <3>1, ListsSame DEF ListsFreshInv, ListsMarksInv, ListsChunksInv
    <3> QED
      BY <3>1, <3>2 DEF ListsFreshInv, ListsAnswersInv, ListsShownInv
  <2> QED
    BY <2>1, <2>2, ListsLocalFresh, ListsButtonFresh, ListsPreviewFresh, ListsSelectedFresh, ListsFetchedFresh, ListsDeletedFresh,
       ListsBulkFresh, ListsToggledFresh, ListsCreatedFresh, ListsServesFresh
<1> QED
  BY <1>1, <1>2

LEMMA ListsShowFresh == ListsIInv /\ ListsFreshInv => Lists!Fresh
<1> SUFFICES ASSUME ListsIInv, ListsFreshInv, net = {}, ~raced, ~ui.error, ~ui.left, ~ui.partial
             PROVE  ui.list = server.items /\ (ui.preview # None /\ ~ui.crossed => ui.chunks = ui.preview)
  BY DEF Lists!Fresh, Lists!Quiet
<1>1. ListsGone = {}
  BY DEF ListsGone
<1>2. ui.list = [i \in DOMAIN ui.list |-> ui.list[i]]
  BY ListsPage, MapFacts DEF ListsApp, ListsItems
<1>3. ListsLeft(ui.list) = ui.list
  BY <1>1, <1>2 DEF ListsLeft
<1> QED
  BY <1>3 DEF ListsFreshInv, ListsShownInv, ListsChunksInv
-----------------------------------------------------------------------------
(* The registry of MCP servers and their tools. *)

McpRow == [internal : BOOLEAN, name : {"internal", "old", "new"}, health : {"healthy", "unhealthy", "unknown"}]
McpTool == [server : Int, enabled : BOOLEAN]
McpServers == Maps(Int, McpRow)
McpTools == Maps(Int, McpTool)
McpMaybe == Int \cup {None}
McpForms == {None, <<>>} \cup {<<s>> : s \in Int}
McpApp ==
    [servers : McpServers, tools : McpTools, loading : BOOLEAN, error : BOOLEAN, form : McpForms,
     submitting : BOOLEAN, target : McpMaybe, testing : [tool : Int, server : Int] \cup {None}, result : McpMaybe,
     executing : BOOLEAN, moved : BOOLEAN, crossed : BOOLEAN]
McpServer == [servers : McpServers, tools : McpTools, up : BOOLEAN, overlapped : BOOLEAN]
McpLists == [servers : McpServers, tools : McpTools]

McpReads == (SUBSET Int) \cup {None}
McpSync == [op : {"sync"}, id : Int, read : McpReads]
McpCreate == [op : {"create"}, id : McpMaybe, read : McpReads]
McpAsks ==
    [op : {"fetch"}] \cup [op : {"update", "delete", "health", "toggle"}, id : Int] \cup McpSync \cup McpCreate
    \cup [op : {"test"}, id : Int, tool : Int]
McpGots == {Waiting, Failed, "done"} \cup McpLists
McpSent == [id : Int, ask : McpAsks, got : McpGots, late : BOOLEAN, acts : Nat]

McpTypeInv ==
    /\ ui \in McpApp /\ server \in McpServer /\ net \subseteq McpSent /\ sent \in Nat
    /\ \A r \in net : r.ask.op = "fetch" /\ r.got \notin {Waiting, Failed} => r.got \in McpLists

McpBusyInv ==
    /\ ui.loading => \E r \in net : r.ask.op = "fetch"
    /\ ui.submitting => \E r \in net : r.ask.op \in {"create", "update"}
    /\ ui.executing => \E r \in net : r.ask.op = "test"

\* A tool is of a server there is, and, unless discoveries overlapped, the only one.
McpRowsIn(held) ==
    /\ \A t \in DOMAIN held.tools : held.tools[t].server \in DOMAIN held.servers
    /\ ~held.overlapped =>
          \A t, u \in DOMAIN held.tools : held.tools[t].server = held.tools[u].server => t = u

McpIInv == McpTypeInv /\ McpBusyInv /\ McpRowsIn(server)

LEMMA McpAsks1 ==
    ASSUME NEW ask
    PROVE  /\ Mcp!Send(<<ask>>) => net' = net \cup {NewRequest(sent, ask)} /\ sent' = sent + 1 /\ UNCHANGED server
           /\ \A r : Mcp!Go(r, <<ask>>) =>
                net' = (net \ {r}) \cup {NewRequest(sent, ask)} /\ sent' = sent + 1 /\ UNCHANGED server
<1>1. Mcp!Requests(<<ask>>) = {NewRequest(sent, ask)} /\ Len(<<ask>>) = 1
  BY OneAsked DEF Mcp!Requests, Mcp!Request
<1> QED
  BY <1>1 DEF Mcp!Send, Mcp!Go

LEMMA McpEnds ==
    ASSUME NEW r, sent \in Nat, Mcp!Done(r)
    PROVE  net' = net \ {r} /\ UNCHANGED <<sent, server>>
<1>1. Mcp!Requests(<<>>) = {} /\ Len(<<>>) = 0
  BY NoneAsked DEF Mcp!Requests, Mcp!Request
<1> QED
  BY <1>1 DEF Mcp!Done, Mcp!Go


LEMMA McpInitIInv == Mcp!Init => McpIInv
<1> SUFFICES ASSUME Mcp!Init PROVE McpIInv
  OBVIOUS
<1> DEFINE ask == [op |-> "fetch"]
           empty == Mcp!Empty
           servers == <<Mcp!Server(TRUE, "internal", "healthy"), Mcp!Server(FALSE, "old", "unknown")>>
           tools == <<Mcp!Tool(1)>>
<1>1. PICK up \in BOOLEAN :
        /\ ui = [servers |-> empty, tools |-> empty, loading |-> TRUE, error |-> FALSE,
                 form |-> None, submitting |-> FALSE, target |-> None,
                 testing |-> None, result |-> None, executing |-> FALSE, moved |-> FALSE, crossed |-> FALSE]
        /\ server = [servers |-> servers, tools |-> tools, up |-> up, overlapped |-> FALSE]
        /\ net = {Mcp!Request(i, <<ask>>[i]) : i \in DOMAIN <<ask>>} /\ sent = Len(<<ask>>)
  BY DEF Mcp!Init, Mcp!Started, Mcp!Fetch
<1>2. net = {FirstRequest(1, ask)} /\ sent = 1
  BY <1>1, StartedWithOne DEF Mcp!Request
<1>3. ask \in McpAsks /\ ask.op = "fetch"
  BY DEF McpAsks
<1>4. empty \in McpServers /\ empty \in McpTools
  <2>1. empty \in [{} -> McpRow] /\ empty \in [{} -> McpTool]
    BY DEF Mcp!Empty
  <2> QED
    BY <2>1, MapIs DEF McpServers, McpTools
<1>5. servers \in McpServers /\ DOMAIN servers = 1 .. 2
  <2> DEFINE a == Mcp!Server(TRUE, "internal", "healthy")
             b == Mcp!Server(FALSE, "old", "unknown")
  <2>1. a \in McpRow /\ b \in McpRow
    BY DEF Mcp!Server, McpRow
  <2> HIDE DEF a, b
  <2>2. <<a, b>> \in [1 .. 2 -> McpRow] /\ 1 .. 2 \subseteq Int /\ DOMAIN <<a, b>> = 1 .. 2
    BY <2>1
  <2> QED
    BY <2>2, MapIs DEF McpServers, a, b
<1>6. tools \in McpTools /\ DOMAIN tools = {1} /\ tools[1].server = 1
  <2> DEFINE a == Mcp!Tool(1)
  <2>1. a \in McpTool /\ a.server = 1
    BY DEF Mcp!Tool, McpTool
  <2> HIDE DEF a
  <2>2. <<a>> \in [{1} -> McpTool] /\ {1} \subseteq Int /\ <<a>>[1] = a /\ DOMAIN <<a>> = {1}
    BY <2>1
  <2> QED
    BY <2>1, <2>2, MapIs DEF McpTools, a
<1>7. None \in McpMaybe /\ None \in McpForms
  BY DEF McpMaybe, McpForms
<1> HIDE DEF ask, empty, servers, tools
<1>8. ui \in McpApp /\ ui.submitting = FALSE /\ ui.executing = FALSE
  BY <1>1, <1>4, <1>7 DEF McpApp
<1>9. server \in McpServer /\ server.servers = servers /\ server.tools = tools
  BY <1>1, <1>5, <1>6 DEF McpServer
<1>10. /\ FirstRequest(1, ask) \in McpSent /\ FirstRequest(1, ask).ask = ask /\ FirstRequest(1, ask).got = Waiting
       /\ FirstRequest(1, ask).id = 1
  BY <1>3 DEF FirstRequest, McpSent, McpGots
<1>11. McpTypeInv
  BY <1>2, <1>8, <1>9, <1>10 DEF McpTypeInv
<1>12. McpBusyInv
  BY <1>2, <1>3, <1>5, <1>8, <1>9, <1>10 DEF McpBusyInv
<1>13. McpRowsIn(server)
  BY <1>5, <1>6, <1>9 DEF McpRowsIn
<1> QED
  BY <1>11, <1>12, <1>13 DEF McpIInv
-----------------------------------------------------------------------------
LEMMA McpPage ==
    ASSUME McpIInv
    PROVE  /\ ui \in McpApp /\ server \in McpServer /\ net \subseteq McpSent /\ sent \in Nat
           /\ server.servers \in [DOMAIN server.servers -> McpRow] /\ DOMAIN server.servers \subseteq Int
           /\ server.tools \in [DOMAIN server.tools -> McpTool] /\ DOMAIN server.tools \subseteq Int
<1>1. ui \in McpApp /\ server \in McpServer /\ net \subseteq McpSent /\ sent \in Nat
  BY DEF McpIInv, McpTypeInv
<1>2. server.servers \in McpServers /\ server.tools \in McpTools
  BY <1>1 DEF McpServer
<1> QED
  BY <1>1, <1>2, MapFacts DEF McpServers, McpTools

LEMMA McpOnScreen ==
    ASSUME McpIInv
    PROVE  /\ ui.tools \in [DOMAIN ui.tools -> McpTool] /\ DOMAIN ui.tools \subseteq Int
           /\ DOMAIN ui.servers \subseteq Int
<1>1. ui.servers \in McpServers /\ ui.tools \in McpTools
  BY McpPage DEF McpApp
<1> QED
  BY <1>1, MapFacts DEF McpServers, McpTools

\* A page that sends a request, or whose request ends.
LEMMA McpNetStep ==
    ASSUME McpIInv, UNCHANGED server, ui' \in McpApp, McpBusyInv',
           \/ sent' = sent /\ net' \subseteq net
           \/ sent' = sent + 1 /\ \E ask \in McpAsks : net' \subseteq net \cup {NewRequest(sent, ask)}
    PROVE  McpIInv'
<1>1. \A ask \in McpAsks : /\ NewRequest(sent, ask) \in McpSent /\ NewRequest(sent, ask).got = Waiting
                           /\ NewRequest(sent, ask).ask = ask /\ NewRequest(sent, ask).id = sent + 1
  <2>1. Waiting \in McpGots /\ sent + 1 \in Int
    BY McpPage DEF McpGots
  <2> QED
    BY <2>1 DEF NewRequest, McpSent
<1>2. McpTypeInv'
  BY <1>1 DEF McpIInv, McpTypeInv
<1>3. McpRowsIn(server)'
  BY DEF McpIInv, McpRowsIn
<1> QED
  BY <1>2, <1>3 DEF McpIInv

LEMMA McpSendStep ==
    ASSUME McpIInv, ui' \in McpApp, NEW ask \in McpAsks, Mcp!Send(<<ask>>),
           ui'.loading => ui.loading \/ ask.op = "fetch",
           ui'.submitting => ui.submitting \/ ask.op \in {"create", "update"},
           ui'.executing => ui.executing \/ ask.op = "test"
    PROVE  McpIInv'
<1>1. net' = net \cup {NewRequest(sent, ask)} /\ sent' = sent + 1 /\ UNCHANGED server
  BY McpAsks1
<1>2. NewRequest(sent, ask).ask = ask
  BY DEF NewRequest
<1>3. McpBusyInv'
  BY <1>1, <1>2 DEF McpIInv, McpBusyInv
<1> QED
  BY <1>1, <1>3, McpNetStep

LEMMA McpLocalStep ==
    ASSUME McpIInv, UNCHANGED <<net, server, sent>>, ui' \in McpApp,
           ui'.loading = ui.loading, ui'.submitting = ui.submitting, ui'.executing = ui.executing
    PROVE  McpIInv'
<1>1. McpBusyInv'
  BY DEF McpIInv, McpBusyInv
<1> QED
  BY <1>1, McpNetStep

LEMMA McpLoading ==
    ASSUME NEW state, state \in McpApp
    PROVE  LET l == Mcp!Loading(state)
           IN  l \in McpApp /\ l.submitting = state.submitting /\ l.executing = state.executing
BY DEF Mcp!Loading, McpApp
-----------------------------------------------------------------------------
\* What the user does.
LEMMA McpFormStep ==
    ASSUME McpIInv, \/ Mcp!OpenAdd \/ Mcp!CloseForm \/ Mcp!Cancel \/ Mcp!CloseTest \/ Mcp!ExecuteInvalid
                    \/ \E s \in DOMAIN ui.servers : Mcp!OpenEdit(s) \/ Mcp!ChooseTarget(s)
                    \/ \E t \in DOMAIN ui.tools : Mcp!OpenTest(t)
    PROVE  McpIInv'
<1>1. UNCHANGED <<net, server, sent>>
  BY DEF Mcp!OpenAdd, Mcp!CloseForm, Mcp!Cancel, Mcp!CloseTest, Mcp!ExecuteInvalid, Mcp!OpenEdit, Mcp!ChooseTarget,
     Mcp!OpenTest, Mcp!Set, Mcp!Local
<1>2. \/ \E form \in McpForms : ui' = [ui EXCEPT !.form = form]
      \/ \E target \in McpMaybe : ui' = [ui EXCEPT !.target = target]
      \/ ui' = [ui EXCEPT !.testing = None, !.moved = ui.executing]
      \/ ui' = [ui EXCEPT !.result = None]
      \/ \E testing \in [tool : Int, server : Int] :
            ui' = [ui EXCEPT !.testing = testing, !.result = None, !.moved = ui.executing]
  <2>1. CASE Mcp!OpenAdd \/ Mcp!CloseForm \/ Mcp!Cancel \/ Mcp!CloseTest \/ Mcp!ExecuteInvalid
    <3>1. <<>> \in McpForms /\ None \in McpForms /\ None \in McpMaybe
      BY DEF McpForms, McpMaybe
    <3> QED
      BY <2>1, <3>1 DEF Mcp!OpenAdd, Mcp!CloseForm, Mcp!Cancel, Mcp!CloseTest, Mcp!ExecuteInvalid, Mcp!Set
  <2>2. ASSUME NEW s \in DOMAIN ui.servers, Mcp!OpenEdit(s) \/ Mcp!ChooseTarget(s)
        PROVE  \/ \E form \in McpForms : ui' = [ui EXCEPT !.form = form]
               \/ \E target \in McpMaybe : ui' = [ui EXCEPT !.target = target]
    <3>1. <<s>> \in McpForms /\ s \in McpMaybe
      BY McpOnScreen DEF McpForms, McpMaybe
    <3> QED
      BY <2>2, <3>1 DEF Mcp!OpenEdit, Mcp!ChooseTarget, Mcp!Set
  <2>3. ASSUME NEW t \in DOMAIN ui.tools, Mcp!OpenTest(t)
        PROVE  \E testing \in [tool : Int, server : Int] :
                  ui' = [ui EXCEPT !.testing = testing, !.result = None, !.moved = ui.executing]
    <3>1. t \in Int /\ ui.tools[t].server \in Int
      BY McpOnScreen DEF McpTool
    <3>2. [tool |-> t, server |-> ui.tools[t].server] \in [tool : Int, server : Int]
      BY <3>1
    <3> QED
      BY <2>3, <3>2 DEF Mcp!OpenTest, Mcp!Set
  <2> QED
    BY <2>1, <2>2, <2>3
<1>3. /\ ui' \in McpApp /\ ui'.loading = ui.loading /\ ui'.submitting = ui.submitting
      /\ ui'.executing = ui.executing
  BY <1>2, McpPage DEF McpApp, McpMaybe
<1> QED
  BY <1>1, <1>3, McpLocalStep

LEMMA McpNew == Mcp!NewServer \in McpAsks /\ Mcp!NewServer.op = "create"
<1> DEFINE none == None
<1>1. none \in McpMaybe /\ none \in McpReads
  BY DEF McpMaybe, McpReads
<1>2. Mcp!NewServer = [op |-> "create", id |-> none, read |-> none]
  BY DEF Mcp!NewServer
<1> HIDE DEF none
<1> QED
  BY <1>1, <1>2 DEF McpAsks, McpCreate

LEMMA McpButtonStep ==
    ASSUME McpIInv, \/ Mcp!Refresh \/ Mcp!SaveServer \/ Mcp!DeleteServer \/ Mcp!ExecuteTest
                    \/ \E s \in DOMAIN ui.servers : Mcp!TriggerHealth(s) \/ Mcp!SyncTools(s)
                    \/ \E t \in DOMAIN ui.tools : Mcp!ToggleTool(t)
    PROVE  McpIInv'
<1>1. CASE Mcp!Refresh
  <2> DEFINE ask == [op |-> "fetch"]
  <2>1. ui' = Mcp!Loading(ui) /\ Mcp!Send(<<ask>>) /\ ask \in McpAsks /\ ask.op = "fetch"
    BY <1>1 DEF Mcp!Refresh, Mcp!Fetch, McpAsks
  <2> HIDE DEF ask
  <2> QED
    BY <2>1, McpPage, McpLoading, McpSendStep
<1>2. CASE Mcp!SaveServer
  <2>1. ui' = [ui EXCEPT !.submitting = TRUE] /\ ui.form # None
    BY <1>2 DEF Mcp!SaveServer, Mcp!Ask
  <2>2. PICK ask \in McpAsks : Mcp!Send(<<ask>>) /\ ask.op \in {"create", "update"}
    <3> DEFINE create == Mcp!NewServer
               update == [op |-> "update", id |-> ui.form[1]]
    <3>1. Mcp!Send(<<IF ui.form = <<>> THEN create ELSE update>>)
      BY <1>2 DEF Mcp!SaveServer, Mcp!Ask
    <3>2. create \in McpAsks /\ create.op = "create"
      BY McpNew
    <3>3. ui.form # <<>> => update \in McpAsks /\ update.op = "update"
      <4>1. ui.form \in McpForms
        BY McpPage DEF McpApp
      <4>2. ui.form # <<>> => ui.form[1] \in Int
        BY <2>1, <4>1 DEF McpForms
      <4> QED
        BY <4>2 DEF McpAsks
    <3> HIDE DEF create, update
    <3> QED
      BY <3>1, <3>2, <3>3
  <2>3. ui' \in McpApp /\ ui'.loading = ui.loading /\ ui'.executing = ui.executing
    BY <2>1, McpPage DEF McpApp
  <2> QED
    BY <2>2, <2>3, McpSendStep
<1>3. CASE Mcp!ExecuteTest
  <2> DEFINE ask == [op |-> "test", id |-> ui.testing.server, tool |-> ui.testing.tool]
  <2>1. /\ ui' = [ui EXCEPT !.executing = TRUE, !.result = None, !.moved = FALSE] /\ ui.testing # None
        /\ Mcp!Send(<<ask>>)
    BY <1>3 DEF Mcp!ExecuteTest, Mcp!Ask
  <2>2. ask \in McpAsks /\ ask.op = "test"
    <3>1. ui.testing \in [tool : Int, server : Int]
      BY <2>1, McpPage DEF McpApp
    <3> QED
      BY <3>1 DEF McpAsks
  <2> HIDE DEF ask
  <2>3. ui' \in McpApp /\ ui'.loading = ui.loading /\ ui'.submitting = ui.submitting
    BY <2>1, McpPage DEF McpApp, McpMaybe
  <2> QED
    BY <2>1, <2>2, <2>3, McpSendStep
<1>4. CASE \/ Mcp!DeleteServer
           \/ \E s \in DOMAIN ui.servers : Mcp!TriggerHealth(s) \/ Mcp!SyncTools(s)
           \/ \E t \in DOMAIN ui.tools : Mcp!ToggleTool(t)
  <2>1. \A i \in Int : /\ [op |-> "delete", id |-> i] \in McpAsks /\ [op |-> "health", id |-> i] \in McpAsks
                       /\ [op |-> "toggle", id |-> i] \in McpAsks /\ [op |-> "sync", id |-> i, read |-> None] \in McpAsks
    <3>1. ASSUME NEW i \in Int
          PROVE  [op |-> "sync", id |-> i, read |-> None] \in McpSync
      <4> DEFINE read == None
      <4>1. read \in McpReads
        BY DEF McpReads
      <4> HIDE DEF read
      <4>2. [op |-> "sync", id |-> i, read |-> read] \in McpSync
        BY <4>1 DEF McpSync
      <4> QED
        BY <4>2 DEF read
    <3> QED
      BY <3>1 DEF McpAsks
  <2>2. ui.target # None => ui.target \in Int
    BY McpPage DEF McpApp, McpMaybe
  <2>3. ui' = ui /\ \E ask \in McpAsks : Mcp!Send(<<ask>>)
    BY <1>4, <2>1, <2>2, McpOnScreen DEF Mcp!DeleteServer, Mcp!TriggerHealth, Mcp!SyncTools, Mcp!ToggleTool, Mcp!Ask
  <2> QED
    BY <2>3, McpPage, McpSendStep
<1> QED
  BY <1>1, <1>2, <1>3, <1>4
-----------------------------------------------------------------------------
\* The answers.
LEMMA McpDoneStep ==
    ASSUME McpIInv, NEW r \in net, Mcp!Done(r), ui' \in McpApp,
           ui'.loading => ui.loading /\ r.ask.op # "fetch",
           ui'.submitting => ui.submitting /\ r.ask.op \notin {"create", "update"},
           ui'.executing => ui.executing /\ r.ask.op # "test"
    PROVE  McpIInv'
<1>1. net' = net \ {r} /\ UNCHANGED <<sent, server>>
  BY McpPage, McpEnds
<1>2. McpBusyInv'
  BY <1>1 DEF McpIInv, McpBusyInv
<1> QED
  BY <1>1, <1>2, McpNetStep

\* A write that succeeded fetches the lists.
LEMMA McpFetchStep ==
    ASSUME McpIInv, NEW r \in net, Mcp!Go(r, Mcp!Fetch), r.ask.op \in {"create", "update", "delete", "health", "sync"},
           ui' \in McpApp, ui'.submitting => ui.submitting /\ r.ask.op \notin {"create", "update"},
           ui'.executing = ui.executing
    PROVE  McpIInv'
<1> DEFINE ask == [op |-> "fetch"]
<1>1. Mcp!Go(r, <<ask>>) /\ ask \in McpAsks /\ ask.op = "fetch"
  BY DEF Mcp!Fetch, McpAsks
<1> HIDE DEF ask
<1>2. net' = (net \ {r}) \cup {NewRequest(sent, ask)} /\ sent' = sent + 1 /\ UNCHANGED server
  BY <1>1, McpAsks1
<1>3. NewRequest(sent, ask).ask = ask
  BY DEF NewRequest
<1>4. McpBusyInv'
  BY <1>1, <1>2, <1>3 DEF McpIInv, McpBusyInv
<1> QED
  BY <1>1, <1>2, <1>4, McpNetStep

LEMMA McpToggleShown ==
    ASSUME McpIInv, NEW t
    PROVE  LET s == Mcp!Flipped(t)
           IN  /\ s \in McpApp /\ s.loading = ui.loading /\ s.submitting = ui.submitting
               /\ s.executing = ui.executing
<1> DEFINE flipped == [ui.tools[t] EXCEPT !.enabled = ~@]
           tools == [ui.tools EXCEPT ![t] = flipped]
<1>1. CASE t \in DOMAIN ui.tools
  <2>1. Mcp!Flipped(t) = [ui EXCEPT !.tools = tools]
    BY <1>1 DEF Mcp!Flipped
  <2>2. flipped \in McpTool
    <3>1. ui.tools[t] \in McpTool
      BY <1>1, McpOnScreen
    <3> QED
      BY <3>1 DEF McpTool
  <2> HIDE DEF flipped
  <2>3. tools \in [DOMAIN ui.tools -> McpTool] /\ DOMAIN ui.tools \subseteq Int
    BY <1>1, <2>2, McpOnScreen
  <2> HIDE DEF tools
  <2>4. tools \in McpTools
    BY <2>3, MapIs DEF McpTools
  <2> QED
    BY <2>1, <2>4, McpPage DEF McpApp
<1>2. CASE t \notin DOMAIN ui.tools
  BY <1>2, McpPage DEF Mcp!Flipped
<1> QED
  BY <1>1, <1>2

LEMMA McpAnswerStep ==
    ASSUME McpIInv, NEW r \in net,
           \/ Mcp!Fetched(r) \/ Mcp!ServerSaved(r) \/ Mcp!ServerDeleted(r) \/ Mcp!HealthOrToolsCame(r)
           \/ Mcp!ToolToggled(r) \/ Mcp!Tested(r)
    PROVE  McpIInv'
<1>1. ui \in McpApp /\ None \in McpForms /\ None \in McpMaybe
  BY McpPage DEF McpForms, McpMaybe
<1>2. CASE Mcp!Fetched(r)
  <2> DEFINE crossed == Mcp!Out({"toggle"})
  <2>1. r.ask.op = "fetch" /\ r.got # Waiting /\ Mcp!Done(r)
    BY <1>2 DEF Mcp!Fetched, Mcp!Answer, Mcp!Came, Mcp!Done
  <2>2. \/ /\ r.got # Failed
           /\ ui' = [ui EXCEPT !.servers = r.got.servers, !.tools = r.got.tools, !.loading = FALSE,
                               !.error = FALSE, !.crossed = crossed]
        \/ ui' = [ui EXCEPT !.loading = FALSE, !.error = TRUE]
    BY <1>2 DEF Mcp!Fetched, Mcp!Answer
  <2>3. r.got # Failed => r.got \in McpLists
    BY <2>1 DEF McpIInv, McpTypeInv
  <2>4. r.got # Failed => r.got.servers \in McpServers /\ r.got.tools \in McpTools
    BY <2>3 DEF McpLists
  <2>5. crossed \in BOOLEAN
    BY DEF Mcp!Out
  <2> HIDE DEF crossed
  <2>6. /\ ui' \in McpApp /\ ui'.loading = FALSE /\ ui'.submitting = ui.submitting
        /\ ui'.executing = ui.executing
    BY <1>1, <2>2, <2>4, <2>5 DEF McpApp
  <2> QED
    BY <2>1, <2>6, McpDoneStep
<1>3. CASE Mcp!ServerSaved(r)
  <2> DEFINE state == [ui EXCEPT !.submitting = FALSE, !.form = None]
  <2>1. r.ask.op \in {"create", "update"}
    BY <1>3 DEF Mcp!ServerSaved, Mcp!Answer, Mcp!Came
  <2>2. \/ ui' = Mcp!Loading(state) /\ Mcp!Go(r, Mcp!Fetch)
        \/ ui' = [ui EXCEPT !.submitting = FALSE] /\ Mcp!Done(r)
    BY <1>3 DEF Mcp!ServerSaved, Mcp!Answer
  <2>3. state \in McpApp /\ state.submitting = FALSE /\ state.executing = ui.executing
    BY <1>1 DEF McpApp
  <2> HIDE DEF state
  <2>4. CASE ui' = Mcp!Loading(state) /\ Mcp!Go(r, Mcp!Fetch)
    BY <2>1, <2>3, <2>4, McpLoading, McpFetchStep
  <2>5. CASE ui' = [ui EXCEPT !.submitting = FALSE] /\ Mcp!Done(r)
    <3>1. /\ ui' \in McpApp /\ ui'.loading = ui.loading /\ ui'.submitting = FALSE
          /\ ui'.executing = ui.executing
      BY <1>1, <2>5 DEF McpApp
    <3> QED
      BY <2>1, <2>5, <3>1, McpDoneStep
  <2> QED
    BY <2>2, <2>4, <2>5
<1>4. CASE Mcp!ServerDeleted(r)
  <2> DEFINE state == [ui EXCEPT !.target = None]
  <2>1. r.ask.op = "delete"
    BY <1>4 DEF Mcp!ServerDeleted, Mcp!Answer, Mcp!Came
  <2>2. \/ ui' = Mcp!Loading(state) /\ Mcp!Go(r, Mcp!Fetch)
        \/ ui' = state /\ Mcp!Done(r)
    BY <1>4 DEF Mcp!ServerDeleted, Mcp!Answer
  <2>3. /\ state \in McpApp /\ state.loading = ui.loading /\ state.submitting = ui.submitting
        /\ state.executing = ui.executing
    BY <1>1 DEF McpApp
  <2> HIDE DEF state
  <2>4. CASE ui' = Mcp!Loading(state) /\ Mcp!Go(r, Mcp!Fetch)
    BY <2>1, <2>3, <2>4, McpLoading, McpFetchStep
  <2>5. CASE ui' = state /\ Mcp!Done(r)
    BY <2>1, <2>3, <2>5, McpDoneStep
  <2> QED
    BY <2>2, <2>4, <2>5
<1>5. CASE Mcp!HealthOrToolsCame(r)
  <2>1. r.ask.op \in {"health", "sync"}
    BY <1>5 DEF Mcp!HealthOrToolsCame, Mcp!Answer, Mcp!Came
  <2>2. \/ ui' = Mcp!Loading(ui) /\ Mcp!Go(r, Mcp!Fetch)
        \/ ui' = ui /\ Mcp!Done(r)
    BY <1>5 DEF Mcp!HealthOrToolsCame, Mcp!Answer
  <2> QED
    BY <1>1, <2>1, <2>2, McpLoading, McpFetchStep, McpDoneStep
<1>6. CASE Mcp!ToolToggled(r)
  <2> DEFINE flipped == Mcp!Flipped(r.ask.id)
             crossed == flipped.crossed \/ r.acts # 0
  <2>1. r.ask.op = "toggle" /\ Mcp!Done(r) /\ (ui' = ui \/ ui' = [flipped EXCEPT !.crossed = crossed])
    BY <1>6 DEF Mcp!ToolToggled, Mcp!Answer, Mcp!Came, Mcp!Done
  <2>2. ui' \in McpApp /\ ui'.loading = ui.loading /\ ui'.submitting = ui.submitting /\ ui'.executing = ui.executing
    <3>1. /\ flipped \in McpApp /\ flipped.loading = ui.loading /\ flipped.submitting = ui.submitting
          /\ flipped.executing = ui.executing
      BY McpToggleShown
    <3> HIDE DEF flipped
    <3>2. crossed \in BOOLEAN
      BY <3>1 DEF McpApp
    <3> HIDE DEF crossed
    <3> QED
      BY <1>1, <2>1, <3>1, <3>2 DEF McpApp
  <2> QED
    BY <2>1, <2>2, McpDoneStep
<1>7. CASE Mcp!Tested(r)
  <2>1. r.ask.op = "test" /\ Mcp!Done(r)
    BY <1>7 DEF Mcp!Tested, Mcp!Answer, Mcp!Came, Mcp!Done
  <2>2. r.ask.tool \in McpMaybe
    <3>1. r.ask \in McpAsks
      BY McpPage DEF McpSent
    <3> QED
      BY <2>1, <3>1 DEF McpAsks, McpSync, McpCreate, McpMaybe
  <2>3. \/ ui' = [ui EXCEPT !.result = r.ask.tool, !.executing = FALSE]
        \/ ui' = [ui EXCEPT !.executing = FALSE]
    BY <1>7 DEF Mcp!Tested, Mcp!Answer
  <2>4. ui' \in McpApp /\ ui'.loading = ui.loading /\ ui'.submitting = ui.submitting /\ ui'.executing = FALSE
    BY <1>1, <2>2, <2>3 DEF McpApp
  <2> QED
    BY <2>1, <2>4, McpDoneStep
<1> QED
  BY <1>2, <1>3, <1>4, <1>5, <1>6, <1>7
-----------------------------------------------------------------------------
\* The gateway.  It goes on with r, which becomes to.
LEMMA McpMoveStep ==
    ASSUME McpIInv, NEW r \in net, NEW to \in McpSent, NEW held, Mcp!Moves(r, to, held), sent' \in Nat,
           held \in McpServer, McpRowsIn(held), to.ask.op = r.ask.op,
           r.ask.op = "fetch" => to.got \in {Waiting, Failed} \cup McpLists
    PROVE  McpIInv'
<1>1. /\ server' = held /\ UNCHANGED ui /\ net \subseteq McpSent /\ ui \in McpApp
      /\ net' = {IF q = r THEN to ELSE [q EXCEPT !.late = q.got # Waiting /\ (@ \/ held # server)] : q \in net}
  BY McpPage DEF Mcp!Moves
<1> DEFINE Late(q) == q.got # Waiting /\ (q.late \/ held # server)
           New(q) == IF q = r THEN to ELSE [q EXCEPT !.late = Late(q)]
<1>2. ASSUME NEW q \in net
      PROVE  New(q) \in McpSent /\ New(q).ask.op = q.ask.op /\ New(q).got = IF q = r THEN to.got ELSE q.got
  <2>1. q \in McpSent /\ Late(q) \in BOOLEAN
    BY <1>1
  <2> HIDE DEF Late
  <2> QED
    BY <2>1 DEF McpSent
<1>3. net' = {New(q) : q \in net}
  BY <1>1
<1> HIDE DEF New
<1>4. McpTypeInv'
  <2>1. ASSUME NEW q \in net, New(q).ask.op = "fetch", New(q).got \notin {Waiting, Failed}
        PROVE  New(q).got \in McpLists
    BY <1>2, <2>1 DEF McpIInv, McpTypeInv
  <2>2. net' \subseteq McpSent
    BY <1>2, <1>3
  <2> QED
    BY <1>1, <1>3, <2>1, <2>2 DEF McpTypeInv
<1>5. McpBusyInv'
  BY <1>1, <1>2, <1>3 DEF McpIInv, McpBusyInv
<1>6. McpRowsIn(server)'
  BY <1>1 DEF McpRowsIn
<1> QED
  BY <1>4, <1>5, <1>6 DEF McpIInv

\* It answers r.
LEMMA McpSettleStep ==
    ASSUME McpIInv, NEW r \in net, NEW got, NEW held, Mcp!Settle(r, got, held), held \in McpServer, McpRowsIn(held),
           got = Failed \/ (r.ask.op = "fetch" /\ got \in McpLists) \/ (r.ask.op # "fetch" /\ got = "done")
    PROVE  McpIInv'
<1> DEFINE to == [r EXCEPT !.got = got]
<1>1. r \in McpSent /\ got \in McpGots
  BY McpPage DEF McpGots
<1>2. to \in McpSent /\ to.ask = r.ask /\ to.got = got
  BY <1>1 DEF McpSent
<1>3. Mcp!Moves(r, to, held) /\ sent' = sent
  BY DEF Mcp!Settle
<1> HIDE DEF to
<1> QED
  BY <1>2, <1>3, McpPage, McpMoveStep

\* r is sent again.
LEMMA McpAgainStep ==
    ASSUME McpIInv, NEW r \in net, NEW acts \in Nat, NEW ask \in McpAsks, ask.op = r.ask.op,
           NEW held, held \in McpServer, McpRowsIn(held), Mcp!SentAgain(r, acts, ask, held)
    PROVE  McpIInv'
<1> DEFINE req == Mcp!Request(sent + 1, ask)
           to == [req EXCEPT !.acts = acts]
<1>1. Waiting \in McpGots /\ sent + 1 \in Nat
  BY McpPage DEF McpGots
<1>2. req \in McpSent /\ req.ask = ask /\ req.got = Waiting
  BY <1>1 DEF Mcp!Request, McpSent
<1>3. Mcp!Moves(r, to, held) /\ sent' = sent + 1
  BY DEF Mcp!SentAgain
<1> HIDE DEF req
<1>4. to \in McpSent /\ to.ask = ask /\ to.got = Waiting
  BY <1>2 DEF McpSent
<1> HIDE DEF to
<1> QED
  BY <1>1, <1>3, <1>4, McpMoveStep

\* A discovery looks which rows there are.
LEMMA McpLooksStep == ASSUME McpIInv, NEW r \in net, Mcp!Looks(r) PROVE McpIInv'
<1> DEFINE read == Mcp!RowsOf(r.ask.id)
           ask == [r.ask EXCEPT !.read = read]
           to == [r EXCEPT !.ask = ask]
           row == [server.servers[r.ask.id] EXCEPT !.health = Mcp!Health(server.up)]
           servers == [server.servers EXCEPT ![r.ask.id] = row]
           held == IF r.ask.op = "sync" THEN server ELSE [server EXCEPT !.servers = servers]
<1>1. /\ r.ask.op \in {"sync", "create"} /\ r.got = Waiting /\ r.ask.id \in DOMAIN server.servers
      /\ Mcp!Moves(r, to, held) /\ sent' = sent
  BY DEF Mcp!Looks
<1>2. read \in McpReads
  BY McpPage DEF Mcp!RowsOf, McpReads
<1>3. held \in McpServer /\ McpRowsIn(held)
  <2>1. row \in McpRow
    <3>1. server.servers[r.ask.id] \in McpRow /\ Mcp!Health(server.up) \in {"healthy", "unhealthy"}
      BY <1>1, McpPage DEF Mcp!Health
    <3> QED
      BY <3>1 DEF McpRow
  <2> HIDE DEF row
  <2>2. servers \in [DOMAIN server.servers -> McpRow] /\ DOMAIN servers = DOMAIN server.servers
    BY <1>1, <2>1, McpPage
  <2> HIDE DEF servers
  <2>3. servers \in McpServers
    BY <2>2, McpPage, MapIs DEF McpServers
  <2>4. CASE held = [server EXCEPT !.servers = servers]
    <3>1. /\ held \in McpServer /\ held.servers = servers /\ held.tools = server.tools
          /\ held.overlapped = server.overlapped
      BY <2>3, <2>4, McpPage DEF McpServer
    <3> QED
      BY <2>2, <3>1 DEF McpIInv, McpRowsIn
  <2> QED
    BY <2>4, McpPage DEF McpIInv
<1> HIDE DEF held, row, servers, read
<1>4. r \in McpSent /\ r.ask \in McpSync \cup McpCreate
  <2>1. r.ask \in McpAsks /\ r \in McpSent
    BY McpPage DEF McpSent
  <2> QED
    BY <1>1, <2>1 DEF McpAsks
<1>5. ask \in McpSync \cup McpCreate /\ ask.op = r.ask.op
  BY <1>2, <1>4 DEF McpSync, McpCreate
<1> HIDE DEF ask
<1>6. ask \in McpAsks
  BY <1>5 DEF McpAsks
<1>7. to \in McpSent /\ to.ask = ask
  BY <1>4, <1>6 DEF McpSent
<1> HIDE DEF to
<1> QED
  BY <1>1, <1>3, <1>5, <1>7, McpPage, McpMoveStep

\* A server is registered: its request carries its number from then on.
LEMMA McpRegistersStep == ASSUME McpIInv, NEW r \in net, Mcp!Registers(r) PROVE McpIInv'
<1> DEFINE k == r.id + 2
           row == Mcp!Server(FALSE, "new", "unknown")
           servers == PutIn(server.servers, k, row)
           held == [server EXCEPT !.servers = servers]
           ask == [r.ask EXCEPT !.id = k]
           acts == r.acts + 1
           to == [r EXCEPT !.ask = ask, !.acts = acts]
<1>1. r \in McpSent /\ r.ask \in McpAsks /\ k \in Int /\ acts \in Nat /\ row \in McpRow
  BY McpPage DEF McpSent, Mcp!Server, McpRow
<1>2. r.ask.op = "create" /\ sent' = sent
  BY DEF Mcp!Registers
<1>3. Mcp!Moves(r, to, held)
  <2>1. to = [r EXCEPT !.ask.id = r.id + 2, !.acts = @ + 1]
    BY <1>1 DEF McpSent
  <2>2. held = [server EXCEPT !.servers = Mcp!Put(@, r.id + 2, Mcp!Server(FALSE, "new", "unknown"))]
    BY McpPage DEF McpServer, Mcp!Put, PutIn
  <2> QED
    BY <2>1, <2>2 DEF Mcp!Registers
<1>4. held \in McpServer /\ McpRowsIn(held)
  <2> DEFINE K == Int
             V == McpRow
             f == server.servers
  <2>1. f \in Maps(K, V) /\ k \in K /\ row \in V
    BY <1>1, McpPage DEF McpServer, McpServers
  <2> HIDE DEF K, V, f, k, row
  <2>2. PutIn(f, k, row) \in Maps(K, V) /\ DOMAIN PutIn(f, k, row) = DOMAIN f \cup {k}
    BY <2>1, PutFacts
  <2>3. servers \in McpServers /\ DOMAIN server.servers \subseteq DOMAIN servers
    BY <2>2 DEF f, K, V, McpServers
  <2> HIDE DEF servers
  <2>4. /\ held \in McpServer /\ held.servers = servers /\ held.tools = server.tools
        /\ held.overlapped = server.overlapped
    BY <2>3, McpPage DEF McpServer
  <2> QED
    BY <2>3, <2>4 DEF McpIInv, McpRowsIn
<1> HIDE DEF held, servers, row, k, acts
<1>5. r.ask \in McpCreate
  BY <1>1, <1>2 DEF McpAsks, McpSync
<1>6. ask \in McpCreate /\ ask.op = "create"
  BY <1>1, <1>5 DEF McpCreate, McpMaybe
<1> HIDE DEF ask
<1>7. ask \in McpAsks
  BY <1>6 DEF McpAsks
<1>8. to \in McpSent /\ to.ask = ask
  BY <1>1, <1>7 DEF McpSent
<1> HIDE DEF to
<1> QED
  BY <1>2, <1>3, <1>4, <1>6, <1>8, McpPage, McpMoveStep

\* Discovering adds a row for the tool of a server that has none.
LEMMA McpAdded ==
    ASSUME McpIInv, NEW k, k \in Int, NEW s, s \in Int,
           NEW servers, DOMAIN server.servers \subseteq DOMAIN servers, s \in DOMAIN servers,
           NEW overlapped,
           ~overlapped => ~server.overlapped /\ \A t \in DOMAIN server.tools : server.tools[t].server # s,
           NEW held, held.servers = servers, held.overlapped = overlapped,
           held.tools = PutIn(server.tools, k, Mcp!Tool(s))
    PROVE  held.tools \in McpTools /\ McpRowsIn(held)
<1> DEFINE K == Int
           V == McpTool
           f == server.tools
           v == Mcp!Tool(s)
<1>1. v \in V /\ v.server = s
  BY DEF Mcp!Tool, McpTool
<1>2. f \in Maps(K, V) /\ k \in K
  BY McpPage DEF McpServer, McpTools
<1>3. /\ \A t \in DOMAIN f : f[t].server \in DOMAIN server.servers
      /\ ~server.overlapped => \A t, u \in DOMAIN f : f[t].server = f[u].server => t = u
      /\ ~overlapped => \A t \in DOMAIN f : f[t].server # s
  BY DEF McpIInv, McpRowsIn
<1>4. held.tools = PutIn(f, k, v)
  BY DEF f, v
<1> HIDE DEF K, V, f, v
<1>5. /\ PutIn(f, k, v) \in Maps(K, V) /\ DOMAIN PutIn(f, k, v) = DOMAIN f \cup {k}
      /\ PutIn(f, k, v)[k] = v /\ \A x \in DOMAIN f : x # k => PutIn(f, k, v)[x] = f[x]
  BY ONLY <1>1, <1>2, PutFacts
<1>6. held.tools \in McpTools
  BY <1>4, <1>5 DEF K, V, McpTools
<1>7. \A t \in DOMAIN held.tools : held.tools[t].server \in DOMAIN held.servers
  BY <1>1, <1>3, <1>4, <1>5
<1>8. ~held.overlapped => \A t, u \in DOMAIN held.tools : held.tools[t].server = held.tools[u].server => t = u
  BY <1>1, <1>3, <1>4, <1>5
<1> QED
  BY <1>6, <1>7, <1>8 DEF McpRowsIn

\* Switching a tool leaves it where it is.
LEMMA McpSwitched ==
    ASSUME McpIInv, NEW t, t \in DOMAIN server.tools
    PROVE  LET held == [server EXCEPT !.tools[t].enabled = ~@]
           IN  held \in McpServer /\ McpRowsIn(held) /\ DOMAIN held.servers = DOMAIN server.servers
<1> DEFINE old == server.tools[t]
           row == [old EXCEPT !.enabled = ~@]
           tools == [server.tools EXCEPT ![t] = row]
           held == [server EXCEPT !.tools[t].enabled = ~@]
<1>1. held = [server EXCEPT !.tools = tools]
  OBVIOUS
<1>2. old \in McpTool
  BY McpPage
<1> HIDE DEF old
<1>3. row \in McpTool /\ row.server = old.server
  BY <1>2 DEF McpTool
<1> HIDE DEF row, held
<1>4. /\ tools \in [DOMAIN server.tools -> McpTool] /\ DOMAIN tools = DOMAIN server.tools
      /\ \A u \in DOMAIN server.tools : tools[u].server = server.tools[u].server
  BY <1>3, McpPage DEF old
<1> HIDE DEF tools
<1>5. tools \in McpTools
  BY <1>4, McpPage, MapIs DEF McpTools
<1>6. /\ held \in McpServer /\ held.servers = server.servers /\ held.tools = tools
      /\ held.overlapped = server.overlapped
  BY <1>1, <1>5, McpPage DEF McpServer
<1>7. McpRowsIn(held)
  BY <1>4, <1>6 DEF McpIInv, McpRowsIn
<1> QED
  BY <1>6, <1>7 DEF held

LEMMA McpEffectFacts ==
    ASSUME McpIInv, NEW r \in net, ~Mcp!Refused(r)
    PROVE  /\ Mcp!Effect(r) \in McpServer /\ McpRowsIn(Mcp!Effect(r))
<1> DEFINE effect == Mcp!Effect(r)
           Kept == effect \in McpServer /\ McpRowsIn(effect)
<1> SUFFICES Kept
  OBVIOUS
<1>1. /\ server \in McpServer /\ r \in McpSent /\ r.ask \in McpAsks /\ r.id \in Int /\ McpRowsIn(server)
      /\ server.servers \in McpServers /\ server.tools \in McpTools
  BY McpPage DEF McpSent, McpIInv, McpServer
<1>2. /\ server.servers \in [DOMAIN server.servers -> McpRow] /\ DOMAIN server.servers \subseteq Int
      /\ server.tools \in [DOMAIN server.tools -> McpTool] /\ DOMAIN server.tools \subseteq Int
  BY McpPage
<1>3. ASSUME NEW servers \in McpServers, DOMAIN servers = DOMAIN server.servers, effect = [server EXCEPT !.servers = servers]
      PROVE  Kept
  <2>1. /\ effect \in McpServer /\ effect.servers = servers /\ effect.tools = server.tools
        /\ effect.overlapped = server.overlapped
    BY <1>1, <1>3 DEF McpServer
  <2> QED
    BY <1>1, <1>3, <2>1 DEF McpRowsIn
<1>4. ASSUME NEW s \in DOMAIN server.servers, NEW row \in McpRow, NEW servers, servers = [server.servers EXCEPT ![s] = row]
      PROVE  servers \in McpServers /\ DOMAIN servers = DOMAIN server.servers
  <2>1. servers \in [DOMAIN server.servers -> McpRow]
    BY <1>2, <1>4
  <2> QED
    BY <1>2, <2>1, MapIs DEF McpServers
<1>6. CASE r.ask.op \in {"update", "health"}
  <2>1. r.ask.id \in DOMAIN server.servers
    BY <1>6 DEF Mcp!Refused
  <2> DEFINE old == server.servers[r.ask.id]
             row == IF r.ask.op = "update" THEN [old EXCEPT !.name = "new"]
                    ELSE [old EXCEPT !.health = Mcp!Health(Mcp!Answers(r.ask.id))]
             servers == [server.servers EXCEPT ![r.ask.id] = row]
  <2>2. effect = [server EXCEPT !.servers = servers]
    BY <1>6 DEF Mcp!Effect
  <2>3. row \in McpRow
    <3>1. old \in McpRow
      BY <1>2, <2>1
    <3>2. Mcp!Health(Mcp!Answers(r.ask.id)) \in {"healthy", "unhealthy"}
      BY DEF Mcp!Health
    <3> QED
      BY <3>1, <3>2 DEF McpRow
  <2> HIDE DEF row
  <2>4. servers \in McpServers /\ DOMAIN servers = DOMAIN server.servers
    BY <1>4, <2>1, <2>3
  <2> HIDE DEF servers
  <2> QED
    BY <1>3, <2>2, <2>4
<1>7. CASE r.ask.op = "delete"
  <2> DEFINE servers == DropFrom(server.servers, r.ask.id)
             left == DOMAIN server.tools \ Mcp!RowsOf(r.ask.id)
             tools == [t \in left |-> server.tools[t]]
  <2>1. effect = [server EXCEPT !.servers = servers, !.tools = tools]
    BY <1>7 DEF Mcp!Effect, Mcp!Drop, DropFrom
  <2>2. servers \in McpServers /\ DOMAIN servers = DOMAIN server.servers \ {r.ask.id}
    <3> DEFINE K == Int
               V == McpRow
               f == server.servers
               k == r.ask.id
    <3>1. f \in Maps(K, V)
      BY <1>1 DEF McpServers
    <3> HIDE DEF K, V, f, k
    <3>2. DropFrom(f, k) \in Maps(K, V)
      BY <3>1, DropFacts
    <3>3. DOMAIN DropFrom(f, k) = DOMAIN f \ {k}
      BY DEF DropFrom
    <3> QED
      BY <3>2, <3>3 DEF McpServers, K, V, f, k
  <2>3. tools \in [left -> McpTool] /\ left \subseteq Int
    BY <1>2
  <2>4. tools \in McpTools
    BY <2>3, MapIs DEF McpTools
  <2>5. /\ DOMAIN tools = left
        /\ \A t \in left : t \in DOMAIN server.tools /\ tools[t] = server.tools[t] /\ tools[t].server # r.ask.id
    BY DEF Mcp!RowsOf
  <2> HIDE DEF servers, tools, left
  <2>6. /\ effect \in McpServer /\ effect.servers = servers /\ effect.tools = tools
        /\ effect.overlapped = server.overlapped
    BY <1>1, <2>1, <2>2, <2>4 DEF McpServer
  <2>7. McpRowsIn(effect)
    BY <1>1, <2>2, <2>5, <2>6 DEF McpRowsIn
  <2> QED
    BY <2>2, <2>6, <2>7
<1>8. CASE r.ask.op \in {"sync", "create"}
  <2>1. r.ask.id \in DOMAIN server.servers
    BY <1>8 DEF Mcp!Refused
  <2>2. CASE ~Mcp!Missing(r)
    <3>1. effect = server
      BY <1>8, <2>2 DEF Mcp!Effect, Mcp!Synced
    <3> QED
      BY <1>1, <3>1
  <2>3. CASE Mcp!Missing(r)
    <3> DEFINE tools == PutIn(server.tools, r.id, Mcp!Tool(r.ask.id))
               over == server.overlapped \/ Mcp!RowsOf(r.ask.id) # r.ask.read
    <3>1. effect = [server EXCEPT !.tools = tools, !.overlapped = over]
      BY <1>8, <2>3 DEF Mcp!Effect, Mcp!Synced, Mcp!Put, PutIn
    <3>2. ~over => ~server.overlapped /\ \A t \in DOMAIN server.tools : server.tools[t].server # r.ask.id
      BY <2>3 DEF Mcp!Missing, Mcp!RowsOf
    <3>3. over \in BOOLEAN
      BY <1>1 DEF McpServer
    <3> HIDE DEF over
    <3> DEFINE held == [servers |-> server.servers, tools |-> tools, overlapped |-> over]
    <3>4. held.servers = server.servers /\ held.overlapped = over /\ held.tools = PutIn(server.tools, r.id, Mcp!Tool(r.ask.id))
      OBVIOUS
    <3>5. held.tools = tools
      OBVIOUS
    <3> HIDE DEF held
    <3>6. r.ask.id \in Int /\ DOMAIN server.servers \subseteq DOMAIN server.servers
      BY <1>2, <2>1
    <3>7. held.tools \in McpTools /\ McpRowsIn(held)
      BY <1>1, <2>1, <3>2, <3>4, <3>6, McpAdded
    <3> HIDE DEF tools
    <3>8. effect \in McpServer /\ effect.servers = server.servers /\ effect.tools = tools /\ effect.overlapped = over
      BY <1>1, <3>1, <3>3, <3>5, <3>7 DEF McpServer
    <3>9. McpRowsIn(effect)
      BY <3>4, <3>5, <3>7, <3>8 DEF McpRowsIn
    <3> QED
      BY <3>8, <3>9
  <2> QED
    BY <2>2, <2>3
<1>9. CASE r.ask.op = "toggle"
  <2>1. r.ask.id \in DOMAIN server.tools
    BY <1>9 DEF Mcp!Refused
  <2> QED
    BY <1>9, <2>1, McpSwitched DEF Mcp!Effect
<1>10. CASE r.ask.op \in {"fetch", "test"}
  <2>1. effect = server
    BY <1>10 DEF Mcp!Effect
  <2> QED
    BY <1>1, <2>1
<1> QED
  BY <1>1, <1>6, <1>7, <1>8, <1>9, <1>10 DEF McpAsks, McpSync, McpCreate

LEMMA McpServes ==
    ASSUME McpIInv, Mcp!ServeOne(Mcp!Ready, Mcp!Refused, Mcp!Effect, Mcp!Reply)
    PROVE  McpIInv'
<1>1. PICK r \in Mcp!Ready :
        \/ ~Mcp!Refused(r) /\ Mcp!Settle(r, Mcp!Reply(r), Mcp!Effect(r))
        \/ Mcp!Settle(r, Failed, server)
        \/ ~Mcp!Refused(r) /\ Mcp!Settle(r, Failed, Mcp!Effect(r))
  BY DEF Mcp!ServeOne
<1>2. r \in net
  BY DEF Mcp!Ready
<1>3. server \in McpServer /\ McpRowsIn(server) /\ [servers |-> server.servers, tools |-> server.tools] \in McpLists
  BY McpPage DEF McpIInv, McpServer, McpLists
<1> DEFINE reply == Mcp!Reply(r)
           effect == Mcp!Effect(r)
<1>4. (r.ask.op = "fetch" /\ reply \in McpLists) \/ (r.ask.op # "fetch" /\ reply = "done")
  BY <1>3 DEF Mcp!Reply
<1>5. ~Mcp!Refused(r) => effect \in McpServer /\ McpRowsIn(effect)
  BY <1>2, McpEffectFacts
<1> HIDE DEF reply, effect
<1>6. CASE ~Mcp!Refused(r) /\ Mcp!Settle(r, reply, effect)
  BY <1>2, <1>4, <1>5, <1>6, McpSettleStep
<1>7. CASE Mcp!Settle(r, Failed, server)
  BY <1>2, <1>3, <1>7, McpSettleStep
<1>8. CASE ~Mcp!Refused(r) /\ Mcp!Settle(r, Failed, effect)
  BY <1>2, <1>5, <1>8, McpSettleStep
<1> QED
  BY <1>1, <1>6, <1>7, <1>8 DEF reply, effect

\* What was lost is sent again, or a registration is left without tools.
LEMMA McpRepeats ==
    ASSUME McpIInv, \/ Mcp!RepeatOne({r \in Mcp!Ready : r.ask.op # "create"}, Mcp!Refused, Mcp!Effect, Mcp!Again)
                    \/ \E r \in net : Mcp!CreatesAgain(r) \/ Mcp!DiscoveryFails(r)
    PROVE  McpIInv'
<1>1. server \in McpServer /\ McpRowsIn(server)
  BY McpPage DEF McpIInv
<1>2. CASE Mcp!RepeatOne({r \in Mcp!Ready : r.ask.op # "create"}, Mcp!Refused, Mcp!Effect, Mcp!Again)
  <2>1. PICK r \in net : ~Mcp!Refused(r) /\ Mcp!SentAgain(r, r.acts + 1, Mcp!Again(r), Mcp!Effect(r))
    BY <1>2 DEF Mcp!RepeatOne, Mcp!Ready
  <2> DEFINE ask == Mcp!Again(r)
             acts == r.acts + 1
             effect == Mcp!Effect(r)
  <2>2. effect \in McpServer /\ McpRowsIn(effect)
    BY <2>1, McpEffectFacts
  <2>3. acts \in Nat /\ r.ask \in McpAsks
    BY McpPage DEF McpSent
  <2>4. ask \in McpAsks /\ ask.op = r.ask.op
    <3> DEFINE none == None
               again == [r.ask EXCEPT !.read = none]
    <3>1. CASE r.ask.op = "sync"
      <4>1. r.ask \in McpSync /\ none \in McpReads
        BY <2>3, <3>1 DEF McpAsks, McpCreate, McpReads
      <4>2. ask = again
        BY <3>1 DEF Mcp!Again
      <4> HIDE DEF none
      <4>3. again \in McpSync /\ again.op = "sync"
        BY <4>1 DEF McpSync
      <4> QED
        BY <3>1, <4>2, <4>3 DEF McpAsks
    <3>2. CASE r.ask.op # "sync"
      BY <2>3, <3>2 DEF Mcp!Again
    <3> QED
      BY <3>1, <3>2
  <2>5. Mcp!SentAgain(r, acts, ask, effect)
    BY <2>1
  <2> HIDE DEF ask, acts, effect
  <2> QED
    BY <2>2, <2>3, <2>4, <2>5, McpAgainStep
<1>3. ASSUME NEW r \in net, Mcp!CreatesAgain(r)
      PROVE  McpIInv'
  <2>1. r.ask.op = "create" /\ r.acts \in Nat
    BY <1>3, McpPage DEF Mcp!CreatesAgain, McpSent
  <2>2. \/ Mcp!SentAgain(r, r.acts, Mcp!NewServer, server)
        \/ ~Mcp!Refused(r) /\ Mcp!SentAgain(r, r.acts, Mcp!NewServer, Mcp!Effect(r))
    BY <1>3 DEF Mcp!CreatesAgain
  <2> DEFINE effect == Mcp!Effect(r)
  <2>3. CASE Mcp!SentAgain(r, r.acts, Mcp!NewServer, server)
    BY <1>1, <2>1, <2>3, McpNew, McpAgainStep
  <2>4. CASE ~Mcp!Refused(r) /\ Mcp!SentAgain(r, r.acts, Mcp!NewServer, effect)
    <3>1. effect \in McpServer /\ McpRowsIn(effect)
      BY <2>4, McpEffectFacts
    <3> HIDE DEF effect
    <3> QED
      BY <2>1, <2>4, <3>1, McpNew, McpAgainStep
  <2> QED
    BY <2>2, <2>3, <2>4
<1>4. ASSUME NEW r \in net, Mcp!DiscoveryFails(r)
      PROVE  McpIInv'
  BY <1>1, <1>4, McpSettleStep DEF Mcp!DiscoveryFails
<1> QED
  BY <1>2, <1>3, <1>4

LEMMA McpNextIInv == McpIInv /\ [Mcp!Next]_(Mcp!vars) => McpIInv'
<1> SUFFICES ASSUME McpIInv, [Mcp!Next]_(Mcp!vars) PROVE McpIInv'
  OBVIOUS
<1>1. CASE UNCHANGED Mcp!vars
  <2>1. UNCHANGED <<ui, net, server, sent>>
    BY <1>1 DEF Mcp!vars
  <2> QED
    BY <2>1, McpPage, McpLocalStep
<1>2. CASE Mcp!OthersToggle
  <2> DEFINE effect == [server EXCEPT !.tools[1].enabled = ~@]
  <2>1. 1 \in DOMAIN server.tools /\ server' = effect /\ UNCHANGED <<ui, net, sent>>
    BY <1>2 DEF Mcp!OthersToggle
  <2>2. effect \in McpServer /\ McpRowsIn(effect) /\ DOMAIN effect.servers = DOMAIN server.servers
    BY <2>1, McpSwitched
  <2> HIDE DEF effect
  <2>3. McpTypeInv' /\ McpBusyInv'
    BY <2>1, <2>2 DEF McpIInv, McpTypeInv, McpBusyInv
  <2>4. McpRowsIn(server)'
    BY <2>1, <2>2 DEF McpRowsIn
  <2> QED
    BY <2>3, <2>4 DEF McpIInv
<1>3. CASE Mcp!Next /\ ~Mcp!OthersToggle
  <2>1. \/ Mcp!OpenAdd \/ Mcp!CloseForm \/ Mcp!Cancel \/ Mcp!CloseTest \/ Mcp!ExecuteInvalid
        \/ \E s \in DOMAIN ui.servers : Mcp!OpenEdit(s) \/ Mcp!ChooseTarget(s)
        \/ \E t \in DOMAIN ui.tools : Mcp!OpenTest(t)
        \/ Mcp!Refresh \/ Mcp!SaveServer \/ Mcp!DeleteServer \/ Mcp!ExecuteTest
        \/ \E s \in DOMAIN ui.servers : Mcp!TriggerHealth(s) \/ Mcp!SyncTools(s)
        \/ \E t \in DOMAIN ui.tools : Mcp!ToggleTool(t)
        \/ \E r \in net : Mcp!Registers(r) \/ Mcp!Looks(r) \/ Mcp!DiscoveryFails(r) \/ Mcp!CreatesAgain(r)
        \/ \E r \in net : \/ Mcp!Fetched(r) \/ Mcp!ServerSaved(r) \/ Mcp!ServerDeleted(r) \/ Mcp!HealthOrToolsCame(r)
                          \/ Mcp!ToolToggled(r) \/ Mcp!Tested(r)
        \/ Mcp!ServeOne(Mcp!Ready, Mcp!Refused, Mcp!Effect, Mcp!Reply)
        \/ Mcp!RepeatOne({r \in Mcp!Ready : r.ask.op # "create"}, Mcp!Refused, Mcp!Effect, Mcp!Again)
    BY <1>3 DEF Mcp!Next
  <2> QED
    BY <2>1, McpFormStep, McpButtonStep, McpRegistersStep, McpLooksStep, McpAnswerStep, McpServes, McpRepeats
<1> QED
  BY <1>1, <1>2, <1>3

LEMMA McpShown == McpIInv => Mcp!TypeOK /\ Mcp!BusyHasCause /\ Mcp!ToolsOnce
<1> SUFFICES ASSUME McpIInv PROVE Mcp!TypeOK /\ Mcp!BusyHasCause /\ Mcp!ToolsOnce
  OBVIOUS
<1>1. Mcp!TypeOK
  BY McpPage DEF McpIInv, McpApp, McpRowsIn, Mcp!TypeOK
<1>2. Mcp!BusyHasCause
  BY DEF McpIInv, McpBusyInv, Mcp!BusyHasCause, Mcp!Out
<1>3. ASSUME ~server.overlapped, NEW s \in DOMAIN server.servers
      PROVE  Mcp!Cardinality(Mcp!RowsOf(s)) <= 1
  <2> DEFINE rows == Mcp!RowsOf(s)
  <2>1. \A t, u \in rows : t = u
    BY <1>3 DEF McpIInv, McpRowsIn, Mcp!RowsOf
  <2> HIDE DEF rows
  <2>2. Mcp!Cardinality(rows) = Cardinality(rows)
    BY DEF Mcp!Cardinality, Cardinality
  <2>3. rows = {} => Cardinality(rows) <= 1
    BY FS_EmptySet
  <2>4. rows # {} => Cardinality(rows) <= 1
    <3> SUFFICES ASSUME rows # {} PROVE Cardinality(rows) <= 1
      OBVIOUS
    <3>1. PICK t \in rows : rows = {t}
      BY <2>1
    <3> QED
      BY <3>1, FS_Singleton
  <2> QED
    BY <2>2, <2>3, <2>4 DEF rows
<1>4. Mcp!ToolsOnce
  BY <1>3 DEF Mcp!ToolsOnce
<1> QED
  BY <1>1, <1>2, <1>4
-----------------------------------------------------------------------------
(* The MCP servers: what is shown is current, the flips under way included. *)

McpFlips(r) == r.ask.op = "toggle" /\ Served(r)
\* The tools once every flip whose answer is under way has been shown.
McpFlipping(t) == \E r \in net : McpFlips(r) /\ r.ask.id = t
McpFlipped(f) == [t \in DOMAIN f |-> IF McpFlipping(t) THEN [f[t] EXCEPT !.enabled = ~@] ELSE f[t]]
\* The lists come with r, or are fetched when r has come.
McpFetches(r) == r.ask.op = "fetch" \/ (r.ask.op \notin {"toggle", "test"} /\ Acted(r))
\* A toggle that was sent again: the page no longer knows the row when r has come.
McpCrosses(r) == r.ask.op = "toggle" /\ r.got # Failed /\ r.acts # 0
McpRegistered(r) == r.ask.op = "create" /\ r.ask.id # None

McpAnswersInv ==
    ~raced => \A r \in net : OnTime(r) /\ r.ask.op = "fetch" => r.got = [servers |-> server.servers, tools |-> server.tools]
\* Two flips that were served: the first answer would be late.
McpFlipsInv == ~raced /\ ~Doomed => \A q, r \in net : McpFlips(q) /\ McpFlips(r) => q = r
McpShownInv ==
    ~raced /\ ~Doomed /\ ~ui.error /\ ~ui.crossed =>
        \/ \E r \in net : McpFetches(r) \/ McpCrosses(r)
        \/ ui.servers = server.servers /\ McpFlipped(ui.tools) = server.tools
McpTestsInv ==
    /\ \A q, r \in net : q.ask.op = "test" /\ r.ask.op = "test" => q = r
    /\ \A r \in net : r.ask.op = "test" => ui.executing
    /\ ui.testing # None /\ ~ui.moved =>
          ui.result \in {None, ui.testing.tool} /\ \A r \in net : r.ask.op = "test" => r.ask.tool = ui.testing.tool
\* A server is registered by an attempt the gateway acted on.
McpCreatesInv == \A r \in net : McpRegistered(r) => r.acts # 0
McpFreshInv == McpAnswersInv /\ McpFlipsInv /\ McpShownInv /\ McpTestsInv /\ McpCreatesInv

LEMMA McpRaces ==
    ASSUME NEW r, NEW asks
    PROVE  /\ Mcp!Send(asks) => UNCHANGED <<server, raced>>
           /\ Mcp!Go(r, asks) => UNCHANGED server /\ raced' = (raced \/ (r.late /\ r.got # Failed))
           /\ Mcp!Done(r) => UNCHANGED server /\ raced' = (raced \/ (r.late /\ r.got # Failed))
BY DEF Mcp!Send, Mcp!Done, Mcp!Go

\* What others find when the gateway serves a request, which becomes to.
LEMMA McpMovesLate ==
    ASSUME NEW r \in net, NEW to \in McpSent, NEW held, net \subseteq McpSent, Mcp!Moves(r, to, held)
    PROVE  \E new \in [net -> McpSent] :
              /\ net' = {new[q] : q \in net} /\ server' = held /\ UNCHANGED ui
              /\ new[r] = to
              /\ \A q \in net : q # r => /\ new[q].id = q.id /\ new[q].ask = q.ask /\ new[q].got = q.got /\ new[q].acts = q.acts
                                         /\ new[q].late = (q.got # Waiting /\ (q.late \/ held # server))
<1>1. net' = {IF q = r THEN to ELSE [q EXCEPT !.late = q.got # Waiting /\ (@ \/ held # server)] : q \in net}
  BY DEF Mcp!Moves
<1> DEFINE Late(q) == q.got # Waiting /\ (q.late \/ held # server)
           New(q) == IF q = r THEN to ELSE [q EXCEPT !.late = Late(q)]
           new == [q \in net |-> New(q)]
<1>2. ASSUME NEW q \in net
      PROVE  /\ New(q) \in McpSent /\ (q = r => New(q) = to)
             /\ q # r => /\ New(q).id = q.id /\ New(q).ask = q.ask /\ New(q).got = q.got /\ New(q).acts = q.acts
                         /\ New(q).late = Late(q)
  <2>1. q \in McpSent /\ Late(q) \in BOOLEAN
    OBVIOUS
  <2> HIDE DEF Late
  <2> QED
    BY <2>1 DEF McpSent
<1>3. net' = {New(q) : q \in net}
  BY <1>1
<1>4. \A q \in net : q # r => New(q).late = (q.got # Waiting /\ (q.late \/ held # server))
  BY <1>2
<1> HIDE DEF New
<1>5. new \in [net -> McpSent] /\ \A q \in net : new[q] = New(q)
  BY <1>2
<1>6. net' = {new[q] : q \in net}
  BY <1>3, <1>5
<1> HIDE DEF new
<1>7. server' = held /\ UNCHANGED ui
  BY DEF Mcp!Moves
<1> QED
  BY <1>2, <1>4, <1>5, <1>6, <1>7

LEMMA McpInitFresh == Mcp!Init => McpFreshInv
<1> SUFFICES ASSUME Mcp!Init PROVE McpFreshInv
  OBVIOUS
<1> DEFINE ask == [op |-> "fetch"]
<1>1. net = {FirstRequest(1, ask)} /\ ui.testing = None
  BY StartedWithOne DEF Mcp!Init, Mcp!Started, Mcp!Request, Mcp!Fetch
<1>2. ask.op = "fetch"
  OBVIOUS
<1> HIDE DEF ask
<1>3. FirstRequest(1, ask).ask = ask /\ FirstRequest(1, ask).got = Waiting
  BY DEF FirstRequest
<1>4. McpAnswersInv /\ McpFlipsInv /\ McpShownInv
  BY <1>1, <1>2, <1>3 DEF McpAnswersInv, McpFlipsInv, McpShownInv, McpFlips, McpFetches, OnTime, Served
<1>5. McpTestsInv /\ McpCreatesInv
  BY <1>1, <1>2, <1>3 DEF McpTestsInv, McpCreatesInv, McpRegistered
<1> QED
  BY <1>4, <1>5 DEF McpFreshInv

-----------------------------------------------------------------------------
\* The gateway stays as it is: either the lists will be fetched, or nothing that is shown changes.
LEMMA McpListsKept ==
    ASSUME McpFreshInv, UNCHANGED server, raced => raced', Doomed => Doomed' \/ raced',
           \A q \in net' : q \in net \/ ~Served(q),
           \/ \E q \in net' : q.ask.op = "fetch"
           \/ /\ ui'.servers = ui.servers /\ ui'.tools = ui.tools /\ ui'.error = ui.error /\ ui'.crossed = ui.crossed
              /\ \A q \in net : q \in net' \/ (q.ask.op # "fetch" /\ (~Acted(q) \/ q.ask.op = "test"))
    PROVE  McpAnswersInv' /\ McpFlipsInv' /\ McpShownInv'
<1>1. \A q \in net' : McpFlips(q) \/ OnTime(q) => q \in net
  BY DEF McpFlips, OnTime
<1>2. McpAnswersInv'
  BY <1>1 DEF McpFreshInv, McpAnswersInv
<1>3. McpFlipsInv'
  BY <1>1 DEF McpFreshInv, McpFlipsInv
<1>4. CASE \E q \in net' : q.ask.op = "fetch"
  <2>1. McpShownInv'
    BY <1>4 DEF McpShownInv, McpFetches
  <2> QED
    BY <1>2, <1>3, <2>1
<1>5. CASE /\ ui'.servers = ui.servers /\ ui'.tools = ui.tools /\ ui'.error = ui.error /\ ui'.crossed = ui.crossed
           /\ \A q \in net : q \in net' \/ (q.ask.op # "fetch" /\ (~Acted(q) \/ q.ask.op = "test"))
  <2>1. \A t : McpFlipping(t)' <=> McpFlipping(t)
    BY <1>1, <1>5 DEF McpFlipping, McpFlips, Served, Acted
  <2>2. McpFlipped(ui.tools)' = McpFlipped(ui.tools)
    BY <1>5, <2>1 DEF McpFlipped
  <2>3. (\E q \in net : McpFetches(q) \/ McpCrosses(q)) => \E q \in net' : McpFetches(q) \/ McpCrosses(q)
    BY <1>5 DEF McpFetches, McpCrosses, Acted
  <2>4. McpShownInv'
    BY <1>5, <2>2, <2>3 DEF McpFreshInv, McpShownInv
  <2> QED
    BY <1>2, <1>3, <2>4
<1> QED
  BY <1>4, <1>5

LEMMA McpTestsKept ==
    ASSUME McpFreshInv, \A q \in net' : q \in net \/ (q.ask.op # "test" /\ ~McpRegistered(q)),
           ui'.executing = ui.executing, ui'.testing = ui.testing, ui'.result = ui.result, ui'.moved = ui.moved
    PROVE  McpTestsInv' /\ McpCreatesInv'
BY DEF McpFreshInv, McpTestsInv, McpCreatesInv

LEMMA McpFormFresh ==
    ASSUME McpIInv, McpFreshInv,
           \/ Mcp!OpenAdd \/ Mcp!CloseForm \/ Mcp!Cancel \/ Mcp!CloseTest \/ Mcp!ExecuteInvalid
           \/ \E s \in DOMAIN ui.servers : Mcp!OpenEdit(s) \/ Mcp!ChooseTarget(s)
           \/ \E t \in DOMAIN ui.tools : Mcp!OpenTest(t)
    PROVE  McpFreshInv'
<1>1. UNCHANGED <<net, server, raced>>
  BY DEF Mcp!OpenAdd, Mcp!CloseForm, Mcp!Cancel, Mcp!CloseTest, Mcp!ExecuteInvalid, Mcp!OpenEdit, Mcp!ChooseTarget,
     Mcp!OpenTest, Mcp!Set, Mcp!Local
<1>2. \/ \E form : ui' = [ui EXCEPT !.form = form]
      \/ \E target : ui' = [ui EXCEPT !.target = target]
      \/ ui' = [ui EXCEPT !.testing = None, !.moved = ui.executing]
      \/ ui' = [ui EXCEPT !.result = None]
      \/ \E testing : ui' = [ui EXCEPT !.testing = testing, !.result = None, !.moved = ui.executing]
  BY DEF Mcp!OpenAdd, Mcp!CloseForm, Mcp!Cancel, Mcp!CloseTest, Mcp!ExecuteInvalid, Mcp!OpenEdit, Mcp!ChooseTarget,
     Mcp!OpenTest, Mcp!Set
<1>3. /\ ui'.servers = ui.servers /\ ui'.tools = ui.tools /\ ui'.error = ui.error /\ ui'.crossed = ui.crossed
      /\ ui'.executing = ui.executing
      /\ \/ ui'.testing = ui.testing /\ ui'.moved = ui.moved /\ ui'.result \in {None, ui.result}
         \/ ui'.testing = None
         \/ ui'.result = None /\ ui'.moved = ui.executing
  BY <1>2, McpPage DEF McpApp
<1>4. McpAnswersInv' /\ McpFlipsInv' /\ McpShownInv'
  BY <1>1, <1>3, McpListsKept DEF Doomed
<1>5. McpTestsInv' /\ McpCreatesInv'
  BY <1>1, <1>3 DEF McpFreshInv, McpTestsInv, McpCreatesInv
<1> QED
  BY <1>4, <1>5 DEF McpFreshInv

LEMMA McpSendFresh ==
    ASSUME McpIInv, McpFreshInv, NEW ask, Mcp!Send(<<ask>>), ask.op = "create" => ask.id = None,
           ui'.servers = ui.servers, ui'.tools = ui.tools, ui'.error = ui.error, ui'.crossed = ui.crossed,
           ui'.testing = ui.testing,
           \/ ask.op # "test" /\ ui'.executing = ui.executing /\ ui'.result = ui.result /\ ui'.moved = ui.moved
           \/ ask.op = "test" /\ ~ui.executing /\ ui'.executing /\ ask.tool = ui.testing.tool /\ ui'.result = None
    PROVE  McpFreshInv'
<1>1. UNCHANGED <<server, raced>> /\ net' = net \cup {NewRequest(sent, ask)}
  BY McpRaces, McpAsks1
<1>2. NewRequest(sent, ask).ask = ask /\ ~Served(NewRequest(sent, ask))
  BY NewIsWaiting
<1>3. McpAnswersInv' /\ McpFlipsInv' /\ McpShownInv'
  BY <1>1, <1>2, McpListsKept DEF Doomed
<1>4. McpTestsInv' /\ McpCreatesInv'
  BY <1>1, <1>2 DEF McpFreshInv, McpTestsInv, McpCreatesInv, McpRegistered
<1> QED
  BY <1>3, <1>4 DEF McpFreshInv

LEMMA McpButtonFresh ==
    ASSUME McpIInv, McpFreshInv,
           \/ Mcp!Refresh \/ Mcp!SaveServer \/ Mcp!DeleteServer \/ Mcp!ExecuteTest
           \/ \E s \in DOMAIN ui.servers : Mcp!TriggerHealth(s) \/ Mcp!SyncTools(s)
           \/ \E t \in DOMAIN ui.tools : Mcp!ToggleTool(t)
    PROVE  McpFreshInv'
<1>1. CASE Mcp!ExecuteTest
  <2> DEFINE ask == [op |-> "test", id |-> ui.testing.server, tool |-> ui.testing.tool]
  <2>1. /\ ui' = [ui EXCEPT !.executing = TRUE, !.result = None, !.moved = FALSE] /\ Mcp!Send(<<ask>>) /\ ~ui.executing
        /\ ask.op = "test" /\ ask.tool = ui.testing.tool
    BY <1>1 DEF Mcp!ExecuteTest, Mcp!Ask
  <2> HIDE DEF ask
  <2>2. /\ ui'.servers = ui.servers /\ ui'.tools = ui.tools /\ ui'.error = ui.error /\ ui'.crossed = ui.crossed
        /\ ui'.testing = ui.testing /\ ui'.executing /\ ui'.result = None
    BY <2>1, McpPage DEF McpApp
  <2> QED
    BY <2>1, <2>2, McpSendFresh
<1>2. CASE \/ Mcp!Refresh \/ Mcp!SaveServer \/ Mcp!DeleteServer
           \/ \E s \in DOMAIN ui.servers : Mcp!TriggerHealth(s) \/ Mcp!SyncTools(s)
           \/ \E t \in DOMAIN ui.tools : Mcp!ToggleTool(t)
  <2>1. /\ \E ask : ask.op # "test" /\ (ask.op = "create" => ask.id = None) /\ Mcp!Send(<<ask>>)
        /\ ui' \in {ui, Mcp!Loading(ui), [ui EXCEPT !.submitting = TRUE]}
    <3>1. CASE Mcp!Refresh
      BY <3>1 DEF Mcp!Refresh, Mcp!Fetch
    <3>2. CASE Mcp!SaveServer
      <4> DEFINE ask == IF ui.form = <<>> THEN Mcp!NewServer ELSE [op |-> "update", id |-> ui.form[1]]
      <4>1. ask.op # "test" /\ (ask.op = "create" => ask.id = None)
        BY DEF Mcp!NewServer
      <4>2. Mcp!Send(<<ask>>) /\ ui' = [ui EXCEPT !.submitting = TRUE]
        BY <3>2 DEF Mcp!SaveServer, Mcp!Ask
      <4> HIDE DEF ask
      <4> QED
        BY <4>1, <4>2
    <3>3. CASE Mcp!DeleteServer
      BY <3>3 DEF Mcp!DeleteServer, Mcp!Ask
    <3>4. ASSUME NEW s, Mcp!TriggerHealth(s) \/ Mcp!SyncTools(s) \/ Mcp!ToggleTool(s)
          PROVE  (\E ask : ask.op \notin {"test", "create"} /\ Mcp!Send(<<ask>>)) /\ ui' = ui
      <4>1. CASE Mcp!TriggerHealth(s)
        BY <4>1 DEF Mcp!TriggerHealth, Mcp!Ask
      <4>2. CASE Mcp!SyncTools(s)
        BY <4>2 DEF Mcp!SyncTools, Mcp!Ask
      <4>3. CASE Mcp!ToggleTool(s)
        BY <4>3 DEF Mcp!ToggleTool, Mcp!Ask
      <4> QED
        BY <3>4, <4>1, <4>2, <4>3
    <3> QED
      BY <1>2, <3>1, <3>2, <3>3, <3>4
  <2>2. /\ ui'.servers = ui.servers /\ ui'.tools = ui.tools /\ ui'.error = ui.error /\ ui'.crossed = ui.crossed
        /\ ui'.testing = ui.testing /\ ui'.executing = ui.executing /\ ui'.result = ui.result /\ ui'.moved = ui.moved
    BY <2>1, McpPage DEF McpApp, Mcp!Loading
  <2> QED
    BY <2>1, <2>2, McpSendFresh
<1> QED
  BY <1>1, <1>2
-----------------------------------------------------------------------------
LEMMA McpDoomed == ASSUME NEW r, NEW asks, Mcp!Go(r, asks) PROVE Doomed => Doomed' \/ raced'
<1>1. net \ {r} \subseteq net' /\ raced' = (raced \/ (r.late /\ r.got # Failed))
  BY DEF Mcp!Go
<1> QED
  BY <1>1 DEF Doomed, Served

LEMMA McpWroteFresh ==
    ASSUME McpIInv, McpFreshInv, NEW r \in net,
           Mcp!ServerSaved(r) \/ Mcp!ServerDeleted(r) \/ Mcp!HealthOrToolsCame(r)
    PROVE  McpFreshInv'
<1> DEFINE ask == [op |-> "fetch"]
<1>1. /\ r.ask.op \in {"create", "update", "delete", "health", "sync"} /\ r.got # Waiting
      /\ \/ Mcp!Go(r, <<ask>>)
         \/ r.got = Failed /\ Mcp!Done(r)
      /\ \/ \E submitting, form, loading : ui' = [ui EXCEPT !.submitting = submitting, !.form = form, !.loading = loading]
         \/ \E target, loading : ui' = [ui EXCEPT !.target = target, !.loading = loading]
         \/ \E submitting : ui' = [ui EXCEPT !.submitting = submitting]
         \/ \E target : ui' = [ui EXCEPT !.target = target]
         \/ \E loading : ui' = [ui EXCEPT !.loading = loading]
         \/ ui' = ui
  <2>1. CASE Mcp!ServerSaved(r)
    <3>1. PICK op \in {"create", "update"} :
            Mcp!Answer(r, op, Mcp!Loading([ui EXCEPT !.submitting = FALSE, !.form = None]), Mcp!Fetch,
                       [ui EXCEPT !.submitting = FALSE])
      BY <2>1 DEF Mcp!ServerSaved
    <3>2. Mcp!Loading([ui EXCEPT !.submitting = FALSE, !.form = None])
            = [ui EXCEPT !.submitting = FALSE, !.form = None, !.loading = TRUE]
      BY McpPage DEF McpApp, Mcp!Loading
    <3>3. /\ r.ask.op = op /\ r.got # Waiting
          /\ \/ Mcp!Go(r, <<ask>>) /\ ui' = [ui EXCEPT !.submitting = FALSE, !.form = None, !.loading = TRUE]
             \/ r.got = Failed /\ Mcp!Done(r) /\ ui' = [ui EXCEPT !.submitting = FALSE]
      BY <3>1, <3>2 DEF Mcp!Answer, Mcp!Came, Mcp!Fetch
    <3> HIDE DEF ask
    <3> QED
      BY <3>3
  <2>2. CASE Mcp!ServerDeleted(r)
    <3>1. Mcp!Loading([ui EXCEPT !.target = None]) = [ui EXCEPT !.target = None, !.loading = TRUE]
      BY McpPage DEF McpApp, Mcp!Loading
    <3>2. /\ r.ask.op = "delete" /\ r.got # Waiting
          /\ \/ Mcp!Go(r, <<ask>>) /\ ui' = [ui EXCEPT !.target = None, !.loading = TRUE]
             \/ r.got = Failed /\ Mcp!Done(r) /\ ui' = [ui EXCEPT !.target = None]
      BY <2>2, <3>1 DEF Mcp!ServerDeleted, Mcp!Answer, Mcp!Came, Mcp!Fetch
    <3> HIDE DEF ask
    <3> QED
      BY <3>2
  <2>3. CASE Mcp!HealthOrToolsCame(r)
    BY <2>3 DEF Mcp!HealthOrToolsCame, Mcp!Answer, Mcp!Came, Mcp!Fetch, Mcp!Loading
  <2> QED
    BY <2>1, <2>2, <2>3
<1>2. /\ ui'.servers = ui.servers /\ ui'.tools = ui.tools /\ ui'.error = ui.error /\ ui'.crossed = ui.crossed
      /\ ui'.testing = ui.testing /\ ui'.executing = ui.executing /\ ui'.result = ui.result /\ ui'.moved = ui.moved
  BY <1>1, McpPage DEF McpApp
<1>3. ask.op = "fetch"
  OBVIOUS
<1> HIDE DEF ask
<1>4. Doomed => Doomed' \/ raced'
  BY <1>1, McpDoomed DEF Mcp!Done
<1>5. UNCHANGED server /\ (raced => raced')
  BY <1>1, McpRaces
<1>6. CASE Mcp!Go(r, <<ask>>)
  <2>1. net' = (net \ {r}) \cup {NewRequest(sent, ask)}
    BY <1>6, McpAsks1
  <2>2. NewRequest(sent, ask).ask = ask /\ ~Served(NewRequest(sent, ask)) /\ ~McpRegistered(NewRequest(sent, ask))
    BY <1>3, NewIsWaiting DEF McpRegistered
  <2>3. McpAnswersInv' /\ McpFlipsInv' /\ McpShownInv'
    BY <1>3, <1>4, <1>5, <2>1, <2>2, McpListsKept
  <2>4. McpTestsInv' /\ McpCreatesInv'
    BY <1>2, <1>3, <2>1, <2>2, McpTestsKept
  <2> QED
    BY <2>3, <2>4 DEF McpFreshInv
<1>7. CASE r.got = Failed /\ Mcp!Done(r)
  <2>1. net' = net \ {r} /\ ~Acted(r)
    BY <1>7, McpPage, McpEnds DEF Acted
  <2>2. McpAnswersInv' /\ McpFlipsInv' /\ McpShownInv'
    BY <1>1, <1>2, <1>4, <1>5, <2>1, McpListsKept
  <2>3. McpTestsInv' /\ McpCreatesInv'
    BY <1>2, <2>1, McpTestsKept
  <2> QED
    BY <2>2, <2>3 DEF McpFreshInv
<1> QED
  BY <1>1, <1>6, <1>7

LEMMA McpTestedFresh == ASSUME McpIInv, McpFreshInv, NEW r \in net, Mcp!Tested(r) PROVE McpFreshInv'
<1>1. /\ r.ask.op = "test" /\ r.got # Waiting /\ Mcp!Done(r)
      /\ ui' = IF r.got = Failed THEN [ui EXCEPT !.executing = FALSE]
               ELSE [ui EXCEPT !.result = r.ask.tool, !.executing = FALSE]
  BY DEF Mcp!Tested, Mcp!Answer, Mcp!Came, Mcp!Done
<1>2. /\ ui'.servers = ui.servers /\ ui'.tools = ui.tools /\ ui'.error = ui.error /\ ui'.crossed = ui.crossed
      /\ ui'.testing = ui.testing /\ ui'.moved = ui.moved /\ ui'.result \in {ui.result, r.ask.tool}
  BY <1>1, McpPage DEF McpApp
<1>3. net' = net \ {r} /\ UNCHANGED server /\ (raced => raced') /\ (Doomed => Doomed' \/ raced')
  BY <1>1, McpPage, McpEnds, McpRaces, McpDoomed DEF Mcp!Done
<1>4. McpAnswersInv' /\ McpFlipsInv' /\ McpShownInv'
  BY <1>1, <1>2, <1>3, McpListsKept
<1>5. McpTestsInv' /\ McpCreatesInv'
  BY <1>1, <1>2, <1>3 DEF McpFreshInv, McpTestsInv, McpCreatesInv
<1> QED
  BY <1>4, <1>5 DEF McpFreshInv

LEMMA McpFetchedFresh == ASSUME McpIInv, McpFreshInv, NEW r \in net, Mcp!Fetched(r) PROVE McpFreshInv'
<1> DEFINE servers == r.got.servers
           tools == r.got.tools
           crossed == Mcp!Out({"toggle"})
<1>1. /\ r.ask.op = "fetch" /\ r.got # Waiting /\ Mcp!Done(r)
      /\ ui' = IF r.got = Failed THEN [ui EXCEPT !.loading = FALSE, !.error = TRUE]
               ELSE [ui EXCEPT !.servers = servers, !.tools = tools, !.loading = FALSE, !.error = FALSE, !.crossed = crossed]
  BY DEF Mcp!Fetched, Mcp!Answer, Mcp!Came, Mcp!Done
<1>2. net' = net \ {r} /\ UNCHANGED server /\ raced' = (raced \/ (r.late /\ r.got # Failed))
  BY <1>1, McpPage, McpEnds, McpRaces
<1>3. Doomed => Doomed' \/ raced'
  BY <1>1, McpDoomed DEF Mcp!Done
<1>4. crossed <=> \E q \in net : q.ask.op = "toggle"
  BY DEF Mcp!Out
<1> HIDE DEF servers, tools, crossed
<1>5. /\ ui'.testing = ui.testing /\ ui'.executing = ui.executing /\ ui'.result = ui.result /\ ui'.moved = ui.moved
      /\ IF r.got = Failed THEN ui'.error
         ELSE ui'.servers = servers /\ ui'.tools = tools /\ ui'.crossed = crossed
  BY <1>1, McpPage DEF McpApp
<1>6. McpTestsInv' /\ McpCreatesInv'
  BY <1>2, <1>5, McpTestsKept
<1>7. McpAnswersInv' /\ McpFlipsInv'
  BY <1>2, <1>3 DEF McpFreshInv, McpAnswersInv, McpFlipsInv
<1>8. McpShownInv'
  <2>1. ASSUME ~raced', r.got # Failed, ~ui'.crossed
        PROVE  ui'.servers = server.servers /\ McpFlipped(ui.tools)' = server.tools
    <3>1. r.got = [servers |-> server.servers, tools |-> server.tools]
      BY <1>1, <1>2, <2>1 DEF McpFreshInv, McpAnswersInv, OnTime, Served
    <3>2. ui'.servers = server.servers /\ ui'.tools = server.tools
      BY <1>5, <2>1, <3>1 DEF servers, tools
    <3>3. \A t : ~McpFlipping(t)'
      BY <1>2, <1>4, <1>5, <2>1 DEF McpFlipping, McpFlips
    <3>4. server.tools = [t \in DOMAIN server.tools |-> server.tools[t]]
      BY McpPage
    <3> QED
      BY <3>2, <3>3, <3>4 DEF McpFlipped
  <2> QED
    BY <1>2, <1>5, <2>1 DEF McpShownInv
<1> QED
  BY <1>6, <1>7, <1>8 DEF McpFreshInv

\* The flip is shown.
LEMMA McpToggledFresh == ASSUME McpIInv, McpFreshInv, NEW r \in net, Mcp!ToolToggled(r) PROVE McpFreshInv'
<1> DEFINE t == r.ask.id
<1>1. /\ r.ask.op = "toggle" /\ r.got # Waiting /\ Mcp!Done(r)
      /\ ui' = IF r.got = Failed THEN ui ELSE [Mcp!Flipped(t) EXCEPT !.crossed = @ \/ r.acts # 0]
  BY DEF Mcp!ToolToggled, Mcp!Answer, Mcp!Came, Mcp!Done
<1>2. net' = net \ {r} /\ UNCHANGED server /\ (raced => raced') /\ (Doomed => Doomed' \/ raced')
  BY <1>1, McpPage, McpEnds, McpRaces, McpDoomed DEF Mcp!Done
<1>3. CASE r.got = Failed
  <2>1. ui' = ui /\ ~Acted(r)
    BY <1>1, <1>3 DEF Acted
  <2>2. McpAnswersInv' /\ McpFlipsInv' /\ McpShownInv'
    BY <1>1, <1>2, <2>1, McpListsKept
  <2>3. McpTestsInv' /\ McpCreatesInv'
    BY <1>2, <2>1, McpTestsKept
  <2> QED
    BY <2>2, <2>3 DEF McpFreshInv
<1>4. CASE r.got # Failed
  <2> DEFINE flipped == [u \in DOMAIN ui.tools |-> IF u = t THEN [ui.tools[u] EXCEPT !.enabled = ~@] ELSE ui.tools[u]]
             acts == r.acts # 0
             crossed == ui.crossed \/ acts
  <2>1. /\ ui'.servers = ui.servers /\ ui'.tools = flipped /\ ui'.error = ui.error /\ ui'.crossed = crossed
        /\ ui'.testing = ui.testing /\ ui'.executing = ui.executing /\ ui'.result = ui.result /\ ui'.moved = ui.moved
    <3> HIDE DEF acts
    <3>0. ui' = [Mcp!Flipped(t) EXCEPT !.crossed = @ \/ acts]
      BY <1>1, <1>4 DEF acts
    <3>1. CASE t \in DOMAIN ui.tools
      <4> DEFINE tools == [ui.tools EXCEPT ![t].enabled = ~@]
      <4>1. Mcp!Flipped(t) = [ui EXCEPT !.tools = tools]
        BY <3>1 DEF Mcp!Flipped
      <4> HIDE DEF tools
      <4>2. /\ ui'.servers = ui.servers /\ ui'.tools = tools
            /\ ui'.error = ui.error /\ ui'.crossed = crossed
            /\ ui'.testing = ui.testing /\ ui'.executing = ui.executing /\ ui'.result = ui.result /\ ui'.moved = ui.moved
        BY <3>0, <4>1, McpPage DEF McpApp
      <4>3. [ui.tools EXCEPT ![t].enabled = ~@] = flipped
        BY <3>1, McpOnScreen
      <4> QED
        BY <4>2, <4>3 DEF tools
    <3>2. CASE t \notin DOMAIN ui.tools
      <4>1. Mcp!Flipped(t) = ui
        BY <3>2 DEF Mcp!Flipped
      <4>2. ui.tools = flipped
        BY <3>2, McpOnScreen
      <4> QED
        BY <3>0, <4>1, <4>2, McpPage DEF McpApp
    <3> QED
      BY <3>1, <3>2
  <2> HIDE DEF flipped
  <2>2. McpTestsInv' /\ McpCreatesInv'
    BY <1>2, <2>1, McpTestsKept
  <2>3. McpAnswersInv' /\ McpFlipsInv'
    BY <1>2 DEF McpFreshInv, McpAnswersInv, McpFlipsInv
  <2>4. McpFlips(r)
    BY <1>1, <1>4 DEF McpFlips, Served
  <2>5. ASSUME ~raced', ~Doomed'
        PROVE  McpFlipped(ui.tools)' = McpFlipped(ui.tools)
    <3>1. \A q \in net : McpFlips(q) => q = r
      BY <1>2, <2>4, <2>5 DEF McpFreshInv, McpFlipsInv
    <3>2. \A u : (McpFlipping(u) <=> u = t) /\ ~McpFlipping(u)'
      BY <1>2, <2>4, <3>1 DEF McpFlipping
    <3>3. McpFlipped(ui.tools) = flipped
      BY <3>2 DEF McpFlipped, flipped
    <3>4. McpFlipped(ui.tools)' = [u \in DOMAIN flipped |-> flipped[u]]
      BY <2>1, <3>2 DEF McpFlipped
    <3>5. flipped = [u \in DOMAIN flipped |-> flipped[u]]
      BY DEF flipped
    <3> QED
      BY <3>3, <3>4, <3>5
  <2>6. r.acts = 0 /\ (\E q \in net : McpFetches(q) \/ McpCrosses(q)) => \E q \in net' : McpFetches(q) \/ McpCrosses(q)
    BY <1>1, <1>2 DEF McpFetches, McpCrosses
  <2>7. McpShownInv'
    BY <1>2, <2>1, <2>5, <2>6 DEF McpFreshInv, McpShownInv
  <2> QED
    BY <2>2, <2>3, <2>7 DEF McpFreshInv
<1> QED
  BY <1>3, <1>4

\* The gateway goes on with r, which becomes to: the lists will be fetched, or what is shown is no longer
\* known, or nothing has changed, or a flip is to be shown.
LEMMA McpMoveFresh ==
    ASSUME McpIInv, McpFreshInv, NEW r \in net, r.got = Waiting, NEW to \in McpSent, NEW held, Mcp!Moves(r, to, held),
           raced => raced', to.ask.op = r.ask.op, r.ask.op \in {"test", "toggle"} => to.ask = r.ask,
           McpRegistered(to) => to.acts # 0,
           ~raced' =>
              /\ (McpFetches(r) => McpFetches(to)) /\ (McpCrosses(r) => McpCrosses(to))
              /\ r.ask.op = "fetch" /\ Served(to) => to.got = [servers |-> held.servers, tools |-> held.tools]
              /\ McpFlips(to) => held # server
              /\ \/ McpFetches(to) \/ McpCrosses(to)
                 \/ held = server /\ ~McpFlips(to)
                 \/ /\ McpFlips(to) /\ r.ask.id \in DOMAIN server.tools
                    /\ held.servers = server.servers /\ held.tools = [server.tools EXCEPT ![r.ask.id].enabled = ~@]
    PROVE  McpFreshInv'
<1>1. PICK new \in [net -> McpSent] :
         /\ net' = {new[q] : q \in net} /\ server' = held /\ UNCHANGED ui
         /\ new[r] = to
         /\ \A q \in net : q # r => /\ new[q].id = q.id /\ new[q].ask = q.ask /\ new[q].got = q.got /\ new[q].acts = q.acts
                                    /\ new[q].late = (q.got # Waiting /\ (q.late \/ held # server))
  BY McpPage, McpMovesLate
<1>2. /\ new[r].ask.op = r.ask.op /\ (r.ask.op \in {"test", "toggle"} => new[r].ask = r.ask)
      /\ \A q \in net : new[q] \in net' /\ (q # r => new[q].ask = q.ask /\ new[q].got = q.got /\ new[q].acts = q.acts)
  BY <1>1
<1>3. \A q \in net : q # r /\ Served(q) => Served(new[q]) /\ (q.late \/ server' # server => new[q].late)
  BY <1>1 DEF Served
<1>4. ~Served(r) /\ ~McpFlips(r)
  BY DEF McpFlips, Served
<1>5. ~Doomed' => ~Doomed
  BY <1>2, <1>3, <1>4 DEF Doomed
<1>6. ~Doomed' /\ server' # server => \A q \in net : ~Served(q)
  BY <1>2, <1>3, <1>4 DEF Doomed
<1>7. \A q \in net : q # r => /\ McpFlips(new[q]) <=> McpFlips(q)
                              /\ McpFetches(new[q]) <=> McpFetches(q)
                              /\ McpCrosses(new[q]) <=> McpCrosses(q)
  BY <1>2 DEF McpFlips, McpFetches, McpCrosses, Served, Acted
<1>8. McpTestsInv'
  BY <1>1, <1>2 DEF McpFreshInv, McpTestsInv
<1>9. McpCreatesInv'
  BY <1>1, <1>2 DEF McpFreshInv, McpCreatesInv, McpRegistered
<1>10. CASE raced'
  BY <1>8, <1>9, <1>10 DEF McpFreshInv, McpAnswersInv, McpFlipsInv, McpShownInv
<1>11. CASE ~raced'
  <2>1. ASSUME NEW p \in net', OnTime(p), p.ask.op = "fetch"
        PROVE  p.got = [servers |-> server'.servers, tools |-> server'.tools]
    <3>1. PICK q \in net : p = new[q]
      BY <1>1
    <3>2. CASE q = r
      BY <1>1, <1>11, <2>1, <3>1, <3>2 DEF OnTime
    <3>3. CASE q # r
      <4>1. OnTime(q) /\ server' = server /\ q.ask = p.ask /\ q.got = p.got
        BY <1>1, <2>1, <3>1, <3>3 DEF OnTime, Served
      <4> QED
        BY <1>11, <2>1, <4>1 DEF McpFreshInv, McpAnswersInv
    <3> QED
      BY <3>2, <3>3
  <2>2. McpAnswersInv'
    BY <2>1 DEF McpAnswersInv
  <2>3. ASSUME ~Doomed', NEW p \in net, NEW q \in net, McpFlips(new[p]), McpFlips(new[q])
        PROVE  new[p] = new[q]
    <3>1. CASE server' # server
      <4>1. p = r /\ q = r
        BY <1>6, <1>7, <2>3, <3>1 DEF McpFlips
      <4> QED
        BY <4>1
    <3>2. CASE server' = server
      <4>1. p # r /\ q # r
        BY <1>1, <1>11, <2>3, <3>2
      <4> QED
        BY <1>5, <1>7, <1>11, <2>3, <4>1 DEF McpFreshInv, McpFlipsInv
    <3> QED
      BY <3>1, <3>2
  <2>4. McpFlipsInv'
    BY <1>1, <2>3 DEF McpFlipsInv
  <2>5. (\E q \in net : McpFetches(q) \/ McpCrosses(q)) => \E p \in net' : McpFetches(p) \/ McpCrosses(p)
    BY <1>1, <1>2, <1>7, <1>11
  <2>6. CASE McpFetches(to) \/ McpCrosses(to)
    <3>1. McpShownInv'
      BY <1>1, <1>2, <2>6 DEF McpShownInv
    <3> QED
      BY <1>8, <1>9, <2>2, <2>4, <3>1 DEF McpFreshInv
  <2>7. CASE held = server /\ ~McpFlips(to)
    <3>1. \A t : McpFlipping(t)' <=> McpFlipping(t)
      BY <1>1, <1>2, <1>4, <1>7, <2>7 DEF McpFlipping
    <3>2. McpFlipped(ui.tools)' = McpFlipped(ui.tools)
      BY <1>1, <3>1 DEF McpFlipped
    <3>3. McpShownInv'
      BY <1>1, <1>5, <1>11, <2>5, <2>7, <3>2 DEF McpFreshInv, McpShownInv
    <3> QED
      BY <1>8, <1>9, <2>2, <2>4, <3>3 DEF McpFreshInv
  <2>8. CASE /\ McpFlips(to) /\ r.ask.id \in DOMAIN server.tools
             /\ held.servers = server.servers /\ held.tools = [server.tools EXCEPT ![r.ask.id].enabled = ~@]
    <3> DEFINE t == r.ask.id
    <3>1. server' # server /\ new[r].ask = r.ask /\ McpFlips(new[r])
      BY <1>1, <1>2, <1>11, <2>8 DEF McpFlips
    <3>2. ASSUME ~Doomed', ui.tools = server.tools
          PROVE  McpFlipped(ui.tools)' = server'.tools
      <4>1. \A u : McpFlipping(u)' <=> u = t
        <5>1. \A q \in net : q # r => ~McpFlips(new[q])
          BY <1>6, <1>7, <3>1, <3>2 DEF McpFlips
        <5> QED
          BY <1>1, <1>2, <3>1, <5>1 DEF McpFlipping
      <4>2. McpFlipped(ui.tools)'
              = [u \in DOMAIN server.tools |-> IF u = t THEN [server.tools[u] EXCEPT !.enabled = ~@] ELSE server.tools[u]]
        BY <1>1, <3>2, <4>1 DEF McpFlipped
      <4>3. [server.tools EXCEPT ![t].enabled = ~@]
              = [u \in DOMAIN server.tools |-> IF u = t THEN [server.tools[u] EXCEPT !.enabled = ~@] ELSE server.tools[u]]
        BY <2>8, McpPage
      <4> QED
        BY <1>1, <2>8, <4>2, <4>3
    <3>3. ASSUME ~Doomed' PROVE McpFlipped(ui.tools) = ui.tools
      <4>1. \A u : ~McpFlipping(u)
        BY <1>6, <3>1, <3>3 DEF McpFlipping, McpFlips
      <4>2. ui.tools = [u \in DOMAIN ui.tools |-> ui.tools[u]]
        BY McpOnScreen
      <4> QED
        BY <4>1, <4>2 DEF McpFlipped
    <3>4. McpShownInv'
      BY <1>1, <1>5, <1>11, <2>5, <2>8, <3>2, <3>3 DEF McpFreshInv, McpShownInv
    <3> QED
      BY <1>8, <1>9, <2>2, <2>4, <3>4 DEF McpFreshInv
  <2> QED
    BY <1>11, <2>6, <2>7, <2>8
<1> QED
  BY <1>10, <1>11

\* A registration goes on, and a discovery looks.
LEMMA McpGoesOnFresh ==
    ASSUME McpIInv, McpFreshInv, NEW r \in net, Mcp!Registers(r) \/ Mcp!Looks(r) \/ Mcp!DiscoveryFails(r)
    PROVE  McpFreshInv'
<1>1. r \in McpSent /\ r.ask \in McpAsks /\ r.id \in Int /\ r.acts \in Nat /\ DOMAIN server.servers \subseteq Int
  BY McpPage DEF McpSent
<1>2. r.ask.op \in {"create", "sync"} => r.ask \in McpCreate \cup McpSync
  BY <1>1 DEF McpAsks
<1>3. CASE Mcp!Registers(r)
  <2> DEFINE k == r.id + 2
             acts == r.acts + 1
             ask == [r.ask EXCEPT !.id = k]
             to == [r EXCEPT !.ask = ask, !.acts = acts]
             held == [server EXCEPT !.servers = Mcp!Put(@, r.id + 2, Mcp!Server(FALSE, "new", "unknown"))]
  <2>1. r.ask.op = "create" /\ r.got = Waiting /\ raced' = raced
    BY <1>3 DEF Mcp!Registers
  <2>2. to = [r EXCEPT !.ask.id = r.id + 2, !.acts = @ + 1]
    BY <1>1 DEF McpSent
  <2>3. Mcp!Moves(r, to, held)
    BY <1>3, <2>2 DEF Mcp!Registers
  <2>4. k \in Int /\ acts \in Nat /\ acts # 0
    BY <1>1
  <2> HIDE DEF held, k, acts
  <2>5. r.ask \in McpCreate
    BY <1>2, <2>1 DEF McpSync
  <2>6. ask \in McpCreate /\ ask.op = "create"
    BY <2>4, <2>5 DEF McpCreate, McpMaybe
  <2> HIDE DEF ask
  <2>7. ask \in McpAsks
    BY <2>6 DEF McpAsks
  <2>8. to \in McpSent /\ to.ask = ask /\ to.acts = acts /\ to.got = r.got
    BY <1>1, <2>4, <2>7 DEF McpSent
  <2> HIDE DEF to
  <2>9. McpFetches(to) /\ ~McpFlips(to) /\ ~McpCrosses(r)
    BY <2>1, <2>4, <2>6, <2>8, RepliesApart DEF McpFetches, McpFlips, McpCrosses, Acted
  <2> QED
    BY <2>1, <2>3, <2>4, <2>6, <2>8, <2>9, McpMoveFresh
<1>4. CASE Mcp!Looks(r)
  <2> DEFINE read == Mcp!RowsOf(r.ask.id)
             ask == [r.ask EXCEPT !.read = read]
             to == [r EXCEPT !.ask = ask]
             held == IF r.ask.op = "sync" THEN server
                     ELSE [server EXCEPT !.servers[r.ask.id].health = Mcp!Health(server.up)]
  <2>1. /\ r.ask.op \in {"create", "sync"} /\ r.got = Waiting /\ raced' = raced /\ r.ask.id \in DOMAIN server.servers
        /\ Mcp!Moves(r, to, held)
    BY <1>4 DEF Mcp!Looks
  <2>2. read \in McpReads
    BY McpPage DEF Mcp!RowsOf, McpReads
  <2>3. r.ask.op = "sync" => held = server
    OBVIOUS
  <2> HIDE DEF held, read
  <2>4. ask \in McpCreate \cup McpSync /\ ask.op = r.ask.op /\ ask.id = r.ask.id
    BY <1>2, <2>1, <2>2 DEF McpCreate, McpSync
  <2> HIDE DEF ask
  <2>5. ask \in McpAsks
    BY <2>4 DEF McpAsks
  <2>6. to \in McpSent /\ to.ask = ask /\ to.acts = r.acts /\ to.got = r.got
    BY <1>1, <2>5 DEF McpSent
  <2> HIDE DEF to
  <2>7. /\ McpRegistered(to) => to.acts # 0
        /\ r.ask.op = "create" => to.acts # 0
    <3>1. r.ask.id # None
      BY <1>1, <2>1, NoneApart
    <3> QED
      BY <2>4, <2>6, <3>1 DEF McpFreshInv, McpCreatesInv, McpRegistered
  <2>8. /\ ~McpFlips(to) /\ ~McpCrosses(r) /\ (McpFetches(r) => McpFetches(to))
        /\ r.ask.op = "create" => McpFetches(to)
    BY <2>1, <2>4, <2>6, <2>7, RepliesApart DEF McpFetches, McpFlips, McpCrosses, Acted
  <2> QED
    BY <2>1, <2>3, <2>4, <2>6, <2>7, <2>8, McpMoveFresh
<1>5. CASE Mcp!DiscoveryFails(r)
  <2> DEFINE to == [r EXCEPT !.got = "done"]
  <2>1. r.ask.op = "create" /\ r.got = Waiting /\ raced' = raced /\ Mcp!Moves(r, to, server)
    BY <1>5 DEF Mcp!DiscoveryFails, Mcp!Settle
  <2>2. to \in McpSent /\ to.ask = r.ask /\ to.acts = r.acts /\ to.got = "done"
    BY <1>1 DEF McpSent, McpGots
  <2> HIDE DEF to
  <2>3. McpRegistered(to) => to.acts # 0
    BY <2>2 DEF McpFreshInv, McpCreatesInv, McpRegistered
  <2>4. McpFetches(to) /\ ~McpFlips(to) /\ ~McpCrosses(r)
    BY <2>1, <2>2, RepliesApart DEF McpFetches, McpFlips, McpCrosses, Acted
  <2> QED
    BY <2>1, <2>2, <2>3, <2>4, McpMoveFresh
<1> QED
  BY <1>3, <1>4, <1>5

LEMMA McpEffects ==
    ASSUME McpIInv, NEW r \in net
    PROVE  /\ Mcp!Reply(r) \in McpGots
           /\ r.ask.op = "fetch" => Mcp!Reply(r) = [servers |-> server.servers, tools |-> server.tools]
           /\ r.ask.op # "fetch" => Mcp!Reply(r) = "done"
           /\ r.ask.op \in {"fetch", "test"} => Mcp!Effect(r) = server
           /\ r.ask.op = "toggle" /\ ~Mcp!Refused(r) =>
                /\ r.ask.id \in DOMAIN server.tools /\ Mcp!Effect(r) # server /\ Mcp!Effect(r).servers = server.servers
                /\ Mcp!Effect(r).tools = [server.tools EXCEPT ![r.ask.id].enabled = ~@]
<1>1. Mcp!Reply(r) \in McpGots
  BY McpPage DEF Mcp!Reply, McpGots, McpLists, McpServer
<1>2. /\ r.ask.op = "fetch" => Mcp!Reply(r) = [servers |-> server.servers, tools |-> server.tools]
      /\ r.ask.op # "fetch" => Mcp!Reply(r) = "done"
      /\ r.ask.op \in {"fetch", "test"} => Mcp!Effect(r) = server
  BY DEF Mcp!Reply, Mcp!Effect
<1>3. ASSUME r.ask.op = "toggle", ~Mcp!Refused(r)
      PROVE  /\ r.ask.id \in DOMAIN server.tools /\ Mcp!Effect(r) # server /\ Mcp!Effect(r).servers = server.servers
             /\ Mcp!Effect(r).tools = [server.tools EXCEPT ![r.ask.id].enabled = ~@]
  <2> DEFINE t == r.ask.id
  <2>1. t \in DOMAIN server.tools /\ server.tools[t] \in McpTool
    BY <1>3, McpPage DEF Mcp!Refused
  <2>2. Mcp!Effect(r).tools = [server.tools EXCEPT ![t].enabled = ~@] /\ Mcp!Effect(r).servers = server.servers
    BY <1>3, McpPage DEF Mcp!Effect, McpServer
  <2>3. Mcp!Effect(r).tools[t].enabled = ~server.tools[t].enabled /\ server.tools[t].enabled \in BOOLEAN
    BY <2>1, <2>2, McpPage DEF McpTool
  <2>4. Mcp!Effect(r) # server
    BY <2>3
  <2> QED
    BY <2>1, <2>2, <2>4
<1> QED
  BY <1>1, <1>2, <1>3

\* A request is served: its answer has the lists fetched, or is a flip.
LEMMA McpServesFresh ==
    ASSUME McpIInv, McpFreshInv, Mcp!ServeOne(Mcp!Ready, Mcp!Refused, Mcp!Effect, Mcp!Reply)
    PROVE  McpFreshInv'
<1>1. PICK r \in net :
        /\ r.got = Waiting
        /\ \/ ~Mcp!Refused(r) /\ Mcp!Settle(r, Mcp!Reply(r), Mcp!Effect(r)) /\ raced' = raced
           \/ Mcp!Settle(r, Failed, server) /\ raced' = (raced \/ r.acts # 0)
           \/ ~Mcp!Refused(r) /\ Mcp!Settle(r, Failed, Mcp!Effect(r)) /\ raced' = TRUE
  BY DEF Mcp!ServeOne, Mcp!Ready
<1>2. r \in McpSent /\ r.ask \in McpAsks
  BY McpPage DEF McpSent
<1>3. ASSUME NEW got \in McpGots, NEW held, Mcp!Settle(r, got, held), raced => raced',
             ~raced' => \/ ~Mcp!Refused(r) /\ got = Mcp!Reply(r) /\ held = Mcp!Effect(r)
                        \/ got = Failed /\ held = server /\ r.acts = 0
      PROVE  McpFreshInv'
  <2> DEFINE to == [r EXCEPT !.got = got]
  <2>1. to \in McpSent /\ to.ask = r.ask /\ to.acts = r.acts /\ to.got = got
    BY <1>2 DEF McpSent
  <2>2. Mcp!Moves(r, to, held)
    BY <1>3 DEF Mcp!Settle
  <2> HIDE DEF to
  <2>3. McpRegistered(to) => to.acts # 0
    BY <2>1 DEF McpFreshInv, McpCreatesInv, McpRegistered
  <2>4. ASSUME ~Mcp!Refused(r), got = Mcp!Reply(r), held = Mcp!Effect(r)
        PROVE  /\ (McpFetches(r) => McpFetches(to)) /\ (McpCrosses(r) => McpCrosses(to))
               /\ r.ask.op = "fetch" /\ Served(to) => to.got = [servers |-> held.servers, tools |-> held.tools]
               /\ McpFlips(to) => held # server
               /\ \/ McpFetches(to) \/ McpCrosses(to)
                  \/ held = server /\ ~McpFlips(to)
                  \/ /\ McpFlips(to) /\ r.ask.id \in DOMAIN server.tools
                     /\ held.servers = server.servers /\ held.tools = [server.tools EXCEPT ![r.ask.id].enabled = ~@]
    <3>1. CASE r.ask.op = "fetch"
      BY <2>1, <2>4, <3>1, McpEffects DEF McpFetches, McpCrosses, McpFlips
    <3>2. CASE r.ask.op = "test"
      BY <2>1, <2>4, <3>2, McpEffects DEF McpFetches, McpCrosses, McpFlips
    <3>3. CASE r.ask.op = "toggle"
      <4>1. got = "done"
        BY <2>4, <3>3, McpEffects
      <4>2. McpFlips(to) /\ ~McpFetches(r) /\ (McpCrosses(r) => McpCrosses(to))
        BY <2>1, <3>3, <4>1, RepliesApart DEF McpFetches, McpCrosses, McpFlips, Served
      <4> QED
        BY <2>4, <3>3, <4>2, McpEffects
    <3>4. CASE r.ask.op \notin {"fetch", "test", "toggle"}
      <4>1. got = "done"
        BY <2>4, <3>4, McpEffects
      <4>2. McpFetches(to) /\ ~McpCrosses(r) /\ ~McpFlips(to)
        BY <2>1, <3>4, <4>1, RepliesApart DEF McpFetches, McpCrosses, McpFlips, Acted
      <4> QED
        BY <3>4, <4>2
    <3> QED
      BY <3>1, <3>2, <3>3, <3>4
  <2>5. ASSUME got = Failed, held = server, r.acts = 0
        PROVE  (McpFetches(r) => McpFetches(to)) /\ ~McpCrosses(r) /\ ~McpFlips(to) /\ ~Served(to)
    BY <1>1, <2>1, <2>5 DEF McpFetches, McpCrosses, McpFlips, Acted, Served
  <2> QED
    BY <1>1, <1>3, <2>1, <2>2, <2>3, <2>4, <2>5, McpMoveFresh
<1> DEFINE reply == Mcp!Reply(r)
           effect == Mcp!Effect(r)
<1>4. reply \in McpGots /\ Failed \in McpGots
  BY McpEffects DEF McpGots
<1>5. CASE ~Mcp!Refused(r) /\ Mcp!Settle(r, reply, effect) /\ raced' = raced
  <2> HIDE DEF reply, effect
  <2> QED
    BY <1>3, <1>4, <1>5 DEF reply, effect
<1>6. CASE Mcp!Settle(r, Failed, server) /\ raced' = (raced \/ r.acts # 0)
  <2> DEFINE acted == r.acts # 0
  <2>1. raced' = (raced \/ acted)
    BY <1>6
  <2> HIDE DEF acted
  <2>2. (raced => raced') /\ (~raced' => ~acted)
    BY <2>1
  <2> QED
    BY <1>3, <1>4, <1>6, <2>2 DEF acted
<1>7. CASE ~Mcp!Refused(r) /\ Mcp!Settle(r, Failed, effect) /\ raced' = TRUE
  <2> HIDE DEF effect
  <2> QED
    BY <1>3, <1>4, <1>7
<1> QED
  BY <1>1, <1>5, <1>6, <1>7

\* A request is sent again: the gateway has acted on it.
LEMMA McpRepeatsFresh ==
    ASSUME McpIInv, McpFreshInv,
           \/ Mcp!RepeatOne({r \in Mcp!Ready : r.ask.op # "create"}, Mcp!Refused, Mcp!Effect, Mcp!Again)
           \/ \E r \in net : Mcp!CreatesAgain(r)
    PROVE  McpFreshInv'
<1>1. ASSUME NEW r \in net, r.got = Waiting, NEW acts \in Nat, acts # 0, NEW ask \in McpAsks, ask.op = r.ask.op,
             NEW held, Mcp!SentAgain(r, acts, ask, held), r.ask.op \notin {"fetch", "test"},
             ask.op = "create" => ask.id = None, r.ask.op = "toggle" => ask = r.ask
      PROVE  McpFreshInv'
  <2> DEFINE req == Mcp!Request(sent + 1, ask)
             to == [req EXCEPT !.acts = acts]
  <2>1. Waiting \in McpGots /\ sent + 1 \in Nat
    BY McpPage DEF McpGots
  <2>2. req \in McpSent /\ req.ask = ask /\ req.got = Waiting
    BY <2>1 DEF Mcp!Request, McpSent
  <2>3. Mcp!Moves(r, to, held) /\ raced' = raced
    BY <1>1 DEF Mcp!SentAgain
  <2> HIDE DEF req
  <2>4. to \in McpSent /\ to.ask = ask /\ to.got = Waiting /\ to.acts = acts
    BY <1>1, <2>2 DEF McpSent
  <2> HIDE DEF to
  <2>5. /\ ~McpFlips(to) /\ ~McpRegistered(to)
        /\ r.ask.op = "toggle" => McpCrosses(to) /\ ~McpFetches(r)
        /\ r.ask.op # "toggle" => McpFetches(to) /\ ~McpCrosses(r)
    BY <1>1, <2>4, RepliesApart DEF McpFlips, McpCrosses, McpFetches, McpRegistered, Served, Acted
  <2> QED
    BY <1>1, <2>3, <2>4, <2>5, McpMoveFresh
<1>2. CASE Mcp!RepeatOne({r \in Mcp!Ready : r.ask.op # "create"}, Mcp!Refused, Mcp!Effect, Mcp!Again)
  <2>1. PICK r \in net : /\ r.ask.op # "create" /\ r.got = Waiting /\ Mcp!Effect(r) # server
                         /\ Mcp!SentAgain(r, r.acts + 1, Mcp!Again(r), Mcp!Effect(r))
    BY <1>2 DEF Mcp!RepeatOne, Mcp!Ready
  <2> DEFINE ask == Mcp!Again(r)
             acts == r.acts + 1
             effect == Mcp!Effect(r)
  <2>2. r.ask.op \notin {"fetch", "test"}
    BY <2>1, McpEffects
  <2>3. acts \in Nat /\ acts # 0 /\ r.ask \in McpAsks
    BY McpPage DEF McpSent
  <2>4. ask \in McpAsks /\ ask.op = r.ask.op /\ (r.ask.op # "sync" => ask = r.ask)
    <3> DEFINE none == None
               again == [r.ask EXCEPT !.read = none]
    <3>1. CASE r.ask.op = "sync"
      <4>1. r.ask \in McpSync /\ none \in McpReads
        BY <2>3, <3>1 DEF McpAsks, McpCreate, McpReads
      <4>2. ask = again
        BY <3>1 DEF Mcp!Again
      <4> HIDE DEF none
      <4>3. again \in McpSync /\ again.op = "sync"
        BY <4>1 DEF McpSync
      <4> QED
        BY <3>1, <4>2, <4>3 DEF McpAsks
    <3>2. CASE r.ask.op # "sync"
      BY <2>3, <3>2 DEF Mcp!Again
    <3> QED
      BY <3>1, <3>2
  <2>5. Mcp!SentAgain(r, acts, ask, effect)
    BY <2>1
  <2> HIDE DEF ask, acts, effect
  <2> QED
    BY <1>1, <2>1, <2>2, <2>3, <2>4, <2>5
<1>3. ASSUME NEW r \in net, Mcp!CreatesAgain(r)
      PROVE  McpFreshInv'
  <2>1. r.ask.op = "create" /\ r.got = Waiting /\ r.acts \in Nat /\ r.acts # 0
    BY <1>3, McpPage DEF Mcp!CreatesAgain, McpSent, McpFreshInv, McpCreatesInv, McpRegistered
  <2>2. \E held : Mcp!SentAgain(r, r.acts, Mcp!NewServer, held)
    BY <1>3 DEF Mcp!CreatesAgain
  <2>3. Mcp!NewServer.id = None
    BY DEF Mcp!NewServer
  <2> QED
    BY <1>1, <2>1, <2>2, <2>3, McpNew
<1> QED
  BY <1>2, <1>3

LEMMA McpNextFresh == McpIInv /\ McpFreshInv /\ [Mcp!Next]_(Mcp!vars) => McpFreshInv'
<1> SUFFICES ASSUME McpIInv, McpFreshInv, [Mcp!Next]_(Mcp!vars) PROVE McpFreshInv'
  OBVIOUS
<1>1. CASE UNCHANGED Mcp!vars
  <2>1. UNCHANGED <<ui, net, server, raced>>
    BY <1>1 DEF Mcp!vars
  <2>2. McpAnswersInv' /\ McpFlipsInv' /\ McpShownInv' /\ McpTestsInv' /\ McpCreatesInv'
    BY <2>1, McpListsKept, McpTestsKept DEF Doomed
  <2> QED
    BY <2>2 DEF McpFreshInv
<1>2. CASE Mcp!Next
  <2>1. \/ \/ Mcp!OpenAdd \/ Mcp!CloseForm \/ Mcp!Cancel \/ Mcp!CloseTest \/ Mcp!ExecuteInvalid
           \/ \E s \in DOMAIN ui.servers : Mcp!OpenEdit(s) \/ Mcp!ChooseTarget(s)
           \/ \E t \in DOMAIN ui.tools : Mcp!OpenTest(t)
        \/ \/ Mcp!Refresh \/ Mcp!SaveServer \/ Mcp!DeleteServer \/ Mcp!ExecuteTest
           \/ \E s \in DOMAIN ui.servers : Mcp!TriggerHealth(s) \/ Mcp!SyncTools(s)
           \/ \E t \in DOMAIN ui.tools : Mcp!ToggleTool(t)
        \/ Mcp!OthersToggle
        \/ \E r \in net : Mcp!Registers(r) \/ Mcp!Looks(r) \/ Mcp!DiscoveryFails(r)
        \/ \E r \in net : Mcp!Fetched(r) \/ Mcp!ServerSaved(r) \/ Mcp!ServerDeleted(r)
                          \/ Mcp!HealthOrToolsCame(r) \/ Mcp!ToolToggled(r) \/ Mcp!Tested(r)
        \/ Mcp!ServeOne(Mcp!Ready, Mcp!Refused, Mcp!Effect, Mcp!Reply)
        \/ \/ Mcp!RepeatOne({r \in Mcp!Ready : r.ask.op # "create"}, Mcp!Refused, Mcp!Effect, Mcp!Again)
           \/ \E r \in net : Mcp!CreatesAgain(r)
    BY <1>2 DEF Mcp!Next
  <2>2. CASE Mcp!OthersToggle
    <3>1. raced' = TRUE /\ UNCHANGED <<ui, net>>
      BY <2>2 DEF Mcp!OthersToggle
    <3>2. McpTestsInv' /\ McpCreatesInv'
      BY <3>1, McpTestsKept
    <3> QED
      BY <3>1, <3>2 DEF McpFreshInv, McpAnswersInv, McpFlipsInv, McpShownInv
  <2> QED
    BY <2>1, <2>2, McpFormFresh, McpButtonFresh, McpGoesOnFresh, McpFetchedFresh, McpWroteFresh, McpToggledFresh, McpTestedFresh,
       McpServesFresh, McpRepeatsFresh
<1> QED
  BY <1>1, <1>2

LEMMA McpShowFresh == McpIInv /\ McpFreshInv => Mcp!Fresh
<1> SUFFICES ASSUME McpIInv, McpFreshInv, net = {}, ~raced
             PROVE  /\ ~ui.error /\ ~ui.crossed => ui.servers = server.servers /\ ui.tools = server.tools
                    /\ ui.testing # None /\ ui.result # None /\ ~ui.moved => ui.result = ui.testing.tool
  BY DEF Mcp!Fresh, Mcp!Quiet
<1>1. \A t : ~McpFlipping(t)
  BY DEF McpFlipping
<1>2. ui.tools = [t \in DOMAIN ui.tools |-> ui.tools[t]]
  BY McpOnScreen
<1>3. McpFlipped(ui.tools) = ui.tools
  BY <1>1, <1>2 DEF McpFlipped
<1> QED
  BY <1>3 DEF McpFreshInv, McpShownInv, McpTestsInv, Doomed
=============================================================================
