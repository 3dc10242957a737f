--------------------------------- MODULE Login ---------------------------------
(***************************************************************************)
(* Signing in and out: the form (LoginPage.tsx), the guard of the app       *)
(* (AuthGuard.tsx), the session the store holds (authSlice.ts), and the    *)
(* gateway's handlers (auth/routes.py, auth/resolver.py).                  *)
(*                                                                         *)
(* request() tries a refused or lost request up to three times, a wrong    *)
(* password included.  login_user reads the account, and writes it at its  *)
(* commit, so that attempts interleave; the ORM writes the columns that    *)
(* changed.  The other requests only read, or do the same again when they  *)
(* are tried again: here they are tried once.                              *)
(***************************************************************************)
EXTENDS Page

Lockout == 5    \* failed_login_count that locks the account

\* locked: locked_until lies ahead ("yes"), has passed, or is null.
\* bad: HISTORY, the wrong passwords checked since the last lock passed; it goes on
\* counting after a sign-in, which resets failed.
Account == [failed |-> 0, locked |-> "no", bad |-> 0, sessions |-> {}, revoked |-> {}]
Check(then) == [op |-> "health", then |-> then]
\* mine: sent by this browser, not by another one.
Attempt(mine, good, n) == [op |-> "login", mine |-> mine, good |-> good, n |-> n, read |-> None]

\* The app as it loads: with the token of an earlier session, after failures from
\* elsewhere, or after a lock has passed.
Pasts == {[Account EXCEPT !.sessions = {0}], [Account EXCEPT !.failed = 3, !.bad = 3],
          [Account EXCEPT !.failed = Lockout, !.locked = "passed"]}
Init ==
    \E past \in Pasts :
        Started([page |-> "app", loading |-> FALSE, token |-> IF past.sessions = {} THEN None ELSE 0, user |-> FALSE,
                 enabled |-> FALSE, authLoading |-> TRUE, error |-> FALSE, crossed |-> FALSE],
                past, <<Check("guard")>>)
-----------------------------------------------------------------------------
(* The gateway. *)

Reads(r) ==
    /\ r.ask.op = "login" /\ r.got = Waiting /\ r.ask.read = None
    /\ net' = (net \ {r}) \cup {[r EXCEPT !.ask.read = [failed |-> server.failed, locked |-> server.locked]]}
    /\ UNCHANGED <<ui, server, sent, raced>>
Read == {r \in net : r.ask.op = "login" => r.ask.read # None}

\* (mutant) A lock that has passed does not reset the count.
CountedKeepingFailures(r) == r.ask.read.failed

\* The failures that count: none once a lock has passed.
Counted(r) == IF r.ask.read.locked = "passed" THEN 0 ELSE r.ask.read.failed

WrongPassword(r) ==
    LET failed == Counted(r) + 1
    IN  [server EXCEPT !.failed = failed, !.bad = @ + 1,
                       !.locked = IF failed >= Lockout THEN "yes" ELSE IF r.ask.read.locked = "passed" THEN "no" ELSE @]
RightPassword(r) ==
    [server EXCEPT !.failed = IF r.ask.read.failed = 0 THEN @ ELSE 0,
                   !.locked = IF r.ask.read.locked = "no" THEN @ ELSE "no",
                   !.sessions = @ \cup {r.id}]
\* logout revokes every session of the user, in memory and by their rows.
LoggedOutAll(r) == [server EXCEPT !.revoked = @ \cup server.sessions \cup {r.ask.token}, !.sessions = {}]

Accepts(token) == token # None /\ token \notin server.revoked
Refused(r) == r.ask.op \in {"me", "logout"} /\ ~Accepts(r.ask.token)
Effect(r) ==
    CASE r.ask.op = "login" -> IF r.ask.read.locked = "yes" THEN server
                               ELSE IF r.ask.good THEN RightPassword(r) ELSE WrongPassword(r)
      [] r.ask.op = "logout" -> LoggedOutAll(r)
      [] OTHER -> server
Reply(r) == IF r.ask.op = "login" /\ (r.ask.read.locked = "yes" \/ ~r.ask.good) THEN "refused" ELSE "done"

\* Fifteen minutes pass.  BOUND: not while an attempt is under way.
LockPasses ==
    /\ server.locked = "yes" /\ ~Out({"login"})
    /\ server' = [server EXCEPT !.locked = "passed", !.bad = 0]
    /\ UNCHANGED <<ui, net, sent, raced>>
-----------------------------------------------------------------------------
(* The form. *)

Submit(good) ==
    /\ ui.page = "login" /\ ~ui.loading
    /\ Ask([ui EXCEPT !.loading = TRUE, !.error = FALSE], Attempt(TRUE, good, 1))

\* BOUND: one other client signs in at a time, and tries once.
OthersSubmit(good) ==
    /\ \A r \in net : r.ask.op = "login" => r.ask.mine
    /\ Ask(ui, Attempt(FALSE, good, 3))

\* A refusal, or a failure other than a timeout, is tried again.
TriedAgain(r) ==
    /\ Came(r, "login") /\ r.got # "done" /\ r.ask.n < 3
    /\ UNCHANGED ui
    /\ Go(r, <<Attempt(TRUE, r.ask.good, r.ask.n + 1)>>)
LoginAnswered(r) ==
    /\ Came(r, "login")
    /\ IF ~r.ask.mine THEN UNCHANGED ui /\ Done(r)
       ELSE IF r.got = "done"
       THEN ui' = [ui EXCEPT !.token = r.id, !.authLoading = TRUE] /\ Go(r, <<Check("login")>>)
       ELSE /\ r.ask.n = 3 \/ r.got = Failed
            /\ ui' = [ui EXCEPT !.error = TRUE, !.loading = FALSE] /\ Done(r)
-----------------------------------------------------------------------------
(* The store, and the guard that renders the app or goes to the form. *)

Guarded(state) ==
    IF state.page = "app" /\ ~state.authLoading /\ state.enabled /\ ~state.user THEN [state EXCEPT !.page = "login"]
    ELSE state

\* The end of checkAuth.  The form goes on to the app, whose guard checks again
\* even while it sends the user back to the form.
Checked(r, state) ==
    LET checked == [state EXCEPT !.authLoading = FALSE]
    IN  IF r.ask.then = "guard" THEN ui' = Guarded(checked) /\ Done(r)
        ELSE /\ ui' = [Guarded([checked EXCEPT !.page = "app", !.loading = FALSE]) EXCEPT !.authLoading = TRUE]
             /\ Go(r, <<Check("guard")>>)

SignedOut(state) == [state EXCEPT !.user = FALSE, !.token = None]
HealthFetched(r) ==
    /\ Came(r, "health")
    /\ IF r.got = Failed THEN Checked(r, [ui EXCEPT !.user = FALSE])
       ELSE IF ui.token = None THEN Checked(r, [ui EXCEPT !.enabled = TRUE, !.user = FALSE])
       ELSE /\ ui' = [ui EXCEPT !.enabled = TRUE]
            /\ Go(r, <<[op |-> "me", then |-> r.ask.then, token |-> ui.token]>>)
\* Any failure gives up the token, a lost connection as well.
MeFetched(r) ==
    /\ Came(r, "me")
    /\ Checked(r, IF r.got = Failed THEN SignedOut(ui) ELSE [ui EXCEPT !.user = TRUE])

\* Sign Out may be pressed while a request about the session is under way: the
\* one of an earlier press, or a check that began before a second sign-in.
\* What follows it is done whatever it answers.
Logout ==
    /\ ui.page = "app" /\ ~ui.authLoading
    /\ Ask([ui EXCEPT !.crossed = @ \/ Out({"logout", "health", "me"})], [op |-> "logout", token |-> ui.token])
LoggedOut(r) == Came(r, "logout") /\ ui' = Guarded(SignedOut(ui)) /\ Done(r)
-----------------------------------------------------------------------------
Next ==
    \/ LockPasses \/ Logout
    \/ \E good \in BOOLEAN : Submit(good) \/ OthersSubmit(good)
    \/ \E r \in net : Reads(r) \/ TriedAgain(r) \/ LoginAnswered(r) \/ HealthFetched(r) \/ MeFetched(r) \/ LoggedOut(r)
    \/ ServeOne(Read, Refused, Effect, Reply)

Spec == Init /\ [][Next]_vars
-----------------------------------------------------------------------------
TypeOK ==
    /\ ui.page \in {"login", "app"} /\ {ui.loading, ui.user, ui.authLoading, ui.error} \subseteq BOOLEAN
    /\ server.failed \in Nat /\ server.locked \in {"no", "yes", "passed"}

BusyHasCause ==
    /\ ui.loading => Out({"login", "health", "me"})
    /\ ui.authLoading => Out({"health", "me"})

\* Once nothing is under way, and unless a sign-out overlapped another one or a
\* check, the app is open to a user whose token the gateway accepts, or to nobody.
Fresh ==
    Quiet /\ ~ui.crossed /\ ui.page = "app" /\ ui.user => Accepts(ui.token)

\* However the attempts of several browsers and their repetitions interleave, an
\* account is locked only after five wrong passwords since its last lock passed,
\* sign-ins in between or not (login_user).
LockoutIsEarned == server.locked = "yes" => server.bad >= Lockout
=============================================================================
