--------------------------------- MODULE Page ---------------------------------
(***************************************************************************)
(* What the pages of the console have in common: the React state of the    *)
(* page on screen, the requests it has sent through services/api.ts, and   *)
(* the part of the gateway's state they read and write.                    *)
(*                                                                         *)
(* A handler runs up to its first await in one step, and what follows the  *)
(* await in one step when the answer comes.  The gateway serves a request   *)
(* at some moment in between, so that answers are overtaken and grow stale *)
(* on the way.  A request may fail before the gateway has acted or after:  *)
(* request() aborts after 30 s whatever the gateway did.                   *)
(*                                                                         *)
(* An attempt that fails in any other way request() makes again, three     *)
(* times in all, whatever its method.  One the gateway did not act on is   *)
(* the same as one it has not served yet; one it did act on is sent again, *)
(* and may take effect again.                                              *)
(***************************************************************************)
EXTENDS Integers, Sequences, FiniteSets, TLC

CONSTANTS
    MaxRequests,    \* BOUND: requests the user causes, and those sent again
    None,           \* null
    Waiting, Failed \* a request not served yet, and one that throws

VARIABLES
    ui,             \* the state of the page's components, a record
    net,            \* requests under way
    server,         \* what the gateway holds, a record
    sent,           \* requests sent so far, which also numbers them
    raced           \* HISTORY: a request failed that the gateway acted on, in its last
                    \* attempt or before, or its state had moved on when an answer came

vars == <<ui, net, server, sent, raced>>

Attempts == 3       \* retries of request()

\* acts: how often the gateway acted on it so far without its answer arriving.
Request(id, ask) == [id |-> id, ask |-> ask, got |-> Waiting, late |-> FALSE, acts |-> 0]
Requests(asks) == {Request(sent + i, asks[i]) : i \in DOMAIN asks}

Started(state, held, asks) ==
    /\ ui = state /\ server = held /\ raced = FALSE
    /\ net = {Request(i, asks[i]) : i \in DOMAIN asks} /\ sent = Len(asks)

\* A handler the user calls: it sends requests, or none.
Send(asks) ==
    /\ sent < MaxRequests
    /\ net' = net \cup Requests(asks) /\ sent' = sent + Len(asks)
    /\ UNCHANGED <<server, raced>>
Local == UNCHANGED <<net, server, sent, raced>>

\* What follows an await: the answer is there, further requests may go out.
Came(r, op) == r \in net /\ r.ask.op = op /\ r.got # Waiting
Go(r, asks) ==
    /\ net' = (net \ {r}) \cup Requests(asks) /\ sent' = sent + Len(asks)
    /\ raced' = (raced \/ (r.late /\ r.got # Failed))
    /\ UNCHANGED server
Done(r) == Go(r, <<>>)
\* Requests asks go out on success only.
Answer(r, op, ok, asks, failed) ==
    /\ Came(r, op)
    /\ IF r.got # Failed THEN ui' = ok /\ Go(r, asks) ELSE ui' = failed /\ Done(r)
\* A handler that leaves the network alone, and one that sends a request.
Set(state) == ui' = state /\ Local
Ask(state, ask) == ui' = state /\ Send(<<ask>>)

\* The gateway's state becomes held, and r becomes new.
Moves(r, new, held) ==
    /\ server' = held
    /\ net' = {IF q = r THEN new
               ELSE [q EXCEPT !.late = q.got # Waiting /\ (@ \/ held # server)] : q \in net}
    /\ UNCHANGED ui

\* The gateway serves r: Refused are the requests it answers with an error,
\* Effect its state afterwards, Reply what it answers.
Settle(r, got, held) == Moves(r, [r EXCEPT !.got = got], held) /\ UNCHANGED sent
ServeOne(requests, Refused(_), Effect(_), Reply(_)) ==
    \E r \in requests :
        /\ r.got = Waiting
        /\ \/ ~Refused(r) /\ Settle(r, Reply(r), Effect(r)) /\ UNCHANGED raced
           \/ Settle(r, Failed, server) /\ raced' = (raced \/ r.acts # 0)
           \/ ~Refused(r) /\ Effect(r) # server /\ Settle(r, Failed, Effect(r)) /\ raced' = TRUE
Serve(Refused(_), Effect(_), Reply(_)) == ServeOne(net, Refused, Effect, Reply)

\* The gateway acts on r, the answer is lost, and r is sent again, as ask and with
\* a number of its own.
SentAgain(r, acts, ask, held) ==
    /\ sent < MaxRequests /\ acts < Attempts
    /\ Moves(r, [Request(sent + 1, ask) EXCEPT !.acts = acts], held)
    /\ sent' = sent + 1 /\ UNCHANGED raced
RepeatOne(requests, Refused(_), Effect(_), Again(_)) ==
    \E r \in requests :
        r.got = Waiting /\ ~Refused(r) /\ Effect(r) # server /\ SentAgain(r, r.acts + 1, Again(r), Effect(r))
Same(r) == r.ask
Repeat(Refused(_), Effect(_)) == RepeatOne(net, Refused, Effect, Same)

\* Nothing is under way.
Quiet == net = {}
\* A request of one of these kinds is.
Out(ops) == \E r \in net : r.ask.op \in ops

Put(f, k, v) == [x \in DOMAIN f \cup {k} |-> IF x = k THEN v ELSE f[x]]
Drop(f, k) == [x \in DOMAIN f \ {k} |-> f[x]]
Empty == [x \in {} |-> x]
=============================================================================
