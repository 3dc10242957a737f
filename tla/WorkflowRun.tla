------------------------------ MODULE WorkflowRun ------------------------------
(***************************************************************************)
(* The test run of a workflow from its editor (WorkflowRunModal.tsx): a    *)
(* request starts the run, a stream of events reports it, and a request     *)
(* asks for its outcome when the stream is lost.  The dialog stays mounted  *)
(* while it is closed, so that a run goes on behind it.                    *)
(*                                                                         *)
(* The events of a run are its start, one of a node, and its end; a stream *)
(* delivers those the run writes from some moment on, in order.  The runs  *)
(* themselves are external (run_service is not part of the repository).    *)
(***************************************************************************)
EXTENDS Page

Events == <<"run_start", "node_start", "run_end">>
Stream(run, at) == [run |-> run, at |-> at]

\* error: "link" is the message that offers to grant the link to a hub.
Init ==
    \E linked \in BOOLEAN :
        Started([open |-> FALSE, running |-> FALSE, error |-> None, log |-> <<>>, result |-> None,
                 es |-> None, streams |-> {}, begun |-> FALSE, left |-> FALSE, twice |-> FALSE],
                [runs |-> Empty, linked |-> linked], <<>>)
-----------------------------------------------------------------------------
(* The gateway.  Granting a link that is there is refused. *)

Refused(r) ==
    \/ r.ask.op = "run" /\ ~server.linked
    \/ r.ask.op = "grant" /\ server.linked
Effect(r) ==
    CASE r.ask.op = "run" -> [server EXCEPT !.runs = Put(@, r.id, 1)]
      [] r.ask.op = "grant" -> [server EXCEPT !.linked = TRUE]
      [] OTHER -> server
Ended(run) == run \in DOMAIN server.runs /\ server.runs[run] = Len(Events)
Reply(r) == IF r.ask.op = "get" THEN Ended(r.ask.run) ELSE r.id

\* A run goes on by itself.
RunWrites(run) ==
    /\ ~Ended(run)
    /\ server' = [server EXCEPT !.runs[run] = @ + 1]
    /\ UNCHANGED <<ui, net, sent, raced>>
-----------------------------------------------------------------------------
(* The dialog. *)

Open == ~ui.open /\ Set([ui EXCEPT !.open = TRUE])

\* The stream esRef holds is closed; a stream that was replaced there is not.
Closed(state) == [state EXCEPT !.streams = {s \in @ : s.run # ui.es}, !.es = None]

\* handleClose, and the effect on isOpen after it: isRunning stays as it is.
Close == ui.open /\ Set([Closed(ui) EXCEPT !.open = FALSE, !.left = @ \/ \E s \in ui.streams : s.run = ui.es])

Cleared(state) ==
    [Closed(state) EXCEPT !.running = TRUE, !.error = None, !.log = <<>>, !.result = None, !.begun = TRUE]

\* (mutant) handleRun without setNodeEvents([]).
HandleRunKeepingLog ==
    /\ ui.open /\ ~ui.running
    /\ Ask([Cleared(ui) EXCEPT !.log = ui.log], [op |-> "run"])

\* The button: handleRun up to its await.
HandleRun ==
    /\ ui.open /\ ~ui.running
    /\ Ask(Cleared(ui), [op |-> "run"])

\* (mutant) isRunning stays set.
HandleRunInvalidRunning ==
    /\ ui.open /\ ~ui.running
    /\ Set([Cleared(ui) EXCEPT !.error = "failed"])

\* An input that is no JSON: what the last run left is gone all the same.
HandleRunInvalid ==
    /\ ui.open /\ ~ui.running
    /\ Set([Cleared(ui) EXCEPT !.running = FALSE, !.error = "failed"])

\* The answer opens the stream, on a closed dialog as well.  A run the stream
\* missed in part is not reported from its start.
RunStarted(r) ==
    \E at \in 0 .. (IF r.id \in DOMAIN server.runs THEN server.runs[r.id] ELSE 0), linked \in {"link", "failed"} :
        Answer(r, "run", [ui EXCEPT !.es = r.id, !.streams = @ \cup {Stream(r.id, at)}], <<>>,
                         [ui EXCEPT !.error = linked, !.running = FALSE])

\* Grant Link & Retry: handleRun again, with the input as it was when the button
\* was pressed, whatever was started meanwhile.  A failure is an alert.
HandleGrantLink == ui.open /\ ui.error = "link" /\ Ask(ui, [op |-> "grant"])
Again == [Cleared(ui) EXCEPT !.twice = @ \/ Out({"run", "get"})]
Granted(r) ==
    \/ Answer(r, "grant", Again, <<[op |-> "run"]>>, ui)
    \/ Answer(r, "grant", [Again EXCEPT !.running = FALSE, !.error = "failed"], <<>>, ui)
-----------------------------------------------------------------------------
(* The stream. *)

Without(s) == [ui EXCEPT !.streams = @ \ {s}]

\* run_end ends the run on screen and closes its own stream.
HandleEvent(s) ==
    /\ s.at < server.runs[s.run]
    /\ LET event == Events[s.at + 1]
       IN  IF event = "run_end" THEN Set([Without(s) EXCEPT !.result = s.run, !.running = FALSE])
           ELSE Set([ui EXCEPT !.streams = (@ \ {s}) \cup {Stream(s.run, s.at + 1)},
                               !.log = Append(@, <<s.run, event>>)])

\* onerror: the stream is closed for good, and the run asked for.
StreamLost(s) ==
    /\ ui' = Without(s)
    /\ net' = net \cup Requests(<<[op |-> "get", run |-> s.run]>>) /\ sent' = sent + 1
    /\ UNCHANGED <<server, raced>>
OutcomeFetched(r) ==
    LET lost == [ui EXCEPT !.error = "lost", !.running = FALSE]
    IN  Answer(r, "get", IF r.got = TRUE THEN [ui EXCEPT !.result = r.ask.run, !.running = FALSE] ELSE lost, <<>>, lost)
-----------------------------------------------------------------------------
Next ==
    \/ Open \/ Close \/ HandleRun \/ HandleRunInvalid \/ HandleGrantLink
    \/ \E s \in ui.streams : HandleEvent(s) \/ StreamLost(s)
    \/ \E run \in DOMAIN server.runs : RunWrites(run)
    \/ \E r \in net : RunStarted(r) \/ Granted(r) \/ OutcomeFetched(r)
    \/ Serve(Refused, Effect, Reply) \/ Repeat(Refused, Effect)

Spec == Init /\ [][Next]_vars
-----------------------------------------------------------------------------
TypeOK ==
    /\ {ui.open, ui.running} \subseteq BOOLEAN /\ ui.error \in {None, "link", "failed", "lost"}
    /\ \A s \in ui.streams : s.run \in DOMAIN server.runs /\ s.at \in 0 .. Len(Events)

\* The button comes back: isRunning holds only while an answer or a stream can
\* end it, unless the dialog was closed under an open stream.
BusyHasCause == ui.running /\ ~ui.left => Out({"run", "get"}) \/ ui.streams # {}

\* Two runs that overlap share one log; they need a grant that is answered while
\* another run is being started (handleGrantLink).  Otherwise the log on screen is
\* what one run wrote, in order and without gaps, the result is of that run, and at
\* most one stream is open; and no run ends without a result or an error on screen.
RunReported ==
    /\ ~ui.twice =>
          /\ Cardinality(ui.streams) <= 1
          /\ \A i \in DOMAIN ui.log :
                /\ ui.log[i][1] = ui.log[1][1]
                /\ i > 1 => \E k \in DOMAIN Events : Events[k] = ui.log[i][2] /\ Events[k - 1] = ui.log[i - 1][2]
          /\ ui.result # None /\ ui.log # <<>> => ui.result = ui.log[1][1]
    /\ ui.begun /\ ~ui.running => ui.result # None \/ ui.error # None
=============================================================================
