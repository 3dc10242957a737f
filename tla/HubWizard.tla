------------------------------ MODULE HubWizard ------------------------------
(***************************************************************************)
(* The wizard that creates a hub (HubCreateWizard.tsx): four steps, a slug  *)
(* derived from the name until it is edited, and a check of the slug that  *)
(* runs 400 ms after the last change and is not cancelled once it is sent. *)
(***************************************************************************)
EXTENDS Page

LegalTargets == [ingestion |-> {}, agent |-> {"ingestion"},
                 workflow |-> {"agent", "ingestion"}, eval |-> {"workflow", "agent"}]

\* BOUND: two of the four types, a name, and slugs enough to differ; "-" is not a slug.
Types == {"agent", "eval"}
Names == {"", "x"}
Slugs == {"", "-", "x", "y"}

\* BOUND: the hubs to link to, one of either target type.
Targets == [i1 |-> "ingestion", a1 |-> "agent"]

Init ==
    Started([step |-> 1, type |-> "agent", name |-> "", slug |-> "", manual |-> FALSE, links |-> {},
             status |-> "idle", timer |-> FALSE, submitting |-> FALSE, failed |-> FALSE, done |-> FALSE,
             crossed |-> FALSE, inUse |-> DOMAIN Targets, listed |-> FALSE],
            [hubs |-> {<<"agent", "x">>}, changes |-> 0], <<>>)
-----------------------------------------------------------------------------
(* The gateway: a slug is taken within its type. *)

Refused(r) == r.ask.op = "create" /\ (r.ask.slug \in {"", "-"} \/ <<r.ask.type, r.ask.slug>> \in server.hubs)
Effect(r) ==
    IF r.ask.op = "create" THEN [server EXCEPT !.hubs = @ \cup {<<r.ask.type, r.ask.slug>>}] ELSE server
Reply(r) == <<r.ask.type, r.ask.slug>> \notin server.hubs

OtherCreates ==
    /\ server.changes = 0
    /\ server' = [hubs |-> server.hubs \cup {<<"agent", "y">>}, changes |-> 1]
    /\ net' = {[r EXCEPT !.late = TRUE] : r \in net}
    /\ UNCHANGED <<ui, sent, raced>>
-----------------------------------------------------------------------------
(* The form. *)

Editing == ~ui.done /\ ~ui.submitting

\* The effect on the slug and the type: its cleanup stops the timer, not a
\* check that is out.
Check(state) ==
    IF state.slug = ui.slug /\ state.type = ui.type THEN state
    ELSE [state EXCEPT !.status = CASE state.slug = "" -> "idle" [] state.slug = "-" -> "invalid" [] OTHER -> "checking",
                       !.timer = state.slug \notin {"", "-"}]

\* (mutant) Links chosen for the type before are kept.
SelectTypeKeepingLinks(t) == Editing /\ ui.step = 1 /\ Set(Check([ui EXCEPT !.type = t]))

SelectType(t) == Editing /\ ui.step = 1 /\ Set(Check([ui EXCEPT !.type = t, !.links = {}]))

\* A name that is emptied leaves the slug it had.
Derived(n) == IF ui.manual \/ n = "" THEN ui.slug ELSE n
EditName(n) ==
    /\ Editing /\ ui.step = 2 /\ n # ui.name
    /\ Set(Check([ui EXCEPT !.name = n, !.slug = Derived(n)]))
EditSlug(s) ==
    /\ Editing /\ ui.step = 2 /\ s # ui.slug
    /\ Set(Check([ui EXCEPT !.slug = s, !.manual = TRUE]))

SendCheck == ui.timer /\ Ask([ui EXCEPT !.timer = FALSE], [op |-> "check", type |-> ui.type, slug |-> ui.slug])

\* A check that fails counts as available; an answer is taken whatever the slug
\* has become.
Checked(r) ==
    /\ Came(r, "check")
    /\ ui' = [ui EXCEPT !.status = IF r.got = Failed \/ r.got THEN "available" ELSE "taken",
                        !.crossed = r.got = Failed \/ <<r.ask.type, r.ask.slug>> # <<ui.type, ui.slug>>]
    /\ Done(r)

\* The directory's request for the list of hubs, under way as the wizard opened,
\* is answered: a hub that was archived or deleted is not offered, and stays chosen.
\* BOUND: one hub, once.
ListFetched ==
    /\ ~ui.listed
    /\ \E h \in DOMAIN Targets : Set([ui EXCEPT !.inUse = @ \ {h}, !.listed = TRUE])

Eligible == {h \in ui.inUse : Targets[h] \in LegalTargets[ui.type]}
Toggled(h) == IF h \in ui.links THEN ui.links \ {h} ELSE ui.links \cup {h}
ToggleLink(h) == Editing /\ ui.step = 4 /\ h \in Eligible /\ Set([ui EXCEPT !.links = Toggled(h)])
-----------------------------------------------------------------------------
(* The steps. *)

\* The second step is left with a check out, and without a slug.
NextStep ==
    /\ Editing /\ ui.step < 4
    /\ ui.step = 2 => ui.name # "" /\ ui.status \notin {"taken", "invalid"}
    /\ Set([ui EXCEPT !.step = @ + 1])

\* (mutant) Back is there on the first step as well.
BackFromFirst == Editing /\ Set([ui EXCEPT !.step = @ - 1])

Back == Editing /\ ui.step > 1 /\ Set([ui EXCEPT !.step = @ - 1])

Finish ==
    /\ Editing /\ ui.step = 4
    /\ Ask([ui EXCEPT !.submitting = TRUE, !.failed = FALSE],
           [op |-> "create", type |-> ui.type, slug |-> ui.slug, links |-> ui.links])

\* On success the wizard is left for the new hub, still submitting.
Created(r) ==
    Answer(r, "create", [ui EXCEPT !.done = TRUE], <<>>, [ui EXCEPT !.submitting = FALSE, !.failed = TRUE])
-----------------------------------------------------------------------------
Next ==
    \/ NextStep \/ Back \/ Finish \/ SendCheck \/ OtherCreates \/ ListFetched
    \/ \E t \in Types : SelectType(t)
    \/ \E n \in Names : EditName(n)
    \/ \E s \in Slugs : EditSlug(s)
    \/ \E h \in DOMAIN Targets : ToggleLink(h)
    \/ \E r \in net : Checked(r) \/ Created(r)
    \/ Serve(Refused, Effect, Reply) \/ Repeat(Refused, Effect)

Spec == Init /\ [][Next]_vars
-----------------------------------------------------------------------------
TypeOK ==
    /\ ui.step \in 1 .. 4 /\ ui.type \in Types /\ ui.slug \in Slugs
    /\ ui.status \in {"idle", "checking", "available", "taken", "invalid"}

BusyHasCause ==
    /\ ui.submitting /\ ~ui.done => Out({"create"})
    /\ ui.status = "checking" => ui.timer \/ Out({"check"})

\* Once no check is out, and unless the last answer was about another slug, the
\* mark beside the slug is what the gateway would say of it.
Fresh ==
    Quiet /\ ~ui.timer /\ ~raced /\ ~ui.crossed =>
        /\ ui.status = "idle" <=> ui.slug = ""
        /\ ui.status = "invalid" <=> ui.slug = "-"
        /\ ui.status = "taken" => <<ui.type, ui.slug>> \in server.hubs
        /\ ui.status = "available" /\ server.changes = 0 /\ ~ui.done => <<ui.type, ui.slug>> \notin server.hubs

\* Whatever the order of going back, changing the type, choosing targets and
\* hearing of hubs, the links a new hub is created with go where its type may
\* link to.  That they go to hubs in use is not claimed: a hub that drops out of
\* the list once it was chosen stays chosen, and is not on screen to be removed.
LinksAreLegal == \A h \in ui.links : Targets[h] \in LegalTargets[ui.type]
=============================================================================
