---------------------------- MODULE ModelRegistry ----------------------------
(***************************************************************************)
(* The registry of models: its page (ModelRegistryManager.tsx, with models *)
(* of cloud providers) and the gateway's handlers (api/models.py).         *)
(*                                                                         *)
(* register_model and select_active_model look for a row, take the default *)
(* off every row of the role in one statement, and commit.  The statement  *)
(* sees the rows that were committed when it began, and another such       *)
(* statement waits for it.  model_registry has no constraint but its key.  *)
(***************************************************************************)
EXTENDS Page

\* BOUND: two roles, and two providers with one model each.
Roles == {"completion", "classifier"}
Providers == {"p", "q"}
Row(role, model, default) == [role |-> role, model |-> model, default |-> default]

List(clears) == [op |-> "list", clears |-> clears]
Lite(provider) == [op |-> "lite", provider |-> provider]

Init ==
    Started([rows |-> None, loading |-> TRUE, error |-> FALSE, busy |-> None,
             role |-> "completion", provider |-> "p", model |-> None, makeDefault |-> FALSE,
             fetching |-> TRUE, stale |-> FALSE],
            [rows |-> <<Row("completion", "m", TRUE), Row("classifier", "p", TRUE)>>, overlapped |-> FALSE],
            <<List(FALSE), Lite("p")>>)
-----------------------------------------------------------------------------
(* The gateway. *)

RowsOf(role) == {i \in DOMAIN server.rows : server.rows[i].role = role}
Named(model) == {i \in DOMAIN server.rows : server.rows[i].model = model}
Changes == {"register", "select"}

\* What a change finds, and the rows its statement will see.
Looked(r) == [found |-> RowsOf(r.ask.role) \cap Named(r.ask.model), rows |-> RowsOf(r.ask.role)]
Looks(r) ==
    /\ r.ask.op \in Changes /\ r.got = Waiting /\ r.ask.read = None
    /\ net' = (net \ {r}) \cup {[r EXCEPT !.ask.read = Looked(r)]}
    /\ UNCHANGED <<ui, server, sent, raced>>
Ready == {r \in net : r.ask.op \in Changes => r.ask.read # None}

\* Deleting goes by the name alone, and fails on a model of two roles.
Refused(r) ==
    \/ r.ask.op = "register" /\ r.ask.read.found # {}
    \/ r.ask.op = "select" /\ r.ask.read.found \cap DOMAIN server.rows = {}
    \/ r.ask.op = "delete" /\ Cardinality(Named(r.ask.model)) # 1

\* (mutant) The other rows of the role keep their default.
ClearedNot(r) == server.rows

\* The statement of r.
Cleared(r) ==
    [i \in DOMAIN server.rows |->
        IF i \in r.ask.read.rows THEN [server.rows[i] EXCEPT !.default = FALSE] ELSE server.rows[i]]

\* A row of the role was added after r looked.
Overlaps(r) == RowsOf(r.ask.role) \ r.ask.read.rows # {}
Effect(r) ==
    CASE r.ask.op = "register" ->
            [server EXCEPT !.rows = Put(IF r.ask.default THEN Cleared(r) ELSE @, r.id + 2,
                                        Row(r.ask.role, r.ask.model, r.ask.default)),
                           !.overlapped = @ \/ Overlaps(r)]
      [] r.ask.op = "select" ->
            LET i == CHOOSE i \in r.ask.read.found : i \in DOMAIN server.rows
            IN  [server EXCEPT !.rows = [Cleared(r) EXCEPT ![i].default = TRUE], !.overlapped = @ \/ Overlaps(r)]
      [] r.ask.op = "delete" -> [server EXCEPT !.rows = Drop(@, CHOOSE i \in Named(r.ask.model) : TRUE)]
      [] OTHER -> server
Reply(r) == IF r.ask.op = "list" THEN server.rows ELSE "done"

\* What is sent again looks again.
Again(r) == IF r.ask.op \in Changes THEN [r.ask EXCEPT !.read = None] ELSE r.ask

OthersRegister ==
    /\ sent < MaxRequests
    /\ Ask(ui, [op |-> "register", mine |-> FALSE, role |-> "completion", model |-> "p", default |-> TRUE, read |-> None])
-----------------------------------------------------------------------------
(* The lists. *)

Loading(state) == [state EXCEPT !.loading = TRUE, !.error = FALSE]
ListFetched(r) ==
    /\ Came(r, "list")
    /\ LET state == [ui EXCEPT !.loading = FALSE, !.busy = IF r.ask.clears THEN None ELSE @]
       IN  ui' = IF r.got = Failed THEN [state EXCEPT !.error = TRUE] ELSE [state EXCEPT !.rows = r.got]
    /\ Done(r)
Shown == ~(ui.loading /\ ui.rows = None)
Refresh == Shown /\ Ask(Loading(ui), List(FALSE))

\* The models of the provider: none of the role may be among them.  A failure
\* leaves the model of the provider before in the form.
LiteFetched(r) ==
    r.ask.op = "lite" /\ \E model \in {r.ask.provider, None} :
        Answer(r, "lite", [ui EXCEPT !.model = model, !.fetching = FALSE], <<>>,
                          [ui EXCEPT !.fetching = FALSE, !.stale = TRUE])
-----------------------------------------------------------------------------
(* The form. *)

\* The effect on provider and role fetches at once, whatever is under way.
ChangeForm(role, provider) ==
    /\ Shown /\ <<role, provider>> # <<ui.role, ui.provider>>
    /\ Ask([ui EXCEPT !.role = role, !.provider = provider, !.fetching = TRUE, !.stale = @ \/ Out({"lite"})],
           Lite(provider))
TickDefault == Shown /\ Set([ui EXCEPT !.makeDefault = ~@])

\* The button is not disabled while the models of the provider are fetched.
Register ==
    /\ Shown /\ ui.model # None /\ ui.busy # <<"register">>
    /\ Ask([ui EXCEPT !.busy = <<"register">>, !.error = FALSE],
           [op |-> "register", mine |-> TRUE, role |-> ui.role, model |-> ui.model, default |-> ui.makeDefault,
            read |-> None])

\* The end of a write: the list is fetched, and then the button comes back, any
\* button, since there is one actionLoading.
Wrote(r, op, state) == Answer(r, op, Loading(state), <<List(TRUE)>>, [ui EXCEPT !.error = TRUE, !.busy = None])
Registered(r) ==
    /\ Came(r, "register")
    /\ IF r.ask.mine THEN Wrote(r, "register", [ui EXCEPT !.makeDefault = FALSE])
       ELSE net' = net \ {r} /\ raced' = TRUE /\ UNCHANGED <<ui, server, sent>>
-----------------------------------------------------------------------------
(* The rows. *)

HandleSelectDefault(i) ==
    /\ Shown /\ ui.busy # <<"select", ui.rows[i].role>>
    /\ Ask([ui EXCEPT !.busy = <<"select", ui.rows[i].role>>],
           [op |-> "select", role |-> ui.rows[i].role, model |-> ui.rows[i].model, read |-> None])
HandleDeleteModel(i) ==
    /\ Shown /\ ui.busy # <<"delete", ui.rows[i].model>>
    /\ Ask([ui EXCEPT !.busy = <<"delete", ui.rows[i].model>>], [op |-> "delete", model |-> ui.rows[i].model])
-----------------------------------------------------------------------------
Next ==
    \/ Refresh \/ TickDefault \/ Register \/ OthersRegister
    \/ \E role \in Roles, provider \in Providers : ChangeForm(role, provider)
    \/ ui.rows # None /\ \E i \in DOMAIN ui.rows : HandleSelectDefault(i) \/ HandleDeleteModel(i)
    \/ \E r \in net : Looks(r) \/ ListFetched(r) \/ LiteFetched(r) \/ Registered(r)
                      \/ Wrote(r, "select", ui) \/ Wrote(r, "delete", ui)
    \/ ServeOne(Ready, Refused, Effect, Reply) \/ RepeatOne(Ready, Refused, Effect, Again)

Spec == Init /\ [][Next]_vars
-----------------------------------------------------------------------------
TypeOK ==
    /\ {ui.loading, ui.error, ui.makeDefault, ui.fetching} \subseteq BOOLEAN
    /\ ui.role \in Roles /\ ui.provider \in Providers /\ ui.model \in Providers \cup {None}
    /\ \A i \in DOMAIN server.rows : server.rows[i].role \in Roles

BusyHasCause ==
    /\ ui.loading => Out({"list"})
    /\ ui.fetching => Out({"lite"})
    /\ ui.busy # None => Out(Changes \cup {"delete", "list"})

\* Once nothing is under way the page shows the registry as the gateway holds it,
\* and the form offers a model of its provider, unless fetches of two providers
\* overlapped or one failed.
Fresh ==
    Quiet =>
        /\ ~raced /\ ~ui.error => ui.rows = server.rows
        /\ ~ui.stale => ui.model \in {ui.provider, None}

\* A role never has two defaults, unless a row was added to it between the two
\* steps of a change (register_model, select_active_model).
OneDefault ==
    ~server.overlapped =>
        \A i, j \in DOMAIN server.rows :
            server.rows[i].default /\ server.rows[j].default /\ server.rows[i].role = server.rows[j].role => i = j
=============================================================================
