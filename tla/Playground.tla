------------------------------ MODULE Playground ------------------------------
(***************************************************************************)
(* The model playground (PlaygroundPage.tsx, SessionSidebar.tsx,            *)
(* AttachmentZone.tsx): one conversation on screen, the list of saved       *)
(* sessions, attachments, and requests that outlive the conversation they  *)
(* were sent from.  A message is a prompt, an answer or an error, with the  *)
(* number of the request it belongs to.                                    *)
(***************************************************************************)
EXTENDS Page

Session(name, messages, files, prompt) ==
    [name |-> name, messages |-> messages, files |-> files, prompt |-> prompt]

\* chat and save carry what the render they were sent from had: save goes to
\* the session that was active then.
Chat(messages) == [op |-> "chat", messages |-> messages, files |-> ui.files, active |-> ui.active, prompt |-> ui.prompt]
Save(chat, messages) == [chat EXCEPT !.op = "save", !.messages = messages]

\* The page as it mounts; a session was saved before.
Init ==
    Started([sessions |-> Empty, active |-> None, messages |-> <<>>, files |-> {}, prompt |-> 0,
             generating |-> FALSE, uploading |-> FALSE, renaming |-> None, strayed |-> FALSE],
            [sessions |-> [s \in {0} |-> Session("auto", << <<"prompt", 0>>, <<"answer", 0>> >>, {}, 1)]],
            << [op |-> "sessions"] >>)
-----------------------------------------------------------------------------
(* The gateway: PUT and DELETE of an unknown session are errors. *)

Refused(r) ==
    \/ r.ask.op = "save" /\ r.ask.active # None /\ r.ask.active \notin DOMAIN server.sessions
    \/ r.ask.op \in {"rename", "delete"} /\ r.ask.active \notin DOMAIN server.sessions
Saved(r) ==
    IF r.ask.active = None THEN Session("auto", r.ask.messages, r.ask.files, r.ask.prompt)
    ELSE Session(server.sessions[r.ask.active].name, r.ask.messages, r.ask.files, r.ask.prompt)
SavedAs(r) == IF r.ask.active = None THEN r.id ELSE r.ask.active
Effect(r) ==
    CASE r.ask.op = "save" -> [server EXCEPT !.sessions = Put(@, SavedAs(r), Saved(r))]
      [] r.ask.op = "rename" -> [server EXCEPT !.sessions[r.ask.active].name = "renamed"]
      [] r.ask.op = "delete" -> [server EXCEPT !.sessions = Drop(@, r.ask.active)]
      [] OTHER -> server
Reply(r) ==
    CASE r.ask.op = "sessions" -> server.sessions
      [] r.ask.op = "save" -> Saved(r)
      [] OTHER -> r.id
-----------------------------------------------------------------------------
(* The conversation. *)

\* (mutant) Send while an answer is awaited.
SendWhileGenerating ==
    LET messages == Append(ui.messages, <<"prompt", sent + 1>>)
    IN  /\ ui' = [ui EXCEPT !.messages = messages, !.generating = TRUE]
        /\ Send(<<Chat(messages)>>)

\* The button, and Enter, of the prompt; the pills of an empty conversation.
CanSend == ~ui.generating
Starters == ui.messages = <<>>

\* handleSendMessage up to the answer.
SendMessage ==
    /\ CanSend
    /\ LET messages == Append(ui.messages, <<"prompt", sent + 1>>)
       IN  /\ ui' = [ui EXCEPT !.messages = messages, !.generating = TRUE]
           /\ Send(<<Chat(messages)>>)

\* The answer replaces whatever conversation is on screen, and all attachments
\* on it; a failure is shown as a message and not saved.
ChatAnswered(r) ==
    /\ Came(r, "chat")
    /\ IF r.got = Failed
       THEN /\ ui' = [ui EXCEPT !.messages = Append(r.ask.messages, <<"error", r.id>>), !.generating = FALSE,
                                !.strayed = TRUE]
            /\ Done(r)
       ELSE LET messages == Append(r.ask.messages, <<"answer", r.id>>)
            IN  /\ ui' = [ui EXCEPT !.messages = messages, !.files = {}]
                /\ Go(r, <<Save(r.ask, messages)>>)

\* saveCurrentSession after its await: a created session becomes the active one,
\* the last of them if the creation was sent again.
SessionSaved(r) ==
    /\ Came(r, "save")
    /\ ui' = IF r.got = Failed THEN [ui EXCEPT !.generating = FALSE, !.strayed = TRUE]
             ELSE IF r.ask.active = None
                  THEN [ui EXCEPT !.generating = FALSE, !.active = r.id, !.sessions = Put(@, r.id, r.got),
                                  !.strayed = @ \/ r.acts # 0]
                  ELSE [ui EXCEPT !.generating = FALSE,
                                  !.sessions = IF r.ask.active \in DOMAIN @ THEN Put(@, r.ask.active, r.got) ELSE @]
    /\ Done(r)

Blank(state) == [state EXCEPT !.active = None, !.messages = <<>>, !.files = {}, !.prompt = 0]
Strays(state) == [state EXCEPT !.strayed = @ \/ ui.generating]

\* The top bar's Clear leaves the session active.
Clear ==
    /\ ui.messages # <<>>
    /\ ui' = [ui EXCEPT !.messages = <<>>, !.files = {}, !.strayed = TRUE]
    /\ Local

\* The system prompt, and with it the model, the temperature and the length.
\* BOUND: before anything is sent.
EditPrompt == sent = 1 /\ ui' = [ui EXCEPT !.prompt = 1 - @] /\ Local
-----------------------------------------------------------------------------
(* The sidebar. *)

SessionsFetched(r) ==
    /\ Came(r, "sessions")
    /\ ui' = IF r.got = Failed THEN [ui EXCEPT !.strayed = TRUE] ELSE [ui EXCEPT !.sessions = r.got]
    /\ Done(r)

NewSession == ui # Blank(ui) /\ ui' = Strays(Blank(ui)) /\ Local

\* The search can bring any session on screen.
Listed(id) == id \in DOMAIN ui.sessions

SelectSession(id) ==
    /\ Listed(id)
    /\ LET s == ui.sessions[id]
       IN  ui' = Strays([ui EXCEPT !.active = id, !.messages = s.messages, !.files = s.files, !.prompt = s.prompt])
    /\ Local

StartRename(id) ==
    /\ Listed(id) /\ ui.renaming = None
    /\ ui' = [ui EXCEPT !.renaming = id] /\ Local
ConfirmRename ==
    /\ ui.renaming # None
    /\ ui' = [ui EXCEPT !.renaming = None]
    /\ Send(<<[op |-> "rename", active |-> ui.renaming]>>)
CancelRename == ui.renaming # None /\ ui' = [ui EXCEPT !.renaming = None] /\ Local
Renamed(r) ==
    /\ Came(r, "rename")
    /\ ui' = IF r.got = Failed \/ r.ask.active \notin DOMAIN ui.sessions THEN ui
             ELSE [ui EXCEPT !.sessions[r.ask.active].name = "renamed"]
    /\ Done(r)

\* Without a confirmation; the session that counts as active is the one that
\* was when the button was pressed.
DeleteSession(id) ==
    /\ Listed(id)
    /\ UNCHANGED ui
    /\ Send(<<[op |-> "delete", active |-> id, shown |-> ui.active]>>)
SessionDeleted(r) ==
    /\ Came(r, "delete")
    /\ ui' = IF r.got = Failed THEN ui
             ELSE LET rest == [ui EXCEPT !.sessions = Drop(@, r.ask.active)]
                  IN  IF r.ask.shown = r.ask.active THEN Strays(Blank(rest))
                      ELSE [rest EXCEPT !.strayed = @ \/ ui.active = r.ask.active]
    /\ Done(r)
-----------------------------------------------------------------------------
(* Attachments: files chosen together are uploaded one after the other. *)

\* The button is disabled during an upload, the drop zone is not.
AttachFiles(n) ==
    /\ ui' = [ui EXCEPT !.uploading = TRUE]
    /\ Send(<<[op |-> "upload", left |-> n]>>)
Uploaded(r) ==
    /\ Came(r, "upload")
    /\ ui' = [ui EXCEPT !.files = IF r.got = Failed THEN @ ELSE @ \cup {r.id}, !.uploading = r.ask.left > 1]
    /\ Go(r, IF r.ask.left > 1 THEN <<[op |-> "upload", left |-> r.ask.left - 1]>> ELSE <<>>)

\* The chip goes whatever the gateway answers.
RemoveAttachment(f) ==
    /\ f \in ui.files /\ UNCHANGED ui
    /\ Send(<<[op |-> "unattach", file |-> f]>>)
AttachmentRemoved(r) ==
    /\ Came(r, "unattach")
    /\ ui' = [ui EXCEPT !.files = @ \ {r.ask.file}]
    /\ Done(r)
-----------------------------------------------------------------------------
Next ==
    \/ Clear \/ EditPrompt \/ NewSession \/ ConfirmRename \/ CancelRename
    \/ SendMessage \/ (Starters /\ SendMessage)
    \/ \E id \in 0 .. MaxRequests : SelectSession(id) \/ StartRename(id) \/ DeleteSession(id)
    \/ \E n \in 1 .. 2 : AttachFiles(n)
    \/ \E f \in ui.files : RemoveAttachment(f)
    \/ \E r \in net : ChatAnswered(r) \/ SessionSaved(r) \/ SessionsFetched(r) \/ Renamed(r)
                      \/ SessionDeleted(r) \/ Uploaded(r) \/ AttachmentRemoved(r)
    \/ Serve(Refused, Effect, Reply) \/ Repeat(Refused, Effect)

Spec == Init /\ [][Next]_vars
-----------------------------------------------------------------------------
TypeOK ==
    /\ {ui.generating, ui.uploading} \subseteq BOOLEAN /\ ui.files \subseteq 1 .. sent
    /\ ui.active # None => ui.active \in 0 .. sent

\* A prompt is followed by its answer, or by an error the page shows.
Complete(messages) ==
    \A i \in DOMAIN messages :
        IF i % 2 = 1 THEN messages[i][1] = "prompt"
        ELSE messages[i][1] # "prompt" /\ messages[i][2] = messages[i - 1][2]

\* However answers, saves, switches and deletions interleave, what the gateway
\* keeps and what the page shows between two exchanges are whole exchanges: no
\* prompt without its answer, no answer under another prompt (handleSendMessage).
TranscriptsComplete ==
    /\ \A id \in DOMAIN server.sessions :
          LET m == server.sessions[id].messages IN Complete(m) /\ Len(m) % 2 = 0
    /\ Complete(ui.messages)
    /\ ~ui.generating => Len(ui.messages) % 2 = 0

\* Once nothing is under way, and unless the conversation was left, a request failed
\* on the way or a session was created twice, the page shows the active session as
\* the gateway keeps it.
Fresh ==
    Quiet /\ ~raced /\ ~ui.strayed =>
        /\ ui.sessions = server.sessions
        /\ ui.active # None => ui.messages = server.sessions[ui.active].messages

BusyHasCause == (ui.generating => Out({"chat", "save"})) /\ (ui.uploading => Out({"upload"}))
=============================================================================
