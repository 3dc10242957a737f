---------------------------- MODULE Console_proofs -----------------------------
(***************************************************************************)
(* Invariants of the pages for work with a hub (the playground, the test   *)
(* run of a workflow, the wizard, the directory and the shell, the         *)
(* panels), for any number of requests; and what all nine pages of the     *)
(* console show.                                                           *)
(***************************************************************************)
EXTENDS ConsolePages_proofs

(* The playground. *)

ChatMessage == {"prompt", "answer", "error"} \X Int
ChatTranscript == {m \in Seq(ChatMessage) : Chat!Complete(m)}
ChatWhole == {m \in ChatTranscript : Len(m) % 2 = 0}
\* Ends with the prompt of request id.
ChatAsking(id) == {m \in ChatTranscript : Len(m) % 2 = 1 /\ m[Len(m)][2] = id}

ChatIds == Int \cup {None}
ChatKept == [name : {"auto", "renamed"}, messages : ChatWhole, files : SUBSET Int, prompt : Int]
ChatSessions == UNION {[D -> ChatKept] : D \in SUBSET Int}

ChatApp == [sessions : ChatSessions, active : ChatIds, messages : ChatTranscript, files : SUBSET Int, prompt : Int,
        generating : BOOLEAN, uploading : BOOLEAN, renaming : ChatIds, strayed : BOOLEAN]

ChatExchange == [op : {"chat", "save"}, messages : ChatTranscript, files : SUBSET Int, active : ChatIds, prompt : Int]
ChatAsks == ChatExchange \cup [op : {"sessions"}] \cup [op : {"rename"}, active : ChatIds]
        \cup [op : {"delete"}, active : ChatIds, shown : ChatIds]
        \cup [op : {"upload"}, left : Int] \cup [op : {"unattach"}, file : Int]
ChatGots == {Waiting, Failed} \cup ChatSessions \cup ChatKept \cup Int
ChatSent == [id : Int, ask : ChatAsks, got : ChatGots, late : BOOLEAN, acts : Nat]

ChatTypeInv == sent \in Nat /\ net \subseteq ChatSent /\ ui \in ChatApp /\ server \in [sessions : ChatSessions]

\* What a request carries, and what it was answered.
ChatAnswered(r) == r.got # Waiting /\ r.got # Failed
ChatCarriesInv(r) ==
    /\ r.ask.op = "chat" => r.ask.messages \in ChatAsking(r.id)
    /\ r.ask.op = "save" => r.ask.messages \in ChatWhole
    /\ r.ask.op = "sessions" /\ ChatAnswered(r) => r.got \in ChatSessions
    /\ r.ask.op = "save" /\ ChatAnswered(r) => r.got \in ChatKept

\* One exchange at a time, and the page generates until it is over.
ChatExchanging(r) == r.ask.op \in {"chat", "save"}
ChatExchangeInv ==
    /\ \A p, q \in net : ChatExchanging(p) /\ ChatExchanging(q) => p = q
    /\ \A p \in net : ChatExchanging(p) => ui.generating
    /\ ui.messages \in ChatWhole \/ \E p \in net : p.ask.op = "chat"

ChatIInv == ChatTypeInv /\ (\A r \in net : ChatCarriesInv(r)) /\ ChatExchangeInv
-----------------------------------------------------------------------------
(* Transcripts. *)

LEMMA ChatEmptyWhole == <<>> \in ChatWhole
  BY DEF ChatWhole, ChatTranscript, Chat!Complete

LEMMA ChatPromptAsked ==
    ASSUME NEW m \in ChatWhole, NEW id \in Int
    PROVE  Append(m, <<"prompt", id>>) \in ChatAsking(id)
<1> DEFINE x == <<"prompt", id>>
           s == Append(m, x)
<1>1. x \in ChatMessage /\ x[1] = "prompt" /\ x[2] = id
  BY DEF ChatMessage
<1>2. m \in Seq(ChatMessage) /\ Chat!Complete(m) /\ Len(m) % 2 = 0 /\ Len(m) \in Nat
  BY DEF ChatWhole, ChatTranscript
<1> HIDE DEF x
<1>3. /\ s \in Seq(ChatMessage) /\ Len(s) = Len(m) + 1 /\ s[Len(s)] = x /\ DOMAIN s = 1 .. Len(m) + 1
      /\ \A i \in 1 .. Len(m) : s[i] = m[i]
  BY <1>1, <1>2
<1> HIDE DEF s
<1>4. Len(s) % 2 = 1
  BY <1>2, <1>3
<1>5. Chat!Complete(s)
  <2> SUFFICES ASSUME NEW i \in DOMAIN s
               PROVE  IF i % 2 = 1 THEN s[i][1] = "prompt" ELSE s[i][1] # "prompt" /\ s[i][2] = s[i - 1][2]
    BY DEF Chat!Complete
  <2>1. CASE i = Len(m) + 1
    BY <1>1, <1>3, <1>4, <2>1
  <2>2. CASE i \in 1 .. Len(m)
    <3>1. i \in DOMAIN m
      BY <1>2, <2>2
    <3>2. IF i % 2 = 1 THEN m[i][1] = "prompt" ELSE m[i][1] # "prompt" /\ m[i][2] = m[i - 1][2]
      BY <1>2, <3>1 DEF Chat!Complete
    <3>3. i % 2 # 1 => i - 1 \in 1 .. Len(m)
      BY <1>2, <2>2
    <3>4. QED
      BY <1>3, <2>2, <3>2, <3>3
  <2>3. QED
    BY <1>2, <1>3, <2>1, <2>2
<1>6. s \in ChatAsking(id)
  BY <1>1, <1>3, <1>4, <1>5 DEF ChatAsking, ChatTranscript
<1>7. QED
  BY <1>6 DEF s, x

\* The answer, or the error, of the request the transcript ends with.
LEMMA ChatAnswerWhole ==
    ASSUME NEW id \in Int, NEW m \in ChatAsking(id), NEW kind \in {"answer", "error"}
    PROVE  Append(m, <<kind, id>>) \in ChatWhole
<1> DEFINE x == <<kind, id>>
           s == Append(m, x)
<1>1. x \in ChatMessage /\ x[1] # "prompt" /\ x[2] = id
  BY DEF ChatMessage
<1>2. m \in Seq(ChatMessage) /\ Chat!Complete(m) /\ Len(m) % 2 = 1 /\ Len(m) \in Nat /\ m[Len(m)][2] = id
  BY DEF ChatAsking, ChatTranscript
<1> HIDE DEF x
<1>3. /\ s \in Seq(ChatMessage) /\ Len(s) = Len(m) + 1 /\ s[Len(s)] = x /\ DOMAIN s = 1 .. Len(m) + 1
      /\ \A i \in 1 .. Len(m) : s[i] = m[i]
  BY <1>1, <1>2
<1> HIDE DEF s
<1>4. Len(s) % 2 = 0
  BY <1>2, <1>3
<1>5. Chat!Complete(s)
  <2> SUFFICES ASSUME NEW i \in DOMAIN s
               PROVE  IF i % 2 = 1 THEN s[i][1] = "prompt" ELSE s[i][1] # "prompt" /\ s[i][2] = s[i - 1][2]
    BY DEF Chat!Complete
  <2>1. CASE i = Len(m) + 1
    <3>1. Len(m) \in 1 .. Len(m)
      BY <1>2
    <3>2. s[i - 1] = m[Len(m)]
      BY <1>2, <1>3, <2>1, <3>1
    <3>3. QED
      BY <1>1, <1>2, <1>3, <1>4, <2>1, <3>2
  <2>2. CASE i \in 1 .. Len(m)
    <3>1. i \in DOMAIN m
      BY <1>2, <2>2
    <3>2. IF i % 2 = 1 THEN m[i][1] = "prompt" ELSE m[i][1] # "prompt" /\ m[i][2] = m[i - 1][2]
      BY <1>2, <3>1 DEF Chat!Complete
    <3>3. i % 2 # 1 => i - 1 \in 1 .. Len(m)
      BY <1>2, <2>2
    <3>4. QED
      BY <1>3, <2>2, <3>2, <3>3
  <2>3. QED
    BY <1>2, <1>3, <2>1, <2>2
<1>6. s \in ChatWhole
  BY <1>3, <1>4, <1>5 DEF ChatWhole, ChatTranscript
<1>7. QED
  BY <1>6 DEF s, x
-----------------------------------------------------------------------------
(* Sessions. *)

LEMMA ChatSessionsKept ==
    ASSUME NEW f \in ChatSessions
    PROVE  DOMAIN f \subseteq Int /\ \A x \in DOMAIN f : f[x] \in ChatKept
  BY DEF ChatSessions

LEMMA ChatPutKept ==
    ASSUME NEW f \in ChatSessions, NEW k \in Int, NEW v \in ChatKept
    PROVE  Chat!Put(f, k, v) \in ChatSessions
<1>1. Chat!Put(f, k, v) \in [DOMAIN f \cup {k} -> ChatKept]
  BY ChatSessionsKept DEF Chat!Put
<1>2. DOMAIN f \cup {k} \in SUBSET Int
  BY ChatSessionsKept
<1>3. QED
  BY <1>1, <1>2 DEF ChatSessions

LEMMA ChatDropKept ==
    ASSUME NEW f \in ChatSessions, NEW k
    PROVE  Chat!Drop(f, k) \in ChatSessions
<1>1. Chat!Drop(f, k) \in [DOMAIN f \ {k} -> ChatKept]
  BY ChatSessionsKept DEF Chat!Drop
<1>2. DOMAIN f \ {k} \in SUBSET Int
  BY ChatSessionsKept
<1>3. QED
  BY <1>1, <1>2 DEF ChatSessions

LEMMA ChatRenamedKept ==
    ASSUME NEW f \in ChatSessions, NEW k \in DOMAIN f
    PROVE  [f EXCEPT ![k].name = "renamed"] \in ChatSessions
<1> DEFINE v == [f[k] EXCEPT !.name = "renamed"]
           g == [f EXCEPT ![k].name = "renamed"]
<1>1. v \in ChatKept
  BY ChatSessionsKept DEF ChatKept
<1>2. g = [f EXCEPT ![k] = v]
  OBVIOUS
<1> HIDE DEF v, g
<1>3. g \in [DOMAIN f -> ChatKept]
  <2>1. PICK D \in SUBSET Int : f \in [D -> ChatKept]
    BY DEF ChatSessions
  <2>2. QED
    BY <1>1, <1>2, <2>1
<1>4. QED
  BY <1>3, ChatSessionsKept DEF ChatSessions, g
-----------------------------------------------------------------------------
LEMMA ChatInitIInv == Chat!Init => ChatIInv
<1> SUFFICES ASSUME Chat!Init PROVE ChatIInv
  OBVIOUS
<1> DEFINE m == << <<"prompt", 0>>, <<"answer", 0>> >>
           ask == [op |-> "sessions"]
           past == [s \in {0} |-> Chat!Session("auto", m, {}, 1)]
<1>1. /\ ui = [sessions |-> Chat!Empty, active |-> None, messages |-> <<>>, files |-> {}, prompt |-> 0,
               generating |-> FALSE, uploading |-> FALSE, renaming |-> None, strayed |-> FALSE]
      /\ server = [sessions |-> past] /\ net = {Chat!Request(1, ask)} /\ sent = 1
  BY DEF Chat!Init, Chat!Started
<1>2. m \in ChatWhole
  <2> DEFINE n == Append(<<>>, <<"prompt", 0>>)
  <2>0. 0 \in Int /\ "answer" \in {"answer", "error"}
    OBVIOUS
  <2>1. n \in ChatAsking(0)
    BY <2>0, ChatEmptyWhole, ChatPromptAsked, Zenon
  <2>2. n = << <<"prompt", 0>> >>
    OBVIOUS
  <2>3. m = Append(n, <<"answer", 0>>)
    BY <2>2
  <2> HIDE DEF n, m
  <2>4. Append(n, <<"answer", 0>>) \in ChatWhole
    BY <2>0, <2>1, ChatAnswerWhole, Zenon
  <2>5. QED
    BY <2>3, <2>4
<1> HIDE DEF m
<1>3. Chat!Session("auto", m, {}, 1) \in ChatKept
  BY <1>2 DEF Chat!Session, ChatKept
<1>4. past \in [{0} -> ChatKept] /\ {0} \in SUBSET Int
  BY <1>3
<1>5. past \in ChatSessions
  BY <1>4 DEF ChatSessions
<1>6. Chat!Empty \in ChatSessions
  <2>1. Chat!Empty \in [{} -> ChatKept] /\ {} \in SUBSET Int
    BY DEF Chat!Empty
  <2>2. QED
    BY <2>1 DEF ChatSessions
<1>7. ui \in ChatApp
  <2>1. <<>> \in ChatTranscript
    BY ChatEmptyWhole DEF ChatWhole
  <2>2. QED
    BY <1>1, <1>6, <2>1 DEF ChatApp, ChatIds
<1> HIDE DEF past
<1>8. Chat!Request(1, ask) \in ChatSent
  BY DEF Chat!Request, ChatSent, ChatGots, ChatAsks
<1>9. ChatTypeInv
  BY <1>1, <1>5, <1>7, <1>8 DEF ChatTypeInv
<1>10. \A r \in net : ChatCarriesInv(r)
  BY <1>1 DEF ChatCarriesInv, ChatAnswered, Chat!Request
<1>11. ChatExchangeInv
  BY <1>1, ChatEmptyWhole DEF ChatExchangeInv, ChatExchanging, Chat!Request
<1>12. QED
  BY <1>9, <1>10, <1>11 DEF ChatIInv
-----------------------------------------------------------------------------
(* The gateway. *)

\* The fields of a request, by what it asks for.
LEMMA ChatFields ==
    ASSUME NEW r \in ChatSent
    PROVE  /\ r.id \in Int /\ r.ask \in ChatAsks
           /\ ChatExchanging(r) => /\ r.ask \in ChatExchange /\ r.ask.messages \in ChatTranscript /\ r.ask.files \in SUBSET Int
                               /\ r.ask.active \in ChatIds /\ r.ask.prompt \in Int
           /\ r.ask.op = "rename" => r.ask.active \in ChatIds
           /\ r.ask.op = "delete" => r.ask.active \in ChatIds /\ r.ask.shown \in ChatIds
           /\ r.ask.op = "upload" => r.ask.left \in Int
           /\ r.ask.op = "unattach" => r.ask.file \in Int
<1>1. r.id \in Int /\ r.ask \in ChatAsks
  BY DEF ChatSent
<1>2. QED
  BY <1>1 DEF ChatExchanging, ChatAsks, ChatExchange

LEMMA ChatFits ==
    ASSUME ChatIInv, NEW r \in net
    PROVE  r \in ChatSent /\ ChatCarriesInv(r)
  BY DEF ChatIInv, ChatTypeInv

\* What is saved, under a name and a number.
LEMMA ChatSavedKept ==
    ASSUME ChatIInv, NEW r \in net, r.ask.op = "save", ~Chat!Refused(r)
    PROVE  Chat!Saved(r) \in ChatKept /\ Chat!SavedAs(r) \in Int
<1>1. /\ r \in ChatSent /\ r.ask.messages \in ChatWhole /\ r.ask.files \in SUBSET Int
      /\ r.ask.active \in ChatIds /\ r.ask.prompt \in Int /\ r.id \in Int
  BY ChatFits, ChatFields DEF ChatCarriesInv, ChatExchanging
<1>2. server.sessions \in ChatSessions
  BY DEF ChatIInv, ChatTypeInv
<1>3. CASE r.ask.active = None
  BY <1>1, <1>3 DEF Chat!Saved, Chat!SavedAs, Chat!Session, ChatKept
<1>4. CASE r.ask.active # None
  <2>1. r.ask.active \in DOMAIN server.sessions
    BY <1>4 DEF Chat!Refused
  <2>2. server.sessions[r.ask.active].name \in {"auto", "renamed"}
    BY <1>2, <2>1, ChatSessionsKept DEF ChatKept
  <2>3. QED
    BY <1>1, <1>4, <2>2 DEF Chat!Saved, Chat!SavedAs, Chat!Session, ChatKept, ChatIds
<1>5. QED
  BY <1>3, <1>4

LEMMA ChatEffectKept ==
    ASSUME ChatIInv, NEW r \in net, ~Chat!Refused(r)
    PROVE  Chat!Effect(r) \in [sessions : ChatSessions]
<1>1. server \in [sessions : ChatSessions] /\ server.sessions \in ChatSessions
  BY DEF ChatIInv, ChatTypeInv
<1>2. CASE r.ask.op = "save"
  <2> DEFINE f == Chat!Put(server.sessions, Chat!SavedAs(r), Chat!Saved(r))
  <2>1. f \in ChatSessions
    BY <1>1, <1>2, ChatSavedKept, ChatPutKept
  <2>2. Chat!Effect(r) = [server EXCEPT !.sessions = f]
    BY <1>2 DEF Chat!Effect
  <2> HIDE DEF f
  <2>3. QED
    BY <1>1, <2>1, <2>2
<1>3. CASE r.ask.op = "rename"
  <2> DEFINE f == [server.sessions EXCEPT ![r.ask.active].name = "renamed"]
  <2>1. r.ask.active \in DOMAIN server.sessions
    BY <1>3 DEF Chat!Refused
  <2>2. f \in ChatSessions
    BY <1>1, <2>1, ChatRenamedKept
  <2>3. Chat!Effect(r) = [server EXCEPT !.sessions = f]
    BY <1>3 DEF Chat!Effect
  <2> HIDE DEF f
  <2>4. QED
    BY <1>1, <2>2, <2>3
<1>4. CASE r.ask.op = "delete"
  <2> DEFINE f == Chat!Drop(server.sessions, r.ask.active)
  <2>1. f \in ChatSessions
    BY <1>1, ChatDropKept
  <2>2. Chat!Effect(r) = [server EXCEPT !.sessions = f]
    BY <1>4 DEF Chat!Effect
  <2> HIDE DEF f
  <2>3. QED
    BY <1>1, <2>1, <2>2
<1>5. CASE r.ask.op \notin {"save", "rename", "delete"}
  BY <1>1, <1>5 DEF Chat!Effect
<1>6. QED
  BY <1>2, <1>3, <1>4, <1>5

LEMMA ChatReplyFits ==
    ASSUME ChatIInv, NEW r \in net, ~Chat!Refused(r)
    PROVE  /\ Chat!Reply(r) \in ChatSessions \cup ChatKept \cup Int
           /\ r.ask.op = "sessions" => Chat!Reply(r) \in ChatSessions
           /\ r.ask.op = "save" => Chat!Reply(r) \in ChatKept
<1>1. server.sessions \in ChatSessions /\ r.id \in Int
  BY ChatFits, ChatFields DEF ChatIInv, ChatTypeInv
<1>2. CASE r.ask.op = "save"
  BY <1>2, ChatSavedKept DEF Chat!Reply
<1>3. CASE r.ask.op # "save"
  BY <1>1, <1>3 DEF Chat!Reply
<1>4. QED
  BY <1>2, <1>3

\* The gateway acts on r, which becomes to, and keeps held.
LEMMA ChatMoveStep ==
    ASSUME ChatIInv, NEW r \in net, NEW to \in ChatSent, to.ask = r.ask, ChatCarriesInv(to),
           NEW held \in [sessions : ChatSessions], Chat!Moves(r, to, held), sent' \in Nat
    PROVE  ChatIInv'
<1>1. server' = held /\ ui' = ui
  BY DEF Chat!Moves
<1> DEFINE After(q) == IF q = r THEN to ELSE [q EXCEPT !.late = q.got # Waiting /\ (@ \/ held # server)]
<1>2. net' = {After(q) : q \in net}
  BY DEF Chat!Moves
<1>3. \A q \in net : After(q) \in ChatSent /\ After(q).ask = q.ask /\ ChatCarriesInv(After(q))
  <2> SUFFICES ASSUME NEW q \in net, q # r
               PROVE  After(q) \in ChatSent /\ After(q).ask = q.ask /\ ChatCarriesInv(After(q))
    OBVIOUS
  <2>1. q \in ChatSent /\ ChatCarriesInv(q)
    BY ChatFits
  <2> DEFINE late == q.got # Waiting /\ (q.late \/ held # server)
             p == [q EXCEPT !.late = late]
  <2>2. late \in BOOLEAN
    OBVIOUS
  <2> HIDE DEF late
  <2>3. p \in ChatSent /\ p.ask = q.ask /\ p.id = q.id /\ p.got = q.got
    BY <2>1, <2>2 DEF ChatSent
  <2>4. After(q) = p
    BY DEF late
  <2> HIDE DEF p
  <2>5. ChatCarriesInv(p)
    BY <2>1, <2>3 DEF ChatCarriesInv, ChatAnswered
  <2> QED
    BY <2>3, <2>4, <2>5
<1> HIDE DEF After
<1>4. ChatTypeInv'
  BY <1>1, <1>2, <1>3 DEF ChatIInv, ChatTypeInv
<1>5. \A p \in net' : ChatCarriesInv(p)
  BY <1>2, <1>3
<1>6. ChatExchangeInv'
  <2>1. \A p, q \in net' : ChatExchanging(p) /\ ChatExchanging(q) => p = q
    BY <1>2, <1>3 DEF ChatIInv, ChatExchangeInv, ChatExchanging
  <2>2. \A p \in net' : ChatExchanging(p) => ui.generating
    BY <1>2, <1>3 DEF ChatIInv, ChatExchangeInv, ChatExchanging
  <2>3. ui.messages \in ChatWhole \/ \E p \in net' : p.ask.op = "chat"
    BY <1>2, <1>3 DEF ChatIInv, ChatExchangeInv
  <2>4. QED
    BY <1>1, <2>1, <2>2, <2>3 DEF ChatExchangeInv, ChatExchanging
<1>7. QED
  BY <1>4, <1>5, <1>6 DEF ChatIInv, ChatCarriesInv, ChatAnswered

\* What r becomes: it is answered, or it failed, or it is sent again.  Only
\* requests with an effect are, and so no prompt.
ChatBecomes(r, to, held) ==
    /\ Chat!Moves(r, to, held) /\ to.ask = r.ask
    /\ \/ to.id = r.id /\ sent' = sent
       \/ to.id = sent + 1 /\ to.got = Waiting /\ sent' = sent + 1 /\ r.ask.op # "chat"
    /\ \/ to.got = Failed /\ held = server
       \/ ~Chat!Refused(r) /\ held = Chat!Effect(r) /\ to.got \in {Waiting, Failed, Chat!Reply(r)}

LEMMA ChatServed ==
    ASSUME ChatIInv, Chat!Serve(Chat!Refused, Chat!Effect, Chat!Reply) \/ Chat!Repeat(Chat!Refused, Chat!Effect)
    PROVE  \E r \in net, to \in ChatSent : \E held : ChatBecomes(r, to, held)
<1>1. sent \in Nat /\ net \subseteq ChatSent
  BY DEF ChatIInv, ChatTypeInv
<1>2. ASSUME NEW r \in net, NEW got \in ChatGots, NEW held, Chat!Settle(r, got, held),
             \/ got = Failed /\ held = server
             \/ ~Chat!Refused(r) /\ held = Chat!Effect(r) /\ got \in {Failed, Chat!Reply(r)}
      PROVE  \E to \in ChatSent : ChatBecomes(r, to, held)
  <2> DEFINE to == [r EXCEPT !.got = got]
  <2>1. Chat!Moves(r, to, held) /\ sent' = sent
    BY <1>2 DEF Chat!Settle
  <2>2. to \in ChatSent /\ to.ask = r.ask /\ to.got = got /\ to.id = r.id
    BY <1>1, <1>2 DEF ChatSent, ChatGots
  <2> HIDE DEF to
  <2> QED
    BY <1>2, <2>1, <2>2 DEF ChatBecomes
<1>3. CASE Chat!Serve(Chat!Refused, Chat!Effect, Chat!Reply)
  <2>1. PICK r \in net :
            \/ ~Chat!Refused(r) /\ Chat!Settle(r, Chat!Reply(r), Chat!Effect(r))
            \/ Chat!Settle(r, Failed, server)
            \/ ~Chat!Refused(r) /\ Chat!Settle(r, Failed, Chat!Effect(r))
    BY <1>3 DEF Chat!Serve, Chat!ServeOne
  <2>2. ~Chat!Refused(r) => Chat!Reply(r) \in ChatGots
    BY ChatReplyFits DEF ChatGots
  <2>3. Failed \in ChatGots
    BY DEF ChatGots
  <2> QED
    BY <1>2, <2>1, <2>2, <2>3
<1>4. CASE Chat!Repeat(Chat!Refused, Chat!Effect)
  <2>1. PICK r \in net : /\ ~Chat!Refused(r) /\ Chat!Effect(r) # server
                         /\ Chat!SentAgain(r, r.acts + 1, r.ask, Chat!Effect(r))
    BY <1>4 DEF Chat!Repeat, Chat!RepeatOne, Chat!Same
  <2> DEFINE req == Chat!Request(sent + 1, r.ask)
             acts == r.acts + 1
             to == [req EXCEPT !.acts = acts]
  <2>2. Chat!Moves(r, to, Chat!Effect(r)) /\ sent' = sent + 1
    BY <2>1 DEF Chat!SentAgain
  <2>3. r.ask.op # "chat"
    BY <2>1 DEF Chat!Effect
  <2>4. r \in ChatSent /\ acts \in Nat
    BY <1>1 DEF ChatSent
  <2>5. req \in ChatSent /\ req.ask = r.ask /\ req.got = Waiting /\ req.id = sent + 1
    BY <1>1, <2>4 DEF ChatSent, ChatGots, Chat!Request
  <2> HIDE DEF req, acts
  <2>6. to \in ChatSent /\ to.ask = r.ask /\ to.got = Waiting /\ to.id = sent + 1
    BY <2>4, <2>5 DEF ChatSent
  <2> HIDE DEF to
  <2> QED
    BY <2>1, <2>2, <2>3, <2>6 DEF ChatBecomes
<1> QED
  BY <1>3, <1>4

LEMMA ChatServeStep ==
    ASSUME ChatIInv, Chat!Serve(Chat!Refused, Chat!Effect, Chat!Reply) \/ Chat!Repeat(Chat!Refused, Chat!Effect)
    PROVE  ChatIInv'
<1>1. PICK r \in net, to \in ChatSent : \E held : ChatBecomes(r, to, held)
  BY ChatServed
<1>2. PICK held : ChatBecomes(r, to, held)
  BY <1>1
<1>3. server \in [sessions : ChatSessions] /\ sent \in Nat
  BY DEF ChatIInv, ChatTypeInv
<1>4. held \in [sessions : ChatSessions]
  BY <1>2, <1>3, ChatEffectKept DEF ChatBecomes
<1>5. ChatCarriesInv(to)
  <2>1. ChatCarriesInv(r)
    BY ChatFits
  <2>2. ~Chat!Refused(r) =>
            /\ r.ask.op = "sessions" => Chat!Reply(r) \in ChatSessions
            /\ r.ask.op = "save" => Chat!Reply(r) \in ChatKept
    BY ChatReplyFits
  <2> QED
    BY <1>2, <2>1, <2>2 DEF ChatCarriesInv, ChatAnswered, ChatBecomes
<1> QED
  BY <1>2, <1>3, <1>4, <1>5, ChatMoveStep DEF ChatBecomes
-----------------------------------------------------------------------------
(* The page.  Most steps leave the exchange alone: they take answers to other *)
(* requests, send other ones, and show a whole conversation or the same.      *)

ChatOneRequest(ask) == {Chat!Request(sent + 1, ask)}

LEMMA ChatOneAsk ==
    ASSUME NEW ask
    PROVE  Chat!Requests(<<ask>>) = ChatOneRequest(ask) /\ Len(<<ask>>) = 1 /\ Chat!Requests(<<>>) = {} /\ Len(<<>>) = 0
<1>1. DOMAIN <<ask>> = {1} /\ <<ask>>[1] = ask /\ DOMAIN <<>> = {} /\ Len(<<ask>>) = 1 /\ Len(<<>>) = 0
  OBVIOUS
<1>2. QED
  BY <1>1 DEF Chat!Requests, ChatOneRequest

LEMMA ChatNewRequest ==
    ASSUME sent \in Nat, NEW ask \in ChatAsks
    PROVE  /\ Chat!Request(sent + 1, ask) \in ChatSent
           /\ Chat!Request(sent + 1, ask).ask = ask /\ Chat!Request(sent + 1, ask).id = sent + 1
           /\ ~ChatAnswered(Chat!Request(sent + 1, ask))
  BY DEF Chat!Request, ChatSent, ChatGots, ChatAnswered

\* The exchange stays as it is.
ChatUndisturbed ==
    /\ ui' \in ChatApp /\ ui'.generating = ui.generating
    /\ ui'.messages \in ChatWhole \/ ui'.messages = ui.messages

LEMMA ChatPlainStep ==
    ASSUME ChatIInv, NEW gone, NEW asks,
           \A p \in gone : ~ChatExchanging(p),
           asks = {} \/ \E ask \in ChatAsks : ask.op \notin {"chat", "save"} /\ asks = ChatOneRequest(ask),
           net' = (net \ gone) \cup asks, sent' \in Nat, server' = server, ChatUndisturbed
    PROVE  ChatIInv'
<1>1. \A p \in asks : p \in ChatSent /\ ~ChatExchanging(p) /\ ChatCarriesInv(p)
  <2> SUFFICES ASSUME NEW ask \in ChatAsks, ask.op \notin {"chat", "save"}
               PROVE  LET p == Chat!Request(sent + 1, ask)
                      IN  p \in ChatSent /\ ~ChatExchanging(p) /\ ChatCarriesInv(p)
    BY DEF ChatOneRequest
  <2>1. sent \in Nat
    BY DEF ChatIInv, ChatTypeInv
  <2>2. QED
    BY <2>1, ChatNewRequest DEF ChatExchanging, ChatCarriesInv
<1>2. ChatTypeInv'
  BY <1>1 DEF ChatIInv, ChatTypeInv, ChatUndisturbed
<1>3. \A p \in net' : ChatCarriesInv(p)
  BY <1>1 DEF ChatIInv
<1>4. ChatExchangeInv'
  <2>1. \A p, q \in net' : ChatExchanging(p) /\ ChatExchanging(q) => p = q
    BY <1>1 DEF ChatIInv, ChatExchangeInv
  <2>2. \A p \in net' : ChatExchanging(p) => ui'.generating
    BY <1>1 DEF ChatIInv, ChatExchangeInv, ChatUndisturbed
  <2>3. ui'.messages \in ChatWhole \/ \E p \in net' : p.ask.op = "chat"
    <3>1. CASE ui'.messages \in ChatWhole
      BY <3>1
    <3>2. CASE ui'.messages = ui.messages
      <4>1. CASE ui.messages \in ChatWhole
        BY <3>2, <4>1
      <4>2. CASE \E p \in net : p.ask.op = "chat"
        BY <4>2 DEF ChatExchanging
      <4>3. QED
        BY <4>1, <4>2 DEF ChatIInv, ChatExchangeInv
    <3>3. QED
      BY <3>1, <3>2 DEF ChatUndisturbed
  <2>4. QED
    BY <2>1, <2>2, <2>3 DEF ChatExchangeInv, ChatExchanging
<1>5. QED
  BY <1>2, <1>3, <1>4 DEF ChatIInv, ChatCarriesInv, ChatAnswered

LEMMA ChatPlainLocal == ASSUME ChatIInv, Chat!Local, ChatUndisturbed PROVE ChatIInv'
<1> DEFINE none == {}
<1>1. net' = (net \ none) \cup none /\ sent' \in Nat /\ server' = server
  BY DEF Chat!Local, ChatIInv, ChatTypeInv
<1>2. none = {} /\ \A p \in none : ~ChatExchanging(p)
  OBVIOUS
<1> HIDE DEF none
<1>3. QED
  BY <1>1, <1>2, ChatPlainStep

LEMMA ChatPlainSend ==
    ASSUME ChatIInv, NEW ask \in ChatAsks, ask.op \notin {"chat", "save"}, Chat!Send(<<ask>>), ChatUndisturbed
    PROVE  ChatIInv'
<1> DEFINE none == {}
<1>1. net' = (net \ none) \cup ChatOneRequest(ask) /\ sent' \in Nat /\ server' = server
  BY ChatOneAsk DEF Chat!Send, ChatIInv, ChatTypeInv
<1>2. \A p \in none : ~ChatExchanging(p)
  OBVIOUS
<1> HIDE DEF none
<1>3. QED
  BY <1>1, <1>2, ChatPlainStep

LEMMA ChatPlainGo ==
    ASSUME ChatIInv, NEW r \in net, ~ChatExchanging(r), ChatUndisturbed,
           NEW ask \in ChatAsks, ask.op \notin {"chat", "save"}, Chat!Done(r) \/ Chat!Go(r, <<ask>>)
    PROVE  ChatIInv'
<1>1. \/ net' = (net \ {r}) \cup {} /\ sent' \in Nat /\ server' = server
      \/ net' = (net \ {r}) \cup ChatOneRequest(ask) /\ sent' \in Nat /\ server' = server
  BY ChatOneAsk DEF Chat!Done, Chat!Go, ChatIInv, ChatTypeInv
<1>2. \A p \in {r} : ~ChatExchanging(p)
  OBVIOUS
<1>3. QED
  BY <1>1, <1>2, ChatPlainStep
-----------------------------------------------------------------------------
(* The exchange. *)

LEMMA ChatPage ==
    ASSUME ChatIInv
    PROVE  /\ ui \in ChatApp /\ sent \in Nat /\ ui.sessions \in ChatSessions /\ ui.active \in ChatIds
           /\ ui.messages \in ChatTranscript /\ ui.files \in SUBSET Int /\ ui.prompt \in Int
           /\ ui.generating \in BOOLEAN /\ ui.renaming \in ChatIds /\ ui.strayed \in BOOLEAN
  BY DEF ChatIInv, ChatTypeInv, ChatApp

LEMMA ChatSendMessageStep == ASSUME ChatIInv, Chat!SendMessage PROVE ChatIInv'
<1> DEFINE m == Append(ui.messages, <<"prompt", sent + 1>>)
           ask == [op |-> "chat", messages |-> m, files |-> ui.files, active |-> ui.active, prompt |-> ui.prompt]
           r == Chat!Request(sent + 1, ask)
<1>1. /\ ~ui.generating /\ ui' = [ui EXCEPT !.messages = m, !.generating = TRUE] /\ Chat!Send(<<ask>>)
  BY DEF Chat!SendMessage, Chat!CanSend, Chat!Chat
<1>2. \A p \in net : ~ChatExchanging(p)
  BY <1>1 DEF ChatIInv, ChatExchangeInv
<1>3. ui.messages \in ChatWhole
  BY <1>2 DEF ChatIInv, ChatExchangeInv, ChatExchanging
<1>4. m \in ChatAsking(sent + 1) /\ m \in ChatTranscript
  <2>1. sent + 1 \in Int
    BY ChatPage
  <2>2. m \in ChatAsking(sent + 1)
    BY <1>3, <2>1, ChatPromptAsked
  <2>3. QED
    BY <2>2 DEF ChatAsking
<1>5. ask \in ChatAsks /\ ask.op = "chat" /\ ask.messages = m
  <2> HIDE DEF m
  <2>1. QED
    BY <1>4, ChatPage DEF ChatAsks, ChatExchange
<1>6. net' = net \cup {r} /\ sent' = sent + 1 /\ server' = server
  BY <1>1, ChatOneAsk DEF Chat!Send, ChatOneRequest
<1>7. ui' \in ChatApp /\ ui'.generating = TRUE
  <2> HIDE DEF m
  <2>1. QED
    BY <1>1, <1>4, ChatPage DEF ChatApp
<1> HIDE DEF m, ask
<1>8. r \in ChatSent /\ r.ask = ask /\ ChatCarriesInv(r) /\ ChatExchanging(r)
  <2>1. r \in ChatSent /\ r.ask = ask /\ r.id = sent + 1 /\ ~ChatAnswered(r)
    BY <1>5, ChatPage, ChatNewRequest
  <2> HIDE DEF r
  <2>2. QED
    BY <1>4, <1>5, <2>1 DEF ChatCarriesInv, ChatExchanging
<1> HIDE DEF r
<1>9. ChatTypeInv'
  BY <1>6, <1>7, <1>8, ChatPage DEF ChatIInv, ChatTypeInv
<1>10. \A p \in net' : ChatCarriesInv(p)
  BY <1>6, <1>8 DEF ChatIInv
<1>11. ChatExchangeInv'
  <2>1. \A p, q \in net' : ChatExchanging(p) /\ ChatExchanging(q) => p = q
    BY <1>2, <1>6
  <2>2. \E p \in net' : p.ask.op = "chat"
    BY <1>5, <1>6, <1>8
  <2>3. QED
    BY <1>7, <2>1, <2>2 DEF ChatExchangeInv, ChatExchanging
<1>12. QED
  BY <1>9, <1>10, <1>11 DEF ChatIInv, ChatCarriesInv, ChatAnswered

\* The exchange ends.
LEMMA ChatEndStep ==
    ASSUME ChatIInv, NEW r \in net, ChatExchanging(r), Chat!Done(r), ui' \in ChatApp, ui'.messages \in ChatWhole
    PROVE  ChatIInv'
<1>1. net' = net \ {r} /\ sent' = sent /\ server' = server
  <2>1. Chat!Requests(<<>>) = {} /\ Len(<<>>) = 0
    BY ChatOneAsk
  <2>2. QED
    BY <2>1, ChatPage DEF Chat!Done, Chat!Go
<1>2. ChatTypeInv'
  BY <1>1 DEF ChatIInv, ChatTypeInv
<1>3. \A p \in net' : ChatCarriesInv(p) /\ ~ChatExchanging(p)
  BY <1>1 DEF ChatIInv, ChatExchangeInv
<1>4. ChatExchangeInv'
  BY <1>3 DEF ChatExchangeInv, ChatExchanging
<1>5. QED
  BY <1>2, <1>3, <1>4 DEF ChatIInv, ChatCarriesInv, ChatAnswered

LEMMA ChatAnsweredStep == ASSUME ChatIInv, NEW r \in net, Chat!ChatAnswered(r) PROVE ChatIInv'
<1>1. /\ r.ask.op = "chat" /\ r.ask.messages \in ChatAsking(r.id) /\ ChatExchanging(r) /\ r.id \in Int
      /\ r.ask \in ChatExchange
  BY ChatFits, ChatFields DEF Chat!ChatAnswered, Chat!Came, ChatCarriesInv, ChatExchanging
<1>2. CASE r.got = Failed
  <2> DEFINE m == Append(r.ask.messages, <<"error", r.id>>)
  <2>1. ui' = [ui EXCEPT !.messages = m, !.generating = FALSE, !.strayed = TRUE] /\ Chat!Done(r)
    BY <1>2 DEF Chat!ChatAnswered
  <2>2. m \in ChatWhole /\ m \in ChatTranscript
    BY <1>1, ChatAnswerWhole DEF ChatWhole
  <2> HIDE DEF m
  <2>3. ui' \in ChatApp /\ ui'.messages = m
    BY <2>1, <2>2, ChatPage DEF ChatApp
  <2>4. QED
    BY <1>1, <2>1, <2>2, <2>3, ChatEndStep
<1>3. CASE r.got # Failed
  <2> DEFINE m == Append(r.ask.messages, <<"answer", r.id>>)
             ask == [r.ask EXCEPT !.op = "save", !.messages = m]
             s == Chat!Request(sent + 1, ask)
  <2>1. ui' = [ui EXCEPT !.messages = m, !.files = {}] /\ Chat!Go(r, <<ask>>)
    BY <1>3 DEF Chat!ChatAnswered, Chat!Save
  <2>2. m \in ChatWhole /\ m \in ChatTranscript
    BY <1>1, ChatAnswerWhole DEF ChatWhole
  <2> HIDE DEF m
  <2>3. ui' \in ChatApp /\ ui'.messages = m /\ ui'.generating = ui.generating
    BY <2>1, <2>2, ChatPage DEF ChatApp
  <2>4. ui.generating
    BY <1>1 DEF ChatIInv, ChatExchangeInv
  <2>5. ask \in ChatAsks /\ ask.op = "save" /\ ask.messages = m
    BY <1>1, <2>2 DEF ChatAsks, ChatExchange
  <2> HIDE DEF ask
  <2>6. net' = (net \ {r}) \cup {s} /\ sent' = sent + 1 /\ server' = server
    BY <2>1, ChatOneAsk DEF Chat!Go, ChatOneRequest
  <2>7. s \in ChatSent /\ s.ask = ask /\ ~ChatAnswered(s)
    BY <2>5, ChatPage, ChatNewRequest
  <2> HIDE DEF s
  <2>8. ChatCarriesInv(s)
    BY <2>2, <2>5, <2>7 DEF ChatCarriesInv
  <2>9. ChatTypeInv'
    BY <2>3, <2>6, <2>7, ChatPage DEF ChatIInv, ChatTypeInv
  <2>10. \A p \in net' : ChatCarriesInv(p) /\ (ChatExchanging(p) => p = s)
    BY <1>1, <2>6, <2>8 DEF ChatIInv, ChatExchangeInv
  <2>11. ChatExchangeInv'
    BY <2>2, <2>3, <2>4, <2>10 DEF ChatExchangeInv, ChatExchanging
  <2>12. QED
    BY <2>9, <2>10, <2>11 DEF ChatIInv, ChatCarriesInv, ChatAnswered
<1>4. QED
  BY <1>2, <1>3

LEMMA ChatSessionSavedStep == ASSUME ChatIInv, NEW r \in net, Chat!SessionSaved(r) PROVE ChatIInv'
<1>1. r.ask.op = "save" /\ r.got # Waiting /\ ChatExchanging(r) /\ Chat!Done(r)
  BY DEF Chat!SessionSaved, Chat!Came, ChatExchanging
<1>2. r.id \in Int /\ r.ask.active \in ChatIds /\ (r.got # Failed => r.got \in ChatKept)
  BY <1>1, ChatFits, ChatFields DEF ChatCarriesInv, ChatAnswered
<1>3. ui.messages \in ChatWhole /\ ui.messages \in ChatTranscript
  BY <1>1, ChatPage DEF ChatIInv, ChatExchangeInv, ChatExchanging
<1>4. CASE r.got = Failed
  <2>1. ui' = [ui EXCEPT !.generating = FALSE, !.strayed = TRUE]
    BY <1>4 DEF Chat!SessionSaved
  <2>2. ui' \in ChatApp /\ ui'.messages = ui.messages
    BY <2>1, ChatPage DEF ChatApp
  <2>3. QED
    BY <1>1, <1>3, <2>2, ChatEndStep
<1>5. CASE r.got # Failed /\ r.ask.active = None
  <2> DEFINE f == Chat!Put(ui.sessions, r.id, r.got)
             id == r.id
             strayed == ui.strayed \/ r.acts # 0
  <2>1. ui' = [ui EXCEPT !.generating = FALSE, !.active = id, !.sessions = f, !.strayed = strayed]
    BY <1>5 DEF Chat!SessionSaved
  <2>2. f \in ChatSessions /\ id \in ChatIds /\ strayed \in BOOLEAN
    BY <1>2, <1>5, ChatPage, ChatPutKept DEF ChatIds
  <2> HIDE DEF f, id, strayed
  <2>3. ui' \in ChatApp /\ ui'.messages = ui.messages
    BY <2>1, <2>2, ChatPage DEF ChatApp
  <2>4. QED
    BY <1>1, <1>3, <2>3, ChatEndStep
<1>6. CASE r.got # Failed /\ r.ask.active # None
  <2> DEFINE f == IF r.ask.active \in DOMAIN ui.sessions THEN Chat!Put(ui.sessions, r.ask.active, r.got) ELSE ui.sessions
  <2>1. ui' = [ui EXCEPT !.generating = FALSE, !.sessions = f]
    BY <1>6 DEF Chat!SessionSaved
  <2>2. r.ask.active \in Int
    BY <1>2, <1>6 DEF ChatIds
  <2>3. f \in ChatSessions
    BY <1>2, <1>6, <2>2, ChatPage, ChatPutKept
  <2> HIDE DEF f
  <2>4. ui' \in ChatApp /\ ui'.messages = ui.messages
    BY <2>1, <2>3, ChatPage DEF ChatApp
  <2>5. QED
    BY <1>1, <1>3, <2>4, ChatEndStep
<1>7. QED
  BY <1>4, <1>5, <1>6
-----------------------------------------------------------------------------
(* Everything else. *)

LEMMA ChatBlankPage ==
    ASSUME NEW state \in ChatApp
    PROVE  Chat!Blank(state) \in ChatApp /\ Chat!Blank(state).messages \in ChatWhole /\ Chat!Blank(state).generating = state.generating
<1> DEFINE m == <<>>
<1>1. m \in ChatWhole /\ m \in ChatTranscript
  BY ChatEmptyWhole DEF ChatWhole
<1>2. Chat!Blank(state) = [state EXCEPT !.active = None, !.messages = m, !.files = {}, !.prompt = 0]
  BY DEF Chat!Blank
<1>3. None \in ChatIds /\ {} \in SUBSET Int /\ 0 \in Int
  BY DEF ChatIds
<1> HIDE DEF m
<1>4. QED
  BY <1>1, <1>2, <1>3 DEF ChatApp

LEMMA ChatStraysPage ==
    ASSUME ChatIInv, NEW state \in ChatApp
    PROVE  /\ Chat!Strays(state) \in ChatApp
           /\ Chat!Strays(state).messages = state.messages /\ Chat!Strays(state).generating = state.generating
<1> DEFINE strayed == state.strayed \/ ui.generating
<1>1. strayed \in BOOLEAN
  OBVIOUS
<1>2. Chat!Strays(state) = [state EXCEPT !.strayed = strayed]
  BY DEF Chat!Strays
<1> HIDE DEF strayed
<1>3. QED
  BY <1>1, <1>2 DEF ChatApp

LEMMA ChatLocalStep ==
    ASSUME ChatIInv, Chat!Clear \/ Chat!EditPrompt \/ Chat!NewSession \/ Chat!CancelRename \/ \E id : Chat!SelectSession(id) \/ Chat!StartRename(id)
    PROVE  ChatIInv'
<1>1. Chat!Local
  BY DEF Chat!Clear, Chat!EditPrompt, Chat!NewSession, Chat!CancelRename, Chat!SelectSession, Chat!StartRename
<1>2. <<>> \in ChatWhole /\ <<>> \in ChatTranscript
  BY ChatEmptyWhole DEF ChatWhole
<1>3. CASE Chat!Clear
  <2>1. ui' = [ui EXCEPT !.messages = <<>>, !.files = {}, !.strayed = TRUE]
    BY <1>3 DEF Chat!Clear
  <2>2. ChatUndisturbed
    BY <1>2, <2>1, ChatPage DEF ChatUndisturbed, ChatApp
  <2>3. QED
    BY <1>1, <2>2, ChatPlainLocal
<1>4. CASE Chat!EditPrompt
  <2> DEFINE prompt == 1 - ui.prompt
  <2>1. ui' = [ui EXCEPT !.prompt = prompt] /\ prompt \in Int
    BY <1>4, ChatPage DEF Chat!EditPrompt
  <2> HIDE DEF prompt
  <2>2. ChatUndisturbed
    BY <2>1, ChatPage DEF ChatUndisturbed, ChatApp
  <2>3. QED
    BY <1>1, <2>2, ChatPlainLocal
<1>5. CASE Chat!NewSession
  <2>1. ui' = Chat!Strays(Chat!Blank(ui))
    BY <1>5 DEF Chat!NewSession
  <2>2. ChatUndisturbed
    BY <2>1, ChatPage, ChatBlankPage, ChatStraysPage DEF ChatUndisturbed
  <2>3. QED
    BY <1>1, <2>2, ChatPlainLocal
<1>6. CASE Chat!CancelRename \/ \E id : Chat!StartRename(id)
  <2>1. PICK id \in ChatIds : ui' = [ui EXCEPT !.renaming = id]
    BY <1>6, ChatPage, ChatSessionsKept DEF Chat!CancelRename, Chat!StartRename, Chat!Listed, ChatIds
  <2>2. ChatUndisturbed
    BY <2>1, ChatPage DEF ChatUndisturbed, ChatApp
  <2>3. QED
    BY <1>1, <2>2, ChatPlainLocal
<1>7. CASE \E id : Chat!SelectSession(id)
  <2>1. PICK id \in DOMAIN ui.sessions :
            ui' = Chat!Strays([ui EXCEPT !.active = id, !.messages = ui.sessions[id].messages,
                                    !.files = ui.sessions[id].files, !.prompt = ui.sessions[id].prompt])
    BY <1>7 DEF Chat!SelectSession, Chat!Listed
  <2> DEFINE m == ui.sessions[id].messages
             files == ui.sessions[id].files
             prompt == ui.sessions[id].prompt
             state == [ui EXCEPT !.active = id, !.messages = m, !.files = files, !.prompt = prompt]
  <2>2. ui.sessions[id] \in ChatKept /\ id \in ChatIds
    BY ChatPage, ChatSessionsKept DEF ChatIds
  <2>3. m \in ChatWhole /\ m \in ChatTranscript /\ files \in SUBSET Int /\ prompt \in Int
    BY <2>2 DEF ChatKept, ChatWhole
  <2>4. ui' = Chat!Strays(state)
    BY <2>1
  <2> HIDE DEF m, files, prompt
  <2>5. state \in ChatApp /\ state.messages = m /\ state.generating = ui.generating
    BY <2>2, <2>3, ChatPage DEF ChatApp
  <2> HIDE DEF state
  <2>6. ChatUndisturbed
    BY <2>3, <2>4, <2>5, ChatStraysPage DEF ChatUndisturbed
  <2>7. QED
    BY <1>1, <2>6, ChatPlainLocal
<1>8. QED
  BY <1>3, <1>4, <1>5, <1>6, <1>7

LEMMA ChatStill == ASSUME ChatIInv, ui' = ui PROVE ChatUndisturbed
  BY ChatPage DEF ChatUndisturbed

LEMMA ChatSendStep ==
    ASSUME ChatIInv, \/ Chat!ConfirmRename
                 \/ \E id : Chat!DeleteSession(id)
                 \/ \E n \in 1 .. 2 : Chat!AttachFiles(n)
                 \/ \E f \in ui.files : Chat!RemoveAttachment(f)
    PROVE  ChatIInv'
<1>1. CASE Chat!ConfirmRename
  <2> DEFINE ask == [op |-> "rename", active |-> ui.renaming]
  <2>1. ui' = [ui EXCEPT !.renaming = None] /\ Chat!Send(<<ask>>)
    BY <1>1 DEF Chat!ConfirmRename
  <2>2. ChatUndisturbed
    BY <2>1, ChatPage DEF ChatUndisturbed, ChatApp, ChatIds
  <2>3. ask \in ChatAsks /\ ask.op \notin {"chat", "save"}
    BY ChatPage DEF ChatAsks
  <2> HIDE DEF ask
  <2>4. QED
    BY <2>1, <2>2, <2>3, ChatPlainSend
<1>2. CASE \E id : Chat!DeleteSession(id)
  <2>1. PICK id : Chat!DeleteSession(id)
    BY <1>2
  <2> DEFINE ask == [op |-> "delete", active |-> id, shown |-> ui.active]
  <2>2. id \in ChatIds /\ ui' = ui /\ Chat!Send(<<ask>>)
    BY <2>1, ChatPage, ChatSessionsKept DEF Chat!DeleteSession, Chat!Listed, ChatIds
  <2>3. ask \in ChatAsks /\ ask.op \notin {"chat", "save"}
    BY <2>2, ChatPage DEF ChatAsks
  <2> HIDE DEF ask
  <2>4. QED
    BY <2>2, <2>3, ChatStill, ChatPlainSend
<1>3. CASE \E n \in 1 .. 2 : Chat!AttachFiles(n)
  <2>1. PICK n \in 1 .. 2 : Chat!AttachFiles(n)
    BY <1>3
  <2> DEFINE ask == [op |-> "upload", left |-> n]
  <2>2. ui' = [ui EXCEPT !.uploading = TRUE] /\ Chat!Send(<<ask>>)
    BY <2>1 DEF Chat!AttachFiles
  <2>3. ChatUndisturbed
    BY <2>2, ChatPage DEF ChatUndisturbed, ChatApp
  <2>4. ask \in ChatAsks /\ ask.op \notin {"chat", "save"}
    BY DEF ChatAsks
  <2> HIDE DEF ask
  <2>5. QED
    BY <2>2, <2>3, <2>4, ChatPlainSend
<1>4. CASE \E f \in ui.files : Chat!RemoveAttachment(f)
  <2>1. PICK f \in ui.files : Chat!RemoveAttachment(f)
    BY <1>4
  <2> DEFINE ask == [op |-> "unattach", file |-> f]
  <2>2. ui' = ui /\ Chat!Send(<<ask>>)
    BY <2>1 DEF Chat!RemoveAttachment
  <2>3. ask \in ChatAsks /\ ask.op \notin {"chat", "save"}
    BY ChatPage DEF ChatAsks
  <2> HIDE DEF ask
  <2>4. QED
    BY <2>2, <2>3, ChatStill, ChatPlainSend
<1>5. QED
  BY <1>1, <1>2, <1>3, <1>4

\* The list of sessions with one of them renamed, or all of them replaced.
LEMMA ChatListChanged ==
    ASSUME ChatIInv, NEW f \in ChatSessions, ui' = [ui EXCEPT !.sessions = f]
    PROVE  ChatUndisturbed
  BY ChatPage DEF ChatUndisturbed, ChatApp

LEMMA ChatAnswerStep ==
    ASSUME ChatIInv, NEW r \in net,
           Chat!SessionsFetched(r) \/ Chat!Renamed(r) \/ Chat!SessionDeleted(r) \/ Chat!Uploaded(r) \/ Chat!AttachmentRemoved(r)
    PROVE  ChatIInv'
<1>1. ~ChatExchanging(r) /\ r.got # Waiting
  BY DEF Chat!SessionsFetched, Chat!Renamed, Chat!SessionDeleted, Chat!Uploaded, Chat!AttachmentRemoved, Chat!Came, ChatExchanging
<1> DEFINE other == [op |-> "sessions"]
<1>2. other \in ChatAsks /\ other.op \notin {"chat", "save"}
  BY DEF ChatAsks
<1> HIDE DEF other
<1>3. ASSUME Chat!Done(r), ChatUndisturbed PROVE ChatIInv'
  BY <1>1, <1>2, <1>3, ChatPlainGo
<1>4. CASE Chat!SessionsFetched(r)
  <2>1. Chat!Done(r) /\ r.ask.op = "sessions"
    BY <1>4 DEF Chat!SessionsFetched, Chat!Came
  <2>2. CASE r.got = Failed
    <3>1. ui' = [ui EXCEPT !.strayed = TRUE]
      BY <1>4, <2>2 DEF Chat!SessionsFetched
    <3>2. QED
      BY <1>3, <2>1, <3>1, ChatPage DEF ChatUndisturbed, ChatApp
  <2>3. CASE r.got # Failed
    <3>1. ui' = [ui EXCEPT !.sessions = r.got]
      BY <1>4, <2>3 DEF Chat!SessionsFetched
    <3>2. r.got \in ChatSessions
      BY <1>1, <2>1, <2>3, ChatFits DEF ChatCarriesInv, ChatAnswered
    <3>3. QED
      BY <1>3, <2>1, <3>1, <3>2, ChatListChanged
  <2>4. QED
    BY <2>2, <2>3
<1>5. CASE Chat!Renamed(r)
  <2>1. Chat!Done(r)
    BY <1>5 DEF Chat!Renamed
  <2>2. CASE r.got = Failed \/ r.ask.active \notin DOMAIN ui.sessions
    BY <1>3, <1>5, <2>1, <2>2, ChatStill DEF Chat!Renamed
  <2>3. CASE ~(r.got = Failed \/ r.ask.active \notin DOMAIN ui.sessions)
    <3> DEFINE f == [ui.sessions EXCEPT ![r.ask.active].name = "renamed"]
    <3>1. ui' = [ui EXCEPT !.sessions = f]
      BY <1>5, <2>3 DEF Chat!Renamed
    <3>2. f \in ChatSessions
      BY <2>3, ChatPage, ChatRenamedKept
    <3> HIDE DEF f
    <3>3. QED
      BY <1>3, <2>1, <3>1, <3>2, ChatListChanged
  <2>4. QED
    BY <2>2, <2>3
<1>6. CASE Chat!SessionDeleted(r)
  <2> DEFINE f == Chat!Drop(ui.sessions, r.ask.active)
             rest == [ui EXCEPT !.sessions = f]
             strayed == rest.strayed \/ ui.active = r.ask.active
  <2>1. f \in ChatSessions
    BY ChatPage, ChatDropKept
  <2>2. rest \in ChatApp /\ rest.messages = ui.messages /\ rest.generating = ui.generating
    <3> HIDE DEF f
    <3>1. QED
      BY <2>1, ChatPage DEF ChatApp
  <2>3. Chat!Done(r)
    BY <1>6 DEF Chat!SessionDeleted
  <2>4. \/ ui' = ui
        \/ ui' = Chat!Strays(Chat!Blank(rest))
        \/ ui' = [rest EXCEPT !.strayed = strayed]
    BY <1>6 DEF Chat!SessionDeleted
  <2>5. strayed \in BOOLEAN
    OBVIOUS
  <2> HIDE DEF rest, strayed
  <2>6. CASE ui' = ui
    BY <1>3, <2>3, <2>6, ChatStill
  <2>7. CASE ui' = Chat!Strays(Chat!Blank(rest))
    <3>1. ChatUndisturbed
      BY <2>2, <2>7, ChatBlankPage, ChatStraysPage DEF ChatUndisturbed
    <3>2. QED
      BY <1>3, <2>3, <3>1
  <2>8. CASE ui' = [rest EXCEPT !.strayed = strayed]
    <3>1. ChatUndisturbed
      BY <2>2, <2>5, <2>8 DEF ChatUndisturbed, ChatApp
    <3>2. QED
      BY <1>3, <2>3, <3>1
  <2>9. QED
    BY <2>4, <2>6, <2>7, <2>8
<1>7. CASE Chat!Uploaded(r)
  <2> DEFINE files == IF r.got = Failed THEN ui.files ELSE ui.files \cup {r.id}
             more == r.ask.left > 1
             ask == [op |-> "upload", left |-> r.ask.left - 1]
  <2>1. r.ask.op = "upload"
    BY <1>7 DEF Chat!Uploaded, Chat!Came
  <2>2. r.id \in Int /\ r.ask.left \in Int
    BY <2>1, ChatFits, ChatFields
  <2>3. ui' = [ui EXCEPT !.files = files, !.uploading = more]
    BY <1>7 DEF Chat!Uploaded
  <2>4. files \in SUBSET Int /\ more \in BOOLEAN
    BY <2>2, ChatPage
  <2>5. Chat!Done(r) \/ Chat!Go(r, <<ask>>)
    BY <1>7 DEF Chat!Uploaded, Chat!Done
  <2>6. ask \in ChatAsks /\ ask.op \notin {"chat", "save"}
    BY <2>2 DEF ChatAsks
  <2> HIDE DEF files, more, ask
  <2>7. ChatUndisturbed
    BY <2>3, <2>4, ChatPage DEF ChatUndisturbed, ChatApp
  <2>8. QED
    BY <1>1, <2>5, <2>6, <2>7, ChatPlainGo
<1>8. CASE Chat!AttachmentRemoved(r)
  <2> DEFINE files == ui.files \ {r.ask.file}
  <2>1. ui' = [ui EXCEPT !.files = files] /\ Chat!Done(r)
    BY <1>8 DEF Chat!AttachmentRemoved
  <2>2. files \in SUBSET Int
    BY ChatPage
  <2> HIDE DEF files
  <2>3. ChatUndisturbed
    BY <2>1, <2>2, ChatPage DEF ChatUndisturbed, ChatApp
  <2>4. QED
    BY <1>3, <2>1, <2>3
<1>9. QED
  BY <1>4, <1>5, <1>6, <1>7, <1>8
-----------------------------------------------------------------------------
LEMMA ChatNextIInv == ASSUME ChatIInv, [Chat!Next]_(Chat!vars) PROVE ChatIInv'
<1>1. CASE Chat!Clear \/ Chat!EditPrompt \/ Chat!NewSession \/ Chat!CancelRename
           \/ \E id \in 0 .. MaxRequests : Chat!SelectSession(id) \/ Chat!StartRename(id)
  BY <1>1, ChatLocalStep
<1>2. CASE \/ Chat!ConfirmRename \/ (\E id \in 0 .. MaxRequests : Chat!DeleteSession(id))
           \/ (\E n \in 1 .. 2 : Chat!AttachFiles(n)) \/ (\E f \in ui.files : Chat!RemoveAttachment(f))
  BY <1>2, ChatSendStep
<1>3. CASE Chat!SendMessage
  BY <1>3, ChatSendMessageStep
<1>4. CASE \E r \in net : Chat!ChatAnswered(r)
  BY <1>4, ChatAnsweredStep
<1>5. CASE \E r \in net : Chat!SessionSaved(r)
  BY <1>5, ChatSessionSavedStep
<1>6. CASE \E r \in net : Chat!SessionsFetched(r) \/ Chat!Renamed(r) \/ Chat!SessionDeleted(r) \/ Chat!Uploaded(r) \/ Chat!AttachmentRemoved(r)
  BY <1>6, ChatAnswerStep
<1>7. CASE Chat!Serve(Chat!Refused, Chat!Effect, Chat!Reply) \/ Chat!Repeat(Chat!Refused, Chat!Effect)
  BY <1>7, ChatServeStep
<1>8. CASE UNCHANGED Chat!vars
  BY <1>8 DEF Chat!vars, ChatIInv, ChatTypeInv, ChatCarriesInv, ChatAnswered, ChatExchangeInv, ChatExchanging
<1>9. QED
  BY <1>1, <1>2, <1>3, <1>4, <1>5, <1>6, <1>7, <1>8 DEF Chat!Next
-----------------------------------------------------------------------------
(* What the page refers to was sent, and what it waits for is under way. *)

ChatWithin(f, n) == DOMAIN f \subseteq 0 .. n /\ \A x \in DOMAIN f : f[x].files \subseteq 1 .. n
ChatShows(state, n) ==
    state.files \subseteq 1 .. n /\ state.active \in (0 .. n) \cup {None} /\ ChatWithin(state.sessions, n)
ChatAskWithin(ask, n) ==
    ask.op \in {"chat", "save"} => ask.files \subseteq 1 .. n /\ ask.active \in (0 .. n) \cup {None}
ChatGotWithin(r, n) ==
    /\ r.ask.op = "sessions" /\ ChatAnswered(r) => ChatWithin(r.got, n)
    /\ r.ask.op = "save" /\ ChatAnswered(r) => r.got.files \subseteq 1 .. n
ChatBoundsInv ==
    /\ ChatShows(ui, sent) /\ ChatWithin(server.sessions, sent)
    /\ \A r \in net : r.id \in 1 .. sent /\ ChatAskWithin(r.ask, sent) /\ ChatGotWithin(r, sent)
ChatWaitsInv ==
    /\ ui.generating => \E r \in net : r.ask.op \in {"chat", "save"}
    /\ ui.uploading => \E r \in net : r.ask.op = "upload"

LEMMA ChatInitTail == Chat!Init => ChatBoundsInv /\ ChatWaitsInv
<1> SUFFICES ASSUME Chat!Init PROVE ChatBoundsInv /\ ChatWaitsInv
  OBVIOUS
<1> DEFINE m == << <<"prompt", 0>>, <<"answer", 0>> >>
           past == [s \in {0} |-> Chat!Session("auto", m, {}, 1)]
<1>1. /\ ui = [sessions |-> Chat!Empty, active |-> None, messages |-> <<>>, files |-> {}, prompt |-> 0,
               generating |-> FALSE, uploading |-> FALSE, renaming |-> None, strayed |-> FALSE]
      /\ server = [sessions |-> past] /\ net = {Chat!Request(1, [op |-> "sessions"])} /\ sent = 1
  BY DEF Chat!Init, Chat!Started
<1>2. ChatWithin(Chat!Empty, 1)
  BY DEF Chat!Empty, ChatWithin
<1>3. ChatWithin(past, 1)
  BY DEF ChatWithin, Chat!Session
<1> HIDE DEF past
<1>4. ChatShows(ui, sent) /\ ChatWithin(server.sessions, sent)
  BY <1>1, <1>2, <1>3 DEF ChatShows
<1>5. \A r \in net : r.id \in 1 .. sent /\ ChatAskWithin(r.ask, sent) /\ ChatGotWithin(r, sent)
  BY <1>1 DEF Chat!Request, ChatAskWithin, ChatGotWithin, ChatAnswered
<1> QED
  BY <1>1, <1>4, <1>5 DEF ChatBoundsInv, ChatWaitsInv

LEMMA ChatAsks1 ==
    ASSUME NEW ask
    PROVE  /\ Chat!Send(<<ask>>) => net' = net \cup {NewRequest(sent, ask)} /\ sent' = sent + 1 /\ UNCHANGED server
           /\ \A r : Chat!Go(r, <<ask>>) =>
                net' = (net \ {r}) \cup {NewRequest(sent, ask)} /\ sent' = sent + 1 /\ UNCHANGED server
<1>1. Chat!Requests(<<ask>>) = {NewRequest(sent, ask)} /\ Len(<<ask>>) = 1
  BY OneAsked DEF Chat!Requests, Chat!Request
<1> QED
  BY <1>1 DEF Chat!Send, Chat!Go

LEMMA ChatEnds ==
    ASSUME NEW r, sent \in Nat, Chat!Done(r)
    PROVE  net' = net \ {r} /\ UNCHANGED <<sent, server>>
<1>1. Chat!Requests(<<>>) = {} /\ Len(<<>>) = 0
  BY NoneAsked DEF Chat!Requests, Chat!Request
<1> QED
  BY <1>1 DEF Chat!Done, Chat!Go

LEMMA ChatSmaller ==
    ASSUME NEW n \in Nat, NEW k \in Nat, n <= k
    PROVE  /\ \A f : ChatWithin(f, n) => ChatWithin(f, k)
           /\ \A state : ChatShows(state, n) => ChatShows(state, k)
           /\ \A ask : ChatAskWithin(ask, n) => ChatAskWithin(ask, k)
           /\ \A r : ChatGotWithin(r, n) => ChatGotWithin(r, k)
<1>1. 1 .. n \subseteq 1 .. k /\ 0 .. n \subseteq 0 .. k
  OBVIOUS
<1>2. \A f : ChatWithin(f, n) => ChatWithin(f, k)
  BY <1>1 DEF ChatWithin
<1> QED
  BY <1>1, <1>2 DEF ChatShows, ChatAskWithin, ChatGotWithin

\* A handler: it takes requests from the network, or sends one that says what
\* the page shows.
LEMMA ChatBoundsStep ==
    ASSUME ChatIInv, ChatBoundsInv, NEW ask, ChatAskWithin(ask, sent), server' = server,
           \/ net' \subseteq net /\ sent' = sent
           \/ net' \subseteq net \cup {NewRequest(sent, ask)} /\ sent' = sent + 1,
           ChatShows(ui', sent)
    PROVE  ChatBoundsInv'
<1>1. sent \in Nat /\ sent' \in Nat /\ sent <= sent'
  BY DEF ChatIInv, ChatTypeInv
<1>2. /\ ChatShows(ui', sent') /\ ChatWithin(server'.sessions, sent') /\ ChatAskWithin(ask, sent')
      /\ \A r \in net : r.id \in 1 .. sent' /\ ChatAskWithin(r.ask, sent') /\ ChatGotWithin(r, sent')
  BY <1>1, ChatSmaller DEF ChatBoundsInv
<1>3. /\ NewRequest(sent, ask).ask = ask /\ NewRequest(sent, ask).id = sent + 1
      /\ ChatGotWithin(NewRequest(sent, ask), sent')
  BY DEF NewRequest, ChatGotWithin, ChatAnswered
<1>4. \A r \in net' : r.id \in 1 .. sent' /\ ChatAskWithin(r.ask, sent') /\ ChatGotWithin(r, sent')
  BY <1>1, <1>2, <1>3
<1> QED
  BY <1>2, <1>4 DEF ChatBoundsInv, ChatShows, ChatWithin, ChatAskWithin, ChatGotWithin, ChatAnswered

LEMMA ChatPutWithin ==
    ASSUME NEW f, NEW k, NEW v, NEW n, ChatWithin(f, n), k \in 0 .. n, v.files \subseteq 1 .. n
    PROVE  ChatWithin(Chat!Put(f, k, v), n)
BY DEF ChatWithin, Chat!Put

LEMMA ChatDropWithin ==
    ASSUME NEW f, NEW k, NEW n, ChatWithin(f, n)
    PROVE  ChatWithin(Chat!Drop(f, k), n)
BY DEF ChatWithin, Chat!Drop

LEMMA ChatRenamedWithin ==
    ASSUME NEW f \in ChatSessions, NEW k \in DOMAIN f, NEW n, ChatWithin(f, n)
    PROVE  ChatWithin([f EXCEPT ![k].name = "renamed"], n)
<1> DEFINE v == [f[k] EXCEPT !.name = "renamed"]
           g == [f EXCEPT ![k] = v]
<1>1. v.files = f[k].files
  BY ChatSessionsKept DEF ChatKept
<1>2. g = [f EXCEPT ![k].name = "renamed"]
  OBVIOUS
<1> HIDE DEF v
<1>3. ChatWithin(g, n)
  BY <1>1 DEF ChatWithin
<1> QED
  BY <1>2, <1>3

\* The page the handlers change: what is kept of it.
LEMMA ChatStraysShows ==
    ASSUME ChatIInv, NEW state \in ChatApp
    PROVE  /\ Chat!Strays(state) \in ChatApp /\ Chat!Strays(state).files = state.files
           /\ Chat!Strays(state).active = state.active /\ Chat!Strays(state).sessions = state.sessions
           /\ Chat!Strays(state).generating = state.generating /\ Chat!Strays(state).uploading = state.uploading
<1> DEFINE strayed == state.strayed \/ ui.generating
<1>1. strayed \in BOOLEAN
  OBVIOUS
<1>2. Chat!Strays(state) = [state EXCEPT !.strayed = strayed]
  BY DEF Chat!Strays
<1> HIDE DEF strayed
<1> QED
  BY <1>1, <1>2 DEF ChatApp

LEMMA ChatBlankShows ==
    ASSUME NEW state \in ChatApp
    PROVE  /\ Chat!Blank(state).files = {} /\ Chat!Blank(state).active = None
           /\ Chat!Blank(state).sessions = state.sessions
           /\ Chat!Blank(state).generating = state.generating /\ Chat!Blank(state).uploading = state.uploading
BY DEF Chat!Blank, ChatApp

LEMMA ChatLocalTail ==
    ASSUME ChatIInv, ChatBoundsInv, ChatWaitsInv,
           Chat!Clear \/ Chat!EditPrompt \/ Chat!NewSession \/ Chat!CancelRename \/ \E id : Chat!SelectSession(id) \/ Chat!StartRename(id)
    PROVE  ChatBoundsInv' /\ ChatWaitsInv'
<1>1. Chat!Local
  BY DEF Chat!Clear, Chat!EditPrompt, Chat!NewSession, Chat!CancelRename, Chat!SelectSession, Chat!StartRename
<1>2. ui \in ChatApp /\ ChatShows(ui, sent)
  BY ChatPage DEF ChatBoundsInv
<1>3. ui'.generating = ui.generating /\ ui'.uploading = ui.uploading /\ ChatShows(ui', sent)
  <2>1. CASE Chat!Clear
    <3>1. /\ ui'.generating = ui.generating /\ ui'.uploading = ui.uploading /\ ui'.files = {}
          /\ ui'.active = ui.active /\ ui'.sessions = ui.sessions
      BY <1>2, <2>1 DEF Chat!Clear, ChatApp
    <3> QED
      BY <1>2, <3>1 DEF ChatShows
  <2>2. CASE Chat!EditPrompt \/ Chat!CancelRename \/ \E id : Chat!StartRename(id)
    <3>1. /\ ui'.generating = ui.generating /\ ui'.uploading = ui.uploading /\ ui'.files = ui.files
          /\ ui'.active = ui.active /\ ui'.sessions = ui.sessions
      BY <1>2, <2>2 DEF Chat!EditPrompt, Chat!CancelRename, Chat!StartRename, ChatApp
    <3> QED
      BY <1>2, <3>1 DEF ChatShows
  <2>3. CASE Chat!NewSession
    <3>1. ui' = Chat!Strays(Chat!Blank(ui))
      BY <2>3 DEF Chat!NewSession
    <3>2. /\ ui'.generating = ui.generating /\ ui'.uploading = ui.uploading /\ ui'.files = {}
          /\ ui'.active = None /\ ui'.sessions = ui.sessions
      BY <1>2, <3>1, ChatBlankPage, ChatBlankShows, ChatStraysShows
    <3> QED
      BY <1>2, <3>2 DEF ChatShows
  <2>4. CASE \E id : Chat!SelectSession(id)
    <3>1. PICK id \in DOMAIN ui.sessions :
              ui' = Chat!Strays([ui EXCEPT !.active = id, !.messages = ui.sessions[id].messages,
                                           !.files = ui.sessions[id].files, !.prompt = ui.sessions[id].prompt])
      BY <2>4 DEF Chat!SelectSession, Chat!Listed
    <3> DEFINE m == ui.sessions[id].messages
               files == ui.sessions[id].files
               prompt == ui.sessions[id].prompt
               state == [ui EXCEPT !.active = id, !.messages = m, !.files = files, !.prompt = prompt]
    <3>2. ui.sessions[id] \in ChatKept /\ id \in ChatIds
      BY ChatPage, ChatSessionsKept DEF ChatIds
    <3>3. m \in ChatTranscript /\ files \in SUBSET Int /\ prompt \in Int
      BY <3>2 DEF ChatKept, ChatWhole
    <3>4. files \subseteq 1 .. sent /\ id \in 0 .. sent
      BY <1>2 DEF ChatShows, ChatWithin
    <3>5. ui' = Chat!Strays(state)
      BY <3>1
    <3> HIDE DEF m, files, prompt
    <3>6. /\ state \in ChatApp /\ state.generating = ui.generating /\ state.uploading = ui.uploading
          /\ state.files = files /\ state.active = id /\ state.sessions = ui.sessions
      BY <1>2, <3>2, <3>3 DEF ChatApp
    <3> HIDE DEF state
    <3>7. /\ ui'.generating = ui.generating /\ ui'.uploading = ui.uploading
          /\ ui'.files = files /\ ui'.active = id /\ ui'.sessions = ui.sessions
      BY <3>5, <3>6, ChatStraysShows
    <3> QED
      BY <1>2, <3>4, <3>7 DEF ChatShows
  <2> QED
    BY <2>1, <2>2, <2>3, <2>4
<1>4. ChatAskWithin([op |-> "sessions"], sent)
  BY DEF ChatAskWithin
<1>5. net' = net /\ sent' = sent /\ server' = server
  BY <1>1 DEF Chat!Local
<1>6. ChatBoundsInv'
  BY <1>3, <1>4, <1>5, ChatBoundsStep
<1> QED
  BY <1>3, <1>5, <1>6 DEF ChatWaitsInv

LEMMA ChatSendTail ==
    ASSUME ChatIInv, ChatBoundsInv, ChatWaitsInv,
           \/ Chat!SendMessage
           \/ Chat!ConfirmRename
           \/ \E id : Chat!DeleteSession(id)
           \/ \E n \in 1 .. 2 : Chat!AttachFiles(n)
           \/ \E f \in ui.files : Chat!RemoveAttachment(f)
    PROVE  ChatBoundsInv' /\ ChatWaitsInv'
<1>1. ui \in ChatApp /\ ChatShows(ui, sent)
  BY ChatPage DEF ChatBoundsInv
<1>2. CASE Chat!SendMessage
  <2> DEFINE m == Append(ui.messages, <<"prompt", sent + 1>>)
             ask == [op |-> "chat", messages |-> m, files |-> ui.files, active |-> ui.active, prompt |-> ui.prompt]
  <2>1. ui' = [ui EXCEPT !.messages = m, !.generating = TRUE] /\ Chat!Send(<<ask>>)
    BY <1>2 DEF Chat!SendMessage, Chat!Chat
  <2>2. ask.op = "chat" /\ ask.files = ui.files /\ ask.active = ui.active
    OBVIOUS
  <2> HIDE DEF m, ask
  <2>3. net' = net \cup {NewRequest(sent, ask)} /\ sent' = sent + 1 /\ server' = server /\ NewRequest(sent, ask).ask = ask
    BY <2>1, ChatAsks1 DEF NewRequest
  <2>4. ui'.uploading = ui.uploading /\ ui'.files = ui.files /\ ui'.active = ui.active /\ ui'.sessions = ui.sessions
    BY <1>1, <2>1 DEF ChatApp
  <2>5. ChatShows(ui', sent) /\ ChatAskWithin(ask, sent)
    BY <1>1, <2>2, <2>4 DEF ChatShows, ChatAskWithin
  <2>6. ChatBoundsInv'
    BY <2>3, <2>5, ChatBoundsStep
  <2> QED
    BY <2>2, <2>3, <2>4, <2>6 DEF ChatWaitsInv
<1>3. CASE Chat!ConfirmRename \/ \E id : Chat!DeleteSession(id)
  <2>1. PICK ask : /\ ask.op \in {"rename", "delete"} /\ Chat!Send(<<ask>>)
                   /\ ui' \in {ui, [ui EXCEPT !.renaming = None]}
    BY <1>3 DEF Chat!ConfirmRename, Chat!DeleteSession
  <2>2. net' = net \cup {NewRequest(sent, ask)} /\ sent' = sent + 1 /\ server' = server
    BY <2>1, ChatAsks1
  <2>3. /\ ui'.uploading = ui.uploading /\ ui'.files = ui.files /\ ui'.active = ui.active /\ ui'.sessions = ui.sessions
        /\ ui'.generating = ui.generating
    BY <1>1, <2>1 DEF ChatApp
  <2>4. ChatShows(ui', sent) /\ ChatAskWithin(ask, sent)
    BY <1>1, <2>1, <2>3 DEF ChatShows, ChatAskWithin
  <2>5. ChatBoundsInv'
    BY <2>2, <2>4, ChatBoundsStep
  <2> QED
    BY <2>2, <2>3, <2>5 DEF ChatWaitsInv
<1>4. CASE \E n \in 1 .. 2 : Chat!AttachFiles(n)
  <2>1. PICK n \in 1 .. 2 : Chat!AttachFiles(n)
    BY <1>4
  <2> DEFINE ask == [op |-> "upload", left |-> n]
  <2>2. ui' = [ui EXCEPT !.uploading = TRUE] /\ Chat!Send(<<ask>>) /\ ask.op = "upload"
    BY <2>1 DEF Chat!AttachFiles
  <2> HIDE DEF ask
  <2>3. net' = net \cup {NewRequest(sent, ask)} /\ sent' = sent + 1 /\ server' = server /\ NewRequest(sent, ask).ask = ask
    BY <2>2, ChatAsks1 DEF NewRequest
  <2>4. ui'.generating = ui.generating /\ ui'.files = ui.files /\ ui'.active = ui.active /\ ui'.sessions = ui.sessions
    BY <1>1, <2>2 DEF ChatApp
  <2>5. ChatShows(ui', sent) /\ ChatAskWithin(ask, sent)
    BY <1>1, <2>2, <2>4 DEF ChatShows, ChatAskWithin
  <2>6. ChatBoundsInv'
    BY <2>3, <2>5, ChatBoundsStep
  <2> QED
    BY <2>2, <2>3, <2>4, <2>6 DEF ChatWaitsInv
<1>5. CASE \E f \in ui.files : Chat!RemoveAttachment(f)
  <2>1. PICK f \in ui.files : Chat!RemoveAttachment(f)
    BY <1>5
  <2> DEFINE ask == [op |-> "unattach", file |-> f]
  <2>2. ui' = ui /\ Chat!Send(<<ask>>) /\ ask.op = "unattach"
    BY <2>1 DEF Chat!RemoveAttachment
  <2> HIDE DEF ask
  <2>3. net' = net \cup {NewRequest(sent, ask)} /\ sent' = sent + 1 /\ server' = server
    BY <2>2, ChatAsks1
  <2>4. ChatShows(ui', sent) /\ ChatAskWithin(ask, sent)
    BY <1>1, <2>2 DEF ChatAskWithin
  <2>5. ChatBoundsInv'
    BY <2>3, <2>4, ChatBoundsStep
  <2> QED
    BY <2>2, <2>3, <2>5 DEF ChatWaitsInv
<1> QED
  BY <1>2, <1>3, <1>4, <1>5

\* What is known of an answered request.
LEMMA ChatAnsweredWithin ==
    ASSUME ChatIInv, ChatBoundsInv, NEW r \in net
    PROVE  r \in ChatSent /\ ChatCarriesInv(r) /\ r.id \in 1 .. sent /\ ChatAskWithin(r.ask, sent) /\ ChatGotWithin(r, sent)
BY ChatFits DEF ChatBoundsInv

LEMMA ChatExchangeTail ==
    ASSUME ChatIInv, ChatBoundsInv, ChatWaitsInv, NEW r \in net, Chat!ChatAnswered(r) \/ Chat!SessionSaved(r)
    PROVE  ChatBoundsInv' /\ ChatWaitsInv'
<1>1. ui \in ChatApp /\ ChatShows(ui, sent) /\ sent \in Nat /\ server.sessions \in ChatSessions
  BY ChatPage DEF ChatBoundsInv, ChatIInv, ChatTypeInv
<1>2. r \in ChatSent /\ ChatCarriesInv(r) /\ r.id \in 1 .. sent /\ ChatAskWithin(r.ask, sent) /\ ChatGotWithin(r, sent)
  BY ChatAnsweredWithin
<1>3. r.ask.op \in {"chat", "save"} /\ r.ask \in ChatExchange
  BY <1>2, ChatFields DEF Chat!ChatAnswered, Chat!SessionSaved, Chat!Came, ChatExchanging
<1>4. CASE Chat!ChatAnswered(r) /\ r.got # Failed
  <2> DEFINE m == Append(r.ask.messages, <<"answer", r.id>>)
             ask == [r.ask EXCEPT !.op = "save", !.messages = m]
  <2>1. ui' = [ui EXCEPT !.messages = m, !.files = {}] /\ Chat!Go(r, <<ask>>) /\ r.ask.op = "chat"
    BY <1>4 DEF Chat!ChatAnswered, Chat!Save, Chat!Came
  <2>2. ask.op = "save" /\ ask.files = r.ask.files /\ ask.active = r.ask.active
    BY <1>3 DEF ChatExchange
  <2> HIDE DEF m, ask
  <2>3. /\ net' = (net \ {r}) \cup {NewRequest(sent, ask)} /\ sent' = sent + 1 /\ server' = server
        /\ NewRequest(sent, ask).ask = ask
    BY <2>1, ChatAsks1 DEF NewRequest
  <2>4. /\ ui'.uploading = ui.uploading /\ ui'.files = {} /\ ui'.active = ui.active /\ ui'.sessions = ui.sessions
    BY <1>1, <2>1 DEF ChatApp
  <2>5. ChatShows(ui', sent) /\ ChatAskWithin(ask, sent)
    BY <1>1, <1>2, <1>3, <2>2, <2>4 DEF ChatShows, ChatAskWithin
  <2>6. ChatBoundsInv'
    BY <2>3, <2>5, ChatBoundsStep
  <2> QED
    BY <2>1, <2>2, <2>3, <2>4, <2>6 DEF ChatWaitsInv
<1>5. CASE \/ Chat!ChatAnswered(r) /\ r.got = Failed
           \/ Chat!SessionSaved(r)
  <2>1. net' = net \ {r} /\ sent' = sent /\ server' = server
    BY <1>1, <1>5, ChatEnds DEF Chat!ChatAnswered, Chat!SessionSaved
  <2>2. ui'.generating = FALSE /\ ui'.uploading = ui.uploading /\ ChatShows(ui', sent)
    <3>1. CASE Chat!ChatAnswered(r) /\ r.got = Failed
      <4> DEFINE m == Append(r.ask.messages, <<"error", r.id>>)
      <4>1. ui' = [ui EXCEPT !.messages = m, !.generating = FALSE, !.strayed = TRUE]
        BY <3>1 DEF Chat!ChatAnswered
      <4> HIDE DEF m
      <4>2. /\ ui'.generating = FALSE /\ ui'.uploading = ui.uploading /\ ui'.files = ui.files
            /\ ui'.active = ui.active /\ ui'.sessions = ui.sessions
        BY <1>1, <4>1 DEF ChatApp
      <4> QED
        BY <1>1, <4>2 DEF ChatShows
    <3>2. CASE Chat!SessionSaved(r) /\ r.got = Failed
      <4>1. ui' = [ui EXCEPT !.generating = FALSE, !.strayed = TRUE]
        BY <3>2 DEF Chat!SessionSaved
      <4>2. /\ ui'.generating = FALSE /\ ui'.uploading = ui.uploading /\ ui'.files = ui.files
            /\ ui'.active = ui.active /\ ui'.sessions = ui.sessions
        BY <1>1, <4>1 DEF ChatApp
      <4> QED
        BY <1>1, <4>2 DEF ChatShows
    <3>3. CASE Chat!SessionSaved(r) /\ r.got # Failed
      <4>1. r.got.files \subseteq 1 .. sent /\ r.ask.active \in (0 .. sent) \cup {None}
        BY <1>2, <1>3, <3>3 DEF ChatGotWithin, ChatAnswered, ChatAskWithin, Chat!SessionSaved, Chat!Came
      <4> DEFINE put(k) == Chat!Put(ui.sessions, k, r.got)
      <4>2. CASE r.ask.active = None
        <5> DEFINE f == put(r.id)
                   id == r.id
                   strayed == ui.strayed \/ r.acts # 0
        <5>1. ui' = [ui EXCEPT !.generating = FALSE, !.active = id, !.sessions = f, !.strayed = strayed]
          BY <3>3, <4>2 DEF Chat!SessionSaved
        <5>2. r.id \in 0 .. sent
          BY <1>1, <1>2
        <5>3. ChatWithin(f, sent)
          BY <1>1, <4>1, <5>2, ChatPutWithin DEF ChatShows
        <5> HIDE DEF f, id, strayed
        <5>4. /\ ui'.generating = FALSE /\ ui'.uploading = ui.uploading /\ ui'.files = ui.files
              /\ ui'.active = id /\ ui'.sessions = f
          BY <1>1, <5>1 DEF ChatApp
        <5> QED
          BY <1>1, <5>2, <5>3, <5>4 DEF ChatShows, id
      <4>3. CASE r.ask.active # None
        <5> DEFINE f == IF r.ask.active \in DOMAIN ui.sessions THEN put(r.ask.active) ELSE ui.sessions
        <5>1. ui' = [ui EXCEPT !.generating = FALSE, !.sessions = f]
          BY <3>3, <4>3 DEF Chat!SessionSaved
        <5>2. ChatWithin(f, sent)
          BY <1>1, <4>1, <4>3, ChatPutWithin DEF ChatShows
        <5> HIDE DEF f
        <5>3. /\ ui'.generating = FALSE /\ ui'.uploading = ui.uploading /\ ui'.files = ui.files
              /\ ui'.active = ui.active /\ ui'.sessions = f
          BY <1>1, <5>1 DEF ChatApp
        <5> QED
          BY <1>1, <5>2, <5>3 DEF ChatShows
      <4> QED
        BY <4>2, <4>3
    <3> QED
      BY <1>5, <3>1, <3>2, <3>3
  <2>3. ChatAskWithin([op |-> "sessions"], sent)
    BY DEF ChatAskWithin
  <2>4. ChatBoundsInv'
    BY <2>1, <2>2, <2>3, ChatBoundsStep
  <2> QED
    BY <1>3, <2>1, <2>2, <2>4 DEF ChatWaitsInv
<1> QED
  BY <1>4, <1>5

LEMMA ChatAnswerTail ==
    ASSUME ChatIInv, ChatBoundsInv, ChatWaitsInv, NEW r \in net,
           Chat!SessionsFetched(r) \/ Chat!Renamed(r) \/ Chat!SessionDeleted(r) \/ Chat!Uploaded(r) \/ Chat!AttachmentRemoved(r)
    PROVE  ChatBoundsInv' /\ ChatWaitsInv'
<1>1. ui \in ChatApp /\ ChatShows(ui, sent) /\ sent \in Nat /\ ui.sessions \in ChatSessions /\ ui.files \in SUBSET Int
  BY ChatPage DEF ChatBoundsInv
<1>2. r \in ChatSent /\ ChatCarriesInv(r) /\ r.id \in 1 .. sent /\ ChatAskWithin(r.ask, sent) /\ ChatGotWithin(r, sent)
  BY ChatAnsweredWithin
<1>3. ChatAskWithin([op |-> "sessions"], sent)
  BY DEF ChatAskWithin
<1>4. ASSUME Chat!Done(r), r.ask.op \notin {"chat", "save", "upload"},
             ui'.generating = ui.generating, ui'.uploading = ui.uploading, ChatShows(ui', sent)
      PROVE  ChatBoundsInv' /\ ChatWaitsInv'
  <2>1. net' = net \ {r} /\ sent' = sent /\ server' = server
    BY <1>1, <1>4, ChatEnds
  <2>2. ChatBoundsInv'
    BY <1>3, <1>4, <2>1, ChatBoundsStep
  <2> QED
    BY <1>4, <2>1, <2>2 DEF ChatWaitsInv
<1>5. CASE Chat!SessionsFetched(r)
  <2>1. Chat!Done(r) /\ r.ask.op = "sessions" /\ r.got # Waiting
    BY <1>5 DEF Chat!SessionsFetched, Chat!Came
  <2>2. r.got # Failed => ChatWithin(r.got, sent)
    BY <1>2, <2>1 DEF ChatGotWithin, ChatAnswered
  <2>3. /\ ui'.generating = ui.generating /\ ui'.uploading = ui.uploading /\ ui'.files = ui.files /\ ui'.active = ui.active
        /\ ui'.sessions = IF r.got = Failed THEN ui.sessions ELSE r.got
    BY <1>1, <1>5 DEF Chat!SessionsFetched, ChatApp
  <2>4. ChatShows(ui', sent)
    BY <1>1, <2>2, <2>3 DEF ChatShows
  <2> QED
    BY <1>4, <2>1, <2>3, <2>4
<1>6. CASE Chat!Renamed(r)
  <2>1. Chat!Done(r) /\ r.ask.op = "rename"
    BY <1>6 DEF Chat!Renamed, Chat!Came
  <2>2. CASE r.got = Failed \/ r.ask.active \notin DOMAIN ui.sessions
    <3>1. ui' = ui
      BY <1>6, <2>2 DEF Chat!Renamed
    <3> QED
      BY <1>1, <1>4, <2>1, <3>1
  <2>3. CASE ~(r.got = Failed \/ r.ask.active \notin DOMAIN ui.sessions)
    <3> DEFINE f == [ui.sessions EXCEPT ![r.ask.active].name = "renamed"]
    <3>1. ui' = [ui EXCEPT !.sessions = f]
      BY <1>6, <2>3 DEF Chat!Renamed
    <3>2. ChatWithin(f, sent)
      BY <1>1, <2>3, ChatRenamedWithin DEF ChatShows
    <3> HIDE DEF f
    <3>3. /\ ui'.generating = ui.generating /\ ui'.uploading = ui.uploading /\ ui'.files = ui.files
          /\ ui'.active = ui.active /\ ui'.sessions = f
      BY <1>1, <3>1 DEF ChatApp
    <3>4. ChatShows(ui', sent)
      BY <1>1, <3>2, <3>3 DEF ChatShows
    <3> QED
      BY <1>4, <2>1, <3>3, <3>4
  <2> QED
    BY <2>2, <2>3
<1>7. CASE Chat!SessionDeleted(r)
  <2>1. Chat!Done(r) /\ r.ask.op = "delete"
    BY <1>7 DEF Chat!SessionDeleted, Chat!Came
  <2> DEFINE f == Chat!Drop(ui.sessions, r.ask.active)
             rest == [ui EXCEPT !.sessions = f]
             strayed == rest.strayed \/ ui.active = r.ask.active
  <2>2. f \in ChatSessions /\ ChatWithin(f, sent)
    BY <1>1, ChatDropKept, ChatDropWithin DEF ChatShows
  <2>3. \/ ui' = ui
        \/ ui' = Chat!Strays(Chat!Blank(rest))
        \/ ui' = [rest EXCEPT !.strayed = strayed]
    BY <1>7 DEF Chat!SessionDeleted
  <2>4. strayed \in BOOLEAN
    OBVIOUS
  <2> HIDE DEF f
  <2>5. /\ rest \in ChatApp /\ rest.generating = ui.generating /\ rest.uploading = ui.uploading
        /\ rest.files = ui.files /\ rest.active = ui.active /\ rest.sessions = f
    BY <1>1, <2>2 DEF ChatApp
  <2> HIDE DEF rest, strayed
  <2>6. CASE ui' = ui
    BY <1>1, <1>4, <2>1, <2>6
  <2>7. CASE ui' = Chat!Strays(Chat!Blank(rest))
    <3>1. /\ ui'.generating = ui.generating /\ ui'.uploading = ui.uploading /\ ui'.files = {}
          /\ ui'.active = None /\ ui'.sessions = f
      BY <2>5, <2>7, ChatBlankPage, ChatBlankShows, ChatStraysShows
    <3>2. ChatShows(ui', sent)
      BY <2>2, <3>1 DEF ChatShows
    <3> QED
      BY <1>4, <2>1, <3>1, <3>2
  <2>8. CASE ui' = [rest EXCEPT !.strayed = strayed]
    <3>1. /\ ui'.generating = ui.generating /\ ui'.uploading = ui.uploading /\ ui'.files = ui.files
          /\ ui'.active = ui.active /\ ui'.sessions = f
      BY <2>4, <2>5, <2>8 DEF ChatApp
    <3>2. ChatShows(ui', sent)
      BY <1>1, <2>2, <3>1 DEF ChatShows
    <3> QED
      BY <1>4, <2>1, <3>1, <3>2
  <2> QED
    BY <2>3, <2>6, <2>7, <2>8
<1>8. CASE Chat!Uploaded(r)
  <2> DEFINE files == IF r.got = Failed THEN ui.files ELSE ui.files \cup {r.id}
             more == r.ask.left > 1
             ask == [op |-> "upload", left |-> r.ask.left - 1]
  <2>1. r.ask.op = "upload" /\ ui' = [ui EXCEPT !.files = files, !.uploading = more]
    BY <1>8 DEF Chat!Uploaded, Chat!Came
  <2>2. Chat!Go(r, IF more THEN <<ask>> ELSE <<>>)
    BY <1>8 DEF Chat!Uploaded
  <2>3. files \subseteq 1 .. sent
    BY <1>1, <1>2 DEF ChatShows
  <2>4. ask.op = "upload" /\ ChatAskWithin(ask, sent) /\ more \in BOOLEAN
    BY DEF ChatAskWithin
  <2> HIDE DEF files, more, ask
  <2>5. /\ ui'.generating = ui.generating /\ ui'.uploading = more /\ ui'.files = files
        /\ ui'.active = ui.active /\ ui'.sessions = ui.sessions
    BY <1>1, <2>1, <2>4 DEF ChatApp
  <2>6. ChatShows(ui', sent)
    BY <1>1, <2>3, <2>5 DEF ChatShows
  <2>7. CASE more
    <3>1. Chat!Go(r, <<ask>>)
      BY <2>2, <2>7
    <3>2. /\ net' = (net \ {r}) \cup {NewRequest(sent, ask)} /\ sent' = sent + 1 /\ server' = server
          /\ NewRequest(sent, ask).ask = ask
      BY <3>1, ChatAsks1 DEF NewRequest
    <3>3. ChatBoundsInv'
      BY <2>4, <2>6, <3>2, ChatBoundsStep
    <3> QED
      BY <2>1, <2>4, <2>5, <3>2, <3>3 DEF ChatWaitsInv
  <2>8. CASE ~more
    <3>1. Chat!Done(r)
      BY <2>2, <2>8 DEF Chat!Done
    <3>2. net' = net \ {r} /\ sent' = sent /\ server' = server
      BY <1>1, <3>1, ChatEnds
    <3>3. ChatBoundsInv'
      BY <1>3, <2>6, <3>2, ChatBoundsStep
    <3> QED
      BY <2>1, <2>5, <2>8, <3>2, <3>3 DEF ChatWaitsInv
  <2> QED
    BY <2>7, <2>8
<1>9. CASE Chat!AttachmentRemoved(r)
  <2> DEFINE files == ui.files \ {r.ask.file}
  <2>1. ui' = [ui EXCEPT !.files = files] /\ Chat!Done(r) /\ r.ask.op = "unattach"
    BY <1>9 DEF Chat!AttachmentRemoved, Chat!Came
  <2>2. files \subseteq 1 .. sent
    BY <1>1 DEF ChatShows
  <2> HIDE DEF files
  <2>3. /\ ui'.generating = ui.generating /\ ui'.uploading = ui.uploading /\ ui'.files = files
        /\ ui'.active = ui.active /\ ui'.sessions = ui.sessions
    BY <1>1, <2>1 DEF ChatApp
  <2>4. ChatShows(ui', sent)
    BY <1>1, <2>2, <2>3 DEF ChatShows
  <2> QED
    BY <1>4, <2>1, <2>3, <2>4
<1> QED
  BY <1>5, <1>6, <1>7, <1>8, <1>9

LEMMA ChatEffectWithin ==
    ASSUME ChatIInv, ChatBoundsInv, NEW r \in net, ~Chat!Refused(r)
    PROVE  /\ ChatWithin(Chat!Effect(r).sessions, sent)
           /\ r.ask.op = "sessions" => ChatWithin(Chat!Reply(r), sent)
           /\ r.ask.op = "save" => Chat!Reply(r).files \subseteq 1 .. sent
<1>1. server \in [sessions : ChatSessions] /\ server.sessions \in ChatSessions /\ ChatWithin(server.sessions, sent) /\ sent \in Nat
  BY DEF ChatIInv, ChatTypeInv, ChatBoundsInv
<1>2. r \in ChatSent /\ ChatCarriesInv(r) /\ r.id \in 1 .. sent /\ ChatAskWithin(r.ask, sent)
  BY ChatAnsweredWithin
<1>3. CASE r.ask.op = "save"
  <2>1. Chat!Saved(r).files = r.ask.files /\ r.ask.files \subseteq 1 .. sent
    BY <1>2, <1>3 DEF Chat!Saved, Chat!Session, ChatAskWithin
  <2>2. Chat!SavedAs(r) \in 0 .. sent
    BY <1>1, <1>2, <1>3 DEF Chat!SavedAs, ChatAskWithin
  <2> DEFINE f == Chat!Put(server.sessions, Chat!SavedAs(r), Chat!Saved(r))
  <2>3. ChatWithin(f, sent)
    BY <1>1, <2>1, <2>2, ChatPutWithin
  <2>4. Chat!Effect(r) = [server EXCEPT !.sessions = f] /\ Chat!Reply(r) = Chat!Saved(r)
    BY <1>3 DEF Chat!Effect, Chat!Reply
  <2> HIDE DEF f
  <2>5. Chat!Effect(r).sessions = f
    BY <1>1, <2>4
  <2> QED
    BY <1>3, <2>1, <2>3, <2>4, <2>5
<1>4. CASE r.ask.op = "rename"
  <2> DEFINE f == [server.sessions EXCEPT ![r.ask.active].name = "renamed"]
  <2>1. r.ask.active \in DOMAIN server.sessions
    BY <1>4 DEF Chat!Refused
  <2>2. ChatWithin(f, sent)
    BY <1>1, <2>1, ChatRenamedWithin
  <2>3. Chat!Effect(r) = [server EXCEPT !.sessions = f]
    BY <1>4 DEF Chat!Effect
  <2> HIDE DEF f
  <2>4. Chat!Effect(r).sessions = f
    BY <1>1, <2>3
  <2> QED
    BY <1>4, <2>2, <2>4
<1>5. CASE r.ask.op = "delete"
  <2> DEFINE f == Chat!Drop(server.sessions, r.ask.active)
  <2>1. ChatWithin(f, sent)
    BY <1>1, ChatDropWithin
  <2>2. Chat!Effect(r) = [server EXCEPT !.sessions = f]
    BY <1>5 DEF Chat!Effect
  <2> HIDE DEF f
  <2>3. Chat!Effect(r).sessions = f
    BY <1>1, <2>2
  <2> QED
    BY <1>5, <2>1, <2>3
<1>6. CASE r.ask.op \notin {"save", "rename", "delete"}
  BY <1>1, <1>6 DEF Chat!Effect, Chat!Reply
<1> QED
  BY <1>3, <1>4, <1>5, <1>6

LEMMA ChatMoveTail ==
    ASSUME ChatIInv, ChatBoundsInv, ChatWaitsInv, NEW r \in net, NEW to, NEW held, Chat!Moves(r, to, held),
           to.ask = r.ask, to.id \in 1 .. sent', sent' \in {sent, sent + 1},
           ChatWithin(held.sessions, sent), ChatGotWithin(to, sent)
    PROVE  ChatBoundsInv' /\ ChatWaitsInv'
<1>1. server' = held /\ ui' = ui
  BY DEF Chat!Moves
<1> DEFINE After(q) == IF q = r THEN to ELSE [q EXCEPT !.late = q.got # Waiting /\ (@ \/ held # server)]
<1>2. net' = {After(q) : q \in net}
  BY DEF Chat!Moves
<1>3. sent \in Nat /\ sent' \in Nat /\ sent <= sent'
  BY DEF ChatIInv, ChatTypeInv
<1>4. \A q \in net : After(q).ask = q.ask /\ After(q).id \in 1 .. sent' /\ ChatGotWithin(After(q), sent)
  <2> SUFFICES ASSUME NEW q \in net, q # r
               PROVE  After(q).ask = q.ask /\ After(q).id \in 1 .. sent' /\ ChatGotWithin(After(q), sent)
    OBVIOUS
  <2>1. q \in ChatSent /\ ChatGotWithin(q, sent) /\ q.id \in 1 .. sent'
    BY <1>3, ChatAnsweredWithin
  <2> DEFINE late == q.got # Waiting /\ (q.late \/ held # server)
             p == [q EXCEPT !.late = late]
  <2>2. After(q) = p
    OBVIOUS
  <2> HIDE DEF late, After
  <2>3. p.ask = q.ask /\ p.id = q.id /\ p.got = q.got
    BY <2>1 DEF ChatSent
  <2> HIDE DEF p
  <2>4. ChatGotWithin(p, sent)
    BY <2>1, <2>3 DEF ChatGotWithin, ChatAnswered
  <2> QED
    BY <2>1, <2>2, <2>3, <2>4
<1> HIDE DEF After
<1>5. \A p \in net' : p.id \in 1 .. sent' /\ ChatAskWithin(p.ask, sent') /\ ChatGotWithin(p, sent')
  BY <1>2, <1>3, <1>4, ChatSmaller DEF ChatBoundsInv
<1>6. \A q \in net : \E p \in net' : p.ask = q.ask
  BY <1>2, <1>4
<1>7. ChatShows(ui, sent') /\ ChatWithin(held.sessions, sent')
  BY <1>3, ChatSmaller DEF ChatBoundsInv
<1>8. ChatBoundsInv'
  BY <1>1, <1>5, <1>7 DEF ChatBoundsInv, ChatShows, ChatWithin, ChatAskWithin, ChatGotWithin, ChatAnswered
<1>9. ChatWaitsInv'
  BY <1>1, <1>6 DEF ChatWaitsInv
<1> QED
  BY <1>8, <1>9

LEMMA ChatServeTail ==
    ASSUME ChatIInv, ChatBoundsInv, ChatWaitsInv,
           Chat!Serve(Chat!Refused, Chat!Effect, Chat!Reply) \/ Chat!Repeat(Chat!Refused, Chat!Effect)
    PROVE  ChatBoundsInv' /\ ChatWaitsInv'
<1>1. PICK r \in net, to \in ChatSent : \E held : ChatBecomes(r, to, held)
  BY ChatServed
<1>2. PICK held : ChatBecomes(r, to, held)
  BY <1>1
<1>3. ChatWithin(server.sessions, sent) /\ sent \in Nat /\ r.id \in 1 .. sent
  BY DEF ChatBoundsInv, ChatIInv, ChatTypeInv
<1>4. to.id \in 1 .. sent' /\ sent' \in {sent, sent + 1}
  BY <1>2, <1>3 DEF ChatBecomes
<1>5. ChatWithin(held.sessions, sent) /\ ChatGotWithin(to, sent)
  BY <1>2, <1>3, ChatEffectWithin DEF ChatBecomes, ChatGotWithin, ChatAnswered
<1> QED
  BY <1>2, <1>4, <1>5, ChatMoveTail DEF ChatBecomes

LEMMA ChatNextTail ==
    ASSUME ChatIInv, ChatBoundsInv, ChatWaitsInv, [Chat!Next]_(Chat!vars)
    PROVE  ChatBoundsInv' /\ ChatWaitsInv'
<1>1. CASE Chat!Clear \/ Chat!EditPrompt \/ Chat!NewSession \/ Chat!CancelRename
           \/ \E id \in 0 .. MaxRequests : Chat!SelectSession(id) \/ Chat!StartRename(id)
  BY <1>1, ChatLocalTail
<1>2. CASE \/ Chat!SendMessage \/ Chat!ConfirmRename \/ (\E id \in 0 .. MaxRequests : Chat!DeleteSession(id))
           \/ (\E n \in 1 .. 2 : Chat!AttachFiles(n)) \/ (\E f \in ui.files : Chat!RemoveAttachment(f))
  BY <1>2, ChatSendTail
<1>3. CASE \E r \in net : Chat!ChatAnswered(r) \/ Chat!SessionSaved(r)
  BY <1>3, ChatExchangeTail
<1>4. CASE \E r \in net : Chat!SessionsFetched(r) \/ Chat!Renamed(r) \/ Chat!SessionDeleted(r) \/ Chat!Uploaded(r) \/ Chat!AttachmentRemoved(r)
  BY <1>4, ChatAnswerTail
<1>5. CASE Chat!Serve(Chat!Refused, Chat!Effect, Chat!Reply) \/ Chat!Repeat(Chat!Refused, Chat!Effect)
  BY <1>5, ChatServeTail
<1>6. CASE UNCHANGED Chat!vars
  BY <1>6 DEF Chat!vars, ChatBoundsInv, ChatWaitsInv, ChatShows, ChatWithin, ChatAskWithin, ChatGotWithin, ChatAnswered
<1> QED
  BY <1>1, <1>2, <1>3, <1>4, <1>5, <1>6 DEF Chat!Next

LEMMA ChatShown ==
    ChatIInv /\ ChatBoundsInv /\ ChatWaitsInv => Chat!TypeOK /\ Chat!BusyHasCause /\ Chat!TranscriptsComplete
<1> SUFFICES ASSUME ChatIInv, ChatBoundsInv, ChatWaitsInv
             PROVE  Chat!TypeOK /\ Chat!BusyHasCause /\ Chat!TranscriptsComplete
  OBVIOUS
<1>1. Chat!TypeOK
  <2>1. ui.generating \in BOOLEAN /\ ui.uploading \in BOOLEAN
    BY ChatPage DEF ChatApp
  <2> QED
    BY <2>1 DEF ChatBoundsInv, ChatShows, Chat!TypeOK
<1>2. Chat!BusyHasCause
  BY DEF ChatWaitsInv, Chat!BusyHasCause, Chat!Out
<1>3. Chat!TranscriptsComplete
  <2>1. \A id \in DOMAIN server.sessions : server.sessions[id].messages \in ChatWhole
    BY ChatSessionsKept DEF ChatIInv, ChatTypeInv, ChatKept
  <2>2. ui.messages \in ChatTranscript
    BY ChatPage
  <2>3. ~ui.generating => ui.messages \in ChatWhole
    BY DEF ChatIInv, ChatExchangeInv, ChatExchanging
  <2> QED
    BY <2>1, <2>2, <2>3 DEF Chat!TranscriptsComplete, ChatWhole, ChatTranscript
<1> QED
  BY <1>1, <1>2, <1>3
-----------------------------------------------------------------------------
(* The playground: the page shows its sessions as the gateway keeps them, but *)
(* for what the answers under way will put right.                           *)

\* What the gateway has done for a request under way: what it puts on the list, drops from it and renames on it.
ChatPuts(r, x) == r.ask.op = "save" /\ Acted(r) /\ x = Chat!SavedAs(r)
ChatCreates(r, x) == ChatPuts(r, x) /\ r.ask.active = None
ChatDrops(r, x) == r.ask.op = "delete" /\ Acted(r) /\ x = r.ask.active
ChatNames(r, x) == r.ask.op = "rename" /\ Acted(r) /\ x = r.ask.active
ChatRenamed(session) == [session EXCEPT !.name = "renamed"]

\* An answer that is on time says what the gateway holds.
ChatSays(r) ==
    /\ r.ask.op = "sessions" => r.got = server.sessions
    /\ r.ask.op = "save" => /\ Chat!SavedAs(r) \in DOMAIN server.sessions /\ r.got = server.sessions[Chat!SavedAs(r)]
                            /\ r.got.messages = r.ask.messages
    /\ r.ask.op = "delete" => r.ask.active \notin DOMAIN server.sessions
    /\ r.ask.op = "rename" => r.ask.active \in DOMAIN server.sessions /\ server.sessions[r.ask.active].name = "renamed"
ChatSaysInv == ~raced => \A r \in net : OnTime(r) => ChatSays(r)

\* A creation sent again: the page will know the last session only.
ChatStrands(r) == r.ask.op = "save" /\ r.ask.active = None /\ r.acts # 0
ChatLost == Doomed \/ \E r \in net : ChatStrands(r)
ChatSettled == ~raced /\ ~ui.strayed /\ ~ChatLost
\* Session x of the list.
ChatRow(x) ==
    \/ \E r \in net : ChatDrops(r, x)
    \/ /\ x \in DOMAIN server.sessions
       /\ \/ \E r \in net : ChatPuts(r, x)
          \/ (\E r \in net : ChatNames(r, x)) /\ ChatRenamed(ui.sessions[x]) = server.sessions[x]
          \/ ui.sessions[x] = server.sessions[x]
ChatRowsInv == ChatSettled => \A x \in DOMAIN ui.sessions : ChatRow(x)
ChatAllInv ==
    ChatSettled => \A x \in DOMAIN server.sessions :
                      x \in DOMAIN ui.sessions \/ \E r \in net : ChatCreates(r, x) \/ r.ask.op = "sessions"
\* The conversation on screen: that of the active session, or of the exchange under way.
ChatTalkInv ==
    ChatSettled =>
        /\ ui.active # None /\ ~ui.generating =>
              \/ \E r \in net : ChatDrops(r, ui.active)
              \/ ui.active \in DOMAIN server.sessions /\ ui.messages = server.sessions[ui.active].messages
        /\ \A r \in net : ChatExchanging(r) => r.ask.active = ui.active
        /\ \A r \in net : r.ask.op = "save" => ui.messages = r.ask.messages
ChatFreshInv == ChatSaysInv /\ ChatRowsInv /\ ChatAllInv /\ ChatTalkInv

LEMMA ChatRaces ==
    ASSUME NEW r, NEW asks
    PROVE  /\ Chat!Send(asks) => UNCHANGED <<server, raced>>
           /\ Chat!Go(r, asks) => UNCHANGED server /\ raced' = (raced \/ (r.late /\ r.got # Failed))
           /\ Chat!Done(r) => UNCHANGED server /\ raced' = (raced \/ (r.late /\ r.got # Failed))
BY DEF Chat!Send, Chat!Done, Chat!Go

\* What others find when the gateway serves a request, which becomes to.
LEMMA ChatMovesLate ==
    ASSUME NEW r \in net, NEW to \in ChatSent, NEW held, net \subseteq ChatSent, Chat!Moves(r, to, held)
    PROVE  \E new \in [net -> ChatSent] :
              /\ net' = {new[q] : q \in net} /\ server' = held /\ UNCHANGED ui
              /\ new[r] = to
              /\ \A q \in net : q # r => /\ new[q].id = q.id /\ new[q].ask = q.ask /\ new[q].got = q.got /\ new[q].acts = q.acts
                                         /\ new[q].late = (q.got # Waiting /\ (q.late \/ held # server))
<1>1. net' = {IF q = r THEN to ELSE [q EXCEPT !.late = q.got # Waiting /\ (@ \/ held # server)] : q \in net}
  BY DEF Chat!Moves
<1> DEFINE Late(q) == q.got # Waiting /\ (q.late \/ held # server)
           New(q) == IF q = r THEN to ELSE [q EXCEPT !.late = Late(q)]
           new == [q \in net |-> New(q)]
<1>2. ASSUME NEW q \in net
      PROVE  /\ New(q) \in ChatSent /\ (q = r => New(q) = to)
             /\ q # r => /\ New(q).id = q.id /\ New(q).ask = q.ask /\ New(q).got = q.got /\ New(q).acts = q.acts
                         /\ New(q).late = Late(q)
  <2>1. q \in ChatSent /\ Late(q) \in BOOLEAN
    OBVIOUS
  <2> HIDE DEF Late
  <2> QED
    BY <2>1 DEF ChatSent, ChatGots
<1>3. net' = {New(q) : q \in net}
  BY <1>1
<1>4. \A q \in net : q # r => New(q).late = (q.got # Waiting /\ (q.late \/ held # server))
  BY <1>2
<1> HIDE DEF New
<1>5. new \in [net -> ChatSent] /\ \A q \in net : new[q] = New(q)
  BY <1>2
<1>6. net' = {new[q] : q \in net}
  BY <1>3, <1>5
<1> HIDE DEF new
<1>7. server' = held /\ UNCHANGED ui
  BY DEF Chat!Moves
<1> QED
  BY <1>2, <1>4, <1>5, <1>6, <1>7

LEMMA ChatSettlesLate ==
    ASSUME NEW r \in net, NEW got, got \in ChatGots, NEW held, net \subseteq ChatSent, Chat!Settle(r, got, held)
    PROVE  sent' = sent /\ server' = held /\ \E new \in [net -> ChatSent] : Serves(r, new) /\ new[r].got = got /\ new[r].id = r.id
<1> DEFINE to == [r EXCEPT !.got = got]
<1>1. r \in ChatSent
  OBVIOUS
<1>2. to \in ChatSent /\ to.ask = r.ask /\ to.got = got /\ to.late = r.late /\ to.id = r.id /\ to.acts = r.acts
  BY <1>1 DEF ChatSent, ChatGots
<1>3. Chat!Moves(r, to, held) /\ sent' = sent
  BY DEF Chat!Settle
<1> HIDE DEF to
<1>4. PICK new \in [net -> ChatSent] :
              /\ net' = {new[q] : q \in net} /\ server' = held /\ UNCHANGED ui
              /\ new[r] = to
              /\ \A q \in net : q # r => /\ new[q].id = q.id /\ new[q].ask = q.ask /\ new[q].got = q.got /\ new[q].acts = q.acts
                                         /\ new[q].late = (q.got # Waiting /\ (q.late \/ held # server))
  BY <1>2, <1>3, ChatMovesLate
<1>5. server' = held
  BY <1>4
<1>6. Serves(r, new)
  BY <1>2, <1>4 DEF Serves
<1> QED
  BY <1>2, <1>3, <1>4, <1>5, <1>6

LEMMA ChatRepeatsLate ==
    ASSUME NEW r \in net, NEW acts \in Nat, acts # 0, NEW held, net \subseteq ChatSent, sent \in Nat, Chat!SentAgain(r, acts, r.ask, held)
    PROVE  /\ server' = held /\ sent' = sent + 1 /\ raced' = raced
           /\ \E new \in [net -> ChatSent] : Serves(r, new) /\ new[r].got = Waiting /\ new[r].acts = acts
<1> DEFINE req == Chat!Request(sent + 1, r.ask)
           to == [req EXCEPT !.acts = acts]
<1>1. req \in ChatSent /\ req.ask = r.ask /\ req.got = Waiting /\ req.late = FALSE
  <2>1. r.ask \in ChatAsks
    BY DEF ChatSent
  <2>2. Waiting \in ChatGots
    BY DEF ChatGots
  <2> QED
    BY <2>1, <2>2 DEF ChatSent, ChatGots, Chat!Request
<1>2. Chat!Moves(r, to, held) /\ sent' = sent + 1 /\ raced' = raced
  BY DEF Chat!SentAgain
<1> HIDE DEF req
<1>3. to \in ChatSent /\ to.ask = r.ask /\ to.got = Waiting /\ to.late = FALSE /\ to.acts = acts
  BY <1>1 DEF ChatSent
<1> HIDE DEF to
<1>4. PICK new \in [net -> ChatSent] :
              /\ net' = {new[q] : q \in net} /\ server' = held /\ UNCHANGED ui
              /\ new[r] = to
              /\ \A q \in net : q # r => /\ new[q].id = q.id /\ new[q].ask = q.ask /\ new[q].got = q.got /\ new[q].acts = q.acts
                                         /\ new[q].late = (q.got # Waiting /\ (q.late \/ held # server))
  BY <1>2, <1>3, ChatMovesLate
<1>5. server' = held
  BY <1>4
<1>6. Serves(r, new)
  BY <1>3, <1>4 DEF Serves
<1> QED
  BY <1>2, <1>3, <1>4, <1>5, <1>6

LEMMA ChatServing ==
    ASSUME net \subseteq ChatSent, sent \in Nat, Chat!Serve(Chat!Refused, Chat!Effect, Chat!Reply) \/ Chat!Repeat(Chat!Refused, Chat!Effect),
           \A r \in net : ~Chat!Refused(r) => Chat!Reply(r) \in ChatGots
    PROVE  \E r \in net : \E new \in [net -> ChatSent] :
              /\ r.got = Waiting /\ Serves(r, new)
              /\ \/ /\ ~Chat!Refused(r) /\ new[r].got = Chat!Reply(r) /\ server' = Chat!Effect(r) /\ raced' = raced
                    /\ sent' = sent /\ new[r].id = r.id
                 \/ /\ new[r].got = Failed /\ server' = server /\ raced' = (raced \/ r.acts # 0)
                    /\ sent' = sent /\ new[r].id = r.id
                 \/ /\ ~Chat!Refused(r) /\ new[r].got = Failed /\ server' = Chat!Effect(r) /\ raced' = TRUE
                    /\ sent' = sent /\ new[r].id = r.id
                 \/ /\ ~Chat!Refused(r) /\ new[r].got = Waiting /\ new[r].acts # 0 /\ server' = Chat!Effect(r) /\ raced' = raced
                    /\ sent' = sent + 1 /\ server' # server
<1>1. Failed \in ChatGots
  BY DEF ChatGots
<1>2. CASE Chat!Serve(Chat!Refused, Chat!Effect, Chat!Reply)
  <2>1. PICK r \in net : /\ r.got = Waiting
                         /\ \/ ~Chat!Refused(r) /\ Chat!Settle(r, Chat!Reply(r), Chat!Effect(r)) /\ raced' = raced
                            \/ Chat!Settle(r, Failed, server) /\ raced' = (raced \/ r.acts # 0)
                            \/ ~Chat!Refused(r) /\ Chat!Settle(r, Failed, Chat!Effect(r)) /\ raced' = TRUE
    BY <1>2 DEF Chat!Serve, Chat!ServeOne
  <2>2. CASE ~Chat!Refused(r) /\ Chat!Settle(r, Chat!Reply(r), Chat!Effect(r)) /\ raced' = raced
    BY <2>1, <2>2, ChatSettlesLate
  <2>3. CASE Chat!Settle(r, Failed, server) /\ raced' = (raced \/ r.acts # 0)
    BY <1>1, <2>1, <2>3, ChatSettlesLate
  <2>4. CASE ~Chat!Refused(r) /\ Chat!Settle(r, Failed, Chat!Effect(r)) /\ raced' = TRUE
    <3> DEFINE held == Chat!Effect(r)
    <3>1. Chat!Settle(r, Failed, held)
      BY <2>4
    <3> HIDE DEF held
    <3>2. sent' = sent /\ server' = held /\ \E new \in [net -> ChatSent] : Serves(r, new) /\ new[r].got = Failed /\ new[r].id = r.id
      BY <1>1, <3>1, ChatSettlesLate
    <3> QED
      BY <2>1, <2>4, <3>2 DEF held
  <2> QED
    BY <2>1, <2>2, <2>3, <2>4
<1>3. CASE Chat!Repeat(Chat!Refused, Chat!Effect)
  <2>1. PICK r \in net : /\ r.got = Waiting /\ ~Chat!Refused(r) /\ Chat!Effect(r) # server
                         /\ Chat!SentAgain(r, r.acts + 1, r.ask, Chat!Effect(r))
    BY <1>3 DEF Chat!Repeat, Chat!RepeatOne, Chat!Same
  <2> DEFINE held == Chat!Effect(r)
             acts == r.acts + 1
  <2>2. acts \in Nat /\ acts # 0
    BY DEF ChatSent
  <2>3. Chat!SentAgain(r, acts, r.ask, held)
    BY <2>1
  <2> HIDE DEF held, acts
  <2>4. /\ server' = held /\ sent' = sent + 1 /\ raced' = raced
        /\ \E new \in [net -> ChatSent] : Serves(r, new) /\ new[r].got = Waiting /\ new[r].acts = acts
    BY <2>2, <2>3, ChatRepeatsLate
  <2> QED
    BY <2>1, <2>2, <2>4 DEF held
<1> QED
  BY <1>2, <1>3

\* The same as long as nothing that the page was told is out of date.
LEMMA ChatServingOnTime ==
    ASSUME net \subseteq ChatSent, sent \in Nat, Chat!Serve(Chat!Refused, Chat!Effect, Chat!Reply) \/ Chat!Repeat(Chat!Refused, Chat!Effect), ~raced',
           \A r \in net : ~Chat!Refused(r) => Chat!Reply(r) \in ChatGots
    PROVE  \E r \in net : \E new \in [net -> ChatSent] :
              /\ r.got = Waiting /\ Serves(r, new) /\ ~raced
              /\ \/ /\ ~Chat!Refused(r) /\ new[r].got = Chat!Reply(r) /\ server' = Chat!Effect(r)
                    /\ sent' = sent /\ new[r].id = r.id
                 \/ /\ new[r].got = Failed /\ server' = server /\ r.acts = 0
                    /\ sent' = sent /\ new[r].id = r.id
                 \/ /\ ~Chat!Refused(r) /\ new[r].got = Waiting /\ new[r].acts # 0 /\ server' = Chat!Effect(r)
                    /\ sent' = sent + 1 /\ server' # server
<1> DEFINE Answered(r, new) == /\ ~Chat!Refused(r) /\ new[r].got = Chat!Reply(r) /\ server' = Chat!Effect(r)
                               /\ sent' = sent /\ new[r].id = r.id
           Unheard(r, new) == new[r].got = Failed /\ server' = server /\ sent' = sent /\ new[r].id = r.id
           Again(r, new) == /\ ~Chat!Refused(r) /\ new[r].got = Waiting /\ new[r].acts # 0 /\ server' = Chat!Effect(r)
                            /\ sent' = sent + 1 /\ server' # server
<1>1. PICK r \in net : \E new \in [net -> ChatSent] :
              /\ r.got = Waiting /\ Serves(r, new)
              /\ \/ Answered(r, new) /\ raced' = raced
                 \/ Unheard(r, new) /\ raced' = (raced \/ r.acts # 0)
                 \/ raced' = TRUE
                 \/ Again(r, new) /\ raced' = raced
  BY ChatServing
<1>2. PICK new \in [net -> ChatSent] :
              /\ r.got = Waiting /\ Serves(r, new)
              /\ \/ Answered(r, new) /\ raced' = raced
                 \/ Unheard(r, new) /\ raced' = (raced \/ r.acts # 0)
                 \/ raced' = TRUE
                 \/ Again(r, new) /\ raced' = raced
  BY <1>1
<1> HIDE DEF Answered, Unheard, Again
<1>3. ~raced /\ (Answered(r, new) \/ (Unheard(r, new) /\ r.acts = 0) \/ Again(r, new))
  <2>1. CASE Answered(r, new) /\ raced' = raced
    BY <2>1
  <2>2. CASE Unheard(r, new) /\ raced' = (raced \/ r.acts # 0)
    <3> DEFINE acted == r.acts # 0
    <3>1. raced' = (raced \/ acted)
      BY <2>2
    <3> HIDE DEF acted
    <3>2. ~raced /\ ~acted
      BY <3>1
    <3> QED
      BY <2>2, <3>2 DEF acted
  <2>3. CASE Again(r, new) /\ raced' = raced
    BY <2>3
  <2>4. CASE raced' = TRUE
    BY <2>4
  <2> QED
    BY <1>2, <2>1, <2>2, <2>3, <2>4
<1> QED
  BY <1>2, <1>3 DEF Answered, Unheard, Again

LEMMA ChatInitFresh == Chat!Init => ChatFreshInv
<1> SUFFICES ASSUME Chat!Init PROVE ChatFreshInv
  OBVIOUS
<1> DEFINE ask == [op |-> "sessions"]
           past == [s \in {0} |-> Chat!Session("auto", << <<"prompt", 0>>, <<"answer", 0>> >>, {}, 1)]
<1>1. /\ ui = [sessions |-> Chat!Empty, active |-> None, messages |-> <<>>, files |-> {}, prompt |-> 0,
               generating |-> FALSE, uploading |-> FALSE, renaming |-> None, strayed |-> FALSE]
      /\ net = {FirstRequest(1, ask)}
  <2> HIDE DEF past
  <2> QED
    BY StartedWithOne DEF Chat!Init, Chat!Started, Chat!Request
<1>2. ask.op = "sessions"
  OBVIOUS
<1> HIDE DEF ask
<1>3. FirstRequest(1, ask).ask = ask /\ FirstRequest(1, ask).got = Waiting
  BY DEF FirstRequest
<1>4. ui.sessions = Chat!Empty /\ ui.active = None
  BY <1>1
<1>5. DOMAIN ui.sessions = {}
  BY <1>4 DEF Chat!Empty
<1>6. ChatSaysInv
  BY <1>1, <1>3 DEF ChatSaysInv, OnTime, Served
<1>7. ChatRowsInv /\ ChatAllInv
  BY <1>1, <1>2, <1>3, <1>5 DEF ChatRowsInv, ChatAllInv
<1>8. ChatTalkInv
  BY <1>1, <1>2, <1>3, <1>4 DEF ChatTalkInv, ChatExchanging
<1> QED
  BY <1>6, <1>7, <1>8 DEF ChatFreshInv

LEMMA ChatShowFresh == ChatIInv /\ ChatWaitsInv /\ ChatFreshInv => Chat!Fresh
<1> SUFFICES ASSUME ChatIInv, ChatWaitsInv, ChatFreshInv, net = {}, ~raced, ~ui.strayed
             PROVE  /\ ui.sessions = server.sessions
                    /\ ui.active # None => ui.messages = server.sessions[ui.active].messages
  BY DEF Chat!Fresh, Chat!Quiet
<1>1. ChatSettled /\ ~ui.generating
  BY DEF ChatSettled, ChatLost, Doomed, ChatWaitsInv
<1>2. \A x \in DOMAIN ui.sessions : x \in DOMAIN server.sessions /\ ui.sessions[x] = server.sessions[x]
  BY <1>1 DEF ChatFreshInv, ChatRowsInv, ChatRow
<1>3. DOMAIN server.sessions \subseteq DOMAIN ui.sessions
  BY <1>1 DEF ChatFreshInv, ChatAllInv
<1>4. ui.sessions \in ChatSessions /\ server.sessions \in ChatSessions
  BY ChatPage DEF ChatIInv, ChatTypeInv
<1>5. PICK D, E \in SUBSET Int : ui.sessions \in [D -> ChatKept] /\ server.sessions \in [E -> ChatKept]
  BY <1>4 DEF ChatSessions
<1>6. ui.sessions = server.sessions
  BY <1>2, <1>3, <1>5
<1> QED
  BY <1>1, <1>6 DEF ChatFreshInv, ChatTalkInv
-----------------------------------------------------------------------------
\* Neither the gateway nor the list changes, and no answer the list waits for goes.
LEMMA ChatListKept ==
    ASSUME ChatFreshInv, UNCHANGED server, raced => raced', ChatLost => ChatLost' \/ raced' \/ ui'.strayed, ui.strayed => ui'.strayed,
           \A q \in net' : q \in net \/ (~Served(q) /\ ~Acted(q)),
           \A q \in net : q \in net' \/ (q.ask.op # "sessions" /\ (~Acted(q) \/ q.ask.op \notin {"save", "rename", "delete"})),
           ui'.sessions = ui.sessions
    PROVE  ChatSaysInv' /\ ChatRowsInv' /\ ChatAllInv'
<1>1. ChatSettled' => ChatSettled
  BY DEF ChatSettled
<1>2. ChatSaysInv'
  BY DEF ChatFreshInv, ChatSaysInv, ChatSays, OnTime
<1>3. ASSUME NEW x, ChatRow(x) PROVE ChatRow(x)'
  BY <1>3 DEF ChatRow, ChatDrops, ChatPuts, ChatNames
<1>4. ChatRowsInv'
  BY <1>1, <1>3 DEF ChatFreshInv, ChatRowsInv
<1>5. ChatAllInv'
  BY <1>1 DEF ChatFreshInv, ChatAllInv, ChatCreates, ChatPuts
<1> QED
  BY <1>2, <1>4, <1>5

\* Nor does the conversation.
LEMMA ChatTalkKept ==
    ASSUME ChatFreshInv, UNCHANGED server, raced => raced', ChatLost => ChatLost' \/ raced' \/ ui'.strayed, ui.strayed => ui'.strayed,
           \A q \in net' : q \in net \/ ~ChatExchanging(q),
           \A q \in net : q \in net' \/ q.ask.op # "delete" \/ ~Acted(q),
           ui'.active = ui.active, ui'.messages = ui.messages, ui'.generating = ui.generating
    PROVE  ChatTalkInv'
<1>1. ChatSettled' => ChatSettled
  BY DEF ChatSettled
<1>2. (\E r \in net : ChatDrops(r, ui.active)) => \E r \in net' : ChatDrops(r, ui.active)
  BY DEF ChatDrops
<1> QED
  BY <1>1, <1>2 DEF ChatFreshInv, ChatTalkInv, ChatExchanging

\* What is left of a page that is not strayed once a conversation is left.
LEMMA ChatLeft ==
    ASSUME ChatIInv, NEW state \in ChatApp, state.strayed = ui.strayed, ~Chat!Strays(state).strayed
    PROVE  ~ui.strayed /\ ~ui.generating /\ \A r \in net : ~ChatExchanging(r)
<1> DEFINE strayed == state.strayed \/ ui.generating
<1>1. strayed \in BOOLEAN /\ Chat!Strays(state) = [state EXCEPT !.strayed = strayed]
  BY DEF Chat!Strays
<1> HIDE DEF strayed
<1>2. Chat!Strays(state).strayed = strayed
  BY <1>1 DEF ChatApp
<1> QED
  BY <1>2 DEF strayed, ChatIInv, ChatExchangeInv

LEMMA ChatLocalFresh ==
    ASSUME ChatIInv, ChatFreshInv,
           Chat!Clear \/ Chat!EditPrompt \/ Chat!NewSession \/ Chat!CancelRename \/ \E id : Chat!SelectSession(id) \/ Chat!StartRename(id)
    PROVE  ChatFreshInv'
<1>1. UNCHANGED <<net, server, raced>>
  BY DEF Chat!Clear, Chat!EditPrompt, Chat!NewSession, Chat!CancelRename, Chat!SelectSession, Chat!StartRename, Chat!Local
<1>2. ChatLost => ChatLost'
  BY <1>1 DEF ChatLost, Doomed, ChatStrands
<1>3. ChatSaysInv'
  BY <1>1 DEF ChatFreshInv, ChatSaysInv, ChatSays
<1>4. CASE Chat!Clear
  <2>1. ui'.strayed
    BY <1>4, ChatPage DEF Chat!Clear, ChatApp
  <2> QED
    BY <1>3, <2>1 DEF ChatFreshInv, ChatRowsInv, ChatAllInv, ChatTalkInv, ChatSettled
<1>5. CASE Chat!EditPrompt \/ Chat!CancelRename \/ \E id : Chat!StartRename(id)
  <2>1. /\ ui'.sessions = ui.sessions /\ ui'.active = ui.active /\ ui'.messages = ui.messages
        /\ ui'.generating = ui.generating /\ ui'.strayed = ui.strayed
    BY <1>5, ChatPage DEF Chat!EditPrompt, Chat!CancelRename, Chat!StartRename, ChatApp
  <2>2. ChatSaysInv' /\ ChatRowsInv' /\ ChatAllInv' /\ ChatTalkInv'
    BY <1>1, <1>2, <2>1, ChatListKept, ChatTalkKept
  <2> QED
    BY <2>2 DEF ChatFreshInv
<1>6. CASE Chat!NewSession
  <2> DEFINE state == Chat!Blank(ui)
  <2>1. ui' = Chat!Strays(state)
    BY <1>6 DEF Chat!NewSession
  <2>2. state \in ChatApp /\ state.active = None /\ state.sessions = ui.sessions
    BY ChatPage, ChatBlankPage, ChatBlankShows
  <2>3. state.strayed = ui.strayed
    BY ChatPage DEF Chat!Blank, ChatApp
  <2> HIDE DEF state
  <2>4. ui'.sessions = ui.sessions /\ ui'.active = None
    BY <2>1, <2>2, ChatStraysShows
  <2>5. ~ui'.strayed => ~ui.strayed /\ ~ui.generating /\ \A r \in net : ~ChatExchanging(r)
    BY <2>1, <2>2, <2>3, ChatLeft
  <2>6. ChatSaysInv' /\ ChatRowsInv' /\ ChatAllInv'
    BY <1>1, <1>2, <2>4, <2>5, ChatPage, ChatListKept
  <2>7. ChatTalkInv'
    BY <1>1, <2>4, <2>5 DEF ChatTalkInv, ChatSettled, ChatExchanging
  <2> QED
    BY <2>6, <2>7 DEF ChatFreshInv
<1>7. CASE \E id : Chat!SelectSession(id)
  <2>1. PICK id \in DOMAIN ui.sessions :
            ui' = Chat!Strays([ui EXCEPT !.active = id, !.messages = ui.sessions[id].messages,
                                         !.files = ui.sessions[id].files, !.prompt = ui.sessions[id].prompt])
    BY <1>7 DEF Chat!SelectSession, Chat!Listed
  <2> DEFINE m == ui.sessions[id].messages
             files == ui.sessions[id].files
             prompt == ui.sessions[id].prompt
             state == [ui EXCEPT !.active = id, !.messages = m, !.files = files, !.prompt = prompt]
  <2>2. ui.sessions[id] \in ChatKept /\ id \in ChatIds
    BY ChatPage, ChatSessionsKept DEF ChatIds
  <2>3. m \in ChatTranscript /\ files \in SUBSET Int /\ prompt \in Int
    BY <2>2 DEF ChatKept, ChatWhole
  <2>4. ui' = Chat!Strays(state)
    BY <2>1
  <2>5. m = ui.sessions[id].messages
    OBVIOUS
  <2> HIDE DEF m, files, prompt
  <2>6. state \in ChatApp /\ state.sessions = ui.sessions /\ state.active = id /\ state.messages = m /\ state.strayed = ui.strayed
    BY <2>2, <2>3, ChatPage DEF ChatApp
  <2> HIDE DEF state
  <2>7. ui'.sessions = ui.sessions /\ ui'.active = id /\ ui'.messages = m
    BY <2>4, <2>6, ChatStraysShows, ChatStraysPage
  <2>8. ~ui'.strayed => ~ui.strayed /\ ~ui.generating /\ \A r \in net : ~ChatExchanging(r)
    BY <2>4, <2>6, ChatLeft
  <2>9. ChatSaysInv' /\ ChatRowsInv' /\ ChatAllInv'
    BY <1>1, <1>2, <2>7, <2>8, ChatPage, ChatListKept
  <2>10. ASSUME ChatSettled'
         PROVE  \/ \E r \in net : ChatDrops(r, id)
                \/ id \in DOMAIN server.sessions /\ m = server.sessions[id].messages
    <3>1. ChatSettled /\ \A r \in net : ~ChatExchanging(r)
      BY <1>1, <1>2, <2>8, <2>10 DEF ChatSettled
    <3>2. ChatRow(id)
      BY <3>1 DEF ChatFreshInv, ChatRowsInv
    <3>3. ChatRenamed(ui.sessions[id]).messages = m
      BY <2>2, <2>5 DEF ChatRenamed, ChatKept
    <3> QED
      BY <2>5, <3>1, <3>2, <3>3 DEF ChatRow, ChatPuts, ChatExchanging
  <2>11. ChatTalkInv'
    <3>1. ASSUME ChatSettled' PROVE \A r \in net : ~ChatExchanging(r)
      BY <2>8, <3>1 DEF ChatSettled
    <3> QED
      BY <1>1, <2>7, <2>10, <3>1 DEF ChatTalkInv, ChatExchanging
  <2> QED
    BY <2>9, <2>11 DEF ChatFreshInv
<1> QED
  BY <1>4, <1>5, <1>6, <1>7
-----------------------------------------------------------------------------
LEMMA ChatSendFresh ==
    ASSUME ChatIInv, ChatFreshInv,
           \/ Chat!ConfirmRename
           \/ \E id : Chat!DeleteSession(id)
           \/ \E n \in 1 .. 2 : Chat!AttachFiles(n)
           \/ \E f \in ui.files : Chat!RemoveAttachment(f)
    PROVE  ChatFreshInv'
<1>1. PICK ask : /\ ask.op \notin {"chat", "save"} /\ Chat!Send(<<ask>>)
                 /\ ui' \in {ui, [ui EXCEPT !.renaming = None], [ui EXCEPT !.uploading = TRUE]}
  BY DEF Chat!ConfirmRename, Chat!DeleteSession, Chat!AttachFiles, Chat!RemoveAttachment
<1>2. UNCHANGED <<server, raced>> /\ net' = net \cup {NewRequest(sent, ask)}
  BY <1>1, ChatRaces, ChatAsks1
<1>3. NewRequest(sent, ask).ask = ask /\ ~Served(NewRequest(sent, ask)) /\ ~Acted(NewRequest(sent, ask))
  BY NewIsWaiting
<1>4. /\ ui'.sessions = ui.sessions /\ ui'.active = ui.active /\ ui'.messages = ui.messages
      /\ ui'.generating = ui.generating /\ ui'.strayed = ui.strayed
  BY <1>1, ChatPage DEF ChatApp
<1>5. ChatLost => ChatLost'
  BY <1>2 DEF ChatLost, Doomed, ChatStrands
<1>6. ChatSaysInv' /\ ChatRowsInv' /\ ChatAllInv'
  BY <1>2, <1>3, <1>4, <1>5, ChatListKept
<1>7. ChatTalkInv'
  BY <1>1, <1>2, <1>3, <1>4, <1>5, ChatTalkKept DEF ChatExchanging
<1> QED
  BY <1>6, <1>7 DEF ChatFreshInv

LEMMA ChatSendMessageFresh == ASSUME ChatIInv, ChatFreshInv, Chat!SendMessage PROVE ChatFreshInv'
<1> DEFINE m == Append(ui.messages, <<"prompt", sent + 1>>)
           ask == [op |-> "chat", messages |-> m, files |-> ui.files, active |-> ui.active, prompt |-> ui.prompt]
<1>1. ui' = [ui EXCEPT !.messages = m, !.generating = TRUE] /\ Chat!Send(<<ask>>) /\ ~ui.generating
  BY DEF Chat!SendMessage, Chat!CanSend, Chat!Chat
<1>2. ask.op = "chat" /\ ask.active = ui.active
  OBVIOUS
<1> HIDE DEF m, ask
<1>3. UNCHANGED <<server, raced>> /\ net' = net \cup {NewRequest(sent, ask)}
  BY <1>1, ChatRaces, ChatAsks1
<1>4. NewRequest(sent, ask).ask = ask /\ ~Served(NewRequest(sent, ask)) /\ ~Acted(NewRequest(sent, ask))
  BY NewIsWaiting
<1>5. /\ ui'.sessions = ui.sessions /\ ui'.active = ui.active /\ ui'.generating /\ ui'.strayed = ui.strayed
  BY <1>1, ChatPage DEF ChatApp
<1>6. ChatLost => ChatLost'
  BY <1>3 DEF ChatLost, Doomed, ChatStrands
<1>7. ChatSaysInv' /\ ChatRowsInv' /\ ChatAllInv'
  BY <1>3, <1>4, <1>5, <1>6, ChatListKept
<1>8. \A r \in net : ~ChatExchanging(r)
  BY <1>1 DEF ChatIInv, ChatExchangeInv
<1>9. ChatTalkInv'
  BY <1>2, <1>3, <1>4, <1>5, <1>8 DEF ChatTalkInv, ChatExchanging
<1> QED
  BY <1>7, <1>9 DEF ChatFreshInv
-----------------------------------------------------------------------------
LEMMA ChatDoomed ==
    ASSUME NEW r, NEW asks, Chat!Go(r, asks)
    PROVE  ChatLost => ChatLost' \/ raced' \/ ChatStrands(r)
<1>1. net \ {r} \subseteq net' /\ raced' = (raced \/ (r.late /\ r.got # Failed))
  BY DEF Chat!Go
<1>2. ASSUME NEW q \in net, ChatStrands(q), q # r PROVE ChatLost'
  BY <1>1, <1>2 DEF ChatLost, ChatStrands
<1>3. ASSUME NEW q \in net, Served(q), q.late PROVE ChatLost' \/ raced'
  BY <1>1, <1>3 DEF ChatLost, Doomed, Served
<1> QED
  BY <1>2, <1>3 DEF ChatLost, Doomed

LEMMA ChatAnsweredFresh == ASSUME ChatIInv, ChatFreshInv, NEW r \in net, Chat!ChatAnswered(r) PROVE ChatFreshInv'
<1>1. r.ask.op = "chat" /\ r.ask \in ChatExchange /\ ChatExchanging(r)
  BY ChatFits, ChatFields DEF Chat!ChatAnswered, Chat!Came, ChatExchanging
<1>2. CASE r.got = Failed
  <2> DEFINE m == Append(r.ask.messages, <<"error", r.id>>)
  <2>1. ui' = [ui EXCEPT !.messages = m, !.generating = FALSE, !.strayed = TRUE] /\ Chat!Done(r)
    BY <1>2 DEF Chat!ChatAnswered
  <2> HIDE DEF m
  <2>2. ui'.strayed /\ ui'.sessions = ui.sessions
    BY <2>1, ChatPage DEF ChatApp
  <2>3. net' = net \ {r} /\ UNCHANGED server /\ (raced => raced') /\ (ChatLost => ChatLost' \/ raced')
    BY <1>1, <2>1, ChatEnds, ChatRaces, ChatDoomed DEF Chat!Done, ChatIInv, ChatTypeInv, ChatStrands
  <2>4. ChatSaysInv' /\ ChatRowsInv' /\ ChatAllInv'
    BY <1>1, <2>2, <2>3, ChatListKept
  <2> QED
    BY <2>2, <2>4 DEF ChatFreshInv, ChatTalkInv, ChatSettled
<1>3. CASE r.got # Failed
  <2> DEFINE m == Append(r.ask.messages, <<"answer", r.id>>)
             ask == [r.ask EXCEPT !.op = "save", !.messages = m]
  <2>1. ui' = [ui EXCEPT !.messages = m, !.files = {}] /\ Chat!Go(r, <<ask>>)
    BY <1>3 DEF Chat!ChatAnswered, Chat!Save
  <2>2. ask.op = "save" /\ ask.active = r.ask.active /\ ask.messages = m
    BY <1>1 DEF ChatExchange
  <2> HIDE DEF m, ask
  <2>3. /\ ui'.sessions = ui.sessions /\ ui'.active = ui.active /\ ui'.generating = ui.generating /\ ui'.strayed = ui.strayed
        /\ ui'.messages = m
    BY <2>1, ChatPage DEF ChatApp
  <2>4. net' = (net \ {r}) \cup {NewRequest(sent, ask)} /\ UNCHANGED server /\ (raced => raced') /\ (ChatLost => ChatLost' \/ raced')
    BY <1>1, <2>1, ChatAsks1, ChatRaces, ChatDoomed DEF ChatStrands
  <2>5. NewRequest(sent, ask).ask = ask /\ ~Served(NewRequest(sent, ask)) /\ ~Acted(NewRequest(sent, ask))
    BY NewIsWaiting
  <2>6. ChatSaysInv' /\ ChatRowsInv' /\ ChatAllInv'
    BY <1>1, <2>3, <2>4, <2>5, ChatListKept
  <2>7. ui.generating /\ \A q \in net : ChatExchanging(q) => q = r
    BY <1>1 DEF ChatIInv, ChatExchangeInv
  <2>8. ChatSettled' => r.ask.active = ui.active
    BY <1>1, <2>3, <2>4 DEF ChatFreshInv, ChatTalkInv, ChatSettled
  <2>9. ChatTalkInv'
    BY <2>2, <2>3, <2>4, <2>5, <2>7, <2>8 DEF ChatTalkInv, ChatExchanging
  <2> QED
    BY <2>6, <2>9 DEF ChatFreshInv
<1> QED
  BY <1>2, <1>3

\* An answer comes that is the last of its exchange, or a request of the sidebar.
LEMMA ChatEnded ==
    ASSUME ChatIInv, ChatFreshInv, NEW r \in net, Chat!Done(r)
    PROVE  /\ net' = net \ {r} /\ UNCHANGED server /\ (raced => raced') /\ (ChatLost => ChatLost' \/ raced' \/ ChatStrands(r))
           /\ ChatSaysInv'
           /\ ~raced' /\ Served(r) => OnTime(r) /\ ChatSays(r)
<1>1. /\ net' = net \ {r} /\ UNCHANGED server /\ (raced => raced') /\ (ChatLost => ChatLost' \/ raced' \/ ChatStrands(r))
      /\ raced' = (raced \/ (r.late /\ r.got # Failed))
  BY ChatEnds, ChatRaces, ChatDoomed DEF Chat!Done, ChatIInv, ChatTypeInv
<1>2. ChatSaysInv'
  BY <1>1 DEF ChatFreshInv, ChatSaysInv, ChatSays
<1> QED
  BY <1>1, <1>2 DEF ChatFreshInv, ChatSaysInv, OnTime, Served

LEMMA ChatSavedFresh == ASSUME ChatIInv, ChatFreshInv, NEW r \in net, Chat!SessionSaved(r) PROVE ChatFreshInv'
<1>1. r.ask.op = "save" /\ r.got # Waiting /\ ChatExchanging(r) /\ Chat!Done(r)
  BY DEF Chat!SessionSaved, Chat!Came, ChatExchanging
<1>2. /\ net' = net \ {r} /\ UNCHANGED server /\ (raced => raced') /\ (ChatLost => ChatLost' \/ raced' \/ ChatStrands(r))
      /\ ChatSaysInv' /\ (~raced' /\ Served(r) => ChatSays(r))
  BY <1>1, ChatEnded
<1>3. CASE r.got = Failed
  <2>1. ui'.strayed
    BY <1>3, ChatPage DEF Chat!SessionSaved, ChatApp
  <2> QED
    BY <1>2, <2>1 DEF ChatFreshInv, ChatRowsInv, ChatAllInv, ChatTalkInv, ChatSettled
<1>4. CASE r.got # Failed /\ ChatStrands(r)
  <2> DEFINE f == Chat!Put(ui.sessions, r.id, r.got)
             strayed == ui.strayed \/ r.acts # 0
  <2>1. ui' = [ui EXCEPT !.generating = FALSE, !.active = r.id, !.sessions = f, !.strayed = strayed]
    BY <1>4 DEF Chat!SessionSaved, ChatStrands
  <2>2. strayed
    BY <1>4 DEF ChatStrands
  <2> HIDE DEF f, strayed
  <2>3. ui'.strayed
    BY <2>1, <2>2, ChatPage DEF ChatApp
  <2> QED
    BY <1>2, <2>3 DEF ChatFreshInv, ChatRowsInv, ChatAllInv, ChatTalkInv, ChatSettled
<1>5. CASE r.got # Failed /\ ~ChatStrands(r)
  <2> DEFINE as == Chat!SavedAs(r)
             f == IF r.ask.active = None \/ as \in DOMAIN ui.sessions THEN Chat!Put(ui.sessions, as, r.got) ELSE ui.sessions
  <2>1. r \in ChatSent /\ r.ask.active \in ChatIds /\ r.id \in Int
    BY <1>1, ChatFits, ChatFields
  <2>2. as \in Int /\ (r.ask.active = None => as = r.id) /\ (r.ask.active # None => as = r.ask.active) /\ as # None
    BY <2>1, NoneApart DEF Chat!SavedAs, ChatIds
  <2>3. r.got \in ChatKept
    BY <1>1, <1>5, ChatFits DEF ChatCarriesInv, ChatAnswered
  <2>4. f \in ChatSessions
    BY <2>2, <2>3, ChatPage, ChatPutKept
  <2> DEFINE strayed == ui.strayed \/ r.acts # 0
  <2>5. /\ r.ask.active = None => ui' = [ui EXCEPT !.generating = FALSE, !.active = as, !.sessions = f, !.strayed = strayed]
        /\ r.ask.active # None => ui' = [ui EXCEPT !.generating = FALSE, !.sessions = f]
    BY <1>5, <2>2 DEF Chat!SessionSaved
  <2>14. r.ask.active = None => r.acts = 0
    BY <1>1, <1>5 DEF ChatStrands
  <2>15. r.ask.active = None => strayed = ui.strayed
    BY <2>14, ChatPage DEF ChatApp
  <2>6. /\ DOMAIN f \subseteq DOMAIN ui.sessions \cup {as} /\ DOMAIN ui.sessions \subseteq DOMAIN f
        /\ r.ask.active = None => as \in DOMAIN f
        /\ as \in DOMAIN f => f[as] = r.got
        /\ \A x \in DOMAIN f : x # as => f[x] = ui.sessions[x]
    BY DEF Chat!Put
  <2>7. Served(r)
    BY <1>1, <1>5 DEF Served
  <2> HIDE DEF f, as, strayed
  <2>8. /\ ui'.sessions = f /\ ui'.messages = ui.messages /\ ui'.strayed = ui.strayed /\ ui'.generating = FALSE
        /\ ui'.active = IF r.ask.active = None THEN as ELSE ui.active
    BY <2>5, <2>15, ChatPage DEF ChatApp
  <2>9. ChatSettled' => ChatSettled /\ ChatSays(r)
    BY <1>2, <1>5, <2>7, <2>8 DEF ChatSettled
  <2>10. ChatSays(r) => as \in DOMAIN server.sessions /\ r.got = server.sessions[as] /\ r.got.messages = r.ask.messages
    BY <1>1 DEF ChatSays, as
  <2>11. ChatRowsInv'
    <3>1. ASSUME ChatSettled', NEW x \in DOMAIN f PROVE ChatRow(x)'
      <4>1. CASE x = as
        BY <1>2, <2>6, <2>8, <2>9, <2>10, <3>1, <4>1 DEF ChatRow
      <4>2. CASE x # as
        <5>1. ChatRow(x) /\ f[x] = ui.sessions[x]
          BY <2>6, <2>9, <3>1, <4>2 DEF ChatFreshInv, ChatRowsInv
        <5>2. ~ChatDrops(r, x) /\ ~ChatPuts(r, x) /\ ~ChatNames(r, x)
          BY <1>1, <4>2 DEF ChatDrops, ChatPuts, ChatNames, as
        <5> QED
          BY <1>2, <2>8, <5>1, <5>2 DEF ChatRow, ChatDrops, ChatPuts, ChatNames
      <4> QED
        BY <4>1, <4>2
    <3> QED
      BY <2>8, <3>1 DEF ChatRowsInv
  <2>12. ChatAllInv'
    <3>1. \A x : ChatCreates(r, x) => x = as /\ r.ask.active = None
      BY DEF ChatCreates, ChatPuts, as
    <3>2. ASSUME ChatSettled', NEW x \in DOMAIN server.sessions
          PROVE  x \in DOMAIN f \/ \E q \in net \ {r} : ChatCreates(q, x) \/ q.ask.op = "sessions"
      BY <1>1, <2>6, <2>9, <3>1, <3>2 DEF ChatFreshInv, ChatAllInv
    <3> QED
      BY <1>2, <2>8, <3>2 DEF ChatAllInv, ChatCreates, ChatPuts
  <2>13. ChatTalkInv'
    <3>1. \A q \in net' : ~ChatExchanging(q)
      BY <1>1, <1>2 DEF ChatIInv, ChatExchangeInv
    <3>2. ASSUME ChatSettled' PROVE (ui'.active = as /\ ui.messages = r.ask.messages) \/ ui'.active = None
      BY <1>1, <2>2, <2>8, <2>9, <3>2 DEF ChatFreshInv, ChatTalkInv
    <3> QED
      BY <1>2, <2>8, <2>9, <2>10, <3>1, <3>2 DEF ChatTalkInv, ChatExchanging
  <2> QED
    BY <1>2, <2>11, <2>12, <2>13 DEF ChatFreshInv
<1> QED
  BY <1>3, <1>4, <1>5

LEMMA ChatFetchedFresh == ASSUME ChatIInv, ChatFreshInv, NEW r \in net, Chat!SessionsFetched(r) PROVE ChatFreshInv'
<1>1. r.ask.op = "sessions" /\ r.got # Waiting /\ Chat!Done(r)
  BY DEF Chat!SessionsFetched, Chat!Came
<1>2. /\ net' = net \ {r} /\ UNCHANGED server /\ (raced => raced') /\ (ChatLost => ChatLost' \/ raced')
      /\ ChatSaysInv' /\ (~raced' /\ Served(r) => ChatSays(r))
  BY <1>1, ChatEnded DEF ChatStrands
<1>3. CASE r.got = Failed
  <2>1. ui'.strayed
    BY <1>3, ChatPage DEF Chat!SessionsFetched, ChatApp
  <2> QED
    BY <1>2, <2>1 DEF ChatFreshInv, ChatRowsInv, ChatAllInv, ChatTalkInv, ChatSettled
<1>4. CASE r.got # Failed
  <2>1. ui' = [ui EXCEPT !.sessions = r.got] /\ Served(r)
    BY <1>1, <1>4 DEF Chat!SessionsFetched, Served
  <2>2. /\ ui'.sessions = r.got /\ ui'.active = ui.active /\ ui'.messages = ui.messages
        /\ ui'.generating = ui.generating /\ ui'.strayed = ui.strayed
    BY <2>1, ChatPage DEF ChatApp
  <2>3. ChatSettled' => r.got = server.sessions
    BY <1>1, <1>2, <2>1 DEF ChatSettled, ChatSays
  <2>4. ChatRowsInv' /\ ChatAllInv'
    BY <1>2, <2>2, <2>3 DEF ChatRowsInv, ChatAllInv, ChatRow
  <2>5. ChatTalkInv'
    BY <1>1, <1>2, <2>2, ChatTalkKept
  <2> QED
    BY <1>2, <2>4, <2>5 DEF ChatFreshInv
<1> QED
  BY <1>3, <1>4

LEMMA ChatRenamedFresh == ASSUME ChatIInv, ChatFreshInv, NEW r \in net, Chat!Renamed(r) PROVE ChatFreshInv'
<1> DEFINE a == r.ask.active
           f == IF r.got = Failed \/ a \notin DOMAIN ui.sessions THEN ui.sessions
                ELSE [ui.sessions EXCEPT ![a].name = "renamed"]
<1>1. r.ask.op = "rename" /\ r.got # Waiting /\ Chat!Done(r)
  BY DEF Chat!Renamed, Chat!Came
<1>2. /\ net' = net \ {r} /\ UNCHANGED server /\ (raced => raced') /\ (ChatLost => ChatLost' \/ raced')
      /\ ChatSaysInv' /\ (~raced' /\ Served(r) => ChatSays(r))
  BY <1>1, ChatEnded DEF ChatStrands
<1>3. (ui' = ui /\ f = ui.sessions) \/ ui' = [ui EXCEPT !.sessions = f]
  BY DEF Chat!Renamed
<1>4. /\ DOMAIN f = DOMAIN ui.sessions
      /\ \A x \in DOMAIN f : x # a => f[x] = ui.sessions[x]
      /\ a \in DOMAIN f /\ r.got # Failed => f[a] = ChatRenamed(ui.sessions[a])
      /\ r.got = Failed => f = ui.sessions
  <2>1. PICK D \in SUBSET Int : ui.sessions \in [D -> ChatKept]
    BY ChatPage DEF ChatSessions
  <2> QED
    BY <2>1 DEF ChatRenamed
<1>5. \A x \in DOMAIN ui.sessions : ui.sessions[x] \in ChatKept
  BY ChatPage, ChatSessionsKept
<1> HIDE DEF f
<1>6. /\ ui'.sessions = f /\ ui'.active = ui.active /\ ui'.messages = ui.messages
      /\ ui'.generating = ui.generating /\ ui'.strayed = ui.strayed
  BY <1>3, ChatPage DEF ChatApp
<1>7. ChatTalkInv'
  BY <1>1, <1>2, <1>6, ChatTalkKept
<1>8. ChatSettled' => ChatSettled /\ (r.got # Failed => a \in DOMAIN server.sessions /\ server.sessions[a].name = "renamed")
  BY <1>1, <1>2, <1>6 DEF ChatSettled, ChatSays, Served
<1>9. ChatAllInv'
  BY <1>1, <1>2, <1>4, <1>6, <1>8 DEF ChatFreshInv, ChatAllInv, ChatCreates, ChatPuts
<1>10. ChatRowsInv'
  <2>1. ASSUME ChatSettled', NEW x \in DOMAIN f PROVE ChatRow(x)'
    <3>1. ChatRow(x)
      BY <1>4, <1>8, <2>1 DEF ChatFreshInv, ChatRowsInv
    <3>2. CASE x # a \/ r.got = Failed
      <4>1. f[x] = ui.sessions[x]
        BY <1>4, <2>1, <3>2
      <4>2. ~ChatDrops(r, x) /\ ~ChatPuts(r, x) /\ ~ChatNames(r, x)
        BY <1>1, <3>2 DEF ChatDrops, ChatPuts, ChatNames, Acted
      <4> QED
        BY <1>2, <1>6, <3>1, <4>1, <4>2 DEF ChatRow, ChatDrops, ChatPuts, ChatNames
    <3>3. CASE x = a /\ r.got # Failed
      <4>1. f[x] = ChatRenamed(ui.sessions[x]) /\ x \in DOMAIN server.sessions /\ server.sessions[x].name = "renamed"
        BY <1>4, <1>8, <2>1, <3>3
      <4>2. ui.sessions[x] = server.sessions[x] => ChatRenamed(ui.sessions[x]) = ui.sessions[x]
        BY <1>4, <1>5, <2>1, <4>1 DEF ChatRenamed, ChatKept
      <4>3. ~ChatDrops(r, x) /\ ~ChatPuts(r, x)
        BY <1>1 DEF ChatDrops, ChatPuts
      <4> QED
        BY <1>2, <1>6, <3>1, <4>1, <4>2, <4>3 DEF ChatRow, ChatDrops, ChatPuts
    <3> QED
      BY <3>2, <3>3
  <2> QED
    BY <1>6, <2>1 DEF ChatRowsInv
<1> QED
  BY <1>2, <1>7, <1>9, <1>10 DEF ChatFreshInv

LEMMA ChatDeletedFresh == ASSUME ChatIInv, ChatFreshInv, NEW r \in net, Chat!SessionDeleted(r) PROVE ChatFreshInv'
<1>1. r.ask.op = "delete" /\ r.got # Waiting /\ Chat!Done(r)
  BY DEF Chat!SessionDeleted, Chat!Came
<1>2. /\ net' = net \ {r} /\ UNCHANGED server /\ (raced => raced') /\ (ChatLost => ChatLost' \/ raced')
      /\ ChatSaysInv' /\ (~raced' /\ Served(r) => ChatSays(r))
  BY <1>1, ChatEnded DEF ChatStrands
<1>3. CASE r.got = Failed
  <2>1. ui' = ui /\ ~Acted(r)
    BY <1>3 DEF Chat!SessionDeleted, Acted
  <2>2. ChatSaysInv' /\ ChatRowsInv' /\ ChatAllInv' /\ ChatTalkInv'
    BY <1>1, <1>2, <2>1, ChatListKept, ChatTalkKept
  <2> QED
    BY <2>2 DEF ChatFreshInv
<1>4. CASE r.got # Failed
  <2> DEFINE a == r.ask.active
             f == Chat!Drop(ui.sessions, a)
             rest == [ui EXCEPT !.sessions = f]
             strayed == rest.strayed \/ ui.active = a
  <2>1. f \in ChatSessions /\ DOMAIN f = DOMAIN ui.sessions \ {a} /\ \A x \in DOMAIN f : f[x] = ui.sessions[x]
    BY ChatPage, ChatDropKept DEF Chat!Drop
  <2>2. IF r.ask.shown = a THEN ui' = Chat!Strays(Chat!Blank(rest)) ELSE ui' = [rest EXCEPT !.strayed = strayed]
    BY <1>4 DEF Chat!SessionDeleted
  <2> HIDE DEF f
  <2>3. /\ rest \in ChatApp /\ rest.messages = ui.messages /\ rest.generating = ui.generating /\ rest.sessions = f
        /\ rest.active = ui.active /\ rest.strayed = ui.strayed
    BY <2>1, ChatPage DEF ChatApp
  <2>4. strayed \in BOOLEAN /\ (strayed <=> ui.strayed \/ ui.active = a)
    BY <2>3
  <2> HIDE DEF rest, strayed
  <2>5. \/ /\ ui'.active = None /\ (~ui'.strayed => ~ui.strayed /\ \A q \in net : ~ChatExchanging(q))
           /\ ui'.sessions = f
        \/ /\ ui'.active = ui.active /\ ui'.messages = ui.messages /\ ui'.generating = ui.generating
           /\ (~ui'.strayed => ~ui.strayed /\ ui.active # a)
           /\ ui'.sessions = f
    <3>1. CASE r.ask.shown = a
      <4> DEFINE blank == Chat!Blank(rest)
      <4>1. blank \in ChatApp /\ blank.active = None /\ blank.sessions = f
        BY <2>3, ChatBlankPage, ChatBlankShows
      <4>2. blank.strayed = ui.strayed
        BY <2>3 DEF Chat!Blank, ChatApp
      <4>3. ui' = Chat!Strays(blank)
        BY <2>2, <3>1
      <4> HIDE DEF blank
      <4>4. ui'.active = None /\ ui'.sessions = f
        BY <4>1, <4>3, ChatStraysShows
      <4>5. ~ui'.strayed => ~ui.strayed /\ \A q \in net : ~ChatExchanging(q)
        BY <4>1, <4>2, <4>3, ChatLeft
      <4> QED
        BY <4>4, <4>5
    <3>2. CASE r.ask.shown # a
      BY <2>2, <2>3, <2>4, <3>2 DEF ChatApp
    <3> QED
      BY <3>1, <3>2
  <2>6. Served(r) /\ ui'.sessions = f
    BY <1>1, <1>4, <2>5 DEF Served
  <2>7. ChatSettled' => ChatSettled /\ a \notin DOMAIN server.sessions
    BY <1>1, <1>2, <2>5, <2>6 DEF ChatSettled, ChatSays
  <2>8. \A x : x # a => ~ChatDrops(r, x) /\ ~ChatPuts(r, x) /\ ~ChatNames(r, x) /\ ~ChatCreates(r, x)
    BY <1>1 DEF ChatDrops, ChatPuts, ChatNames, ChatCreates
  <2> HIDE DEF a
  <2>9. ChatRowsInv'
    <3>1. ASSUME ChatSettled', NEW x \in DOMAIN f PROVE ChatRow(x)'
      <4>1. ChatRow(x) /\ x # a /\ f[x] = ui.sessions[x]
        BY <2>1, <2>7, <3>1 DEF ChatFreshInv, ChatRowsInv
      <4> QED
        BY <1>2, <2>6, <2>8, <4>1 DEF ChatRow, ChatDrops, ChatPuts, ChatNames
    <3> QED
      BY <2>6, <3>1 DEF ChatRowsInv
  <2>10. ChatAllInv'
    <3>1. ASSUME ChatSettled', NEW x \in DOMAIN server.sessions
          PROVE  x \in DOMAIN f \/ \E q \in net \ {r} : ChatCreates(q, x) \/ q.ask.op = "sessions"
      BY <1>1, <2>1, <2>7, <2>8, <3>1 DEF ChatFreshInv, ChatAllInv
    <3> QED
      BY <1>2, <2>6, <3>1 DEF ChatAllInv, ChatCreates, ChatPuts
  <2>11. ChatTalkInv'
    <3>1. CASE ui'.active = None /\ (~ui'.strayed => \A q \in net : ~ChatExchanging(q))
      BY <1>2, <3>1 DEF ChatTalkInv, ChatSettled, ChatExchanging
    <3>2. CASE /\ ui'.active = ui.active /\ ui'.messages = ui.messages /\ ui'.generating = ui.generating
               /\ (~ui'.strayed => ui.active # a)
      <4>1. ChatSettled' => ~ChatDrops(r, ui.active)
        BY <2>8, <3>2 DEF ChatSettled
      <4> QED
        BY <1>2, <2>7, <3>2, <4>1 DEF ChatFreshInv, ChatTalkInv, ChatDrops, ChatExchanging
    <3> QED
      BY <2>5, <3>1, <3>2
  <2> QED
    BY <1>2, <2>9, <2>10, <2>11 DEF ChatFreshInv
<1> QED
  BY <1>3, <1>4

LEMMA ChatFilesFresh ==
    ASSUME ChatIInv, ChatFreshInv, NEW r \in net, Chat!Uploaded(r) \/ Chat!AttachmentRemoved(r)
    PROVE  ChatFreshInv'
<1> DEFINE ask == [op |-> "upload", left |-> r.ask.left - 1]
<1>1. /\ r.ask.op \in {"upload", "unattach"} /\ (Chat!Done(r) \/ Chat!Go(r, <<ask>>))
      /\ \E files, uploading : ui' \in {[ui EXCEPT !.files = files], [ui EXCEPT !.files = files, !.uploading = uploading]}
  BY DEF Chat!Uploaded, Chat!AttachmentRemoved, Chat!Came, Chat!Done
<1>2. ask.op = "upload"
  OBVIOUS
<1> HIDE DEF ask
<1>3. /\ ui'.sessions = ui.sessions /\ ui'.active = ui.active /\ ui'.messages = ui.messages
      /\ ui'.generating = ui.generating /\ ui'.strayed = ui.strayed
  BY <1>1, ChatPage DEF ChatApp
<1>4. net' = net \ {r} \/ net' = (net \ {r}) \cup {NewRequest(sent, ask)}
  BY <1>1, ChatEnds, ChatAsks1 DEF ChatIInv, ChatTypeInv
<1>5. UNCHANGED server /\ (raced => raced') /\ (ChatLost => ChatLost' \/ raced')
  BY <1>1, ChatRaces, ChatDoomed DEF Chat!Done, ChatStrands
<1>6. NewRequest(sent, ask).ask = ask /\ ~Served(NewRequest(sent, ask)) /\ ~Acted(NewRequest(sent, ask))
  BY NewIsWaiting
<1>7. ChatSaysInv' /\ ChatRowsInv' /\ ChatAllInv'
  BY <1>1, <1>3, <1>4, <1>5, <1>6, ChatListKept
<1>8. ChatTalkInv'
  BY <1>1, <1>2, <1>3, <1>4, <1>5, <1>6, ChatTalkKept DEF ChatExchanging
<1> QED
  BY <1>7, <1>8 DEF ChatFreshInv
-----------------------------------------------------------------------------
\* What the gateway holds once it has done what r asks.
LEMMA ChatEffects ==
    ASSUME ChatIInv, NEW r \in net, ~Chat!Refused(r)
    PROVE  /\ r.ask.op \notin {"save", "rename", "delete"} => Chat!Effect(r) = server
           /\ r.ask.op = "save" =>
                 /\ DOMAIN Chat!Effect(r).sessions = DOMAIN server.sessions \cup {Chat!SavedAs(r)}
                 /\ Chat!Effect(r).sessions[Chat!SavedAs(r)] = Chat!Reply(r)
                 /\ Chat!Reply(r).messages = r.ask.messages
                 /\ \A x \in DOMAIN server.sessions : x # Chat!SavedAs(r) => Chat!Effect(r).sessions[x] = server.sessions[x]
                 /\ r.ask.active # None => Chat!SavedAs(r) \in DOMAIN server.sessions
           /\ r.ask.op = "rename" =>
                 /\ r.ask.active \in DOMAIN server.sessions
                 /\ DOMAIN Chat!Effect(r).sessions = DOMAIN server.sessions
                 /\ Chat!Effect(r).sessions[r.ask.active] = ChatRenamed(server.sessions[r.ask.active])
                 /\ \A x \in DOMAIN server.sessions : x # r.ask.active => Chat!Effect(r).sessions[x] = server.sessions[x]
           /\ r.ask.op = "delete" =>
                 /\ DOMAIN Chat!Effect(r).sessions = DOMAIN server.sessions \ {r.ask.active}
                 /\ \A x \in DOMAIN server.sessions : x # r.ask.active => Chat!Effect(r).sessions[x] = server.sessions[x]
<1>1. server \in [sessions : ChatSessions] /\ server.sessions \in ChatSessions
  BY DEF ChatIInv, ChatTypeInv
<1>2. CASE r.ask.op = "save"
  <2> DEFINE f == Chat!Put(server.sessions, Chat!SavedAs(r), Chat!Saved(r))
  <2>1. Chat!Effect(r) = [server EXCEPT !.sessions = f] /\ Chat!Reply(r) = Chat!Saved(r)
    BY <1>2 DEF Chat!Effect, Chat!Reply
  <2>2. /\ DOMAIN f = DOMAIN server.sessions \cup {Chat!SavedAs(r)}
        /\ f[Chat!SavedAs(r)] = Chat!Saved(r)
        /\ \A x \in DOMAIN server.sessions : x # Chat!SavedAs(r) => f[x] = server.sessions[x]
    BY DEF Chat!Put
  <2>3. Chat!Saved(r).messages = r.ask.messages
    BY DEF Chat!Saved, Chat!Session
  <2>4. r.ask.active # None => Chat!SavedAs(r) \in DOMAIN server.sessions
    BY <1>2 DEF Chat!Refused, Chat!SavedAs
  <2> HIDE DEF f
  <2>5. Chat!Effect(r).sessions = f
    BY <1>1, <2>1
  <2> QED
    BY <1>2, <2>1, <2>2, <2>3, <2>4, <2>5
<1>3. CASE r.ask.op = "rename"
  <2> DEFINE f == [server.sessions EXCEPT ![r.ask.active].name = "renamed"]
  <2>1. Chat!Effect(r) = [server EXCEPT !.sessions = f] /\ r.ask.active \in DOMAIN server.sessions
    BY <1>3 DEF Chat!Effect, Chat!Refused
  <2>2. PICK D \in SUBSET Int : server.sessions \in [D -> ChatKept]
    BY <1>1 DEF ChatSessions
  <2>3. /\ DOMAIN f = DOMAIN server.sessions
        /\ f[r.ask.active] = ChatRenamed(server.sessions[r.ask.active])
        /\ \A x \in DOMAIN server.sessions : x # r.ask.active => f[x] = server.sessions[x]
    BY <2>1, <2>2 DEF ChatRenamed
  <2> HIDE DEF f
  <2>4. Chat!Effect(r).sessions = f
    BY <1>1, <2>1
  <2> QED
    BY <1>3, <2>1, <2>3, <2>4
<1>4. CASE r.ask.op = "delete"
  <2> DEFINE f == Chat!Drop(server.sessions, r.ask.active)
  <2>1. Chat!Effect(r) = [server EXCEPT !.sessions = f]
    BY <1>4 DEF Chat!Effect
  <2>2. /\ DOMAIN f = DOMAIN server.sessions \ {r.ask.active}
        /\ \A x \in DOMAIN server.sessions : x # r.ask.active => f[x] = server.sessions[x]
    BY DEF Chat!Drop
  <2> HIDE DEF f
  <2>3. Chat!Effect(r).sessions = f
    BY <1>1, <2>1
  <2> QED
    BY <1>4, <2>2, <2>3
<1>5. CASE r.ask.op \notin {"save", "rename", "delete"}
  BY <1>5 DEF Chat!Effect
<1> QED
  BY <1>2, <1>3, <1>4, <1>5

\* What marks an answer that is not there is no reply of a handler that writes.
LEMMA ChatReplied ==
    ASSUME ChatIInv, NEW r \in net, ~Chat!Refused(r), r.ask.op \in {"save", "rename", "delete"}
    PROVE  Chat!Reply(r) # Waiting /\ Chat!Reply(r) # Failed
<1>1. CASE r.ask.op = "save"
  <2>1. Chat!Reply(r) \in ChatKept
    BY <1>1, ChatReplyFits
  <2> DEFINE Lines == Seq({"prompt", "answer", "error"} \X Int)
  <2>2. ASSUME NEW m \in ChatWhole PROVE m \in Lines
    BY DEF ChatWhole, ChatTranscript, ChatMessage
  <2> HIDE DEF Lines
  <2>3. ASSUME NEW session \in ChatKept
        PROVE  session \in [name : {"auto", "renamed"}, messages : Lines, files : SUBSET Int, prompt : Int]
    BY <2>2 DEF ChatKept
  <2> QED
    BY <2>1, <2>3, RepliesApart DEF Lines
<1>2. CASE r.ask.op \in {"rename", "delete"}
  <2>1. Chat!Reply(r) = r.id /\ r.id \in Int
    BY <1>2, ChatFits, ChatFields DEF Chat!Reply
  <2> QED
    BY <2>1, RepliesApart
<1> QED
  BY <1>1, <1>2

LEMMA ChatServeFresh ==
    ASSUME ChatIInv, ChatFreshInv,
           Chat!Serve(Chat!Refused, Chat!Effect, Chat!Reply) \/ Chat!Repeat(Chat!Refused, Chat!Effect)
    PROVE  ChatFreshInv'
<1>1. /\ net \subseteq ChatSent /\ sent \in Nat
      /\ \A r \in net : ~Chat!Refused(r) => Chat!Reply(r) \in ChatGots
  BY ChatReplyFits DEF ChatIInv, ChatTypeInv, ChatGots
<1>9. CASE raced'
  BY <1>9 DEF ChatFreshInv, ChatSaysInv, ChatRowsInv, ChatAllInv, ChatTalkInv, ChatSettled
<1> SUFFICES ASSUME ~raced' PROVE ChatFreshInv'
  BY <1>9
<1> DEFINE Replied(r, new) == ~Chat!Refused(r) /\ new[r].got = Chat!Reply(r) /\ server' = Chat!Effect(r) /\ new[r].id = r.id
           Again(r, new) == /\ ~Chat!Refused(r) /\ new[r].got = Waiting /\ new[r].acts # 0 /\ server' = Chat!Effect(r)
                            /\ server' # server
           Unheard(r, new) == new[r].got = Failed /\ server' = server /\ r.acts = 0 /\ new[r].id = r.id
<1>2. PICK r \in net : \E new \in [net -> ChatSent] :
              r.got = Waiting /\ Serves(r, new) /\ ~raced /\ (Replied(r, new) \/ Unheard(r, new) \/ Again(r, new))
  BY <1>1, ChatServingOnTime
<1>3. PICK new \in [net -> ChatSent] :
              r.got = Waiting /\ Serves(r, new) /\ ~raced /\ (Replied(r, new) \/ Unheard(r, new) \/ Again(r, new))
  BY <1>2
<1>4. ui' = ui /\ net' = {new[q] : q \in net}
  BY <1>3 DEF Serves
<1>5. \A q \in net : new[q].ask = q.ask
  BY <1>3 DEF Serves
<1>6. \A q \in net : q # r => new[q].got = q.got /\ new[q].id = q.id /\ new[q].acts = q.acts
  BY <1>3 DEF Serves
<1>7. ChatLost => ChatLost'
  <2>1. ASSUME NEW q \in net, Served(q), q.late PROVE Served(new[q]) /\ new[q].late
    <3>1. q # r
      BY <1>3, <2>1 DEF Served
    <3> QED
      BY <1>3, <2>1, <3>1 DEF Serves, Served
  <2>2. ASSUME NEW q \in net, ChatStrands(q) PROVE ChatStrands(new[q])
    BY <1>3, <1>5, <1>6, <2>2 DEF Serves, ChatStrands
  <2> QED
    BY <1>4, <2>1, <2>2 DEF ChatLost, Doomed
<1>24. ASSUME ~ChatLost', NEW q \in net, q.ask.op = "save" PROVE Chat!SavedAs(new[q]) = Chat!SavedAs(q)
  <2>1. ~ChatStrands(new[q])
    BY <1>4, <1>24 DEF ChatLost
  <2> QED
    BY <1>3, <1>5, <1>6, <1>24, <2>1 DEF Chat!SavedAs, ChatStrands
<1>25. ASSUME NEW q \in net, Acted(q), q.ask.op \in {"save", "rename", "delete"} PROVE Acted(new[q])
  <2>1. CASE q # r
    BY <1>6, <1>25, <2>1 DEF Acted
  <2>2. CASE q = r
    <3>1. r.acts # 0
      BY <1>3, <1>25, <2>2 DEF Acted
    <3>2. Replied(r, new) => new[r].got # Waiting /\ new[r].got # Failed
      BY <1>25, <2>2, ChatReplied
    <3> QED
      BY <1>3, <2>2, <3>1, <3>2, RepliesApart DEF Acted
  <2> QED
    BY <2>1, <2>2
<1>8. ~ChatLost' =>
      /\ \A q \in net : \A x : ChatDrops(q, x) => ChatDrops(new[q], x)
      /\ \A q \in net : \A x : ChatNames(q, x) => ChatNames(new[q], x)
      /\ \A q \in net : \A x : ChatPuts(q, x) => ChatPuts(new[q], x)
      /\ \A q \in net : \A x : ChatCreates(q, x) => ChatCreates(new[q], x)
  BY <1>5, <1>24, <1>25 DEF ChatDrops, ChatNames, ChatPuts, ChatCreates
<1>10. ASSUME OnTime(new[r]) => ChatSays(new[r])' PROVE ChatSaysInv'
  <2>1. ASSUME NEW q \in net, q # r, OnTime(new[q]) PROVE ChatSays(new[q])'
    <3>1. OnTime(q) /\ server' = server /\ new[q].ask = q.ask /\ new[q].got = q.got
      BY <1>3, <2>1, OnTimeAfter
    <3>2. ChatSays(q) /\ Chat!SavedAs(new[q]) = Chat!SavedAs(q)
      BY <1>3, <1>5, <1>6, <2>1, <3>1 DEF ChatFreshInv, ChatSaysInv, Chat!SavedAs
    <3> QED
      BY <3>1, <3>2 DEF ChatSays
  <2> QED
    BY <1>4, <1>10, <2>1 DEF ChatSaysInv
<1>11. ChatSettled' => ChatSettled /\ ~ChatLost'
  BY <1>3, <1>4, <1>7 DEF ChatSettled
<1>12. (\A q \in net : ChatExchanging(q) => q.ask.active = ui.active) =>
           \A p \in net' : ChatExchanging(p) => p.ask.active = ui'.active
  BY <1>4, <1>5 DEF ChatExchanging
<1>13. (\A q \in net : q.ask.op = "save" => ui.messages = q.ask.messages) =>
           \A p \in net' : p.ask.op = "save" => ui'.messages = p.ask.messages
  BY <1>4, <1>5
<1>14. ~ChatLost' /\ (\E q \in net : ChatDrops(q, ui.active))
          => \E p \in net' : ChatDrops(p, ui'.active)
  BY <1>4, <1>8
<1>15. CASE server' = server
  <2>1. OnTime(new[r]) => ChatSays(new[r])'
    <3>1. CASE Unheard(r, new) \/ Again(r, new)
      BY <3>1 DEF OnTime, Served
    <3>2. CASE Replied(r, new)
      <4>1. Chat!SavedAs(new[r]) = Chat!SavedAs(r)
        BY <1>5, <3>2 DEF Chat!SavedAs
      <4>2. r.ask.op = "sessions" => Chat!Reply(r) = server.sessions
        BY DEF Chat!Reply
      <4>3. \A x \in DOMAIN server.sessions : server.sessions[x] \in ChatKept
        BY ChatSessionsKept DEF ChatIInv, ChatTypeInv
      <4>4. r.ask.op = "rename" => ChatRenamed(server.sessions[r.ask.active]).name = "renamed"
        BY <3>2, <4>3, ChatEffects DEF ChatRenamed, ChatKept
      <4> QED
        BY <1>5, <1>15, <3>2, <4>1, <4>2, <4>4, ChatEffects DEF ChatSays
    <3> QED
      BY <1>3, <3>1, <3>2
  <2>2. ChatSaysInv'
    BY <1>10, <1>15, <2>1
  <2>3. ~ChatLost' => \A x : ChatRow(x) => ChatRow(x)'
    BY <1>4, <1>8, <1>15 DEF ChatRow
  <2>4. ChatRowsInv'
    BY <1>4, <1>11, <1>15, <2>3 DEF ChatFreshInv, ChatRowsInv
  <2>5. ChatAllInv'
    BY <1>4, <1>5, <1>8, <1>11, <1>15 DEF ChatFreshInv, ChatAllInv
  <2>6. ChatTalkInv'
    BY <1>4, <1>11, <1>12, <1>13, <1>14, <1>15 DEF ChatFreshInv, ChatTalkInv
  <2> QED
    BY <2>2, <2>4, <2>5, <2>6 DEF ChatFreshInv
<1> DEFINE Done == Replied(r, new) \/ Again(r, new)
<1>26. Done => ~Chat!Refused(r) /\ server' = Chat!Effect(r)
  OBVIOUS
<1>16. CASE Done /\ r.ask.op \notin {"save", "rename", "delete"}
  BY <1>15, <1>16, <1>26, ChatEffects
<1>17. ASSUME Done, r.ask.op \in {"save", "rename", "delete"}
       PROVE  /\ Acted(new[r]) /\ new[r] \in net' /\ (OnTime(new[r]) => new[r].got = Chat!Reply(r) /\ new[r].id = r.id)
              /\ new[r].ask = r.ask
  <2>1. Replied(r, new) => Acted(new[r])
    BY <1>17, ChatReplied DEF Acted
  <2>2. Again(r, new) => Acted(new[r]) /\ ~OnTime(new[r])
    BY RepliesApart DEF Acted, OnTime, Served
  <2> QED
    BY <1>4, <1>5, <1>17, <2>1, <2>2
<1>18. \A x \in DOMAIN ui.sessions : ui.sessions[x] \in ChatKept
  BY ChatPage, ChatSessionsKept
<1>19. \A x \in DOMAIN server.sessions : server.sessions[x] \in ChatKept
  BY ChatSessionsKept DEF ChatIInv, ChatTypeInv
\* A session that the request does not touch.
<1>20. ASSUME NEW x, x \in DOMAIN server'.sessions <=> x \in DOMAIN server.sessions,
              x \in DOMAIN server.sessions => server'.sessions[x] = server.sessions[x]
       PROVE  ~ChatLost' /\ ChatRow(x) => ChatRow(x)'
  BY <1>4, <1>8, <1>20 DEF ChatRow
<1>21. CASE Done /\ r.ask.op = "save"
  <2> DEFINE as == Chat!SavedAs(r)
  <2>1. /\ DOMAIN server'.sessions = DOMAIN server.sessions \cup {as} /\ server'.sessions[as] = Chat!Reply(r)
        /\ Chat!Reply(r).messages = r.ask.messages
        /\ \A x \in DOMAIN server.sessions : x # as => server'.sessions[x] = server.sessions[x]
        /\ r.ask.active # None => as \in DOMAIN server.sessions
    BY <1>21, <1>26, ChatEffects
  <2>2. /\ Acted(new[r]) /\ new[r] \in net' /\ new[r].ask = r.ask
        /\ OnTime(new[r]) => new[r].got = Chat!Reply(r) /\ Chat!SavedAs(new[r]) = as
    BY <1>17, <1>21 DEF Chat!SavedAs
  <2>3. ~ChatLost' => ChatPuts(new[r], as) /\ (r.ask.active = None => ChatCreates(new[r], as))
    BY <1>21, <1>24, <2>2 DEF ChatPuts, ChatCreates
  <2> HIDE DEF as
  <2>4. ChatSaysInv'
    BY <1>10, <1>21, <2>1, <2>2 DEF ChatSays
  <2>5. ChatRowsInv'
    <3>1. ASSUME ChatSettled', NEW x \in DOMAIN ui.sessions PROVE ChatRow(x)'
      <4>1. CASE x = as
        BY <1>11, <2>1, <2>2, <2>3, <3>1, <4>1 DEF ChatRow
      <4>2. CASE x # as
        BY <1>11, <1>20, <1>21, <2>1, <3>1, <4>2 DEF ChatFreshInv, ChatRowsInv
      <4> QED
        BY <4>1, <4>2
    <3> QED
      BY <1>4, <3>1 DEF ChatRowsInv
  <2>6. ChatAllInv'
    <3>1. ASSUME ChatSettled', NEW x \in DOMAIN server'.sessions
          PROVE  x \in DOMAIN ui.sessions \/ \E p \in net' : ChatCreates(p, x) \/ p.ask.op = "sessions"
      <4>1. CASE x \in DOMAIN server.sessions
        BY <1>4, <1>5, <1>8, <1>11, <1>21, <3>1, <4>1 DEF ChatFreshInv, ChatAllInv
      <4>2. CASE x \notin DOMAIN server.sessions
        BY <1>11, <2>1, <2>2, <2>3, <3>1, <4>2
      <4> QED
        BY <4>1, <4>2
    <3> QED
      BY <1>4, <3>1 DEF ChatAllInv
  <2>7. ui.generating
    BY <1>21 DEF ChatIInv, ChatExchangeInv, ChatExchanging
  <2>8. ChatTalkInv'
    BY <1>4, <1>11, <1>12, <1>13, <1>21, <2>7 DEF ChatFreshInv, ChatTalkInv
  <2> QED
    BY <2>4, <2>5, <2>6, <2>8 DEF ChatFreshInv
<1>22. CASE Done /\ r.ask.op = "rename"
  <2> DEFINE a == r.ask.active
  <2>1. /\ a \in DOMAIN server.sessions /\ DOMAIN server'.sessions = DOMAIN server.sessions
        /\ server'.sessions[a] = ChatRenamed(server.sessions[a])
        /\ \A x \in DOMAIN server.sessions : x # a => server'.sessions[x] = server.sessions[x]
    BY <1>22, <1>26, ChatEffects
  <2>2. /\ Acted(new[r]) /\ new[r] \in net' /\ new[r].ask = r.ask
        /\ OnTime(new[r]) => new[r].got = Chat!Reply(r)
    BY <1>17, <1>22
  <2>3. ChatNames(new[r], a)
    BY <1>22, <2>2 DEF ChatNames
  <2>4. \A x \in DOMAIN server.sessions : /\ ChatRenamed(server.sessions[x]).name = "renamed"
                                          /\ ChatRenamed(server.sessions[x]).messages = server.sessions[x].messages
                                          /\ ChatRenamed(ChatRenamed(server.sessions[x])) = ChatRenamed(server.sessions[x])
    BY <1>19 DEF ChatRenamed, ChatKept
  <2>5. \A x \in DOMAIN server.sessions : server'.sessions[x].messages = server.sessions[x].messages
    BY <2>1, <2>4
  <2>6. ChatSaysInv'
    BY <1>10, <1>22, <2>1, <2>2, <2>4 DEF ChatSays
  <2>7. ChatRowsInv'
    <3>1. ASSUME ChatSettled', NEW x \in DOMAIN ui.sessions PROVE ChatRow(x)'
      <4>1. ChatRow(x)
        BY <1>11, <1>22, <3>1 DEF ChatFreshInv, ChatRowsInv
      <4>2. CASE x = a
        <5>1. CASE \E q \in net : ChatDrops(q, x) \/ ChatPuts(q, x)
          BY <1>4, <1>8, <1>11, <2>1, <3>1, <4>2, <5>1 DEF ChatRow
        <5>2. CASE ChatRenamed(ui.sessions[x]) = server.sessions[x]
          <6>1. ChatRenamed(ChatRenamed(ui.sessions[x])) = ChatRenamed(ui.sessions[x])
            BY <1>18, <3>1 DEF ChatRenamed, ChatKept
          <6> QED
            BY <1>4, <2>1, <2>2, <2>3, <4>2, <5>2, <6>1 DEF ChatRow
        <5>3. CASE ui.sessions[x] = server.sessions[x]
          BY <1>4, <2>1, <2>2, <2>3, <4>2, <5>3 DEF ChatRow
        <5> QED
          BY <4>1, <5>1, <5>2, <5>3 DEF ChatRow
      <4>3. CASE x # a
        BY <1>11, <1>20, <2>1, <3>1, <4>1, <4>3
      <4> QED
        BY <4>2, <4>3
    <3> QED
      BY <1>4, <3>1 DEF ChatRowsInv
  <2>8. ChatAllInv'
    BY <1>4, <1>5, <1>8, <1>11, <1>22, <2>1 DEF ChatFreshInv, ChatAllInv
  <2>9. ChatTalkInv'
    BY <1>4, <1>11, <1>12, <1>13, <1>14, <1>22, <2>1, <2>5 DEF ChatFreshInv, ChatTalkInv
  <2> QED
    BY <2>6, <2>7, <2>8, <2>9 DEF ChatFreshInv
<1>23. CASE Done /\ r.ask.op = "delete"
  <2> DEFINE a == r.ask.active
  <2>1. /\ DOMAIN server'.sessions = DOMAIN server.sessions \ {a}
        /\ \A x \in DOMAIN server.sessions : x # a => server'.sessions[x] = server.sessions[x]
    BY <1>23, <1>26, ChatEffects
  <2>2. /\ Acted(new[r]) /\ new[r] \in net' /\ new[r].ask = r.ask
        /\ OnTime(new[r]) => new[r].got = Chat!Reply(r)
    BY <1>17, <1>23
  <2>3. ChatDrops(new[r], a)
    BY <1>23, <2>2 DEF ChatDrops
  <2>4. ChatSaysInv'
    BY <1>10, <1>23, <2>1, <2>2 DEF ChatSays
  <2> HIDE DEF a
  <2>5. ChatRowsInv'
    <3>1. ASSUME ChatSettled', NEW x \in DOMAIN ui.sessions PROVE ChatRow(x)'
      <4>1. CASE x = a
        BY <2>2, <2>3, <4>1 DEF ChatRow
      <4>2. CASE x # a
        BY <1>11, <1>20, <1>23, <2>1, <3>1, <4>2 DEF ChatFreshInv, ChatRowsInv
      <4> QED
        BY <4>1, <4>2
    <3> QED
      BY <1>4, <3>1 DEF ChatRowsInv
  <2>6. ChatAllInv'
    BY <1>4, <1>5, <1>8, <1>11, <1>23, <2>1 DEF ChatFreshInv, ChatAllInv
  <2>7. ChatTalkInv'
    <3>1. CASE ui.active = a
      BY <1>4, <1>11, <1>12, <1>13, <1>23, <2>2, <2>3, <3>1 DEF ChatFreshInv, ChatTalkInv
    <3>2. CASE ui.active # a
      BY <1>4, <1>11, <1>12, <1>13, <1>14, <1>23, <2>1, <3>2 DEF ChatFreshInv, ChatTalkInv
    <3> QED
      BY <3>1, <3>2
  <2> QED
    BY <2>4, <2>5, <2>6, <2>7 DEF ChatFreshInv
<1> QED
  BY <1>3, <1>15, <1>16, <1>21, <1>22, <1>23

LEMMA ChatNextFresh == ASSUME ChatIInv, ChatFreshInv, [Chat!Next]_(Chat!vars) PROVE ChatFreshInv'
<1>1. CASE Chat!Clear \/ Chat!EditPrompt \/ Chat!NewSession \/ Chat!CancelRename
           \/ \E id \in 0 .. MaxRequests : Chat!SelectSession(id) \/ Chat!StartRename(id)
  BY <1>1, ChatLocalFresh
<1>2. CASE \/ Chat!ConfirmRename \/ (\E id \in 0 .. MaxRequests : Chat!DeleteSession(id))
           \/ (\E n \in 1 .. 2 : Chat!AttachFiles(n)) \/ (\E f \in ui.files : Chat!RemoveAttachment(f))
  BY <1>2, ChatSendFresh
<1>3. CASE Chat!SendMessage
  BY <1>3, ChatSendMessageFresh
<1>4. CASE \E r \in net : Chat!ChatAnswered(r) \/ Chat!SessionSaved(r) \/ Chat!SessionsFetched(r) \/ Chat!Renamed(r)
                          \/ Chat!SessionDeleted(r) \/ Chat!Uploaded(r) \/ Chat!AttachmentRemoved(r)
  BY <1>4, ChatAnsweredFresh, ChatSavedFresh, ChatFetchedFresh, ChatRenamedFresh, ChatDeletedFresh, ChatFilesFresh
<1>5. CASE Chat!Serve(Chat!Refused, Chat!Effect, Chat!Reply) \/ Chat!Repeat(Chat!Refused, Chat!Effect)
  BY <1>5, ChatServeFresh
<1>6. CASE UNCHANGED Chat!vars
  <2>1. UNCHANGED <<ui, net, server, raced>>
    BY <1>6 DEF Chat!vars
  <2>2. ChatSaysInv' /\ ChatRowsInv' /\ ChatAllInv' /\ ChatTalkInv'
    BY <2>1, ChatListKept, ChatTalkKept DEF ChatLost, Doomed, ChatStrands
  <2> QED
    BY <2>2 DEF ChatFreshInv
<1> QED
  BY <1>1, <1>2, <1>3, <1>4, <1>5, <1>6 DEF Chat!Next
-----------------------------------------------------------------------------
(* The test run of a workflow. *)

RunsEvent == {"run_start", "node_start", "run_end"}
RunsStream == [run : Int, at : 0 .. 3]
RunsApp ==
    [open : BOOLEAN, running : BOOLEAN, error : {None, "link", "failed", "lost"}, log : Seq(Int \X RunsEvent),
     result : Int \cup {None}, es : Int \cup {None}, streams : SUBSET RunsStream,
     begun : BOOLEAN, left : BOOLEAN, twice : BOOLEAN]
RunsServer == [runs : Maps(Int, 0 .. 3), linked : BOOLEAN]
RunsAsks == [op : {"run", "grant"}] \cup [op : {"get"}, run : Int]
RunsGots == {Waiting, Failed} \cup BOOLEAN \cup Int
RunsSent == [id : Int, ask : RunsAsks, got : RunsGots, late : BOOLEAN, acts : Nat]

RunsTypeInv == ui \in RunsApp /\ server \in RunsServer /\ net \subseteq RunsSent /\ sent \in Nat

\* A run that was started is one the gateway has.
RunsKnownInv ==
    /\ \A s \in ui.streams : s.run \in DOMAIN server.runs
    /\ \A r \in net : r.ask.op = "run" /\ r.got \notin {Waiting, Failed} => r.id \in DOMAIN server.runs

RunsEndInv == ui.begun /\ ~ui.running => ui.result # None \/ ui.error # None

\* The log is of one run, without gaps.
RunsWhole(log) ==
    \A i \in DOMAIN log :
        /\ log[i][1] = log[1][1]
        /\ i > 1 => \E k \in 2 .. 3 : Runs!Events[k] = log[i][2] /\ Runs!Events[k - 1] = log[i - 1][2]

\* Unless runs overlapped, a run is being started, watched or asked for, one at a
\* time and only while the page says it runs; the log is of that run, and has no
\* result yet.
RunsLive(r) == r.ask.op \in {"run", "get"}
RunsOneInv ==
    ~ui.twice =>
        /\ \A p, q \in net : RunsLive(p) /\ RunsLive(q) => p = q
        /\ \A s, t \in ui.streams : s = t
        /\ \A s \in ui.streams, r \in net : ~RunsLive(r)
        /\ \A s \in ui.streams : s.run = ui.es /\ ui.running
        /\ \A r \in net : RunsLive(r) => ui.running
        /\ ui.running => ui.result = None
        /\ RunsWhole(ui.log)
        /\ \A r \in net : r.ask.op = "run" => ui.log = <<>>
        /\ \A r \in net : r.ask.op = "get" /\ ui.log # <<>> => ui.log[1][1] = r.ask.run
        /\ \A s \in ui.streams : ui.log # <<>> =>
                ui.log[1][1] = s.run /\ s.at >= 1 /\ ui.log[Len(ui.log)][2] = Runs!Events[s.at]
        /\ ui.result # None /\ ui.log # <<>> => ui.result = ui.log[1][1]

RunsIInv == RunsTypeInv /\ RunsKnownInv /\ RunsEndInv /\ Runs!BusyHasCause /\ RunsOneInv

LEMMA RunsAsks1 ==
    ASSUME NEW ask
    PROVE  /\ Runs!Send(<<ask>>) => net' = net \cup {NewRequest(sent, ask)} /\ sent' = sent + 1 /\ UNCHANGED server
           /\ \A r : Runs!Go(r, <<ask>>) =>
                net' = (net \ {r}) \cup {NewRequest(sent, ask)} /\ sent' = sent + 1 /\ UNCHANGED server
<1>1. Runs!Requests(<<ask>>) = {NewRequest(sent, ask)} /\ Len(<<ask>>) = 1
  BY OneAsked DEF Runs!Requests, Runs!Request
<1> QED
  BY <1>1 DEF Runs!Send, Runs!Go

LEMMA RunsEnds ==
    ASSUME NEW r, sent \in Nat, Runs!Done(r)
    PROVE  net' = net \ {r} /\ UNCHANGED <<sent, server>>
<1>1. Runs!Requests(<<>>) = {} /\ Len(<<>>) = 0
  BY NoneAsked DEF Runs!Requests, Runs!Request
<1> QED
  BY <1>1 DEF Runs!Done, Runs!Go

\* r is answered, or the gateway acts on it and it is sent again.
RunsMoved(r, got, held) ==
    \/ Runs!Settle(r, got, held)
    \/ got = Waiting /\ \E acts \in Nat : Runs!SentAgain(r, acts, r.ask, held)

LEMMA RunsMoves ==
    ASSUME NEW r \in net, NEW got, got \in RunsGots, NEW held, net \subseteq RunsSent, sent \in Nat, RunsMoved(r, got, held)
    PROVE  /\ sent' \in {sent, sent + 1}
           /\ \E to \in RunsSent : Runs!Moves(r, to, held) /\ to.id \in {r.id, sent'} /\ to.ask = r.ask /\ to.got = got
                             /\ (got # Waiting => to.id = r.id)
<1>1. r \in RunsSent
  OBVIOUS
<1>2. CASE Runs!Settle(r, got, held)
  <2> DEFINE to == [r EXCEPT !.got = got]
  <2>1. to \in RunsSent /\ to.id = r.id /\ to.ask = r.ask /\ to.got = got
    BY <1>1 DEF RunsSent
  <2>2. Runs!Moves(r, to, held) /\ sent' = sent
    BY <1>2 DEF Runs!Settle
  <2> QED
    BY <2>1, <2>2
<1>3. CASE got = Waiting /\ \E acts \in Nat : Runs!SentAgain(r, acts, r.ask, held)
  <2>1. PICK acts \in Nat : Runs!SentAgain(r, acts, r.ask, held)
    BY <1>3
  <2> DEFINE req == Runs!Request(sent + 1, r.ask)
             to == [req EXCEPT !.acts = acts]
  <2>2. req \in RunsSent /\ req.id = sent + 1 /\ req.ask = r.ask /\ req.got = Waiting
    BY <1>1, <1>3 DEF RunsSent, Runs!Request
  <2> HIDE DEF req
  <2>3. to \in RunsSent /\ to.id = sent + 1 /\ to.ask = r.ask /\ to.got = got
    BY <1>3, <2>2 DEF RunsSent
  <2>4. Runs!Moves(r, to, held) /\ sent' = sent + 1
    BY <2>1 DEF Runs!SentAgain, req
  <2> QED
    BY <1>3, <2>3, <2>4
<1> QED
  BY <1>2, <1>3 DEF RunsMoved

LEMMA RunsSettled ==
    ASSUME NEW r \in net, NEW got, got \in RunsGots, NEW held, net \subseteq RunsSent, sent \in Nat, RunsMoved(r, got, held)
    PROVE  /\ server' = held /\ UNCHANGED ui /\ sent' \in {sent, sent + 1}
           /\ \E new \in [net -> RunsSent] :
              /\ net' = {new[q] : q \in net}
              /\ \A q \in net : /\ new[q].ask = q.ask /\ new[q].got = IF q = r THEN got ELSE q.got
                                /\ new[q].id = q.id \/ (q = r /\ new[q].id = sent')
                                /\ got # Waiting => new[q].id = q.id
<1>1. PICK to \in RunsSent : Runs!Moves(r, to, held) /\ to.id \in {r.id, sent'} /\ to.ask = r.ask /\ to.got = got
                             /\ (got # Waiting => to.id = r.id)
  BY RunsMoves
<1>2. net' = {IF q = r THEN to ELSE [q EXCEPT !.late = q.got # Waiting /\ (@ \/ held # server)] : q \in net}
  BY <1>1 DEF Runs!Moves
<1> DEFINE Late(q) == q.got # Waiting /\ (q.late \/ held # server)
           New(q) == IF q = r THEN to ELSE [q EXCEPT !.late = Late(q)]
<1>3. ASSUME NEW q \in net
      PROVE  /\ New(q) \in RunsSent /\ New(q).ask = q.ask /\ New(q).got = IF q = r THEN got ELSE q.got
             /\ New(q).id = q.id \/ (q = r /\ New(q).id = sent')
             /\ got # Waiting => New(q).id = q.id
  <2>1. q \in RunsSent /\ Late(q) \in BOOLEAN
    OBVIOUS
  <2> HIDE DEF Late
  <2> QED
    BY <1>1, <2>1 DEF RunsSent
<1>4. net' = {New(q) : q \in net}
  BY <1>2
<1> HIDE DEF New
<1> DEFINE new == [q \in net |-> New(q)]
<1>5. new \in [net -> RunsSent] /\ \A q \in net : new[q] = New(q)
  BY <1>3
<1>6. net' = {new[q] : q \in net}
  BY <1>4, <1>5
<1> HIDE DEF new
<1>7. server' = held /\ UNCHANGED ui /\ sent' \in {sent, sent + 1}
  BY <1>1, RunsMoves DEF Runs!Moves
<1> QED
  BY <1>3, <1>5, <1>6, <1>7

LEMMA RunsSettles ==
    ASSUME NEW r \in net, NEW got, got \in RunsGots, NEW held, net \subseteq RunsSent, sent \in Nat, RunsMoved(r, got, held)
    PROVE  /\ net' \subseteq RunsSent /\ server' = held /\ UNCHANGED ui /\ sent' \in Nat
           /\ \A p \in net' : \E q \in net : p.ask = q.ask /\ p.got = IF q = r THEN got ELSE q.got
           /\ \A q \in net : \E p \in net' : p.ask = q.ask /\ p.got = IF q = r THEN got ELSE q.got
<1>1. /\ server' = held /\ UNCHANGED ui /\ sent' \in {sent, sent + 1}
      /\ \E new \in [net -> RunsSent] :
            /\ net' = {new[q] : q \in net}
            /\ \A q \in net : /\ new[q].ask = q.ask /\ new[q].got = IF q = r THEN got ELSE q.got
                              /\ new[q].id = q.id \/ (q = r /\ new[q].id = sent')
  BY RunsSettled
<1>2. PICK new \in [net -> RunsSent] :
            /\ net' = {new[q] : q \in net}
            /\ \A q \in net : new[q].ask = q.ask /\ new[q].got = IF q = r THEN got ELSE q.got
  BY <1>1
<1>3. sent' \in Nat
  BY <1>1
<1> QED
  BY ONLY <1>1, <1>2, <1>3

LEMMA RunsActs ==
    ASSUME net \subseteq RunsSent,
           Runs!Serve(Runs!Refused, Runs!Effect, Runs!Reply) \/ Runs!Repeat(Runs!Refused, Runs!Effect)
    PROVE  \E r \in net :
              \/ RunsMoved(r, Failed, server)
              \/ ~Runs!Refused(r) /\ \E got \in {Waiting, Failed, Runs!Reply(r)} : RunsMoved(r, got, Runs!Effect(r))
<1>1. CASE Runs!Serve(Runs!Refused, Runs!Effect, Runs!Reply)
  BY <1>1 DEF Runs!Serve, Runs!ServeOne, RunsMoved
<1>2. CASE Runs!Repeat(Runs!Refused, Runs!Effect)
  <2>1. PICK r \in net : ~Runs!Refused(r) /\ Runs!SentAgain(r, r.acts + 1, r.ask, Runs!Effect(r))
    BY <1>2 DEF Runs!Repeat, Runs!RepeatOne, Runs!Same
  <2>2. r.acts + 1 \in Nat
    BY DEF RunsSent
  <2> QED
    BY <2>1, <2>2 DEF RunsMoved
<1> QED
  BY <1>1, <1>2

LEMMA RunsInitIInv == Runs!Init => RunsIInv
<1> SUFFICES ASSUME Runs!Init PROVE RunsIInv
  OBVIOUS
<1> DEFINE empty == <<>>
           none == {}
           runs == Runs!Empty
<1>1. PICK linked \in BOOLEAN :
        /\ ui = [open |-> FALSE, running |-> FALSE, error |-> None, log |-> empty, result |-> None,
                 es |-> None, streams |-> none, begun |-> FALSE, left |-> FALSE, twice |-> FALSE]
        /\ server = [runs |-> runs, linked |-> linked]
        /\ net = {Runs!Request(i, <<>>[i]) : i \in DOMAIN <<>>} /\ sent = Len(<<>>)
  BY DEF Runs!Init, Runs!Started
<1>2. net = {} /\ sent = 0
  BY <1>1, NoneAsked DEF Runs!Request
<1>3. empty \in Seq(Int \X RunsEvent) /\ none \in SUBSET RunsStream /\ DOMAIN empty = {} /\ \A s \in none : FALSE
  OBVIOUS
<1>4. runs \in Maps(Int, 0 .. 3)
  <2>1. runs \in [{} -> 0 .. 3]
    BY DEF Runs!Empty
  <2> QED
    BY <2>1, MapIs
<1> HIDE DEF empty, none, runs
<1>5. ui \in RunsApp /\ ui.log = empty /\ ui.streams = none /\ ui.result = None /\ ui.running = FALSE /\ ui.begun = FALSE
  BY <1>1, <1>3 DEF RunsApp
<1>6. server \in RunsServer
  BY <1>1, <1>4 DEF RunsServer
<1>7. RunsTypeInv /\ RunsKnownInv /\ RunsEndInv /\ Runs!BusyHasCause
  BY <1>2, <1>3, <1>5, <1>6 DEF RunsTypeInv, RunsKnownInv, RunsEndInv, Runs!BusyHasCause
<1>8. RunsOneInv
  BY <1>2, <1>3, <1>5 DEF RunsOneInv, RunsWhole
<1> QED
  BY <1>7, <1>8 DEF RunsIInv
-----------------------------------------------------------------------------
LEMMA RunsPage ==
    ASSUME RunsIInv
    PROVE  /\ ui \in RunsApp /\ server \in RunsServer /\ net \subseteq RunsSent /\ sent \in Nat
           /\ server.runs \in Maps(Int, 0 .. 3) /\ ui.streams \subseteq RunsStream
BY DEF RunsIInv, RunsTypeInv, RunsApp, RunsServer

\* What is sent is typed and known, and what is taken off the network as well.
LEMMA RunsNetStep ==
    ASSUME RunsIInv, UNCHANGED server, ui' \in RunsApp, \A s \in ui'.streams : s.run \in DOMAIN server.runs,
           \/ sent' = sent /\ net' \subseteq net
           \/ sent' = sent + 1 /\ \E ask \in RunsAsks : net' \subseteq net \cup {NewRequest(sent, ask)}
    PROVE  RunsTypeInv' /\ RunsKnownInv'
<1>1. \A ask \in RunsAsks : NewRequest(sent, ask) \in RunsSent /\ NewRequest(sent, ask).got = Waiting
  BY RunsPage DEF NewRequest, RunsSent, RunsGots
<1>2. RunsTypeInv'
  BY <1>1, RunsPage DEF RunsTypeInv
<1>3. RunsKnownInv'
  BY <1>1 DEF RunsIInv, RunsKnownInv
<1> QED
  BY <1>2, <1>3

\* A state of the page that only opens it.
LEMMA RunsOpenStep == ASSUME RunsIInv, Runs!Open PROVE RunsIInv'
<1>1. ui' = [ui EXCEPT !.open = TRUE] /\ UNCHANGED <<net, server, sent>>
  BY DEF Runs!Open, Runs!Set, Runs!Local
<1>2. /\ ui' \in RunsApp /\ ui'.running = ui.running /\ ui'.error = ui.error /\ ui'.log = ui.log /\ ui'.result = ui.result
      /\ ui'.es = ui.es /\ ui'.streams = ui.streams /\ ui'.begun = ui.begun /\ ui'.left = ui.left /\ ui'.twice = ui.twice
  BY <1>1, RunsPage DEF RunsApp
<1>3. RunsTypeInv' /\ RunsKnownInv'
  BY <1>1, <1>2, RunsNetStep DEF RunsIInv, RunsKnownInv
<1>4. RunsEndInv' /\ Runs!BusyHasCause'
  BY <1>1, <1>2 DEF RunsIInv, RunsEndInv, Runs!BusyHasCause, Runs!Out
<1>5. RunsOneInv'
  BY <1>1, <1>2 DEF RunsIInv, RunsOneInv, RunsLive, RunsWhole
<1> QED
  BY <1>3, <1>4, <1>5 DEF RunsIInv

\* The stream on screen is closed.
LEMMA RunsClosed ==
    ASSUME RunsIInv
    PROVE  LET c == Runs!Closed(ui)
           IN  /\ c \in RunsApp /\ c.streams = {s \in ui.streams : s.run # ui.es} /\ c.es = None
               /\ c.open = ui.open /\ c.running = ui.running /\ c.error = ui.error /\ c.log = ui.log /\ c.result = ui.result
               /\ c.begun = ui.begun /\ c.left = ui.left /\ c.twice = ui.twice
<1> DEFINE streams == {s \in ui.streams : s.run # ui.es}
<1>1. Runs!Closed(ui) = [ui EXCEPT !.streams = streams, !.es = None]
  BY DEF Runs!Closed
<1>2. streams \subseteq RunsStream
  BY RunsPage
<1> HIDE DEF streams
<1>3. QED
  BY <1>1, <1>2, RunsPage DEF RunsApp, streams

LEMMA RunsCloseStep == ASSUME RunsIInv, Runs!Close PROVE RunsIInv'
<1> DEFINE c == Runs!Closed(ui)
           left == ui.left \/ \E s \in ui.streams : s.run = ui.es
<1>1. ui' = [c EXCEPT !.open = FALSE, !.left = c.left \/ \E s \in ui.streams : s.run = ui.es]
      /\ UNCHANGED <<net, server, sent>>
  BY DEF Runs!Close, Runs!Set, Runs!Local
<1>2. /\ c \in RunsApp /\ c.streams = {s \in ui.streams : s.run # ui.es} /\ c.es = None
      /\ c.running = ui.running /\ c.error = ui.error /\ c.log = ui.log /\ c.result = ui.result
      /\ c.begun = ui.begun /\ c.left = ui.left /\ c.twice = ui.twice
  BY RunsClosed
<1>3. ui' = [c EXCEPT !.open = FALSE, !.left = left] /\ left \in BOOLEAN
  BY <1>1, <1>2, RunsPage DEF RunsApp
<1> HIDE DEF c
<1>4. /\ ui' \in RunsApp /\ ui'.running = ui.running /\ ui'.error = ui.error /\ ui'.log = ui.log /\ ui'.result = ui.result
      /\ ui'.es = None /\ ui'.streams = {s \in ui.streams : s.run # ui.es}
      /\ ui'.begun = ui.begun /\ ui'.left = left /\ ui'.twice = ui.twice
  <2> HIDE DEF left
  <2> QED
    BY <1>2, <1>3 DEF RunsApp
<1>5. RunsTypeInv' /\ RunsKnownInv'
  BY <1>1, <1>4, RunsNetStep DEF RunsIInv, RunsKnownInv
<1>6. RunsEndInv' /\ Runs!BusyHasCause'
  BY <1>1, <1>4 DEF RunsIInv, RunsEndInv, Runs!BusyHasCause, Runs!Out
<1>7. RunsOneInv'
  <2>1. ~ui.twice => ui'.streams = {}
    BY <1>4 DEF RunsIInv, RunsOneInv
  <2> QED
    BY <1>1, <1>4, <2>1 DEF RunsIInv, RunsOneInv, RunsLive, RunsWhole
<1> QED
  BY <1>5, <1>6, <1>7 DEF RunsIInv

\* A new run begins on a page without a result, a log or a stream.
LEMMA RunsCleared ==
    ASSUME RunsIInv
    PROVE  LET c == Runs!Cleared(ui)
           IN  /\ c \in RunsApp /\ c.streams \subseteq ui.streams /\ (~ui.twice => c.streams = {})
               /\ c.running /\ c.error = None /\ c.log = <<>> /\ c.result = None /\ c.twice = ui.twice
<1> DEFINE closed == Runs!Closed(ui)
           empty == <<>>
<1>1. /\ closed \in RunsApp /\ closed.streams = {s \in ui.streams : s.run # ui.es} /\ closed.twice = ui.twice
  BY RunsClosed
<1>2. Runs!Cleared(ui) = [closed EXCEPT !.running = TRUE, !.error = None, !.log = empty, !.result = None, !.begun = TRUE]
  BY DEF Runs!Cleared
<1>3. empty \in Seq(Int \X RunsEvent)
  OBVIOUS
<1>4. ~ui.twice => closed.streams = {}
  BY <1>1 DEF RunsIInv, RunsOneInv
<1> HIDE DEF closed, empty
<1>5. LET c == Runs!Cleared(ui)
      IN  /\ c \in RunsApp /\ c.streams = closed.streams /\ c.running /\ c.error = None /\ c.log = empty /\ c.result = None
          /\ c.twice = closed.twice
  BY <1>1, <1>2, <1>3 DEF RunsApp
<1> QED
  BY <1>1, <1>4, <1>5 DEF empty

\* A run is asked for: nothing else was under way, unless runs overlap.
LEMMA RunsBeginStep ==
    ASSUME RunsIInv, UNCHANGED server, sent' = sent + 1, NEW ask, ask \in RunsAsks, ask.op = "run",
           net' \subseteq net \cup {NewRequest(sent, ask)}, NewRequest(sent, ask) \in net',
           ui' \in RunsApp, ui'.streams \subseteq ui.streams, ui'.running, ui'.log = <<>>, ui'.result = None,
           ~ui'.twice => ui'.streams = {} /\ \A r \in net : ~RunsLive(r)
    PROVE  RunsIInv'
<1>1. NewRequest(sent, ask).ask = ask
  BY DEF NewRequest
<1>2. RunsTypeInv' /\ RunsKnownInv'
  BY RunsNetStep DEF RunsIInv, RunsKnownInv
<1>3. RunsEndInv' /\ Runs!BusyHasCause'
  BY <1>1 DEF RunsEndInv, Runs!BusyHasCause, Runs!Out
<1>4. RunsOneInv'
  <2> DEFINE new == NewRequest(sent, ask)
  <2>1. new.ask.op = "run" /\ net' \subseteq net \cup {new}
    BY <1>1
  <2> HIDE DEF new
  <2>2. ~ui'.twice => \A r \in net' : RunsLive(r) => r = new
    BY <2>1
  <2>3. RunsWhole(ui'.log)
    BY DEF RunsWhole
  <2> QED
    BY <2>1, <2>2, <2>3 DEF RunsOneInv, RunsLive, RunsWhole
<1> QED
  BY <1>2, <1>3, <1>4 DEF RunsIInv

\* The page gives up at once: nothing is under way afterwards, unless runs overlap.
LEMMA RunsGiveUpStep ==
    ASSUME RunsIInv, UNCHANGED <<server, sent>>, net' \subseteq net,
           ui' \in RunsApp, ui'.streams \subseteq ui.streams, ~ui'.running, ui'.error # None, ui'.log = <<>>, ui'.result = None,
           ~ui'.twice => ui'.streams = {} /\ \A r \in net : ~RunsLive(r)
    PROVE  RunsIInv'
<1>1. RunsTypeInv' /\ RunsKnownInv'
  BY RunsNetStep DEF RunsIInv, RunsKnownInv
<1>2. RunsEndInv' /\ Runs!BusyHasCause'
  BY DEF RunsEndInv, Runs!BusyHasCause
<1>3. RunsWhole(ui'.log)
  BY DEF RunsWhole
<1>4. RunsOneInv'
  BY <1>3 DEF RunsOneInv, RunsLive, RunsWhole
<1> QED
  BY <1>1, <1>2, <1>4 DEF RunsIInv

LEMMA RunsIdle == ASSUME RunsIInv, ~ui.running, ~ui.twice PROVE \A r \in net : ~RunsLive(r)
BY DEF RunsIInv, RunsOneInv

LEMMA RunsButtonStep ==
    ASSUME RunsIInv, Runs!HandleRun \/ Runs!HandleRunInvalid \/ Runs!HandleGrantLink
    PROVE  RunsIInv'
<1> DEFINE c == Runs!Cleared(ui)
<1>1. /\ c \in RunsApp /\ c.streams \subseteq ui.streams /\ (~ui.twice => c.streams = {})
      /\ c.running /\ c.error = None /\ c.log = <<>> /\ c.result = None /\ c.twice = ui.twice
  BY RunsCleared
<1>2. CASE Runs!HandleRun
  <2> DEFINE ask == [op |-> "run"]
  <2>1. ui' = c /\ Runs!Send(<<ask>>) /\ ~ui.running
    BY <1>2 DEF Runs!HandleRun, Runs!Ask
  <2>2. ask \in RunsAsks /\ ask.op = "run"
    BY DEF RunsAsks
  <2> HIDE DEF ask, c
  <2>3. net' = net \cup {NewRequest(sent, ask)} /\ sent' = sent + 1 /\ UNCHANGED server
    BY <2>1, RunsAsks1
  <2> QED
    BY <1>1, <2>1, <2>2, <2>3, RunsIdle, RunsBeginStep
<1>3. CASE Runs!HandleRunInvalid
  <2>1. ui' = [c EXCEPT !.running = FALSE, !.error = "failed"] /\ UNCHANGED <<net, server, sent>> /\ ~ui.running
    BY <1>3 DEF Runs!HandleRunInvalid, Runs!Set, Runs!Local
  <2> HIDE DEF c
  <2>2. /\ ui' \in RunsApp /\ ui'.streams = c.streams /\ ui'.running = FALSE /\ ui'.error = "failed" /\ ui'.log = c.log
        /\ ui'.result = c.result /\ ui'.twice = c.twice
    BY <1>1, <2>1 DEF RunsApp
  <2>3. ui'.error # None
    BY <2>2, NoneApart
  <2> QED
    BY <1>1, <2>1, <2>2, <2>3, RunsIdle, RunsGiveUpStep
<1>4. CASE Runs!HandleGrantLink
  <2> DEFINE ask == [op |-> "grant"]
  <2>1. ui' = ui /\ Runs!Send(<<ask>>)
    BY <1>4 DEF Runs!HandleGrantLink, Runs!Ask
  <2>2. ask \in RunsAsks /\ ask.op = "grant"
    BY DEF RunsAsks
  <2> HIDE DEF ask
  <2>3. net' = net \cup {NewRequest(sent, ask)} /\ sent' = sent + 1 /\ UNCHANGED server
    BY <2>1, RunsAsks1
  <2>4. NewRequest(sent, ask).ask = ask
    BY DEF NewRequest
  <2>5. RunsTypeInv' /\ RunsKnownInv'
    BY <2>1, <2>2, <2>3, RunsPage, RunsNetStep DEF RunsIInv, RunsKnownInv
  <2>6. RunsEndInv' /\ Runs!BusyHasCause'
    BY <2>1, <2>3 DEF RunsIInv, RunsEndInv, Runs!BusyHasCause, Runs!Out
  <2>7. RunsOneInv'
    BY <2>1, <2>2, <2>3, <2>4 DEF RunsIInv, RunsOneInv, RunsLive, RunsWhole
  <2> QED
    BY <2>5, <2>6, <2>7 DEF RunsIInv
<1> QED
  BY <1>2, <1>3, <1>4
-----------------------------------------------------------------------------
\* The answers.
LEMMA RunsAgain ==
    ASSUME RunsIInv
    PROVE  LET c == Runs!Again
           IN  /\ c \in RunsApp /\ c.streams \subseteq ui.streams /\ c.running /\ c.error = None /\ c.log = <<>>
               /\ c.result = None /\ (~c.twice => c.streams = {} /\ \A r \in net : ~RunsLive(r))
<1> DEFINE c == Runs!Cleared(ui)
           twice == ui.twice \/ Runs!Out({"run", "get"})
           empty == <<>>
<1>1. /\ c \in RunsApp /\ c.streams \subseteq ui.streams /\ (~ui.twice => c.streams = {})
      /\ c.running /\ c.error = None /\ c.log = empty /\ c.result = None /\ c.twice = ui.twice
  BY RunsCleared
<1>2. Runs!Again = [c EXCEPT !.twice = c.twice \/ Runs!Out({"run", "get"})]
  BY DEF Runs!Again
<1>3. Runs!Again = [c EXCEPT !.twice = twice]
  BY <1>1, <1>2
<1>4. twice \in BOOLEAN
  BY RunsPage DEF RunsApp
<1>5. ~twice => ~ui.twice /\ \A r \in net : ~RunsLive(r)
  BY DEF Runs!Out, RunsLive
<1> HIDE DEF c, twice, empty
<1>6. LET d == Runs!Again
      IN  /\ d \in RunsApp /\ d.streams = c.streams /\ d.running = c.running /\ d.error = c.error /\ d.log = c.log
          /\ d.result = c.result /\ d.twice = twice
  BY <1>1, <1>3, <1>4 DEF RunsApp
<1> QED
  BY <1>1, <1>5, <1>6 DEF empty

LEMMA RunsGrantedStep == ASSUME RunsIInv, NEW r \in net, Runs!Granted(r) PROVE RunsIInv'
<1> DEFINE c == Runs!Again
           ask == [op |-> "run"]
<1>1. /\ c \in RunsApp /\ c.streams \subseteq ui.streams /\ c.running /\ c.error = None /\ c.log = <<>>
      /\ c.result = None /\ (~c.twice => c.streams = {} /\ \A q \in net : ~RunsLive(q))
  BY RunsAgain
<1>2. \/ ui' = c /\ Runs!Go(r, <<ask>>)
      \/ ui' = [c EXCEPT !.running = FALSE, !.error = "failed"] /\ Runs!Done(r)
      \/ ui' = ui /\ Runs!Done(r) /\ r.ask.op = "grant"
  BY DEF Runs!Granted, Runs!Answer, Runs!Came, Runs!Done
<1>3. ask \in RunsAsks /\ ask.op = "run"
  BY DEF RunsAsks
<1> HIDE DEF ask, c
<1>4. CASE ui' = c /\ Runs!Go(r, <<ask>>)
  <2>1. net' = (net \ {r}) \cup {NewRequest(sent, ask)} /\ sent' = sent + 1 /\ UNCHANGED server
    BY <1>4, RunsAsks1
  <2> QED
    BY <1>1, <1>3, <1>4, <2>1, RunsBeginStep
<1>5. CASE ui' = [c EXCEPT !.running = FALSE, !.error = "failed"] /\ Runs!Done(r)
  <2>1. net' = net \ {r} /\ UNCHANGED <<sent, server>>
    BY <1>5, RunsPage, RunsEnds
  <2>2. /\ ui' \in RunsApp /\ ui'.streams = c.streams /\ ui'.running = FALSE /\ ui'.error = "failed" /\ ui'.log = c.log
        /\ ui'.result = c.result /\ ui'.twice = c.twice
    BY <1>1, <1>5 DEF RunsApp
  <2>3. ui'.error # None
    BY <2>2, NoneApart
  <2> QED
    BY <1>1, <2>1, <2>2, <2>3, RunsGiveUpStep
<1>6. CASE ui' = ui /\ Runs!Done(r) /\ r.ask.op = "grant"
  <2>1. net' = net \ {r} /\ UNCHANGED <<sent, server>>
    BY <1>6, RunsPage, RunsEnds
  <2>2. RunsTypeInv' /\ RunsKnownInv'
    BY <1>6, <2>1, RunsPage, RunsNetStep DEF RunsIInv, RunsKnownInv
  <2>3. RunsEndInv' /\ Runs!BusyHasCause'
    BY <1>6, <2>1 DEF RunsIInv, RunsEndInv, Runs!BusyHasCause, Runs!Out
  <2>4. RunsOneInv'
    BY <1>6, <2>1 DEF RunsIInv, RunsOneInv, RunsLive, RunsWhole
  <2> QED
    BY <2>2, <2>3, <2>4 DEF RunsIInv
<1> QED
  BY <1>2, <1>4, <1>5, <1>6

LEMMA RunsStartedStep == ASSUME RunsIInv, NEW r \in net, Runs!RunStarted(r) PROVE RunsIInv'
<1>1. PICK at \in 0 .. (IF r.id \in DOMAIN server.runs THEN server.runs[r.id] ELSE 0), linked \in {"link", "failed"} :
        /\ r.ask.op = "run" /\ r.got # Waiting /\ Runs!Done(r)
        /\ \/ r.got # Failed /\ ui' = [ui EXCEPT !.es = r.id, !.streams = ui.streams \cup {Runs!Stream(r.id, at)}]
           \/ r.got = Failed /\ ui' = [ui EXCEPT !.error = linked, !.running = FALSE]
  BY DEF Runs!RunStarted, Runs!Answer, Runs!Came, Runs!Done
<1>2. net' = net \ {r} /\ UNCHANGED <<sent, server>>
  BY <1>1, RunsPage, RunsEnds
<1>3. CASE r.got # Failed /\ ui' = [ui EXCEPT !.es = r.id, !.streams = ui.streams \cup {Runs!Stream(r.id, at)}]
  <2> DEFINE new == Runs!Stream(r.id, at)
             streams == ui.streams \cup {new}
  <2>1. r.id \in Int /\ r.id \in DOMAIN server.runs
    BY <1>1, <1>3, RunsPage DEF RunsIInv, RunsKnownInv, RunsSent
  <2>2. server.runs[r.id] \in 0 .. 3
    BY <2>1, RunsPage, MapFacts
  <2>3. new \in RunsStream /\ new.run = r.id
    BY <2>1, <2>2 DEF Runs!Stream, RunsStream
  <2> HIDE DEF new
  <2>4. streams \subseteq RunsStream
    BY <2>3, RunsPage
  <2>5. ui' = [ui EXCEPT !.es = r.id, !.streams = streams]
    BY <1>3 DEF new
  <2> HIDE DEF streams
  <2>6. /\ ui' \in RunsApp /\ ui'.running = ui.running /\ ui'.error = ui.error /\ ui'.log = ui.log /\ ui'.result = ui.result
        /\ ui'.es = r.id /\ ui'.streams = streams /\ ui'.begun = ui.begun /\ ui'.left = ui.left /\ ui'.twice = ui.twice
    BY <2>1, <2>4, <2>5, RunsPage DEF RunsApp
  <2>7. RunsTypeInv' /\ RunsKnownInv'
    BY <1>2, <2>1, <2>3, <2>6, RunsNetStep DEF RunsIInv, RunsKnownInv, streams
  <2>8. RunsEndInv' /\ Runs!BusyHasCause'
    BY <2>6 DEF RunsIInv, RunsEndInv, Runs!BusyHasCause, Runs!Out, streams
  <2>9. RunsOneInv'
    <3>1. ~ui.twice => /\ ui.streams = {} /\ ui.running /\ ui.log = <<>> /\ \A q \in net' : ~RunsLive(q)
      BY <1>1, <1>2 DEF RunsIInv, RunsOneInv, RunsLive
    <3>2. ~ui.twice => streams = {new}
      BY <3>1 DEF streams
    <3> QED
      BY <1>2, <2>3, <2>6, <3>1, <3>2 DEF RunsIInv, RunsOneInv, RunsLive, RunsWhole
  <2> QED
    BY <2>7, <2>8, <2>9 DEF RunsIInv
<1>4. CASE r.got = Failed /\ ui' = [ui EXCEPT !.error = linked, !.running = FALSE]
  <2>1. /\ ui' \in RunsApp /\ ui'.running = FALSE /\ ui'.error = linked /\ ui'.log = ui.log /\ ui'.result = ui.result
        /\ ui'.es = ui.es /\ ui'.streams = ui.streams /\ ui'.begun = ui.begun /\ ui'.left = ui.left /\ ui'.twice = ui.twice
    BY <1>4, RunsPage DEF RunsApp
  <2>2. ui'.error # None
    BY <2>1, NoneApart
  <2>3. RunsTypeInv' /\ RunsKnownInv'
    BY <1>2, <2>1, RunsNetStep DEF RunsIInv, RunsKnownInv
  <2>4. RunsEndInv' /\ Runs!BusyHasCause'
    BY <2>1, <2>2 DEF RunsEndInv, Runs!BusyHasCause
  <2>5. RunsOneInv'
    <3>1. ~ui.twice => ui.streams = {} /\ \A q \in net' : ~RunsLive(q)
      BY <1>1, <1>2 DEF RunsIInv, RunsOneInv, RunsLive
    <3> QED
      BY <1>2, <2>1, <3>1 DEF RunsIInv, RunsOneInv, RunsLive, RunsWhole
  <2> QED
    BY <2>3, <2>4, <2>5 DEF RunsIInv
<1> QED
  BY <1>1, <1>3, <1>4

\* The run on screen ends.
LEMMA RunsEndStep ==
    ASSUME RunsIInv, UNCHANGED server, sent' = sent, net' \subseteq net,
           ui' \in RunsApp, ~ui'.running, ui'.streams \subseteq ui.streams, ui'.log = ui.log, ui'.es = ui.es,
           ui'.begun = ui.begun, ui'.twice = ui.twice,
           ui'.result # None \/ ui'.error # None,
           ~ui.twice => /\ ui'.streams = {} /\ \A r \in net' : ~RunsLive(r)
                        /\ ui'.result # None /\ ui.log # <<>> => ui'.result = ui.log[1][1]
    PROVE  RunsIInv'
<1>1. RunsTypeInv' /\ RunsKnownInv'
  BY RunsNetStep DEF RunsIInv, RunsKnownInv
<1>2. RunsEndInv' /\ Runs!BusyHasCause'
  BY DEF RunsEndInv, Runs!BusyHasCause
<1>3. RunsOneInv'
  BY DEF RunsIInv, RunsOneInv, RunsLive, RunsWhole
<1> QED
  BY <1>1, <1>2, <1>3 DEF RunsIInv

LEMMA RunsFetchedStep == ASSUME RunsIInv, NEW r \in net, Runs!OutcomeFetched(r) PROVE RunsIInv'
<1> DEFINE lost == [ui EXCEPT !.error = "lost", !.running = FALSE]
<1>1. /\ r.ask.op = "get" /\ Runs!Done(r)
      /\ ui' = lost \/ ui' = [ui EXCEPT !.result = r.ask.run, !.running = FALSE]
  BY DEF Runs!OutcomeFetched, Runs!Answer, Runs!Came, Runs!Done
<1>2. net' = net \ {r} /\ UNCHANGED <<sent, server>>
  BY <1>1, RunsPage, RunsEnds
<1>3. ~ui.twice => /\ ui.streams = {} /\ (\A q \in net' : ~RunsLive(q)) /\ ui.result = None
                   /\ ui.log # <<>> => ui.log[1][1] = r.ask.run
  BY <1>1, <1>2 DEF RunsIInv, RunsOneInv, RunsLive
<1>4. CASE ui' = lost
  <2>1. /\ ui' \in RunsApp /\ ui'.running = FALSE /\ ui'.error = "lost" /\ ui'.log = ui.log /\ ui'.result = ui.result
        /\ ui'.es = ui.es /\ ui'.streams = ui.streams /\ ui'.begun = ui.begun /\ ui'.twice = ui.twice
    BY <1>4, RunsPage DEF RunsApp
  <2>2. ui'.error # None
    BY <2>1, NoneApart
  <2> HIDE DEF lost
  <2> QED
    BY <1>2, <1>3, <2>1, <2>2, RunsEndStep
<1>5. CASE ui' = [ui EXCEPT !.result = r.ask.run, !.running = FALSE]
  <2>1. r.ask.run \in Int
    <3>1. r.ask \in RunsAsks
      BY RunsPage DEF RunsSent
    <3> QED
      BY <1>1, <3>1 DEF RunsAsks
  <2>2. /\ ui' \in RunsApp /\ ui'.running = FALSE /\ ui'.error = ui.error /\ ui'.log = ui.log /\ ui'.result = r.ask.run
        /\ ui'.es = ui.es /\ ui'.streams = ui.streams /\ ui'.begun = ui.begun /\ ui'.twice = ui.twice
    BY <1>5, <2>1, RunsPage DEF RunsApp
  <2>3. ui'.result # None
    BY <2>1, <2>2, NoneApart
  <2> HIDE DEF lost
  <2> QED
    BY <1>2, <1>3, <2>2, <2>3, RunsEndStep
<1> QED
  BY <1>1, <1>4, <1>5
-----------------------------------------------------------------------------
\* The stream.
LEMMA RunsEventStep == ASSUME RunsIInv, NEW s \in ui.streams, Runs!HandleEvent(s) PROVE RunsIInv'
<1> DEFINE event == Runs!Events[s.at + 1]
           fewer == ui.streams \ {s}
           moved == fewer \cup {Runs!Stream(s.run, s.at + 1)}
           log == Append(ui.log, <<s.run, event>>)
<1>1. /\ s.at < server.runs[s.run] /\ UNCHANGED <<net, server, sent>>
      /\ IF event = "run_end" THEN ui' = [ui EXCEPT !.streams = fewer, !.result = s.run, !.running = FALSE]
         ELSE ui' = [ui EXCEPT !.streams = moved, !.log = log]
  <2>1. Runs!HandleEvent(s) = (/\ s.at < server.runs[s.run]
            /\ LET e == Runs!Events[s.at + 1]
               IN  IF e = "run_end" THEN Runs!Set([Runs!Without(s) EXCEPT !.result = s.run, !.running = FALSE])
                   ELSE Runs!Set([ui EXCEPT !.streams = (@ \ {s}) \cup {Runs!Stream(s.run, s.at + 1)},
                                            !.log = Append(@, <<s.run, e>>)]))
    BY DEF Runs!HandleEvent
  <2>2. [Runs!Without(s) EXCEPT !.result = s.run, !.running = FALSE]
            = [ui EXCEPT !.streams = fewer, !.result = s.run, !.running = FALSE]
    BY RunsPage DEF Runs!Without, RunsApp
  <2> QED
    BY <2>1, <2>2 DEF Runs!Set, Runs!Local
<1>2. s \in RunsStream /\ s.run \in Int /\ s.at \in 0 .. 3 /\ s.run \in DOMAIN server.runs
  BY RunsPage DEF RunsStream, RunsIInv, RunsKnownInv
<1>3. server.runs[s.run] \in 0 .. 3 /\ s.at \in 0 .. 2
  BY <1>1, <1>2, RunsPage, MapFacts
<1>4. event \in RunsEvent /\ (event # "run_end" => s.at \in 0 .. 1)
  BY <1>3 DEF Runs!Events, RunsEvent
<1>5. fewer \subseteq RunsStream
  BY RunsPage
<1>6. CASE event = "run_end"
  <2>1. ui' = [ui EXCEPT !.streams = fewer, !.result = s.run, !.running = FALSE]
    BY <1>1, <1>6
  <2>2. ~ui.twice => /\ fewer = {} /\ (\A r \in net : ~RunsLive(r)) /\ (ui.log # <<>> => s.run = ui.log[1][1])
    BY DEF RunsIInv, RunsOneInv
  <2> HIDE DEF fewer
  <2>3. /\ ui' \in RunsApp /\ ui'.running = FALSE /\ ui'.error = ui.error /\ ui'.log = ui.log /\ ui'.result = s.run
        /\ ui'.es = ui.es /\ ui'.streams = fewer /\ ui'.begun = ui.begun /\ ui'.twice = ui.twice
    BY <1>2, <1>5, <2>1, RunsPage DEF RunsApp
  <2>4. ui'.result # None /\ ui'.streams \subseteq ui.streams
    BY <1>2, <2>3, NoneApart DEF fewer
  <2> QED
    BY <1>1, <2>2, <2>3, <2>4, RunsEndStep
<1>7. CASE event # "run_end"
  <2>1. ui' = [ui EXCEPT !.streams = moved, !.log = log]
    BY <1>1, <1>7
  <2>2. ui.log \in Seq(Int \X RunsEvent)
    BY RunsPage DEF RunsApp
  <2>3. <<s.run, event>> \in Int \X RunsEvent
    BY <1>2, <1>4
  <2> DEFINE entry == <<s.run, event>>
             to == Runs!Stream(s.run, s.at + 1)
  <2>4. to \in RunsStream /\ to.run = s.run /\ to.at = s.at + 1
    BY <1>2, <1>3 DEF Runs!Stream, RunsStream
  <2>5. entry[1] = s.run /\ entry[2] = event
    OBVIOUS
  <2> HIDE DEF event, entry, to
  <2>6. /\ log \in Seq(Int \X RunsEvent) /\ Len(log) = Len(ui.log) + 1 /\ log[Len(log)] = entry /\ log # <<>>
        /\ \A i \in DOMAIN ui.log : log[i] = ui.log[i]
        /\ DOMAIN log = 1 .. Len(ui.log) + 1 /\ DOMAIN ui.log = 1 .. Len(ui.log) /\ Len(ui.log) \in Nat
        /\ ui.log = <<>> <=> Len(ui.log) = 0
    BY <2>2, <2>3 DEF entry
  <2>7. moved = fewer \cup {to}
    BY DEF to
  <2>8. moved \subseteq RunsStream
    BY <1>5, <2>4, <2>7
  <2> HIDE DEF log, moved
  <2>9. /\ ui' \in RunsApp /\ ui'.running = ui.running /\ ui'.error = ui.error /\ ui'.log = log /\ ui'.result = ui.result
        /\ ui'.es = ui.es /\ ui'.streams = moved /\ ui'.begun = ui.begun /\ ui'.left = ui.left /\ ui'.twice = ui.twice
    BY <2>1, <2>6, <2>8, RunsPage DEF RunsApp
  <2>10. \A t \in moved : t.run \in DOMAIN server.runs
    BY <1>2, <2>4, <2>7 DEF RunsIInv, RunsKnownInv
  <2>11. RunsTypeInv' /\ RunsKnownInv'
    BY <1>1, <2>9, <2>10, RunsNetStep
  <2>12. moved # {}
    BY <2>7
  <2>13. RunsEndInv' /\ Runs!BusyHasCause'
    BY <2>9, <2>12 DEF RunsIInv, RunsEndInv, Runs!BusyHasCause
  <2>14. ASSUME ~ui.twice
         PROVE  /\ fewer = {} /\ moved = {to} /\ (\A r \in net : ~RunsLive(r)) /\ ui.running /\ ui.result = None
                /\ s.run = ui.es /\ RunsWhole(ui.log)
                /\ (ui.log # <<>> => ui.log[1][1] = s.run /\ s.at >= 1 /\ ui.log[Len(ui.log)][2] = Runs!Events[s.at])
    BY <2>7, <2>14 DEF RunsIInv, RunsOneInv
  <2>15. ~ui.twice => log[1][1] = s.run
    BY <2>5, <2>6, <2>14
  <2>16. ~ui.twice => RunsWhole(log)
    <3> SUFFICES ASSUME ~ui.twice, NEW i \in DOMAIN log
                 PROVE  /\ log[i][1] = log[1][1]
                        /\ i > 1 => \E k \in 2 .. 3 : Runs!Events[k] = log[i][2] /\ Runs!Events[k - 1] = log[i - 1][2]
      BY DEF RunsWhole
    <3>1. CASE i \in DOMAIN ui.log
      <4>1. 1 \in DOMAIN ui.log /\ (i > 1 => i - 1 \in DOMAIN ui.log)
        BY <2>6, <3>1
      <4>2. log[i] = ui.log[i] /\ log[1] = ui.log[1] /\ (i > 1 => log[i - 1] = ui.log[i - 1])
        BY <2>6, <3>1, <4>1
      <4> QED
        BY <2>14, <3>1, <4>2 DEF RunsWhole
    <3>2. CASE i = Len(ui.log) + 1
      <4>1. log[i] = entry
        BY <2>6, <3>2
      <4>2. ASSUME i > 1
            PROVE  \E k \in 2 .. 3 : Runs!Events[k] = log[i][2] /\ Runs!Events[k - 1] = log[i - 1][2]
        <5>1. Len(ui.log) \in DOMAIN ui.log /\ ui.log # <<>> /\ i - 1 = Len(ui.log)
          BY <2>6, <3>2, <4>2
        <5>2. s.at >= 1 /\ log[i - 1][2] = Runs!Events[s.at]
          BY <2>6, <2>14, <5>1
        <5>3. s.at + 1 \in 2 .. 3 /\ (s.at + 1) - 1 = s.at
          BY <1>3, <5>2
        <5> QED
          BY <2>5, <4>1, <5>2, <5>3 DEF event
      <4> QED
        BY <2>5, <2>15, <4>1, <4>2
    <3> QED
      BY <2>6, <3>1, <3>2
  <2>17. \A r \in net' : r \in net
    BY <1>1
  <2>18. ~ui.twice => \A t \in moved : t.run = ui.es /\ log[1][1] = t.run /\ t.at >= 1 /\ log[Len(log)][2] = Runs!Events[t.at]
    BY <1>3, <2>4, <2>5, <2>6, <2>14, <2>15 DEF event
  <2>19. RunsOneInv'
    BY <2>9, <2>14, <2>15, <2>16, <2>17, <2>18 DEF RunsOneInv, RunsLive
  <2> QED
    BY <2>11, <2>13, <2>19 DEF RunsIInv
<1> QED
  BY <1>6, <1>7

LEMMA RunsLostStep == ASSUME RunsIInv, NEW s \in ui.streams, Runs!StreamLost(s) PROVE RunsIInv'
<1> DEFINE ask == [op |-> "get", run |-> s.run]
           fewer == ui.streams \ {s}
<1>1. /\ ui' = [ui EXCEPT !.streams = fewer] /\ sent' = sent + 1 /\ UNCHANGED server
      /\ net' = net \cup {NewRequest(sent, ask)}
  BY OneAsked DEF Runs!StreamLost, Runs!Without, Runs!Requests, Runs!Request
<1>2. s.run \in Int
  BY RunsPage DEF RunsStream
<1>3. ask \in RunsAsks /\ ask.op = "get" /\ ask.run = s.run
  BY <1>2 DEF RunsAsks
<1>4. fewer \subseteq RunsStream /\ \A t \in fewer : t \in ui.streams
  BY RunsPage
<1>5. ~ui.twice => /\ fewer = {} /\ (\A r \in net : ~RunsLive(r)) /\ (ui.log # <<>> => s.run = ui.log[1][1]) /\ ui.running
                   /\ ui.result = None /\ RunsWhole(ui.log)
  BY DEF RunsIInv, RunsOneInv
<1> HIDE DEF ask, fewer
<1>6. NewRequest(sent, ask).ask = ask
  BY DEF NewRequest
<1>7. /\ ui' \in RunsApp /\ ui'.running = ui.running /\ ui'.error = ui.error /\ ui'.log = ui.log /\ ui'.result = ui.result
      /\ ui'.es = ui.es /\ ui'.streams = fewer /\ ui'.begun = ui.begun /\ ui'.left = ui.left /\ ui'.twice = ui.twice
  BY <1>1, <1>4, RunsPage DEF RunsApp
<1>8. RunsTypeInv' /\ RunsKnownInv'
  BY <1>1, <1>3, <1>4, <1>7, RunsNetStep DEF RunsIInv, RunsKnownInv
<1>9. RunsEndInv' /\ Runs!BusyHasCause'
  BY <1>1, <1>3, <1>6, <1>7 DEF RunsIInv, RunsEndInv, Runs!BusyHasCause, Runs!Out
<1>10. RunsOneInv'
  <2> DEFINE new == NewRequest(sent, ask)
  <2>1. new.ask.op = "get" /\ new.ask.run = s.run /\ net' = net \cup {new}
    BY <1>1, <1>3, <1>6
  <2> HIDE DEF new
  <2>2. ~ui.twice => \A r \in net' : RunsLive(r) => r = new
    BY <1>5, <2>1
  <2>3. ~ui.twice => \A r \in net' : r.ask.op = "run" => FALSE
    BY <1>5, <2>1 DEF RunsLive
  <2>4. ~ui.twice => \A r \in net' : r.ask.op = "get" => r = new
    BY <2>2 DEF RunsLive
  <2> QED
    BY <1>5, <1>7, <2>1, <2>2, <2>3, <2>4 DEF RunsOneInv, RunsWhole
<1> QED
  BY <1>8, <1>9, <1>10 DEF RunsIInv
-----------------------------------------------------------------------------
\* The gateway.
LEMMA RunsServeStep ==
    ASSUME RunsIInv, NEW r \in net, NEW got, got \in RunsGots, NEW held, RunsMoved(r, got, held),
           held \in RunsServer, DOMAIN server.runs \subseteq DOMAIN held.runs,
           r.ask.op = "run" /\ got \notin {Waiting, Failed} => r.id \in DOMAIN held.runs
    PROVE  RunsIInv'
<1>1. PICK new \in [net -> RunsSent] :
        /\ net' = {new[q] : q \in net}
        /\ \A q \in net : /\ new[q].ask = q.ask /\ new[q].got = IF q = r THEN got ELSE q.got
                          /\ new[q].id = q.id \/ (q = r /\ new[q].id = sent')
                          /\ got # Waiting => new[q].id = q.id
  BY RunsPage, RunsSettled
<1>2. server' = held /\ UNCHANGED ui /\ sent' \in Nat
  BY RunsPage, RunsSettles
<1>3. RunsTypeInv'
  BY <1>1, <1>2, RunsPage DEF RunsTypeInv
<1>4. RunsKnownInv'
  BY <1>1, <1>2 DEF RunsIInv, RunsKnownInv
<1>5. RunsEndInv' /\ Runs!BusyHasCause'
  BY <1>1, <1>2 DEF RunsIInv, RunsEndInv, Runs!BusyHasCause, Runs!Out
<1>6. RunsOneInv'
  <2>1. \A p \in net' : \E q \in net : p = new[q] /\ p.ask = q.ask
    BY <1>1
  <2>2. ~ui.twice => \A p, q \in net' : RunsLive(p) /\ RunsLive(q) => p = q
    BY <2>1 DEF RunsIInv, RunsOneInv, RunsLive
  <2> QED
    BY <1>2, <2>1, <2>2 DEF RunsIInv, RunsOneInv, RunsLive, RunsWhole
<1> QED
  BY <1>3, <1>4, <1>5, <1>6 DEF RunsIInv

\* A run put among the runs by its number leaves them runs by number.
LEMMA RunsPut ==
    ASSUME NEW f, f \in Maps(Int, 0 .. 3), NEW k, k \in Int
    PROVE  PutIn(f, k, 1) \in Maps(Int, 0 .. 3) /\ DOMAIN PutIn(f, k, 1) = DOMAIN f \cup {k}
<1>1. f \in [DOMAIN f -> 0 .. 3] /\ DOMAIN f \subseteq Int
  BY MapFacts
<1>2. PutIn(f, k, 1) \in [DOMAIN f \cup {k} -> 0 .. 3] /\ DOMAIN f \cup {k} \subseteq Int
  BY <1>1 DEF PutIn
<1>3. PutIn(f, k, 1) \in Maps(Int, 0 .. 3)
  BY <1>2, MapIs
<1> QED
  BY <1>3, <1>2

LEMMA RunsServes ==
    ASSUME RunsIInv, Runs!Serve(Runs!Refused, Runs!Effect, Runs!Reply) \/ Runs!Repeat(Runs!Refused, Runs!Effect)
    PROVE  RunsIInv'
<1>1. PICK r \in net :
        \/ RunsMoved(r, Failed, server)
        \/ ~Runs!Refused(r) /\ \E got \in {Waiting, Failed, Runs!Reply(r)} : RunsMoved(r, got, Runs!Effect(r))
  BY RunsPage, RunsActs
<1>2. r.id \in Int
  BY RunsPage DEF RunsSent
<1> DEFINE reply == Runs!Reply(r)
           effect == Runs!Effect(r)
           runs == PutIn(server.runs, r.id, 1)
<1>3. reply \in RunsGots /\ {Waiting, Failed} \subseteq RunsGots
  BY <1>2 DEF Runs!Reply, Runs!Ended, RunsGots
<1>4. /\ runs \in Maps(Int, 0 .. 3) /\ DOMAIN runs = DOMAIN server.runs \cup {r.id}
  <2>1. server.runs \in Maps(Int, 0 .. 3)
    BY RunsPage
  <2> QED
    BY <1>2, <2>1, RunsPut
<1>5. /\ effect \in RunsServer /\ DOMAIN server.runs \subseteq DOMAIN effect.runs
      /\ r.ask.op = "run" => r.id \in DOMAIN effect.runs
  <2>1. CASE r.ask.op = "run"
    <3>1. effect = [server EXCEPT !.runs = runs]
      BY <2>1 DEF Runs!Effect, Runs!Put, PutIn
    <3> HIDE DEF effect, runs
    <3> QED
      BY <1>4, <3>1, RunsPage DEF RunsServer
  <2>2. CASE r.ask.op = "grant"
    <3>1. effect = [server EXCEPT !.linked = TRUE]
      BY <2>2 DEF Runs!Effect
    <3> HIDE DEF effect, runs
    <3> QED
      BY <2>2, <3>1, RunsPage DEF RunsServer
  <2>3. CASE r.ask.op \notin {"run", "grant"}
    <3>1. effect = server
      BY <2>3 DEF Runs!Effect
    <3> HIDE DEF effect, runs
    <3> QED
      BY <2>3, <3>1, RunsPage
  <2> QED
    BY <2>1, <2>2, <2>3
<1> HIDE DEF reply, effect
<1>6. CASE RunsMoved(r, Failed, server)
  BY <1>3, <1>6, RunsPage, RunsServeStep
<1>7. ASSUME NEW got \in {Waiting, Failed, reply}, RunsMoved(r, got, effect) PROVE RunsIInv'
  BY <1>3, <1>5, <1>7, RunsServeStep
<1> QED
  BY <1>1, <1>6, <1>7 DEF reply, effect

LEMMA RunsWritesStep == ASSUME RunsIInv, NEW run \in DOMAIN server.runs, Runs!RunWrites(run) PROVE RunsIInv'
<1> DEFINE runs == [server.runs EXCEPT ![run] = server.runs[run] + 1]
<1>1. server' = [server EXCEPT !.runs = runs] /\ UNCHANGED <<ui, net, sent>> /\ ~Runs!Ended(run)
  BY DEF Runs!RunWrites
<1>2. server.runs \in [DOMAIN server.runs -> 0 .. 3] /\ DOMAIN server.runs \subseteq Int
  BY RunsPage, MapFacts
<1>3. server.runs[run] \in 0 .. 3 /\ server.runs[run] # 3
  BY <1>1, <1>2 DEF Runs!Ended, Runs!Events
<1>4. runs \in [DOMAIN server.runs -> 0 .. 3]
  BY <1>2, <1>3
<1>5. runs \in Maps(Int, 0 .. 3) /\ DOMAIN runs = DOMAIN server.runs
  BY <1>2, <1>4, MapIs
<1> HIDE DEF runs
<1>6. server' \in RunsServer /\ server'.runs = runs
  BY <1>1, <1>5, RunsPage DEF RunsServer
<1>7. RunsTypeInv' /\ RunsKnownInv'
  BY <1>1, <1>5, <1>6 DEF RunsIInv, RunsTypeInv, RunsKnownInv
<1>8. RunsEndInv' /\ Runs!BusyHasCause' /\ RunsOneInv'
  BY <1>1 DEF RunsIInv, RunsEndInv, Runs!BusyHasCause, Runs!Out, RunsOneInv, RunsLive, RunsWhole
<1> QED
  BY <1>7, <1>8 DEF RunsIInv

LEMMA RunsNextIInv == RunsIInv /\ [Runs!Next]_(Runs!vars) => RunsIInv'
<1> SUFFICES ASSUME RunsIInv, [Runs!Next]_(Runs!vars) PROVE RunsIInv'
  OBVIOUS
<1>1. CASE UNCHANGED Runs!vars
  <2>1. UNCHANGED <<ui, net, server, sent>>
    BY <1>1 DEF Runs!vars
  <2> QED
    BY <2>1 DEF RunsIInv, RunsTypeInv, RunsKnownInv, RunsEndInv, Runs!BusyHasCause, Runs!Out, RunsOneInv, RunsLive, RunsWhole
<1>2. CASE Runs!Next
  <2>1. \/ Runs!Open \/ Runs!Close \/ Runs!HandleRun \/ Runs!HandleRunInvalid \/ Runs!HandleGrantLink
        \/ \E s \in ui.streams : Runs!HandleEvent(s) \/ Runs!StreamLost(s)
        \/ \E run \in DOMAIN server.runs : Runs!RunWrites(run)
        \/ \E r \in net : Runs!RunStarted(r) \/ Runs!Granted(r) \/ Runs!OutcomeFetched(r)
        \/ Runs!Serve(Runs!Refused, Runs!Effect, Runs!Reply) \/ Runs!Repeat(Runs!Refused, Runs!Effect)
    BY <1>2 DEF Runs!Next
  <2> QED
    BY <2>1, RunsOpenStep, RunsCloseStep, RunsButtonStep, RunsEventStep, RunsLostStep, RunsWritesStep,
       RunsStartedStep, RunsGrantedStep, RunsFetchedStep, RunsServes
<1> QED
  BY <1>1, <1>2

\* What the invariant says of the page.
LEMMA RunsShown == RunsIInv => Runs!TypeOK /\ Runs!BusyHasCause /\ Runs!RunReported
<1> SUFFICES ASSUME RunsIInv PROVE Runs!TypeOK /\ Runs!BusyHasCause /\ Runs!RunReported
  OBVIOUS
<1>1. Runs!TypeOK
  BY RunsPage DEF RunsIInv, RunsKnownInv, Runs!TypeOK, RunsApp, RunsStream, Runs!Events
<1>2. ~ui.twice => Runs!Cardinality(ui.streams) <= 1
  <2> SUFFICES ASSUME ~ui.twice PROVE Cardinality(ui.streams) <= 1
    BY DEF Cardinality, Runs!Cardinality
  <2>1. CASE ui.streams = {}
    BY <2>1, FS_EmptySet
  <2>2. CASE ui.streams # {}
    <3>1. PICK s \in ui.streams : TRUE
      BY <2>2
    <3>2. ui.streams = {s}
      BY <3>1 DEF RunsIInv, RunsOneInv
    <3> QED
      BY <3>2, FS_Singleton
  <2> QED
    BY <2>1, <2>2
<1>3. ~ui.twice => \A i \in DOMAIN ui.log :
        /\ ui.log[i][1] = ui.log[1][1]
        /\ i > 1 => \E k \in DOMAIN Runs!Events : Runs!Events[k] = ui.log[i][2] /\ Runs!Events[k - 1] = ui.log[i - 1][2]
  <2>1. DOMAIN Runs!Events = 1 .. 3
    BY DEF Runs!Events
  <2>2. ~ui.twice => RunsWhole(ui.log)
    BY DEF RunsIInv, RunsOneInv
  <2>3. 2 .. 3 \subseteq DOMAIN Runs!Events
    BY <2>1
  <2> QED
    BY <2>2, <2>3 DEF RunsWhole
<1>4. ~ui.twice /\ ui.result # None /\ ui.log # <<>> => ui.result = ui.log[1][1]
  BY DEF RunsIInv, RunsOneInv
<1>5. ui.begun /\ ~ui.running => ui.result # None \/ ui.error # None
  BY DEF RunsIInv, RunsEndInv
<1>6. Runs!RunReported
  BY <1>2, <1>3, <1>4, <1>5 DEF Runs!RunReported
<1> QED
  BY <1>1, <1>6 DEF RunsIInv
-----------------------------------------------------------------------------
(* The wizard for a new hub. *)

WizardStatus == {"idle", "checking", "available", "taken", "invalid"}
WizardApp ==
    [step : 1 .. 4, type : Wizard!Types, name : Wizard!Names, slug : Wizard!Slugs, manual : BOOLEAN,
     links : SUBSET DOMAIN Wizard!Targets, status : WizardStatus, timer : BOOLEAN, submitting : BOOLEAN,
     failed : BOOLEAN, done : BOOLEAN, crossed : BOOLEAN, inUse : SUBSET DOMAIN Wizard!Targets, listed : BOOLEAN]

WizardAsks == [op : {"check"}, type : Wizard!Types, slug : Wizard!Slugs]
              \cup [op : {"create"}, type : Wizard!Types, slug : Wizard!Slugs, links : SUBSET DOMAIN Wizard!Targets]
WizardGots == {Waiting, Failed} \cup BOOLEAN
WizardSent == [id : Int, ask : WizardAsks, got : WizardGots, late : BOOLEAN, acts : Nat]

WizardTypeInv == ui \in WizardApp /\ net \subseteq WizardSent /\ sent \in Nat

\* A check is waited for while one can still be sent, or is out.
WizardIInv == WizardTypeInv /\ Wizard!BusyHasCause /\ Wizard!LinksAreLegal

LEMMA WizardAsks1 ==
    ASSUME NEW ask
    PROVE  /\ Wizard!Send(<<ask>>) => net' = net \cup {NewRequest(sent, ask)} /\ sent' = sent + 1 /\ UNCHANGED server
           /\ \A r : Wizard!Go(r, <<ask>>) =>
                net' = (net \ {r}) \cup {NewRequest(sent, ask)} /\ sent' = sent + 1 /\ UNCHANGED server
<1>1. Wizard!Requests(<<ask>>) = {NewRequest(sent, ask)} /\ Len(<<ask>>) = 1
  BY OneAsked DEF Wizard!Requests, Wizard!Request
<1> QED
  BY <1>1 DEF Wizard!Send, Wizard!Go

LEMMA WizardEnds ==
    ASSUME NEW r, sent \in Nat, Wizard!Done(r)
    PROVE  net' = net \ {r} /\ UNCHANGED <<sent, server>>
<1>1. Wizard!Requests(<<>>) = {} /\ Len(<<>>) = 0
  BY NoneAsked DEF Wizard!Requests, Wizard!Request
<1> QED
  BY <1>1 DEF Wizard!Done, Wizard!Go

\* r is answered, or the gateway acts on it and it is sent again.
WizardMoved(r, got, held) ==
    \/ Wizard!Settle(r, got, held)
    \/ got = Waiting /\ \E acts \in Nat : Wizard!SentAgain(r, acts, r.ask, held)

LEMMA WizardMoves ==
    ASSUME NEW r \in net, NEW got, got \in WizardGots, NEW held, net \subseteq WizardSent, sent \in Nat, WizardMoved(r, got, held)
    PROVE  /\ sent' \in {sent, sent + 1}
           /\ \E to \in WizardSent : Wizard!Moves(r, to, held) /\ to.id \in {r.id, sent'} /\ to.ask = r.ask /\ to.got = got
                             /\ (got # Waiting => to.id = r.id)
<1>1. r \in WizardSent
  OBVIOUS
<1>2. CASE Wizard!Settle(r, got, held)
  <2> DEFINE to == [r EXCEPT !.got = got]
  <2>1. to \in WizardSent /\ to.id = r.id /\ to.ask = r.ask /\ to.got = got
    BY <1>1 DEF WizardSent
  <2>2. Wizard!Moves(r, to, held) /\ sent' = sent
    BY <1>2 DEF Wizard!Settle
  <2> QED
    BY <2>1, <2>2
<1>3. CASE got = Waiting /\ \E acts \in Nat : Wizard!SentAgain(r, acts, r.ask, held)
  <2>1. PICK acts \in Nat : Wizard!SentAgain(r, acts, r.ask, held)
    BY <1>3
  <2> DEFINE req == Wizard!Request(sent + 1, r.ask)
             to == [req EXCEPT !.acts = acts]
  <2>2. req \in WizardSent /\ req.id = sent + 1 /\ req.ask = r.ask /\ req.got = Waiting
    BY <1>1, <1>3 DEF WizardSent, Wizard!Request
  <2> HIDE DEF req
  <2>3. to \in WizardSent /\ to.id = sent + 1 /\ to.ask = r.ask /\ to.got = got
    BY <1>3, <2>2 DEF WizardSent
  <2>4. Wizard!Moves(r, to, held) /\ sent' = sent + 1
    BY <2>1 DEF Wizard!SentAgain, req
  <2> QED
    BY <1>3, <2>3, <2>4
<1> QED
  BY <1>2, <1>3 DEF WizardMoved

LEMMA WizardSettled ==
    ASSUME NEW r \in net, NEW got, got \in WizardGots, NEW held, net \subseteq WizardSent, sent \in Nat, WizardMoved(r, got, held)
    PROVE  /\ server' = held /\ UNCHANGED ui /\ sent' \in {sent, sent + 1}
           /\ \E new \in [net -> WizardSent] :
              /\ net' = {new[q] : q \in net}
              /\ \A q \in net : /\ new[q].ask = q.ask /\ new[q].got = IF q = r THEN got ELSE q.got
                                /\ new[q].id = q.id \/ (q = r /\ new[q].id = sent')
                                /\ got # Waiting => new[q].id = q.id
<1>1. PICK to \in WizardSent : Wizard!Moves(r, to, held) /\ to.id \in {r.id, sent'} /\ to.ask = r.ask /\ to.got = got
                             /\ (got # Waiting => to.id = r.id)
  BY WizardMoves
<1>2. net' = {IF q = r THEN to ELSE [q EXCEPT !.late = q.got # Waiting /\ (@ \/ held # server)] : q \in net}
  BY <1>1 DEF Wizard!Moves
<1> DEFINE Late(q) == q.got # Waiting /\ (q.late \/ held # server)
           New(q) == IF q = r THEN to ELSE [q EXCEPT !.late = Late(q)]
<1>3. ASSUME NEW q \in net
      PROVE  /\ New(q) \in WizardSent /\ New(q).ask = q.ask /\ New(q).got = IF q = r THEN got ELSE q.got
             /\ New(q).id = q.id \/ (q = r /\ New(q).id = sent')
             /\ got # Waiting => New(q).id = q.id
  <2>1. q \in WizardSent /\ Late(q) \in BOOLEAN
    OBVIOUS
  <2> HIDE DEF Late
  <2> QED
    BY <1>1, <2>1 DEF WizardSent
<1>4. net' = {New(q) : q \in net}
  BY <1>2
<1> HIDE DEF New
<1> DEFINE new == [q \in net |-> New(q)]
<1>5. new \in [net -> WizardSent] /\ \A q \in net : new[q] = New(q)
  BY <1>3
<1>6. net' = {new[q] : q \in net}
  BY <1>4, <1>5
<1> HIDE DEF new
<1>7. server' = held /\ UNCHANGED ui /\ sent' \in {sent, sent + 1}
  BY <1>1, WizardMoves DEF Wizard!Moves
<1> QED
  BY <1>3, <1>5, <1>6, <1>7

LEMMA WizardSettles ==
    ASSUME NEW r \in net, NEW got, got \in WizardGots, NEW held, net \subseteq WizardSent, sent \in Nat, WizardMoved(r, got, held)
    PROVE  /\ net' \subseteq WizardSent /\ server' = held /\ UNCHANGED ui /\ sent' \in Nat
           /\ \A p \in net' : \E q \in net : p.ask = q.ask /\ p.got = IF q = r THEN got ELSE q.got
           /\ \A q \in net : \E p \in net' : p.ask = q.ask /\ p.got = IF q = r THEN got ELSE q.got
<1>1. /\ server' = held /\ UNCHANGED ui /\ sent' \in {sent, sent + 1}
      /\ \E new \in [net -> WizardSent] :
            /\ net' = {new[q] : q \in net}
            /\ \A q \in net : /\ new[q].ask = q.ask /\ new[q].got = IF q = r THEN got ELSE q.got
                              /\ new[q].id = q.id \/ (q = r /\ new[q].id = sent')
  BY WizardSettled
<1>2. PICK new \in [net -> WizardSent] :
            /\ net' = {new[q] : q \in net}
            /\ \A q \in net : new[q].ask = q.ask /\ new[q].got = IF q = r THEN got ELSE q.got
  BY <1>1
<1>3. sent' \in Nat
  BY <1>1
<1> QED
  BY ONLY <1>1, <1>2, <1>3

LEMMA WizardActs ==
    ASSUME net \subseteq WizardSent,
           Wizard!Serve(Wizard!Refused, Wizard!Effect, Wizard!Reply) \/ Wizard!Repeat(Wizard!Refused, Wizard!Effect)
    PROVE  \E r \in net :
              \/ WizardMoved(r, Failed, server)
              \/ ~Wizard!Refused(r) /\ \E got \in {Waiting, Failed, Wizard!Reply(r)} : WizardMoved(r, got, Wizard!Effect(r))
<1>1. CASE Wizard!Serve(Wizard!Refused, Wizard!Effect, Wizard!Reply)
  BY <1>1 DEF Wizard!Serve, Wizard!ServeOne, WizardMoved
<1>2. CASE Wizard!Repeat(Wizard!Refused, Wizard!Effect)
  <2>1. PICK r \in net : ~Wizard!Refused(r) /\ Wizard!SentAgain(r, r.acts + 1, r.ask, Wizard!Effect(r))
    BY <1>2 DEF Wizard!Repeat, Wizard!RepeatOne, Wizard!Same
  <2>2. r.acts + 1 \in Nat
    BY DEF WizardSent
  <2> QED
    BY <2>1, <2>2 DEF WizardMoved
<1> QED
  BY <1>1, <1>2

LEMMA WizardInitIInv == Wizard!Init => WizardIInv
<1> SUFFICES ASSUME Wizard!Init PROVE WizardIInv
  OBVIOUS
<1>1. ui = [step |-> 1, type |-> "agent", name |-> "", slug |-> "", manual |-> FALSE, links |-> {},
            status |-> "idle", timer |-> FALSE, submitting |-> FALSE, failed |-> FALSE, done |-> FALSE,
            crossed |-> FALSE, inUse |-> DOMAIN Wizard!Targets, listed |-> FALSE]
  BY DEF Wizard!Init, Wizard!Started
<1> QED
  <2> DEFINE none == {}
             all == DOMAIN Wizard!Targets
  <2>1. none \in SUBSET all /\ all \in SUBSET DOMAIN Wizard!Targets /\ \A h \in none : FALSE
    OBVIOUS
  <2>2. ui = [step |-> 1, type |-> "agent", name |-> "", slug |-> "", manual |-> FALSE, links |-> none,
              status |-> "idle", timer |-> FALSE, submitting |-> FALSE, failed |-> FALSE, done |-> FALSE,
              crossed |-> FALSE, inUse |-> all, listed |-> FALSE]
    BY <1>1
  <2> HIDE DEF none, all
  <2>3. /\ 1 \in 1 .. 4 /\ "agent" \in Wizard!Types /\ "" \in Wizard!Names /\ "" \in Wizard!Slugs
        /\ "idle" \in WizardStatus
    BY DEF WizardStatus, Wizard!Types, Wizard!Names, Wizard!Slugs
  <2>5. ui \in WizardApp /\ ui.links = none /\ ui.inUse = all /\ ui.status = "idle" /\ ui.submitting = FALSE
    BY <2>1, <2>2, <2>3 DEF WizardApp, all
  <2>4. net = {} /\ sent = 0
    <3>1. net = {Wizard!Request(i, <<>>[i]) : i \in DOMAIN <<>>} /\ sent = Len(<<>>)
      BY DEF Wizard!Init, Wizard!Started
    <3> QED
      BY <3>1, NoneAsked DEF Wizard!Request
  <2> QED
    BY <2>1, <2>4, <2>5 DEF WizardIInv, WizardTypeInv, Wizard!BusyHasCause, Wizard!LinksAreLegal

\* What the form is left with: a check stays waited for, and links legal, unless
\* a step does something about them.
WizardKept(state) ==
    /\ state \in WizardApp
    /\ state.status = "checking" => state.timer \/ Wizard!Out({"check"})
    /\ state.submitting = ui.submitting /\ state.done = ui.done
    /\ \A h \in state.links : Wizard!Targets[h] \in Wizard!LegalTargets[state.type]

LEMMA WizardChecks ==
    ASSUME NEW state, WizardKept(state)
    PROVE  WizardKept(Wizard!Check(state))
<1>1. CASE state.slug = ui.slug /\ state.type = ui.type
  BY <1>1 DEF Wizard!Check
<1>2. CASE ~(state.slug = ui.slug /\ state.type = ui.type)
  <2> DEFINE status == CASE state.slug = "" -> "idle" [] state.slug = "-" -> "invalid" [] OTHER -> "checking"
             timer == state.slug \notin {"", "-"}
  <2>1. Wizard!Check(state) = [state EXCEPT !.status = status, !.timer = timer]
    BY <1>2 DEF Wizard!Check
  <2>2. status \in WizardStatus /\ timer \in BOOLEAN /\ (status = "checking" => timer)
    BY DEF WizardStatus
  <2> HIDE DEF status, timer
  <2>3. state \in WizardApp
    BY DEF WizardKept
  <2>4. LET new == [state EXCEPT !.status = status, !.timer = timer]
        IN  /\ new \in WizardApp /\ new.status = status /\ new.timer = timer
            /\ new.submitting = state.submitting /\ new.done = state.done
            /\ new.links = state.links /\ new.type = state.type
            /\ new.inUse = state.inUse /\ new.listed = state.listed
    BY <2>2, <2>3 DEF WizardApp
  <2> QED
    BY <2>1, <2>2, <2>4 DEF WizardKept
<1> QED
  BY <1>1, <1>2

LEMMA WizardSets ==
    ASSUME WizardIInv, NEW state, WizardKept(state), Wizard!Set(state)
    PROVE  WizardIInv'
BY DEF WizardIInv, WizardTypeInv, WizardKept, Wizard!Set, Wizard!Local, Wizard!BusyHasCause, Wizard!LinksAreLegal, Wizard!Out

LEMMA WizardFormStep ==
    ASSUME WizardIInv,
           \/ Wizard!NextStep \/ Wizard!Back \/ Wizard!ListFetched
           \/ \E t \in Wizard!Types : Wizard!SelectType(t)
           \/ \E n \in Wizard!Names : Wizard!EditName(n)
           \/ \E s \in Wizard!Slugs : Wizard!EditSlug(s)
           \/ \E h \in DOMAIN Wizard!Targets : Wizard!ToggleLink(h)
    PROVE  WizardIInv'
<1>1. ui \in WizardApp /\ WizardKept(ui)
  BY DEF WizardIInv, WizardTypeInv, WizardKept, Wizard!BusyHasCause, Wizard!LinksAreLegal
<1>2. ASSUME NEW step, step \in 1 .. 4, Wizard!Set([ui EXCEPT !.step = step])
      PROVE  WizardIInv'
  BY <1>1, <1>2, WizardSets DEF WizardKept, WizardApp
<1>3. CASE Wizard!NextStep \/ Wizard!Back
  <2>1. \E step \in 1 .. 4 : Wizard!Set([ui EXCEPT !.step = step])
    <3>1. ui.step \in 1 .. 4
      BY <1>1 DEF WizardApp
    <3>2. CASE Wizard!NextStep
      <4>1. ui.step < 4 /\ Wizard!Set([ui EXCEPT !.step = ui.step + 1])
        BY ONLY <3>2 DEF Wizard!NextStep
      <4>2. ui.step + 1 \in 1 .. 4
        BY <3>1, <4>1
      <4> QED
        BY <4>1, <4>2
    <3>3. CASE Wizard!Back
      <4>1. ui.step - 1 \in 1 .. 4 /\ Wizard!Set([ui EXCEPT !.step = ui.step - 1])
        BY <3>1, <3>3 DEF Wizard!Back, Wizard!Set
      <4> QED
        BY <4>1
    <3> QED
      BY <1>3, <3>2, <3>3
  <2> QED
    BY <1>2, <2>1
<1>4. CASE \E t \in Wizard!Types : Wizard!SelectType(t)
  <2> PICK t \in Wizard!Types : Wizard!SelectType(t)
    BY <1>4
  <2> DEFINE none == {}
  <2>1. Wizard!Set(Wizard!Check([ui EXCEPT !.type = t, !.links = none]))
    BY DEF Wizard!SelectType
  <2>2. none \in SUBSET DOMAIN Wizard!Targets /\ \A h \in none : FALSE
    OBVIOUS
  <2> HIDE DEF none
  <2>3. WizardKept([ui EXCEPT !.type = t, !.links = none])
    BY <1>1, <2>2 DEF WizardKept, WizardApp
  <2> QED
    BY <2>1, <2>3, WizardChecks, WizardSets
<1>5. CASE \E n \in Wizard!Names : Wizard!EditName(n)
  <2> PICK n \in Wizard!Names : Wizard!EditName(n)
    BY <1>5
  <2> DEFINE slug == Wizard!Derived(n)
  <2>1. Wizard!Set(Wizard!Check([ui EXCEPT !.name = n, !.slug = slug]))
    BY DEF Wizard!EditName
  <2>2. slug \in Wizard!Slugs
    BY <1>1 DEF Wizard!Derived, WizardApp, Wizard!Names, Wizard!Slugs
  <2> HIDE DEF slug
  <2>3. WizardKept([ui EXCEPT !.name = n, !.slug = slug])
    BY <1>1, <2>2 DEF WizardKept, WizardApp
  <2> QED
    BY <2>1, <2>3, WizardChecks, WizardSets
<1>6. CASE \E s \in Wizard!Slugs : Wizard!EditSlug(s)
  <2> PICK s \in Wizard!Slugs : Wizard!EditSlug(s)
    BY <1>6
  <2>1. Wizard!Set(Wizard!Check([ui EXCEPT !.slug = s, !.manual = TRUE]))
    BY DEF Wizard!EditSlug
  <2>2. WizardKept([ui EXCEPT !.slug = s, !.manual = TRUE])
    BY <1>1 DEF WizardKept, WizardApp
  <2> QED
    BY <2>1, <2>2, WizardChecks, WizardSets
<1>7. CASE \E h \in DOMAIN Wizard!Targets : Wizard!ToggleLink(h)
  <2> PICK h \in DOMAIN Wizard!Targets : Wizard!ToggleLink(h)
    BY <1>7
  <2> DEFINE links == Wizard!Toggled(h)
  <2>1. Wizard!Set([ui EXCEPT !.links = links]) /\ h \in Wizard!Eligible
    BY DEF Wizard!ToggleLink
  <2>2. links \in SUBSET DOMAIN Wizard!Targets /\ links \subseteq ui.links \cup {h}
    BY <1>1 DEF Wizard!Toggled, WizardApp
  <2>3. \A k \in links : Wizard!Targets[k] \in Wizard!LegalTargets[ui.type]
    BY <1>1, <2>1, <2>2 DEF Wizard!Eligible, WizardKept
  <2> HIDE DEF links
  <2>4. WizardKept([ui EXCEPT !.links = links])
    BY <1>1, <2>2, <2>3 DEF WizardKept, WizardApp
  <2> QED
    BY <2>1, <2>4, WizardSets
<1>8. CASE Wizard!ListFetched
  <2> PICK h \in DOMAIN Wizard!Targets : Wizard!Set([ui EXCEPT !.inUse = ui.inUse \ {h}, !.listed = TRUE])
    BY <1>8 DEF Wizard!ListFetched
  <2> DEFINE inUse == ui.inUse \ {h}
  <2>1. inUse \in SUBSET DOMAIN Wizard!Targets
    BY <1>1 DEF WizardApp
  <2> HIDE DEF inUse
  <2>2. WizardKept([ui EXCEPT !.inUse = inUse, !.listed = TRUE])
    BY <1>1, <2>1 DEF WizardKept, WizardApp
  <2> QED
    BY <2>2, WizardSets DEF inUse
<1> QED
  BY <1>3, <1>4, <1>5, <1>6, <1>7, <1>8

\* The requests: one goes out, one is answered, the gateway serves one.
LEMMA WizardSendStep ==
    ASSUME WizardIInv, Wizard!Finish \/ Wizard!SendCheck
    PROVE  WizardIInv'
<1>1. ui \in WizardApp /\ net \subseteq WizardSent /\ sent \in Nat
  BY DEF WizardIInv, WizardTypeInv
<1>2. ASSUME NEW ask, ask \in WizardAsks, Wizard!Send(<<ask>>)
      PROVE  /\ net' \subseteq WizardSent /\ sent' \in Nat /\ Wizard!Out({ask.op})'
             /\ \A ops : Wizard!Out(ops) => Wizard!Out(ops)'
  <2>1. net' = net \cup {NewRequest(sent, ask)} /\ sent' = sent + 1
    BY <1>2, WizardAsks1
  <2>2. NewRequest(sent, ask) \in WizardSent /\ NewRequest(sent, ask).ask = ask
    BY <1>1, <1>2 DEF NewRequest, WizardSent, WizardGots
  <2> QED
    BY <1>1, <2>1, <2>2 DEF Wizard!Out
<1>3. CASE Wizard!Finish
  <2> DEFINE ask == [op |-> "create", type |-> ui.type, slug |-> ui.slug, links |-> ui.links]
  <2>1. ui' = [ui EXCEPT !.submitting = TRUE, !.failed = FALSE] /\ Wizard!Send(<<ask>>)
    BY <1>3 DEF Wizard!Finish, Wizard!Ask
  <2>2. ask.op = "create" /\ ask \in WizardAsks
    BY <1>1 DEF WizardApp, WizardAsks
  <2> HIDE DEF ask
  <2>3. /\ net' \subseteq WizardSent /\ sent' \in Nat /\ Wizard!Out({"create"})'
        /\ (Wizard!Out({"check"}) => Wizard!Out({"check"})')
    BY <1>2, <2>1, <2>2
  <2>4. /\ ui' \in WizardApp /\ ui'.submitting = TRUE /\ ui'.status = ui.status /\ ui'.timer = ui.timer
        /\ ui'.links = ui.links /\ ui'.type = ui.type /\ ui'.inUse = ui.inUse /\ ui'.listed = ui.listed
    BY <1>1, <2>1 DEF WizardApp
  <2> QED
    BY <2>3, <2>4 DEF WizardIInv, WizardTypeInv, Wizard!BusyHasCause, Wizard!LinksAreLegal
<1>4. CASE Wizard!SendCheck
  <2> DEFINE ask == [op |-> "check", type |-> ui.type, slug |-> ui.slug]
  <2>1. ui' = [ui EXCEPT !.timer = FALSE] /\ Wizard!Send(<<ask>>)
    BY <1>4 DEF Wizard!SendCheck, Wizard!Ask
  <2>2. ask.op = "check" /\ ask \in WizardAsks
    BY <1>1 DEF WizardApp, WizardAsks
  <2> HIDE DEF ask
  <2>3. /\ net' \subseteq WizardSent /\ sent' \in Nat /\ Wizard!Out({"check"})'
        /\ (Wizard!Out({"create"}) => Wizard!Out({"create"})')
    BY <1>2, <2>1, <2>2
  <2>4. /\ ui' \in WizardApp /\ ui'.submitting = ui.submitting /\ ui'.done = ui.done
        /\ ui'.links = ui.links /\ ui'.type = ui.type /\ ui'.inUse = ui.inUse /\ ui'.listed = ui.listed
    BY <1>1, <2>1 DEF WizardApp
  <2> QED
    BY <2>3, <2>4 DEF WizardIInv, WizardTypeInv, Wizard!BusyHasCause, Wizard!LinksAreLegal
<1> QED
  BY <1>3, <1>4

LEMMA WizardAnswerStep ==
    ASSUME WizardIInv, NEW r \in net, Wizard!Checked(r) \/ Wizard!Created(r)
    PROVE  WizardIInv'
<1>1. ui \in WizardApp /\ net \subseteq WizardSent /\ sent \in Nat
  BY DEF WizardIInv, WizardTypeInv
<1>2. Wizard!Done(r)
  BY DEF Wizard!Checked, Wizard!Created, Wizard!Answer, Wizard!Done
<1>3. net' = net \ {r} /\ sent' = sent
  BY <1>1, <1>2, WizardEnds
<1>4. \A op : op # r.ask.op => (Wizard!Out({op}) => Wizard!Out({op})')
  BY <1>3 DEF Wizard!Out
<1>5. CASE Wizard!Checked(r)
  <2> DEFINE status == IF r.got = Failed \/ r.got THEN "available" ELSE "taken"
             crossed == r.got = Failed \/ <<r.ask.type, r.ask.slug>> # <<ui.type, ui.slug>>
  <2>1. ui' = [ui EXCEPT !.status = status, !.crossed = crossed] /\ r.ask.op = "check"
    BY <1>5 DEF Wizard!Checked, Wizard!Came
  <2>2. status \in {"available", "taken"} /\ crossed \in BOOLEAN
    OBVIOUS
  <2> HIDE DEF status, crossed
  <2>3. /\ ui' \in WizardApp /\ ui'.status = status /\ ui'.submitting = ui.submitting /\ ui'.done = ui.done
        /\ ui'.links = ui.links /\ ui'.type = ui.type /\ ui'.inUse = ui.inUse /\ ui'.listed = ui.listed
    BY <1>1, <2>1, <2>2 DEF WizardApp, WizardStatus
  <2> QED
    BY <1>1, <1>3, <1>4, <2>1, <2>2, <2>3 DEF WizardIInv, WizardTypeInv, Wizard!BusyHasCause, Wizard!LinksAreLegal
<1>6. CASE Wizard!Created(r)
  <2>1. \/ ui' = [ui EXCEPT !.done = TRUE]
        \/ ui' = [ui EXCEPT !.submitting = FALSE, !.failed = TRUE]
    BY <1>6 DEF Wizard!Created, Wizard!Answer
  <2>2. r.ask.op = "create"
    BY <1>6 DEF Wizard!Created, Wizard!Answer, Wizard!Came
  <2>3. /\ ui' \in WizardApp /\ ui'.status = ui.status /\ ui'.timer = ui.timer /\ (ui'.submitting => ui'.done)
        /\ ui'.links = ui.links /\ ui'.type = ui.type /\ ui'.inUse = ui.inUse /\ ui'.listed = ui.listed
    BY <1>1, <2>1 DEF WizardApp
  <2> QED
    BY <1>1, <1>3, <1>4, <2>2, <2>3 DEF WizardIInv, WizardTypeInv, Wizard!BusyHasCause, Wizard!LinksAreLegal
<1> QED
  BY <1>5, <1>6

LEMMA WizardServeStep ==
    ASSUME WizardIInv,
           \/ Wizard!OtherCreates
           \/ Wizard!Serve(Wizard!Refused, Wizard!Effect, Wizard!Reply) \/ Wizard!Repeat(Wizard!Refused, Wizard!Effect)
    PROVE  WizardIInv'
<1>1. ui \in WizardApp /\ net \subseteq WizardSent /\ sent \in Nat
  BY DEF WizardIInv, WizardTypeInv
<1>2. ui' = ui /\ sent' \in Nat /\ net' \subseteq WizardSent /\ \A q \in net : \E p \in net' : p.ask = q.ask
  <2>1. CASE Wizard!OtherCreates
    <3>1. net' = {[q EXCEPT !.late = TRUE] : q \in net} /\ ui' = ui /\ sent' = sent
      BY <2>1 DEF Wizard!OtherCreates
    <3>2. \A q \in net : [q EXCEPT !.late = TRUE] \in WizardSent /\ [q EXCEPT !.late = TRUE].ask = q.ask
      BY <1>1 DEF WizardSent
    <3> QED
      BY <1>1, <3>1, <3>2
  <2>2. CASE Wizard!Serve(Wizard!Refused, Wizard!Effect, Wizard!Reply) \/ Wizard!Repeat(Wizard!Refused, Wizard!Effect)
    <3>1. PICK q \in net : \E got \in {Waiting, Failed, Wizard!Reply(q)} : \E held : WizardMoved(q, got, held)
      BY <1>1, <2>2, WizardActs
    <3>2. {Waiting, Failed, Wizard!Reply(q)} \subseteq WizardGots
      BY DEF Wizard!Reply, WizardGots
    <3>3. PICK got \in {Waiting, Failed, Wizard!Reply(q)} : \E held : WizardMoved(q, got, held)
      BY <3>1
    <3>4. PICK held : WizardMoved(q, got, held)
      BY <3>3
    <3> HIDE DEF WizardMoved
    <3> QED
      BY <1>1, <3>2, <3>4, WizardSettles
  <2> QED
    BY <2>1, <2>2
<1>3. \A ops : Wizard!Out(ops) => Wizard!Out(ops)'
  BY <1>2 DEF Wizard!Out
<1> QED
  BY <1>1, <1>2, <1>3 DEF WizardIInv, WizardTypeInv, Wizard!BusyHasCause, Wizard!LinksAreLegal

LEMMA WizardNextIInv == ASSUME WizardIInv, [Wizard!Next]_(Wizard!vars) PROVE WizardIInv'
<1>1. CASE UNCHANGED Wizard!vars
  BY <1>1 DEF Wizard!vars, WizardIInv, WizardTypeInv, Wizard!BusyHasCause, Wizard!LinksAreLegal, Wizard!Out
<1> QED
  BY <1>1, WizardFormStep, WizardSendStep, WizardAnswerStep, WizardServeStep DEF Wizard!Next

LEMMA WizardShown == WizardIInv => Wizard!TypeOK /\ Wizard!BusyHasCause /\ Wizard!LinksAreLegal
BY DEF WizardIInv, WizardTypeInv, WizardApp, WizardStatus, Wizard!TypeOK
-----------------------------------------------------------------------------
(* The wizard: the mark beside the slug. *)

WizardServer == [hubs : SUBSET (Wizard!Types \X Wizard!Slugs), changes : {0, 1}]

\* A check's answer: that a slug is taken stays so; that it is free, until one more hub is created.
WizardAnswersInv ==
    \A r \in net : r.ask.op = "check" =>
        /\ r.ask.slug \notin {"", "-"}
        /\ r.got = FALSE => <<r.ask.type, r.ask.slug>> \in server.hubs
        /\ ~raced /\ server.changes = 0 /\ ~r.late /\ r.got = TRUE => <<r.ask.type, r.ask.slug>> \notin server.hubs
WizardMarkInv ==
    ~ui.crossed =>
        /\ ui.status = "idle" <=> ui.slug = ""
        /\ ui.status = "invalid" <=> ui.slug = "-"
        /\ ui.status = "taken" => <<ui.type, ui.slug>> \in server.hubs
        /\ ui.status = "available" /\ ~raced /\ server.changes = 0 /\ ~ui.done =>
              <<ui.type, ui.slug>> \notin server.hubs \/ \E r \in net : r.ask.op = "create" /\ Acted(r)
WizardFreshInv ==
    /\ server \in WizardServer /\ (ui.timer => ui.slug \notin {"", "-"})
    /\ WizardAnswersInv /\ WizardMarkInv

LEMMA WizardRaces ==
    ASSUME NEW r, NEW asks
    PROVE  /\ Wizard!Send(asks) => UNCHANGED <<server, raced>>
           /\ Wizard!Go(r, asks) => UNCHANGED server /\ raced' = (raced \/ (r.late /\ r.got # Failed))
           /\ Wizard!Done(r) => UNCHANGED server /\ raced' = (raced \/ (r.late /\ r.got # Failed))
BY DEF Wizard!Send, Wizard!Done, Wizard!Go

\* What others find when the gateway serves a request, which becomes to.
LEMMA WizardMovesLate ==
    ASSUME NEW r \in net, NEW to \in WizardSent, NEW held, net \subseteq WizardSent, Wizard!Moves(r, to, held)
    PROVE  \E new \in [net -> WizardSent] :
              /\ net' = {new[q] : q \in net} /\ server' = held /\ UNCHANGED ui
              /\ new[r] = to
              /\ \A q \in net : q # r => /\ new[q].id = q.id /\ new[q].ask = q.ask /\ new[q].got = q.got /\ new[q].acts = q.acts
                                         /\ new[q].late = (q.got # Waiting /\ (q.late \/ held # server))
<1>1. net' = {IF q = r THEN to ELSE [q EXCEPT !.late = q.got # Waiting /\ (@ \/ held # server)] : q \in net}
  BY DEF Wizard!Moves
<1> DEFINE Late(q) == q.got # Waiting /\ (q.late \/ held # server)
           New(q) == IF q = r THEN to ELSE [q EXCEPT !.late = Late(q)]
           new == [q \in net |-> New(q)]
<1>2. ASSUME NEW q \in net
      PROVE  /\ New(q) \in WizardSent /\ (q = r => New(q) = to)
             /\ q # r => /\ New(q).id = q.id /\ New(q).ask = q.ask /\ New(q).got = q.got /\ New(q).acts = q.acts
                         /\ New(q).late = Late(q)
  <2>1. q \in WizardSent /\ Late(q) \in BOOLEAN
    OBVIOUS
  <2> HIDE DEF Late
  <2> QED
    BY <2>1 DEF WizardSent
<1>3. net' = {New(q) : q \in net}
  BY <1>1
<1>4. \A q \in net : q # r => New(q).late = (q.got # Waiting /\ (q.late \/ held # server))
  BY <1>2
<1> HIDE DEF New
<1>5. new \in [net -> WizardSent] /\ \A q \in net : new[q] = New(q)
  BY <1>2
<1>6. net' = {new[q] : q \in net}
  BY <1>3, <1>5
<1> HIDE DEF new
<1>7. server' = held /\ UNCHANGED ui
  BY DEF Wizard!Moves
<1> QED
  BY <1>2, <1>4, <1>5, <1>6, <1>7

LEMMA WizardSettlesLate ==
    ASSUME NEW r \in net, NEW got, got \in WizardGots, NEW held, net \subseteq WizardSent, Wizard!Settle(r, got, held)
    PROVE  sent' = sent /\ server' = held /\ \E new \in [net -> WizardSent] : Serves(r, new) /\ new[r].got = got /\ new[r].id = r.id
<1> DEFINE to == [r EXCEPT !.got = got]
<1>1. r \in WizardSent
  OBVIOUS
<1>2. to \in WizardSent /\ to.ask = r.ask /\ to.got = got /\ to.late = r.late /\ to.id = r.id /\ to.acts = r.acts
  BY <1>1 DEF WizardSent
<1>3. Wizard!Moves(r, to, held) /\ sent' = sent
  BY DEF Wizard!Settle
<1> HIDE DEF to
<1>4. PICK new \in [net -> WizardSent] :
              /\ net' = {new[q] : q \in net} /\ server' = held /\ UNCHANGED ui
              /\ new[r] = to
              /\ \A q \in net : q # r => /\ new[q].id = q.id /\ new[q].ask = q.ask /\ new[q].got = q.got /\ new[q].acts = q.acts
                                         /\ new[q].late = (q.got # Waiting /\ (q.late \/ held # server))
  BY <1>2, <1>3, WizardMovesLate
<1>5. server' = held
  BY <1>4
<1>6. Serves(r, new)
  BY <1>2, <1>4 DEF Serves
<1> QED
  BY <1>2, <1>3, <1>4, <1>5, <1>6

LEMMA WizardRepeatsLate ==
    ASSUME NEW r \in net, NEW acts \in Nat, acts # 0, NEW held, net \subseteq WizardSent, sent \in Nat, Wizard!SentAgain(r, acts, r.ask, held)
    PROVE  /\ server' = held /\ sent' = sent + 1 /\ raced' = raced
           /\ \E new \in [net -> WizardSent] : Serves(r, new) /\ new[r].got = Waiting /\ new[r].acts = acts
<1> DEFINE req == Wizard!Request(sent + 1, r.ask)
           to == [req EXCEPT !.acts = acts]
<1>1. req \in WizardSent /\ req.ask = r.ask /\ req.got = Waiting /\ req.late = FALSE
  <2>1. r.ask \in WizardAsks
    BY DEF WizardSent
  <2>2. Waiting \in WizardGots
    BY DEF WizardGots
  <2> QED
    BY <2>1, <2>2 DEF WizardSent, Wizard!Request
<1>2. Wizard!Moves(r, to, held) /\ sent' = sent + 1 /\ raced' = raced
  BY DEF Wizard!SentAgain
<1> HIDE DEF req
<1>3. to \in WizardSent /\ to.ask = r.ask /\ to.got = Waiting /\ to.late = FALSE /\ to.acts = acts
  BY <1>1 DEF WizardSent
<1> HIDE DEF to
<1>4. PICK new \in [net -> WizardSent] :
              /\ net' = {new[q] : q \in net} /\ server' = held /\ UNCHANGED ui
              /\ new[r] = to
              /\ \A q \in net : q # r => /\ new[q].id = q.id /\ new[q].ask = q.ask /\ new[q].got = q.got /\ new[q].acts = q.acts
                                         /\ new[q].late = (q.got # Waiting /\ (q.late \/ held # server))
  BY <1>2, <1>3, WizardMovesLate
<1>5. server' = held
  BY <1>4
<1>6. Serves(r, new)
  BY <1>3, <1>4 DEF Serves
<1> QED
  BY <1>2, <1>3, <1>4, <1>5, <1>6

LEMMA WizardServing ==
    ASSUME net \subseteq WizardSent, sent \in Nat, Wizard!Serve(Wizard!Refused, Wizard!Effect, Wizard!Reply) \/ Wizard!Repeat(Wizard!Refused, Wizard!Effect),
           \A r \in net : ~Wizard!Refused(r) => Wizard!Reply(r) \in WizardGots
    PROVE  \E r \in net : \E new \in [net -> WizardSent] :
              /\ r.got = Waiting /\ Serves(r, new)
              /\ \/ /\ ~Wizard!Refused(r) /\ new[r].got = Wizard!Reply(r) /\ server' = Wizard!Effect(r) /\ raced' = raced
                    /\ sent' = sent /\ new[r].id = r.id
                 \/ /\ new[r].got = Failed /\ server' = server /\ raced' = (raced \/ r.acts # 0)
                    /\ sent' = sent /\ new[r].id = r.id
                 \/ /\ ~Wizard!Refused(r) /\ new[r].got = Failed /\ server' = Wizard!Effect(r) /\ raced' = TRUE
                    /\ sent' = sent /\ new[r].id = r.id
                 \/ /\ ~Wizard!Refused(r) /\ new[r].got = Waiting /\ new[r].acts # 0 /\ server' = Wizard!Effect(r) /\ raced' = raced
                    /\ sent' = sent + 1 /\ server' # server
<1>1. Failed \in WizardGots
  BY DEF WizardGots
<1>2. CASE Wizard!Serve(Wizard!Refused, Wizard!Effect, Wizard!Reply)
  <2>1. PICK r \in net : /\ r.got = Waiting
                         /\ \/ ~Wizard!Refused(r) /\ Wizard!Settle(r, Wizard!Reply(r), Wizard!Effect(r)) /\ raced' = raced
                            \/ Wizard!Settle(r, Failed, server) /\ raced' = (raced \/ r.acts # 0)
                            \/ ~Wizard!Refused(r) /\ Wizard!Settle(r, Failed, Wizard!Effect(r)) /\ raced' = TRUE
    BY <1>2 DEF Wizard!Serve, Wizard!ServeOne
  <2>2. CASE ~Wizard!Refused(r) /\ Wizard!Settle(r, Wizard!Reply(r), Wizard!Effect(r)) /\ raced' = raced
    BY <2>1, <2>2, WizardSettlesLate
  <2>3. CASE Wizard!Settle(r, Failed, server) /\ raced' = (raced \/ r.acts # 0)
    BY <1>1, <2>1, <2>3, WizardSettlesLate
  <2>4. CASE ~Wizard!Refused(r) /\ Wizard!Settle(r, Failed, Wizard!Effect(r)) /\ raced' = TRUE
    <3> DEFINE held == Wizard!Effect(r)
    <3>1. Wizard!Settle(r, Failed, held)
      BY <2>4
    <3> HIDE DEF held
    <3>2. sent' = sent /\ server' = held /\ \E new \in [net -> WizardSent] : Serves(r, new) /\ new[r].got = Failed /\ new[r].id = r.id
      BY <1>1, <3>1, WizardSettlesLate
    <3> QED
      BY <2>1, <2>4, <3>2 DEF held
  <2> QED
    BY <2>1, <2>2, <2>3, <2>4
<1>3. CASE Wizard!Repeat(Wizard!Refused, Wizard!Effect)
  <2>1. PICK r \in net : /\ r.got = Waiting /\ ~Wizard!Refused(r) /\ Wizard!Effect(r) # server
                         /\ Wizard!SentAgain(r, r.acts + 1, r.ask, Wizard!Effect(r))
    BY <1>3 DEF Wizard!Repeat, Wizard!RepeatOne, Wizard!Same
  <2> DEFINE held == Wizard!Effect(r)
             acts == r.acts + 1
  <2>2. acts \in Nat /\ acts # 0
    BY DEF WizardSent
  <2>3. Wizard!SentAgain(r, acts, r.ask, held)
    BY <2>1
  <2> HIDE DEF held, acts
  <2>4. /\ server' = held /\ sent' = sent + 1 /\ raced' = raced
        /\ \E new \in [net -> WizardSent] : Serves(r, new) /\ new[r].got = Waiting /\ new[r].acts = acts
    BY <2>2, <2>3, WizardRepeatsLate
  <2> QED
    BY <2>1, <2>2, <2>4 DEF held
<1> QED
  BY <1>2, <1>3

\* The same as long as nothing that the page was told is out of date.
LEMMA WizardServingOnTime ==
    ASSUME net \subseteq WizardSent, sent \in Nat, Wizard!Serve(Wizard!Refused, Wizard!Effect, Wizard!Reply) \/ Wizard!Repeat(Wizard!Refused, Wizard!Effect), ~raced',
           \A r \in net : ~Wizard!Refused(r) => Wizard!Reply(r) \in WizardGots
    PROVE  \E r \in net : \E new \in [net -> WizardSent] :
              /\ r.got = Waiting /\ Serves(r, new) /\ ~raced
              /\ \/ /\ ~Wizard!Refused(r) /\ new[r].got = Wizard!Reply(r) /\ server' = Wizard!Effect(r)
                    /\ sent' = sent /\ new[r].id = r.id
                 \/ /\ new[r].got = Failed /\ server' = server /\ r.acts = 0
                    /\ sent' = sent /\ new[r].id = r.id
                 \/ /\ ~Wizard!Refused(r) /\ new[r].got = Waiting /\ new[r].acts # 0 /\ server' = Wizard!Effect(r)
                    /\ sent' = sent + 1 /\ server' # server
<1> DEFINE Answered(r, new) == /\ ~Wizard!Refused(r) /\ new[r].got = Wizard!Reply(r) /\ server' = Wizard!Effect(r)
                               /\ sent' = sent /\ new[r].id = r.id
           Unheard(r, new) == new[r].got = Failed /\ server' = server /\ sent' = sent /\ new[r].id = r.id
           Again(r, new) == /\ ~Wizard!Refused(r) /\ new[r].got = Waiting /\ new[r].acts # 0 /\ server' = Wizard!Effect(r)
                            /\ sent' = sent + 1 /\ server' # server
<1>1. PICK r \in net : \E new \in [net -> WizardSent] :
              /\ r.got = Waiting /\ Serves(r, new)
              /\ \/ Answered(r, new) /\ raced' = raced
                 \/ Unheard(r, new) /\ raced' = (raced \/ r.acts # 0)
                 \/ raced' = TRUE
                 \/ Again(r, new) /\ raced' = raced
  BY WizardServing
<1>2. PICK new \in [net -> WizardSent] :
              /\ r.got = Waiting /\ Serves(r, new)
              /\ \/ Answered(r, new) /\ raced' = raced
                 \/ Unheard(r, new) /\ raced' = (raced \/ r.acts # 0)
                 \/ raced' = TRUE
                 \/ Again(r, new) /\ raced' = raced
  BY <1>1
<1> HIDE DEF Answered, Unheard, Again
<1>3. ~raced /\ (Answered(r, new) \/ (Unheard(r, new) /\ r.acts = 0) \/ Again(r, new))
  <2>1. CASE Answered(r, new) /\ raced' = raced
    BY <2>1
  <2>2. CASE Unheard(r, new) /\ raced' = (raced \/ r.acts # 0)
    <3> DEFINE acted == r.acts # 0
    <3>1. raced' = (raced \/ acted)
      BY <2>2
    <3> HIDE DEF acted
    <3>2. ~raced /\ ~acted
      BY <3>1
    <3> QED
      BY <2>2, <3>2 DEF acted
  <2>3. CASE Again(r, new) /\ raced' = raced
    BY <2>3
  <2>4. CASE raced' = TRUE
    BY <2>4
  <2> QED
    BY <1>2, <2>1, <2>2, <2>3, <2>4
<1> QED
  BY <1>2, <1>3 DEF Answered, Unheard, Again

LEMMA WizardInitFresh == Wizard!Init => WizardFreshInv
<1> SUFFICES ASSUME Wizard!Init PROVE WizardFreshInv
  OBVIOUS
<1>1. net = {}
  <2>1. net = {Wizard!Request(i, <<>>[i]) : i \in DOMAIN <<>>}
    BY DEF Wizard!Init, Wizard!Started
  <2> QED
    BY <2>1, NoneAsked DEF Wizard!Request
<1>2. ui.slug = "" /\ ui.status = "idle" /\ ui.timer = FALSE
  BY DEF Wizard!Init, Wizard!Started
<1>3. server \in WizardServer
  <2> DEFINE hubs == {<<"agent", "x">>}
  <2>1. server = [hubs |-> hubs, changes |-> 0]
    BY DEF Wizard!Init, Wizard!Started
  <2>2. <<"agent", "x">> \in Wizard!Types \X Wizard!Slugs
    BY DEF Wizard!Types, Wizard!Slugs
  <2>3. hubs \in SUBSET (Wizard!Types \X Wizard!Slugs)
    BY <2>2
  <2> HIDE DEF hubs
  <2> QED
    BY <2>1, <2>3 DEF WizardServer
<1> QED
  BY <1>1, <1>2, <1>3 DEF WizardFreshInv, WizardAnswersInv, WizardMarkInv

LEMMA WizardPage == WizardIInv => ui \in WizardApp /\ net \subseteq WizardSent /\ sent \in Nat
BY DEF WizardIInv, WizardTypeInv

\* The form changes: another slug or type has no mark until it is checked.
LEMMA WizardSetFresh ==
    ASSUME WizardIInv, WizardFreshInv, NEW state, state \in WizardApp, Wizard!Set(Wizard!Check(state)),
           state.status = ui.status, state.timer = ui.timer, state.done = ui.done, state.crossed = ui.crossed
    PROVE  WizardFreshInv'
<1>1. UNCHANGED <<net, server, raced>> /\ ui' = Wizard!Check(state)
  BY DEF Wizard!Set, Wizard!Local
<1>2. CASE state.slug = ui.slug /\ state.type = ui.type
  <2>1. ui' = state
    BY <1>1, <1>2 DEF Wizard!Check
  <2> QED
    BY <1>1, <1>2, <2>1 DEF WizardFreshInv, WizardAnswersInv, WizardMarkInv
<1>3. CASE ~(state.slug = ui.slug /\ state.type = ui.type)
  <2> DEFINE status == CASE state.slug = "" -> "idle" [] state.slug = "-" -> "invalid" [] OTHER -> "checking"
             timer == state.slug \notin {"", "-"}
  <2>1. ui' = [state EXCEPT !.status = status, !.timer = timer]
    BY <1>1, <1>3 DEF Wizard!Check
  <2>2. /\ status = "idle" <=> state.slug = ""
        /\ status = "invalid" <=> state.slug = "-"
        /\ status \notin {"taken", "available"}
    OBVIOUS
  <2>3. timer => state.slug \notin {"", "-"}
    OBVIOUS
  <2> HIDE DEF status, timer
  <2>4. ui'.status = status /\ ui'.timer = timer /\ ui'.slug = state.slug
    BY <2>1 DEF WizardApp
  <2> QED
    BY <1>1, <2>2, <2>3, <2>4 DEF WizardFreshInv, WizardAnswersInv, WizardMarkInv
<1> QED
  BY <1>2, <1>3

LEMMA WizardFormFresh ==
    ASSUME WizardIInv, WizardFreshInv,
           \/ Wizard!NextStep \/ Wizard!Back \/ Wizard!ListFetched
           \/ \E t \in Wizard!Types : Wizard!SelectType(t)
           \/ \E n \in Wizard!Names : Wizard!EditName(n)
           \/ \E s \in Wizard!Slugs : Wizard!EditSlug(s)
           \/ \E h \in DOMAIN Wizard!Targets : Wizard!ToggleLink(h)
    PROVE  WizardFreshInv'
<1>1. ui \in WizardApp
  BY WizardPage
<1>2. CASE Wizard!NextStep \/ Wizard!Back \/ Wizard!ListFetched \/ \E h \in DOMAIN Wizard!Targets : Wizard!ToggleLink(h)
  <2>1. /\ UNCHANGED <<net, server, raced>>
        /\ \/ ui' = [ui EXCEPT !.step = ui.step + 1] \/ ui' = [ui EXCEPT !.step = ui.step - 1]
           \/ \E h : ui' = [ui EXCEPT !.links = Wizard!Toggled(h)]
           \/ \E h : ui' = [ui EXCEPT !.inUse = ui.inUse \ {h}, !.listed = TRUE]
    BY <1>2 DEF Wizard!ListFetched, Wizard!NextStep, Wizard!Back, Wizard!ToggleLink, Wizard!Set, Wizard!Local
  <2>2. /\ ui'.slug = ui.slug /\ ui'.type = ui.type /\ ui'.status = ui.status /\ ui'.timer = ui.timer
        /\ ui'.done = ui.done /\ ui'.crossed = ui.crossed
    BY <1>1, <2>1 DEF WizardApp
  <2> QED
    BY <2>1, <2>2 DEF WizardFreshInv, WizardAnswersInv, WizardMarkInv
<1>3. ASSUME NEW t \in Wizard!Types, Wizard!SelectType(t)
      PROVE  WizardFreshInv'
  <2> DEFINE none == {}
  <2>1. Wizard!Set(Wizard!Check([ui EXCEPT !.type = t, !.links = none]))
    BY <1>3 DEF Wizard!SelectType
  <2>2. none \in SUBSET DOMAIN Wizard!Targets
    OBVIOUS
  <2> HIDE DEF none
  <2> DEFINE state == [ui EXCEPT !.type = t, !.links = none]
  <2>3. /\ state \in WizardApp
        /\ state.status = ui.status /\ state.timer = ui.timer /\ state.done = ui.done /\ state.crossed = ui.crossed
    BY <1>1, <2>2 DEF WizardApp
  <2> HIDE DEF state
  <2> QED
    BY <2>1, <2>3, WizardSetFresh DEF state
<1>4. ASSUME NEW n \in Wizard!Names, Wizard!EditName(n)
      PROVE  WizardFreshInv'
  <2> DEFINE slug == Wizard!Derived(n)
  <2>1. Wizard!Set(Wizard!Check([ui EXCEPT !.name = n, !.slug = slug]))
    BY <1>4 DEF Wizard!EditName
  <2>2. slug \in Wizard!Slugs
    BY <1>1 DEF Wizard!Derived, WizardApp, Wizard!Names, Wizard!Slugs
  <2> HIDE DEF slug
  <2> DEFINE state == [ui EXCEPT !.name = n, !.slug = slug]
  <2>3. /\ state \in WizardApp
        /\ state.status = ui.status /\ state.timer = ui.timer /\ state.done = ui.done /\ state.crossed = ui.crossed
    BY <1>1, <2>2 DEF WizardApp
  <2> HIDE DEF state
  <2> QED
    BY <2>1, <2>3, WizardSetFresh DEF state
<1>5. ASSUME NEW s \in Wizard!Slugs, Wizard!EditSlug(s)
      PROVE  WizardFreshInv'
  <2> DEFINE state == [ui EXCEPT !.slug = s, !.manual = TRUE]
  <2>1. Wizard!Set(Wizard!Check(state))
    BY <1>5 DEF Wizard!EditSlug
  <2>2. /\ state \in WizardApp
        /\ state.status = ui.status /\ state.timer = ui.timer /\ state.done = ui.done /\ state.crossed = ui.crossed
    BY <1>1 DEF WizardApp
  <2> HIDE DEF state
  <2> QED
    BY <2>1, <2>2, WizardSetFresh
<1> QED
  BY <1>2, <1>3, <1>4, <1>5

LEMMA WizardAskFresh == ASSUME WizardIInv, WizardFreshInv, Wizard!Finish \/ Wizard!SendCheck PROVE WizardFreshInv'
<1>1. \E ask : /\ Wizard!Send(<<ask>>)
               /\ \/ ask.op = "create" /\ ui' = [ui EXCEPT !.submitting = TRUE, !.failed = FALSE]
                  \/ /\ ask.op = "check" /\ ask.slug = ui.slug /\ ui.slug \notin {"", "-"}
                     /\ ui' = [ui EXCEPT !.timer = FALSE]
  <2>1. CASE Wizard!Finish
    <3> DEFINE ask == [op |-> "create", type |-> ui.type, slug |-> ui.slug, links |-> ui.links]
    <3>1. Wizard!Send(<<ask>>) /\ ui' = [ui EXCEPT !.submitting = TRUE, !.failed = FALSE] /\ ask.op = "create"
      BY <2>1 DEF Wizard!Finish, Wizard!Ask
    <3> QED
      BY <3>1
  <2>2. CASE Wizard!SendCheck
    <3> DEFINE ask == [op |-> "check", type |-> ui.type, slug |-> ui.slug]
    <3>1. /\ Wizard!Send(<<ask>>) /\ ui' = [ui EXCEPT !.timer = FALSE] /\ ask.op = "check" /\ ask.slug = ui.slug
          /\ ui.slug \notin {"", "-"}
      BY <2>2 DEF Wizard!SendCheck, Wizard!Ask, WizardFreshInv
    <3> HIDE DEF ask
    <3> QED
      BY <3>1
  <2> QED
    BY <2>1, <2>2
<1>2. PICK ask : /\ Wizard!Send(<<ask>>)
                 /\ \/ ask.op = "create" /\ ui' = [ui EXCEPT !.submitting = TRUE, !.failed = FALSE]
                    \/ /\ ask.op = "check" /\ ask.slug = ui.slug /\ ui.slug \notin {"", "-"}
                       /\ ui' = [ui EXCEPT !.timer = FALSE]
  BY <1>1
<1>3. UNCHANGED <<server, raced>> /\ net' = net \cup {NewRequest(sent, ask)}
  BY <1>2, WizardRaces, WizardAsks1
<1>4. NewRequest(sent, ask).ask = ask /\ NewRequest(sent, ask).got = Waiting /\ Waiting \notin BOOLEAN
  BY NewIsWaiting, RepliesApart
<1>5. /\ ui'.slug = ui.slug /\ ui'.type = ui.type /\ ui'.status = ui.status /\ (ui'.timer => ui.timer)
      /\ ui'.done = ui.done /\ ui'.crossed = ui.crossed
  BY <1>2, WizardPage DEF WizardApp
<1>6. WizardAnswersInv'
  BY <1>2, <1>3, <1>4 DEF WizardFreshInv, WizardAnswersInv
<1>7. WizardMarkInv'
  BY <1>3, <1>5 DEF WizardFreshInv, WizardMarkInv
<1> QED
  BY <1>3, <1>5, <1>6, <1>7 DEF WizardFreshInv

LEMMA WizardAnswerFresh ==
    ASSUME WizardIInv, WizardFreshInv, NEW r \in net, Wizard!Checked(r) \/ Wizard!Created(r)
    PROVE  WizardFreshInv'
<1>1. Wizard!Done(r) /\ r.got # Waiting
  BY DEF Wizard!Checked, Wizard!Created, Wizard!Answer, Wizard!Done, Wizard!Came
<1>2. net' = net \ {r} /\ UNCHANGED server /\ raced' = (raced \/ (r.late /\ r.got # Failed))
  BY <1>1, WizardPage, WizardEnds, WizardRaces
<1>3. WizardAnswersInv'
  BY <1>2 DEF WizardFreshInv, WizardAnswersInv
<1>4. CASE Wizard!Checked(r)
  <2> DEFINE status == IF r.got = Failed \/ r.got THEN "available" ELSE "taken"
             crossed == r.got = Failed \/ <<r.ask.type, r.ask.slug>> # <<ui.type, ui.slug>>
  <2>1. ui' = [ui EXCEPT !.status = status, !.crossed = crossed] /\ r.ask.op = "check"
    BY <1>4 DEF Wizard!Checked, Wizard!Came
  <2>2. /\ ~crossed => r.got # Failed /\ <<r.ask.type, r.ask.slug>> = <<ui.type, ui.slug>> /\ r.ask.slug = ui.slug
        /\ r.got # Failed => r.got \in BOOLEAN /\ (status = IF r.got THEN "available" ELSE "taken")
    BY <1>1, WizardPage DEF WizardSent, WizardGots
  <2> HIDE DEF status, crossed
  <2>3. /\ ui'.status = status /\ ui'.crossed = crossed /\ ui'.slug = ui.slug /\ ui'.type = ui.type /\ ui'.timer = ui.timer
    BY <2>1, WizardPage DEF WizardApp
  <2>4. ASSUME ~crossed
        PROVE  /\ ui.slug \notin {"", "-"}
               /\ status \in {"available", "taken"}
               /\ status = "taken" => <<ui.type, ui.slug>> \in server.hubs
               /\ status = "available" /\ ~raced' /\ server.changes = 0 => <<ui.type, ui.slug>> \notin server.hubs
    BY <1>2, <2>1, <2>2, <2>4 DEF WizardFreshInv, WizardAnswersInv
  <2>5. WizardMarkInv'
    BY <1>2, <2>3, <2>4 DEF WizardMarkInv
  <2> QED
    BY <1>2, <1>3, <2>3, <2>5 DEF WizardFreshInv
<1>5. CASE Wizard!Created(r)
  <2>1. \/ ui' = [ui EXCEPT !.done = TRUE]
        \/ ui' = [ui EXCEPT !.submitting = FALSE, !.failed = TRUE] /\ r.got = Failed
    BY <1>5 DEF Wizard!Created, Wizard!Answer
  <2>2. /\ ui'.slug = ui.slug /\ ui'.type = ui.type /\ ui'.status = ui.status /\ ui'.timer = ui.timer
        /\ ui'.crossed = ui.crossed /\ (ui'.done \/ (ui'.done = ui.done /\ ~Acted(r)))
    BY <2>1, WizardPage DEF WizardApp, Acted
  <2>3. WizardMarkInv'
    BY <1>2, <2>2 DEF WizardFreshInv, WizardMarkInv
  <2> QED
    BY <1>2, <1>3, <2>2, <2>3 DEF WizardFreshInv
<1> QED
  BY <1>4, <1>5

LEMMA WizardServesFresh ==
    ASSUME WizardIInv, WizardFreshInv,
           Wizard!Serve(Wizard!Refused, Wizard!Effect, Wizard!Reply) \/ Wizard!Repeat(Wizard!Refused, Wizard!Effect)
    PROVE  WizardFreshInv'
<1>1. \A r \in net : Wizard!Reply(r) \in WizardGots
  BY DEF Wizard!Reply, WizardGots
<1>2. PICK r \in net : \E new \in [net -> WizardSent] :
              /\ r.got = Waiting /\ Serves(r, new)
              /\ \/ ~Wizard!Refused(r) /\ new[r].got = Wizard!Reply(r) /\ server' = Wizard!Effect(r) /\ raced' = raced
                 \/ new[r].got = Failed /\ server' = server /\ raced' = (raced \/ r.acts # 0)
                 \/ ~Wizard!Refused(r) /\ new[r].got = Failed /\ server' = Wizard!Effect(r) /\ raced' = TRUE
                 \/ /\ ~Wizard!Refused(r) /\ new[r].got = Waiting /\ new[r].acts # 0 /\ server' = Wizard!Effect(r)
                    /\ server' # server /\ raced' = raced
  BY <1>1, WizardPage, WizardServing
<1>3. PICK new \in [net -> WizardSent] :
              /\ Serves(r, new)
              /\ \/ ~Wizard!Refused(r) /\ new[r].got = Wizard!Reply(r) /\ server' = Wizard!Effect(r) /\ raced' = raced
                 \/ new[r].got = Failed /\ server' = server /\ raced' = (raced \/ r.acts # 0)
                 \/ ~Wizard!Refused(r) /\ new[r].got = Failed /\ server' = Wizard!Effect(r) /\ raced' = TRUE
                 \/ /\ ~Wizard!Refused(r) /\ new[r].got = Waiting /\ new[r].acts # 0 /\ server' = Wizard!Effect(r)
                    /\ server' # server /\ raced' = raced
  BY <1>2
<1>4. ui' = ui /\ net' = {new[q] : q \in net}
  BY <1>3 DEF Serves
<1>5. \A q \in net : new[q] \in net' /\ new[q].ask = q.ask /\ (q # r => new[q].got = q.got)
  BY <1>3 DEF Serves
<1> DEFINE mark == <<r.ask.type, r.ask.slug>>
           hubs == server.hubs \cup {mark}
<1>6. /\ r.ask.op = "create" \/ Wizard!Effect(r) = server
      /\ r.ask.op = "create" => Wizard!Effect(r) = [server EXCEPT !.hubs = hubs]
      /\ r.ask.op = "create" /\ ~Wizard!Refused(r) => mark \notin server.hubs
      /\ Wizard!Reply(r) = (mark \notin server.hubs)
      /\ r.ask \in WizardAsks
  BY WizardPage DEF Wizard!Effect, Wizard!Refused, Wizard!Reply, WizardSent
<1>7. mark \in Wizard!Types \X Wizard!Slugs /\ server \in WizardServer
  BY <1>6 DEF WizardAsks, WizardFreshInv
<1>8. hubs \in SUBSET (Wizard!Types \X Wizard!Slugs) /\ server.hubs \subseteq hubs /\ mark \in hubs
  BY <1>7 DEF WizardServer
<1> HIDE DEF mark, hubs
<1>9. server' \in WizardServer /\ server'.changes = server.changes /\ server.hubs \subseteq server'.hubs
  <2>1. CASE server' = server
    BY <1>7, <2>1
  <2>2. CASE server' = [server EXCEPT !.hubs = hubs]
    BY <1>7, <1>8, <2>2 DEF WizardServer
  <2> QED
    BY <1>3, <1>6, <2>1, <2>2
<1>10. Failed \notin BOOLEAN /\ Waiting \notin BOOLEAN
  BY RepliesApart
<1>11. ASSUME NEW p \in net', p.ask.op = "check"
       PROVE  /\ p.ask.slug \notin {"", "-"}
              /\ p.got = FALSE => <<p.ask.type, p.ask.slug>> \in server'.hubs
              /\ ~raced' /\ server'.changes = 0 /\ ~p.late /\ p.got = TRUE => <<p.ask.type, p.ask.slug>> \notin server'.hubs
  <2>1. PICK q \in net : p = new[q]
    BY <1>4
  <2>2. p.ask = q.ask
    BY <1>5, <2>1
  <2>3. p.ask.slug \notin {"", "-"}
    BY <1>11, <2>2 DEF WizardFreshInv, WizardAnswersInv
  <2>4. CASE q = r
    <3>1. server' = server
      BY <1>3, <1>6, <1>11, <2>2, <2>4
    <3>2. p.got \in {Waiting, Failed} \/ p.got = (mark \notin server.hubs)
      BY <1>3, <1>6, <2>1, <2>4
    <3> QED
      BY <1>10, <2>2, <2>3, <2>4, <3>1, <3>2 DEF mark
  <2>5. CASE q # r
    <3>1. p.got = q.got
      BY <1>5, <2>1, <2>5
    <3>2. p.got = FALSE => <<p.ask.type, p.ask.slug>> \in server'.hubs
      BY <1>9, <1>11, <2>2, <3>1 DEF WizardFreshInv, WizardAnswersInv
    <3>3. ASSUME ~raced', server'.changes = 0, ~p.late, p.got = TRUE
          PROVE  <<p.ask.type, p.ask.slug>> \notin server'.hubs
      <4>1. OnTime(p)
        BY <1>10, <3>3 DEF OnTime, Served
      <4>2. OnTime(q) /\ server' = server
        BY <1>3, <2>1, <2>5, <4>1, OnTimeAfter
      <4>3. ~raced
        BY <1>3, <3>3
      <4> QED
        BY <1>11, <2>2, <3>1, <3>3, <4>2, <4>3 DEF WizardFreshInv, WizardAnswersInv, OnTime
    <3> QED
      BY <2>3, <3>2, <3>3
  <2> QED
    BY <2>4, <2>5
<1>12. WizardAnswersInv'
  BY <1>11 DEF WizardAnswersInv
<1>13. ASSUME ~raced', server' # server
       PROVE  \E p \in net' : p.ask.op = "create" /\ Acted(p)
  <2>1. r.ask.op = "create" /\ (new[r].got = TRUE \/ (new[r].got = Waiting /\ new[r].acts # 0))
    BY <1>3, <1>6, <1>13
  <2> QED
    BY <1>5, <1>10, <2>1, RepliesApart DEF Acted
<1>14. ASSUME NEW q \in net, q.ask.op = "create", Acted(q), ~raced'
       PROVE  \E p \in net' : p.ask.op = "create" /\ Acted(p)
  <2>1. CASE q # r
    <3>1. new[q].got = q.got /\ new[q].acts = q.acts
      BY <1>3, <2>1 DEF Serves
    <3> QED
      BY <1>5, <1>14, <3>1 DEF Acted
  <2>2. CASE q = r
    <3>1. r.acts # 0
      BY <1>2, <1>14, <2>2 DEF Acted
    <3>2. new[r].got \in BOOLEAN \/ (new[r].got = Waiting /\ new[r].acts # 0)
      BY <1>3, <1>6, <1>14, <3>1
    <3>3. Acted(new[r])
      BY <1>10, <3>2, RepliesApart DEF Acted
    <3> QED
      BY <1>5, <1>14, <2>2, <3>3
  <2> QED
    BY <2>1, <2>2
<1>15. ~raced' => ~raced
  BY <1>3
<1>16. WizardMarkInv'
  <2> SUFFICES ASSUME ~ui.crossed
               PROVE  /\ ui.status = "idle" <=> ui.slug = ""
                      /\ ui.status = "invalid" <=> ui.slug = "-"
                      /\ ui.status = "taken" => <<ui.type, ui.slug>> \in server'.hubs
                      /\ ui.status = "available" /\ ~raced' /\ server'.changes = 0 /\ ~ui.done =>
                            <<ui.type, ui.slug>> \notin server'.hubs \/ \E p \in net' : p.ask.op = "create" /\ Acted(p)
    BY <1>4 DEF WizardMarkInv
  <2>1. /\ ui.status = "idle" <=> ui.slug = ""
        /\ ui.status = "invalid" <=> ui.slug = "-"
        /\ ui.status = "taken" => <<ui.type, ui.slug>> \in server'.hubs
    BY <1>9 DEF WizardFreshInv, WizardMarkInv
  <2>2. ASSUME ui.status = "available", ~raced', server'.changes = 0, ~ui.done
        PROVE  <<ui.type, ui.slug>> \notin server'.hubs \/ \E p \in net' : p.ask.op = "create" /\ Acted(p)
    <3>1. <<ui.type, ui.slug>> \notin server.hubs \/ \E q \in net : q.ask.op = "create" /\ Acted(q)
      BY <1>9, <1>15, <2>2 DEF WizardFreshInv, WizardMarkInv
    <3> QED
      BY <1>13, <1>14, <2>2, <3>1
  <2> QED
    BY <2>1, <2>2
<1> QED
  BY <1>4, <1>9, <1>12, <1>16 DEF WizardFreshInv

LEMMA WizardOthersFresh == ASSUME WizardIInv, WizardFreshInv, Wizard!OtherCreates PROVE WizardFreshInv'
<1> DEFINE hubs == server.hubs \cup {<<"agent", "y">>}
<1>1. /\ server' = [hubs |-> hubs, changes |-> 1] /\ net' = {[r EXCEPT !.late = TRUE] : r \in net}
      /\ UNCHANGED <<ui, raced>>
  BY DEF Wizard!OtherCreates
<1>2. hubs \in SUBSET (Wizard!Types \X Wizard!Slugs) /\ server.hubs \subseteq hubs
  <2>1. <<"agent", "y">> \in Wizard!Types \X Wizard!Slugs
    BY DEF Wizard!Types, Wizard!Slugs
  <2> QED
    BY <2>1 DEF WizardFreshInv, WizardServer
<1> HIDE DEF hubs
<1>3. server' \in WizardServer /\ server.hubs \subseteq server'.hubs /\ server'.changes # 0
  BY <1>1, <1>2 DEF WizardServer
<1>4. \A q \in net : [q EXCEPT !.late = TRUE].ask = q.ask /\ [q EXCEPT !.late = TRUE].got = q.got
  BY WizardPage DEF WizardSent
<1>5. WizardAnswersInv'
  <2> SUFFICES ASSUME NEW p \in net', p.ask.op = "check"
               PROVE  /\ p.ask.slug \notin {"", "-"}
                      /\ p.got = FALSE => <<p.ask.type, p.ask.slug>> \in server'.hubs
    BY <1>3 DEF WizardAnswersInv
  <2>1. PICK q \in net : p.ask = q.ask /\ p.got = q.got
    BY <1>1, <1>4
  <2> QED
    BY <1>3, <2>1 DEF WizardFreshInv, WizardAnswersInv
<1>6. WizardMarkInv'
  BY <1>1, <1>3 DEF WizardFreshInv, WizardMarkInv
<1> QED
  BY <1>1, <1>3, <1>5, <1>6 DEF WizardFreshInv

LEMMA WizardNextFresh == WizardIInv /\ WizardFreshInv /\ [Wizard!Next]_(Wizard!vars) => WizardFreshInv'
<1> SUFFICES ASSUME WizardIInv, WizardFreshInv, [Wizard!Next]_(Wizard!vars) PROVE WizardFreshInv'
  OBVIOUS
<1>1. CASE UNCHANGED Wizard!vars
  BY <1>1 DEF Wizard!vars, WizardFreshInv, WizardAnswersInv, WizardMarkInv
<1> QED
  BY <1>1, WizardFormFresh, WizardAskFresh, WizardAnswerFresh, WizardServesFresh, WizardOthersFresh DEF Wizard!Next

LEMMA WizardShowFresh == WizardFreshInv => Wizard!Fresh
BY DEF WizardFreshInv, WizardMarkInv, Wizard!Fresh, Wizard!Quiet
-----------------------------------------------------------------------------
(* The members and the links of a hub. *)

PanelsUsers == {"me", "u"}
PanelsRoles == {"maintainer", "contributor", "viewer", "owner"}
PanelsHubs == {"h1", "h2"}
PanelsIncoming == {"h1", "h2", "h3"}
PanelsLevels == {"use", "read"}
PanelsMembers == Maps(PanelsUsers, PanelsRoles)
PanelsLinks == Maps(PanelsHubs, PanelsLevels)
PanelsApp ==
    [panel : {"members", "links"}, list : PanelsMembers \cup PanelsLinks, incoming : SUBSET PanelsIncoming, loading : BOOLEAN,
     error : BOOLEAN, open : BOOLEAN, submitting : BOOLEAN, refused : BOOLEAN]
PanelsServer == [members : PanelsMembers, links : PanelsLinks, incoming : SUBSET PanelsIncoming, archived : BOOLEAN,
                 changes : Int]
PanelsAsks ==
    [op : {"members", "links", "invite"}] \cup [op : {"role"}, user : PanelsUsers, role : PanelsRoles]
    \cup [op : {"remove"}, user : PanelsUsers] \cup [op : {"link"}, hub : PanelsHubs, level : PanelsLevels]
    \cup [op : {"revoke"}, hub : PanelsHubs]
PanelsBoth == [out : PanelsLinks, in : SUBSET PanelsIncoming]
PanelsGots == {Waiting, Failed} \cup Int \cup PanelsMembers \cup PanelsBoth
PanelsSent == [id : Int, ask : PanelsAsks, got : PanelsGots, late : BOOLEAN, acts : Nat]

PanelsTypeInv == ui \in PanelsApp /\ server \in PanelsServer /\ net \subseteq PanelsSent /\ sent \in Nat

\* A panel fetches its own list, and shows one of its kind.
PanelsListOps == {"members", "links"}
PanelsListInv ==
    /\ ui.list \in IF ui.panel = "members" THEN PanelsMembers ELSE PanelsLinks
    /\ \A r \in net : r.ask.op \in PanelsListOps =>
            /\ r.ask.op = ui.panel
            /\ r.got \notin {Waiting, Failed} => r.got \in IF ui.panel = "members" THEN PanelsMembers ELSE PanelsBoth

PanelsIInv == PanelsTypeInv /\ PanelsListInv /\ Panels!BusyHasCause

LEMMA PanelsAsks1 ==
    ASSUME NEW ask
    PROVE  /\ Panels!Send(<<ask>>) => net' = net \cup {NewRequest(sent, ask)} /\ sent' = sent + 1 /\ UNCHANGED server
           /\ \A r : Panels!Go(r, <<ask>>) =>
                net' = (net \ {r}) \cup {NewRequest(sent, ask)} /\ sent' = sent + 1 /\ UNCHANGED server
<1>1. Panels!Requests(<<ask>>) = {NewRequest(sent, ask)} /\ Len(<<ask>>) = 1
  BY OneAsked DEF Panels!Requests, Panels!Request
<1> QED
  BY <1>1 DEF Panels!Send, Panels!Go

LEMMA PanelsEnds ==
    ASSUME NEW r, sent \in Nat, Panels!Done(r)
    PROVE  net' = net \ {r} /\ UNCHANGED <<sent, server>>
<1>1. Panels!Requests(<<>>) = {} /\ Len(<<>>) = 0
  BY NoneAsked DEF Panels!Requests, Panels!Request
<1> QED
  BY <1>1 DEF Panels!Done, Panels!Go

\* r is answered, or the gateway acts on it and it is sent again.
PanelsMoved(r, got, held) ==
    \/ Panels!Settle(r, got, held)
    \/ got = Waiting /\ \E acts \in Nat : Panels!SentAgain(r, acts, r.ask, held)

LEMMA PanelsMoves ==
    ASSUME NEW r \in net, NEW got, got \in PanelsGots, NEW held, net \subseteq PanelsSent, sent \in Nat, PanelsMoved(r, got, held)
    PROVE  /\ sent' \in {sent, sent + 1}
           /\ \E to \in PanelsSent : Panels!Moves(r, to, held) /\ to.id \in {r.id, sent'} /\ to.ask = r.ask /\ to.got = got
                             /\ (got # Waiting => to.id = r.id)
<1>1. r \in PanelsSent
  OBVIOUS
<1>2. CASE Panels!Settle(r, got, held)
  <2> DEFINE to == [r EXCEPT !.got = got]
  <2>1. to \in PanelsSent /\ to.id = r.id /\ to.ask = r.ask /\ to.got = got
    BY <1>1 DEF PanelsSent
  <2>2. Panels!Moves(r, to, held) /\ sent' = sent
    BY <1>2 DEF Panels!Settle
  <2> QED
    BY <2>1, <2>2
<1>3. CASE got = Waiting /\ \E acts \in Nat : Panels!SentAgain(r, acts, r.ask, held)
  <2>1. PICK acts \in Nat : Panels!SentAgain(r, acts, r.ask, held)
    BY <1>3
  <2> DEFINE req == Panels!Request(sent + 1, r.ask)
             to == [req EXCEPT !.acts = acts]
  <2>2. req \in PanelsSent /\ req.id = sent + 1 /\ req.ask = r.ask /\ req.got = Waiting
    BY <1>1, <1>3 DEF PanelsSent, Panels!Request
  <2> HIDE DEF req
  <2>3. to \in PanelsSent /\ to.id = sent + 1 /\ to.ask = r.ask /\ to.got = got
    BY <1>3, <2>2 DEF PanelsSent
  <2>4. Panels!Moves(r, to, held) /\ sent' = sent + 1
    BY <2>1 DEF Panels!SentAgain, req
  <2> QED
    BY <1>3, <2>3, <2>4
<1> QED
  BY <1>2, <1>3 DEF PanelsMoved

LEMMA PanelsSettled ==
    ASSUME NEW r \in net, NEW got, got \in PanelsGots, NEW held, net \subseteq PanelsSent, sent \in Nat, PanelsMoved(r, got, held)
    PROVE  /\ server' = held /\ UNCHANGED ui /\ sent' \in {sent, sent + 1}
           /\ \E new \in [net -> PanelsSent] :
              /\ net' = {new[q] : q \in net}
              /\ \A q \in net : /\ new[q].ask = q.ask /\ new[q].got = IF q = r THEN got ELSE q.got
                                /\ new[q].id = q.id \/ (q = r /\ new[q].id = sent')
                                /\ got # Waiting => new[q].id = q.id
<1>1. PICK to \in PanelsSent : Panels!Moves(r, to, held) /\ to.id \in {r.id, sent'} /\ to.ask = r.ask /\ to.got = got
                             /\ (got # Waiting => to.id = r.id)
  BY PanelsMoves
<1>2. net' = {IF q = r THEN to ELSE [q EXCEPT !.late = q.got # Waiting /\ (@ \/ held # server)] : q \in net}
  BY <1>1 DEF Panels!Moves
<1> DEFINE Late(q) == q.got # Waiting /\ (q.late \/ held # server)
           New(q) == IF q = r THEN to ELSE [q EXCEPT !.late = Late(q)]
<1>3. ASSUME NEW q \in net
      PROVE  /\ New(q) \in PanelsSent /\ New(q).ask = q.ask /\ New(q).got = IF q = r THEN got ELSE q.got
             /\ New(q).id = q.id \/ (q = r /\ New(q).id = sent')
             /\ got # Waiting => New(q).id = q.id
  <2>1. q \in PanelsSent /\ Late(q) \in BOOLEAN
    OBVIOUS
  <2> HIDE DEF Late
  <2> QED
    BY <1>1, <2>1 DEF PanelsSent
<1>4. net' = {New(q) : q \in net}
  BY <1>2
<1> HIDE DEF New
<1> DEFINE new == [q \in net |-> New(q)]
<1>5. new \in [net -> PanelsSent] /\ \A q \in net : new[q] = New(q)
  BY <1>3
<1>6. net' = {new[q] : q \in net}
  BY <1>4, <1>5
<1> HIDE DEF new
<1>7. server' = held /\ UNCHANGED ui /\ sent' \in {sent, sent + 1}
  BY <1>1, PanelsMoves DEF Panels!Moves
<1> QED
  BY <1>3, <1>5, <1>6, <1>7

LEMMA PanelsSettles ==
    ASSUME NEW r \in net, NEW got, got \in PanelsGots, NEW held, net \subseteq PanelsSent, sent \in Nat, PanelsMoved(r, got, held)
    PROVE  /\ net' \subseteq PanelsSent /\ server' = held /\ UNCHANGED ui /\ sent' \in Nat
           /\ \A p \in net' : \E q \in net : p.ask = q.ask /\ p.got = IF q = r THEN got ELSE q.got
           /\ \A q \in net : \E p \in net' : p.ask = q.ask /\ p.got = IF q = r THEN got ELSE q.got
<1>1. /\ server' = held /\ UNCHANGED ui /\ sent' \in {sent, sent + 1}
      /\ \E new \in [net -> PanelsSent] :
            /\ net' = {new[q] : q \in net}
            /\ \A q \in net : /\ new[q].ask = q.ask /\ new[q].got = IF q = r THEN got ELSE q.got
                              /\ new[q].id = q.id \/ (q = r /\ new[q].id = sent')
  BY PanelsSettled
<1>2. PICK new \in [net -> PanelsSent] :
            /\ net' = {new[q] : q \in net}
            /\ \A q \in net : new[q].ask = q.ask /\ new[q].got = IF q = r THEN got ELSE q.got
  BY <1>1
<1>3. sent' \in Nat
  BY <1>1
<1> QED
  BY ONLY <1>1, <1>2, <1>3

LEMMA PanelsActs ==
    ASSUME net \subseteq PanelsSent,
           Panels!Serve(Panels!Refused, Panels!Effect, Panels!Reply) \/ Panels!Repeat(Panels!Refused, Panels!Effect)
    PROVE  \E r \in net :
              \/ PanelsMoved(r, Failed, server)
              \/ ~Panels!Refused(r) /\ \E got \in {Waiting, Failed, Panels!Reply(r)} : PanelsMoved(r, got, Panels!Effect(r))
<1>1. CASE Panels!Serve(Panels!Refused, Panels!Effect, Panels!Reply)
  BY <1>1 DEF Panels!Serve, Panels!ServeOne, PanelsMoved
<1>2. CASE Panels!Repeat(Panels!Refused, Panels!Effect)
  <2>1. PICK r \in net : ~Panels!Refused(r) /\ Panels!SentAgain(r, r.acts + 1, r.ask, Panels!Effect(r))
    BY <1>2 DEF Panels!Repeat, Panels!RepeatOne, Panels!Same
  <2>2. r.acts + 1 \in Nat
    BY DEF PanelsSent
  <2> QED
    BY <2>1, <2>2 DEF PanelsMoved
<1> QED
  BY <1>1, <1>2

LEMMA PanelsInitIInv == Panels!Init => PanelsIInv
<1> SUFFICES ASSUME Panels!Init PROVE PanelsIInv
  OBVIOUS
<1> DEFINE list == Panels!Empty
           none == {}
           Members(role) == [m \in {"me", "u"} |-> IF m = "me" THEN "owner" ELSE role]
<1>1. PICK panel \in {"members", "links"}, role \in {"owner", "contributor"} :
        /\ ui = [panel |-> panel, list |-> list, incoming |-> none, loading |-> TRUE, error |-> FALSE,
                 open |-> FALSE, submitting |-> FALSE, refused |-> FALSE]
        /\ server = [members |-> Members(role), links |-> list, incoming |-> {"h3"}, archived |-> FALSE, changes |-> 0]
        /\ net = {Panels!Request(i, <<[op |-> panel]>>[i]) : i \in DOMAIN <<[op |-> panel]>>} /\ sent = Len(<<[op |-> panel]>>)
  BY DEF Panels!Init, Panels!Started, Panels!ListOp
<1> DEFINE ask == [op |-> panel]
           members == Members(role)
<1>2. net = {FirstRequest(1, ask)} /\ sent = 1
  BY <1>1, StartedWithOne DEF Panels!Request
<1>3. ask \in PanelsAsks /\ ask.op = panel
  BY DEF PanelsAsks
<1>4. list \in PanelsMembers /\ list \in PanelsLinks
  <2>1. list \in [{} -> PanelsRoles] /\ list \in [{} -> PanelsLevels]
    BY DEF Panels!Empty
  <2> QED
    BY <2>1, MapIs DEF PanelsMembers, PanelsLinks
<1>5. members \in PanelsMembers
  <2>1. members \in [PanelsUsers -> PanelsRoles]
    BY DEF PanelsUsers, PanelsRoles
  <2> QED
    BY <2>1, MapIs DEF PanelsMembers
<1>6. none \in SUBSET PanelsIncoming /\ {"h3"} \in SUBSET PanelsIncoming
  BY DEF PanelsIncoming
<1> HIDE DEF list, none, Members, ask
<1>7. ui \in PanelsApp /\ ui.panel = panel /\ ui.list = list /\ ui.submitting = FALSE
  BY <1>1, <1>4, <1>6 DEF PanelsApp
<1>8. server \in PanelsServer
  BY <1>1, <1>4, <1>5, <1>6 DEF PanelsServer, members
<1>9. FirstRequest(1, ask) \in PanelsSent /\ FirstRequest(1, ask).ask = ask /\ FirstRequest(1, ask).got = Waiting
  BY <1>3 DEF FirstRequest, PanelsSent, PanelsGots
<1>10. PanelsTypeInv
  BY <1>2, <1>7, <1>8, <1>9 DEF PanelsTypeInv
<1>11. PanelsListInv
  BY <1>2, <1>3, <1>4, <1>7, <1>9 DEF PanelsListInv
<1>12. Panels!BusyHasCause
  BY <1>2, <1>3, <1>7, <1>9 DEF Panels!BusyHasCause, Panels!Out
<1> QED
  BY <1>10, <1>11, <1>12 DEF PanelsIInv
-----------------------------------------------------------------------------
LEMMA PanelsPage ==
    ASSUME PanelsIInv
    PROVE  /\ ui \in PanelsApp /\ server \in PanelsServer /\ net \subseteq PanelsSent /\ sent \in Nat
           /\ server.members \in PanelsMembers /\ server.links \in PanelsLinks
BY DEF PanelsIInv, PanelsTypeInv, PanelsServer

\* A list is asked for only for the panel that is open.
LEMMA PanelsNetStep ==
    ASSUME PanelsIInv, UNCHANGED server, ui' \in PanelsApp, ui'.panel = ui.panel,
           ui'.list \in IF ui.panel = "members" THEN PanelsMembers ELSE PanelsLinks,
           \/ sent' = sent /\ net' \subseteq net
           \/ sent' = sent + 1 /\ \E ask \in PanelsAsks : /\ ask.op \in PanelsListOps => ask.op = ui.panel
                                                          /\ net' \subseteq net \cup {NewRequest(sent, ask)}
    PROVE  PanelsTypeInv' /\ PanelsListInv'
<1>1. \A ask \in PanelsAsks : /\ NewRequest(sent, ask) \in PanelsSent /\ NewRequest(sent, ask).got = Waiting
                              /\ NewRequest(sent, ask).ask = ask
  BY PanelsPage DEF NewRequest, PanelsSent, PanelsGots
<1>2. PanelsTypeInv'
  BY <1>1, PanelsPage DEF PanelsTypeInv
<1>3. PanelsListInv'
  BY <1>1 DEF PanelsIInv, PanelsListInv
<1> QED
  BY <1>2, <1>3

\* A form is opened or closed.
LEMMA PanelsOpenStep ==
    ASSUME PanelsIInv, NEW panel, Panels!OpenForm(panel) \/ Panels!CloseForm(panel)
    PROVE  PanelsIInv'
<1>1. PICK open \in BOOLEAN : ui' = [ui EXCEPT !.open = open] /\ UNCHANGED <<net, server, sent>>
  BY DEF Panels!OpenForm, Panels!CloseForm, Panels!Set, Panels!Local
<1>2. /\ ui' \in PanelsApp /\ ui'.panel = ui.panel /\ ui'.list = ui.list /\ ui'.loading = ui.loading
      /\ ui'.submitting = ui.submitting
  BY <1>1, PanelsPage DEF PanelsApp
<1>3. PanelsTypeInv' /\ PanelsListInv'
  BY <1>1, <1>2, PanelsNetStep DEF PanelsIInv, PanelsListInv
<1>4. Panels!BusyHasCause'
  BY <1>1, <1>2 DEF PanelsIInv, Panels!BusyHasCause, Panels!Out
<1> QED
  BY <1>3, <1>4 DEF PanelsIInv

\* What the panel asks the gateway to change.
LEMMA PanelsAskStep ==
    ASSUME PanelsIInv, NEW ask, ask \in PanelsAsks, ask.op \notin PanelsListOps, Panels!Send(<<ask>>),
           ui' = ui \/ (ui' = Panels!Submit(ui) /\ ask.op \in {"invite", "link"})
    PROVE  PanelsIInv'
<1>1. net' = net \cup {NewRequest(sent, ask)} /\ sent' = sent + 1 /\ UNCHANGED server
  BY PanelsAsks1
<1>2. NewRequest(sent, ask).ask = ask
  BY DEF NewRequest
<1>3. /\ ui' \in PanelsApp /\ ui'.panel = ui.panel /\ ui'.list = ui.list /\ ui'.loading = ui.loading
      /\ ui'.submitting => ui.submitting \/ ask.op \in {"invite", "link"}
  BY PanelsPage DEF PanelsApp, Panels!Submit
<1>4. PanelsTypeInv' /\ PanelsListInv'
  BY <1>1, <1>3, PanelsNetStep DEF PanelsIInv, PanelsListInv
<1>5. Panels!BusyHasCause'
  BY <1>1, <1>2, <1>3 DEF PanelsIInv, Panels!BusyHasCause, Panels!Out
<1> QED
  BY <1>4, <1>5 DEF PanelsIInv

LEMMA PanelsWriteStep ==
    ASSUME PanelsIInv,
           \/ Panels!InviteMember
           \/ \E m \in {"me", "u"} : Panels!RemoveMember(m) \/ (\E role \in Panels!Grantable : Panels!ChangeRole(m, role))
           \/ \E h \in Panels!Hubs : Panels!RevokeLink(h) \/ (\E level \in {"use", "read"} : Panels!CreateLink(h, level))
    PROVE  PanelsIInv'
<1>1. CASE Panels!InviteMember
  <2> DEFINE ask == [op |-> "invite"]
  <2>1. ui' = Panels!Submit(ui) /\ Panels!Send(<<ask>>)
    BY <1>1 DEF Panels!InviteMember, Panels!Ask
  <2>2. ask \in PanelsAsks /\ ask.op = "invite" /\ ask.op \notin PanelsListOps
    BY DEF PanelsAsks, PanelsListOps
  <2> HIDE DEF ask
  <2> QED
    BY <2>1, <2>2, PanelsAskStep
<1>2. ASSUME NEW m \in {"me", "u"}, Panels!RemoveMember(m)
      PROVE  PanelsIInv'
  <2> DEFINE ask == [op |-> "remove", user |-> m]
  <2>1. ui' = ui /\ Panels!Send(<<ask>>)
    BY <1>2 DEF Panels!RemoveMember, Panels!Ask
  <2>2. ask \in PanelsAsks /\ ask.op \notin PanelsListOps
    BY DEF PanelsAsks, PanelsListOps, PanelsUsers
  <2> HIDE DEF ask
  <2> QED
    BY <2>1, <2>2, PanelsAskStep
<1>3. ASSUME NEW m \in {"me", "u"}, NEW role \in Panels!Grantable, Panels!ChangeRole(m, role)
      PROVE  PanelsIInv'
  <2> DEFINE ask == [op |-> "role", user |-> m, role |-> role]
  <2>1. ui' = ui /\ Panels!Send(<<ask>>)
    BY <1>3 DEF Panels!ChangeRole, Panels!Ask
  <2>2. ask \in PanelsAsks /\ ask.op \notin PanelsListOps
    BY DEF PanelsAsks, PanelsListOps, PanelsUsers, PanelsRoles, Panels!Grantable
  <2> HIDE DEF ask
  <2> QED
    BY <2>1, <2>2, PanelsAskStep
<1>4. ASSUME NEW h \in Panels!Hubs, Panels!RevokeLink(h)
      PROVE  PanelsIInv'
  <2> DEFINE ask == [op |-> "revoke", hub |-> h]
  <2>1. ui' = ui /\ Panels!Send(<<ask>>)
    BY <1>4 DEF Panels!RevokeLink, Panels!Ask
  <2>2. ask \in PanelsAsks /\ ask.op \notin PanelsListOps
    BY DEF PanelsAsks, PanelsListOps, PanelsHubs, Panels!Hubs
  <2> HIDE DEF ask
  <2> QED
    BY <2>1, <2>2, PanelsAskStep
<1>5. ASSUME NEW h \in Panels!Hubs, NEW level \in {"use", "read"}, Panels!CreateLink(h, level)
      PROVE  PanelsIInv'
  <2> DEFINE ask == [op |-> "link", hub |-> h, level |-> level]
  <2>1. ui' = Panels!Submit(ui) /\ Panels!Send(<<ask>>)
    BY <1>5 DEF Panels!CreateLink, Panels!Ask
  <2>2. ask \in PanelsAsks /\ ask.op = "link" /\ ask.op \notin PanelsListOps
    BY DEF PanelsAsks, PanelsListOps, PanelsHubs, PanelsLevels, Panels!Hubs
  <2> HIDE DEF ask
  <2> QED
    BY <2>1, <2>2, PanelsAskStep
<1> QED
  BY <1>1, <1>2, <1>3, <1>4, <1>5
-----------------------------------------------------------------------------
\* A list comes, or fails to.
LEMMA PanelsFetchedStep ==
    ASSUME PanelsIInv, NEW r \in net, Panels!MembersFetched(r) \/ Panels!LinksFetched(r)
    PROVE  PanelsIInv'
<1>1. /\ r.ask.op \in PanelsListOps /\ Panels!Done(r)
      /\ \/ ui' = [ui EXCEPT !.loading = FALSE, !.error = TRUE]
         \/ /\ r.ask.op = "members" /\ r.got \notin {Waiting, Failed}
            /\ ui' = [ui EXCEPT !.list = r.got, !.loading = FALSE]
         \/ /\ r.ask.op = "links" /\ r.got \notin {Waiting, Failed}
            /\ ui' = [ui EXCEPT !.list = r.got.out, !.incoming = r.got.in, !.loading = FALSE]
  BY DEF Panels!MembersFetched, Panels!LinksFetched, Panels!Answer, Panels!Came, Panels!Done, PanelsListOps
<1>2. net' = net \ {r} /\ UNCHANGED <<sent, server>>
  BY <1>1, PanelsPage, PanelsEnds
<1>3. ui.panel = r.ask.op
  BY <1>1 DEF PanelsIInv, PanelsListInv
<1>4. /\ ui' \in PanelsApp /\ ui'.panel = ui.panel /\ ui'.loading = FALSE /\ ui'.submitting = ui.submitting
      /\ ui'.list \in IF ui.panel = "members" THEN PanelsMembers ELSE PanelsLinks
  <2>1. CASE ui' = [ui EXCEPT !.loading = FALSE, !.error = TRUE]
    <3>1. /\ ui' \in PanelsApp /\ ui'.panel = ui.panel /\ ui'.loading = FALSE /\ ui'.submitting = ui.submitting
          /\ ui'.list = ui.list
      BY <2>1, PanelsPage DEF PanelsApp
    <3> QED
      BY <3>1 DEF PanelsIInv, PanelsListInv
  <2>2. CASE /\ r.ask.op = "members" /\ r.got \notin {Waiting, Failed}
             /\ ui' = [ui EXCEPT !.list = r.got, !.loading = FALSE]
    <3>1. r.got \in PanelsMembers
      BY <1>1, <1>3, <2>2 DEF PanelsIInv, PanelsListInv
    <3> QED
      BY <1>3, <2>2, <3>1, PanelsPage DEF PanelsApp
  <2>3. CASE /\ r.ask.op = "links" /\ r.got \notin {Waiting, Failed}
             /\ ui' = [ui EXCEPT !.list = r.got.out, !.incoming = r.got.in, !.loading = FALSE]
    <3>1. r.got.out \in PanelsLinks /\ r.got.in \in SUBSET PanelsIncoming
      BY <1>1, <1>3, <2>3 DEF PanelsIInv, PanelsListInv, PanelsBoth
    <3> QED
      BY <1>3, <2>3, <3>1, PanelsPage DEF PanelsApp
  <2> QED
    BY <1>1, <2>1, <2>2, <2>3
<1>5. PanelsTypeInv' /\ PanelsListInv'
  BY <1>2, <1>4, PanelsNetStep
<1>6. Panels!BusyHasCause'
  BY <1>1, <1>2, <1>4 DEF PanelsIInv, Panels!BusyHasCause, Panels!Out, PanelsListOps
<1> QED
  BY <1>5, <1>6 DEF PanelsIInv

\* A write has gone through, and the list is fetched again; or it has failed.
LEMMA PanelsWroteStep ==
    ASSUME PanelsIInv, NEW r \in net,
           Panels!Wrote(r, {"role", "remove", "revoke"}) \/ Panels!Invited(r) \/ Panels!LinkCreated(r)
    PROVE  PanelsIInv'
<1> DEFINE ask == [op |-> ui.panel]
           idle == [ui EXCEPT !.submitting = FALSE, !.open = FALSE]
<1>1. \/ ui' = Panels!Loading(ui) /\ Panels!Go(r, <<ask>>) /\ r.ask.op \in {"role", "remove", "revoke"}
      \/ ui' = ui /\ Panels!Done(r) /\ r.ask.op \in {"role", "remove", "revoke"}
      \/ ui' = Panels!Loading(idle) /\ Panels!Go(r, <<ask>>) /\ r.ask.op \in {"invite", "link"}
      \/ ui' = [ui EXCEPT !.submitting = FALSE, !.refused = TRUE] /\ Panels!Done(r) /\ r.ask.op \in {"invite", "link"}
  BY DEF Panels!Wrote, Panels!Invited, Panels!LinkCreated, Panels!Answer, Panels!Came, Panels!Refetch, Panels!ListOp
<1>2. ask \in PanelsAsks /\ ask.op = ui.panel /\ ask.op \in PanelsListOps
  BY PanelsPage DEF PanelsAsks, PanelsApp, PanelsListOps
<1>3. /\ idle \in PanelsApp /\ idle.panel = ui.panel /\ idle.loading = ui.loading /\ idle.submitting = FALSE /\ idle.list = ui.list
  BY PanelsPage DEF PanelsApp
<1> HIDE DEF ask, idle
<1>4. \A s \in {ui, idle} :
        LET l == Panels!Loading(s)
        IN  l \in PanelsApp /\ l.panel = ui.panel /\ l.loading = TRUE /\ l.submitting = s.submitting /\ l.list = ui.list
  BY <1>3, PanelsPage DEF PanelsApp, Panels!Loading
<1>5. Panels!Go(r, <<ask>>) => net' = (net \ {r}) \cup {NewRequest(sent, ask)} /\ sent' = sent + 1 /\ UNCHANGED server
  BY PanelsAsks1
<1>6. Panels!Done(r) => net' = net \ {r} /\ UNCHANGED <<sent, server>>
  BY PanelsPage, PanelsEnds
<1>7. NewRequest(sent, ask).ask = ask
  BY DEF NewRequest
<1>8. CASE ui' = Panels!Loading(ui) /\ Panels!Go(r, <<ask>>) /\ r.ask.op \in {"role", "remove", "revoke"}
  <2>1. PanelsTypeInv' /\ PanelsListInv'
    BY <1>2, <1>4, <1>5, <1>8, PanelsNetStep DEF PanelsIInv, PanelsListInv
  <2>2. Panels!BusyHasCause'
    BY <1>2, <1>4, <1>5, <1>7, <1>8 DEF PanelsIInv, Panels!BusyHasCause, Panels!Out, PanelsListOps
  <2> QED
    BY <2>1, <2>2 DEF PanelsIInv
<1>9. CASE ui' = ui /\ Panels!Done(r) /\ r.ask.op \in {"role", "remove", "revoke"}
  <2>1. PanelsTypeInv' /\ PanelsListInv'
    BY <1>6, <1>9, PanelsPage, PanelsNetStep DEF PanelsIInv, PanelsListInv
  <2>2. Panels!BusyHasCause'
    BY <1>6, <1>9 DEF PanelsIInv, Panels!BusyHasCause, Panels!Out
  <2> QED
    BY <2>1, <2>2 DEF PanelsIInv
<1>10. CASE ui' = Panels!Loading(idle) /\ Panels!Go(r, <<ask>>) /\ r.ask.op \in {"invite", "link"}
  <2>1. PanelsTypeInv' /\ PanelsListInv'
    BY <1>2, <1>4, <1>5, <1>10, PanelsNetStep DEF PanelsIInv, PanelsListInv
  <2>2. Panels!BusyHasCause'
    BY <1>2, <1>3, <1>4, <1>5, <1>7, <1>10 DEF PanelsIInv, Panels!BusyHasCause, Panels!Out, PanelsListOps
  <2> QED
    BY <2>1, <2>2 DEF PanelsIInv
<1>11. CASE ui' = [ui EXCEPT !.submitting = FALSE, !.refused = TRUE] /\ Panels!Done(r) /\ r.ask.op \in {"invite", "link"}
  <2>1. ui' \in PanelsApp /\ ui'.panel = ui.panel /\ ui'.loading = ui.loading /\ ui'.submitting = FALSE /\ ui'.list = ui.list
    BY <1>11, PanelsPage DEF PanelsApp
  <2>2. PanelsTypeInv' /\ PanelsListInv'
    BY <1>6, <1>11, <2>1, PanelsNetStep DEF PanelsIInv, PanelsListInv
  <2>3. Panels!BusyHasCause'
    BY <1>6, <1>11, <2>1 DEF PanelsIInv, Panels!BusyHasCause, Panels!Out
  <2> QED
    BY <2>2, <2>3 DEF PanelsIInv
<1> QED
  BY <1>1, <1>8, <1>9, <1>10, <1>11
-----------------------------------------------------------------------------
\* The gateway.
LEMMA PanelsServeStep ==
    ASSUME PanelsIInv, NEW r \in net, NEW got, got \in PanelsGots, NEW held, PanelsMoved(r, got, held), held \in PanelsServer,
           got \notin {Waiting, Failed} => /\ r.ask.op = "members" => got \in PanelsMembers
                                           /\ r.ask.op = "links" => got \in PanelsBoth
                    PROVE  PanelsIInv'
<1>1. /\ net' \subseteq PanelsSent /\ server' = held /\ UNCHANGED ui /\ sent' \in Nat
      /\ \A p \in net' : \E q \in net : p.ask = q.ask /\ p.got = IF q = r THEN got ELSE q.got
      /\ \A q \in net : \E p \in net' : p.ask = q.ask /\ p.got = IF q = r THEN got ELSE q.got
  BY PanelsPage, PanelsSettles
<1>2. PanelsTypeInv'
  BY <1>1, PanelsPage DEF PanelsTypeInv
<1>3. PanelsListInv'
  <2> SUFFICES ASSUME NEW p \in net', p.ask.op \in PanelsListOps
               PROVE  /\ p.ask.op = ui.panel
                      /\ p.got \notin {Waiting, Failed} =>
                            p.got \in IF ui.panel = "members" THEN PanelsMembers ELSE PanelsBoth
    BY <1>1 DEF PanelsIInv, PanelsListInv
  <2>1. PICK q \in net : p.ask = q.ask /\ p.got = IF q = r THEN got ELSE q.got
    BY <1>1
  <2>2. q.ask.op = ui.panel /\ ui.panel \in {"members", "links"}
    BY <2>1, PanelsPage DEF PanelsIInv, PanelsListInv, PanelsApp
  <2> QED
    BY <2>1, <2>2 DEF PanelsIInv, PanelsListInv
<1>4. Panels!BusyHasCause'
  BY <1>1 DEF PanelsIInv, Panels!BusyHasCause, Panels!Out
<1> QED
  BY <1>2, <1>3, <1>4 DEF PanelsIInv

LEMMA PanelsEffectFacts ==
    ASSUME PanelsIInv, NEW r \in net, ~Panels!Refused(r)
    PROVE  Panels!Effect(r) \in PanelsServer
<1> DEFINE effect == Panels!Effect(r)
<1>1. r.ask \in PanelsAsks
  BY PanelsPage DEF PanelsSent
<1>2. /\ server.members \in [DOMAIN server.members -> PanelsRoles] /\ DOMAIN server.members \subseteq PanelsUsers
  BY PanelsPage, MapFacts DEF PanelsMembers
<1>3. CASE r.ask.op = "role"
  <2> DEFINE members == [server.members EXCEPT ![r.ask.user] = r.ask.role]
  <2>1. r.ask.role \in PanelsRoles
    BY <1>1, <1>3 DEF PanelsAsks
  <2>2. members \in [DOMAIN server.members -> PanelsRoles]
    BY <1>2, <2>1
  <2>3. members \in PanelsMembers
    BY <1>2, <2>2, MapIs DEF PanelsMembers
  <2>4. effect = [server EXCEPT !.members = members]
    BY <1>3 DEF Panels!Effect
  <2> HIDE DEF members, effect
  <2> QED
    BY <2>3, <2>4, PanelsPage DEF PanelsServer, effect
<1>4. CASE r.ask.op = "remove"
  <2> DEFINE members == DropFrom(server.members, r.ask.user)
  <2>1. members \in PanelsMembers
    BY PanelsPage, DropFacts DEF PanelsMembers
  <2>2. effect = [server EXCEPT !.members = members]
    BY <1>4 DEF Panels!Effect, Panels!Drop, DropFrom
  <2> HIDE DEF members, effect
  <2> QED
    BY <2>1, <2>2, PanelsPage DEF PanelsServer, effect
<1>5. CASE r.ask.op = "link"
  <2> DEFINE links == PutIn(server.links, r.ask.hub, r.ask.level)
  <2>1. r.ask.hub \in PanelsHubs /\ r.ask.level \in PanelsLevels
    BY <1>1, <1>5 DEF PanelsAsks
  <2>2. links \in PanelsLinks
    BY <2>1, PanelsPage, PutFacts DEF PanelsLinks
  <2>3. effect = [server EXCEPT !.links = links]
    BY <1>5 DEF Panels!Effect, Panels!Put, PutIn
  <2> HIDE DEF links, effect
  <2> QED
    BY <2>2, <2>3, PanelsPage DEF PanelsServer, effect
<1>6. CASE r.ask.op = "revoke"
  <2> DEFINE links == DropFrom(server.links, r.ask.hub)
  <2>1. links \in PanelsLinks
    BY PanelsPage, DropFacts DEF PanelsLinks
  <2>2. effect = [server EXCEPT !.links = links]
    BY <1>6 DEF Panels!Effect, Panels!Drop, DropFrom
  <2> HIDE DEF links, effect
  <2> QED
    BY <2>1, <2>2, PanelsPage DEF PanelsServer, effect
<1>7. CASE r.ask.op \notin {"role", "remove", "link", "revoke"}
  <2>1. effect = server
    BY <1>7 DEF Panels!Effect
  <2> QED
    BY <2>1, PanelsPage
<1> QED
  BY <1>3, <1>4, <1>5, <1>6, <1>7

LEMMA PanelsServes ==
    ASSUME PanelsIInv, Panels!Serve(Panels!Refused, Panels!Effect, Panels!Reply) \/ Panels!Repeat(Panels!Refused, Panels!Effect)
    PROVE  PanelsIInv'
<1>1. PICK r \in net :
        \/ PanelsMoved(r, Failed, server)
        \/ ~Panels!Refused(r) /\ \E got \in {Waiting, Failed, Panels!Reply(r)} : PanelsMoved(r, got, Panels!Effect(r))
  BY PanelsPage, PanelsActs
<1> DEFINE reply == Panels!Reply(r)
           effect == Panels!Effect(r)
<1>2. /\ r.ask.op = "members" => reply \in PanelsMembers
      /\ r.ask.op = "links" => reply \in PanelsBoth
      /\ reply \in PanelsGots
  <2>1. CASE r.ask.op = "members"
    BY <2>1, PanelsPage DEF Panels!Reply, PanelsGots
  <2>2. CASE r.ask.op = "links"
    <3>1. reply = [out |-> server.links, in |-> server.incoming]
      BY <2>2 DEF Panels!Reply
    <3> HIDE DEF reply
    <3> QED
      BY <2>2, <3>1, PanelsPage DEF PanelsBoth, PanelsServer, PanelsGots
  <2>3. CASE r.ask.op \notin {"members", "links"}
    <3>1. reply = r.id /\ r.id \in Int
      BY <2>3, PanelsPage DEF Panels!Reply, PanelsSent
    <3> QED
      BY <2>3, <3>1 DEF PanelsGots
  <2> QED
    BY <2>1, <2>2, <2>3
<1>3. ~Panels!Refused(r) => effect \in PanelsServer
  BY PanelsEffectFacts
<1>4. {Waiting, Failed} \subseteq PanelsGots /\ server \in PanelsServer
  BY PanelsPage DEF PanelsGots
<1> HIDE DEF reply, effect
<1>5. CASE PanelsMoved(r, Failed, server)
  BY <1>4, <1>5, PanelsServeStep
<1>6. ASSUME ~Panels!Refused(r), NEW got \in {Waiting, Failed, reply}, PanelsMoved(r, got, effect)
      PROVE  PanelsIInv'
  BY <1>2, <1>3, <1>4, <1>6, PanelsServeStep
<1> QED
  BY <1>1, <1>5, <1>6 DEF reply, effect

\* Another owner or a platform admin writes.
LEMMA PanelsOthersStep == ASSUME PanelsIInv, Panels!OthersChange PROVE PanelsIInv'
<1> DEFINE owner == [server.members EXCEPT !["u"] = "owner"]
           viewer == [server.members EXCEPT !["me"] = "viewer"]
           without == DropFrom(server.members, "me")
           Linked(h) == PutIn(server.links, h, "read")
           one == 1
<1>1. /\ UNCHANGED <<ui, net, sent>>
      /\ \/ \E members \in {owner, viewer, without} : server' = [server EXCEPT !.members = members, !.changes = one]
         \/ \E h \in Panels!Hubs : server' = [server EXCEPT !.links = Linked(h), !.changes = one]
         \/ server' = [server EXCEPT !.archived = TRUE, !.changes = one]
  BY DEF Panels!OthersChange, Panels!Put, PutIn, Panels!Drop, DropFrom
<1>2. {owner, viewer, without} \subseteq PanelsMembers
  <2>1. server.members \in [DOMAIN server.members -> PanelsRoles] /\ DOMAIN server.members \subseteq PanelsUsers
    BY PanelsPage, MapFacts DEF PanelsMembers
  <2>2. owner \in [DOMAIN server.members -> PanelsRoles] /\ viewer \in [DOMAIN server.members -> PanelsRoles]
    BY <2>1 DEF PanelsRoles
  <2>3. owner \in PanelsMembers /\ viewer \in PanelsMembers
    BY <2>1, <2>2, MapIs DEF PanelsMembers
  <2>4. without \in PanelsMembers
    BY PanelsPage, DropFacts DEF PanelsMembers
  <2> QED
    BY <2>3, <2>4
<1>3. \A h \in Panels!Hubs : Linked(h) \in PanelsLinks
  <2>1. Panels!Hubs = PanelsHubs /\ "read" \in PanelsLevels
    BY DEF PanelsHubs, PanelsLevels, Panels!Hubs
  <2> QED
    BY <2>1, PanelsPage, PutFacts DEF PanelsLinks
<1>4. one \in Int
  OBVIOUS
<1> HIDE DEF owner, viewer, without, Linked, one
<1>5. server' \in PanelsServer
  <2>1. ASSUME NEW members \in {owner, viewer, without}, server' = [server EXCEPT !.members = members, !.changes = one]
        PROVE  server' \in PanelsServer
    BY <1>2, <1>4, <2>1, PanelsPage DEF PanelsServer
  <2>2. ASSUME NEW h \in Panels!Hubs, server' = [server EXCEPT !.links = Linked(h), !.changes = one]
        PROVE  server' \in PanelsServer
    BY <1>3, <1>4, <2>2, PanelsPage DEF PanelsServer
  <2>3. CASE server' = [server EXCEPT !.archived = TRUE, !.changes = one]
    BY <1>4, <2>3, PanelsPage DEF PanelsServer
  <2> QED
    BY <1>1, <2>1, <2>2, <2>3
<1> QED
  BY <1>1, <1>5 DEF PanelsIInv, PanelsTypeInv, PanelsListInv, Panels!BusyHasCause, Panels!Out

LEMMA PanelsNextIInv == PanelsIInv /\ [Panels!Next]_(Panels!vars) => PanelsIInv'
<1> SUFFICES ASSUME PanelsIInv, [Panels!Next]_(Panels!vars) PROVE PanelsIInv'
  OBVIOUS
<1>1. CASE UNCHANGED Panels!vars
  <2>1. UNCHANGED <<ui, net, server, sent>>
    BY <1>1 DEF Panels!vars
  <2> QED
    BY <2>1 DEF PanelsIInv, PanelsTypeInv, PanelsListInv, Panels!BusyHasCause, Panels!Out
<1>2. CASE Panels!Next
  <2>1. \/ Panels!OthersChange
        \/ \E panel \in {"members", "links"} : Panels!OpenForm(panel) \/ Panels!CloseForm(panel)
        \/ /\ \/ Panels!InviteMember
              \/ \E m \in {"me", "u"} : Panels!RemoveMember(m) \/ (\E role \in Panels!Grantable : Panels!ChangeRole(m, role))
              \/ \E h \in Panels!Hubs : Panels!RevokeLink(h) \/ (\E level \in {"use", "read"} : Panels!CreateLink(h, level))
        \/ \E r \in net : \/ Panels!MembersFetched(r) \/ Panels!LinksFetched(r)
                          \/ Panels!Wrote(r, {"role", "remove", "revoke"}) \/ Panels!Invited(r) \/ Panels!LinkCreated(r)
        \/ Panels!Serve(Panels!Refused, Panels!Effect, Panels!Reply) \/ Panels!Repeat(Panels!Refused, Panels!Effect)
    BY <1>2 DEF Panels!Next
  <2> QED
    BY <2>1, PanelsOthersStep, PanelsOpenStep, PanelsWriteStep, PanelsFetchedStep, PanelsWroteStep, PanelsServes
<1> QED
  BY <1>1, <1>2

LEMMA PanelsShown == PanelsIInv => Panels!TypeOK /\ Panels!BusyHasCause
<1> SUFFICES ASSUME PanelsIInv PROVE Panels!TypeOK /\ Panels!BusyHasCause
  OBVIOUS
<1>1. {ui.loading, ui.error, ui.open, ui.submitting, ui.refused} \subseteq BOOLEAN
  BY PanelsPage DEF PanelsApp
<1>2. ui.panel = "members" => ui.list \in [DOMAIN ui.list -> PanelsRoles]
  BY MapFacts DEF PanelsIInv, PanelsListInv, PanelsMembers
<1>3. ui.panel = "links" => DOMAIN ui.list \subseteq PanelsHubs
  BY MapFacts DEF PanelsIInv, PanelsListInv, PanelsLinks
<1> QED
  BY <1>1, <1>2, <1>3 DEF PanelsIInv, Panels!TypeOK, PanelsRoles, PanelsHubs, Panels!Grantable, Panels!Hubs
-----------------------------------------------------------------------------
\* require_hub lets the owner of a hub in use write.
LEMMA PanelsAllowed == ASSUME Panels!AsShown, NEW r PROVE ~Panels!Denied(r)
BY DEF Panels!AsShown, Panels!Denied, Panels!Writes

\* An owner who is not the last one is not the only member with that role.
LEMMA PanelsOffer == ASSUME [Panels!Next]_(Panels!vars) PROVE Panels!OfferAccepted
<1> SUFFICES ASSUME Panels!UpToDate, net = {}, NEW r \in net', Panels!Refused(r), Panels!AsShown
             PROVE  \/ r.ask.op = "invite"
                    \/ r.ask.op = "link" /\ (r.ask.hub \in DOMAIN ui.list \/ r.ask.hub \notin Panels!Contributes)
  BY DEF Panels!OfferAccepted, Panels!Quiet
<1>0. ~Panels!Denied(r)
  BY PanelsAllowed
<1>1. \/ Panels!InviteMember
      \/ \E m \in {"me", "u"} : Panels!RemoveMember(m) \/ (\E role \in Panels!Grantable : Panels!ChangeRole(m, role))
      \/ \E h \in Panels!Hubs : Panels!RevokeLink(h) \/ (\E level \in {"use", "read"} : Panels!CreateLink(h, level))
  <2>1. ~(net' \subseteq net)
    OBVIOUS
  <2>2. UNCHANGED Panels!vars => net' = net
    BY DEF Panels!vars
  <2>3. Panels!OthersChange => net' = net
    BY DEF Panels!OthersChange
  <2>4. \A panel : Panels!OpenForm(panel) \/ Panels!CloseForm(panel) => net' = net
    BY DEF Panels!OpenForm, Panels!CloseForm, Panels!Set, Panels!Local
  <2>5. ~Panels!Serve(Panels!Refused, Panels!Effect, Panels!Reply) /\ ~Panels!Repeat(Panels!Refused, Panels!Effect)
    BY DEF Panels!Serve, Panels!ServeOne, Panels!Repeat, Panels!RepeatOne
  <2> QED
    BY <2>1, <2>2, <2>3, <2>4, <2>5 DEF Panels!Next
<1>2. ASSUME NEW ask, Panels!Send(<<ask>>)
      PROVE  r.ask = ask
  <2>1. net' = net \cup {NewRequest(sent, ask)}
    BY <1>2, PanelsAsks1
  <2> QED
    BY <2>1 DEF NewRequest
<1>3. CASE Panels!InviteMember
  BY <1>2, <1>3 DEF Panels!InviteMember, Panels!Ask
<1>4. ASSUME NEW m \in {"me", "u"}, Panels!RemoveMember(m)
      PROVE  FALSE
  <2>1. /\ r.ask = [op |-> "remove", user |-> m] /\ ui.list = server.members /\ m \in DOMAIN server.members
        /\ ~(ui.list[m] = "owner" /\ Panels!OwnerCount <= 1)
    BY <1>2, <1>4 DEF Panels!RemoveMember, Panels!Ask, Panels!OnScreen, Panels!Ready, Panels!UpToDate
  <2>2. Panels!LastOwner(server.members, m)
    BY <1>0, <2>1 DEF Panels!Refused
  <2>3. Panels!Owners(ui.list) = {m}
    BY <2>1, <2>2 DEF Panels!LastOwner
  <2>4. ui.list[m] = "owner"
    BY <2>3 DEF Panels!Owners
  <2>5. Panels!OwnerCount = 1
    <3>1. Panels!OwnerCount = Cardinality(Panels!Owners(ui.list))
      BY DEF Panels!OwnerCount, Panels!Cardinality, Cardinality
    <3> QED
      BY <2>3, <3>1, FS_Singleton
  <2> QED
    BY <2>1, <2>4, <2>5
<1>5. ASSUME NEW m \in {"me", "u"}, NEW role \in Panels!Grantable, Panels!ChangeRole(m, role)
      PROVE  FALSE
  <2>1. /\ r.ask = [op |-> "role", user |-> m, role |-> role] /\ ui.list = server.members /\ m \in DOMAIN server.members
        /\ ui.list[m] # "owner"
    BY <1>2, <1>5 DEF Panels!ChangeRole, Panels!Ask, Panels!OnScreen, Panels!Ready, Panels!UpToDate
  <2>2. Panels!LastOwner(server.members, m)
    BY <1>0, <2>1 DEF Panels!Refused
  <2> QED
    BY <2>1, <2>2 DEF Panels!LastOwner, Panels!Owners
<1>6. ASSUME NEW h \in Panels!Hubs, Panels!RevokeLink(h)
      PROVE  FALSE
  <2>1. r.ask = [op |-> "revoke", hub |-> h] /\ ui.list = server.links /\ h \in DOMAIN server.links
    BY <1>2, <1>6 DEF Panels!RevokeLink, Panels!Ask, Panels!Ready, Panels!UpToDate
  <2> QED
    BY <1>0, <2>1 DEF Panels!Refused
<1>7. ASSUME NEW h \in Panels!Hubs, NEW level \in {"use", "read"}, Panels!CreateLink(h, level)
      PROVE  r.ask.op = "link" /\ (r.ask.hub \in DOMAIN ui.list \/ r.ask.hub \notin Panels!Contributes)
  <2>1. r.ask = [op |-> "link", hub |-> h, level |-> level] /\ ui.list = server.links
    BY <1>2, <1>7 DEF Panels!CreateLink, Panels!Ask, Panels!Ready, Panels!UpToDate
  <2> QED
    BY <1>0, <2>1 DEF Panels!Refused
<1> QED
  BY <1>1, <1>3, <1>4, <1>5, <1>6, <1>7
-----------------------------------------------------------------------------
(* Panels: what is shown is current. *)

PanelsFreshInv ==
    ~raced =>
    /\ \A r \in net : OnTime(r) /\ r.ask.op \in PanelsListOps =>
          IF r.ask.op = "members" THEN r.got = server.members ELSE r.got.out = server.links
    /\ ui.error \/ Panels!UpToDate \/ \E r \in net : r.ask.op \in PanelsListOps \/ Acted(r)

LEMMA PanelsRaces ==
    ASSUME NEW r, NEW asks
    PROVE  /\ Panels!Send(asks) => UNCHANGED <<server, raced>>
           /\ Panels!Go(r, asks) => UNCHANGED server /\ raced' = (raced \/ (r.late /\ r.got # Failed))
           /\ Panels!Done(r) => UNCHANGED server /\ raced' = (raced \/ (r.late /\ r.got # Failed))
BY DEF Panels!Send, Panels!Done, Panels!Go

\* What others find when the gateway serves a request, which becomes to.
LEMMA PanelsMovesLate ==
    ASSUME NEW r \in net, NEW to \in PanelsSent, NEW held, net \subseteq PanelsSent, Panels!Moves(r, to, held)
    PROVE  \E new \in [net -> PanelsSent] :
              /\ net' = {new[q] : q \in net} /\ server' = held /\ UNCHANGED ui
              /\ new[r] = to
              /\ \A q \in net : q # r => /\ new[q].id = q.id /\ new[q].ask = q.ask /\ new[q].got = q.got /\ new[q].acts = q.acts
                                         /\ new[q].late = (q.got # Waiting /\ (q.late \/ held # server))
<1>1. net' = {IF q = r THEN to ELSE [q EXCEPT !.late = q.got # Waiting /\ (@ \/ held # server)] : q \in net}
  BY DEF Panels!Moves
<1> DEFINE Late(q) == q.got # Waiting /\ (q.late \/ held # server)
           New(q) == IF q = r THEN to ELSE [q EXCEPT !.late = Late(q)]
           new == [q \in net |-> New(q)]
<1>2. ASSUME NEW q \in net
      PROVE  /\ New(q) \in PanelsSent /\ (q = r => New(q) = to)
             /\ q # r => /\ New(q).id = q.id /\ New(q).ask = q.ask /\ New(q).got = q.got /\ New(q).acts = q.acts
                         /\ New(q).late = Late(q)
  <2>1. q \in PanelsSent /\ Late(q) \in BOOLEAN
    OBVIOUS
  <2> HIDE DEF Late
  <2> QED
    BY <2>1 DEF PanelsSent
<1>3. net' = {New(q) : q \in net}
  BY <1>1
<1>4. \A q \in net : q # r => New(q).late = (q.got # Waiting /\ (q.late \/ held # server))
  BY <1>2
<1> HIDE DEF New
<1>5. new \in [net -> PanelsSent] /\ \A q \in net : new[q] = New(q)
  BY <1>2
<1>6. net' = {new[q] : q \in net}
  BY <1>3, <1>5
<1> HIDE DEF new
<1>7. server' = held /\ UNCHANGED ui
  BY DEF Panels!Moves
<1> QED
  BY <1>2, <1>4, <1>5, <1>6, <1>7

LEMMA PanelsSettlesLate ==
    ASSUME NEW r \in net, NEW got, got \in PanelsGots, NEW held, net \subseteq PanelsSent, Panels!Settle(r, got, held)
    PROVE  sent' = sent /\ server' = held /\ \E new \in [net -> PanelsSent] : Serves(r, new) /\ new[r].got = got /\ new[r].id = r.id
<1> DEFINE to == [r EXCEPT !.got = got]
<1>1. r \in PanelsSent
  OBVIOUS
<1>2. to \in PanelsSent /\ to.ask = r.ask /\ to.got = got /\ to.late = r.late /\ to.id = r.id /\ to.acts = r.acts
  BY <1>1 DEF PanelsSent
<1>3. Panels!Moves(r, to, held) /\ sent' = sent
  BY DEF Panels!Settle
<1> HIDE DEF to
<1>4. PICK new \in [net -> PanelsSent] :
              /\ net' = {new[q] : q \in net} /\ server' = held /\ UNCHANGED ui
              /\ new[r] = to
              /\ \A q \in net : q # r => /\ new[q].id = q.id /\ new[q].ask = q.ask /\ new[q].got = q.got /\ new[q].acts = q.acts
                                         /\ new[q].late = (q.got # Waiting /\ (q.late \/ held # server))
  BY <1>2, <1>3, PanelsMovesLate
<1>5. server' = held
  BY <1>4
<1>6. Serves(r, new)
  BY <1>2, <1>4 DEF Serves
<1> QED
  BY <1>2, <1>3, <1>4, <1>5, <1>6

LEMMA PanelsRepeatsLate ==
    ASSUME NEW r \in net, NEW acts \in Nat, acts # 0, NEW held, net \subseteq PanelsSent, sent \in Nat, Panels!SentAgain(r, acts, r.ask, held)
    PROVE  /\ server' = held /\ sent' = sent + 1 /\ raced' = raced
           /\ \E new \in [net -> PanelsSent] : Serves(r, new) /\ new[r].got = Waiting /\ new[r].acts = acts
<1> DEFINE req == Panels!Request(sent + 1, r.ask)
           to == [req EXCEPT !.acts = acts]
<1>1. req \in PanelsSent /\ req.ask = r.ask /\ req.got = Waiting /\ req.late = FALSE
  <2>1. r.ask \in PanelsAsks
    BY DEF PanelsSent
  <2>2. Waiting \in PanelsGots
    BY DEF PanelsGots
  <2> QED
    BY <2>1, <2>2 DEF PanelsSent, Panels!Request
<1>2. Panels!Moves(r, to, held) /\ sent' = sent + 1 /\ raced' = raced
  BY DEF Panels!SentAgain
<1> HIDE DEF req
<1>3. to \in PanelsSent /\ to.ask = r.ask /\ to.got = Waiting /\ to.late = FALSE /\ to.acts = acts
  BY <1>1 DEF PanelsSent
<1> HIDE DEF to
<1>4. PICK new \in [net -> PanelsSent] :
              /\ net' = {new[q] : q \in net} /\ server' = held /\ UNCHANGED ui
              /\ new[r] = to
              /\ \A q \in net : q # r => /\ new[q].id = q.id /\ new[q].ask = q.ask /\ new[q].got = q.got /\ new[q].acts = q.acts
                                         /\ new[q].late = (q.got # Waiting /\ (q.late \/ held # server))
  BY <1>2, <1>3, PanelsMovesLate
<1>5. server' = held
  BY <1>4
<1>6. Serves(r, new)
  BY <1>3, <1>4 DEF Serves
<1> QED
  BY <1>2, <1>3, <1>4, <1>5, <1>6

LEMMA PanelsServing ==
    ASSUME net \subseteq PanelsSent, sent \in Nat, Panels!Serve(Panels!Refused, Panels!Effect, Panels!Reply) \/ Panels!Repeat(Panels!Refused, Panels!Effect),
           \A r \in net : ~Panels!Refused(r) => Panels!Reply(r) \in PanelsGots
    PROVE  \E r \in net : \E new \in [net -> PanelsSent] :
              /\ r.got = Waiting /\ Serves(r, new)
              /\ \/ /\ ~Panels!Refused(r) /\ new[r].got = Panels!Reply(r) /\ server' = Panels!Effect(r) /\ raced' = raced
                    /\ sent' = sent /\ new[r].id = r.id
                 \/ /\ new[r].got = Failed /\ server' = server /\ raced' = (raced \/ r.acts # 0)
                    /\ sent' = sent /\ new[r].id = r.id
                 \/ /\ ~Panels!Refused(r) /\ new[r].got = Failed /\ server' = Panels!Effect(r) /\ raced' = TRUE
                    /\ sent' = sent /\ new[r].id = r.id
                 \/ /\ ~Panels!Refused(r) /\ new[r].got = Waiting /\ new[r].acts # 0 /\ server' = Panels!Effect(r) /\ raced' = raced
                    /\ sent' = sent + 1 /\ server' # server
<1>1. Failed \in PanelsGots
  BY DEF PanelsGots
<1>2. CASE Panels!Serve(Panels!Refused, Panels!Effect, Panels!Reply)
  <2>1. PICK r \in net : /\ r.got = Waiting
                         /\ \/ ~Panels!Refused(r) /\ Panels!Settle(r, Panels!Reply(r), Panels!Effect(r)) /\ raced' = raced
                            \/ Panels!Settle(r, Failed, server) /\ raced' = (raced \/ r.acts # 0)
                            \/ ~Panels!Refused(r) /\ Panels!Settle(r, Failed, Panels!Effect(r)) /\ raced' = TRUE
    BY <1>2 DEF Panels!Serve, Panels!ServeOne
  <2>2. CASE ~Panels!Refused(r) /\ Panels!Settle(r, Panels!Reply(r), Panels!Effect(r)) /\ raced' = raced
    BY <2>1, <2>2, PanelsSettlesLate
  <2>3. CASE Panels!Settle(r, Failed, server) /\ raced' = (raced \/ r.acts # 0)
    BY <1>1, <2>1, <2>3, PanelsSettlesLate
  <2>4. CASE ~Panels!Refused(r) /\ Panels!Settle(r, Failed, Panels!Effect(r)) /\ raced' = TRUE
    <3> DEFINE held == Panels!Effect(r)
    <3>1. Panels!Settle(r, Failed, held)
      BY <2>4
    <3> HIDE DEF held
    <3>2. sent' = sent /\ server' = held /\ \E new \in [net -> PanelsSent] : Serves(r, new) /\ new[r].got = Failed /\ new[r].id = r.id
      BY <1>1, <3>1, PanelsSettlesLate
    <3> QED
      BY <2>1, <2>4, <3>2 DEF held
  <2> QED
    BY <2>1, <2>2, <2>3, <2>4
<1>3. CASE Panels!Repeat(Panels!Refused, Panels!Effect)
  <2>1. PICK r \in net : /\ r.got = Waiting /\ ~Panels!Refused(r) /\ Panels!Effect(r) # server
                         /\ Panels!SentAgain(r, r.acts + 1, r.ask, Panels!Effect(r))
    BY <1>3 DEF Panels!Repeat, Panels!RepeatOne, Panels!Same
  <2> DEFINE held == Panels!Effect(r)
             acts == r.acts + 1
  <2>2. acts \in Nat /\ acts # 0
    BY DEF PanelsSent
  <2>3. Panels!SentAgain(r, acts, r.ask, held)
    BY <2>1
  <2> HIDE DEF held, acts
  <2>4. /\ server' = held /\ sent' = sent + 1 /\ raced' = raced
        /\ \E new \in [net -> PanelsSent] : Serves(r, new) /\ new[r].got = Waiting /\ new[r].acts = acts
    BY <2>2, <2>3, PanelsRepeatsLate
  <2> QED
    BY <2>1, <2>2, <2>4 DEF held
<1> QED
  BY <1>2, <1>3

\* The same as long as nothing that the page was told is out of date.
LEMMA PanelsServingOnTime ==
    ASSUME net \subseteq PanelsSent, sent \in Nat, Panels!Serve(Panels!Refused, Panels!Effect, Panels!Reply) \/ Panels!Repeat(Panels!Refused, Panels!Effect), ~raced',
           \A r \in net : ~Panels!Refused(r) => Panels!Reply(r) \in PanelsGots
    PROVE  \E r \in net : \E new \in [net -> PanelsSent] :
              /\ r.got = Waiting /\ Serves(r, new) /\ ~raced
              /\ \/ /\ ~Panels!Refused(r) /\ new[r].got = Panels!Reply(r) /\ server' = Panels!Effect(r)
                    /\ sent' = sent /\ new[r].id = r.id
                 \/ /\ new[r].got = Failed /\ server' = server /\ r.acts = 0
                    /\ sent' = sent /\ new[r].id = r.id
                 \/ /\ ~Panels!Refused(r) /\ new[r].got = Waiting /\ new[r].acts # 0 /\ server' = Panels!Effect(r)
                    /\ sent' = sent + 1 /\ server' # server
<1> DEFINE Answered(r, new) == /\ ~Panels!Refused(r) /\ new[r].got = Panels!Reply(r) /\ server' = Panels!Effect(r)
                               /\ sent' = sent /\ new[r].id = r.id
           Unheard(r, new) == new[r].got = Failed /\ server' = server /\ sent' = sent /\ new[r].id = r.id
           Again(r, new) == /\ ~Panels!Refused(r) /\ new[r].got = Waiting /\ new[r].acts # 0 /\ server' = Panels!Effect(r)
                            /\ sent' = sent + 1 /\ server' # server
<1>1. PICK r \in net : \E new \in [net -> PanelsSent] :
              /\ r.got = Waiting /\ Serves(r, new)
              /\ \/ Answered(r, new) /\ raced' = raced
                 \/ Unheard(r, new) /\ raced' = (raced \/ r.acts # 0)
                 \/ raced' = TRUE
                 \/ Again(r, new) /\ raced' = raced
  BY PanelsServing
<1>2. PICK new \in [net -> PanelsSent] :
              /\ r.got = Waiting /\ Serves(r, new)
              /\ \/ Answered(r, new) /\ raced' = raced
                 \/ Unheard(r, new) /\ raced' = (raced \/ r.acts # 0)
                 \/ raced' = TRUE
                 \/ Again(r, new) /\ raced' = raced
  BY <1>1
<1> HIDE DEF Answered, Unheard, Again
<1>3. ~raced /\ (Answered(r, new) \/ (Unheard(r, new) /\ r.acts = 0) \/ Again(r, new))
  <2>1. CASE Answered(r, new) /\ raced' = raced
    BY <2>1
  <2>2. CASE Unheard(r, new) /\ raced' = (raced \/ r.acts # 0)
    <3> DEFINE acted == r.acts # 0
    <3>1. raced' = (raced \/ acted)
      BY <2>2
    <3> HIDE DEF acted
    <3>2. ~raced /\ ~acted
      BY <3>1
    <3> QED
      BY <2>2, <3>2 DEF acted
  <2>3. CASE Again(r, new) /\ raced' = raced
    BY <2>3
  <2>4. CASE raced' = TRUE
    BY <2>4
  <2> QED
    BY <1>2, <2>1, <2>2, <2>3, <2>4
<1> QED
  BY <1>2, <1>3 DEF Answered, Unheard, Again

LEMMA PanelsInitFresh == Panels!Init => PanelsFreshInv
<1> SUFFICES ASSUME Panels!Init PROVE PanelsFreshInv
  OBVIOUS
<1>1. PICK panel \in {"members", "links"} :
        net = {Panels!Request(i, <<[op |-> panel]>>[i]) : i \in DOMAIN <<[op |-> panel]>>}
  BY DEF Panels!Init, Panels!Started, Panels!ListOp
<1>2. net = {FirstRequest(1, [op |-> panel])}
  BY <1>1, StartedWithOne DEF Panels!Request
<1>3. FirstRequest(1, [op |-> panel]).ask.op = panel /\ FirstRequest(1, [op |-> panel]).got = Waiting
  BY DEF FirstRequest
<1> QED
  BY <1>2, <1>3 DEF PanelsFreshInv, OnTime, Served, PanelsListOps

\* A request goes out and nothing else changes.
LEMMA PanelsSendFresh ==
    ASSUME PanelsFreshInv, UNCHANGED <<server, raced>>, ui'.list = ui.list, ui'.panel = ui.panel, ui'.error = ui.error,
           net' = net \/ \E ask : net' = net \cup {NewRequest(sent, ask)}
    PROVE  PanelsFreshInv'
<1>1. \A p \in net' : p \in net \/ ~Served(p)
  <2>1. CASE net' = net
    BY <2>1
  <2>2. ASSUME NEW ask, net' = net \cup {NewRequest(sent, ask)}
        PROVE  \A p \in net' : p \in net \/ ~Served(p)
    BY <2>2, NewIsWaiting
  <2> QED
    BY <2>1, <2>2
<1> QED
  BY <1>1 DEF PanelsFreshInv, OnTime, Served, Panels!UpToDate

LEMMA PanelsAskFresh ==
    ASSUME PanelsIInv, PanelsFreshInv,
           \/ \E panel : Panels!OpenForm(panel) \/ Panels!CloseForm(panel)
           \/ Panels!InviteMember
           \/ \E m \in {"me", "u"} : Panels!RemoveMember(m) \/ (\E role \in Panels!Grantable : Panels!ChangeRole(m, role))
           \/ \E h \in Panels!Hubs : Panels!RevokeLink(h) \/ (\E level \in {"use", "read"} : Panels!CreateLink(h, level))
    PROVE  PanelsFreshInv'
<1>1. \/ ui' = [ui EXCEPT !.open = TRUE] /\ Panels!Local
      \/ ui' = [ui EXCEPT !.open = FALSE] /\ Panels!Local
      \/ (ui' = ui \/ ui' = Panels!Submit(ui)) /\ \E ask : Panels!Send(<<ask>>)
  BY DEF Panels!OpenForm, Panels!CloseForm, Panels!Set, Panels!InviteMember, Panels!RemoveMember, Panels!ChangeRole,
         Panels!RevokeLink, Panels!CreateLink, Panels!Ask
<1>2. ui'.list = ui.list /\ ui'.panel = ui.panel /\ ui'.error = ui.error
  BY <1>1, PanelsPage DEF PanelsApp, Panels!Submit
<1>3. UNCHANGED <<server, raced>> /\ (net' = net \/ \E ask : net' = net \cup {NewRequest(sent, ask)})
  BY <1>1, PanelsRaces, PanelsAsks1 DEF Panels!Local
<1> QED
  BY <1>2, <1>3, PanelsSendFresh

LEMMA PanelsFetchedFresh ==
    ASSUME PanelsIInv, PanelsFreshInv, NEW r \in net, Panels!MembersFetched(r) \/ Panels!LinksFetched(r)
    PROVE  PanelsFreshInv'
<1> SUFFICES ASSUME ~raced' PROVE PanelsFreshInv'
  BY DEF PanelsFreshInv
<1>1. /\ r.ask.op \in PanelsListOps /\ Panels!Done(r) /\ r.got # Waiting
      /\ \/ ui' = [ui EXCEPT !.loading = FALSE, !.error = TRUE]
         \/ /\ r.ask.op = "members" /\ r.got # Failed
            /\ ui' = [ui EXCEPT !.list = r.got, !.loading = FALSE]
         \/ /\ r.ask.op = "links" /\ r.got # Failed
            /\ ui' = [ui EXCEPT !.list = r.got.out, !.incoming = r.got.in, !.loading = FALSE]
  BY DEF Panels!MembersFetched, Panels!LinksFetched, Panels!Answer, Panels!Came, Panels!Done, PanelsListOps
<1>2. net' = net \ {r} /\ UNCHANGED server /\ ~raced /\ ~(r.late /\ r.got # Failed)
  BY <1>1, PanelsPage, PanelsEnds, PanelsRaces
<1>3. ui.panel = r.ask.op
  BY <1>1 DEF PanelsIInv, PanelsListInv
<1>4. ui'.error \/ (ui'.panel = ui.panel /\ r.got # Failed /\ ui'.list = IF r.ask.op = "members" THEN r.got ELSE r.got.out)
  BY <1>1, PanelsPage DEF PanelsApp
<1>5. r.got # Failed => OnTime(r)
  BY <1>1, <1>2 DEF OnTime, Served
<1> QED
  BY <1>1, <1>2, <1>3, <1>4, <1>5 DEF PanelsFreshInv, Panels!UpToDate

LEMMA PanelsWroteFresh ==
    ASSUME PanelsIInv, PanelsFreshInv, NEW r \in net,
           Panels!Wrote(r, {"role", "remove", "revoke"}) \/ Panels!Invited(r) \/ Panels!LinkCreated(r)
    PROVE  PanelsFreshInv'
<1> SUFFICES ASSUME ~raced' PROVE PanelsFreshInv'
  BY DEF PanelsFreshInv
<1> DEFINE ask == [op |-> ui.panel]
<1>1. /\ r.ask.op \notin PanelsListOps
      /\ \/ Panels!Go(r, <<ask>>)
         \/ (ui' = ui \/ ui' = [ui EXCEPT !.submitting = FALSE, !.refused = TRUE]) /\ Panels!Done(r) /\ r.got = Failed
  BY DEF Panels!Wrote, Panels!Invited, Panels!LinkCreated, Panels!Answer, Panels!Came, Panels!Refetch, Panels!ListOp,
         PanelsListOps
<1>2. ask.op \in PanelsListOps
  BY PanelsPage DEF PanelsApp, PanelsListOps
<1> HIDE DEF ask
<1>3. UNCHANGED server /\ ~raced
  BY <1>1, PanelsRaces
<1>4. CASE Panels!Go(r, <<ask>>)
  <2>1. net' = (net \ {r}) \cup {NewRequest(sent, ask)}
    BY <1>4, PanelsAsks1
  <2>2. NewRequest(sent, ask).ask = ask /\ ~OnTime(NewRequest(sent, ask))
    BY NewIsWaiting
  <2> QED
    BY <1>2, <1>3, <2>1, <2>2 DEF PanelsFreshInv
<1>5. CASE (ui' = ui \/ ui' = [ui EXCEPT !.submitting = FALSE, !.refused = TRUE]) /\ Panels!Done(r) /\ r.got = Failed
  <2>1. net' = net \ {r} /\ ~Acted(r)
    BY <1>5, PanelsPage, PanelsEnds DEF Acted
  <2>2. ui'.list = ui.list /\ ui'.panel = ui.panel /\ ui'.error = ui.error
    BY <1>5, PanelsPage DEF PanelsApp
  <2> QED
    BY <1>1, <1>3, <2>1, <2>2 DEF PanelsFreshInv, Panels!UpToDate
<1> QED
  BY <1>1, <1>4, <1>5

LEMMA PanelsReplies == ASSUME PanelsIInv, NEW r \in net PROVE Panels!Reply(r) \in PanelsGots
<1>1. CASE r.ask.op = "links"
  <2> DEFINE both == [out |-> server.links, in |-> server.incoming]
  <2>1. Panels!Reply(r) = both
    BY <1>1 DEF Panels!Reply
  <2>2. both \in PanelsBoth
    BY PanelsPage DEF PanelsBoth, PanelsServer
  <2> QED
    BY <2>1, <2>2 DEF PanelsGots
<1>2. CASE r.ask.op = "members"
  BY <1>2, PanelsPage DEF Panels!Reply, PanelsGots
<1>3. CASE r.ask.op \notin {"members", "links"}
  BY <1>3, PanelsPage DEF Panels!Reply, PanelsGots, PanelsSent
<1> QED
  BY <1>1, <1>2, <1>3

LEMMA PanelsServesFresh ==
    ASSUME PanelsIInv, PanelsFreshInv,
           Panels!Serve(Panels!Refused, Panels!Effect, Panels!Reply) \/ Panels!Repeat(Panels!Refused, Panels!Effect)
    PROVE  PanelsFreshInv'
<1> SUFFICES ASSUME ~raced' PROVE PanelsFreshInv'
  BY DEF PanelsFreshInv
<1>1. PICK r \in net : \E new \in [net -> PanelsSent] :
              /\ r.got = Waiting /\ Serves(r, new) /\ ~raced
              /\ \/ ~Panels!Refused(r) /\ new[r].got = Panels!Reply(r) /\ server' = Panels!Effect(r)
                 \/ new[r].got = Failed /\ server' = server /\ r.acts = 0
                 \/ ~Panels!Refused(r) /\ new[r].got = Waiting /\ new[r].acts # 0 /\ server' = Panels!Effect(r)
  BY PanelsPage, PanelsReplies, PanelsServingOnTime
<1>2. PICK new \in [net -> PanelsSent] :
              /\ r.got = Waiting /\ Serves(r, new) /\ ~raced
              /\ \/ ~Panels!Refused(r) /\ new[r].got = Panels!Reply(r) /\ server' = Panels!Effect(r)
                 \/ new[r].got = Failed /\ server' = server /\ r.acts = 0
                 \/ ~Panels!Refused(r) /\ new[r].got = Waiting /\ new[r].acts # 0 /\ server' = Panels!Effect(r)
  BY <1>1
<1>3. ui' = ui /\ net' = {new[q] : q \in net}
  BY <1>2 DEF Serves
<1>4. /\ r.ask.op = "members" => Panels!Reply(r) = server.members
      /\ r.ask.op = "links" => Panels!Reply(r).out = server.links
      /\ r.ask.op \in PanelsListOps => Panels!Effect(r) = server
  BY DEF Panels!Reply, Panels!Effect, PanelsListOps
<1>5. r.ask.op \notin PanelsListOps => Panels!Reply(r) = r.id /\ r.id \in Int
  BY PanelsPage DEF Panels!Reply, PanelsListOps, PanelsSent
<1>6. ASSUME NEW p \in net', OnTime(p), p.ask.op \in PanelsListOps
      PROVE  IF p.ask.op = "members" THEN p.got = server'.members ELSE p.got.out = server'.links
  <2>1. PICK q \in net : p = new[q]
    BY <1>2 DEF Serves
  <2>2. CASE q = r
    BY <1>2, <1>4, <1>6, <2>1, <2>2 DEF OnTime, Served, PanelsListOps, Serves
  <2>3. CASE q # r
    <3>1. OnTime(q) /\ server' = server /\ q.ask = p.ask /\ q.got = p.got
      BY <1>2, <1>6, <2>1, <2>3, OnTimeAfter
    <3> QED
      BY <1>2, <1>6, <3>1 DEF PanelsFreshInv
  <2> QED
    BY <2>2, <2>3
<1>7. (ui.error \/ Panels!UpToDate \/ \E q \in net : q.ask.op \in PanelsListOps \/ Acted(q))'
  <2>1. CASE ui.error
    BY <1>2, <2>1 DEF Serves
  <2>2. CASE server' = server /\ Panels!UpToDate
    BY <1>2, <2>2 DEF Panels!UpToDate, Serves
  <2>3. ASSUME NEW q \in net, q.ask.op \in PanelsListOps \/ Acted(q)
        PROVE  \E p \in net' : p.ask.op \in PanelsListOps \/ Acted(p)
    <3>1. new[q] \in net' /\ new[q].ask = q.ask /\ (q # r => new[q].got = q.got /\ new[q].acts = q.acts)
      BY <1>2 DEF Serves
    <3>2. CASE q # r \/ q.ask.op \in PanelsListOps
      BY <2>3, <3>1, <3>2 DEF Acted
    <3>3. CASE q = r /\ r.ask.op \notin PanelsListOps /\ Acted(r)
      <4>1. r.acts # 0
        BY <1>1, <3>3 DEF Acted
      <4>2. Acted(new[r])
        BY <1>2, <1>5, <3>3, <4>1, RepliesApart DEF Acted
      <4> QED
        BY <3>1, <3>3, <4>2
    <3> QED
      BY <2>3, <3>2, <3>3
  <2>4. CASE server' # server
    <3>1. r.ask.op \notin PanelsListOps
      BY <1>2, <1>4, <2>4
    <3>2. Acted(new[r])
      BY <1>2, <1>5, <2>4, <3>1, RepliesApart DEF Acted
    <3>3. new[r] \in net'
      BY <1>3
    <3> QED
      BY <3>2, <3>3
  <2> QED
    BY <1>2, <2>1, <2>2, <2>3, <2>4 DEF PanelsFreshInv
<1> QED
  BY <1>6, <1>7 DEF PanelsFreshInv

LEMMA PanelsNextFresh == PanelsIInv /\ PanelsFreshInv /\ [Panels!Next]_(Panels!vars) => PanelsFreshInv'
<1> SUFFICES ASSUME PanelsIInv, PanelsFreshInv, [Panels!Next]_(Panels!vars) PROVE PanelsFreshInv'
  OBVIOUS
<1>1. CASE UNCHANGED Panels!vars
  BY <1>1 DEF Panels!vars, PanelsFreshInv, Panels!UpToDate
<1>2. CASE Panels!Next
  <2>1. \/ \E panel : Panels!OpenForm(panel) \/ Panels!CloseForm(panel)
        \/ Panels!InviteMember
        \/ \E m \in {"me", "u"} : Panels!RemoveMember(m) \/ (\E role \in Panels!Grantable : Panels!ChangeRole(m, role))
        \/ \E h \in Panels!Hubs : Panels!RevokeLink(h) \/ (\E level \in {"use", "read"} : Panels!CreateLink(h, level))
        \/ Panels!OthersChange
        \/ \E r \in net : \/ Panels!MembersFetched(r) \/ Panels!LinksFetched(r)
                          \/ Panels!Wrote(r, {"role", "remove", "revoke"}) \/ Panels!Invited(r) \/ Panels!LinkCreated(r)
        \/ Panels!Serve(Panels!Refused, Panels!Effect, Panels!Reply) \/ Panels!Repeat(Panels!Refused, Panels!Effect)
    BY <1>2 DEF Panels!Next
  <2>2. Panels!OthersChange => PanelsFreshInv'
    BY DEF Panels!OthersChange, PanelsFreshInv
  <2> QED
    BY <2>1, <2>2, PanelsAskFresh, PanelsFetchedFresh, PanelsWroteFresh, PanelsServesFresh
<1> QED
  BY <1>1, <1>2

LEMMA PanelsShowFresh == PanelsFreshInv => Panels!Fresh
BY DEF PanelsFreshInv, Panels!Fresh, Panels!Quiet
-----------------------------------------------------------------------------
(* The directory of hubs, the shell and the switcher. *)

HubsHub == [archived : BOOLEAN, role : Hubs!Roles]
HubsList == Maps(HubIds, HubsHub)
HubsAt == HubIds \cup {None}
HubsApp ==
    [screen : {"directory", "hub"}, hubs : HubsList, listStatus : {"loading", "ready", "error"}, at : HubsAt,
     hub : {None} \cup [id : HubIds, is : HubsHub], status : {"idle", "loading", "error", "success"},
     active : HubsAt, crossed : BOOLEAN]
HubsServer == [hubs : HubsList, changes : Int]
HubsAsks ==
    [op : {"list"}] \cup [op : {"get"}, hub : HubIds]
    \cup [op : {"archive", "unarchive", "delete"}, hub : HubIds, from : {"directory", "hub"}]
HubsGots == {Waiting, Failed} \cup HubsList \cup HubsHub \cup Int
HubsSent == [id : Int, ask : HubsAsks, got : HubsGots, late : BOOLEAN, acts : Nat]

HubsTypeInv ==
    /\ ui \in HubsApp /\ server \in HubsServer /\ net \subseteq HubsSent /\ sent \in Nat
    /\ \A r \in net : r.got \notin {Waiting, Failed} =>
            /\ r.ask.op = "list" => r.got \in HubsList
            /\ r.ask.op = "get" => r.got \in HubsHub

\* The hub of the address is that of the shell and of the store, unless the last
\* answer was of another one: also while requests are under way.
HubsShellInv ==
    /\ ui.screen = "hub" <=> ui.at # None
    /\ ui.screen = "hub" /\ ui.status = "success" => ui.hub # None /\ (~ui.crossed => ui.hub.id = ui.at /\ ui.active = ui.at)
    /\ ~ui.crossed => ui.active \in {None, ui.at}

HubsBusyInv ==
    /\ ui.listStatus = "loading" => \E r \in net : r.ask.op = "list"
    /\ ui.screen = "hub" /\ ui.status = "loading" => \E r \in net : r.ask.op = "get"

HubsIInv == HubsTypeInv /\ HubsShellInv /\ HubsBusyInv

LEMMA HubsAsks1 ==
    ASSUME NEW ask
    PROVE  /\ Hubs!Send(<<ask>>) => net' = net \cup {NewRequest(sent, ask)} /\ sent' = sent + 1 /\ UNCHANGED server
           /\ \A r : Hubs!Go(r, <<ask>>) =>
                net' = (net \ {r}) \cup {NewRequest(sent, ask)} /\ sent' = sent + 1 /\ UNCHANGED server
<1>1. Hubs!Requests(<<ask>>) = {NewRequest(sent, ask)} /\ Len(<<ask>>) = 1
  BY OneAsked DEF Hubs!Requests, Hubs!Request
<1> QED
  BY <1>1 DEF Hubs!Send, Hubs!Go

LEMMA HubsEnds ==
    ASSUME NEW r, sent \in Nat, Hubs!Done(r)
    PROVE  net' = net \ {r} /\ UNCHANGED <<sent, server>>
<1>1. Hubs!Requests(<<>>) = {} /\ Len(<<>>) = 0
  BY NoneAsked DEF Hubs!Requests, Hubs!Request
<1> QED
  BY <1>1 DEF Hubs!Done, Hubs!Go

\* r is answered, or the gateway acts on it and it is sent again.
HubsMoved(r, got, held) ==
    \/ Hubs!Settle(r, got, held)
    \/ got = Waiting /\ \E acts \in Nat : Hubs!SentAgain(r, acts, r.ask, held)

LEMMA HubsMoves ==
    ASSUME NEW r \in net, NEW got, got \in HubsGots, NEW held, net \subseteq HubsSent, sent \in Nat, HubsMoved(r, got, held)
    PROVE  /\ sent' \in {sent, sent + 1}
           /\ \E to \in HubsSent : Hubs!Moves(r, to, held) /\ to.id \in {r.id, sent'} /\ to.ask = r.ask /\ to.got = got
                             /\ (got # Waiting => to.id = r.id)
<1>1. r \in HubsSent
  OBVIOUS
<1>2. CASE Hubs!Settle(r, got, held)
  <2> DEFINE to == [r EXCEPT !.got = got]
  <2>1. to \in HubsSent /\ to.id = r.id /\ to.ask = r.ask /\ to.got = got
    BY <1>1 DEF HubsSent
  <2>2. Hubs!Moves(r, to, held) /\ sent' = sent
    BY <1>2 DEF Hubs!Settle
  <2> QED
    BY <2>1, <2>2
<1>3. CASE got = Waiting /\ \E acts \in Nat : Hubs!SentAgain(r, acts, r.ask, held)
  <2>1. PICK acts \in Nat : Hubs!SentAgain(r, acts, r.ask, held)
    BY <1>3
  <2> DEFINE req == Hubs!Request(sent + 1, r.ask)
             to == [req EXCEPT !.acts = acts]
  <2>2. req \in HubsSent /\ req.id = sent + 1 /\ req.ask = r.ask /\ req.got = Waiting
    BY <1>1, <1>3 DEF HubsSent, Hubs!Request
  <2> HIDE DEF req
  <2>3. to \in HubsSent /\ to.id = sent + 1 /\ to.ask = r.ask /\ to.got = got
    BY <1>3, <2>2 DEF HubsSent
  <2>4. Hubs!Moves(r, to, held) /\ sent' = sent + 1
    BY <2>1 DEF Hubs!SentAgain, req
  <2> QED
    BY <1>3, <2>3, <2>4
<1> QED
  BY <1>2, <1>3 DEF HubsMoved

LEMMA HubsSettled ==
    ASSUME NEW r \in net, NEW got, got \in HubsGots, NEW held, net \subseteq HubsSent, sent \in Nat, HubsMoved(r, got, held)
    PROVE  /\ server' = held /\ UNCHANGED ui /\ sent' \in {sent, sent + 1}
           /\ \E new \in [net -> HubsSent] :
              /\ net' = {new[q] : q \in net}
              /\ \A q \in net : /\ new[q].ask = q.ask /\ new[q].got = IF q = r THEN got ELSE q.got
                                /\ new[q].id = q.id \/ (q = r /\ new[q].id = sent')
                                /\ got # Waiting => new[q].id = q.id
<1>1. PICK to \in HubsSent : Hubs!Moves(r, to, held) /\ to.id \in {r.id, sent'} /\ to.ask = r.ask /\ to.got = got
                             /\ (got # Waiting => to.id = r.id)
  BY HubsMoves
<1>2. net' = {IF q = r THEN to ELSE [q EXCEPT !.late = q.got # Waiting /\ (@ \/ held # server)] : q \in net}
  BY <1>1 DEF Hubs!Moves
<1> DEFINE Late(q) == q.got # Waiting /\ (q.late \/ held # server)
           New(q) == IF q = r THEN to ELSE [q EXCEPT !.late = Late(q)]
<1>3. ASSUME NEW q \in net
      PROVE  /\ New(q) \in HubsSent /\ New(q).ask = q.ask /\ New(q).got = IF q = r THEN got ELSE q.got
             /\ New(q).id = q.id \/ (q = r /\ New(q).id = sent')
             /\ got # Waiting => New(q).id = q.id
  <2>1. q \in HubsSent /\ Late(q) \in BOOLEAN
    OBVIOUS
  <2> HIDE DEF Late
  <2> QED
    BY <1>1, <2>1 DEF HubsSent
<1>4. net' = {New(q) : q \in net}
  BY <1>2
<1> HIDE DEF New
<1> DEFINE new == [q \in net |-> New(q)]
<1>5. new \in [net -> HubsSent] /\ \A q \in net : new[q] = New(q)
  BY <1>3
<1>6. net' = {new[q] : q \in net}
  BY <1>4, <1>5
<1> HIDE DEF new
<1>7. server' = held /\ UNCHANGED ui /\ sent' \in {sent, sent + 1}
  BY <1>1, HubsMoves DEF Hubs!Moves
<1> QED
  BY <1>3, <1>5, <1>6, <1>7

LEMMA HubsSettles ==
    ASSUME NEW r \in net, NEW got, got \in HubsGots, NEW held, net \subseteq HubsSent, sent \in Nat, HubsMoved(r, got, held)
    PROVE  /\ net' \subseteq HubsSent /\ server' = held /\ UNCHANGED ui /\ sent' \in Nat
           /\ \A p \in net' : \E q \in net : p.ask = q.ask /\ p.got = IF q = r THEN got ELSE q.got
           /\ \A q \in net : \E p \in net' : p.ask = q.ask /\ p.got = IF q = r THEN got ELSE q.got
<1>1. /\ server' = held /\ UNCHANGED ui /\ sent' \in {sent, sent + 1}
      /\ \E new \in [net -> HubsSent] :
            /\ net' = {new[q] : q \in net}
            /\ \A q \in net : /\ new[q].ask = q.ask /\ new[q].got = IF q = r THEN got ELSE q.got
                              /\ new[q].id = q.id \/ (q = r /\ new[q].id = sent')
  BY HubsSettled
<1>2. PICK new \in [net -> HubsSent] :
            /\ net' = {new[q] : q \in net}
            /\ \A q \in net : new[q].ask = q.ask /\ new[q].got = IF q = r THEN got ELSE q.got
  BY <1>1
<1>3. sent' \in Nat
  BY <1>1
<1> QED
  BY ONLY <1>1, <1>2, <1>3

LEMMA HubsActs ==
    ASSUME net \subseteq HubsSent,
           Hubs!Serve(Hubs!Refused, Hubs!Effect, Hubs!Reply) \/ Hubs!Repeat(Hubs!Refused, Hubs!Effect)
    PROVE  \E r \in net :
              \/ HubsMoved(r, Failed, server)
              \/ ~Hubs!Refused(r) /\ \E got \in {Waiting, Failed, Hubs!Reply(r)} : HubsMoved(r, got, Hubs!Effect(r))
<1>1. CASE Hubs!Serve(Hubs!Refused, Hubs!Effect, Hubs!Reply)
  BY <1>1 DEF Hubs!Serve, Hubs!ServeOne, HubsMoved
<1>2. CASE Hubs!Repeat(Hubs!Refused, Hubs!Effect)
  <2>1. PICK r \in net : ~Hubs!Refused(r) /\ Hubs!SentAgain(r, r.acts + 1, r.ask, Hubs!Effect(r))
    BY <1>2 DEF Hubs!Repeat, Hubs!RepeatOne, Hubs!Same
  <2>2. r.acts + 1 \in Nat
    BY DEF HubsSent
  <2> QED
    BY <2>1, <2>2 DEF HubsMoved
<1> QED
  BY <1>1, <1>2

LEMMA HubsInitIInv == Hubs!Init => HubsIInv
<1> SUFFICES ASSUME Hubs!Init PROVE HubsIInv
  OBVIOUS
<1> DEFINE ask == [op |-> "list"]
           none == Hubs!Empty
           hubs == [h \in HubIds |-> Hubs!Hub(FALSE, "owner")]
           zero == 0
<1>1. /\ ui = [screen |-> "directory", hubs |-> none, listStatus |-> "loading",
               at |-> None, hub |-> None, status |-> "idle", active |-> None, crossed |-> FALSE]
      /\ server = [hubs |-> hubs, changes |-> zero]
      /\ net = {Hubs!Request(i, <<ask>>[i]) : i \in DOMAIN <<ask>>} /\ sent = Len(<<ask>>)
  BY DEF Hubs!Init, Hubs!Started
<1>2. net = {FirstRequest(1, ask)} /\ sent = 1
  BY <1>1, StartedWithOne DEF Hubs!Request
<1>3. ask \in HubsAsks /\ ask.op = "list" /\ zero \in Int
  BY DEF HubsAsks
<1>4. none \in HubsList
  <2>1. none \in [{} -> HubsHub]
    BY DEF Hubs!Empty
  <2> QED
    BY <2>1, MapIs DEF HubsList
<1>5. hubs \in HubsList
  <2>1. Hubs!Hub(FALSE, "owner") \in HubsHub
    BY DEF Hubs!Hub, HubsHub, Hubs!Roles, Hubs!Ladder
  <2>2. hubs \in [HubIds -> HubsHub]
    BY <2>1
  <2> QED
    BY <2>2, MapIs DEF HubsList
<1> HIDE DEF ask, none, hubs, zero
<1>6. /\ ui \in HubsApp /\ ui.screen = "directory" /\ ui.at = None /\ ui.active = None /\ ui.crossed = FALSE
  BY <1>1, <1>4 DEF HubsApp, HubsAt
<1>7. server \in HubsServer
  BY <1>1, <1>3, <1>5 DEF HubsServer
<1>8. FirstRequest(1, ask) \in HubsSent /\ FirstRequest(1, ask).ask = ask /\ FirstRequest(1, ask).got = Waiting
  BY <1>3 DEF FirstRequest, HubsSent, HubsGots
<1>9. HubsTypeInv
  BY <1>2, <1>6, <1>7, <1>8 DEF HubsTypeInv
<1>10. HubsShellInv /\ HubsBusyInv
  BY <1>2, <1>3, <1>6, <1>8 DEF HubsShellInv, HubsBusyInv
<1> QED
  BY <1>9, <1>10 DEF HubsIInv
-----------------------------------------------------------------------------
LEMMA HubsPage ==
    ASSUME HubsIInv
    PROVE  /\ ui \in HubsApp /\ server \in HubsServer /\ net \subseteq HubsSent /\ sent \in Nat /\ server.hubs \in HubsList
BY DEF HubsIInv, HubsTypeInv, HubsServer

\* One request goes out, or none, and some may be answered.
LEMMA HubsNetStep ==
    ASSUME HubsIInv, UNCHANGED server, ui' \in HubsApp,
           \/ sent' = sent /\ net' \subseteq net
           \/ sent' = sent + 1 /\ \E ask \in HubsAsks : net' \subseteq net \cup {NewRequest(sent, ask)}
    PROVE  HubsTypeInv'
<1>1. \A ask \in HubsAsks : NewRequest(sent, ask) \in HubsSent /\ NewRequest(sent, ask).got = Waiting
  BY HubsPage DEF NewRequest, HubsSent, HubsGots
<1> QED
  BY <1>1 DEF HubsIInv, HubsTypeInv

\* What is asked for on a page that stays as it is, and what reloads a list or a
\* hub that failed to load.
LEMMA HubsAskStep ==
    ASSUME HubsIInv, NEW ask, ask \in HubsAsks, Hubs!Send(<<ask>>),
           \/ ui' = ui
           \/ ui' = [ui EXCEPT !.listStatus = "loading"] /\ ask.op = "list"
           \/ ui' = [ui EXCEPT !.status = "loading"] /\ ask.op = "get"
    PROVE  HubsIInv'
<1>1. net' = net \cup {NewRequest(sent, ask)} /\ sent' = sent + 1 /\ UNCHANGED server
  BY HubsAsks1
<1>2. NewRequest(sent, ask).ask = ask
  BY DEF NewRequest
<1>3. /\ ui' \in HubsApp /\ ui'.screen = ui.screen /\ ui'.at = ui.at /\ ui'.hub = ui.hub /\ ui'.active = ui.active
      /\ ui'.crossed = ui.crossed
      /\ ui'.listStatus = ui.listStatus \/ (ui'.listStatus = "loading" /\ ask.op = "list")
      /\ ui'.status = ui.status \/ (ui'.status = "loading" /\ ask.op = "get")
  BY HubsPage DEF HubsApp
<1>4. HubsTypeInv'
  BY <1>1, <1>3, HubsNetStep
<1>5. HubsShellInv'
  BY <1>3 DEF HubsIInv, HubsShellInv
<1>6. HubsBusyInv'
  BY <1>1, <1>2, <1>3 DEF HubsIInv, HubsBusyInv
<1> QED
  BY <1>4, <1>5, <1>6 DEF HubsIInv

LEMMA HubsButtonStep ==
    ASSUME HubsIInv,
           \/ Hubs!Retry \/ Hubs!RetryHub \/ Hubs!DeleteThisHub
           \/ \E h \in HubIds : Hubs!ToggleArchive(h) \/ Hubs!DeleteHub(h)
    PROVE  HubsIInv'
<1>1. CASE Hubs!Retry
  <2> DEFINE ask == [op |-> "list"]
  <2>1. ui' = [ui EXCEPT !.listStatus = "loading"] /\ Hubs!Send(<<ask>>)
    BY <1>1 DEF Hubs!Retry
  <2>2. ask \in HubsAsks /\ ask.op = "list"
    BY DEF HubsAsks
  <2> HIDE DEF ask
  <2> QED
    BY <2>1, <2>2, HubsAskStep
<1>2. CASE Hubs!RetryHub
  <2> DEFINE ask == [op |-> "get", hub |-> ui.at]
  <2>1. ui' = [ui EXCEPT !.status = "loading"] /\ Hubs!Send(<<ask>>) /\ ui.screen = "hub"
    BY <1>2 DEF Hubs!RetryHub
  <2>2. ui.at \in HubIds
    BY <2>1, HubsPage DEF HubsApp, HubsAt, HubsIInv, HubsShellInv
  <2>3. ask \in HubsAsks /\ ask.op = "get"
    BY <2>2 DEF HubsAsks
  <2> HIDE DEF ask
  <2> QED
    BY <2>1, <2>3, HubsAskStep
<1>3. CASE Hubs!DeleteThisHub
  <2> DEFINE ask == [op |-> "delete", hub |-> ui.hub.id, from |-> "hub"]
  <2>1. ui' = ui /\ Hubs!Send(<<ask>>) /\ ui.hub # None
    BY <1>3 DEF Hubs!DeleteThisHub, Hubs!Can, Hubs!Shown
  <2>2. ui.hub.id \in HubIds
    BY <2>1, HubsPage DEF HubsApp
  <2>3. ask \in HubsAsks
    BY <2>2 DEF HubsAsks
  <2> HIDE DEF ask
  <2> QED
    BY <2>1, <2>3, HubsAskStep
<1>4. ASSUME NEW h \in HubIds, Hubs!ToggleArchive(h)
      PROVE  HubsIInv'
  <2> DEFINE ask == [op |-> IF ui.hubs[h].archived THEN "unarchive" ELSE "archive", hub |-> h, from |-> "directory"]
  <2>1. ui' = ui /\ Hubs!Send(<<ask>>)
    BY <1>4 DEF Hubs!ToggleArchive
  <2>2. ask \in HubsAsks
    BY DEF HubsAsks
  <2> HIDE DEF ask
  <2> QED
    BY <2>1, <2>2, HubsAskStep
<1>5. ASSUME NEW h \in HubIds, Hubs!DeleteHub(h)
      PROVE  HubsIInv'
  <2> DEFINE ask == [op |-> "delete", hub |-> h, from |-> "directory"]
  <2>1. ui' = ui /\ Hubs!Send(<<ask>>)
    BY <1>5 DEF Hubs!DeleteHub
  <2>2. ask \in HubsAsks
    BY DEF HubsAsks
  <2> HIDE DEF ask
  <2> QED
    BY <2>1, <2>2, HubsAskStep
<1> QED
  BY <1>1, <1>2, <1>3, <1>4, <1>5

\* Another hub is opened: the one before is no longer the active one.
LEMMA HubsEnterStep ==
    ASSUME HubsIInv, NEW h \in HubIds, Hubs!OpenHub(h) \/ Hubs!SwitchTo(h)
    PROVE  HubsIInv'
<1> DEFINE ask == [op |-> "get", hub |-> h]
<1>1. /\ ui' = [ui EXCEPT !.screen = "hub", !.at = h, !.status = "loading", !.active = None, !.crossed = FALSE]
      /\ Hubs!Send(<<ask>>)
  BY DEF Hubs!OpenHub, Hubs!SwitchTo, Hubs!Enter
<1>2. ask \in HubsAsks /\ ask.op = "get" /\ h # None /\ h \in HubsAt /\ None \in HubsAt
  BY NoneApart DEF HubsAsks, HubsAt
<1> HIDE DEF ask
<1>3. net' = net \cup {NewRequest(sent, ask)} /\ sent' = sent + 1 /\ UNCHANGED server
  BY <1>1, HubsAsks1
<1>4. NewRequest(sent, ask).ask = ask
  BY DEF NewRequest
<1>5. /\ ui' \in HubsApp /\ ui'.screen = "hub" /\ ui'.at = h /\ ui'.status = "loading" /\ ui'.active = None
      /\ ui'.crossed = FALSE /\ ui'.listStatus = ui.listStatus
  BY <1>1, <1>2, HubsPage DEF HubsApp
<1>6. HubsTypeInv'
  BY <1>2, <1>3, <1>5, HubsNetStep
<1>7. HubsShellInv'
  BY <1>2, <1>5 DEF HubsShellInv
<1>8. HubsBusyInv'
  BY <1>2, <1>3, <1>4, <1>5 DEF HubsIInv, HubsBusyInv
<1> QED
  BY <1>6, <1>7, <1>8 DEF HubsIInv

\* The shell is left for the directory, which fetches its list.
LEMMA HubsLeaveStep ==
    ASSUME HubsIInv, ui' = Hubs!Directory(ui),
           NEW asked, asked \subseteq net, sent' = sent + 1, UNCHANGED server,
           net' = asked \cup {NewRequest(sent, [op |-> "list"])}
    PROVE  HubsIInv'
<1> DEFINE ask == [op |-> "list"]
<1>1. ask \in HubsAsks /\ ask.op = "list" /\ None \in HubsAt
  BY DEF HubsAsks, HubsAt
<1>2. net' = asked \cup {NewRequest(sent, ask)}
  OBVIOUS
<1> HIDE DEF ask
<1>3. NewRequest(sent, ask).ask = ask
  BY DEF NewRequest
<1>4. /\ ui' \in HubsApp /\ ui'.screen = "directory" /\ ui'.at = None /\ ui'.active = None /\ ui'.crossed = FALSE
  BY <1>1, HubsPage DEF Hubs!Directory, HubsApp
<1>5. HubsTypeInv'
  BY <1>1, <1>2, <1>4, HubsNetStep
<1>6. HubsShellInv' /\ HubsBusyInv'
  BY <1>1, <1>2, <1>3, <1>4 DEF HubsShellInv, HubsBusyInv
<1> QED
  BY <1>5, <1>6 DEF HubsIInv

LEMMA HubsLeft == ASSUME HubsIInv, Hubs!Leave PROVE HubsIInv'
<1> DEFINE ask == [op |-> "list"]
<1>1. ui' = Hubs!Directory(ui) /\ Hubs!Send(<<ask>>)
  BY DEF Hubs!Leave
<1>2. net' = net \cup {NewRequest(sent, ask)} /\ sent' = sent + 1 /\ UNCHANGED server
  BY <1>1, HubsAsks1
<1> QED
  BY <1>1, <1>2, HubsLeaveStep
-----------------------------------------------------------------------------
\* The list comes.
LEMMA HubsListStep == ASSUME HubsIInv, NEW r \in net, Hubs!ListFetched(r) PROVE HubsIInv'
<1>1. /\ r.ask.op = "list" /\ r.got # Waiting /\ Hubs!Done(r)
      /\ \/ r.got = Failed /\ ui' = [ui EXCEPT !.listStatus = "error"]
         \/ r.got # Failed /\ ui' = [ui EXCEPT !.hubs = r.got, !.listStatus = "ready"]
  BY DEF Hubs!ListFetched, Hubs!Came
<1>2. net' = net \ {r} /\ UNCHANGED <<sent, server>>
  BY <1>1, HubsPage, HubsEnds
<1>3. r.got # Failed => r.got \in HubsList
  BY <1>1 DEF HubsIInv, HubsTypeInv
<1>4. /\ ui' \in HubsApp /\ ui'.screen = ui.screen /\ ui'.at = ui.at /\ ui'.hub = ui.hub /\ ui'.status = ui.status
      /\ ui'.active = ui.active /\ ui'.crossed = ui.crossed /\ ui'.listStatus # "loading"
  BY <1>1, <1>3, HubsPage DEF HubsApp
<1>5. HubsTypeInv'
  BY <1>2, <1>4, HubsNetStep
<1>6. HubsShellInv' /\ HubsBusyInv'
  BY <1>1, <1>2, <1>4 DEF HubsIInv, HubsShellInv, HubsBusyInv
<1> QED
  BY <1>5, <1>6 DEF HubsIInv

\* A hub comes: for the page, if it is the shell, and for the store at any rate.
LEMMA HubsFetchedStep == ASSUME HubsIInv, NEW r \in net, Hubs!HubFetched(r) PROVE HubsIInv'
<1>1. /\ r.ask.op = "get" /\ r.got # Waiting /\ Hubs!Done(r)
      /\ LET shown == ui.screen = "hub"
         IN  ui' = [ui EXCEPT
                !.hub = IF shown /\ r.got # Failed THEN [id |-> r.ask.hub, is |-> r.got] ELSE ui.hub,
                !.status = IF ~shown THEN ui.status ELSE IF r.got = Failed THEN "error" ELSE "success",
                !.active = IF r.got = Failed THEN ui.active ELSE r.ask.hub,
                !.crossed = IF r.got = Failed THEN ui.crossed ELSE r.ask.hub # ui.at]
  BY DEF Hubs!HubFetched, Hubs!Came
<1>2. net' = net \ {r} /\ UNCHANGED <<sent, server>>
  BY <1>1, HubsPage, HubsEnds
<1>3. r.ask.hub \in HubIds /\ r.ask.hub # None
  <2>1. r.ask \in HubsAsks
    BY HubsPage DEF HubsSent
  <2> QED
    BY <1>1, <2>1, NoneApart DEF HubsAsks
<1>4. r.got # Failed => r.got \in HubsHub
  BY <1>1 DEF HubsIInv, HubsTypeInv
<1> DEFINE shown == ui.screen = "hub"
           hub == IF shown /\ r.got # Failed THEN [id |-> r.ask.hub, is |-> r.got] ELSE ui.hub
           status == IF ~shown THEN ui.status ELSE IF r.got = Failed THEN "error" ELSE "success"
           active == IF r.got = Failed THEN ui.active ELSE r.ask.hub
           crossed == IF r.got = Failed THEN ui.crossed ELSE r.ask.hub # ui.at
<1>5. ui' = [ui EXCEPT !.hub = hub, !.status = status, !.active = active, !.crossed = crossed]
  BY <1>1
<1>6. hub \in {None} \cup [id : HubIds, is : HubsHub]
  BY <1>3, <1>4, HubsPage DEF HubsApp
<1>7. /\ status \in {"idle", "loading", "error", "success"} /\ active \in HubsAt /\ crossed \in BOOLEAN
  BY <1>3, HubsPage DEF HubsApp, HubsAt
<1>8. /\ shown => status \in {"error", "success"}
      /\ shown /\ status = "success" => hub # None /\ (~crossed => hub.id = ui.at /\ active = ui.at)
      /\ ~shown => status = ui.status /\ hub = ui.hub
  <2>1. CASE shown /\ r.got # Failed
    <3>1. hub = [id |-> r.ask.hub, is |-> r.got] /\ active = r.ask.hub /\ crossed = (r.ask.hub # ui.at)
      BY <2>1
    <3>2. hub \in [id : HubIds, is : HubsHub] /\ hub.id = r.ask.hub
      BY <1>3, <1>4, <2>1, <3>1
    <3>3. hub # None
      <4>1. Hubs!Roles = {"owner", "maintainer", "contributor", "viewer"}
        BY DEF Hubs!Roles, Hubs!Ladder
      <4> QED
        BY <3>2, <4>1, NoneApart DEF HubsHub
    <3> QED
      BY <2>1, <3>1, <3>2, <3>3
  <2>2. CASE ~(shown /\ r.got # Failed)
    BY <2>2
  <2> QED
    BY <2>1, <2>2
<1>9. ~crossed => active \in {None, ui.at}
  BY <1>3 DEF HubsIInv, HubsShellInv
<1> HIDE DEF hub, status, active, crossed
<1>10. /\ ui' \in HubsApp /\ ui'.screen = ui.screen /\ ui'.at = ui.at /\ ui'.hub = hub /\ ui'.status = status
       /\ ui'.active = active /\ ui'.crossed = crossed /\ ui'.listStatus = ui.listStatus
  BY <1>5, <1>6, <1>7, HubsPage DEF HubsApp
<1>11. HubsTypeInv'
  BY <1>2, <1>10, HubsNetStep
<1>12. HubsShellInv'
  BY <1>8, <1>9, <1>10 DEF HubsIInv, HubsShellInv
<1>13. HubsBusyInv'
  BY <1>1, <1>2, <1>8, <1>10 DEF HubsIInv, HubsBusyInv
<1> QED
  BY <1>11, <1>12, <1>13 DEF HubsIInv

\* A write has gone through or has failed.
LEMMA HubsWrittenStep ==
    ASSUME HubsIInv, NEW r \in net, Hubs!WrittenFromDirectory(r) \/ Hubs!ThisHubDeleted(r)
    PROVE  HubsIInv'
<1> DEFINE ask == [op |-> "list"]
<1>1. /\ r.ask.op \in {"archive", "unarchive", "delete"}
      /\ \/ ui' = ui /\ Hubs!Done(r)
         \/ ui' = [ui EXCEPT !.listStatus = "loading"] /\ Hubs!Go(r, <<ask>>)
         \/ ui' = Hubs!Directory(ui) /\ Hubs!Go(r, <<ask>>)
  BY DEF Hubs!WrittenFromDirectory, Hubs!ThisHubDeleted, Hubs!Came
<1>2. Hubs!Done(r) => net' = net \ {r} /\ UNCHANGED <<sent, server>>
  BY HubsPage, HubsEnds
<1>3. Hubs!Go(r, <<ask>>) => net' = (net \ {r}) \cup {NewRequest(sent, ask)} /\ sent' = sent + 1 /\ UNCHANGED server
  BY HubsAsks1
<1>4. CASE ui' = ui /\ Hubs!Done(r)
  <2>1. HubsTypeInv'
    BY <1>2, <1>4, HubsPage, HubsNetStep
  <2>2. HubsShellInv' /\ HubsBusyInv'
    BY <1>1, <1>2, <1>4 DEF HubsIInv, HubsShellInv, HubsBusyInv
  <2> QED
    BY <2>1, <2>2 DEF HubsIInv
<1>5. CASE ui' = [ui EXCEPT !.listStatus = "loading"] /\ Hubs!Go(r, <<ask>>)
  <2>1. ask \in HubsAsks /\ ask.op = "list"
    BY DEF HubsAsks
  <2>2. NewRequest(sent, ask).ask = ask
    BY DEF NewRequest
  <2>3. /\ ui' \in HubsApp /\ ui'.screen = ui.screen /\ ui'.at = ui.at /\ ui'.hub = ui.hub /\ ui'.status = ui.status
        /\ ui'.active = ui.active /\ ui'.crossed = ui.crossed
    BY <1>5, HubsPage DEF HubsApp
  <2> HIDE DEF ask
  <2>4. HubsTypeInv'
    BY <1>3, <1>5, <2>1, <2>3, HubsNetStep
  <2>5. HubsShellInv' /\ HubsBusyInv'
    BY <1>1, <1>3, <1>5, <2>1, <2>2, <2>3 DEF HubsIInv, HubsShellInv, HubsBusyInv
  <2> QED
    BY <2>4, <2>5 DEF HubsIInv
<1>6. CASE ui' = Hubs!Directory(ui) /\ Hubs!Go(r, <<ask>>)
  <2>1. net \ {r} \subseteq net
    OBVIOUS
  <2> QED
    BY <1>3, <1>6, <2>1, HubsLeaveStep
<1> QED
  BY <1>1, <1>4, <1>5, <1>6
-----------------------------------------------------------------------------
\* The gateway.
LEMMA HubsServeStep ==
    ASSUME HubsIInv, NEW r \in net, NEW got, got \in HubsGots, NEW held, HubsMoved(r, got, held), held \in HubsServer,
           got \notin {Waiting, Failed} => /\ r.ask.op = "list" => got \in HubsList
                                           /\ r.ask.op = "get" => got \in HubsHub
    PROVE  HubsIInv'
<1>1. /\ net' \subseteq HubsSent /\ server' = held /\ UNCHANGED ui /\ sent' \in Nat
      /\ \A p \in net' : \E q \in net : p.ask = q.ask /\ p.got = IF q = r THEN got ELSE q.got
      /\ \A q \in net : \E p \in net' : p.ask = q.ask /\ p.got = IF q = r THEN got ELSE q.got
  BY HubsPage, HubsSettles
<1>2. \A p \in net' : p.got \notin {Waiting, Failed} =>
            /\ p.ask.op = "list" => p.got \in HubsList
            /\ p.ask.op = "get" => p.got \in HubsHub
  <2> TAKE p \in net'
  <2> PICK q \in net : p.ask = q.ask /\ p.got = IF q = r THEN got ELSE q.got
    BY <1>1
  <2> QED
    BY DEF HubsIInv, HubsTypeInv
<1>3. HubsTypeInv'
  BY <1>1, <1>2, HubsPage DEF HubsTypeInv
<1>4. HubsShellInv'
  BY <1>1 DEF HubsIInv, HubsShellInv
<1>5. HubsBusyInv'
  BY <1>1 DEF HubsIInv, HubsBusyInv
<1> QED
  BY <1>3, <1>4, <1>5 DEF HubsIInv

\* The list of hubs after one of them has changed, or is gone.
LEMMA HubsHubChanges ==
    ASSUME HubsIInv, NEW h, h \in DOMAIN server.hubs
    PROVE  /\ \A archived \in BOOLEAN : [server EXCEPT !.hubs[h].archived = archived] \in HubsServer
           /\ \A role \in Hubs!Roles : [server EXCEPT !.hubs[h].role = role] \in HubsServer
           /\ [server EXCEPT !.hubs = DropFrom(server.hubs, h)] \in HubsServer
<1>1. server.hubs \in [DOMAIN server.hubs -> HubsHub] /\ DOMAIN server.hubs \subseteq HubIds
  BY HubsPage, MapFacts DEF HubsList
<1>2. ASSUME NEW hub \in HubsHub
      PROVE  [server EXCEPT !.hubs = [server.hubs EXCEPT ![h] = hub]] \in HubsServer
  <2> DEFINE hubs == [server.hubs EXCEPT ![h] = hub]
  <2>1. hubs \in [DOMAIN server.hubs -> HubsHub]
    BY <1>1
  <2>2. hubs \in HubsList
    BY <1>1, <2>1, MapIs DEF HubsList
  <2> HIDE DEF hubs
  <2>3. [server EXCEPT !.hubs = hubs] \in HubsServer
    BY <2>2, HubsPage DEF HubsServer
  <2> QED
    BY <2>3 DEF hubs
<1>3. server.hubs[h] \in HubsHub
  BY <1>1
<1>4. ASSUME NEW archived \in BOOLEAN
      PROVE  [server EXCEPT !.hubs[h].archived = archived] \in HubsServer
  <2>1. [server.hubs[h] EXCEPT !.archived = archived] \in HubsHub
    BY <1>3 DEF HubsHub
  <2> QED
    BY <1>2, <2>1
<1>5. ASSUME NEW role \in Hubs!Roles
      PROVE  [server EXCEPT !.hubs[h].role = role] \in HubsServer
  <2>1. [server.hubs[h] EXCEPT !.role = role] \in HubsHub
    BY <1>3 DEF HubsHub
  <2> QED
    BY <1>2, <2>1
<1>6. [server EXCEPT !.hubs = DropFrom(server.hubs, h)] \in HubsServer
  <2> DEFINE hubs == DropFrom(server.hubs, h)
  <2>1. hubs \in HubsList
    BY HubsPage, DropFacts DEF HubsList
  <2> HIDE DEF hubs
  <2>2. [server EXCEPT !.hubs = hubs] \in HubsServer
    BY <2>1, HubsPage DEF HubsServer
  <2> QED
    BY <2>2 DEF hubs
<1> QED
  BY <1>4, <1>5, <1>6

LEMMA HubsServes ==
    ASSUME HubsIInv, Hubs!Serve(Hubs!Refused, Hubs!Effect, Hubs!Reply) \/ Hubs!Repeat(Hubs!Refused, Hubs!Effect)
    PROVE  HubsIInv'
<1>1. PICK r \in net :
        \/ HubsMoved(r, Failed, server)
        \/ ~Hubs!Refused(r) /\ \E got \in {Waiting, Failed, Hubs!Reply(r)} : HubsMoved(r, got, Hubs!Effect(r))
  BY HubsPage, HubsActs
<1> DEFINE reply == Hubs!Reply(r)
           effect == Hubs!Effect(r)
<1>2. r.ask \in HubsAsks /\ r.id \in Int
  BY HubsPage DEF HubsSent
<1>3. ~Hubs!Refused(r) =>
        /\ r.ask.op = "list" => reply \in HubsList
        /\ r.ask.op = "get" => reply \in HubsHub
        /\ reply \in HubsGots
  <2> SUFFICES ASSUME ~Hubs!Refused(r)
               PROVE  /\ r.ask.op = "list" => reply \in HubsList
                      /\ r.ask.op = "get" => reply \in HubsHub
                      /\ reply \in HubsGots
    OBVIOUS
  <2>1. CASE r.ask.op = "list"
    BY <2>1, HubsPage DEF Hubs!Reply, HubsGots
  <2>2. CASE r.ask.op = "get"
    <3>1. r.ask.hub \in DOMAIN server.hubs
      BY <2>2 DEF Hubs!Refused, Hubs!Known
    <3>2. server.hubs \in [DOMAIN server.hubs -> HubsHub]
      BY HubsPage, MapFacts DEF HubsList
    <3> QED
      BY <2>2, <3>1, <3>2 DEF Hubs!Reply, HubsGots
  <2>3. CASE r.ask.op \notin {"list", "get"}
    <3>1. reply = r.id
      BY <2>3 DEF Hubs!Reply
    <3> QED
      BY <1>2, <2>3, <3>1 DEF HubsGots
  <2> QED
    BY <2>1, <2>2, <2>3
<1>4. ~Hubs!Refused(r) => effect \in HubsServer
  <2> SUFFICES ASSUME ~Hubs!Refused(r) PROVE effect \in HubsServer
    OBVIOUS
  <2>1. CASE r.ask.op \in {"archive", "unarchive", "delete"}
    <3>1. r.ask.hub \in DOMAIN server.hubs
      BY <2>1 DEF Hubs!Refused, Hubs!MayWrite, Hubs!Known
    <3>2. \/ effect = [server EXCEPT !.hubs[r.ask.hub].archived = TRUE]
          \/ effect = [server EXCEPT !.hubs[r.ask.hub].archived = FALSE]
          \/ effect = [server EXCEPT !.hubs = DropFrom(server.hubs, r.ask.hub)]
      BY <2>1 DEF Hubs!Effect, Hubs!Drop, DropFrom
    <3> QED
      BY <3>1, <3>2, HubsHubChanges
  <2>2. CASE r.ask.op \notin {"archive", "unarchive", "delete"}
    BY <2>2, HubsPage DEF Hubs!Effect
  <2> QED
    BY <2>1, <2>2
<1>5. {Waiting, Failed} \subseteq HubsGots /\ server \in HubsServer
  BY HubsPage DEF HubsGots
<1> HIDE DEF reply, effect
<1>6. CASE HubsMoved(r, Failed, server)
  BY <1>5, <1>6, HubsServeStep
<1>7. ASSUME ~Hubs!Refused(r), NEW got \in {Waiting, Failed, reply}, HubsMoved(r, got, effect)
      PROVE  HubsIInv'
  BY <1>3, <1>4, <1>5, <1>7, HubsServeStep
<1> QED
  BY <1>1, <1>6, <1>7 DEF reply, effect

\* Others write.
LEMMA HubsOthersStep == ASSUME HubsIInv, NEW h \in HubIds, Hubs!OthersChange(h) PROVE HubsIInv'
<1> DEFINE Once(held) == [held EXCEPT !.changes = 1]
<1>1. ASSUME NEW held \in HubsServer
      PROVE  Once(held) \in HubsServer
  <2> DEFINE one == 1
  <2>1. one \in Int /\ Once(held) = [held EXCEPT !.changes = one]
    OBVIOUS
  <2> HIDE DEF one, Once
  <2> QED
    BY <2>1 DEF HubsServer
<1>2. h \in DOMAIN server.hubs /\ UNCHANGED <<ui, net, sent>>
  BY DEF Hubs!OthersChange
<1>3. server' \in HubsServer
  <2>1. \/ \E role \in {"viewer", "contributor", "maintainer"} : server' = Once([server EXCEPT !.hubs[h].role = role])
        \/ server' = Once([server EXCEPT !.hubs[h].archived = TRUE])
        \/ server' = Once([server EXCEPT !.hubs = DropFrom(server.hubs, h)])
    BY DEF Hubs!OthersChange, Hubs!Drop, DropFrom
  <2>2. {"viewer", "contributor", "maintainer"} \subseteq Hubs!Roles
    BY DEF Hubs!Roles, Hubs!Ladder
  <2> HIDE DEF Once
  <2> QED
    BY <1>1, <1>2, <2>1, <2>2, HubsHubChanges
<1> QED
  BY <1>2, <1>3 DEF HubsIInv, HubsTypeInv, HubsShellInv, HubsBusyInv

LEMMA HubsNextIInv == HubsIInv /\ [Hubs!Next]_(Hubs!vars) => HubsIInv'
<1> SUFFICES ASSUME HubsIInv, [Hubs!Next]_(Hubs!vars) PROVE HubsIInv'
  OBVIOUS
<1>1. CASE UNCHANGED Hubs!vars
  <2>1. UNCHANGED <<ui, net, server, sent>>
    BY <1>1 DEF Hubs!vars
  <2> QED
    BY <2>1 DEF HubsIInv, HubsTypeInv, HubsShellInv, HubsBusyInv
<1>2. CASE Hubs!Next
  <2>1. \/ Hubs!Retry \/ Hubs!RetryHub \/ Hubs!DeleteThisHub
        \/ Hubs!Leave
        \/ \E h \in HubIds : \/ Hubs!ToggleArchive(h) \/ Hubs!DeleteHub(h)
                             \/ Hubs!OpenHub(h) \/ Hubs!SwitchTo(h) \/ Hubs!OthersChange(h)
        \/ \E r \in net : Hubs!ListFetched(r) \/ Hubs!WrittenFromDirectory(r) \/ Hubs!HubFetched(r) \/ Hubs!ThisHubDeleted(r)
        \/ Hubs!Serve(Hubs!Refused, Hubs!Effect, Hubs!Reply) \/ Hubs!Repeat(Hubs!Refused, Hubs!Effect)
    BY <1>2 DEF Hubs!Next
  <2> QED
    BY <2>1, HubsButtonStep, HubsLeft, HubsEnterStep, HubsOthersStep, HubsListStep, HubsWrittenStep, HubsFetchedStep, HubsServes
<1> QED
  BY <1>1, <1>2
-----------------------------------------------------------------------------
\* A gate and a route agree on every button but those that are named.
LEMMA HubsGates ==
    ASSUME NEW role \in Hubs!Roles, NEW archived \in BOOLEAN, NEW b \in DOMAIN Hubs!Buttons
    PROVE  /\ Hubs!Offered(b, role, archived, Admin) /\ b \notin Hubs!Overpromised => Hubs!Accepted(b, role, archived, Admin)
           /\ ~Hubs!Offered(b, role, archived, Admin) /\ Hubs!Accepted(b, role, archived, Admin) =>
                  b \in Hubs!NeverOffered \/ (b = "deleteHub" /\ archived)
<1> DEFINE L == Hubs!Ladder
           M == Hubs!MinRole
           gate == Hubs!Buttons[b].gate
           needs == Hubs!Buttons[b].needs
           who == IF Admin THEN "owner" ELSE role
<1>1. L["owner"] = 4 /\ L["maintainer"] = 3 /\ L["contributor"] = 2 /\ L["viewer"] = 1
  BY DEF Hubs!Ladder
<1>2. who \in {"owner", "maintainer", "contributor", "viewer"}
  BY DEF Hubs!Roles, Hubs!Ladder
<1>3. /\ M["create_resource"] = "contributor" /\ M["edit_resource"] = "contributor" /\ M["delete_resource"] = "contributor"
      /\ M["manage_datastores"] = "contributor" /\ M["manage_members"] = "maintainer" /\ M["manage_links"] = "maintainer"
      /\ M["archive_hub"] = "maintainer"
      /\ {"create_resource", "edit_resource", "delete_resource", "manage_datastores", "manage_members", "manage_links",
          "archive_hub"} \subseteq Hubs!Mutating
      /\ Hubs!Mutating \subseteq DOMAIN M /\ "update_resource" \notin DOMAIN M
  BY DEF Hubs!MinRole, Hubs!Mutating
<1>4. \/ b = "create" /\ gate = "create_resource" /\ needs = "contributor"
      \/ b = "edit" /\ gate = "edit_resource" /\ needs = "contributor"
      \/ b = "editCase" /\ gate = "update_resource" /\ needs = "contributor"
      \/ b = "deleteCase" /\ gate = "delete_resource" /\ needs = "contributor"
      \/ b = "deleteResource" /\ gate = "delete_resource" /\ needs = "maintainer"
      \/ b = "bindDatastore" /\ gate = "manage_datastores" /\ needs = "maintainer"
      \/ b = "manageMembers" /\ gate = "manage_members" /\ needs = "maintainer"
      \/ b = "manageLinks" /\ gate = "manage_links" /\ needs = "maintainer"
      \/ b = "unarchive" /\ gate = "archive_hub" /\ needs = "owner"
      \/ b = "deleteHub" /\ gate = "archive_hub" /\ needs = "owner"
  BY DEF Hubs!Buttons, Hubs!Button
<1>5. Hubs!Offered(b, role, archived, Admin) <=>
        /\ gate \in DOMAIN M /\ (Admin \/ role # NoRole) /\ L[who] >= L[M[gate]] /\ ~(archived /\ gate \in Hubs!Mutating)
        /\ b = "unarchive" => archived
  BY DEF Hubs!Offered, Hubs!Allowed
<1>6. Hubs!Accepted(b, role, archived, Admin) <=>
        (Admin \/ role # NoRole) /\ L[who] >= L[needs] /\ (archived => b \in {"unarchive", "deleteHub"})
  BY DEF Hubs!Accepted
<1> HIDE DEF L, M, gate, needs, who
<1> QED
  BY <1>1, <1>2, <1>3, <1>4, <1>5, <1>6 DEF Hubs!Overpromised, Hubs!NeverOffered

LEMMA HubsShown ==
    HubsIInv => Hubs!TypeOK /\ Hubs!BusyHasCause /\ Hubs!ShellShowsItsHub /\ Hubs!OfferedIsAccepted
<1> SUFFICES ASSUME HubsIInv
             PROVE  Hubs!TypeOK /\ Hubs!BusyHasCause /\ Hubs!ShellShowsItsHub /\ Hubs!OfferedIsAccepted
  OBVIOUS
<1>1. Hubs!TypeOK
  <2>1. ui.hubs \in HubsList /\ ui.screen \in {"directory", "hub"}
    BY HubsPage DEF HubsApp
  <2>2. DOMAIN server.hubs \subseteq HubIds /\ DOMAIN ui.hubs \subseteq HubIds
    BY <2>1, HubsPage, MapFacts DEF HubsList
  <2> QED
    BY <2>1, <2>2 DEF HubsIInv, HubsShellInv, Hubs!TypeOK
<1>2. Hubs!BusyHasCause
  BY DEF HubsIInv, HubsBusyInv, Hubs!BusyHasCause, Hubs!Out
<1>3. Hubs!ShellShowsItsHub
  BY DEF HubsIInv, HubsShellInv, Hubs!ShellShowsItsHub
<1>4. Hubs!OfferedIsAccepted
  <2> SUFFICES ASSUME Hubs!Shown, NEW b \in DOMAIN Hubs!Buttons
               PROVE  /\ Hubs!Can(b) /\ b \notin Hubs!Overpromised => Hubs!Accepted(b, ui.hub.is.role, ui.hub.is.archived, Admin)
                      /\ ~Hubs!Can(b) /\ Hubs!Accepted(b, ui.hub.is.role, ui.hub.is.archived, Admin) =>
                              b \in Hubs!NeverOffered \/ (b = "deleteHub" /\ ui.hub.is.archived)
    BY DEF Hubs!OfferedIsAccepted
  <2>1. ui.hub.is \in HubsHub
    BY HubsPage DEF HubsApp, Hubs!Shown
  <2>2. ui.hub.is.role \in Hubs!Roles /\ ui.hub.is.archived \in BOOLEAN
    BY <2>1 DEF HubsHub
  <2>3. Hubs!Can(b) <=> Hubs!Offered(b, ui.hub.is.role, ui.hub.is.archived, Admin)
    BY DEF Hubs!Can
  <2> QED
    BY <2>2, <2>3, HubsGates
<1> QED
  BY <1>1, <1>2, <1>3, <1>4
-----------------------------------------------------------------------------
(* Hubs: what the directory shows is current. *)

HubsFreshInv ==
    ~raced =>
    /\ \A r \in net : OnTime(r) /\ r.ask.op = "list" => r.got = server.hubs
    /\ \/ ui.listStatus = "error"
       \/ ui.hubs = server.hubs
       \/ \E r \in net : r.ask.op = "list" \/ (r.ask.op # "get" /\ Acted(r))

LEMMA HubsRaces ==
    ASSUME NEW r, NEW asks
    PROVE  /\ Hubs!Send(asks) => UNCHANGED <<server, raced>>
           /\ Hubs!Go(r, asks) => UNCHANGED server /\ raced' = (raced \/ (r.late /\ r.got # Failed))
           /\ Hubs!Done(r) => UNCHANGED server /\ raced' = (raced \/ (r.late /\ r.got # Failed))
BY DEF Hubs!Send, Hubs!Done, Hubs!Go

\* What others find when the gateway serves a request, which becomes to.
LEMMA HubsMovesLate ==
    ASSUME NEW r \in net, NEW to \in HubsSent, NEW held, net \subseteq HubsSent, Hubs!Moves(r, to, held)
    PROVE  \E new \in [net -> HubsSent] :
              /\ net' = {new[q] : q \in net} /\ server' = held /\ UNCHANGED ui
              /\ new[r] = to
              /\ \A q \in net : q # r => /\ new[q].id = q.id /\ new[q].ask = q.ask /\ new[q].got = q.got /\ new[q].acts = q.acts
                                         /\ new[q].late = (q.got # Waiting /\ (q.late \/ held # server))
<1>1. net' = {IF q = r THEN to ELSE [q EXCEPT !.late = q.got # Waiting /\ (@ \/ held # server)] : q \in net}
  BY DEF Hubs!Moves
<1> DEFINE Late(q) == q.got # Waiting /\ (q.late \/ held # server)
           New(q) == IF q = r THEN to ELSE [q EXCEPT !.late = Late(q)]
           new == [q \in net |-> New(q)]
<1>2. ASSUME NEW q \in net
      PROVE  /\ New(q) \in HubsSent /\ (q = r => New(q) = to)
             /\ q # r => /\ New(q).id = q.id /\ New(q).ask = q.ask /\ New(q).got = q.got /\ New(q).acts = q.acts
                         /\ New(q).late = Late(q)
  <2>1. q \in HubsSent /\ Late(q) \in BOOLEAN
    OBVIOUS
  <2> HIDE DEF Late
  <2> QED
    BY <2>1 DEF HubsSent
<1>3. net' = {New(q) : q \in net}
  BY <1>1
<1>4. \A q \in net : q # r => New(q).late = (q.got # Waiting /\ (q.late \/ held # server))
  BY <1>2
<1> HIDE DEF New
<1>5. new \in [net -> HubsSent] /\ \A q \in net : new[q] = New(q)
  BY <1>2
<1>6. net' = {new[q] : q \in net}
  BY <1>3, <1>5
<1> HIDE DEF new
<1>7. server' = held /\ UNCHANGED ui
  BY DEF Hubs!Moves
<1> QED
  BY <1>2, <1>4, <1>5, <1>6, <1>7

LEMMA HubsSettlesLate ==
    ASSUME NEW r \in net, NEW got, got \in HubsGots, NEW held, net \subseteq HubsSent, Hubs!Settle(r, got, held)
    PROVE  sent' = sent /\ server' = held /\ \E new \in [net -> HubsSent] : Serves(r, new) /\ new[r].got = got /\ new[r].id = r.id
<1> DEFINE to == [r EXCEPT !.got = got]
<1>1. r \in HubsSent
  OBVIOUS
<1>2. to \in HubsSent /\ to.ask = r.ask /\ to.got = got /\ to.late = r.late /\ to.id = r.id /\ to.acts = r.acts
  BY <1>1 DEF HubsSent
<1>3. Hubs!Moves(r, to, held) /\ sent' = sent
  BY DEF Hubs!Settle
<1> HIDE DEF to
<1>4. PICK new \in [net -> HubsSent] :
              /\ net' = {new[q] : q \in net} /\ server' = held /\ UNCHANGED ui
              /\ new[r] = to
              /\ \A q \in net : q # r => /\ new[q].id = q.id /\ new[q].ask = q.ask /\ new[q].got = q.got /\ new[q].acts = q.acts
                                         /\ new[q].late = (q.got # Waiting /\ (q.late \/ held # server))
  BY <1>2, <1>3, HubsMovesLate
<1>5. server' = held
  BY <1>4
<1>6. Serves(r, new)
  BY <1>2, <1>4 DEF Serves
<1> QED
  BY <1>2, <1>3, <1>4, <1>5, <1>6

LEMMA HubsRepeatsLate ==
    ASSUME NEW r \in net, NEW acts \in Nat, acts # 0, NEW held, net \subseteq HubsSent, sent \in Nat, Hubs!SentAgain(r, acts, r.ask, held)
    PROVE  /\ server' = held /\ sent' = sent + 1 /\ raced' = raced
           /\ \E new \in [net -> HubsSent] : Serves(r, new) /\ new[r].got = Waiting /\ new[r].acts = acts
<1> DEFINE req == Hubs!Request(sent + 1, r.ask)
           to == [req EXCEPT !.acts = acts]
<1>1. req \in HubsSent /\ req.ask = r.ask /\ req.got = Waiting /\ req.late = FALSE
  <2>1. r.ask \in HubsAsks
    BY DEF HubsSent
  <2>2. Waiting \in HubsGots
    BY DEF HubsGots
  <2> QED
    BY <2>1, <2>2 DEF HubsSent, Hubs!Request
<1>2. Hubs!Moves(r, to, held) /\ sent' = sent + 1 /\ raced' = raced
  BY DEF Hubs!SentAgain
<1> HIDE DEF req
<1>3. to \in HubsSent /\ to.ask = r.ask /\ to.got = Waiting /\ to.late = FALSE /\ to.acts = acts
  BY <1>1 DEF HubsSent
<1> HIDE DEF to
<1>4. PICK new \in [net -> HubsSent] :
              /\ net' = {new[q] : q \in net} /\ server' = held /\ UNCHANGED ui
              /\ new[r] = to
              /\ \A q \in net : q # r => /\ new[q].id = q.id /\ new[q].ask = q.ask /\ new[q].got = q.got /\ new[q].acts = q.acts
                                         /\ new[q].late = (q.got # Waiting /\ (q.late \/ held # server))
  BY <1>2, <1>3, HubsMovesLate
<1>5. server' = held
  BY <1>4
<1>6. Serves(r, new)
  BY <1>3, <1>4 DEF Serves
<1> QED
  BY <1>2, <1>3, <1>4, <1>5, <1>6

LEMMA HubsServing ==
    ASSUME net \subseteq HubsSent, sent \in Nat, Hubs!Serve(Hubs!Refused, Hubs!Effect, Hubs!Reply) \/ Hubs!Repeat(Hubs!Refused, Hubs!Effect),
           \A r \in net : ~Hubs!Refused(r) => Hubs!Reply(r) \in HubsGots
    PROVE  \E r \in net : \E new \in [net -> HubsSent] :
              /\ r.got = Waiting /\ Serves(r, new)
              /\ \/ /\ ~Hubs!Refused(r) /\ new[r].got = Hubs!Reply(r) /\ server' = Hubs!Effect(r) /\ raced' = raced
                    /\ sent' = sent /\ new[r].id = r.id
                 \/ /\ new[r].got = Failed /\ server' = server /\ raced' = (raced \/ r.acts # 0)
                    /\ sent' = sent /\ new[r].id = r.id
                 \/ /\ ~Hubs!Refused(r) /\ new[r].got = Failed /\ server' = Hubs!Effect(r) /\ raced' = TRUE
                    /\ sent' = sent /\ new[r].id = r.id
                 \/ /\ ~Hubs!Refused(r) /\ new[r].got = Waiting /\ new[r].acts # 0 /\ server' = Hubs!Effect(r) /\ raced' = raced
                    /\ sent' = sent + 1 /\ server' # server
<1>1. Failed \in HubsGots
  BY DEF HubsGots
<1>2. CASE Hubs!Serve(Hubs!Refused, Hubs!Effect, Hubs!Reply)
  <2>1. PICK r \in net : /\ r.got = Waiting
                         /\ \/ ~Hubs!Refused(r) /\ Hubs!Settle(r, Hubs!Reply(r), Hubs!Effect(r)) /\ raced' = raced
                            \/ Hubs!Settle(r, Failed, server) /\ raced' = (raced \/ r.acts # 0)
                            \/ ~Hubs!Refused(r) /\ Hubs!Settle(r, Failed, Hubs!Effect(r)) /\ raced' = TRUE
    BY <1>2 DEF Hubs!Serve, Hubs!ServeOne
  <2>2. CASE ~Hubs!Refused(r) /\ Hubs!Settle(r, Hubs!Reply(r), Hubs!Effect(r)) /\ raced' = raced
    BY <2>1, <2>2, HubsSettlesLate
  <2>3. CASE Hubs!Settle(r, Failed, server) /\ raced' = (raced \/ r.acts # 0)
    BY <1>1, <2>1, <2>3, HubsSettlesLate
  <2>4. CASE ~Hubs!Refused(r) /\ Hubs!Settle(r, Failed, Hubs!Effect(r)) /\ raced' = TRUE
    <3> DEFINE held == Hubs!Effect(r)
    <3>1. Hubs!Settle(r, Failed, held)
      BY <2>4
    <3> HIDE DEF held
    <3>2. sent' = sent /\ server' = held /\ \E new \in [net -> HubsSent] : Serves(r, new) /\ new[r].got = Failed /\ new[r].id = r.id
      BY <1>1, <3>1, HubsSettlesLate
    <3> QED
      BY <2>1, <2>4, <3>2 DEF held
  <2> QED
    BY <2>1, <2>2, <2>3, <2>4
<1>3. CASE Hubs!Repeat(Hubs!Refused, Hubs!Effect)
  <2>1. PICK r \in net : /\ r.got = Waiting /\ ~Hubs!Refused(r) /\ Hubs!Effect(r) # server
                         /\ Hubs!SentAgain(r, r.acts + 1, r.ask, Hubs!Effect(r))
    BY <1>3 DEF Hubs!Repeat, Hubs!RepeatOne, Hubs!Same
  <2> DEFINE held == Hubs!Effect(r)
             acts == r.acts + 1
  <2>2. acts \in Nat /\ acts # 0
    BY DEF HubsSent
  <2>3. Hubs!SentAgain(r, acts, r.ask, held)
    BY <2>1
  <2> HIDE DEF held, acts
  <2>4. /\ server' = held /\ sent' = sent + 1 /\ raced' = raced
        /\ \E new \in [net -> HubsSent] : Serves(r, new) /\ new[r].got = Waiting /\ new[r].acts = acts
    BY <2>2, <2>3, HubsRepeatsLate
  <2> QED
    BY <2>1, <2>2, <2>4 DEF held
<1> QED
  BY <1>2, <1>3

\* The same as long as nothing that the page was told is out of date.
LEMMA HubsServingOnTime ==
    ASSUME net \subseteq HubsSent, sent \in Nat, Hubs!Serve(Hubs!Refused, Hubs!Effect, Hubs!Reply) \/ Hubs!Repeat(Hubs!Refused, Hubs!Effect), ~raced',
           \A r \in net : ~Hubs!Refused(r) => Hubs!Reply(r) \in HubsGots
    PROVE  \E r \in net : \E new \in [net -> HubsSent] :
              /\ r.got = Waiting /\ Serves(r, new) /\ ~raced
              /\ \/ /\ ~Hubs!Refused(r) /\ new[r].got = Hubs!Reply(r) /\ server' = Hubs!Effect(r)
                    /\ sent' = sent /\ new[r].id = r.id
                 \/ /\ new[r].got = Failed /\ server' = server /\ r.acts = 0
                    /\ sent' = sent /\ new[r].id = r.id
                 \/ /\ ~Hubs!Refused(r) /\ new[r].got = Waiting /\ new[r].acts # 0 /\ server' = Hubs!Effect(r)
                    /\ sent' = sent + 1 /\ server' # server
<1> DEFINE Answered(r, new) == /\ ~Hubs!Refused(r) /\ new[r].got = Hubs!Reply(r) /\ server' = Hubs!Effect(r)
                               /\ sent' = sent /\ new[r].id = r.id
           Unheard(r, new) == new[r].got = Failed /\ server' = server /\ sent' = sent /\ new[r].id = r.id
           Again(r, new) == /\ ~Hubs!Refused(r) /\ new[r].got = Waiting /\ new[r].acts # 0 /\ server' = Hubs!Effect(r)
                            /\ sent' = sent + 1 /\ server' # server
<1>1. PICK r \in net : \E new \in [net -> HubsSent] :
              /\ r.got = Waiting /\ Serves(r, new)
              /\ \/ Answered(r, new) /\ raced' = raced
                 \/ Unheard(r, new) /\ raced' = (raced \/ r.acts # 0)
                 \/ raced' = TRUE
                 \/ Again(r, new) /\ raced' = raced
  BY HubsServing
<1>2. PICK new \in [net -> HubsSent] :
              /\ r.got = Waiting /\ Serves(r, new)
              /\ \/ Answered(r, new) /\ raced' = raced
                 \/ Unheard(r, new) /\ raced' = (raced \/ r.acts # 0)
                 \/ raced' = TRUE
                 \/ Again(r, new) /\ raced' = raced
  BY <1>1
<1> HIDE DEF Answered, Unheard, Again
<1>3. ~raced /\ (Answered(r, new) \/ (Unheard(r, new) /\ r.acts = 0) \/ Again(r, new))
  <2>1. CASE Answered(r, new) /\ raced' = raced
    BY <2>1
  <2>2. CASE Unheard(r, new) /\ raced' = (raced \/ r.acts # 0)
    <3> DEFINE acted == r.acts # 0
    <3>1. raced' = (raced \/ acted)
      BY <2>2
    <3> HIDE DEF acted
    <3>2. ~raced /\ ~acted
      BY <3>1
    <3> QED
      BY <2>2, <3>2 DEF acted
  <2>3. CASE Again(r, new) /\ raced' = raced
    BY <2>3
  <2>4. CASE raced' = TRUE
    BY <2>4
  <2> QED
    BY <1>2, <2>1, <2>2, <2>3, <2>4
<1> QED
  BY <1>2, <1>3 DEF Answered, Unheard, Again

LEMMA HubsInitFresh == Hubs!Init => HubsFreshInv
<1> SUFFICES ASSUME Hubs!Init PROVE HubsFreshInv
  OBVIOUS
<1>1. net = {Hubs!Request(i, <<[op |-> "list"]>>[i]) : i \in DOMAIN <<[op |-> "list"]>>}
  BY DEF Hubs!Init, Hubs!Started
<1>2. net = {FirstRequest(1, [op |-> "list"])}
  BY <1>1, StartedWithOne DEF Hubs!Request
<1>3. FirstRequest(1, [op |-> "list"]).ask.op = "list" /\ FirstRequest(1, [op |-> "list"]).got = Waiting
  BY DEF FirstRequest
<1> QED
  BY <1>2, <1>3 DEF HubsFreshInv, OnTime, Served

\* A request goes out; the list says that it loads only if it is what is asked for.
LEMMA HubsSendFresh ==
    ASSUME HubsFreshInv, NEW ask, Hubs!Send(<<ask>>), ui'.hubs = ui.hubs,
           ask.op = "list" \/ ui'.listStatus = ui.listStatus
    PROVE  HubsFreshInv'
<1>1. UNCHANGED <<server, raced>> /\ net' = net \cup {NewRequest(sent, ask)}
  BY HubsRaces, HubsAsks1
<1>2. NewRequest(sent, ask).ask = ask /\ ~OnTime(NewRequest(sent, ask))
  BY NewIsWaiting
<1> QED
  BY <1>1, <1>2 DEF HubsFreshInv, OnTime, Served

LEMMA HubsAskFresh ==
    ASSUME HubsIInv, HubsFreshInv,
           \/ Hubs!Retry \/ Hubs!RetryHub \/ Hubs!Leave \/ Hubs!DeleteThisHub
           \/ \E h \in HubIds : Hubs!ToggleArchive(h) \/ Hubs!DeleteHub(h) \/ Hubs!OpenHub(h) \/ Hubs!SwitchTo(h)
    PROVE  HubsFreshInv'
<1>1. \/ ui' = [ui EXCEPT !.listStatus = "loading"] /\ Hubs!Send(<<[op |-> "list"]>>)
      \/ ui' = Hubs!Directory(ui) /\ Hubs!Send(<<[op |-> "list"]>>)
      \/ (ui' = ui \/ ui' = [ui EXCEPT !.status = "loading"] \/ \E h \in HubIds : ui' = Hubs!Enter(h, ui))
         /\ \E ask : Hubs!Send(<<ask>>)
  BY DEF Hubs!Retry, Hubs!RetryHub, Hubs!Leave, Hubs!DeleteThisHub, Hubs!ToggleArchive, Hubs!DeleteHub, Hubs!OpenHub,
         Hubs!SwitchTo
<1>2. ui'.hubs = ui.hubs
  BY <1>1, HubsPage DEF HubsApp, Hubs!Enter, Hubs!Directory
<1>3. CASE Hubs!Send(<<[op |-> "list"]>>)
  BY <1>2, <1>3, HubsSendFresh
<1>4. CASE (ui' = ui \/ ui' = [ui EXCEPT !.status = "loading"] \/ \E h \in HubIds : ui' = Hubs!Enter(h, ui))
           /\ \E ask : Hubs!Send(<<ask>>)
  <2>1. ui'.listStatus = ui.listStatus
    BY <1>4, HubsPage DEF HubsApp, Hubs!Enter
  <2> QED
    BY <1>2, <1>4, <2>1, HubsSendFresh
<1> QED
  BY <1>1, <1>3, <1>4

LEMMA HubsAnswerFresh ==
    ASSUME HubsIInv, HubsFreshInv, NEW r \in net,
           Hubs!ListFetched(r) \/ Hubs!WrittenFromDirectory(r) \/ Hubs!HubFetched(r) \/ Hubs!ThisHubDeleted(r)
    PROVE  HubsFreshInv'
<1> SUFFICES ASSUME ~raced' PROVE HubsFreshInv'
  BY DEF HubsFreshInv
<1> DEFINE ask == [op |-> "list"]
<1>1. \/ /\ r.ask.op = "list" /\ r.got # Waiting /\ Hubs!Done(r)
         /\ ui' = IF r.got = Failed THEN [ui EXCEPT !.listStatus = "error"]
                  ELSE [ui EXCEPT !.hubs = r.got, !.listStatus = "ready"]
      \/ /\ r.ask.op # "list" /\ Hubs!Done(r) /\ (r.got = Failed \/ r.ask.op = "get")
         /\ ui'.hubs = ui.hubs /\ ui'.listStatus = ui.listStatus
      \/ Hubs!Go(r, <<ask>>)
  <2>1. ASSUME Hubs!HubFetched(r) PROVE ui'.hubs = ui.hubs /\ ui'.listStatus = ui.listStatus
    BY <2>1, HubsPage DEF HubsApp, Hubs!HubFetched
  <2> QED
    BY <2>1 DEF Hubs!ListFetched, Hubs!WrittenFromDirectory, Hubs!HubFetched, Hubs!ThisHubDeleted, Hubs!Came
<1>2. UNCHANGED server /\ ~raced /\ ~(r.late /\ r.got # Failed)
  BY <1>1, HubsRaces
<1> HIDE DEF ask
<1>3. CASE /\ r.ask.op = "list" /\ r.got # Waiting /\ Hubs!Done(r)
           /\ ui' = IF r.got = Failed THEN [ui EXCEPT !.listStatus = "error"]
                    ELSE [ui EXCEPT !.hubs = r.got, !.listStatus = "ready"]
  <2>1. net' = net \ {r}
    BY <1>3, HubsPage, HubsEnds
  <2>2. ui'.listStatus = "error" \/ (OnTime(r) /\ ui'.hubs = r.got)
    BY <1>2, <1>3, HubsPage DEF HubsApp, OnTime, Served
  <2> QED
    BY <1>2, <1>3, <2>1, <2>2 DEF HubsFreshInv
<1>4. CASE /\ r.ask.op # "list" /\ Hubs!Done(r) /\ (r.got = Failed \/ r.ask.op = "get")
           /\ ui'.hubs = ui.hubs /\ ui'.listStatus = ui.listStatus
  <2>1. net' = net \ {r}
    BY <1>4, HubsPage, HubsEnds
  <2> QED
    BY <1>2, <1>4, <2>1 DEF HubsFreshInv, Acted
<1>5. CASE Hubs!Go(r, <<ask>>)
  <2>1. net' = (net \ {r}) \cup {NewRequest(sent, ask)}
    BY <1>5, HubsAsks1
  <2>2. NewRequest(sent, ask).ask = ask /\ ~OnTime(NewRequest(sent, ask)) /\ ask.op = "list"
    BY NewIsWaiting DEF ask
  <2> QED
    BY <1>2, <2>1, <2>2 DEF HubsFreshInv
<1> QED
  BY <1>1, <1>3, <1>4, <1>5

LEMMA HubsReplies == ASSUME HubsIInv, NEW r \in net, ~Hubs!Refused(r) PROVE Hubs!Reply(r) \in HubsGots
<1>1. CASE r.ask.op = "list"
  BY <1>1, HubsPage DEF Hubs!Reply, HubsGots
<1>2. CASE r.ask.op = "get"
  <2>1. r.ask.hub \in DOMAIN server.hubs
    BY <1>2 DEF Hubs!Refused, Hubs!Known
  <2>2. server.hubs[r.ask.hub] \in HubsHub
    BY <2>1, HubsPage, MapFacts DEF HubsList
  <2> QED
    BY <1>2, <2>2 DEF Hubs!Reply, HubsGots
<1>3. CASE r.ask.op \notin {"list", "get"}
  BY <1>3, HubsPage DEF Hubs!Reply, HubsGots, HubsSent
<1> QED
  BY <1>1, <1>2, <1>3

LEMMA HubsServesFresh ==
    ASSUME HubsIInv, HubsFreshInv,
           Hubs!Serve(Hubs!Refused, Hubs!Effect, Hubs!Reply) \/ Hubs!Repeat(Hubs!Refused, Hubs!Effect)
    PROVE  HubsFreshInv'
<1> SUFFICES ASSUME ~raced' PROVE HubsFreshInv'
  BY DEF HubsFreshInv
<1>1. PICK r \in net : \E new \in [net -> HubsSent] :
              /\ r.got = Waiting /\ Serves(r, new) /\ ~raced
              /\ \/ ~Hubs!Refused(r) /\ new[r].got = Hubs!Reply(r) /\ server' = Hubs!Effect(r)
                 \/ new[r].got = Failed /\ server' = server /\ r.acts = 0
                 \/ ~Hubs!Refused(r) /\ new[r].got = Waiting /\ new[r].acts # 0 /\ server' = Hubs!Effect(r)
  BY HubsPage, HubsReplies, HubsServingOnTime
<1>2. PICK new \in [net -> HubsSent] :
              /\ r.got = Waiting /\ Serves(r, new) /\ ~raced
              /\ \/ ~Hubs!Refused(r) /\ new[r].got = Hubs!Reply(r) /\ server' = Hubs!Effect(r)
                 \/ new[r].got = Failed /\ server' = server /\ r.acts = 0
                 \/ ~Hubs!Refused(r) /\ new[r].got = Waiting /\ new[r].acts # 0 /\ server' = Hubs!Effect(r)
  BY <1>1
<1>3. ui' = ui /\ net' = {new[q] : q \in net}
  BY <1>2 DEF Serves
<1>4. /\ r.ask.op = "list" => Hubs!Reply(r) = server.hubs
      /\ r.ask.op \in {"list", "get"} => Hubs!Effect(r) = server
  BY DEF Hubs!Reply, Hubs!Effect
<1>5. r.ask.op \notin {"list", "get"} => Hubs!Reply(r) = r.id /\ r.id \in Int
  BY HubsPage DEF Hubs!Reply, HubsSent
<1>6. ASSUME NEW p \in net', OnTime(p), p.ask.op = "list"
      PROVE  p.got = server'.hubs
  <2>1. PICK q \in net : p = new[q]
    BY <1>3
  <2>2. CASE q = r
    BY <1>2, <1>4, <1>6, <2>1, <2>2 DEF OnTime, Served, Serves
  <2>3. CASE q # r
    <3>1. OnTime(q) /\ server' = server /\ q.ask = p.ask /\ q.got = p.got
      BY <1>2, <1>6, <2>1, <2>3, OnTimeAfter
    <3> QED
      BY <1>2, <1>6, <3>1 DEF HubsFreshInv
  <2> QED
    BY <2>2, <2>3
<1>7. \/ ui'.listStatus = "error"
      \/ ui'.hubs = server'.hubs
      \/ \E p \in net' : p.ask.op = "list" \/ (p.ask.op # "get" /\ Acted(p))
  <2>1. CASE ui.listStatus = "error" \/ (server' = server /\ ui.hubs = server.hubs)
    BY <1>3, <2>1
  <2>2. ASSUME NEW q \in net, q.ask.op = "list" \/ (q.ask.op # "get" /\ Acted(q))
        PROVE  \E p \in net' : p.ask.op = "list" \/ (p.ask.op # "get" /\ Acted(p))
    <3>1. new[q] \in net' /\ new[q].ask = q.ask /\ (q # r => new[q].got = q.got /\ new[q].acts = q.acts)
      BY <1>2, <1>3 DEF Serves
    <3>2. CASE q # r \/ q.ask.op = "list"
      BY <2>2, <3>1, <3>2 DEF Acted
    <3>3. CASE q = r /\ r.ask.op \notin {"list", "get"} /\ Acted(r)
      <4>1. r.acts # 0
        BY <1>1, <3>3 DEF Acted
      <4>2. Acted(new[r])
        BY <1>2, <1>3, <1>5, <3>3, <4>1, RepliesApart DEF Acted
      <4> QED
        BY <3>1, <3>3, <4>2
    <3> QED
      BY <2>2, <3>2, <3>3
  <2>3. CASE server' # server
    <3>1. r.ask.op \notin {"list", "get"} /\ (new[r].got = r.id \/ (new[r].got = Waiting /\ new[r].acts # 0)) /\ r.id \in Int
      BY <1>2, <1>4, <1>5, <2>3
    <3>2. Acted(new[r])
      BY <3>1, RepliesApart DEF Acted
    <3>3. new[r] \in net' /\ new[r].ask = r.ask
      BY <1>2, <1>3 DEF Serves
    <3> QED
      BY <3>1, <3>2, <3>3
  <2> QED
    BY <1>2, <2>1, <2>2, <2>3 DEF HubsFreshInv
<1> QED
  BY <1>6, <1>7 DEF HubsFreshInv

LEMMA HubsNextFresh == HubsIInv /\ HubsFreshInv /\ [Hubs!Next]_(Hubs!vars) => HubsFreshInv'
<1> SUFFICES ASSUME HubsIInv, HubsFreshInv, [Hubs!Next]_(Hubs!vars) PROVE HubsFreshInv'
  OBVIOUS
<1>1. CASE UNCHANGED Hubs!vars
  BY <1>1 DEF Hubs!vars, HubsFreshInv
<1>2. CASE Hubs!Next
  <2>1. \/ Hubs!Retry \/ Hubs!RetryHub \/ Hubs!Leave \/ Hubs!DeleteThisHub
        \/ \E h \in HubIds : Hubs!ToggleArchive(h) \/ Hubs!DeleteHub(h) \/ Hubs!OpenHub(h) \/ Hubs!SwitchTo(h)
        \/ \E h \in HubIds : Hubs!OthersChange(h)
        \/ \E r \in net : Hubs!ListFetched(r) \/ Hubs!WrittenFromDirectory(r) \/ Hubs!HubFetched(r) \/ Hubs!ThisHubDeleted(r)
        \/ Hubs!Serve(Hubs!Refused, Hubs!Effect, Hubs!Reply) \/ Hubs!Repeat(Hubs!Refused, Hubs!Effect)
    BY <1>2 DEF Hubs!Next
  <2>2. \A h : Hubs!OthersChange(h) => HubsFreshInv'
    BY DEF Hubs!OthersChange, HubsFreshInv
  <2> QED
    BY <2>1, <2>2, HubsAskFresh, HubsAnswerFresh, HubsServesFresh
<1> QED
  BY <1>1, <1>2

LEMMA HubsShowFresh == HubsFreshInv => Hubs!Fresh
BY DEF HubsFreshInv, Hubs!Fresh, Hubs!Quiet
-----------------------------------------------------------------------------
(* The console: each page keeps its own invariant while it is open. *)

Routes == {"chat", "hubs", "wizard", "panels", "lists", "runs", "session", "models", "mcp"}
ChatOpen == route = "chat" => ChatIInv /\ ChatBoundsInv /\ ChatWaitsInv
HubsOpen == route = "hubs" => HubsIInv
WizardOpen == route = "wizard" => WizardIInv
PanelsOpen == route = "panels" => PanelsIInv
ListsOpen == route = "lists" => ListsIInv
RunsOpen == route = "runs" => RunsIInv
SessionOpen == route = "session" => SessionIInv /\ SessionWaitsInv
ModelsOpen == route = "models" => ModelsIInv
McpOpen == route = "mcp" => McpIInv
IInv == route \in Routes /\ ChatOpen /\ HubsOpen /\ WizardOpen /\ PanelsOpen /\ ListsOpen
        /\ RunsOpen /\ SessionOpen /\ ModelsOpen /\ McpOpen

LEMMA InitIInv == Init => IInv
<1> SUFFICES ASSUME Init PROVE IInv
  OBVIOUS
<1>1. route \in Routes
  BY DEF Init, Routes
<1>2. ChatOpen
  <2>1. route = "chat" => Chat!Init
    BY DEF Init
  <2> QED
    BY <2>1, ChatInitIInv, ChatInitTail DEF ChatOpen
<1>3. HubsOpen
  <2>1. route = "hubs" => Hubs!Init
    BY DEF Init
  <2> QED
    BY <2>1, HubsInitIInv DEF HubsOpen
<1>4. WizardOpen
  <2>1. route = "wizard" => Wizard!Init
    BY DEF Init
  <2> QED
    BY <2>1, WizardInitIInv DEF WizardOpen
<1>5. PanelsOpen
  <2>1. route = "panels" => Panels!Init
    BY DEF Init
  <2> QED
    BY <2>1, PanelsInitIInv DEF PanelsOpen
<1>6. ListsOpen
  <2>1. route = "lists" => Lists!Init
    BY DEF Init
  <2> QED
    BY <2>1, ListsInitIInv DEF ListsOpen
<1>7. RunsOpen
  <2>1. route = "runs" => Runs!Init
    BY DEF Init
  <2> QED
    BY <2>1, RunsInitIInv DEF RunsOpen
<1>8. SessionOpen
  <2>1. route = "session" => Session!Init
    BY DEF Init
  <2> QED
    BY <2>1, SessionInitIInv, SessionInitWaits DEF SessionOpen
<1>9. ModelsOpen
  <2>1. route = "models" => Models!Init
    BY DEF Init
  <2> QED
    BY <2>1, ModelsInitIInv DEF ModelsOpen
<1>10. McpOpen
  <2>1. route = "mcp" => Mcp!Init
    BY DEF Init
  <2> QED
    BY <2>1, McpInitIInv DEF McpOpen
<1> QED
  BY <1>1, <1>2, <1>3, <1>4, <1>5, <1>6, <1>7, <1>8, <1>9, <1>10 DEF IInv

\* A step of the console is a step of the page that is open.
LEMMA NextIInv == IInv /\ [Next]_vars => IInv'
<1> SUFFICES ASSUME IInv, [Next]_vars PROVE IInv'
  OBVIOUS
<1>1. route' = route
  BY DEF Next, vars
<1>2. (route \in Routes)'
  BY <1>1 DEF IInv, Routes
<1>3. ChatOpen'
  <2> SUFFICES ASSUME route = "chat" PROVE (ChatIInv /\ ChatBoundsInv /\ ChatWaitsInv)'
    BY <1>1 DEF ChatOpen
  <2>1. [Chat!Next]_(Chat!vars)
    BY DEF Next, vars, Chat!vars
  <2>2. ChatIInv /\ ChatBoundsInv /\ ChatWaitsInv
    BY DEF IInv, ChatOpen
  <2> QED
    BY <2>1, <2>2, ChatNextIInv, ChatNextTail
<1>4. HubsOpen'
  <2> SUFFICES ASSUME route = "hubs" PROVE (HubsIInv)'
    BY <1>1 DEF HubsOpen
  <2>1. [Hubs!Next]_(Hubs!vars)
    BY DEF Next, vars, Hubs!vars
  <2>2. HubsIInv
    BY DEF IInv, HubsOpen
  <2> QED
    BY <2>1, <2>2, HubsNextIInv
<1>5. WizardOpen'
  <2> SUFFICES ASSUME route = "wizard" PROVE (WizardIInv)'
    BY <1>1 DEF WizardOpen
  <2>1. [Wizard!Next]_(Wizard!vars)
    BY DEF Next, vars, Wizard!vars
  <2>2. WizardIInv
    BY DEF IInv, WizardOpen
  <2> QED
    BY <2>1, <2>2, WizardNextIInv
<1>6. PanelsOpen'
  <2> SUFFICES ASSUME route = "panels" PROVE (PanelsIInv)'
    BY <1>1 DEF PanelsOpen
  <2>1. [Panels!Next]_(Panels!vars)
    BY DEF Next, vars, Panels!vars
  <2>2. PanelsIInv
    BY DEF IInv, PanelsOpen
  <2> QED
    BY <2>1, <2>2, PanelsNextIInv
<1>7. ListsOpen'
  <2> SUFFICES ASSUME route = "lists" PROVE (ListsIInv)'
    BY <1>1 DEF ListsOpen
  <2>1. [Lists!Next]_(Lists!vars)
    BY DEF Next, vars, Lists!vars
  <2>2. ListsIInv
    BY DEF IInv, ListsOpen
  <2> QED
    BY <2>1, <2>2, ListsNextIInv
<1>8. RunsOpen'
  <2> SUFFICES ASSUME route = "runs" PROVE (RunsIInv)'
    BY <1>1 DEF RunsOpen
  <2>1. [Runs!Next]_(Runs!vars)
    BY DEF Next, vars, Runs!vars
  <2>2. RunsIInv
    BY DEF IInv, RunsOpen
  <2> QED
    BY <2>1, <2>2, RunsNextIInv
<1>9. SessionOpen'
  <2> SUFFICES ASSUME route = "session" PROVE (SessionIInv /\ SessionWaitsInv)'
    BY <1>1 DEF SessionOpen
  <2>1. [Session!Next]_(Session!vars)
    BY DEF Next, vars, Session!vars
  <2>2. SessionIInv /\ SessionWaitsInv
    BY DEF IInv, SessionOpen
  <2> QED
    BY <2>1, <2>2, SessionNextIInv, SessionNextWaits
<1>10. ModelsOpen'
  <2> SUFFICES ASSUME route = "models" PROVE (ModelsIInv)'
    BY <1>1 DEF ModelsOpen
  <2>1. [Models!Next]_(Models!vars)
    BY DEF Next, vars, Models!vars
  <2>2. ModelsIInv
    BY DEF IInv, ModelsOpen
  <2> QED
    BY <2>1, <2>2, ModelsNextIInv
<1>11. McpOpen'
  <2> SUFFICES ASSUME route = "mcp" PROVE (McpIInv)'
    BY <1>1 DEF McpOpen
  <2>1. [Mcp!Next]_(Mcp!vars)
    BY DEF Next, vars, Mcp!vars
  <2>2. McpIInv
    BY DEF IInv, McpOpen
  <2> QED
    BY <2>1, <2>2, McpNextIInv
<1> QED
  BY <1>2, <1>3, <1>4, <1>5, <1>6, <1>7, <1>8, <1>9, <1>10, <1>11 DEF IInv

LEMMA Invariant == Spec => []IInv
BY InitIInv, NextIInv, PTL DEF Spec
-----------------------------------------------------------------------------

\* Whatever is asked, answered, lost or overtaken, the state of every page keeps
\* its types: what the playground attaches and shows was sent before, a row of
\* the registry has a role, a form is in one of its states (useState of each page).
THEOREM PagesAreTyped == Spec => []TypeOK
<1>1. IInv => TypeOK
  <2> SUFFICES ASSUME IInv PROVE TypeOK
    OBVIOUS
  <2>1. route = "chat" => Chat!TypeOK
    BY ChatShown DEF IInv, ChatOpen
  <2>2. route = "hubs" => Hubs!TypeOK
    BY HubsShown DEF IInv, HubsOpen
  <2>3. route = "wizard" => Wizard!TypeOK
    BY WizardShown DEF IInv, WizardOpen
  <2>4. route = "panels" => Panels!TypeOK
    BY PanelsShown DEF IInv, PanelsOpen
  <2>5. route = "lists" => Lists!TypeOK
    BY ListsShown DEF IInv, ListsOpen
  <2>6. route = "runs" => Runs!TypeOK
    BY RunsShown DEF IInv, RunsOpen
  <2>7. route = "session" => Session!TypeOK
    BY SessionShown DEF IInv, SessionOpen
  <2>8. route = "models" => Models!TypeOK
    BY ModelsShown DEF IInv, ModelsOpen
  <2>9. route = "mcp" => Mcp!TypeOK
    BY McpShown DEF IInv, McpOpen
  <2> QED
    BY <2>1, <2>2, <2>3, <2>4, <2>5, <2>6, <2>7, <2>8, <2>9 DEF TypeOK, IInv, Routes
<1> QED
  BY <1>1, Invariant, PTL

\* On all nine pages, for any number of requests: a spinner turns, and a button is
\* disabled, only while the request whose answer ends it is under way, so no order
\* of answers, failures and aborts leaves a page stuck (the finally blocks and
\* early returns of the pages' handlers, services/api.ts).
THEOREM SpinnersEnd == Spec => []BusyHasCause
<1>1. IInv => BusyHasCause
  <2> SUFFICES ASSUME IInv PROVE BusyHasCause
    OBVIOUS
  <2>1. route = "chat" => Chat!BusyHasCause
    BY ChatShown DEF IInv, ChatOpen
  <2>2. route = "hubs" => Hubs!BusyHasCause
    BY HubsShown DEF IInv, HubsOpen
  <2>3. route = "wizard" => Wizard!BusyHasCause
    BY WizardShown DEF IInv, WizardOpen
  <2>4. route = "panels" => Panels!BusyHasCause
    BY PanelsShown DEF IInv, PanelsOpen
  <2>5. route = "lists" => Lists!BusyHasCause
    BY ListsShown DEF IInv, ListsOpen
  <2>6. route = "runs" => Runs!BusyHasCause
    BY RunsShown DEF IInv, RunsOpen
  <2>7. route = "session" => Session!BusyHasCause
    BY SessionShown DEF IInv, SessionOpen
  <2>8. route = "models" => Models!BusyHasCause
    BY ModelsShown DEF IInv, ModelsOpen
  <2>9. route = "mcp" => Mcp!BusyHasCause
    BY McpShown DEF IInv, McpOpen
  <2> QED
    BY <2>1, <2>2, <2>3, <2>4, <2>5, <2>6, <2>7, <2>8, <2>9 DEF BusyHasCause, IInv, Routes
<1> QED
  BY <1>1, Invariant, PTL

\* However many messages are sent and however answers, saves, switches, deletions
\* and failures interleave, the gateway keeps whole exchanges, and the page shows
\* whole exchanges unless one is under way (handleSendMessage, saveCurrentSession).
THEOREM ConversationsWhole == Spec => []TranscriptsComplete
<1>1. IInv => TranscriptsComplete
  BY ChatShown DEF IInv, ChatOpen, TranscriptsComplete
<1> QED
  BY <1>1, Invariant, PTL

\* However many attempts overlap, from however many browsers, an account is locked
\* only once five wrong passwords were tried on it (login_user of auth/routes.py).
THEOREM LockoutsEarned == Spec => []LockoutIsEarned
<1>1. IInv => LockoutIsEarned
  BY SessionShown DEF IInv, SessionOpen, LockoutIsEarned
<1> QED
  BY <1>1, Invariant, PTL

\* However navigation and answers interleave, once nothing is under way the shell
\* shows the hub of its address and the store names it as the active one, unless
\* the last answer was of a hub visited before (fetchHub, HubShell.tsx).
THEOREM ShellInStep == Spec => []ShellShowsItsHub
<1>1. IInv => ShellShowsItsHub
  BY HubsShown DEF IInv, HubsOpen, ShellShowsItsHub
<1> QED
  BY <1>1, Invariant, PTL

\* As long as a hub is as it was fetched, what its pages offer the gateway accepts,
\* and what they do not offer it refuses, but for the buttons listed as exceptions
\* (Overpromised, NeverOffered; useHubPermissions.ts, the routes' require_hub_role).
THEOREM OffersMatchRoles == Spec => []OfferedIsAccepted
<1>1. IInv => OfferedIsAccepted
  BY HubsShown DEF IInv, HubsOpen, OfferedIsAccepted
<1> QED
  BY <1>1, Invariant, PTL

\* Whatever the order of going back, changing the type and choosing targets, the
\* links of a new hub go where its type may link to (HubCreateWizard.tsx).
THEOREM WizardLinksLegally == Spec => []LinksAreLegal
<1>1. IInv => LinksAreLegal
  BY WizardShown DEF IInv, WizardOpen, LinksAreLegal
<1> QED
  BY <1>1, Invariant, PTL

\* Unless a grant of links was answered while another run was being started, the log
\* and the result on screen are those of one run, in order and without gaps; and no
\* run ends without a result or an error (WorkflowRunModal.tsx).
THEOREM OneRunOnScreen == Spec => []RunReported
<1>1. IInv => RunReported
  BY RunsShown DEF IInv, RunsOpen, RunReported
<1> QED
  BY <1>1, Invariant, PTL

\* However registrations, selections and deletions of several administrators
\* interleave, a role has at most one default model, unless a row was added to it
\* between the two steps of a change (register_model, select_active_model).
THEOREM DefaultsUnique == Spec => []OneDefault
<1>1. IInv => OneDefault
  BY ModelsShown DEF IInv, ModelsOpen, OneDefault
<1> QED
  BY <1>1, Invariant, PTL

\* Unless two discoveries on a server overlapped, no sequence of registering,
\* renaming, syncing and deleting gives a tool a second row (sync_server_tools_db).
THEOREM ToolsUnique == Spec => []ToolsOnce
<1>1. IInv => ToolsOnce
  BY McpShown DEF IInv, McpOpen, ToolsOnce
<1> QED
  BY <1>1, Invariant, PTL

\* A step of the members and the links panels, with the gateway's list on screen and
\* nothing under way, asks for nothing the gateway refuses unless the hub or the role
\* has changed behind the shell (require_hub), but for an invitation by e-mail and a
\* link that is there already or to a hub that may only be viewed (MembersPanel.tsx,
\* HubLinksPanel.tsx).
THEOREM OffersHold == Spec => OffersAreAccepted
<1>1. [Next]_vars => [route = "panels" => Panels!OfferAccepted]_vars
  <2> SUFFICES ASSUME [Next]_vars, ~UNCHANGED vars, route = "panels" PROVE Panels!OfferAccepted
    OBVIOUS
  <2>1. [Panels!Next]_(Panels!vars)
    BY DEF Next, vars, Panels!vars
  <2> QED
    BY <2>1, PanelsOffer
<1> QED
  BY <1>1, PTL DEF Spec, OffersAreAccepted
-----------------------------------------------------------------------------
(* What is shown once nothing is under way. *)

ChatCurrent == route = "chat" => ChatFreshInv
HubsCurrent == route = "hubs" => HubsFreshInv
WizardCurrent == route = "wizard" => WizardFreshInv
PanelsCurrent == route = "panels" => PanelsFreshInv
ListsCurrent == route = "lists" => ListsFreshInv
SessionCurrent == route = "session" => SessionFreshInv
ModelsCurrent == route = "models" => ModelsFreshInv
McpCurrent == route = "mcp" => McpFreshInv
CurrentInv == ChatCurrent /\ HubsCurrent /\ WizardCurrent /\ PanelsCurrent /\ ListsCurrent
        /\ SessionCurrent /\ ModelsCurrent /\ McpCurrent

LEMMA InitCurrent == Init => CurrentInv
<1> SUFFICES ASSUME Init PROVE CurrentInv
  OBVIOUS
<1>1. ChatCurrent
  <2>1. route = "chat" => Chat!Init
    BY DEF Init
  <2> QED
    BY <2>1, ChatInitFresh DEF ChatCurrent
<1>2. HubsCurrent
  <2>1. route = "hubs" => Hubs!Init
    BY DEF Init
  <2> QED
    BY <2>1, HubsInitFresh DEF HubsCurrent
<1>3. WizardCurrent
  <2>1. route = "wizard" => Wizard!Init
    BY DEF Init
  <2> QED
    BY <2>1, WizardInitFresh DEF WizardCurrent
<1>4. PanelsCurrent
  <2>1. route = "panels" => Panels!Init
    BY DEF Init
  <2> QED
    BY <2>1, PanelsInitFresh DEF PanelsCurrent
<1>5. ListsCurrent
  <2>1. route = "lists" => Lists!Init
    BY DEF Init
  <2> QED
    BY <2>1, ListsInitFresh DEF ListsCurrent
<1>6. SessionCurrent
  <2>1. route = "session" => Session!Init
    BY DEF Init
  <2> QED
    BY <2>1, SessionInitFresh DEF SessionCurrent
<1>7. ModelsCurrent
  <2>1. route = "models" => Models!Init
    BY DEF Init
  <2> QED
    BY <2>1, ModelsInitFresh DEF ModelsCurrent
<1>8. McpCurrent
  <2>1. route = "mcp" => Mcp!Init
    BY DEF Init
  <2> QED
    BY <2>1, McpInitFresh DEF McpCurrent
<1> QED
  BY <1>1, <1>2, <1>3, <1>4, <1>5, <1>6, <1>7, <1>8 DEF CurrentInv

\* What the page that is open relies on is its own invariant.
LEMMA NextCurrent == IInv /\ CurrentInv /\ [Next]_vars => CurrentInv'
<1> SUFFICES ASSUME IInv, CurrentInv, [Next]_vars PROVE CurrentInv'
  OBVIOUS
<1>0. route' = route
  BY DEF Next, vars
<1>1. ChatCurrent'
  <2> SUFFICES ASSUME route = "chat" PROVE ChatFreshInv'
    BY <1>0 DEF ChatCurrent
  <2>1. [Chat!Next]_(Chat!vars)
    BY DEF Next, vars, Chat!vars
  <2>2. ChatIInv /\ ChatFreshInv
    BY DEF IInv, ChatOpen, CurrentInv, ChatCurrent
  <2> QED
    BY <2>1, <2>2, ChatNextFresh
<1>2. HubsCurrent'
  <2> SUFFICES ASSUME route = "hubs" PROVE HubsFreshInv'
    BY <1>0 DEF HubsCurrent
  <2>1. [Hubs!Next]_(Hubs!vars)
    BY DEF Next, vars, Hubs!vars
  <2>2. HubsIInv /\ HubsFreshInv
    BY DEF IInv, HubsOpen, CurrentInv, HubsCurrent
  <2> QED
    BY <2>1, <2>2, HubsNextFresh
<1>3. WizardCurrent'
  <2> SUFFICES ASSUME route = "wizard" PROVE WizardFreshInv'
    BY <1>0 DEF WizardCurrent
  <2>1. [Wizard!Next]_(Wizard!vars)
    BY DEF Next, vars, Wizard!vars
  <2>2. WizardIInv /\ WizardFreshInv
    BY DEF IInv, WizardOpen, CurrentInv, WizardCurrent
  <2> QED
    BY <2>1, <2>2, WizardNextFresh
<1>4. PanelsCurrent'
  <2> SUFFICES ASSUME route = "panels" PROVE PanelsFreshInv'
    BY <1>0 DEF PanelsCurrent
  <2>1. [Panels!Next]_(Panels!vars)
    BY DEF Next, vars, Panels!vars
  <2>2. PanelsIInv /\ PanelsFreshInv
    BY DEF IInv, PanelsOpen, CurrentInv, PanelsCurrent
  <2> QED
    BY <2>1, <2>2, PanelsNextFresh
<1>5. ListsCurrent'
  <2> SUFFICES ASSUME route = "lists" PROVE ListsFreshInv'
    BY <1>0 DEF ListsCurrent
  <2>1. [Lists!Next]_(Lists!vars)
    BY DEF Next, vars, Lists!vars
  <2>2. ListsIInv /\ ListsFreshInv
    BY DEF IInv, ListsOpen, CurrentInv, ListsCurrent
  <2> QED
    BY <2>1, <2>2, ListsNextFresh
<1>6. SessionCurrent'
  <2> SUFFICES ASSUME route = "session" PROVE SessionFreshInv'
    BY <1>0 DEF SessionCurrent
  <2>1. [Session!Next]_(Session!vars)
    BY DEF Next, vars, Session!vars
  <2>2. SessionIInv /\ SessionFreshInv
    BY DEF IInv, SessionOpen, CurrentInv, SessionCurrent
  <2> QED
    BY <2>1, <2>2, SessionNextFresh
<1>7. ModelsCurrent'
  <2> SUFFICES ASSUME route = "models" PROVE ModelsFreshInv'
    BY <1>0 DEF ModelsCurrent
  <2>1. [Models!Next]_(Models!vars)
    BY DEF Next, vars, Models!vars
  <2>2. ModelsIInv /\ ModelsFreshInv
    BY DEF IInv, ModelsOpen, CurrentInv, ModelsCurrent
  <2> QED
    BY <2>1, <2>2, ModelsNextFresh
<1>8. McpCurrent'
  <2> SUFFICES ASSUME route = "mcp" PROVE McpFreshInv'
    BY <1>0 DEF McpCurrent
  <2>1. [Mcp!Next]_(Mcp!vars)
    BY DEF Next, vars, Mcp!vars
  <2>2. McpIInv /\ McpFreshInv
    BY DEF IInv, McpOpen, CurrentInv, McpCurrent
  <2> QED
    BY <2>1, <2>2, McpNextFresh
<1> QED
  BY <1>1, <1>2, <1>3, <1>4, <1>5, <1>6, <1>7, <1>8 DEF CurrentInv

\* On every page but the log of a run, and for any number of requests, each made up to
\* three times and acted on each time: once nothing is under way the page shows what the
\* gateway holds - the list, the row, the conversation, the token - whatever order the
\* answers came in, unless the gateway acted on a request that failed or moved on under
\* an answer (raced), an answer the page needed failed, or the page was left on the way.
\* That a session was created twice is an exception, and that a tool was switched twice
\* by one click, until the list is read again (what follows the awaits of the pages'
\* handlers and request() of api.ts; the Fresh of each page names its exceptions).
THEOREM PagesFresh == Spec => []Fresh
<1>1. IInv /\ CurrentInv => Fresh
  <2> SUFFICES ASSUME IInv, CurrentInv PROVE Fresh
    OBVIOUS
  <2>1. route = "chat" => Chat!Fresh
    BY ChatShowFresh DEF IInv, ChatOpen, CurrentInv, ChatCurrent
  <2>2. route = "hubs" => Hubs!Fresh
    BY HubsShowFresh DEF IInv, HubsOpen, CurrentInv, HubsCurrent
  <2>3. route = "wizard" => Wizard!Fresh
    BY WizardShowFresh DEF IInv, WizardOpen, CurrentInv, WizardCurrent
  <2>4. route = "panels" => Panels!Fresh
    BY PanelsShowFresh DEF IInv, PanelsOpen, CurrentInv, PanelsCurrent
  <2>5. route = "lists" => Lists!Fresh
    BY ListsShowFresh DEF IInv, ListsOpen, CurrentInv, ListsCurrent
  <2>6. route = "session" => Session!Fresh
    BY SessionShowFresh DEF IInv, SessionOpen, CurrentInv, SessionCurrent
  <2>7. route = "models" => Models!Fresh
    BY ModelsShowFresh DEF IInv, ModelsOpen, CurrentInv, ModelsCurrent
  <2>8. route = "mcp" => Mcp!Fresh
    BY McpShowFresh DEF IInv, McpOpen, CurrentInv, McpCurrent
  <2> QED
    BY <2>1, <2>2, <2>3, <2>4, <2>5, <2>6, <2>7, <2>8 DEF Fresh
<1>2. Spec => []CurrentInv
  BY Invariant, InitCurrent, NextCurrent, PTL DEF Spec
<1> QED
  BY <1>1, <1>2, Invariant, PTL
=============================================================================
