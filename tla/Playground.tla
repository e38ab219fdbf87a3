------------------------------ MODULE Playground ------------------------------
(***************************************************************************)
(* The playground of the admin interface: PlaygroundPage.tsx, the five      *)
(* playgrounds it mounts, the stream reader of api/playground.ts, the       *)
(* history panel, and behind them playground_execute and the history table  *)
(* (src/api/admin/playground.py).                                          *)
(*                                                                         *)
(* One user, whose clicks interleave with the answers: a playground that    *)
(* was left goes on waiting for its answer, and services are deleted        *)
(* meanwhile. A chat keeps its questions and answers; the other playgrounds *)
(* (embeddings, speech, transcription, custom) show the last one only, and   *)
(* are alike otherwise: `talk' is what is shown. Texts, models, parameters   *)
(* and toasts are left out, and so are presets, which only fill in fields.   *)
(***************************************************************************)
EXTENDS Calls

CONSTANTS Services,     \* of the user who is logged in
          Chats,        \* service_type is llm_chat
          Streaming,    \* supports_streaming
          NL,           \* the newline of a stream; the rest of it are parts of lines
          DataLines,    \* lines "data: ..." that carry a piece of the answer
          Replies,      \* the bytes an upstream may stream
          MaxSends,     \* bound: questions
          MaxMounts     \* bound: playgrounds mounted

Bytes == UNION {{b[i] : i \in DOMAIN b} : b \in Replies}

ASSUME PlaygroundAssumption ==
    /\ Chats \subseteq Services /\ Streaming \subseteq Services
    /\ None \notin Services
    /\ Replies \subseteq Seq(Bytes)
    /\ MaxSends \in Nat /\ MaxMounts \in Nat

VARIABLES alive,        \* server: services that are there
          history,      \* server: rows of playground_history
          saves,        \* POST /playground/history under way
          page,         \* state of PlaygroundPage and of HistoryPanel
          view,         \* state of the playground that is mounted, or None
          call,         \* call[n]: the execution of question n
          sends, mounts

vars == <<alive, history, saves, page, view, call, sends, mounts>>

Questions == 1..MaxSends
Instances == 1..MaxMounts

Messages == [role : {"user", "assistant"}, n : Questions, svc : Services, ok : BOOLEAN]

\* Rows that agree are one; service_id is NULL once the service is deleted.
Entries == [svc : Services \cup {None}, talk : Seq(Messages)]

Pages == [ready  : BOOLEAN,                 \* the list of services has been fetched
          listed : SUBSET Services,         \* as it was then, active ones only
          selected : Services \cup {None},
          tab    : {"playground", "history"},
          replay : Entries \cup {None},     \* replayEntry
          shown  : SUBSET Entries]          \* HistoryPanel's entries

Views == [inst    : Instances,
          svc     : Services,
          talk    : Seq(Messages),
          input   : BOOLEAN,                \* there is something to send
          loading : BOOLEAN,
          partial : Seq(DataLines),         \* streamedContent
          meta    : BOOLEAN]                \* lastMeta is not null

Executions == [phase  : {"none", "sent", "served", "reading", "over"},
               inst   : Instances \cup {None},
               svc    : Services \cup {None},
               stream : BOOLEAN,
               bytes  : Replies \cup {<<>>},   \* what the upstream streams
               pos    : Nat,                   \* how much of it has come
               buffer : Seq(Bytes),
               acc    : Seq(DataLines)]        \* accumulated

TypeOK == /\ alive \subseteq Services
          /\ saves \subseteq Entries
          /\ history \subseteq {e \in Entries : e.svc \in alive \cup {None}}   \* foreign key
          /\ page \in Pages
          /\ view \in Views \cup {None}
          /\ call \in [Questions -> Executions]
          /\ sends \in 0..MaxSends /\ mounts \in 0..MaxMounts

NoPage == [ready |-> FALSE, listed |-> {}, selected |-> None, tab |-> "playground",
           replay |-> None, shown |-> {}]

NoExecution == [phase |-> "none", inst |-> None, svc |-> None, stream |-> FALSE,
                bytes |-> <<>>, pos |-> 0, buffer |-> <<>>, acc |-> <<>>]

Init == /\ alive = Services
        /\ history = {} /\ saves = {}
        /\ page = NoPage /\ view = None
        /\ call = [n \in Questions |-> NoExecution]
        /\ sends = 0 /\ mounts = 0

-------------------------------------------------------------------------------
(* The page *)

\* A playground is rendered for the selected service, if it is on the list.
Rendered(p) == p.ready /\ p.tab = "playground" /\ p.selected \in p.listed

\* State of a playground at its first rendering, with the replay taken over: a chat
\* resumes the talk, the others only fill in the request.
Fresh(inst, s, replay) ==
    [inst |-> inst, svc |-> s,
     talk |-> IF replay # None /\ s \in Chats THEN replay.talk ELSE <<>>,
     input |-> replay # None /\ s \notin Chats,
     loading |-> FALSE, partial |-> <<>>, meta |-> FALSE]

\* Mutant of Show: no key, the playground stays when another service is selected.
ShowWithoutKey(p) ==
    IF ~Rendered(p) THEN page' = p /\ view' = None /\ UNCHANGED mounts
    ELSE IF view # None
      THEN page' = p /\ view' = [view EXCEPT !.svc = p.selected] /\ UNCHANGED mounts
    ELSE /\ mounts < MaxMounts /\ mounts' = mounts + 1
         /\ view' = Fresh(mounts + 1, p.selected, p.replay)
         /\ page' = [p EXCEPT !.replay = None]

\* The page becomes p. key={selected.id}: another service, or a return to the tab,
\* mounts a new playground, which consumes the replay.
Show(p) ==
    IF ~Rendered(p) THEN page' = p /\ view' = None /\ UNCHANGED mounts
    ELSE IF view # None /\ view.svc = p.selected THEN page' = p /\ UNCHANGED <<view, mounts>>
    ELSE /\ mounts < MaxMounts /\ mounts' = mounts + 1
         /\ view' = Fresh(mounts + 1, p.selected, p.replay)
         /\ page' = [p EXCEPT !.replay = None]

Server == <<alive, history, saves>>

\* fetchServices answers with the active services, or fails and leaves none.
LoadServices(listed) ==
    /\ ~page.ready
    /\ IF listed = {} THEN Show([page EXCEPT !.ready = TRUE])
       ELSE \E s \in listed : Show([page EXCEPT !.ready = TRUE, !.listed = listed, !.selected = s])
    /\ UNCHANGED <<Server, call, sends>>

\* The user leaves the page and comes back.
Reopen ==
    /\ page.ready
    /\ Show(NoPage)
    /\ UNCHANGED <<Server, call, sends>>

Select(s) ==
    /\ page.tab = "playground" /\ s \in page.listed
    /\ Show([page EXCEPT !.selected = s])
    /\ UNCHANGED <<Server, call, sends>>

SwitchTab ==
    /\ page.ready
    /\ Show([page EXCEPT !.tab = IF @ = "history" THEN "playground" ELSE "history", !.shown = {}])
    /\ UNCHANGED <<Server, call, sends>>

\* HistoryPanel; rendered only when there are services.
PanelOpen == page.tab = "history" /\ page.listed # {}

\* fetchHistory answers: the entries of the selected service.
LoadHistory ==
    /\ PanelOpen
    /\ page' = [page EXCEPT !.shown = {e \in history : e.svc = page.selected}]
    /\ UNCHANGED <<Server, view, call, sends, mounts>>

\* handleReplay
Replay(e) ==
    /\ PanelOpen /\ e \in page.shown
    /\ Show([page EXCEPT !.selected = IF e.svc = None THEN @ ELSE e.svc, !.replay = e,
                         !.tab = "playground", !.shown = {}])
    /\ UNCHANGED <<Server, call, sends>>

\* handleDelete: the row goes by its id, also if it has lost its service meanwhile.
DeleteEntry(e) ==
    /\ PanelOpen /\ e \in page.shown
    /\ history' = {row \in history : row.talk # e.talk}
    /\ page' = [page EXCEPT !.shown = @ \ {e}]
    /\ UNCHANGED <<alive, saves, view, call, sends, mounts>>

\* "Clear all": every row of the user, whatever the panel shows.
ClearHistory ==
    /\ PanelOpen /\ page.shown # {}
    /\ history' = {}
    /\ page' = [page EXCEPT !.shown = {}]
    /\ UNCHANGED <<alive, saves, view, call, sends, mounts>>

-------------------------------------------------------------------------------
(* The mounted playground *)

\* The user types, or the answer of aiGenerateTestParams fills the field.
Fill ==
    /\ view # None /\ ~view.input
    /\ view' = [view EXCEPT !.input = TRUE]
    /\ UNCHANGED <<Server, page, call, sends, mounts>>

Question(n) == [role |-> "user", n |-> n, svc |-> view.svc, ok |-> TRUE]
Reply(n, ok) == [role |-> "assistant", n |-> n, svc |-> call[n].svc, ok |-> ok]

\* A chat goes on and empties its field; elsewhere the last result makes way.
Ask(n, stream) ==
    IF view.svc \in Chats
      THEN [view EXCEPT !.talk = Append(@, Question(n)), !.input = FALSE, !.loading = TRUE,
                        !.partial = IF stream THEN <<>> ELSE @, !.meta = FALSE]
      ELSE [view EXCEPT !.talk = <<Question(n)>>, !.loading = TRUE, !.meta = FALSE]

Execute(n, stream) ==
    call' = [call EXCEPT ![n] = [NoExecution EXCEPT !.phase = "sent", !.inst = view.inst,
                                                    !.svc = view.svc, !.stream = stream]]

\* Mutant of Send: a question may be sent while another is on its way.
SendWhileLoading(stream) ==
    /\ view # None /\ view.input
    /\ stream => view.svc \in Chats \cap Streaming
    /\ sends < MaxSends /\ sends' = sends + 1
    /\ view' = Ask(sends', stream)
    /\ Execute(sends', stream)
    /\ UNCHANGED <<Server, page, mounts>>

\* handleSend, handleEmbed, handleSpeak, handleTranscribe. A chat streams when its
\* switch is on and the service can.
Send(stream) ==
    /\ view # None /\ view.input /\ ~view.loading
    /\ stream => view.svc \in Chats \cap Streaming
    /\ sends < MaxSends /\ sends' = sends + 1
    /\ view' = Ask(sends', stream)
    /\ Execute(sends', stream)
    /\ UNCHANGED <<Server, page, mounts>>

\* Mutant of Clear: the chat is reset as a whole.
ClearLoadingToo ==
    /\ view # None /\ view.svc \in Chats
    /\ view' = [view EXCEPT !.talk = <<>>, !.meta = FALSE, !.loading = FALSE]
    /\ UNCHANGED <<Server, page, call, sends, mounts>>

\* "Clear chat", also while an answer is on its way.
Clear ==
    /\ view # None /\ view.svc \in Chats
    /\ view' = [view EXCEPT !.talk = <<>>, !.meta = FALSE]
    /\ UNCHANGED <<Server, page, call, sends, mounts>>

\* handleSaveResult: a chat that has the figures of an answer, elsewhere a result.
Save ==
    /\ view # None /\ view.talk # <<>>
    /\ view.meta /\ (view.svc \notin Chats => Last(view.talk).ok)
    /\ saves' = saves \cup {[svc |-> view.svc, talk |-> view.talk]}
    /\ UNCHANGED <<alive, history, page, view, call, sends, mounts>>

-------------------------------------------------------------------------------
(* The execution of a question *)

\* Only the playground that asked is updated; one that was left is gone.
Answer(n, ok, meta) ==
    view' = IF view # None /\ view.inst = call[n].inst
              THEN [view EXCEPT !.talk = Append(@, Reply(n, ok)), !.loading = FALSE,
                                !.partial = <<>>, !.meta = meta]
              ELSE view

Over(n) == call' = [call EXCEPT ![n] = [NoExecution EXCEPT !.phase = "over"]]

\* playground_execute or playground_upload finds the service.
Accept(n) ==
    /\ call[n].phase = "sent"
    /\ call[n].svc \in alive
    /\ call' = [call EXCEPT ![n].phase = "served"]
    /\ UNCHANGED <<Server, page, view, sends, mounts>>

\* 404 for a service that is gone, 502, 504, a network error, a stream that breaks, a
\* body that cannot be parsed: what was read of it is dropped.
Fail(n) ==
    /\ call[n].phase \in {"sent", "served", "reading"}
    /\ Answer(n, FALSE, FALSE)
    /\ Over(n)
    /\ UNCHANGED <<Server, page, sends, mounts>>

\* The upstream's whole response, with its figures. A chat shows whatever came; elsewhere
\* it may be none to keep (a status of 400 or more, except in the custom playground).
Respond(n, good) ==
    /\ call[n].phase = "served" /\ ~call[n].stream
    /\ call[n].svc \in Chats => good
    /\ Answer(n, good, TRUE)
    /\ Over(n)
    /\ UNCHANGED <<Server, page, sends, mounts>>

\* The headers of a stream are there and good.
Open(n, bytes) ==
    /\ call[n].phase = "served" /\ call[n].stream
    /\ call' = [call EXCEPT ![n].phase = "reading", ![n].bytes = bytes]
    /\ UNCHANGED <<Server, page, view, sends, mounts>>

\* buffer.split('\n'): the complete lines of a text, and what is left after them.
Split(text) ==
    LET upTo[i \in 0..Len(text)] ==
            IF i = 0 THEN [lines |-> <<>>, rest |-> <<>>]
            ELSE IF text[i] = NL
              THEN [lines |-> Append(upTo[i - 1].lines, upTo[i - 1].rest), rest |-> <<>>]
            ELSE [upTo[i - 1] EXCEPT !.rest = Append(@, text[i])]
    IN upTo[Len(text)]

\* The pieces of the answer that lines carry; other lines are skipped.
Pieces(lines) ==
    LET upTo[i \in 0..Len(lines)] ==
            IF i = 0 THEN <<>>
            ELSE IF lines[i] \in DataLines THEN Append(upTo[i - 1], lines[i])
            ELSE upTo[i - 1]
    IN upTo[Len(lines)]

\* Mutant of Read: every chunk is taken for itself.
ReadWithoutBuffer(n, k) ==
    /\ call[n].phase = "reading" /\ k \in 1..(Len(call[n].bytes) - call[n].pos)
    /\ LET c == call[n]
           s == Split(SubSeq(c.bytes, c.pos + 1, c.pos + k))
           acc == c.acc \o Pieces(s.lines)
       IN /\ call' = [call EXCEPT ![n].pos = @ + k, ![n].buffer = s.rest, ![n].acc = acc]
          /\ view' = IF view # None /\ view.inst = c.inst
                       THEN [view EXCEPT !.partial = acc] ELSE view
    /\ UNCHANGED <<Server, page, sends, mounts>>

\* reader.read returns the next k bytes: the lines they complete are looked through
\* and the rest is kept for the next chunk.
Read(n, k) ==
    /\ call[n].phase = "reading" /\ k \in 1..(Len(call[n].bytes) - call[n].pos)
    /\ LET c == call[n]
           s == Split(c.buffer \o SubSeq(c.bytes, c.pos + 1, c.pos + k))
           acc == c.acc \o Pieces(s.lines)
       IN /\ call' = [call EXCEPT ![n].pos = @ + k, ![n].buffer = s.rest, ![n].acc = acc]
          /\ view' = IF view # None /\ view.inst = c.inst
                       THEN [view EXCEPT !.partial = acc] ELSE view
    /\ UNCHANGED <<Server, page, sends, mounts>>

\* done: the answer is what has accumulated. A last line without newline is lost.
Finish(n) ==
    /\ call[n].phase = "reading" /\ call[n].pos = Len(call[n].bytes)
    /\ Answer(n, TRUE, TRUE)
    /\ Over(n)
    /\ UNCHANGED <<Server, page, sends, mounts>>

-------------------------------------------------------------------------------
(* The server meanwhile *)

\* Mutant of StoreEntry: no foreign key.
StoreEntryAnyway(e) ==
    /\ e \in saves
    /\ saves' = saves \ {e}
    /\ history' = history \cup {e}
    /\ UNCHANGED <<alive, page, view, call, sends, mounts>>

\* save_history: the row, or an error if the service is gone.
StoreEntry(e) ==
    /\ e \in saves
    /\ saves' = saves \ {e}
    /\ history' = IF e.svc \in alive THEN history \cup {e} ELSE history
    /\ UNCHANGED <<alive, page, view, call, sends, mounts>>

\* delete_service, and ON DELETE SET NULL.
DeleteService(s) ==
    /\ s \in alive
    /\ alive' = alive \ {s}
    /\ history' = {IF e.svc = s THEN [e EXCEPT !.svc = None] ELSE e : e \in history}
    /\ UNCHANGED <<saves, page, view, call, sends, mounts>>

-------------------------------------------------------------------------------
User == \/ \E listed \in SUBSET alive : LoadServices(listed)
        \/ Reopen \/ SwitchTab \/ LoadHistory
        \/ \E s \in Services : Select(s)
        \/ \E e \in page.shown : Replay(e)
        \/ \E e \in page.shown : DeleteEntry(e)
        \/ ClearHistory
        \/ Fill \/ Clear \/ Save
        \/ \E stream \in BOOLEAN : Send(stream)

Serve(n) == \/ Accept(n) \/ Fail(n) \/ Finish(n)
            \/ \E good \in BOOLEAN : Respond(n, good)
            \/ \E bytes \in Replies : Open(n, bytes)
            \/ \E k \in 1..Len(call[n].bytes) : Read(n, k)

Next == \/ User
        \/ \E n \in Questions : Serve(n)
        \/ \E e \in saves : StoreEntry(e)
        \/ \E s \in Services : DeleteService(s)

Spec == Init /\ [][Next]_vars

-------------------------------------------------------------------------------
(* Properties *)

UnderWay(n) == call[n].phase \in {"sent", "served", "reading"}

\* A playground that shows the spinner waits for exactly one execution, its own and for
\* its service, and what it shows of a stream is what that execution has read; without
\* the spinner nothing of its own is under way. (Clearing the chat, leaving and coming
\* back, and answers to a playground that was left do not confuse them.)
WaitsForOwn ==
    view # None =>
        LET own == {n \in Questions : UnderWay(n) /\ call[n].inst = view.inst}
        IN IF view.loading
             THEN \E n \in Questions : own = {n} /\ call[n].svc = view.svc
                                                 /\ view.partial = call[n].acc
             ELSE own = {} /\ view.partial = <<>>

\* Questions and answers of a talk belong together: each question is followed by its own
\* answer, or is the last and still waits for it, and each answer but a first one, whose
\* question was cleared, follows its question.
PairedTalk(talk) ==
    \A i \in 1..(Len(talk) - 1) :
        \/ /\ talk[i].role = "user" /\ talk[i + 1].role = "assistant"
           /\ talk[i].n = talk[i + 1].n
        \/ talk[i].role = "assistant" /\ talk[i + 1].role = "user"

Paired ==
    /\ view # None => /\ PairedTalk(view.talk)
                      /\ view.talk # <<>> /\ Last(view.talk).role = "user" => view.loading
    /\ \A e \in history : PairedTalk(e.talk) /\ Last(e.talk).role = "assistant"

\* No message of one service is ever shown in the playground of another, whichever way
\* it came there: as an answer, or by a replay of the history.
OwnService ==
    view # None => \A i \in DOMAIN view.talk : view.talk[i].svc = view.svc

\* What has accumulated of a stream are the pieces of the lines that are complete, none
\* lost and none twice, however the network cut the stream into chunks.
StreamWhole ==
    \A n \in Questions :
        call[n].phase = "reading" =>
            LET all == Split(SubSeq(call[n].bytes, 1, call[n].pos))
            IN call[n].acc = Pieces(all.lines) /\ call[n].buffer = all.rest
===============================================================================
