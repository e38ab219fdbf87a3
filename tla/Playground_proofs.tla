-------------------------- MODULE Playground_proofs --------------------------
(***************************************************************************)
(* For any number of services, questions, mounted playgrounds and replies:   *)
(* a playground waits for its own execution and no other, questions and     *)
(* answers stay paired, no message strays into another service's talk, and   *)
(* nothing of a stream is lost or doubled where the network cuts it.         *)
(***************************************************************************)
EXTENDS Playground, WellFoundedInduction, TLAPS

(* The shape of the state. What has been read of a stream is typed by a      *)
(* recursion over its bytes, further down; here it is just some value.      *)

IsView(v) == v \in [inst : Instances, svc : Services, talk : Seq(Messages), input : BOOLEAN,
                    loading : BOOLEAN, partial : {v.partial}, meta : BOOLEAN]

IsExecution(c) == c \in [phase : {"none", "sent", "served", "reading", "over"},
                         inst : Instances \cup {None}, svc : Services \cup {None},
                         stream : BOOLEAN, bytes : Replies \cup {<<>>}, pos : {c.pos},
                         buffer : {c.buffer}, acc : {c.acc}]

Shape == /\ alive \subseteq Services
         /\ history \subseteq Entries /\ saves \subseteq Entries
         /\ page \in Pages
         /\ view # None => IsView(view)
         /\ DOMAIN call = Questions /\ call = [n \in Questions |-> call[n]]
         /\ \A n \in Questions : IsExecution(call[n])
         /\ sends \in Nat /\ mounts \in Nat

CallsOK == \A n \in Questions :
              UnderWay(n) => n <= sends /\ call[n].inst \in 1..mounts /\ call[n].svc \in Services

OfService(talk, s) == \A i \in DOMAIN talk : talk[i].svc = s
Answered(talk) == talk # <<>> => Last(talk).role = "assistant"
Asks(talk, n) == talk # <<>> => Last(talk).role = "user" /\ Last(talk).n = n

Own(n) == UnderWay(n) /\ call[n].inst = view.inst

Waiting == \E n \in Questions : /\ Own(n) /\ \A m \in Questions : Own(m) => m = n
                                /\ call[n].svc = view.svc /\ view.partial = call[n].acc
                                /\ Asks(view.talk, n)

Resting == /\ \A m \in Questions : ~Own(m)
           /\ view.partial = <<>> /\ Answered(view.talk)

ViewOK == view # None => /\ view.inst <= mounts
                         /\ IF view.loading THEN Waiting /\ ~view.meta ELSE Resting
                         /\ PairedTalk(view.talk) /\ OfService(view.talk, view.svc)

\* A saved talk: complete, and of one service, which is the entry's while it exists.
GoodEntry(e) == /\ e.talk # <<>> /\ Answered(e.talk) /\ PairedTalk(e.talk)
                /\ e.svc # None => OfService(e.talk, e.svc)

PageOK == /\ page.listed # {} => page.ready /\ page.selected \in page.listed
          /\ page.replay = None
          /\ page.shown # {} => page.ready /\ page.tab = "history"
          /\ \A e \in page.shown : GoodEntry(e) /\ e.svc = page.selected
          /\ view # None => Rendered(page) /\ view.svc = page.selected

IInv == /\ Shape /\ CallsOK /\ ViewOK /\ PageOK
        /\ \A e \in history \cup saves : GoodEntry(e)

-------------------------------------------------------------------------------
(* Talks *)

\* A question after an answer, or after nothing, keeps a talk paired.
LEMMA AskPaired ==
    ASSUME NEW talk \in Seq(Messages), PairedTalk(talk), Answered(talk),
           NEW m \in Messages, m.role = "user"
    PROVE  PairedTalk(Append(talk, m))
  BY DEF PairedTalk, Answered, Last, Messages

\* The answer to the last question keeps it paired too, and so does any answer to nothing.
LEMMA ReplyPaired ==
    ASSUME NEW talk \in Seq(Messages), PairedTalk(talk), NEW n \in Questions, Asks(talk, n),
           NEW m \in Messages, m.role = "assistant", m.n = n
    PROVE  PairedTalk(Append(talk, m))
  BY DEF PairedTalk, Asks, Last, Messages

LEMMA AppendLast ==
    ASSUME NEW talk \in Seq(Messages), NEW m \in Messages
    PROVE  /\ Append(talk, m) \in Seq(Messages) /\ Append(talk, m) # <<>>
           /\ Last(Append(talk, m)) = m
           /\ \A s : OfService(talk, s) /\ m.svc = s => OfService(Append(talk, m), s)
  BY DEF OfService, Last

LEMMA OneQuestion ==
    ASSUME NEW m \in Messages
    PROVE  /\ <<m>> \in Seq(Messages) /\ <<m>> # <<>> /\ Last(<<m>>) = m
           /\ PairedTalk(<<m>>) /\ OfService(<<m>>, m.svc)
  BY DEF PairedTalk, OfService, Last

-------------------------------------------------------------------------------
(* The page *)

LEMMA EmptyTalk == /\ <<>> \in Seq(Messages) /\ PairedTalk(<<>>) /\ Answered(<<>>)
                   /\ \A s : OfService(<<>>, s) /\ \A n : Asks(<<>>, n)
  BY DEF PairedTalk, Answered, OfService, Asks

\* A playground that has just been mounted rests, and its talk is of its service.
LEMMA FreshRests ==
    ASSUME NEW inst \in Instances, NEW s \in Services, NEW e \in Entries \cup {None},
           e # None => GoodEntry(e) /\ e.svc = s
    PROVE  LET v == Fresh(inst, s, e)
           IN /\ IsView(v) /\ v.inst = inst /\ v.svc = s
              /\ ~v.loading /\ v.partial = <<>>
              /\ Answered(v.talk) /\ PairedTalk(v.talk) /\ OfService(v.talk, s)
<1>1. CASE e # None /\ s \in Chats
      BY <1>1, PlaygroundAssumption DEF Fresh, IsView, Entries, GoodEntry, PlaygroundAssumption
<1>2. CASE ~(e # None /\ s \in Chats)
      BY <1>2, EmptyTalk DEF Fresh, IsView
<1> QED BY <1>1, <1>2

\* Whatever page the user comes to, the invariant of page and playground holds there.
LEMMA ShowKeeps ==
    ASSUME IInv, UNCHANGED <<alive, history, saves, call, sends>>,
           NEW p \in Pages, Show(p),
           p.listed # {} => p.ready /\ p.selected \in p.listed,
           p.shown # {} => p.ready /\ p.tab = "history",
           \A e \in p.shown : GoodEntry(e) /\ e.svc = p.selected,
           p.replay # None => Rendered(p) /\ GoodEntry(p.replay) /\ p.replay.svc = p.selected
                              /\ view = None
    PROVE  IInv'
<1>1. CASE ~Rendered(p)
      BY <1>1 DEF IInv, Shape, CallsOK, ViewOK, PageOK, Show, UnderWay
<1>2. CASE Rendered(p) /\ view # None /\ view.svc = p.selected
  <2>1. page' = p /\ UNCHANGED <<view, mounts>> /\ p.replay = None
        BY <1>2 DEF Show
  <2>2. Shape' /\ CallsOK'
        BY <2>1 DEF IInv, Shape, CallsOK, UnderWay
  <2>3. ViewOK'
        BY <2>1 DEF IInv, ViewOK, Waiting, Resting, Own, UnderWay
  <2>4. PageOK'
        BY <1>2, <2>1 DEF IInv, PageOK
  <2> QED BY <2>2, <2>3, <2>4 DEF IInv
<1>3. CASE Rendered(p) /\ ~(view # None /\ view.svc = p.selected)
  <2>1. /\ mounts < MaxMounts /\ mounts' = mounts + 1
        /\ view' = Fresh(mounts + 1, p.selected, p.replay)
        /\ page' = [p EXCEPT !.replay = None]
        BY <1>3 DEF Show
  <2>2. mounts + 1 \in Instances /\ p.selected \in Services /\ p.replay \in Entries \cup {None}
        BY <1>3, <2>1, PlaygroundAssumption DEF IInv, Shape, Pages, Rendered, Instances, PlaygroundAssumption
  <2>3. /\ IsView(view') /\ view'.inst = mounts + 1 /\ view'.svc = p.selected
        /\ ~view'.loading /\ view'.partial = <<>>
        /\ Answered(view'.talk) /\ PairedTalk(view'.talk) /\ OfService(view'.talk, p.selected)
        BY <2>1, <2>2, FreshRests
  <2>4. Shape'
        BY <2>1, <2>3 DEF IInv, Shape, Pages
  <2>5. CallsOK'
        BY <2>1 DEF IInv, Shape, CallsOK, UnderWay
  <2>6. \A n \in Questions : UnderWay(n) => call[n].inst \in Nat /\ call[n].inst <= mounts
        BY DEF IInv, CallsOK, Shape
  <2>7. \A n \in Questions : ~Own(n)'
        BY <2>1, <2>3, <2>6 DEF Own, UnderWay, IInv, Shape
  <2>8. ViewOK'
        BY <2>1, <2>3, <2>7 DEF ViewOK, Resting, IInv, Shape
  <2>9. PageOK'
        BY <1>3, <2>1, <2>3 DEF PageOK, Rendered, Pages
  <2> QED BY <2>4, <2>5, <2>8, <2>9 DEF IInv
<1> QED BY <1>1, <1>2, <1>3

LEMMA PageStep ==
    ASSUME IInv,
           \/ \E listed \in SUBSET alive : LoadServices(listed)
           \/ Reopen \/ SwitchTab
           \/ \E s \in Services : Select(s)
           \/ \E e \in page.shown : Replay(e)
    PROVE  IInv'
<1>p. page \in Pages /\ page.replay = None
      BY DEF IInv, Shape, PageOK
<1>1. ASSUME NEW listed \in SUBSET alive, LoadServices(listed) PROVE IInv'
  <2>1. page.listed = {} /\ page.shown = {}
        BY <1>1 DEF LoadServices, IInv, PageOK
  <2>2. CASE listed = {}
    <3> DEFINE p == [page EXCEPT !.ready = TRUE]
    <3>1. p \in Pages /\ p.listed = {} /\ p.shown = {} /\ p.replay = None
          BY <1>p, <2>1 DEF Pages
    <3>2. Show(p) /\ UNCHANGED <<alive, history, saves, call, sends>>
          BY <1>1, <2>2 DEF LoadServices, Server
    <3> QED BY <3>1, <3>2, ShowKeeps
  <2>3. CASE listed # {}
    <3>1. PICK s \in listed : Show([page EXCEPT !.ready = TRUE, !.listed = listed, !.selected = s])
          BY <1>1, <2>3 DEF LoadServices
    <3> DEFINE p == [page EXCEPT !.ready = TRUE, !.listed = listed, !.selected = s]
    <3>2. /\ p \in Pages /\ p.ready /\ p.selected \in p.listed
          /\ p.shown = {} /\ p.replay = None
          BY <1>p, <2>1 DEF Pages, IInv, Shape
    <3>3. UNCHANGED <<alive, history, saves, call, sends>>
          BY <1>1 DEF LoadServices, Server
    <3> QED BY <3>1, <3>2, <3>3, ShowKeeps
  <2> QED BY <2>2, <2>3
<1>2. ASSUME Reopen PROVE IInv'
  <2>1. NoPage \in Pages /\ NoPage.listed = {} /\ NoPage.shown = {} /\ NoPage.replay = None
        BY DEF NoPage, Pages
  <2>2. Show(NoPage) /\ UNCHANGED <<alive, history, saves, call, sends>>
        BY <1>2 DEF Reopen, Server
  <2> QED BY <2>1, <2>2, ShowKeeps
<1>3. ASSUME SwitchTab PROVE IInv'
  <2> DEFINE p == [page EXCEPT !.tab = IF @ = "history" THEN "playground" ELSE "history",
                               !.shown = {}]
  <2>1. p \in Pages /\ p.shown = {} /\ p.replay = None
        /\ (p.listed # {} => p.ready /\ p.selected \in p.listed)
        BY <1>p DEF Pages, IInv, PageOK
  <2>2. Show(p) /\ UNCHANGED <<alive, history, saves, call, sends>>
        BY <1>3 DEF SwitchTab, Server
  <2> QED BY <2>1, <2>2, ShowKeeps
<1>4. ASSUME NEW s \in Services, Select(s) PROVE IInv'
  <2> DEFINE p == [page EXCEPT !.selected = s]
  <2>1. p \in Pages /\ p.shown = {} /\ p.replay = None /\ p.ready /\ p.selected \in p.listed
        BY <1>4, <1>p DEF Pages, IInv, PageOK, Select
  <2>2. Show(p) /\ UNCHANGED <<alive, history, saves, call, sends>>
        BY <1>4 DEF Select, Server
  <2> QED BY <2>1, <2>2, ShowKeeps
<1>5. ASSUME NEW e \in page.shown, Replay(e) PROVE IInv'
  <2> DEFINE p == [page EXCEPT !.selected = IF e.svc = None THEN @ ELSE e.svc, !.replay = e,
                               !.tab = "playground", !.shown = {}]
  <2>1. /\ GoodEntry(e) /\ e.svc = page.selected /\ e \in Entries
        /\ page.ready /\ page.selected \in page.listed /\ page.tab = "history" /\ view = None
        BY <1>5, <1>p DEF IInv, PageOK, Replay, PanelOpen, Pages, Rendered
  <2>2. e.svc # None
        BY <1>p, <2>1, PlaygroundAssumption DEF Pages, PlaygroundAssumption
  <2>3. /\ p \in Pages /\ p.shown = {} /\ p.replay = e /\ p.selected = page.selected
        /\ p.ready /\ p.listed = page.listed /\ Rendered(p)
        BY <1>p, <2>1, <2>2 DEF Pages, Rendered
  <2>4. Show(p) /\ UNCHANGED <<alive, history, saves, call, sends>>
        BY <1>5 DEF Replay, Server
  <2> QED BY <2>1, <2>3, <2>4, ShowKeeps
<1> QED BY <1>1, <1>2, <1>3, <1>4, <1>5

LEMMA PanelStep ==
    ASSUME IInv, LoadHistory \/ (\E e \in page.shown : DeleteEntry(e)) \/ ClearHistory
    PROVE  IInv'
<1>p. page \in Pages /\ UNCHANGED <<alive, saves, view, call, sends, mounts>> /\ page.tab = "history"
      /\ page.selected \in page.listed /\ page.ready
      BY DEF IInv, Shape, LoadHistory, DeleteEntry, ClearHistory, PanelOpen, Server, PageOK
<1>1. history' \subseteq history /\ page' = [page EXCEPT !.shown = page'.shown]
      /\ page'.shown \subseteq history \cup page.shown
      /\ \A e \in page'.shown : e.svc = page.selected /\ GoodEntry(e)
      BY <1>p DEF IInv, LoadHistory, DeleteEntry, ClearHistory, Server, Pages, PageOK
<1>2. page'.shown \subseteq Entries
      BY <1>1 DEF IInv, Shape, Pages
<1>3. page' \in Pages
      BY <1>p, <1>1, <1>2 DEF Pages
<1>4. Shape' /\ CallsOK'
      BY <1>p, <1>1, <1>3 DEF IInv, Shape, CallsOK, UnderWay
<1>5. ViewOK'
      BY <1>p DEF IInv, ViewOK, Waiting, Resting, Own, UnderWay
<1>6. /\ page'.ready = page.ready /\ page'.listed = page.listed /\ page'.tab = page.tab
      /\ page'.selected = page.selected /\ page'.replay = page.replay
      BY <1>p, <1>1 DEF Pages
<1>7. PageOK'
      BY <1>p, <1>1, <1>6 DEF IInv, PageOK, Rendered
<1> QED BY <1>p, <1>1, <1>4, <1>5, <1>7 DEF IInv

-------------------------------------------------------------------------------
(* The mounted playground *)

LEMMA FieldStep ==
    ASSUME IInv, Fill \/ Clear
    PROVE  IInv'
<1>1. /\ view # None /\ IsView(view)
      /\ UNCHANGED <<alive, history, saves, page, call, sends, mounts>>
      BY DEF IInv, Shape, Fill, Clear, Server
<1>2. /\ IsView(view') /\ view'.inst = view.inst /\ view'.svc = view.svc
      /\ view'.loading = view.loading /\ view'.partial = view.partial
      /\ view'.meta => view.meta
      /\ view'.talk = view.talk \/ view'.talk = <<>>
      BY <1>1, EmptyTalk DEF IsView, Fill, Clear
<1>3. Shape' /\ CallsOK'
      BY <1>1, <1>2 DEF IInv, Shape, CallsOK, UnderWay
<1>4. /\ PairedTalk(view'.talk) /\ OfService(view'.talk, view.svc)
      /\ Answered(view.talk) => Answered(view'.talk)
      /\ \A n : Asks(view.talk, n) => Asks(view'.talk, n)
      BY <1>1, <1>2, EmptyTalk DEF IInv, ViewOK
<1>5. \A n \in Questions : Own(n)' <=> Own(n)
      BY <1>1, <1>2 DEF Own, UnderWay
<1>6. Waiting => Waiting'
      BY <1>1, <1>2, <1>4, <1>5 DEF Waiting
<1>7. Resting => Resting'
      BY <1>1, <1>2, <1>4, <1>5 DEF Resting
<1>8. ViewOK'
      BY <1>1, <1>2, <1>4, <1>6, <1>7 DEF IInv, ViewOK
<1>9. PageOK'
      BY <1>1, <1>2 DEF IInv, PageOK, Rendered
<1> QED BY <1>1, <1>3, <1>8, <1>9 DEF IInv

LEMMA SendStep ==
    ASSUME IInv, NEW stream \in BOOLEAN, Send(stream)
    PROVE  IInv'
<1>1. /\ view # None /\ IsView(view) /\ ~view.loading /\ Resting
      /\ sends < MaxSends /\ sends' = sends + 1
      /\ PairedTalk(view.talk) /\ OfService(view.talk, view.svc)
      /\ UNCHANGED <<alive, history, saves, page, mounts>>
      BY DEF IInv, Shape, ViewOK, Send, Server
<1>q. PICK q \in Questions : q = sends + 1
      BY <1>1, PlaygroundAssumption DEF IInv, Shape, Questions, PlaygroundAssumption
<1>2. sends' = q /\ sends \in Nat /\ view' = Ask(q, stream) /\ Execute(q, stream)
      BY <1>1, <1>q DEF Send, IInv, Shape
<1> DEFINE m == Question(q)
<1>3. m \in Messages /\ m.role = "user" /\ m.n = q /\ m.svc = view.svc
      BY <1>1, <1>2 DEF Question, Messages, IsView
<1>4. view.talk \in Seq(Messages) /\ Answered(view.talk)
      BY <1>1 DEF IsView, Resting
<1>5. /\ IsView(view') /\ view'.inst = view.inst /\ view'.svc = view.svc
      /\ view'.loading /\ ~view'.meta /\ view'.partial = <<>>
      /\ view'.talk = Append(view.talk, m) \/ view'.talk = <<m>>
  <2>1. CASE view.svc \in Chats
    <3>1. view' = [view EXCEPT !.talk = Append(@, m), !.input = FALSE,
                               !.loading = TRUE, !.partial = <<>>, !.meta = FALSE]
      <4>1. view.partial = <<>>
            BY <1>1 DEF Resting
      <4> QED BY <1>2, <2>1, <4>1 DEF Ask
    <3>2. Append(view.talk, m) \in Seq(Messages)
          BY <1>3, <1>4, AppendLast
    <3>3. view' = [inst |-> view.inst, svc |-> view.svc, talk |-> Append(view.talk, m),
                   input |-> FALSE, loading |-> TRUE, partial |-> <<>>, meta |-> FALSE]
          BY <1>1, <3>1 DEF IsView
    <3>4. IsView(view')
          BY <1>1, <3>2, <3>3 DEF IsView
    <3> QED BY <3>3, <3>4
  <2>2. CASE view.svc \notin Chats
    <3>1. view' = [view EXCEPT !.talk = <<m>>, !.loading = TRUE, !.meta = FALSE]
          BY <1>2, <2>2 DEF Ask
    <3>2. view.partial = <<>>
          BY <1>1 DEF Resting
    <3>3. /\ <<m>> \in Seq(Messages)
          /\ view'.talk = <<m>> /\ view'.loading = TRUE /\ view'.meta = FALSE
          /\ view'.inst = view.inst /\ view'.svc = view.svc /\ view'.input = view.input
          /\ view'.partial = view.partial
          BY <1>1, <1>3, <3>1, OneQuestion DEF IsView
    <3>4. view' = [inst |-> view.inst, svc |-> view.svc, talk |-> <<m>>, input |-> view.input,
                   loading |-> TRUE, partial |-> view.partial, meta |-> FALSE]
          BY <1>1, <3>1 DEF IsView
    <3>5. IsView(view')
          BY <1>1, <3>3, <3>4 DEF IsView
    <3> QED BY <3>2, <3>3, <3>5
  <2> QED BY <2>1, <2>2
<1>6. /\ PairedTalk(view'.talk) /\ OfService(view'.talk, view.svc) /\ Asks(view'.talk, q)
  <2>1. CASE view'.talk = Append(view.talk, m)
        BY <1>1, <1>3, <1>4, <2>1, AskPaired, AppendLast DEF Asks
  <2>2. CASE view'.talk = <<m>>
        BY <1>3, <2>2, OneQuestion DEF Asks
  <2> QED BY <1>5, <2>1, <2>2
<1>7. /\ call'[q] = [NoExecution EXCEPT !.phase = "sent", !.inst = view.inst, !.svc = view.svc,
                                         !.stream = stream]
      /\ \A n \in Questions \ {q} : call'[n] = call[n]
      /\ DOMAIN call' = Questions /\ call' = [n \in Questions |-> call'[n]]
      BY <1>1, <1>2 DEF Execute, IInv, Shape
<1>8. /\ call'[q].phase = "sent" /\ call'[q].inst = view.inst /\ call'[q].svc = view.svc
      /\ call'[q].acc = <<>> /\ IsExecution(call'[q])
      BY <1>1, <1>7 DEF NoExecution, IsExecution, IsView
<1>9. view.inst \in Nat /\ view.inst >= 1 /\ view.inst <= mounts /\ mounts \in Nat /\ view.svc \in Services
      BY <1>1 DEF IInv, Shape, ViewOK, IsView, Instances
<1>10. Shape'
      BY <1>1, <1>2, <1>5, <1>7, <1>8 DEF IInv, Shape
<1>11. CallsOK'
  <2>1. ASSUME NEW n \in Questions \ {q}, UnderWay(n)'
        PROVE  n <= q /\ call'[n].inst \in 1..mounts /\ call'[n].svc \in Services
        BY <1>2, <1>q, <1>7, <2>1 DEF IInv, CallsOK, UnderWay, Questions
  <2>2. q <= q /\ call'[q].inst \in 1..mounts /\ call'[q].svc \in Services
        BY <1>1, <1>2, <1>q, <1>8, <1>9
  <2>3. ASSUME NEW n \in Questions, UnderWay(n)'
        PROVE  n <= sends' /\ call'[n].inst \in 1..mounts' /\ call'[n].svc \in Services
        BY <1>1, <1>2, <2>1, <2>2, <2>3
  <2> QED BY <2>3 DEF CallsOK
<1>12. \A n \in Questions : Own(n)' <=> n = q
  <2>1. ASSUME NEW n \in Questions \ {q} PROVE ~Own(n)'
        BY <1>1, <1>5, <1>7 DEF Own, UnderWay, Resting
  <2>2. Own(q)'
        BY <1>5, <1>8 DEF Own, UnderWay
  <2> QED BY <2>1, <2>2
<1>13. ViewOK'
  <2>1. Waiting'
        BY <1>2, <1>5, <1>6, <1>8, <1>12 DEF Waiting
  <2> QED BY <1>1, <1>5, <1>6, <1>9, <2>1 DEF ViewOK
<1>14. PageOK'
      BY <1>1, <1>5 DEF IInv, PageOK, Rendered
<1> QED BY <1>1, <1>10, <1>11, <1>13, <1>14 DEF IInv

LEMMA SaveStep ==
    ASSUME IInv, Save
    PROVE  IInv'
<1> DEFINE e == [svc |-> view.svc, talk |-> view.talk]
<1>1. /\ view # None /\ IsView(view) /\ view.talk # <<>> /\ view.meta
      /\ saves' = saves \cup {e}
      /\ UNCHANGED <<alive, history, page, view, call, sends, mounts>>
      BY DEF IInv, Shape, Save
<1>2. Resting /\ PairedTalk(view.talk) /\ OfService(view.talk, view.svc)
      BY <1>1 DEF IInv, ViewOK
<1>3. e \in Entries /\ GoodEntry(e)
      BY <1>1, <1>2 DEF IsView, Entries, GoodEntry, Resting
<1>4. Shape' /\ CallsOK'
      BY <1>1, <1>3 DEF IInv, Shape, CallsOK, UnderWay
<1>5. ViewOK' /\ PageOK'
      BY <1>1 DEF IInv, ViewOK, PageOK, Waiting, Resting, Own, UnderWay, Rendered
<1> QED BY <1>1, <1>3, <1>4, <1>5 DEF IInv

-------------------------------------------------------------------------------
(* The executions *)

\* What a playground waits for, seen from an execution under way: if it is the
\* playground's own, the spinner is on and the last question is the execution's.
LEMMA OwnIsAwaited ==
    ASSUME IInv, NEW n \in Questions, UnderWay(n), view # None, view.inst = call[n].inst
    PROVE  /\ view.loading /\ call[n].svc = view.svc /\ view.partial = call[n].acc
           /\ Asks(view.talk, n) /\ \A k \in Questions : Own(k) => k = n
  BY DEF IInv, ViewOK, Waiting, Resting, Own

\* An execution that ends, well or badly, leaves the spinner to the playground's own.
LEMMA AnswerKeeps ==
    ASSUME IInv, NEW n \in Questions, UnderWay(n), NEW ok \in BOOLEAN, NEW meta \in BOOLEAN,
           Answer(n, ok, meta), Over(n), UNCHANGED <<alive, history, saves, page, sends, mounts>>
    PROVE  IInv'
<1>1. /\ call'[n] = [NoExecution EXCEPT !.phase = "over"]
      /\ \A k \in Questions \ {n} : call'[k] = call[k]
      /\ DOMAIN call' = Questions /\ call' = [k \in Questions |-> call'[k]]
      BY DEF Over, IInv, Shape
<1>2. IsExecution(call'[n]) /\ call'[n].phase = "over"
      BY <1>1 DEF NoExecution, IsExecution
<1>3. CallsOK'
  <2>1. ASSUME NEW k \in Questions, UnderWay(k)'
        PROVE  k <= sends /\ call'[k].inst \in 1..mounts /\ call'[k].svc \in Services
        BY <1>1, <1>2, <2>1 DEF IInv, CallsOK, UnderWay
  <2> QED BY <2>1 DEF CallsOK
<1>4. CASE view # None /\ view.inst = call[n].inst
  <2> DEFINE r == Reply(n, ok)
  <2>1. /\ IsView(view) /\ view.inst <= mounts /\ call[n].svc = view.svc
        /\ PairedTalk(view.talk) /\ OfService(view.talk, view.svc) /\ Asks(view.talk, n)
        /\ \A k \in Questions : Own(k) => k = n
        BY <1>4, OwnIsAwaited DEF IInv, Shape, ViewOK
  <2>2. /\ r \in Messages /\ r.role = "assistant" /\ r.n = n /\ r.svc = view.svc
        /\ view.talk \in Seq(Messages)
        BY <2>1 DEF Reply, Messages, IsView
  <2>3. /\ Append(view.talk, r) \in Seq(Messages) /\ Answered(Append(view.talk, r))
        /\ PairedTalk(Append(view.talk, r)) /\ OfService(Append(view.talk, r), view.svc)
        BY <2>1, <2>2, ReplyPaired, AppendLast DEF Answered
  <2>4. view' = [view EXCEPT !.talk = Append(@, r), !.loading = FALSE, !.partial = <<>>,
                             !.meta = meta]
        BY <1>4 DEF Answer
  <2>5. view' = [inst |-> view.inst, svc |-> view.svc, talk |-> Append(view.talk, r),
                 input |-> view.input, loading |-> FALSE, partial |-> <<>>, meta |-> meta]
        BY <2>1, <2>4 DEF IsView
  <2>6. IsView(view')
        BY <2>1, <2>3, <2>5 DEF IsView
  <2>7. Shape'
        BY <1>1, <1>2, <2>6 DEF IInv, Shape
  <2>8. ASSUME NEW k \in Questions PROVE ~Own(k)'
        BY <1>1, <1>2, <2>1, <2>5 DEF Own, UnderWay
  <2>9. ViewOK'
        BY <2>1, <2>3, <2>5, <2>8 DEF ViewOK, Resting
  <2>10. PageOK'
        BY <1>4, <2>5 DEF IInv, PageOK, Rendered
  <2> QED BY <1>3, <2>7, <2>9, <2>10 DEF IInv
<1>5. CASE ~(view # None /\ view.inst = call[n].inst)
  <2>1. view' = view
        BY <1>5 DEF Answer
  <2>2. Shape'
        BY <1>1, <1>2, <2>1 DEF IInv, Shape
  <2>3. ASSUME view # None, NEW k \in Questions
        PROVE  Own(k)' <=> Own(k)
        BY <1>1, <1>2, <1>5, <2>1, <2>3 DEF Own, UnderWay
  <2>4. ASSUME view # None, Waiting PROVE Waiting'
    <3>1. PICK k \in Questions : /\ Own(k) /\ \A m \in Questions : Own(m) => m = k
                                 /\ call[k].svc = view.svc /\ view.partial = call[k].acc
                                 /\ Asks(view.talk, k)
          BY <2>4 DEF Waiting
    <3>2. k # n
          BY <1>5, <2>4, <3>1 DEF Own
    <3> QED BY <1>1, <2>1, <2>3, <2>4, <3>1, <3>2 DEF Waiting
  <2>5. ASSUME view # None, Resting PROVE Resting'
        BY <2>1, <2>3, <2>5 DEF Resting
  <2>6. ViewOK' /\ PageOK'
        BY <2>1, <2>4, <2>5 DEF IInv, ViewOK, PageOK, Rendered
  <2> QED BY <1>3, <2>2, <2>6 DEF IInv
<1> QED BY <1>4, <1>5

\* An execution that goes on shows what it has read to its own playground alone.
LEMMA ProgressKeeps ==
    ASSUME IInv, NEW n \in Questions, UnderWay(n), NEW c, IsExecution(c),
           c.phase \in {"sent", "served", "reading"},
           c.inst = call[n].inst, c.svc = call[n].svc, call' = [call EXCEPT ![n] = c],
           view' = IF view # None /\ view.inst = c.inst
                     THEN [view EXCEPT !.partial = c.acc] ELSE view,
           UNCHANGED <<alive, history, saves, page, sends, mounts>>
    PROVE  IInv'
<1>1. /\ call'[n] = c /\ \A k \in Questions \ {n} : call'[k] = call[k]
      /\ DOMAIN call' = Questions /\ call' = [k \in Questions |-> call'[k]]
      BY DEF IInv, Shape
<1>2. CallsOK'
  <2>1. ASSUME NEW k \in Questions, UnderWay(k)'
        PROVE  k <= sends /\ call'[k].inst \in 1..mounts /\ call'[k].svc \in Services
        BY <1>1, <2>1 DEF IInv, CallsOK, UnderWay
  <2> QED BY <2>1 DEF CallsOK
<1>3. view # None => /\ IsView(view') /\ view'.inst = view.inst /\ view'.svc = view.svc
                     /\ view'.loading = view.loading /\ view'.meta = view.meta
                     /\ view'.talk = view.talk
      BY DEF IInv, Shape, IsView
<1>4. view = None => view' = None
      OBVIOUS
<1>5. Shape'
      BY <1>1, <1>3, <1>4 DEF IInv, Shape
<1>6. PageOK'
      BY <1>3, <1>4 DEF IInv, PageOK, Rendered
<1>7. ASSUME view # None, NEW k \in Questions PROVE Own(k)' <=> Own(k)
      BY <1>1, <1>3, <1>7 DEF Own, UnderWay
<1>8. ASSUME view # None, Waiting PROVE Waiting'
  <2>1. PICK k \in Questions : /\ Own(k) /\ \A m \in Questions : Own(m) => m = k
                               /\ call[k].svc = view.svc /\ view.partial = call[k].acc
                               /\ Asks(view.talk, k)
        BY <1>8 DEF Waiting
  <2>2. view'.partial = call'[k].acc /\ call'[k].svc = view'.svc
    <3>1. CASE k = n
          BY <1>1, <1>3, <1>8, <2>1, <3>1 DEF Own, IInv, Shape, IsView
    <3>2. CASE k # n
          BY <1>1, <1>3, <1>8, <2>1, <3>2 DEF Own
    <3> QED BY <3>1, <3>2
  <2> QED BY <1>3, <1>7, <1>8, <2>1, <2>2 DEF Waiting
<1>9. ASSUME view # None, Resting PROVE Resting'
  <2>1. view.inst # c.inst
        BY <1>9 DEF Resting, Own
  <2> QED BY <1>7, <1>9, <2>1 DEF Resting
<1>10. ViewOK'
      BY <1>3, <1>4, <1>8, <1>9 DEF IInv, ViewOK
<1> QED BY <1>2, <1>5, <1>6, <1>10 DEF IInv

LEMMA ServeStep ==
    ASSUME IInv, NEW n \in Questions, Serve(n)
    PROVE  IInv'
<1>c. IsExecution(call[n])
      BY DEF IInv, Shape
<1>1. CASE Fail(n)
      BY <1>1, AnswerKeeps DEF Fail, UnderWay, Server
<1>2. CASE Finish(n)
      BY <1>2, AnswerKeeps DEF Finish, UnderWay, Server
<1>3. ASSUME NEW good \in BOOLEAN, Respond(n, good) PROVE IInv'
      BY <1>3, AnswerKeeps DEF Respond, UnderWay, Server
<1>4. CASE Accept(n)
  <2> DEFINE c == [call[n] EXCEPT !.phase = "served"]
  <2>1. /\ UnderWay(n) /\ call' = [call EXCEPT ![n] = c]
        /\ UNCHANGED <<alive, history, saves, page, view, sends, mounts>>
        BY <1>4 DEF Accept, UnderWay, Server
  <2>2. /\ IsExecution(c) /\ c.phase = "served" /\ c.inst = call[n].inst
        /\ c.svc = call[n].svc /\ c.acc = call[n].acc
        BY <1>c DEF IsExecution
  <2>3. view' = IF view # None /\ view.inst = c.inst
                  THEN [view EXCEPT !.partial = c.acc] ELSE view
        BY <2>1, <2>2, OwnIsAwaited DEF IInv, Shape, IsView
  <2> QED BY <2>1, <2>2, <2>3, ProgressKeeps
<1>5. ASSUME NEW bytes \in Replies, Open(n, bytes) PROVE IInv'
  <2> DEFINE c == [call[n] EXCEPT !.phase = "reading", !.bytes = bytes]
  <2>1. /\ UnderWay(n) /\ call' = [call EXCEPT ![n] = c]
        /\ UNCHANGED <<alive, history, saves, page, view, sends, mounts>>
        BY <1>5 DEF Open, UnderWay, Server, IInv, Shape
  <2>2. /\ IsExecution(c) /\ c.phase = "reading" /\ c.inst = call[n].inst
        /\ c.svc = call[n].svc /\ c.acc = call[n].acc
        BY <1>c DEF IsExecution
  <2>3. view' = IF view # None /\ view.inst = c.inst
                  THEN [view EXCEPT !.partial = c.acc] ELSE view
        BY <2>1, <2>2, OwnIsAwaited DEF IInv, Shape, IsView
  <2> QED BY <2>1, <2>2, <2>3, ProgressKeeps
<1>6. ASSUME NEW k \in 1..Len(call[n].bytes), Read(n, k) PROVE IInv'
  <2>1. PICK s, acc :
           /\ call' = [call EXCEPT ![n].pos = @ + k, ![n].buffer = s.rest, ![n].acc = acc]
           /\ view' = IF view # None /\ view.inst = call[n].inst
                        THEN [view EXCEPT !.partial = acc] ELSE view
        BY <1>6 DEF Read
  <2> DEFINE c == [call[n] EXCEPT !.pos = @ + k, !.buffer = s.rest, !.acc = acc]
  <2>a. call[n].phase = "reading" /\ UNCHANGED <<alive, history, saves, page, sends, mounts>>
        BY <1>6 DEF Read, Server
  <2>b. call' = [call EXCEPT ![n] = c]
        BY <1>c, <2>1 DEF IsExecution
  <2>2. UnderWay(n)
        BY <2>a DEF UnderWay
  <2>3. /\ IsExecution(c) /\ c.phase = "reading" /\ c.inst = call[n].inst
        /\ c.svc = call[n].svc /\ c.acc = acc
        BY <1>c, <2>a DEF IsExecution
  <2> QED BY <2>1, <2>a, <2>b, <2>2, <2>3, ProgressKeeps
<1> QED BY <1>1, <1>2, <1>3, <1>4, <1>5, <1>6 DEF Serve

-------------------------------------------------------------------------------
(* The server, and the theorems *)

LEMMA StoreStep ==
    ASSUME IInv, NEW e \in saves, StoreEntry(e)
    PROVE  IInv'
<1>1. UNCHANGED <<alive, page, view, call, sends, mounts>>
      /\ saves' \subseteq saves /\ history' \subseteq history \cup saves
      BY DEF StoreEntry
<1>2. Shape' /\ CallsOK'
      BY <1>1 DEF IInv, Shape, CallsOK, UnderWay
<1>3. ViewOK' /\ PageOK'
      BY <1>1 DEF IInv, ViewOK, PageOK, Waiting, Resting, Own, UnderWay, Rendered
<1> QED BY <1>1, <1>2, <1>3 DEF IInv

\* An entry whose service goes keeps its talk.
LEMMA DeleteStep ==
    ASSUME IInv, NEW s \in Services, DeleteService(s)
    PROVE  IInv'
<1>1. /\ UNCHANGED <<saves, page, view, call, sends, mounts>> /\ alive' \subseteq alive
      /\ history' = {IF e.svc = s THEN [e EXCEPT !.svc = None] ELSE e : e \in history}
      BY DEF DeleteService
<1>2. ASSUME NEW e \in Entries, GoodEntry(e)
      PROVE  [e EXCEPT !.svc = None] \in Entries /\ GoodEntry([e EXCEPT !.svc = None])
      BY <1>2 DEF Entries, GoodEntry
<1>3. \A e \in history' : e \in Entries /\ GoodEntry(e)
      BY <1>1, <1>2 DEF IInv, Shape
<1>4. Shape' /\ CallsOK'
      BY <1>1, <1>3 DEF IInv, Shape, CallsOK, UnderWay
<1>5. ViewOK' /\ PageOK'
      BY <1>1 DEF IInv, ViewOK, PageOK, Waiting, Resting, Own, UnderWay, Rendered
<1> QED BY <1>1, <1>3, <1>4, <1>5 DEF IInv

LEMMA Starts == Init => IInv
<1> SUFFICES ASSUME Init PROVE IInv
    OBVIOUS
<1>1. Shape
      BY DEF Init, Shape, NoPage, Pages, NoExecution, IsExecution
<1>2. CallsOK /\ ViewOK /\ PageOK
      BY DEF Init, CallsOK, ViewOK, PageOK, UnderWay, NoExecution, NoPage
<1> QED BY <1>1, <1>2 DEF Init, IInv

LEMMA Stutters == IInv /\ UNCHANGED vars => IInv'
  BY DEF vars, IInv, Shape, CallsOK, ViewOK, PageOK, Waiting, Resting, Own, UnderWay, Rendered

LEMMA Steps == IInv /\ [Next]_vars => IInv'
<1> SUFFICES ASSUME IInv, [Next]_vars PROVE IInv'
    OBVIOUS
<1>1. ASSUME User PROVE IInv'
      BY <1>1, PageStep, PanelStep, FieldStep, SendStep, SaveStep DEF User
<1> QED BY <1>1, ServeStep, StoreStep, DeleteStep, Stutters DEF Next

LEMMA Invariance == Spec => []IInv
  BY Starts, Steps, PTL DEF Spec

\* The spinner is on exactly while an execution of this very playground, for its own
\* service, is under way, and what is shown of a stream is that execution's (handleSend,
\* handleClear and the key of PlaygroundPage).
THEOREM SpinnerIsRight == Spec => []WaitsForOwn
<1>1. IInv => WaitsForOwn
  <2> SUFFICES ASSUME IInv, view # None
               PROVE  LET own == {n \in Questions : UnderWay(n) /\ call[n].inst = view.inst}
                      IN IF view.loading
                           THEN \E n \in Questions : own = {n} /\ call[n].svc = view.svc
                                                       /\ view.partial = call[n].acc
                           ELSE own = {} /\ view.partial = <<>>
      BY DEF WaitsForOwn
  <2> DEFINE own == {n \in Questions : UnderWay(n) /\ call[n].inst = view.inst}
  <2>1. CASE view.loading
    <3>1. PICK n \in Questions : /\ Own(n) /\ \A m \in Questions : Own(m) => m = n
                                 /\ call[n].svc = view.svc /\ view.partial = call[n].acc
          BY <2>1 DEF IInv, ViewOK, Waiting
    <3>2. own = {n}
          BY <3>1 DEF Own
    <3> QED BY <2>1, <3>1, <3>2
  <2>2. CASE ~view.loading
    <3>1. own = {} /\ view.partial = <<>>
          BY <2>2 DEF IInv, ViewOK, Resting, Own
    <3> QED BY <2>2, <3>1
  <2> QED BY <2>1, <2>2
<1> QED BY <1>1, Invariance, PTL

\* Every talk shown or kept is a sequence of questions and their own answers, and a
\* question without its answer is one that is still waited for.
THEOREM TalksPaired == Spec => []Paired
<1>1. IInv => Paired
  <2>1. ASSUME IInv, view # None
        PROVE  PairedTalk(view.talk) /\ (view.talk # <<>> /\ Last(view.talk).role = "user" => view.loading)
        BY <2>1 DEF IInv, ViewOK, Resting, Answered
  <2>2. ASSUME IInv, NEW e \in history
        PROVE  PairedTalk(e.talk) /\ Last(e.talk).role = "assistant"
        BY <2>2 DEF IInv, GoodEntry, Answered
  <2> QED BY <2>1, <2>2 DEF Paired
<1> QED BY <1>1, Invariance, PTL

\* Answers that come late and talks that are replayed never reach the playground of
\* another service (the key of PlaygroundPage, and handleReplay).
THEOREM TalksOfOwnService == Spec => []OwnService
<1>1. IInv => OwnService
      BY DEF IInv, ViewOK, OwnService, OfService
<1> QED BY <1>1, Invariance, PTL

-------------------------------------------------------------------------------
(* Recursion *)

\* A set of numbers that is not empty has a least one.
LEMMA Least ==
    ASSUME NEW T, T \subseteq Nat, T # {}
    PROVE  \E m \in T : \A k \in T : m <= k
<1> DEFINE less == OpToRel(<, Nat)
<1>1. PICK m \in T : \A k \in T : <<k, m>> \notin less
  BY NatLessThanWellFounded, WFMin, Zenon
<1>2. ASSUME NEW k \in T PROVE m <= k
  <2>1. k < m => <<k, m>> \in less
    BY DEF OpToRel
  <2>2. <<k, m>> \notin less
    BY <1>1
  <2>3. m \in Nat /\ k \in Nat
    OBVIOUS
  <2> HIDE DEF less
  <2> QED BY <2>1, <2>2, <2>3
<1> QED BY <1>2

\* What 0 has, and n + 1 if n has it, all have up to N.
LEMMA UpTo ==
    ASSUME NEW N \in Nat, NEW T, 0 \in T, \A n \in 0..(N - 1) : n \in T => n + 1 \in T
    PROVE  0..N \subseteq T
<1> DEFINE others == (0..N) \ T
<1>1. ASSUME others # {} PROVE FALSE
  <2>1. others \subseteq Nat
    OBVIOUS
  <2>2. PICK m \in others : \A k \in others : m <= k
    <3> HIDE DEF others
    <3> QED BY <1>1, <2>1, Least
  <2>3. m # 0
    OBVIOUS
  <2>4. m - 1 \in 0..(N - 1) /\ m - 1 \notin others
    BY <2>2, <2>3
  <2> QED BY <2>4
<1> QED BY <1>1

\* step[i][s] is what comes i-th after s.
StepTable(step, N, S) == step \in [1..N -> [S -> S]]

\* f takes these steps, one after the other.
Takes(f, step, N, S, first) ==
    f \in [0..N -> S] /\ f[0] = first /\ \A i \in 1..N : f[i] = step[i][f[i - 1]]

LEMMA StepsTaken ==
    ASSUME NEW N \in Nat, NEW S, NEW first \in S, NEW step, StepTable(step, N, S)
    PROVE  \E f : Takes(f, step, N, S, first)
<1>0. step \in [1..N -> [S -> S]]
  BY DEF StepTable
<1> DEFINE Good(n, f) == /\ f \in [0..n -> S] /\ f[0] = first
                         /\ \A i \in 1..n : f[i] = step[i][f[i - 1]]
           T == {n \in 0..N : \E f : Good(n, f)}
<1>1. 0 \in T
  <2>1. Good(0, [i \in 0..0 |-> first])
    OBVIOUS
  <2>2. \E f : Good(0, f)
    BY <2>1
  <2> QED BY <2>2
<1>2. ASSUME NEW n \in 0..(N - 1), n \in T PROVE n + 1 \in T
  <2>1. PICK f : Good(n, f)
    BY <1>2
  <2> DEFINE g == [i \in 0..(n + 1) |-> IF i = n + 1 THEN step[n + 1][f[n]] ELSE f[i]]
  <2>2. step[n + 1][f[n]] \in S
    BY <1>0, <2>1
  <2>3. g \in [0..(n + 1) -> S] /\ g[0] = first
    BY <2>1, <2>2
  <2>4. ASSUME NEW i \in 1..(n + 1) PROVE g[i] = step[i][g[i - 1]]
    <3>1. CASE i = n + 1
      BY <3>1
    <3>2. CASE i # n + 1
      <4>1. i \in 1..n /\ g[i] = f[i] /\ g[i - 1] = f[i - 1]
        BY <3>2
      <4> QED BY <2>1, <4>1
    <3> QED BY <3>1, <3>2
  <2>5. Good(n + 1, g)
    BY <2>3, <2>4
  <2>6. \E h : Good(n + 1, h)
    BY <2>5, Zenon
  <2> QED BY <2>6
<1> HIDE DEF T
<1>3. 0..N \subseteq T
  BY <1>1, <1>2, UpTo
<1> QED BY <1>3 DEF T, Takes

-------------------------------------------------------------------------------
(* Lines *)

\* f looks through the lines, from the first to the last.
Looks(f, lines) ==
    /\ f \in [0..Len(lines) -> Seq(DataLines)] /\ f[0] = <<>>
    /\ \A i \in 1..Len(lines) :
         f[i] = IF lines[i] \in DataLines THEN Append(f[i - 1], lines[i]) ELSE f[i - 1]

\* Looking through the lines takes such steps.
LEMMA PiecesLooked ==
    ASSUME NEW L, NEW lines \in Seq(L)
    PROVE  \E f : Looks(f, lines) /\ Pieces(lines) = f[Len(lines)]
<1> DEFINE N == Len(lines)
           S == Seq(DataLines)
           step == [i \in 1..N |-> [s \in S |->
                      IF lines[i] \in DataLines THEN Append(s, lines[i]) ELSE s]]
           Body(f) == [i \in 0..N |->
                         IF i = 0 THEN <<>>
                         ELSE IF lines[i] \in DataLines THEN Append(f[i - 1], lines[i])
                         ELSE f[i - 1]]
           f == CHOOSE g : g = Body(g)
<1>1. N \in Nat /\ <<>> \in S /\ StepTable(step, N, S)
  BY DEF StepTable
<1>0. PICK g : Takes(g, step, N, S, <<>>)
  <2> HIDE DEF N, S, step
  <2> QED BY <1>1, StepsTaken
<1>2. g \in [0..N -> S] /\ g[0] = <<>> /\ \A i \in 1..N : g[i] = step[i][g[i - 1]]
  BY <1>0 DEF Takes
<1>3. ASSUME NEW i \in 0..N PROVE g[i] = Body(g)[i]
  <2>1. CASE i = 0
    BY <1>2, <2>1
  <2>2. CASE i # 0
    <3>1. i \in 1..N /\ i - 1 \in 0..N
      BY <2>2
    <3>2. g[i - 1] \in S /\ g[i] = step[i][g[i - 1]]
      BY <1>2, <3>1
    <3> QED BY <2>2, <3>1, <3>2
  <2> QED BY <2>1, <2>2
<1>4. g = Body(g)
  <2>1. g = [i \in 0..N |-> g[i]]
    BY <1>2
  <2> QED BY <1>3, <2>1
<1>5. f = Body(f)
  BY <1>4, Zenon
<1>6. Pieces(lines) = f[N]
  BY Zenon DEF Pieces
<1> HIDE DEF f
<1>8. DOMAIN f = 0..N /\ \A i \in 0..N : f[i] = Body(f)[i]
  BY <1>5, Zenon
<1>9. f[0] = <<>> /\ \A i \in 1..N :
        f[i] = IF lines[i] \in DataLines THEN Append(f[i - 1], lines[i]) ELSE f[i - 1]
  <2>1. f[0] = <<>>
    BY <1>1, <1>8
  <2>2. ASSUME NEW i \in 1..N
        PROVE  f[i] = IF lines[i] \in DataLines THEN Append(f[i - 1], lines[i]) ELSE f[i - 1]
    <3>1. i \in 0..N /\ i # 0
      BY <1>1
    <3>2. f[i] = Body(f)[i]
      BY <1>8, <3>1
    <3> QED BY <3>1, <3>2
  <2> QED BY <2>1, <2>2
<1>7. 0..N \subseteq {i \in 0..N : f[i] \in S}
  <2> DEFINE T == {i \in 0..N : f[i] \in S}
  <2>1. 0 \in T
    BY <1>5
  <2>2. ASSUME NEW i \in 0..(N - 1), i \in T PROVE i + 1 \in T
    <3>1. i + 1 \in 1..N /\ f[i] \in S /\ i + 1 - 1 = i
      BY <2>2
    <3>2. lines[i + 1] \in DataLines => Append(f[i], lines[i + 1]) \in S
      BY <3>1
    <3>3. f[i + 1] \in S
      <4> HIDE DEF S
      <4> QED BY <1>9, <3>1, <3>2
    <3> QED BY <3>1, <3>3
  <2> HIDE DEF T
  <2>3. 0..N \subseteq T
    BY <1>1, <2>1, <2>2, UpTo
  <2> QED BY <2>3 DEF T
<1>10. f \in [0..N -> S]
  <2>1. f = [i \in 0..N |-> f[i]]
    BY <1>5, Zenon
  <2> QED BY <1>7, <2>1
<1> QED BY <1>6, <1>9, <1>10 DEF Looks

\* A text is split after each of its elements.
Halves(B) == [lines : Seq(Seq(B)), rest : Seq(B)]
Unsplit == [lines |-> <<>>, rest |-> <<>>]
SplitMore(s, b) ==
    IF b = NL THEN [lines |-> Append(s.lines, s.rest), rest |-> <<>>]
    ELSE [s EXCEPT !.rest = Append(@, b)]

Splits(f, text, B) ==
    /\ f \in [0..Len(text) -> Halves(B)] /\ f[0] = Unsplit
    /\ \A i \in 1..Len(text) : f[i] = SplitMore(f[i - 1], text[i])

LEMMA SplitMoreType ==
    ASSUME NEW B, NEW s \in Halves(B), NEW b \in B
    PROVE  SplitMore(s, b) \in Halves(B)
<1> DEFINE L == Seq(B)
<1>1. s \in [lines : Seq(L), rest : L] /\ <<>> \in L
  BY DEF Halves
<1>2. Append(s.rest, b) \in L
  BY <1>1
<1>3. Append(s.lines, s.rest) \in Seq(L)
  <2> HIDE DEF L
  <2> QED BY <1>1
<1>4. SplitMore(s, b) \in [lines : Seq(L), rest : L]
  <2> HIDE DEF L
  <2> QED BY <1>1, <1>2, <1>3 DEF SplitMore
<1> QED BY <1>4 DEF Halves

\* Splitting takes such steps, since the function that Split chooses exists.
LEMMA SplitTaken ==
    ASSUME NEW B, NEW text \in Seq(B)
    PROVE  \E f : Splits(f, text, B) /\ Split(text) = f[Len(text)]
<1> DEFINE N == Len(text)
           S == Halves(B)
           step == [i \in 1..N |-> [s \in S |-> SplitMore(s, text[i])]]
           Body(f) == [i \in 0..N |->
                IF i = 0 THEN [lines |-> <<>>, rest |-> <<>>]
                ELSE IF text[i] = NL
                  THEN [lines |-> Append(f[i - 1].lines, f[i - 1].rest), rest |-> <<>>]
                ELSE [f[i - 1] EXCEPT !.rest = Append(@, text[i])]]
           f == CHOOSE g : g = Body(g)
<1>1. N \in Nat /\ Unsplit \in S /\ StepTable(step, N, S)
  <2>1. \A i \in 1..N : text[i] \in B
    OBVIOUS
  <2>2. \A i \in 1..N, s \in S : SplitMore(s, text[i]) \in S
    BY <2>1, SplitMoreType
  <2>3. N \in Nat /\ Unsplit \in S
    BY DEF Unsplit, Halves
  <2> HIDE DEF S
  <2> QED BY <2>2, <2>3 DEF StepTable
<1>2. PICK g : Takes(g, step, N, S, Unsplit)
  <2> HIDE DEF N, S, step
  <2> QED BY <1>1, StepsTaken
<1>3. g \in [0..N -> S] /\ g[0] = Unsplit /\ \A i \in 1..N : g[i] = step[i][g[i - 1]]
  BY <1>2 DEF Takes
<1>4. ASSUME NEW i \in 0..N PROVE g[i] = Body(g)[i]
  <2>1. CASE i = 0
    BY <1>3, <2>1 DEF Unsplit
  <2>2. CASE i # 0
    <3>1. i \in 1..N /\ i - 1 \in 0..N
      BY <2>2
    <3>2. g[i - 1] \in S /\ g[i] = step[i][g[i - 1]]
      BY <1>3, <3>1
    <3>3. step[i][g[i - 1]] = SplitMore(g[i - 1], text[i])
      <4> HIDE DEF S
      <4> QED BY <3>1, <3>2
    <3>4. Body(g)[i] = SplitMore(g[i - 1], text[i])
      BY <2>2, <3>1 DEF SplitMore
    <3> QED BY <3>2, <3>3, <3>4
  <2> QED BY <2>1, <2>2
<1>5. g = Body(g)
  <2>1. g = [i \in 0..N |-> g[i]]
    BY <1>3
  <2> QED BY <1>4, <2>1
<1>6. f = Body(f)
  BY <1>5, Zenon
<1>7. Split(text) = f[N]
  BY Zenon DEF Split
<1> HIDE DEF f
<1>8. DOMAIN f = 0..N /\ \A i \in 0..N : f[i] = Body(f)[i]
  BY <1>6, Zenon
<1>9. f[0] = Unsplit /\ \A i \in 1..N : f[i] = SplitMore(f[i - 1], text[i])
  <2>1. f[0] = Unsplit
    BY <1>1, <1>8 DEF Unsplit
  <2>2. ASSUME NEW i \in 1..N PROVE f[i] = SplitMore(f[i - 1], text[i])
    <3>1. i \in 0..N /\ i # 0
      BY <1>1
    <3>2. f[i] = Body(f)[i]
      BY <1>8, <3>1
    <3> QED BY <3>1, <3>2 DEF SplitMore
  <2> QED BY <2>1, <2>2
<1>10. 0..N \subseteq {i \in 0..N : f[i] \in S}
  <2> DEFINE T == {i \in 0..N : f[i] \in S}
  <2>1. 0 \in T
    BY <1>1, <1>9
  <2>2. ASSUME NEW i \in 0..(N - 1), i \in T PROVE i + 1 \in T
    <3>1. i + 1 \in 1..N /\ f[i] \in S /\ i + 1 - 1 = i /\ text[i + 1] \in B
      BY <2>2
    <3>2. SplitMore(f[i], text[i + 1]) \in S
      BY <3>1, SplitMoreType
    <3>3. f[i + 1] \in S
      <4> HIDE DEF S
      <4> QED BY <1>9, <3>1, <3>2
    <3> QED BY <3>1, <3>3
  <2> HIDE DEF T
  <2>3. 0..N \subseteq T
    BY <1>1, <2>1, <2>2, UpTo
  <2> QED BY <2>3 DEF T
<1>11. f \in [0..N -> S]
  <2>1. f = [i \in 0..N |-> f[i]]
    BY <1>6, Zenon
  <2> HIDE DEF S
  <2> QED BY <1>10, <2>1
<1> QED BY <1>7, <1>9, <1>11 DEF Splits

-------------------------------------------------------------------------------
(* Two texts, one after the other *)

\* What is appended to both is appended to the second.
GoesToSecond(s, t, e) == Append(s \o t, e) = s \o Append(t, e)

LEMMA AppendToSecond ==
    ASSUME NEW S, NEW s \in Seq(S), NEW t \in Seq(S), NEW e \in S
    PROVE  GoesToSecond(s, t, e)
  BY DEF GoesToSecond

\* What comes of looking through more lines is added to what came of the first.
LEMMA PiecesOfMore ==
    ASSUME NEW L, NEW a \in Seq(L), NEW b \in Seq(L)
    PROVE  /\ Pieces(a) \in Seq(DataLines)
           /\ Pieces(a \o b) = Pieces(a) \o Pieces(b)
<1>1. PICK f : Looks(f, a) /\ Pieces(a) = f[Len(a)]
  BY PiecesLooked
<1>2. PICK g : Looks(g, b) /\ Pieces(b) = g[Len(b)]
  BY PiecesLooked
<1>3. /\ a \o b \in Seq(L) /\ Len(a \o b) = Len(a) + Len(b) /\ Len(a) \in Nat /\ Len(b) \in Nat
      /\ \A i \in 1..Len(a) : (a \o b)[i] = a[i]
      /\ \A j \in 1..Len(b) : (a \o b)[Len(a) + j] = b[j]
  OBVIOUS
<1>4. PICK h : Looks(h, a \o b) /\ Pieces(a \o b) = h[Len(a \o b)]
  BY <1>3, PiecesLooked
<1> DEFINE ab == a \o b
<1> HIDE DEF ab
<1>5. 0..Len(a) \subseteq {i \in 0..Len(a) : h[i] = f[i]}
  <2> DEFINE T == {i \in 0..Len(a) : h[i] = f[i]}
  <2>1. 0 \in T
    BY <1>1, <1>3, <1>4 DEF Looks
  <2>2. ASSUME NEW i \in 0..(Len(a) - 1), i \in T PROVE i + 1 \in T
    <3>1. i + 1 \in 1..Len(a) /\ i + 1 \in 1..Len(a \o b) /\ i + 1 - 1 = i /\ h[i] = f[i]
      BY <1>3, <2>2
    <3>2. (a \o b)[i + 1] = a[i + 1]
      BY <1>3, <3>1
    <3>3. h[i + 1] = IF a[i + 1] \in DataLines THEN Append(h[i], a[i + 1]) ELSE h[i]
      BY <1>4, <3>1, <3>2 DEF Looks
    <3>4. f[i + 1] = IF a[i + 1] \in DataLines THEN Append(f[i], a[i + 1]) ELSE f[i]
      BY <1>1, <3>1 DEF Looks
    <3> QED BY <3>1, <3>3, <3>4
  <2> HIDE DEF T
  <2>3. 0..Len(a) \subseteq T
    BY <1>3, <2>1, <2>2, UpTo
  <2> QED BY <2>3 DEF T
<1>6. h[Len(a)] = Pieces(a) /\ Pieces(a) \in Seq(DataLines)
  BY <1>1, <1>3, <1>5 DEF Looks
<1>7. 0..Len(b) \subseteq {j \in 0..Len(b) : h[Len(a) + j] = Pieces(a) \o g[j]}
  <2> DEFINE T == {j \in 0..Len(b) : h[Len(a) + j] = Pieces(a) \o g[j]}
  <2>1. 0 \in T
    <3>1. g[0] = <<>> /\ Len(a) + 0 = Len(a) /\ 0 \in 0..Len(b)
      BY <1>2, <1>3 DEF Looks
    <3>2. Pieces(a) \o <<>> = Pieces(a)
      BY <1>6
    <3> QED BY <1>6, <3>1, <3>2
  <2>2. ASSUME NEW j \in 0..(Len(b) - 1), j \in T PROVE j + 1 \in T
    <3>1. /\ j \in 0..Len(b) /\ j + 1 \in 1..Len(b) /\ Len(a) + (j + 1) \in 1..Len(a \o b)
          /\ Len(a) + (j + 1) - 1 = Len(a) + j /\ j + 1 - 1 = j
          /\ h[Len(a) + j] = Pieces(a) \o g[j]
      BY <1>3, <2>2
    <3>2. (a \o b)[Len(a) + (j + 1)] = b[j + 1]
      BY <1>3, <3>1
    <3>3. h[Len(a) + (j + 1)] = IF b[j + 1] \in DataLines
                                THEN Append(h[Len(a) + j], b[j + 1]) ELSE h[Len(a) + j]
      <4> DEFINE k == Len(a) + (j + 1)
      <4>1. k \in 1..Len(a \o b) /\ k - 1 = Len(a) + j /\ (a \o b)[k] = b[j + 1]
        BY <3>1, <3>2
      <4>2. h[k] = IF (a \o b)[k] \in DataLines THEN Append(h[k - 1], (a \o b)[k]) ELSE h[k - 1]
        <5> HIDE DEF k
        <5> QED BY <1>4, <4>1 DEF Looks
      <4> QED BY <4>1, <4>2
    <3>4. /\ g[j + 1] = IF b[j + 1] \in DataLines THEN Append(g[j], b[j + 1]) ELSE g[j]
          /\ g[j] \in Seq(DataLines)
      BY <1>2, <3>1 DEF Looks
    <3>5. b[j + 1] \in DataLines =>
            Append(Pieces(a) \o g[j], b[j + 1]) = Pieces(a) \o Append(g[j], b[j + 1])
      <4>1. ASSUME b[j + 1] \in DataLines PROVE GoesToSecond(Pieces(a), g[j], b[j + 1])
        BY <1>6, <3>4, <4>1, AppendToSecond
      <4> QED BY <4>1 DEF GoesToSecond
    <3>6. h[Len(a) + (j + 1)] = Pieces(a) \o g[j + 1]
      BY <3>1, <3>3, <3>4, <3>5
    <3> QED BY <3>1, <3>6
  <2> HIDE DEF T
  <2>3. 0..Len(b) \subseteq T
    BY <1>3, <2>1, <2>2, UpTo
  <2> QED BY <2>3 DEF T
<1>8. h[Len(a) + Len(b)] = Pieces(a) \o g[Len(b)]
  <2>1. Len(b) \in 0..Len(b)
    BY <1>3
  <2> QED BY <1>7, <2>1
<1> QED BY <1>2, <1>3, <1>4, <1>6, <1>8

\* There is no newline in it.
NoNL(text) == \A i \in DOMAIN text : text[i] # NL

LEMMA HalfFields ==
    ASSUME NEW B, NEW s \in Halves(B)
    PROVE  /\ s.lines \in Seq(Seq(B)) /\ s.rest \in Seq(B)
           /\ s = [lines |-> s.lines, rest |-> s.rest]
  BY DEF Halves

\* What is left of a text after its lines has no newline.
LEMMA RestHasNone ==
    ASSUME NEW B, NEW text \in Seq(B)
    PROVE  Split(text) \in Halves(B) /\ NoNL(Split(text).rest)
<1>1. PICK f : Splits(f, text, B) /\ Split(text) = f[Len(text)]
  BY SplitTaken
<1>2. Len(text) \in Nat
  OBVIOUS
<1> DEFINE T == {i \in 0..Len(text) : NoNL(f[i].rest)}
<1>3. 0 \in T
  BY <1>1, <1>2 DEF Splits, Unsplit, NoNL
<1>4. ASSUME NEW i \in 0..(Len(text) - 1), i \in T PROVE i + 1 \in T
  <2>1. i + 1 \in 1..Len(text) /\ i \in 0..Len(text) /\ i + 1 - 1 = i /\ NoNL(f[i].rest)
    BY <1>4
  <2>2. f[i] \in Halves(B) /\ f[i + 1] = SplitMore(f[i], text[i + 1])
    BY <1>1, <2>1 DEF Splits
  <2>3. f[i].rest \in Seq(B) /\ text[i + 1] \in B
    BY <2>1, <2>2, HalfFields
  <2>4. NoNL(f[i + 1].rest)
    <3>1. CASE text[i + 1] = NL
      BY <2>2, <3>1 DEF SplitMore, NoNL
    <3>2. CASE text[i + 1] # NL
      <4>1. f[i + 1].rest = Append(f[i].rest, text[i + 1])
        BY <2>2, <3>2 DEF SplitMore, Halves
      <4> QED BY <2>1, <2>3, <3>2, <4>1 DEF NoNL
    <3> QED BY <3>1, <3>2
  <2> QED BY <2>1, <2>4
<1> HIDE DEF T
<1>5. 0..Len(text) \subseteq T
  BY <1>2, <1>3, <1>4, UpTo
<1>6. f[Len(text)] \in Halves(B)
  BY <1>1, <1>2 DEF Splits
<1> QED BY <1>1, <1>2, <1>5, <1>6 DEF T

\* A text begins as its first part does.
LEMMA SplitsAlike ==
    ASSUME NEW B, NEW a \in Seq(B), NEW b \in Seq(B), NEW f, NEW g,
           Splits(f, a, B), Splits(g, a \o b, B)
    PROVE  \A i \in 0..Len(a) : g[i] = f[i]
<1>1. /\ Len(a \o b) = Len(a) + Len(b) /\ Len(a) \in Nat /\ Len(b) \in Nat
      /\ \A i \in 1..Len(a) : (a \o b)[i] = a[i]
  OBVIOUS
<1> DEFINE T == {i \in 0..Len(a) : g[i] = f[i]}
<1>2. 0 \in T
  BY <1>1 DEF Splits
<1>3. ASSUME NEW i \in 0..(Len(a) - 1), i \in T PROVE i + 1 \in T
  <2>1. i + 1 \in 1..Len(a) /\ i + 1 \in 1..Len(a \o b) /\ i + 1 - 1 = i /\ g[i] = f[i]
    BY <1>1, <1>3
  <2>2. (a \o b)[i + 1] = a[i + 1]
    BY <1>1, <2>1
  <2>3. g[i + 1] = SplitMore(g[i], a[i + 1])
    BY <2>1, <2>2 DEF Splits
  <2>4. f[i + 1] = SplitMore(f[i], a[i + 1])
    BY <2>1 DEF Splits
  <2> QED BY <2>1, <2>3, <2>4
<1> HIDE DEF T
<1>4. 0..Len(a) \subseteq T
  BY <1>1, <1>2, <1>3, UpTo
<1> QED BY <1>4 DEF T

\* A text without newline is no line yet.
LEMMA SplitNone ==
    ASSUME NEW B, NEW r \in Seq(B), NoNL(r), NEW f, Splits(f, r, B)
    PROVE  f[Len(r)] = [lines |-> <<>>, rest |-> r]
<1>1. Len(r) \in Nat
  OBVIOUS
<1> DEFINE T == {i \in 0..Len(r) : f[i] = [lines |-> <<>>, rest |-> SubSeq(r, 1, i)]}
<1>2. 0 \in T
  <2>1. SubSeq(r, 1, 0) = <<>>
    OBVIOUS
  <2>2. f[0] = [lines |-> <<>>, rest |-> SubSeq(r, 1, 0)]
    BY <2>1 DEF Splits, Unsplit
  <2> QED BY <1>1, <2>2
<1>3. ASSUME NEW i \in 0..(Len(r) - 1), i \in T PROVE i + 1 \in T
  <2>1. /\ i + 1 \in 1..Len(r) /\ i \in 0..Len(r) /\ i + 1 - 1 = i
        /\ f[i] = [lines |-> <<>>, rest |-> SubSeq(r, 1, i)]
    BY <1>1, <1>3
  <2>2. f[i + 1] = SplitMore(f[i], r[i + 1]) /\ r[i + 1] # NL
    BY <2>1 DEF Splits, NoNL
  <2>3. Append(SubSeq(r, 1, i), r[i + 1]) = SubSeq(r, 1, i + 1)
    BY <2>1
  <2>4. SplitMore([lines |-> <<>>, rest |-> SubSeq(r, 1, i)], r[i + 1])
          = [lines |-> <<>>, rest |-> Append(SubSeq(r, 1, i), r[i + 1])]
    BY <2>2 DEF SplitMore
  <2>5. f[i + 1] = [lines |-> <<>>, rest |-> SubSeq(r, 1, i + 1)]
    BY <2>1, <2>2, <2>3, <2>4
  <2> QED BY <2>1, <2>5
<1> HIDE DEF T
<1>4. 0..Len(r) \subseteq T
  BY <1>1, <1>2, <1>3, UpTo
<1>5. SubSeq(r, 1, Len(r)) = r
  OBVIOUS
<1>6. Len(r) \in T
  BY <1>1, <1>4
<1> QED BY <1>5, <1>6 DEF T

\* The lines of one part come before those of another, whose rest remains.
Joined(s, t) == [lines |-> s.lines \o t.lines, rest |-> t.rest]

\* Splitting goes on after a first part as it does after its rest.
LEMMA JoinedMore ==
    ASSUME NEW B, NEW s \in Halves(B), NEW t \in Halves(B), NEW b \in B
    PROVE  SplitMore(Joined(s, t), b) = Joined(s, SplitMore(t, b))
<1>1. /\ s.lines \in Seq(Seq(B)) /\ t.lines \in Seq(Seq(B)) /\ t.rest \in Seq(B)
      /\ t = [lines |-> t.lines, rest |-> t.rest]
  BY HalfFields
<1>2. CASE b = NL
  <2>1. Append(s.lines \o t.lines, t.rest) = s.lines \o Append(t.lines, t.rest)
    <3>1. GoesToSecond(s.lines, t.lines, t.rest)
      BY <1>1, AppendToSecond
    <3> QED BY <3>1 DEF GoesToSecond
  <2>2. SplitMore(Joined(s, t), b)
          = [lines |-> Append(s.lines \o t.lines, t.rest), rest |-> <<>>]
    BY <1>2 DEF SplitMore, Joined
  <2>3. Joined(s, SplitMore(t, b))
          = [lines |-> s.lines \o Append(t.lines, t.rest), rest |-> <<>>]
    BY <1>2 DEF SplitMore, Joined
  <2> QED BY <2>1, <2>2, <2>3
<1>3. CASE b # NL
  <2>1. SplitMore(Joined(s, t), b) = [lines |-> s.lines \o t.lines, rest |-> Append(t.rest, b)]
    BY <1>3 DEF SplitMore, Joined
  <2>2. SplitMore(t, b) = [lines |-> t.lines, rest |-> Append(t.rest, b)]
    BY <1>1, <1>3 DEF SplitMore, Halves
  <2> QED BY <2>1, <2>2 DEF Joined
<1> QED BY <1>2, <1>3

\* So a text may be split piece by piece.
LEMMA SplitParts ==
    ASSUME NEW B, NEW a \in Seq(B), NEW b \in Seq(B)
    PROVE  Split(a \o b) = Joined(Split(a), Split(Split(a).rest \o b))
<1> DEFINE s == Split(a)
           r == s.rest
<1>1. s \in Halves(B) /\ r \in Seq(B) /\ NoNL(r)
  BY RestHasNone, HalfFields
<1>2. PICK f : Splits(f, a, B) /\ s = f[Len(a)]
  BY SplitTaken
<1> HIDE DEF s
<1>3. a \o b \in Seq(B) /\ Len(a \o b) = Len(a) + Len(b) /\ Len(a) \in Nat /\ Len(b) \in Nat
      /\ \A j \in 1..Len(b) : (a \o b)[Len(a) + j] = b[j]
  OBVIOUS
<1>4. r \o b \in Seq(B) /\ Len(r \o b) = Len(r) + Len(b) /\ Len(r) \in Nat
      /\ \A j \in 1..Len(b) : (r \o b)[Len(r) + j] = b[j]
  <2> HIDE DEF r
  <2> QED BY <1>1
<1>5. PICK g : Splits(g, a \o b, B) /\ Split(a \o b) = g[Len(a \o b)]
  BY <1>3, SplitTaken
<1>6. PICK h : Splits(h, r \o b, B) /\ Split(r \o b) = h[Len(r \o b)]
  BY <1>4, SplitTaken
<1>7. g[Len(a)] = s
  <2>1. \A i \in 0..Len(a) : g[i] = f[i]
    BY <1>2, <1>5, SplitsAlike
  <2> QED BY <1>2, <1>3, <2>1
<1>8. h[Len(r)] = [lines |-> <<>>, rest |-> r]
  <2>1. PICK k : Splits(k, r, B)
    BY <1>1, SplitTaken
  <2>2. \A i \in 0..Len(r) : h[i] = k[i]
    BY <1>1, <1>6, <2>1, SplitsAlike
  <2>3. k[Len(r)] = [lines |-> <<>>, rest |-> r]
    BY <1>1, <2>1, SplitNone
  <2> QED BY <1>4, <2>2, <2>3
<1> HIDE DEF r
<1> DEFINE T == {j \in 0..Len(b) : g[Len(a) + j] = Joined(s, h[Len(r) + j])}
<1>9. 0 \in T
  <2>1. Len(a) + 0 = Len(a) /\ Len(r) + 0 = Len(r) /\ 0 \in 0..Len(b)
    BY <1>3, <1>4
  <2>2. s.lines \o <<>> = s.lines /\ s = [lines |-> s.lines, rest |-> s.rest]
    BY <1>1, HalfFields
  <2>3. Joined(s, [lines |-> <<>>, rest |-> r]) = s
    BY <2>2 DEF Joined, r
  <2> QED BY <1>7, <1>8, <2>1, <2>3
<1>10. ASSUME NEW j \in 0..(Len(b) - 1), j \in T PROVE j + 1 \in T
  <2> DEFINE p == Len(a) + (j + 1)
             q == Len(r) + (j + 1)
  <2>1. /\ j + 1 \in 1..Len(b) /\ g[Len(a) + j] = Joined(s, h[Len(r) + j])
        /\ p \in 1..Len(a \o b) /\ p - 1 = Len(a) + j
        /\ q \in 1..Len(r \o b) /\ q - 1 = Len(r) + j /\ Len(r) + j \in 0..Len(r \o b)
    BY <1>3, <1>4, <1>10
  <2>2. (a \o b)[p] = b[j + 1] /\ (r \o b)[q] = b[j + 1] /\ b[j + 1] \in B
    BY <1>3, <1>4, <2>1
  <2> HIDE DEF p, q
  <2>3. g[p] = SplitMore(g[Len(a) + j], b[j + 1])
    BY <1>5, <2>1, <2>2 DEF Splits
  <2>4. h[q] = SplitMore(h[Len(r) + j], b[j + 1]) /\ h[Len(r) + j] \in Halves(B)
    BY <1>6, <2>1, <2>2 DEF Splits
  <2>5. g[p] = Joined(s, h[q])
    <3> DEFINE t == h[Len(r) + j]
    <3>1. g[p] = SplitMore(Joined(s, t), b[j + 1]) /\ h[q] = SplitMore(t, b[j + 1])
          /\ t \in Halves(B)
      BY <2>1, <2>3, <2>4
    <3> HIDE DEF t
    <3> QED BY <1>1, <2>2, <3>1, JoinedMore
  <2> QED BY <2>1, <2>5 DEF p, q
<1> HIDE DEF T
<1>11. 0..Len(b) \subseteq T
  BY <1>3, <1>9, <1>10, UpTo
<1>12. g[Len(a) + Len(b)] = Joined(s, h[Len(r) + Len(b)])
  <2>1. Len(b) \in 0..Len(b)
    BY <1>3
  <2> QED BY <1>11, <2>1 DEF T
<1> QED BY <1>3, <1>4, <1>5, <1>6, <1>12 DEF s, r

-------------------------------------------------------------------------------
(* The reader of a stream *)

\* What has been read is what has come; an execution that does not read has nothing.
WholeSoFar(c) ==
    LET all == Split(SubSeq(c.bytes, 1, c.pos))
    IN IF c.phase = "reading"
         THEN /\ c.bytes \in Replies /\ c.pos \in 0..Len(c.bytes)
              /\ c.acc = Pieces(all.lines) /\ c.buffer = all.rest
         ELSE c.pos = 0 /\ c.acc = <<>> /\ c.buffer = <<>>

StreamInv == /\ IInv
             /\ \A n \in Questions : WholeSoFar(call[n])
             /\ \A e \in history : e.svc \in alive \cup {None}
             /\ sends <= MaxSends /\ mounts <= MaxMounts

LEMMA ReplyBytes ==
    ASSUME NEW bytes \in Replies
    PROVE  bytes \in Seq(Bytes) /\ Len(bytes) \in Nat
  BY PlaygroundAssumption DEF PlaygroundAssumption

LEMMA NothingYet == Split(<<>>) = Unsplit /\ Pieces(<<>>) = <<>>
<1>1. <<>> \in Seq({}) /\ Len(<<>>) = 0
  OBVIOUS
<1>2. PICK f : Splits(f, <<>>, {}) /\ Split(<<>>) = f[Len(<<>>)]
  BY <1>1, SplitTaken
<1>3. PICK g : Looks(g, <<>>) /\ Pieces(<<>>) = g[Len(<<>>)]
  BY <1>1, PiecesLooked
<1> QED BY <1>1, <1>2, <1>3 DEF Splits, Looks

\* The next chunk: its lines are added to those before, and its rest is kept.
LEMMA ChunkRead ==
    ASSUME NEW bytes \in Replies, NEW p \in 0..Len(bytes), NEW k \in 1..(Len(bytes) - p)
    PROVE  LET before == Split(SubSeq(bytes, 1, p))
               more == Split(before.rest \o SubSeq(bytes, p + 1, p + k))
               all == Split(SubSeq(bytes, 1, p + k))
           IN /\ Pieces(all.lines) = Pieces(before.lines) \o Pieces(more.lines)
              /\ all.rest = more.rest
<1> DEFINE a == SubSeq(bytes, 1, p)
           b == SubSeq(bytes, p + 1, p + k)
           before == Split(a)
           more == Split(before.rest \o b)
<1>1. a \in Seq(Bytes) /\ b \in Seq(Bytes)
  BY ReplyBytes
<1>2. a \o b = SubSeq(bytes, 1, p + k)
  <2>1. /\ Len(a) = p /\ Len(b) = k /\ Len(a \o b) = p + k /\ a \o b \in Seq(Bytes)
    BY <1>1, ReplyBytes
  <2>2. SubSeq(bytes, 1, p + k) \in Seq(Bytes) /\ Len(SubSeq(bytes, 1, p + k)) = p + k
    BY ReplyBytes
  <2>3. ASSUME NEW i \in 1..(p + k) PROVE (a \o b)[i] = SubSeq(bytes, 1, p + k)[i]
    <3>1. SubSeq(bytes, 1, p + k)[i] = bytes[i]
      BY ReplyBytes
    <3>2. CASE i <= p
      <4>1. (a \o b)[i] = a[i]
        BY <1>1, <2>1, <3>2
      <4>2. a[i] = bytes[i]
        BY <3>2, ReplyBytes
      <4> QED BY <3>1, <4>1, <4>2
    <3>3. CASE i > p
      <4>1. (a \o b)[i] = b[i - p]
        BY <1>1, <2>1, <3>3
      <4>2. b[i - p] = bytes[i]
        BY <3>3, ReplyBytes
      <4> QED BY <3>1, <4>1, <4>2
    <3> QED BY <3>2, <3>3
  <2> HIDE DEF a, b
  <2> QED BY <2>1, <2>2, <2>3
<1> HIDE DEF a, b
<1>3. Split(a \o b) = Joined(before, more)
  BY <1>1, SplitParts
<1>4. before.rest \o b \in Seq(Bytes) /\ before \in Halves(Bytes)
  <2>1. before \in Halves(Bytes)
    BY <1>1, RestHasNone
  <2>2. before.rest \in Seq(Bytes)
    BY <2>1, HalfFields
  <2> QED BY <1>1, <2>1, <2>2
<1>5. more \in Halves(Bytes)
  BY <1>4, RestHasNone
<1> HIDE DEF before, more
<1>6. before.lines \in Seq(Seq(Bytes)) /\ more.lines \in Seq(Seq(Bytes))
  BY <1>4, <1>5, HalfFields
<1>7. Pieces(before.lines \o more.lines) = Pieces(before.lines) \o Pieces(more.lines)
  BY <1>6, PiecesOfMore, Zenon
<1>8. /\ Pieces(Split(a \o b).lines) = Pieces(before.lines) \o Pieces(more.lines)
      /\ Split(a \o b).rest = more.rest
  BY <1>3, <1>7 DEF Joined
<1> QED BY <1>2, <1>8 DEF a, b, before, more

LEMMA CallOf ==
    ASSUME IInv, NEW n \in Questions
    PROVE  /\ DOMAIN call = Questions
           /\ call[n] \in [phase : {"none", "sent", "served", "reading", "over"},
                           inst : Instances \cup {None}, svc : Services \cup {None},
                           stream : BOOLEAN, bytes : Replies \cup {<<>>}, pos : {call[n].pos},
                           buffer : {call[n].buffer}, acc : {call[n].acc}]
           /\ call = [k \in Questions |-> call[k]]
  BY DEF IInv, Shape, IsExecution

\* One execution goes on.
LEMMA OneGoesOn ==
    ASSUME StreamInv, NEW n \in Questions, NEW c, call' = [call EXCEPT ![n] = c], WholeSoFar(c)
    PROVE  \A k \in Questions : WholeSoFar(call'[k])
<1>1. ASSUME NEW k \in Questions PROVE call'[k] = IF k = n THEN c ELSE call[k]
  BY CallOf DEF StreamInv
<1> QED BY <1>1 DEF StreamInv

LEMMA SendStreams ==
    ASSUME StreamInv, NEW stream \in BOOLEAN, Send(stream)
    PROVE  \A k \in Questions : WholeSoFar(call'[k])
<1> DEFINE c == [NoExecution EXCEPT !.phase = "sent", !.inst = view.inst, !.svc = view.svc,
                                    !.stream = stream]
<1>1. sends' \in Questions
  BY PlaygroundAssumption DEF Send, StreamInv, IInv, Shape, Questions, PlaygroundAssumption
<1>2. call' = [call EXCEPT ![sends'] = c]
  BY DEF Send, Execute
<1>3. WholeSoFar(c)
  BY DEF WholeSoFar, NoExecution
<1> HIDE DEF c
<1> QED BY <1>1, <1>2, <1>3, OneGoesOn

LEMMA ServeStreams ==
    ASSUME StreamInv, NEW n \in Questions, Serve(n)
    PROVE  \A k \in Questions : WholeSoFar(call'[k])
<1>1. IInv /\ WholeSoFar(call[n])
  BY DEF StreamInv
<1>2. CASE Over(n)
  <2> DEFINE c == [NoExecution EXCEPT !.phase = "over"]
  <2>1. WholeSoFar(c)
    BY DEF WholeSoFar, NoExecution
  <2> QED BY <1>2, <2>1, OneGoesOn DEF Over
<1>3. CASE Accept(n)
  <2> DEFINE c == [call[n] EXCEPT !.phase = "served"]
  <2>1. call' = [call EXCEPT ![n] = c] /\ call[n].phase = "sent"
    BY <1>3 DEF Accept
  <2>2. /\ c.phase = "served" /\ c.pos = call[n].pos /\ c.acc = call[n].acc
        /\ c.buffer = call[n].buffer
    BY <1>1, CallOf
  <2>3. WholeSoFar(c)
    <3> HIDE DEF c
    <3> QED BY <1>1, <2>1, <2>2 DEF WholeSoFar
  <2> QED BY <2>1, <2>3, OneGoesOn
<1>4. ASSUME NEW bytes \in Replies, Open(n, bytes)
      PROVE  \A k \in Questions : WholeSoFar(call'[k])
  <2> DEFINE c == [call[n] EXCEPT !.phase = "reading", !.bytes = bytes]
  <2>1. call' = [call EXCEPT ![n] = c] /\ call[n].phase = "served"
    BY <1>1, <1>4, CallOf DEF Open
  <2>2. /\ c.phase = "reading" /\ c.bytes = bytes /\ c.pos = call[n].pos
        /\ c.acc = call[n].acc /\ c.buffer = call[n].buffer
    BY <1>1, CallOf
  <2>3. SubSeq(bytes, 1, 0) = <<>> /\ 0 \in 0..Len(bytes)
    BY ReplyBytes
  <2>4. WholeSoFar(c)
    <3> HIDE DEF c
    <3>1. c.phase = "reading" /\ c.bytes = bytes /\ c.pos = 0 /\ c.acc = <<>> /\ c.buffer = <<>>
      BY <1>1, <2>1, <2>2 DEF WholeSoFar
    <3>2. Split(SubSeq(c.bytes, 1, c.pos)) = Unsplit
      BY <2>3, <3>1, NothingYet
    <3> QED BY <2>3, <3>1, <3>2, NothingYet DEF WholeSoFar, Unsplit
  <2> QED BY <2>1, <2>4, OneGoesOn
<1>5. ASSUME NEW k \in 1..Len(call[n].bytes), Read(n, k)
      PROVE  \A m \in Questions : WholeSoFar(call'[m])
  <2> DEFINE d == call[n]
             s == Split(d.buffer \o SubSeq(d.bytes, d.pos + 1, d.pos + k))
             acc == d.acc \o Pieces(s.lines)
             c == [d EXCEPT !.pos = @ + k, !.buffer = s.rest, !.acc = acc]
  <2>1. /\ d.phase = "reading" /\ k \in 1..(Len(d.bytes) - d.pos)
        /\ call' = [call EXCEPT ![n].pos = @ + k, ![n].buffer = s.rest, ![n].acc = acc]
    BY <1>5 DEF Read
  <2>2. call' = [call EXCEPT ![n] = c]
    BY <1>1, <2>1, CallOf
  <2>3. /\ c.phase = "reading" /\ c.bytes = d.bytes /\ c.pos = d.pos + k
        /\ c.acc = acc /\ c.buffer = s.rest
    BY <1>1, <2>1, CallOf
  <2>4. /\ d.bytes \in Replies /\ d.pos \in 0..Len(d.bytes) /\ Len(d.bytes) \in Nat
        /\ d.acc = Pieces(Split(SubSeq(d.bytes, 1, d.pos)).lines)
        /\ d.buffer = Split(SubSeq(d.bytes, 1, d.pos)).rest
    BY <1>1, <2>1, ReplyBytes DEF WholeSoFar
  <2>5. LET all == Split(SubSeq(d.bytes, 1, d.pos + k))
        IN acc = Pieces(all.lines) /\ s.rest = all.rest
    BY <2>1, <2>4, ChunkRead
  <2>6. d.pos + k \in 0..Len(d.bytes)
    <3>1. d.pos \in 0..Len(d.bytes) /\ Len(d.bytes) \in Nat
      BY <2>4
    <3>2. k \in 1..(Len(d.bytes) - d.pos)
      BY <2>1
    <3> HIDE DEF d, s, acc, c
    <3> QED BY <3>1, <3>2
  <2>7. WholeSoFar(c)
    <3> HIDE DEF c, acc, s
    <3> QED BY <2>3, <2>4, <2>5, <2>6 DEF WholeSoFar
  <2> QED BY <2>2, <2>7, OneGoesOn
<1>6. Serve(n) => Over(n) \/ Accept(n) \/ (\E bytes \in Replies : Open(n, bytes))
                  \/ \E k \in 1..Len(call[n].bytes) : Read(n, k)
  BY DEF Serve, Fail, Finish, Respond
<1> QED BY <1>2, <1>3, <1>4, <1>5, <1>6

-------------------------------------------------------------------------------
(* The invariant *)

LEMMA ShowCounts ==
    ASSUME mounts <= MaxMounts, mounts \in Nat, NEW p, Show(p)
    PROVE  mounts' <= MaxMounts
  BY PlaygroundAssumption DEF Show, PlaygroundAssumption

\* What the user does begins at most one execution, and adds no row to the history.
LEMMA UserStreams ==
    ASSUME StreamInv, User
    PROVE  /\ \A n \in Questions : WholeSoFar(call'[n])
           /\ \A e \in history' : e.svc \in alive' \cup {None}
           /\ sends' <= MaxSends /\ mounts' <= MaxMounts
<1>1. mounts \in Nat /\ sends \in Nat
  BY DEF StreamInv, IInv, Shape
<1>2. ASSUME NEW p, Show(p), UNCHANGED <<Server, call, sends>>
      PROVE  /\ \A n \in Questions : WholeSoFar(call'[n])
             /\ \A e \in history' : e.svc \in alive' \cup {None}
             /\ sends' <= MaxSends /\ mounts' <= MaxMounts
  BY <1>1, <1>2, ShowCounts DEF StreamInv, Server
<1>3. CASE \/ \E listed \in SUBSET alive : LoadServices(listed)
           \/ Reopen \/ SwitchTab \/ (\E s \in Services : Select(s))
           \/ \E e \in page.shown : Replay(e)
  <2>1. (\E p : Show(p)) /\ UNCHANGED <<Server, call, sends>>
    BY <1>3, Zenon DEF LoadServices, Reopen, SwitchTab, Select, Replay
  <2> QED BY <1>2, <2>1
<1>4. CASE \/ LoadHistory \/ (\E e \in page.shown : DeleteEntry(e)) \/ ClearHistory
           \/ Fill \/ Clear \/ Save
  <2>1. history' \subseteq history /\ UNCHANGED <<alive, call, sends, mounts>>
    BY <1>4 DEF LoadHistory, DeleteEntry, ClearHistory, Fill, Clear, Save, Server
  <2> QED BY <2>1 DEF StreamInv
<1>5. ASSUME NEW stream \in BOOLEAN, Send(stream)
      PROVE  /\ \A n \in Questions : WholeSoFar(call'[n])
             /\ \A e \in history' : e.svc \in alive' \cup {None}
             /\ sends' <= MaxSends /\ mounts' <= MaxMounts
  <2>1. sends' <= MaxSends /\ UNCHANGED <<alive, history, mounts>>
    BY <1>1, <1>5, PlaygroundAssumption DEF Send, Server, PlaygroundAssumption
  <2>2. \A n \in Questions : WholeSoFar(call'[n])
    BY <1>5, SendStreams
  <2> QED BY <2>1, <2>2 DEF StreamInv
<1> QED BY <1>3, <1>4, <1>5 DEF User

LEMMA StreamStart == Init => StreamInv
<1> SUFFICES ASSUME Init PROVE StreamInv
  OBVIOUS
<1>1. \A n \in Questions : WholeSoFar(call[n])
  BY DEF Init, WholeSoFar, NoExecution
<1> QED BY <1>1, Starts, PlaygroundAssumption DEF StreamInv, Init, PlaygroundAssumption

LEMMA StreamStep == StreamInv /\ [Next]_vars => StreamInv'
<1> SUFFICES ASSUME StreamInv, [Next]_vars PROVE StreamInv'
  OBVIOUS
<1>1. IInv'
  BY Steps DEF StreamInv
<1>2. CASE User
  BY <1>1, <1>2, UserStreams DEF StreamInv
<1>3. ASSUME NEW n \in Questions, Serve(n) PROVE StreamInv'
  <2>1. UNCHANGED <<alive, history, sends, mounts>>
    BY <1>3 DEF Serve, Accept, Fail, Respond, Open, Read, Finish, Server
  <2>2. \A k \in Questions : WholeSoFar(call'[k])
    BY <1>3, ServeStreams
  <2> QED BY <1>1, <2>1, <2>2 DEF StreamInv
<1>4. ASSUME NEW e \in saves, StoreEntry(e) PROVE StreamInv'
  <2>1. UNCHANGED <<alive, call, sends, mounts>>
        /\ \A d \in history' : d \in history \/ d.svc \in alive
    BY <1>4 DEF StoreEntry
  <2> QED BY <1>1, <2>1 DEF StreamInv
<1>5. ASSUME NEW s \in Services, DeleteService(s) PROVE StreamInv'
  <2>1. /\ alive' = alive \ {s} /\ UNCHANGED <<call, sends, mounts>>
        /\ history' = {IF e.svc = s THEN [e EXCEPT !.svc = None] ELSE e : e \in history}
    BY <1>5 DEF DeleteService
  <2>2. ASSUME NEW e \in history
        PROVE  (IF e.svc = s THEN [e EXCEPT !.svc = None] ELSE e).svc \in alive' \cup {None}
    <3>1. e \in Entries /\ e.svc \in alive \cup {None}
      BY DEF StreamInv, IInv, Shape
    <3> QED BY <2>1, <3>1 DEF Entries
  <2>3. \A d \in history' : d.svc \in alive' \cup {None}
    BY <2>1, <2>2
  <2> QED BY <1>1, <2>1, <2>3 DEF StreamInv
<1>6. CASE UNCHANGED vars
  BY <1>1, <1>6 DEF StreamInv, vars
<1> QED BY <1>2, <1>3, <1>4, <1>5, <1>6 DEF Next

LEMMA StreamMeans == StreamInv => TypeOK /\ StreamWhole
<1> SUFFICES ASSUME StreamInv PROVE TypeOK /\ StreamWhole
  OBVIOUS
<1>1. StreamWhole
  BY DEF StreamInv, WholeSoFar, StreamWhole
<1>2. ASSUME NEW n \in Questions
      PROVE  /\ call[n].pos \in Nat /\ call[n].buffer \in Seq(Bytes)
             /\ call[n].acc \in Seq(DataLines)
  <2>1. CASE call[n].phase = "reading"
    <3> DEFINE text == SubSeq(call[n].bytes, 1, call[n].pos)
    <3>1. /\ call[n].bytes \in Replies /\ call[n].pos \in 0..Len(call[n].bytes)
          /\ call[n].acc = Pieces(Split(text).lines) /\ call[n].buffer = Split(text).rest
      BY <2>1 DEF StreamInv, WholeSoFar
    <3>2. text \in Seq(Bytes) /\ call[n].pos \in Nat
      BY <3>1, ReplyBytes
    <3> HIDE DEF text
    <3>3. Split(text).lines \in Seq(Seq(Bytes)) /\ Split(text).rest \in Seq(Bytes)
      BY <3>2, RestHasNone, HalfFields
    <3> QED BY <3>1, <3>2, <3>3, PiecesOfMore, Zenon
  <2>2. CASE call[n].phase # "reading"
    <3>1. call[n].pos = 0 /\ call[n].acc = <<>> /\ call[n].buffer = <<>>
      BY <2>2 DEF StreamInv, WholeSoFar
    <3> QED BY <3>1
  <2> QED BY <2>1, <2>2
<1>3. call \in [Questions -> Executions]
  <2>1. \A n \in Questions : call[n] \in Executions
    BY <1>2, CallOf DEF StreamInv, Executions
  <2>2. call = [k \in Questions |-> call[k]]
    BY DEF StreamInv, IInv, Shape
  <2> QED BY <2>1, <2>2
<1>4. view \in Views \cup {None}
  <2>1. ASSUME view # None PROVE view.partial \in Seq(DataLines)
    <3>1. (\E n \in Questions : view.partial = call[n].acc) \/ view.partial = <<>>
      BY <2>1, Zenon DEF StreamInv, IInv, ViewOK, Waiting, Resting
    <3>2. ASSUME NEW n \in Questions, view.partial = call[n].acc
          PROVE  view.partial \in Seq(DataLines)
      BY <1>2, <3>2
    <3>3. <<>> \in Seq(DataLines)
      OBVIOUS
    <3> QED BY <3>1, <3>2, <3>3
  <2> QED BY <2>1 DEF StreamInv, IInv, Shape, IsView, Views
<1>5. /\ alive \subseteq Services /\ saves \subseteq Entries /\ page \in Pages
      /\ history \subseteq {e \in Entries : e.svc \in alive \cup {None}}
      /\ sends \in 0..MaxSends /\ mounts \in 0..MaxMounts
  BY PlaygroundAssumption DEF StreamInv, IInv, Shape, PlaygroundAssumption
<1> QED BY <1>1, <1>3, <1>4, <1>5 DEF TypeOK

\* Rows of the history belong to services that are there, and all that is known of a stream
\* is of its type, however many questions are asked and whatever is replied.
THEOREM PlaygroundType == Spec => []TypeOK
  BY StreamStart, StreamStep, StreamMeans, PTL DEF Spec

\* For any stream and however the network cuts it (playgroundStream): what has accumulated are
\* the pieces of the lines that have come, each once, and what waits is the rest of them.
THEOREM StreamsWhole == Spec => []StreamWhole
  BY StreamStart, StreamStep, StreamMeans, PTL DEF Spec
===============================================================================
