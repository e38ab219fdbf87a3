---------------------------- MODULE AdminPanel_proofs ----------------------------
(***************************************************************************)
(* Theorems about the admin interface, for any number of calls, services,    *)
(* groups, periods, users and tabs; those of the page of API keys are in a     *)
(* module of their own. For each page there is an inductive invariant that     *)
(* says which calls may be under way with the state the page is in; ghosts     *)
(* such as jumbled and raced excuse it from the moment on that answers cross.  *)
(* The interface visits one page at a time, so that it keeps all of them.     *)
(***************************************************************************)
EXTENDS AdminPanel, ApiKeys_proofs

-------------------------------------------------------------------------------
(*****************************************************************************)
(* The dashboard                                                             *)
(*****************************************************************************)

\* What a load of this kind is for when s is selected.
Selected(f, s) == IF f = "logs" THEN s.query ELSE s.hours

\* The newest load of each kind is for what is selected, or, if there is none, what is seen.
LoadsFit ==
    \A f \in DashLoads :
        /\ ~Pending(dashCalls, {f}) => seen[f] = Selected(f, sel)
        /\ \A i \in DOMAIN dashCalls :
             dashCalls[i].kind = f /\ Newest(dashCalls, i) => dashCalls[i].of = Selected(f, sel)

\* All calls of a kind are about one of these.
AllAbout(calls, kind, abouts) ==
    \A i \in DOMAIN calls : calls[i].kind = kind => calls[i].of \in abouts

\* The one analysis that is shown or under way, when it was asked for in these details.
AnalysesFit ==
    /\ sel.log # None /\ texts.analysis \in {None, sel.log}
    /\ AllAbout(dashCalls, "analysis", {sel.log})

DashInv ==
    /\ DashTypeOK
    /\ Single(dashCalls, "summary") /\ Single(dashCalls, "analysis")
    /\ DashSpinners
    /\ ~jumbled => LoadsFit
    /\ asked => AnalysesFit

-------------------------------------------------------------------------------
(* The calls *)

LEMMA DashKinds ==
    ASSUME NEW c \in DashCalls
    PROVE  /\ c.kind \in DashLoads \cup {"summary", "analysis"}
           /\ c.kind \in Figures => c.of \in Periods
           /\ c.kind = "logs" => c.of \in Queries
           /\ c.kind = "summary" => c.of \in Periods
           /\ c.kind = "analysis" => c.of \in Logs
  BY DEF DashCalls, DashLoads, Figures

LEMMA FetchType ==
    /\ \A f \in Figures, h \in Periods : Fetch(f, h) \in Seq(DashCalls)
    /\ \A q \in Queries : Fetch("logs", q) \in Seq(DashCalls)
    /\ \A h \in Periods : Fetch("summary", h) \in Seq(DashCalls)
    /\ \A l \in Logs : Fetch("analysis", l) \in Seq(DashCalls)
  BY DEF Fetch, DashCalls

\* All that is sent at once, or none of it, is of one kind.
LEMMA FetchedCall ==
    ASSUME NEW kind, NEW of
    PROVE  /\ DOMAIN Fetch(kind, of) = {1}
           /\ Fetch(kind, of)[1].kind = kind /\ Fetch(kind, of)[1].of = of
  BY DEF Fetch

\* What load() sends: one call of each kind, for what is selected.
LEMMA LoadDashSent ==
    ASSUME NEW h \in Periods, sel.query \in Queries
    PROVE  /\ LoadDash(h) \in Seq(DashCalls) /\ DOMAIN LoadDash(h) = {1, 2, 3}
           /\ LoadDash(h)[1].kind = "overview" /\ LoadDash(h)[1].of = h
           /\ LoadDash(h)[2].kind = "byService" /\ LoadDash(h)[2].of = h
           /\ LoadDash(h)[3].kind = "logs" /\ LoadDash(h)[3].of = sel.query
<1> DEFINE overview == [kind |-> "overview", of |-> h]
           byService == [kind |-> "byService", of |-> h]
           logs == [kind |-> "logs", of |-> sel.query]
<1>1. LoadDash(h) = <<overview, byService, logs>>
  BY Joined DEF LoadDash, LoadFigures, Fetch
<1>2. {overview, byService, logs} \subseteq DashCalls
  BY DEF DashCalls, Figures
<1>3. /\ overview.kind = "overview" /\ overview.of = h /\ byService.kind = "byService"
      /\ byService.of = h /\ logs.kind = "logs" /\ logs.of = sel.query
  OBVIOUS
<1> HIDE DEF overview, byService, logs
<1> QED BY <1>1, <1>2, <1>3

-------------------------------------------------------------------------------
(* Types *)

LEMMA DashAnswered ==
    ASSUME DashTypeOK, NEW i \in DOMAIN dashCalls
    PROVE  dashCalls[i] \in DashCalls /\ RemoveAt(dashCalls, i) \in Seq(DashCalls)
  BY CallIn, CallsLeft DEF DashTypeOK

LEMMA DashTypeStep == DashTypeOK /\ [DashNext]_dashVars => DashTypeOK'
<1> SUFFICES ASSUME DashTypeOK, [DashNext]_dashVars PROVE DashTypeOK'
  OBVIOUS
<1> DEFINE Texts == [summary : Periods \cup {None}, analysis : Logs \cup {None},
                     summing : BOOLEAN, analysing : BOOLEAN]
<1>1. /\ sel \in [hours : Periods, query : Queries, log : Logs \cup {None}]
      /\ texts \in Texts /\ dashCalls \in Seq(DashCalls)
      /\ sel.query \in Queries /\ sel.hours \in Periods /\ jumbled \in BOOLEAN /\ asked \in BOOLEAN
  BY DEF DashTypeOK
<1>2. CASE UNCHANGED dashVars
  BY <1>2 DEF dashVars, DashTypeOK
<1>3. ASSUME NEW h \in Periods, PickHours(h) PROVE DashTypeOK'
  <2>1. dashCalls' = dashCalls \o LoadDash(h) /\ sel' = [sel EXCEPT !.hours = h]
        /\ UNCHANGED <<seen, texts, jumbled, asked>>
    BY <1>3 DEF PickHours, CallDash
  <2>2. LoadDash(h) \in Seq(DashCalls)
    BY <1>1, LoadDashSent
  <2>3. dashCalls' \in Seq(DashCalls)
    BY <1>1, <2>1, <2>2, AllThere
  <2> QED BY <1>1, <2>1, <2>3 DEF DashTypeOK
<1>4. ASSUME NEW q \in Queries, PickQuery(q) PROVE DashTypeOK'
  <2>1. dashCalls' = dashCalls \o Fetch("logs", q) /\ sel' = [sel EXCEPT !.query = q]
        /\ UNCHANGED <<seen, texts, jumbled, asked>>
    BY <1>4 DEF PickQuery, CallDash
  <2>2. dashCalls' \in Seq(DashCalls)
    BY <1>1, <2>1, FetchType, AllThere
  <2> QED BY <1>1, <2>1, <2>2 DEF DashTypeOK
<1>5. ASSUME NEW l \in Logs, OpenLog(l) PROVE DashTypeOK'
  BY <1>5 DEF OpenLog, DashTypeOK
<1>6. CASE CloseLog
  <2>1. sel' = [sel EXCEPT !.log = None] /\ texts' = [texts EXCEPT !.analysis = None]
        /\ asked' = FALSE /\ UNCHANGED <<seen, dashCalls, jumbled>>
    BY <1>6 DEF CloseLog
  <2>2. texts' \in Texts
    BY <1>1, <2>1
  <2> QED BY <1>1, <2>1, <2>2 DEF DashTypeOK
<1>7. CASE Summarize
  <2>1. dashCalls' = dashCalls \o Fetch("summary", sel.hours)
        /\ texts' = [texts EXCEPT !.summary = None, !.summing = TRUE]
        /\ UNCHANGED <<sel, seen, jumbled, asked>>
    BY <1>7 DEF Summarize, CallDash
  <2>2. texts' \in Texts
    BY <1>1, <2>1
  <2>3. dashCalls' \in Seq(DashCalls)
    BY <1>1, <2>1, FetchType, AllThere
  <2> QED BY <1>1, <2>1, <2>2, <2>3 DEF DashTypeOK
<1>8. CASE Analyze
  <2>1. dashCalls' = dashCalls \o Fetch("analysis", sel.log) /\ sel.log # None
        /\ texts' = [texts EXCEPT !.analysis = None, !.analysing = TRUE]
        /\ asked' = TRUE /\ UNCHANGED <<sel, seen, jumbled>>
    BY <1>8 DEF Analyze, CallDash
  <2>2. dashCalls' \in Seq(DashCalls)
    BY <1>1, <2>1, FetchType, AllThere
  <2>3. texts' \in Texts
    BY <1>1, <2>1
  <2> QED BY <1>1, <2>1, <2>2, <2>3 DEF DashTypeOK
<1>9. ASSUME NEW i \in DOMAIN dashCalls, AnswerDash(i) PROVE DashTypeOK'
  <2> DEFINE c == dashCalls[i]
  <2>1. c \in DashCalls /\ dashCalls' \in Seq(DashCalls) /\ UNCHANGED <<sel, asked>>
    BY <1>9, DashAnswered DEF AnswerDash
  <2>2. jumbled' \in BOOLEAN
    BY <1>1, <1>9, Zenon DEF AnswerDash
  <2>3. seen' = IF c.kind \in DashLoads THEN [seen EXCEPT ![c.kind] = c.of] ELSE seen
    BY <1>9 DEF AnswerDash
  <2>4. seen' \in [overview : Periods \cup {None}, byService : Periods \cup {None},
                   logs : Queries \cup {None}]
    BY <2>1, <2>3, DashKinds DEF DashTypeOK, DashLoads, Figures
  <2>5. texts' = CASE c.kind = "summary" -> [texts EXCEPT !.summary = c.of, !.summing = FALSE]
                   [] c.kind = "analysis" -> [texts EXCEPT !.analysis = c.of, !.analysing = FALSE]
                   [] OTHER -> texts
    BY <1>9 DEF AnswerDash
  <2>6. texts' \in Texts
    <3>1. CASE c.kind = "summary"
      BY <1>1, <2>1, <2>5, <3>1, DashKinds
    <3>2. CASE c.kind = "analysis"
      BY <1>1, <2>1, <2>5, <3>2, DashKinds
    <3>3. CASE c.kind \notin {"summary", "analysis"}
      BY <1>1, <2>5, <3>3
    <3> QED BY <3>1, <3>2, <3>3
  <2> QED BY <1>1, <2>1, <2>2, <2>4, <2>6 DEF DashTypeOK
<1>10. ASSUME NEW i \in DOMAIN dashCalls, FailDash(i) PROVE DashTypeOK'
  <2> DEFINE c == dashCalls[i]
             summing == texts.summing /\ c.kind # "summary"
             analysing == texts.analysing /\ c.kind # "analysis"
  <2>1. dashCalls' \in Seq(DashCalls) /\ UNCHANGED <<sel, seen, asked>>
    BY <1>10, DashAnswered DEF FailDash
  <2>2. jumbled' \in BOOLEAN
    BY <1>1, <1>10, Zenon DEF FailDash
  <2>3. summing \in BOOLEAN /\ analysing \in BOOLEAN
    BY Zenon
  <2>4. texts' = [texts EXCEPT !.summing = summing, !.analysing = analysing]
    BY <1>10, Zenon DEF FailDash
  <2> HIDE DEF summing, analysing
  <2>5. texts' \in Texts
    BY <1>1, <2>3, <2>4
  <2> QED BY <1>1, <2>1, <2>2, <2>5 DEF DashTypeOK
<1> QED BY <1>2, <1>3, <1>4, <1>5, <1>6, <1>7, <1>8, <1>9, <1>10 DEF DashNext, ReplyDash

-------------------------------------------------------------------------------
(* The spinners *)

OneOfEach == Single(dashCalls, "summary") /\ Single(dashCalls, "analysis")

LEMMA FetchedKind ==
    ASSUME NEW kind, NEW of
    PROVE  /\ \A kinds : Pending(Fetch(kind, of), kinds) <=> kind \in kinds
           /\ \A k : Single(Fetch(kind, of), k)
  BY FetchedCall DEF Pending, Single

LEMMA LoadDashKinds ==
    ASSUME NEW h \in Periods, sel.query \in Queries
    PROVE  /\ \A kinds : Pending(LoadDash(h), kinds) <=> kinds \cap DashLoads # {}
           /\ \A k : k \notin DashLoads => Single(LoadDash(h), k)
<1>1. DashLoads = {"overview", "byService", "logs"}
  BY DEF DashLoads, Figures
<1>2. /\ DOMAIN LoadDash(h) = {1, 2, 3} /\ LoadDash(h)[1].kind = "overview"
      /\ LoadDash(h)[2].kind = "byService" /\ LoadDash(h)[3].kind = "logs"
  BY LoadDashSent
<1> DEFINE load == LoadDash(h)
<1> HIDE DEF load
<1>3. ASSUME NEW kinds PROVE Pending(load, kinds) <=> kinds \cap DashLoads # {}
  BY <1>1, <1>2 DEF Pending, load
<1>4. ASSUME NEW k, k \notin DashLoads PROVE Single(load, k)
  BY <1>1, <1>2, <1>4 DEF Single, load
<1> QED BY <1>3, <1>4 DEF load

\* What is sent, but for the AI, has no spinner.
LEMMA SpinnersOnSend ==
    ASSUME DashTypeOK, OneOfEach, DashSpinners, NEW more \in Seq(DashCalls),
           dashCalls' = dashCalls \o more, UNCHANGED texts,
           ~Pending(more, {"summary"}), ~Pending(more, {"analysis"})
    PROVE  OneOfEach' /\ DashSpinners'
<1>1. dashCalls \in Seq(DashCalls)
  BY DEF DashTypeOK
<1>2. Single(more, "summary") /\ Single(more, "analysis")
  BY DEF Single, Pending
<1>3. OneOfEach'
  BY <1>1, <1>2, SingleMore DEF OneOfEach
<1>4. /\ Pending(dashCalls, {"summary"})' <=> Pending(dashCalls, {"summary"})
      /\ Pending(dashCalls, {"analysis"})' <=> Pending(dashCalls, {"analysis"})
  BY <1>1, PendingMore
<1> QED BY <1>3, <1>4 DEF DashSpinners

\* An AI button that is enabled has no call under way.
LEMMA SpinnersOnAsk ==
    ASSUME DashTypeOK, OneOfEach, DashSpinners, Summarize \/ Analyze
    PROVE  OneOfEach' /\ DashSpinners'
<1>1. dashCalls \in Seq(DashCalls)
  BY DEF DashTypeOK
<1>2. CASE Summarize
  <2>1. dashCalls' = dashCalls \o Fetch("summary", sel.hours) /\ sel.hours \in Periods
    BY <1>2 DEF Summarize, CallDash, DashTypeOK
  <2>2. ~Pending(dashCalls, {"summary"})
    BY <1>2 DEF Summarize, DashSpinners
  <2>3. OneOfEach'
    BY <1>1, <2>1, <2>2, FetchType, FetchedKind, SingleMore DEF OneOfEach
  <2>4. /\ Pending(dashCalls, {"summary"})'
        /\ Pending(dashCalls, {"analysis"})' <=> Pending(dashCalls, {"analysis"})
    BY <1>1, <2>1, FetchType, FetchedKind, PendingMore
  <2>5. texts'.summing = TRUE /\ texts'.analysing = texts.analysing
    BY <1>2 DEF Summarize, DashTypeOK
  <2> QED BY <2>3, <2>4, <2>5 DEF DashSpinners
<1>3. CASE Analyze
  <2>1. dashCalls' = dashCalls \o Fetch("analysis", sel.log) /\ sel.log \in Logs
    BY <1>3 DEF Analyze, CallDash, DashTypeOK
  <2>2. ~Pending(dashCalls, {"analysis"})
    BY <1>3 DEF Analyze, DashSpinners
  <2>3. OneOfEach'
    BY <1>1, <2>1, <2>2, FetchType, FetchedKind, SingleMore DEF OneOfEach
  <2>4. /\ Pending(dashCalls, {"analysis"})'
        /\ Pending(dashCalls, {"summary"})' <=> Pending(dashCalls, {"summary"})
    BY <1>1, <2>1, FetchType, FetchedKind, PendingMore
  <2>5. texts'.analysing = TRUE /\ texts'.summing = texts.summing
    BY <1>3 DEF Analyze, DashTypeOK
  <2> QED BY <2>3, <2>4, <2>5 DEF DashSpinners
<1> QED BY <1>2, <1>3

\* The one call of its kind is over, and its spinner too.
LEMMA SpinnersOnReply ==
    ASSUME DashTypeOK, OneOfEach, DashSpinners, NEW i \in DOMAIN dashCalls, ReplyDash(i)
    PROVE  OneOfEach' /\ DashSpinners'
<1> DEFINE c == dashCalls[i]
<1>1. dashCalls \in Seq(DashCalls) /\ dashCalls' = RemoveAt(dashCalls, i)
  BY DEF DashTypeOK, ReplyDash, AnswerDash, FailDash
<1>2. OneOfEach'
  BY <1>1, SingleLeft DEF OneOfEach
<1>3. /\ texts'.summing <=> texts.summing /\ c.kind # "summary"
      /\ texts'.analysing <=> texts.analysing /\ c.kind # "analysis"
  <2>1. CASE AnswerDash(i)
    <3>1. CASE c.kind = "summary"
      BY <2>1, <3>1 DEF AnswerDash, DashTypeOK
    <3>2. CASE c.kind = "analysis"
      BY <2>1, <3>2 DEF AnswerDash, DashTypeOK
    <3>3. CASE c.kind \notin {"summary", "analysis"}
      BY <2>1, <3>3 DEF AnswerDash
    <3> QED BY <3>1, <3>2, <3>3
  <2>2. CASE FailDash(i)
    BY <2>2 DEF FailDash, DashTypeOK
  <2> QED BY <2>1, <2>2 DEF ReplyDash
<1>4. ASSUME NEW kind \in {"summary", "analysis"}
      PROVE  Pending(dashCalls, {kind})' <=> Pending(dashCalls, {kind}) /\ c.kind # kind
  BY <1>1, PendingLeft, SingleLeft DEF OneOfEach
<1> QED BY <1>2, <1>3, <1>4 DEF DashSpinners

LEMMA SpinnersStep ==
    DashTypeOK /\ OneOfEach /\ DashSpinners /\ [DashNext]_dashVars => OneOfEach' /\ DashSpinners'
<1> SUFFICES ASSUME DashTypeOK, OneOfEach, DashSpinners, [DashNext]_dashVars
             PROVE  OneOfEach' /\ DashSpinners'
  OBVIOUS
<1>1. sel.query \in Queries /\ dashCalls \in Seq(DashCalls)
  BY DEF DashTypeOK
<1>2. CASE UNCHANGED dashVars
  BY <1>2 DEF dashVars, OneOfEach, DashSpinners
<1>3. ASSUME NEW h \in Periods, PickHours(h) PROVE OneOfEach' /\ DashSpinners'
  <2>1. dashCalls' = dashCalls \o LoadDash(h) /\ UNCHANGED texts
    BY <1>3 DEF PickHours, CallDash
  <2>2. ~Pending(LoadDash(h), {"summary"}) /\ ~Pending(LoadDash(h), {"analysis"})
    BY <1>1, LoadDashKinds DEF DashLoads, Figures
  <2> QED BY <1>1, <2>1, <2>2, LoadDashSent, SpinnersOnSend
<1>4. ASSUME NEW q \in Queries, PickQuery(q) PROVE OneOfEach' /\ DashSpinners'
  <2>1. dashCalls' = dashCalls \o Fetch("logs", q) /\ UNCHANGED texts
    BY <1>4 DEF PickQuery, CallDash
  <2>2. ~Pending(Fetch("logs", q), {"summary"}) /\ ~Pending(Fetch("logs", q), {"analysis"})
    BY FetchedKind
  <2> QED BY <2>1, <2>2, FetchType, SpinnersOnSend
<1>5. ASSUME NEW l \in Logs, OpenLog(l) PROVE OneOfEach' /\ DashSpinners'
  BY <1>5 DEF OpenLog, OneOfEach, DashSpinners
<1>6. CASE CloseLog
  <2>1. texts'.summing = texts.summing /\ texts'.analysing = texts.analysing
        /\ UNCHANGED dashCalls
    BY <1>6 DEF CloseLog, DashTypeOK
  <2> QED BY <2>1 DEF OneOfEach, DashSpinners
<1> QED BY <1>2, <1>3, <1>4, <1>5, <1>6, SpinnersOnAsk, SpinnersOnReply DEF DashNext

-------------------------------------------------------------------------------
(* What is selected *)

\* Calls are sent for what is selected now, and for all that has changed.
LEMMA LoadsOnSend ==
    ASSUME DashTypeOK, LoadsFit, NEW more \in Seq(DashCalls),
           dashCalls' = dashCalls \o more, UNCHANGED seen,
           \A m \in DOMAIN more :
             more[m].kind \in DashLoads => more[m].of = Selected(more[m].kind, sel'),
           \A f \in DashLoads : Selected(f, sel') = Selected(f, sel) \/ Pending(more, {f})
    PROVE  LoadsFit'
<1>1. dashCalls \in Seq(DashCalls)
  BY DEF DashTypeOK
<1> SUFFICES ASSUME NEW f \in DashLoads
             PROVE  /\ ~Pending(dashCalls, {f})' => seen'[f] = Selected(f, sel')
                    /\ \A i \in DOMAIN dashCalls' :
                         dashCalls'[i].kind = f /\ Newest(dashCalls, i)'
                           => dashCalls'[i].of = Selected(f, sel')
  BY Zenon DEF LoadsFit
<1>2. ASSUME ~Pending(dashCalls, {f})' PROVE seen'[f] = Selected(f, sel')
  <2>1. ~Pending(dashCalls, {f}) /\ ~Pending(more, {f})
    BY <1>1, <1>2, PendingMore
  <2> QED BY <2>1 DEF LoadsFit
<1>3. ASSUME NEW i \in DOMAIN dashCalls', dashCalls'[i].kind = f, Newest(dashCalls', i)
      PROVE  dashCalls'[i].of = Selected(f, sel')
  <2>1. CASE Newest(dashCalls, i) /\ dashCalls'[i] = dashCalls[i] /\ ~Pending(more, {f})
    <3>1. i \in DOMAIN dashCalls /\ dashCalls[i].kind = f
      BY <1>3, <2>1 DEF Newest
    <3> QED BY <2>1, <3>1 DEF LoadsFit
  <2>2. ASSUME NEW m \in DOMAIN more, dashCalls'[i] = more[m]
        PROVE  dashCalls'[i].of = Selected(f, sel')
    BY <1>3, <2>2
  <2> QED BY <1>1, <1>3, <2>1, <2>2, NewestMore
<1> QED BY <1>2, <1>3

\* A load is shown that no older one of its kind can follow.
LEMMA LoadsOnAnswer ==
    ASSUME DashTypeOK, LoadsFit, NEW i \in DOMAIN dashCalls, ~Overtakes(dashCalls, i),
           dashCalls[i].kind \in DashLoads, dashCalls' = RemoveAt(dashCalls, i),
           seen' = [seen EXCEPT ![dashCalls[i].kind] = dashCalls[i].of], UNCHANGED sel
    PROVE  LoadsFit'
<1> DEFINE kind == dashCalls[i].kind
<1>1. dashCalls \in Seq(DashCalls)
  BY DEF DashTypeOK
<1> SUFFICES ASSUME NEW f \in DashLoads
             PROVE  /\ ~Pending(dashCalls, {f})' => seen'[f] = Selected(f, sel')
                    /\ \A j \in DOMAIN dashCalls' :
                         dashCalls'[j].kind = f /\ Newest(dashCalls, j)'
                           => dashCalls'[j].of = Selected(f, sel')
  BY Zenon DEF LoadsFit
<1>2. Selected(f, sel') = Selected(f, sel)
  BY DEF Selected
<1>3. ASSUME ~Pending(dashCalls, {f})' PROVE seen'[f] = Selected(f, sel')
  <2>1. CASE f = kind
    <3>1. Newest(dashCalls, i)
      BY <1>1, <1>3, <2>1, LastIsNewest
    <3>2. dashCalls[i].of = Selected(f, sel)
      BY <2>1, <3>1 DEF LoadsFit
    <3>3. f \in DOMAIN seen
      BY DEF DashTypeOK, DashLoads, Figures
    <3> QED BY <1>2, <2>1, <3>2, <3>3
  <2>2. CASE f # kind
    <3>1. ~Pending(dashCalls, {f})
      BY <1>1, <1>3, <2>2, PendingLeft
    <3> QED BY <1>2, <2>2, <3>1 DEF LoadsFit
  <2> QED BY <2>1, <2>2
<1>4. ASSUME NEW j \in DOMAIN dashCalls', dashCalls'[j].kind = f, Newest(dashCalls', j)
      PROVE  dashCalls'[j].of = Selected(f, sel')
  <2>1. PICK m \in DOMAIN dashCalls : Newest(dashCalls, m) /\ dashCalls[m] = dashCalls'[j]
    BY <1>1, <1>4, NewestLeft
  <2> QED BY <1>2, <1>4, <2>1 DEF LoadsFit
<1> QED BY <1>3, <1>4

\* What comes from the AI, or does not come from it, has nothing to do with them.
LEMMA LoadsOnText ==
    ASSUME DashTypeOK, LoadsFit, NEW i \in DOMAIN dashCalls,
           dashCalls[i].kind \notin DashLoads, dashCalls' = RemoveAt(dashCalls, i),
           UNCHANGED <<seen, sel>>
    PROVE  LoadsFit'
<1>1. dashCalls \in Seq(DashCalls)
  BY DEF DashTypeOK
<1> SUFFICES ASSUME NEW f \in DashLoads
             PROVE  /\ ~Pending(dashCalls, {f})' => seen'[f] = Selected(f, sel')
                    /\ \A j \in DOMAIN dashCalls' :
                         dashCalls'[j].kind = f /\ Newest(dashCalls, j)'
                           => dashCalls'[j].of = Selected(f, sel')
  BY Zenon DEF LoadsFit
<1>2. Selected(f, sel') = Selected(f, sel)
  BY DEF Selected
<1>3. ASSUME ~Pending(dashCalls, {f})' PROVE seen'[f] = Selected(f, sel')
  <2>1. ~Pending(dashCalls, {f})
    BY <1>1, <1>3, PendingLeft
  <2> QED BY <1>2, <2>1 DEF LoadsFit
<1>4. ASSUME NEW j \in DOMAIN dashCalls', dashCalls'[j].kind = f, Newest(dashCalls', j)
      PROVE  dashCalls'[j].of = Selected(f, sel')
  <2>1. PICK m \in DOMAIN dashCalls : Newest(dashCalls, m) /\ dashCalls[m] = dashCalls'[j]
    BY <1>1, <1>4, NewestLeft
  <2> QED BY <1>2, <1>4, <2>1 DEF LoadsFit
<1> QED BY <1>3, <1>4

LEMMA LoadsStep ==
    DashTypeOK /\ (~jumbled => LoadsFit) /\ [DashNext]_dashVars => (~jumbled => LoadsFit)'
<1> SUFFICES ASSUME DashTypeOK, ~jumbled => LoadsFit, [DashNext]_dashVars, ~jumbled'
             PROVE  LoadsFit'
  OBVIOUS
<1>1. /\ sel.query \in Queries /\ sel.hours \in Periods /\ sel.log \in Logs \cup {None}
      /\ dashCalls \in Seq(DashCalls)
  BY DEF DashTypeOK
<1>2. CASE UNCHANGED dashVars
  BY <1>2, Zenon DEF dashVars, LoadsFit, Selected, Pending, Newest
<1>3. ASSUME NEW h \in Periods, PickHours(h) PROVE LoadsFit'
  <2>1. /\ dashCalls' = dashCalls \o LoadDash(h) /\ UNCHANGED <<seen, jumbled>>
        /\ sel' = [sel EXCEPT !.hours = h]
    BY <1>3 DEF PickHours, CallDash
  <2>2. sel'.hours = h /\ sel'.query = sel.query
    BY <2>1 DEF DashTypeOK
  <2> DEFINE load == LoadDash(h)
  <2>3. /\ load \in Seq(DashCalls) /\ DOMAIN load = {1, 2, 3}
        /\ load[1].kind = "overview" /\ load[1].of = h
        /\ load[2].kind = "byService" /\ load[2].of = h
        /\ load[3].kind = "logs" /\ load[3].of = sel.query
    BY <1>1, LoadDashSent
  <2>4. \A f \in DashLoads : Pending(load, {f})
    BY <1>1, LoadDashKinds
  <2> HIDE DEF load
  <2>5. \A m \in DOMAIN load : load[m].of = Selected(load[m].kind, sel')
    BY <2>2, <2>3 DEF Selected
  <2> QED BY <2>1, <2>3, <2>4, <2>5, LoadsOnSend DEF load
<1>4. ASSUME NEW q \in Queries, PickQuery(q) PROVE LoadsFit'
  <2> DEFINE more == Fetch("logs", q)
  <2>1. /\ dashCalls' = dashCalls \o more /\ UNCHANGED <<seen, jumbled>>
        /\ sel' = [sel EXCEPT !.query = q]
    BY <1>4 DEF PickQuery, CallDash
  <2>2. sel'.query = q /\ sel'.hours = sel.hours
    BY <2>1 DEF DashTypeOK
  <2>3. \A m \in DOMAIN more : more[m].of = Selected(more[m].kind, sel')
    BY <2>2, FetchedCall DEF Selected
  <2>4. \A f \in DashLoads : Selected(f, sel') = Selected(f, sel) \/ Pending(more, {f})
    BY <2>2, FetchedKind DEF Selected
  <2>5. more \in Seq(DashCalls)
    BY FetchType
  <2> HIDE DEF more
  <2> QED BY <2>1, <2>3, <2>4, <2>5, LoadsOnSend
<1>5. ASSUME Summarize \/ Analyze PROVE LoadsFit'
  <2>1. PICK kind \in {"summary", "analysis"}, of \in Periods \cup Logs :
          Fetch(kind, of) \in Seq(DashCalls) /\ dashCalls' = dashCalls \o Fetch(kind, of)
    <3>1. CASE Summarize
      BY <1>1, <3>1, FetchType DEF Summarize, CallDash
    <3>2. CASE Analyze
      BY <1>1, <3>2, FetchType DEF Analyze, CallDash
    <3> QED BY <1>5, <3>1, <3>2
  <2>2. UNCHANGED <<seen, sel, jumbled>>
    BY <1>5 DEF Summarize, Analyze
  <2>3. \A m \in DOMAIN Fetch(kind, of) : Fetch(kind, of)[m].kind \notin DashLoads
    BY FetchedCall DEF DashLoads, Figures
  <2>4. \A f \in DashLoads : Selected(f, sel') = Selected(f, sel)
    BY <2>2 DEF Selected
  <2> QED BY <2>1, <2>2, <2>3, <2>4, LoadsOnSend
<1>6. ASSUME CloseLog \/ \E l \in Logs : OpenLog(l) PROVE LoadsFit'
  <2>1. UNCHANGED <<dashCalls, seen, jumbled>> /\ sel'.hours = sel.hours
        /\ sel'.query = sel.query
    BY <1>6 DEF CloseLog, OpenLog, DashTypeOK
  <2> QED BY <2>1, Zenon DEF LoadsFit, Selected, Pending, Newest
<1>7. ASSUME NEW i \in DOMAIN dashCalls, AnswerDash(i) PROVE LoadsFit'
  <2>1. /\ dashCalls' = RemoveAt(dashCalls, i) /\ UNCHANGED sel
        /\ seen' = IF dashCalls[i].kind \in DashLoads
                     THEN [seen EXCEPT ![dashCalls[i].kind] = dashCalls[i].of] ELSE seen
    BY <1>7 DEF AnswerDash
  <2>2. ~jumbled /\ (dashCalls[i].kind \in DashLoads => ~Overtakes(dashCalls, i))
    BY <1>7, Zenon DEF AnswerDash
  <2> QED BY <2>1, <2>2, LoadsOnAnswer, LoadsOnText
<1>8. ASSUME NEW i \in DOMAIN dashCalls, FailDash(i) PROVE LoadsFit'
  <2>1. dashCalls' = RemoveAt(dashCalls, i) /\ UNCHANGED <<sel, seen>>
    BY <1>8 DEF FailDash
  <2>2. ~jumbled /\ dashCalls[i].kind \notin DashLoads
    BY <1>8, Zenon DEF FailDash
  <2> QED BY <2>1, <2>2, LoadsOnText
<1> QED BY <1>2, <1>3, <1>4, <1>5, <1>6, <1>7, <1>8 DEF DashNext, ReplyDash

-------------------------------------------------------------------------------
(* What the AI says *)

\* A call that is answered leaves the others as they are, and those that are sent add to them.
LEMMA AboutLeft ==
    ASSUME NEW C, NEW calls \in Seq(C), NEW i \in DOMAIN calls, NEW kind, NEW abouts,
           AllAbout(calls, kind, abouts)
    PROVE  AllAbout(RemoveAt(calls, i), kind, abouts)
  BY LeftWas DEF AllAbout

LEMMA AboutMore ==
    ASSUME NEW C, NEW calls \in Seq(C), NEW more \in Seq(C), NEW kind, NEW abouts,
           AllAbout(calls, kind, abouts), AllAbout(more, kind, abouts)
    PROVE  AllAbout(calls \o more, kind, abouts)
  BY MoreWas DEF AllAbout

LEMMA NoneAbout ==
    ASSUME NEW calls, NEW kind, NEW abouts, ~Pending(calls, {kind})
    PROVE  AllAbout(calls, kind, abouts)
  BY DEF AllAbout, Pending

\* Every step but Analyze sends none, or takes the answer of one.
LEMMA AboutStep ==
    ASSUME DashTypeOK, DashNext, ~Analyze, NEW abouts, AllAbout(dashCalls, "analysis", abouts)
    PROVE  AllAbout(dashCalls', "analysis", abouts)
<1>1. sel.query \in Queries /\ sel.hours \in Periods /\ dashCalls \in Seq(DashCalls)
  BY DEF DashTypeOK
<1>2. ASSUME NEW more \in Seq(DashCalls), ~Pending(more, {"analysis"}),
             dashCalls' = dashCalls \o more
      PROVE  AllAbout(dashCalls', "analysis", abouts)
  BY <1>1, <1>2, NoneAbout, AboutMore
<1>3. ASSUME NEW h \in Periods, PickHours(h) PROVE AllAbout(dashCalls', "analysis", abouts)
  <2>1. dashCalls' = dashCalls \o LoadDash(h) /\ LoadDash(h) \in Seq(DashCalls)
    BY <1>1, <1>3, LoadDashSent DEF PickHours, CallDash
  <2>2. ~Pending(LoadDash(h), {"analysis"})
    BY <1>1, LoadDashKinds DEF DashLoads, Figures
  <2> QED BY <1>2, <2>1, <2>2
<1>4. ASSUME NEW q \in Queries, PickQuery(q) PROVE AllAbout(dashCalls', "analysis", abouts)
  <2>1. dashCalls' = dashCalls \o Fetch("logs", q) /\ Fetch("logs", q) \in Seq(DashCalls)
    BY <1>4, FetchType DEF PickQuery, CallDash
  <2>2. ~Pending(Fetch("logs", q), {"analysis"})
    BY FetchedKind
  <2> QED BY <1>2, <2>1, <2>2
<1>5. CASE Summarize
  <2>1. dashCalls' = dashCalls \o Fetch("summary", sel.hours)
        /\ Fetch("summary", sel.hours) \in Seq(DashCalls)
    BY <1>1, <1>5, FetchType DEF Summarize, CallDash
  <2>2. ~Pending(Fetch("summary", sel.hours), {"analysis"})
    BY FetchedKind
  <2> QED BY <1>2, <2>1, <2>2
<1>6. ASSUME NEW i \in DOMAIN dashCalls, ReplyDash(i)
      PROVE  AllAbout(dashCalls', "analysis", abouts)
  <2>1. dashCalls' = RemoveAt(dashCalls, i)
    BY <1>6 DEF ReplyDash, AnswerDash, FailDash
  <2> QED BY <1>1, <2>1, AboutLeft
<1>7. CASE CloseLog \/ \E l \in Logs : OpenLog(l)
  BY <1>7 DEF CloseLog, OpenLog
<1> QED BY <1>3, <1>4, <1>5, <1>6, <1>7 DEF DashNext

\* The text changes to what an answer of its kind is about.
LEMMA TextShown ==
    ASSUME DashTypeOK, NEW i \in DOMAIN dashCalls, ReplyDash(i)
    PROVE  \/ texts'.analysis = texts.analysis
           \/ dashCalls[i].kind = "analysis" /\ texts'.analysis = dashCalls[i].of
<1> DEFINE c == dashCalls[i]
<1>1. CASE AnswerDash(i)
  <2>1. CASE c.kind = "summary"
    BY <1>1, <2>1 DEF AnswerDash, DashTypeOK
  <2>2. CASE c.kind = "analysis"
    BY <1>1, <2>2 DEF AnswerDash, DashTypeOK
  <2>3. CASE c.kind \notin {"summary", "analysis"}
    BY <1>1, <2>3 DEF AnswerDash
  <2> QED BY <2>1, <2>2, <2>3
<1>2. CASE FailDash(i)
  BY <1>2 DEF FailDash, DashTypeOK
<1> QED BY <1>1, <1>2 DEF ReplyDash

\* One that is asked for is the only one under way, since the button was enabled.
LEMMA AnalysesStep ==
    ASSUME DashTypeOK, DashSpinners, asked => AnalysesFit, [DashNext]_dashVars, asked'
    PROVE  AnalysesFit'
<1>1. dashCalls \in Seq(DashCalls)
  BY DEF DashTypeOK
<1>2. CASE UNCHANGED dashVars
  BY <1>2 DEF dashVars, AnalysesFit, AllAbout
<1>3. CASE Analyze
  <2>1. /\ dashCalls' = dashCalls \o Fetch("analysis", sel.log) /\ sel.log \in Logs
        /\ sel.log # None /\ UNCHANGED sel /\ ~texts.analysing /\ texts'.analysis = None
    BY <1>3 DEF Analyze, CallDash, DashTypeOK
  <2>2. AllAbout(dashCalls, "analysis", {sel.log})
    BY <2>1, NoneAbout DEF DashSpinners
  <2>3. AllAbout(Fetch("analysis", sel.log), "analysis", {sel.log})
    BY FetchedCall DEF AllAbout
  <2>4. AllAbout(dashCalls', "analysis", {sel'.log})
    BY <1>1, <2>1, <2>2, <2>3, FetchType, AboutMore
  <2> QED BY <2>1, <2>4 DEF AnalysesFit
<1>4. CASE ~Analyze /\ DashNext
  <2>1. asked /\ ~CloseLog /\ ~\E l \in Logs : OpenLog(l)
    <3>1. UNCHANGED asked \/ asked' = FALSE
      BY <1>4, Zenon DEF DashNext, PickHours, PickQuery, OpenLog, CloseLog, Summarize,
         ReplyDash, AnswerDash, FailDash
    <3>2. ~CloseLog
      BY DEF CloseLog
    <3>3. AnalysesFit
      BY <3>1
    <3> QED BY <3>1, <3>2, <3>3 DEF OpenLog, AnalysesFit
  <2>2. AllAbout(dashCalls, "analysis", {sel.log}) /\ texts.analysis \in {None, sel.log}
        /\ sel.log # None
    BY <2>1 DEF AnalysesFit
  <2>3. AllAbout(dashCalls', "analysis", {sel.log})
    BY <1>4, <2>2, AboutStep
  <2>4. sel'.log = sel.log
    <3>1. ASSUME \E h \in Periods : PickHours(h) PROVE sel'.log = sel.log
      BY <3>1 DEF PickHours, DashTypeOK
    <3>2. ASSUME \E q \in Queries : PickQuery(q) PROVE sel'.log = sel.log
      BY <3>2 DEF PickQuery, DashTypeOK
    <3>3. ASSUME Summarize \/ \E i \in DOMAIN dashCalls : ReplyDash(i)
          PROVE  sel'.log = sel.log
      BY <3>3 DEF Summarize, ReplyDash, AnswerDash, FailDash
    <3> QED BY <1>4, <2>1, <3>1, <3>2, <3>3, Zenon DEF DashNext
  <2>5. texts'.analysis \in {None, sel.log}
    <3>1. ASSUME NEW i \in DOMAIN dashCalls, ReplyDash(i)
          PROVE  texts'.analysis \in {None, sel.log}
      BY <2>2, <3>1, TextShown DEF AllAbout
    <3>2. ASSUME \/ \E h \in Periods : PickHours(h)
                 \/ \E q \in Queries : PickQuery(q)
          PROVE  texts'.analysis \in {None, sel.log}
      BY <2>2, <3>2 DEF PickHours, PickQuery
    <3>3. ASSUME Summarize PROVE texts'.analysis \in {None, sel.log}
      BY <2>2, <3>3 DEF Summarize, DashTypeOK
    <3> QED BY <1>4, <2>1, <3>1, <3>2, <3>3, Zenon DEF DashNext
  <2> QED BY <2>2, <2>3, <2>4, <2>5 DEF AnalysesFit
<1> QED BY <1>2, <1>3, <1>4

-------------------------------------------------------------------------------
(* The theorems *)

LEMMA DashStart == DashInit => DashInv
<1> SUFFICES ASSUME DashInit PROVE DashInv
  OBVIOUS
<1> DEFINE first == [kind |-> "overview", of |-> Day]
           second == [kind |-> "byService", of |-> Day]
           list == [kind |-> "logs", of |-> Unfiltered]
<1>1. first \in DashCalls /\ second \in DashCalls /\ list \in DashCalls
  BY DashAssumption DEF DashCalls, Figures
<1>2. dashCalls = <<first, second>> \o <<list>> \o <<list>>
  BY Joined DEF DashInit, LoadFigures, Fetch
<1>3. /\ first.kind = "overview" /\ first.of = Day /\ second.kind = "byService"
      /\ second.of = Day /\ list.kind = "logs" /\ list.of = Unfiltered
  OBVIOUS
<1>4. sel.hours = Day /\ sel.query = Unfiltered /\ sel.log = None
  BY DEF DashInit
<1> HIDE DEF first, second, list
<1>5. dashCalls = <<first, second, list>> \o <<list>>
  BY <1>2, Joined
<1>6. /\ dashCalls \in Seq(DashCalls) /\ DOMAIN dashCalls = 1..4
      /\ dashCalls[1] = first /\ dashCalls[2] = second /\ dashCalls[3] = list
      /\ dashCalls[4] = list
  BY <1>1, <1>5
<1>7. DashTypeOK
  BY <1>6, DashAssumption DEF DashInit, DashTypeOK
<1>8. ~Pending(dashCalls, {"summary"}) /\ ~Pending(dashCalls, {"analysis"})
  BY <1>3, <1>6 DEF Pending
<1>9. OneOfEach /\ DashSpinners
  BY <1>8 DEF OneOfEach, Single, Pending, DashSpinners, DashInit
<1>10. LoadsFit
  <2>1. \A f \in DashLoads : Pending(dashCalls, {f})
    BY <1>3, <1>6 DEF Pending, DashLoads, Figures
  <2>2. \A i \in DOMAIN dashCalls : dashCalls[i].of = Selected(dashCalls[i].kind, sel)
    BY <1>3, <1>4, <1>6 DEF Selected
  <2> QED BY <2>1, <2>2, Zenon DEF LoadsFit
<1>11. ~asked
  BY DEF DashInit
<1> QED BY <1>7, <1>9, <1>10, <1>11 DEF DashInv, OneOfEach

LEMMA DashStep == DashInv /\ [DashNext]_dashVars => DashInv'
  BY DashTypeStep, SpinnersStep, LoadsStep, AnalysesStep DEF DashInv, OneOfEach

LEMMA DashMeans == DashInv => DashTypeOK /\ ShowsSelection /\ TextsFit /\ DashSpinners
<1> SUFFICES ASSUME DashInv PROVE ShowsSelection /\ TextsFit
  BY DEF DashInv
<1>1. ASSUME ~jumbled, ~Pending(dashCalls, DashLoads)
      PROVE  seen = [overview |-> sel.hours, byService |-> sel.hours, logs |-> sel.query]
  <2>1. \A f \in DashLoads : ~Pending(dashCalls, {f})
    BY <1>1 DEF Pending
  <2>2. \A f \in DashLoads : seen[f] = Selected(f, sel)
    BY <1>1, <2>1 DEF DashInv, LoadsFit
  <2>3. seen.overview = sel.hours /\ seen.byService = sel.hours /\ seen.logs = sel.query
    BY <2>2 DEF DashLoads, Figures, Selected
  <2>4. seen \in [overview : Periods \cup {None}, byService : Periods \cup {None},
                  logs : Queries \cup {None}]
    BY DEF DashInv, DashTypeOK
  <2> QED BY <2>3, <2>4
<1>2. TextsFit
  BY DEF DashInv, AnalysesFit, TextsFit
<1> QED BY <1>1, <1>2 DEF ShowsSelection

\* For any periods, queries, failed requests and number of calls (DashboardPage.tsx): the
\* figures and requests shown are those of the selection as soon as no load is under way,
\* unless a load failed or overtook an older one.
THEOREM DashShowsSelection == DashSpec => []ShowsSelection
  BY DashStart, DashStep, DashMeans, PTL DEF DashSpec

\* However often details were closed and opened over an analysis that had not come yet, as
\* soon as one was asked for in the open details, what is shown is of that request.
THEOREM DashTextsFit == DashSpec => []TextsFit
  BY DashStart, DashStep, DashMeans, PTL DEF DashSpec

-------------------------------------------------------------------------------
(*****************************************************************************)
(* The dialog of a service                                                   *)
(*****************************************************************************)

\* A change or a check is of a service, and so is a save that was served; saves only are
\* followed by checks.
IdentifiedCalls ==
    {c \in DialogCalls : /\ c.kind \in {"update", "check"} \/ c.served => c.id \in Ids
                         /\ c.andCheck => c.kind \in {"create", "update"}}

DialogTypes ==
    /\ stored \in [Ids -> ServiceForms \cup {None}]
    /\ dialog \in Dialogs
    /\ spin \in [describe : BOOLEAN, parse : BOOLEAN]
    /\ dialogCalls \in Seq(IdentifiedCalls)
    /\ hasty \in BOOLEAN

DialogInv ==
    /\ DialogTypes
    /\ Single(dialogCalls, "describe") /\ Single(dialogCalls, "parse")
    /\ DialogSpinners

-------------------------------------------------------------------------------
(* Types *)

LEMMA CallFields ==
    ASSUME NEW c \in IdentifiedCalls
    PROVE  /\ c \in DialogCalls /\ c.kind \in {"create", "update", "check", "describe", "parse"}
           /\ c.id \in Ids \cup {None} /\ c.form \in ServiceForms
           /\ c.andCheck \in BOOLEAN /\ c.served \in BOOLEAN /\ c.fresh \in BOOLEAN
           /\ c.kind \in {"update", "check"} \/ c.served => c.id \in Ids
           /\ c.andCheck => c.kind \in {"create", "update"}
  BY DEF IdentifiedCalls, DialogCalls

\* A call that ages stays the same but for its age.
LEMMA OneAged ==
    ASSUME NEW c \in IdentifiedCalls
    PROVE  LET d == [c EXCEPT !.fresh = FALSE] IN
           /\ d \in IdentifiedCalls /\ d.kind = c.kind /\ d.id = c.id /\ d.form = c.form
           /\ d.andCheck = c.andCheck /\ d.served = c.served /\ d.fresh = FALSE
  BY DEF IdentifiedCalls, DialogCalls

LEMMA CallsAged ==
    ASSUME NEW calls \in Seq(IdentifiedCalls)
    PROVE  /\ Aged(calls) \in Seq(IdentifiedCalls) /\ DOMAIN Aged(calls) = DOMAIN calls
           /\ SameKinds(calls, Aged(calls))
           /\ \A i \in DOMAIN calls : Aged(calls)[i] = [calls[i] EXCEPT !.fresh = FALSE]
<1>1. \A i \in DOMAIN calls : calls[i] \in IdentifiedCalls
  OBVIOUS
<1>2. Aged(calls) = [i \in 1..Len(calls) |-> [calls[i] EXCEPT !.fresh = FALSE]]
  BY DEF Aged
<1>3. \A i \in 1..Len(calls) : [calls[i] EXCEPT !.fresh = FALSE] \in IdentifiedCalls
  BY <1>1, OneAged
<1>4. Aged(calls) \in Seq(IdentifiedCalls)
  BY <1>2, <1>3
<1> QED BY <1>1, <1>2, <1>4, OneAged DEF SameKinds

LEMMA CallServed ==
    ASSUME NEW c \in IdentifiedCalls, NEW s \in Ids
    PROVE  [c EXCEPT !.served = TRUE, !.id = s] \in IdentifiedCalls
<1>1. [c EXCEPT !.served = TRUE, !.id = s] \in DialogCalls
  BY DEF IdentifiedCalls, DialogCalls
<1> QED BY <1>1 DEF IdentifiedCalls, DialogCalls

\* The check that follows a save.
CheckAfter(c) == [c EXCEPT !.kind = "check", !.form = BlankForm, !.andCheck = FALSE,
                           !.served = FALSE]

LEMMA CheckAfterType ==
    ASSUME NEW c \in IdentifiedCalls, c.served
    PROVE  /\ CheckAfter(c) \in IdentifiedCalls /\ CheckAfter(c).kind = "check"
           /\ CheckAfter(c).id = c.id /\ CheckAfter(c).fresh = c.fresh
           /\ CheckAfter(c).andCheck = FALSE
<1>1. CheckAfter(c) \in DialogCalls
  BY DEF CheckAfter, IdentifiedCalls, DialogCalls, BlankForm, ServiceForms
<1> QED BY <1>1 DEF CheckAfter, IdentifiedCalls, DialogCalls

\* A call that is sent.
NewCall(kind, id, form, andCheck) ==
    [kind |-> kind, id |-> id, form |-> form, andCheck |-> andCheck,
     served |-> FALSE, fresh |-> TRUE]

LEMMA NewCallType ==
    ASSUME NEW kind \in {"create", "update", "check", "describe", "parse"},
           NEW id \in Ids \cup {None}, NEW form \in ServiceForms, NEW andCheck \in BOOLEAN,
           kind \in {"update", "check"} => id \in Ids,
           andCheck => kind \in {"create", "update"}
    PROVE  LET c == NewCall(kind, id, form, andCheck) IN
           /\ c \in IdentifiedCalls /\ c.kind = kind /\ c.id = id /\ c.form = form
           /\ c.andCheck = andCheck /\ c.served = FALSE /\ c.fresh = TRUE
<1>1. NewCall(kind, id, form, andCheck) \in DialogCalls
  BY DEF NewCall, DialogCalls
<1> QED BY <1>1 DEF NewCall, IdentifiedCalls

LEMMA DialogFields ==
    ASSUME NEW d \in Dialogs
    PROVE  /\ d.open \in BOOLEAN /\ d.editId \in Ids \cup {None} /\ d.form \in ServiceForms
           /\ d.health \in Ids \cup {None, "loading"} /\ d.form.of \in Ids \cup {None}
           /\ d.form.alien \in BOOLEAN
  BY DEF Dialogs, ServiceForms

LEMMA BlankType == BlankForm \in ServiceForms /\ BlankForm.of = None /\ BlankForm.alien = FALSE
  BY DEF BlankForm, ServiceForms

LEMMA DialogRest ==
    ASSUME DialogTypes, NEW i \in DOMAIN dialogCalls
    PROVE  dialogCalls[i] \in IdentifiedCalls /\ RemoveAt(dialogCalls, i) \in Seq(IdentifiedCalls)
  BY CallIn, CallsLeft DEF DialogTypes

LEMMA SpinnerStopped ==
    ASSUME DialogTypes, NEW c, NEW good \in BOOLEAN, StopSpinner(c, good)
    PROVE  /\ spin' \in [describe : BOOLEAN, parse : BOOLEAN]
           /\ spin'.describe <=> spin.describe /\ c.kind # "describe"
           /\ spin'.parse <=> spin.parse /\ c.kind # "parse"
<1> DEFINE describe == spin.describe /\ c.kind # "describe"
           parse == spin.parse /\ c.kind # "parse"
<1>1. spin' = [describe |-> describe, parse |-> parse]
  BY Zenon DEF StopSpinner
<1>2. describe \in BOOLEAN /\ parse \in BOOLEAN
  BY Zenon
<1>3. spin' \in [describe : BOOLEAN, parse : BOOLEAN]
  <2> HIDE DEF describe, parse
  <2> QED BY <1>1, <1>2
<1>4. spin'.describe = describe /\ spin'.parse = parse
  <2> HIDE DEF describe, parse
  <2> QED BY <1>1
<1> QED BY <1>3, <1>4, Zenon

\* What the user sends.
LEMMA SubmitSends ==
    ASSUME DialogTypes, NEW andCheck \in BOOLEAN, SubmitService(andCheck)
    PROVE  \E kind \in {"create", "update"} :
             LET c == NewCall(kind, dialog.editId, dialog.form, andCheck) IN
             /\ kind = "create" <=> dialog.editId = None
             /\ c \in IdentifiedCalls /\ dialogCalls' = dialogCalls \o <<c>>
             /\ UNCHANGED <<stored, dialog, spin>>
<1> DEFINE kind == IF dialog.editId = None THEN "create" ELSE "update"
           c == NewCall(kind, dialog.editId, dialog.form, andCheck)
<1>1. kind \in {"create", "update"} /\ (kind = "create" <=> dialog.editId = None)
  OBVIOUS
<1>2. dialog.editId \in Ids \cup {None} /\ dialog.form \in ServiceForms
  BY DialogFields DEF DialogTypes
<1>3. c \in IdentifiedCalls
  BY <1>1, <1>2, NewCallType
<1>4. dialogCalls' = Append(dialogCalls, c) /\ UNCHANGED <<stored, dialog, spin>>
  BY DEF SubmitService, CallDialog, NewCall
<1> HIDE DEF c, kind
<1>5. dialogCalls' = dialogCalls \o <<c>>
  BY <1>3, <1>4, OneMore DEF DialogTypes
<1> QED BY <1>1, <1>3, <1>4, <1>5 DEF c

LEMMA CheckSends ==
    ASSUME DialogTypes, CheckConnection
    PROVE  LET c == NewCall("check", dialog.editId, BlankForm, FALSE) IN
           /\ c \in IdentifiedCalls /\ dialogCalls' = dialogCalls \o <<c>>
           /\ dialog' = [dialog EXCEPT !.health = "loading"]
           /\ UNCHANGED <<stored, spin, hasty>>
<1> DEFINE c == NewCall("check", dialog.editId, BlankForm, FALSE)
<1>1. dialog.editId \in Ids
  BY DialogFields DEF DialogTypes, CheckConnection
<1>2. c \in IdentifiedCalls
  BY <1>1, NewCallType, BlankType
<1>3. /\ dialogCalls' = Append(dialogCalls, c) /\ UNCHANGED <<stored, spin, hasty>>
      /\ dialog' = [dialog EXCEPT !.health = "loading"]
  BY DEF CheckConnection, CallDialog, NewCall
<1> HIDE DEF c
<1>4. dialogCalls' = dialogCalls \o <<c>>
  BY <1>2, <1>3, OneMore DEF DialogTypes
<1> QED BY <1>2, <1>3, <1>4 DEF c

LEMMA TextSends ==
    ASSUME DialogTypes, NEW kind \in {"describe", "parse"},
           kind = "describe" => DescribeService, kind = "parse" => ParseCurl
    PROVE  LET c == NewCall(kind, None, BlankForm, FALSE) IN
           /\ c \in IdentifiedCalls /\ dialogCalls' = dialogCalls \o <<c>>
           /\ spin' = [spin EXCEPT ![kind] = TRUE] /\ ~spin[kind]
           /\ UNCHANGED <<stored, dialog>>
<1> DEFINE c == NewCall(kind, None, BlankForm, FALSE)
<1>1. c \in IdentifiedCalls
  BY NewCallType, BlankType
<1>2. /\ dialogCalls' = Append(dialogCalls, c) /\ UNCHANGED <<stored, dialog>>
      /\ spin' = [spin EXCEPT ![kind] = TRUE] /\ ~spin[kind]
  <2>1. CASE kind = "describe"
    BY <2>1 DEF DescribeService, CallDialog, NewCall
  <2>2. CASE kind = "parse"
    BY <2>2 DEF ParseCurl, CallDialog, NewCall
  <2> QED BY <2>1, <2>2
<1> HIDE DEF c
<1>3. dialogCalls' = dialogCalls \o <<c>>
  BY <1>1, <1>2, OneMore DEF DialogTypes
<1> QED BY <1>1, <1>2, <1>3 DEF c

\* What an answer does, by the kind of its call.
LEMMA SaveAnswered ==
    ASSUME DialogTypes, NEW i \in DOMAIN dialogCalls, AnswerDialog(i),
           dialogCalls[i].kind \in {"create", "update"}
    PROVE  LET c == dialogCalls[i] IN
           /\ c.served /\ UNCHANGED <<stored, hasty>> /\ StopSpinner(c, TRUE)
           /\ \/ /\ ~c.andCheck /\ dialog' = [dialog EXCEPT !.open = FALSE]
                 /\ dialogCalls' = RemoveAt(dialogCalls, i)
              \/ /\ c.andCheck
                 /\ dialogCalls' = RemoveAt(dialogCalls, i) \o <<CheckAfter(c)>>
                 /\ dialog' = [dialog EXCEPT
                        !.editId = IF c.kind = "create" THEN c.id ELSE @,
                        !.form.of = IF c.kind = "create" /\ c.fresh THEN c.id ELSE @,
                        !.health = "loading"]
<1> DEFINE c == dialogCalls[i]
           rest == RemoveAt(dialogCalls, i)
<1>1. c.served /\ ServiceSaved(c, rest) /\ StopSpinner(c, TRUE) /\ UNCHANGED <<stored, hasty>>
  BY DEF AnswerDialog
<1>2. c \in IdentifiedCalls /\ rest \in Seq(IdentifiedCalls)
  BY DialogRest
<1>3. Append(rest, CheckAfter(c)) = rest \o <<CheckAfter(c)>>
  BY <1>1, <1>2, CheckAfterType, OneMore
<1>4. CASE c.andCheck
  <2>1. /\ dialogCalls' = Append(rest, CheckAfter(c))
        /\ dialog' = [dialog EXCEPT
               !.editId = IF c.kind = "create" THEN c.id ELSE @,
               !.form.of = IF c.kind = "create" /\ c.fresh THEN c.id ELSE @,
               !.health = "loading"]
    BY <1>1, <1>4 DEF ServiceSaved, ThenCheck, CheckAfter
  <2> QED BY <1>1, <1>3, <1>4, <2>1
<1>5. CASE ~c.andCheck
  BY <1>1, <1>5 DEF ServiceSaved
<1> QED BY <1>4, <1>5

\* The dialog after a creation that is kept for its check.
LEMMA DialogKeptType ==
    ASSUME NEW c \in IdentifiedCalls, c.served, dialog \in Dialogs
    PROVE  [dialog EXCEPT
              !.editId = IF c.kind = "create" THEN c.id ELSE @,
              !.form.of = IF c.kind = "create" /\ c.fresh THEN c.id ELSE @,
              !.health = "loading"] \in Dialogs
<1>1. c.id \in Ids
  BY CallFields
<1> DEFINE id == IF c.kind = "create" THEN c.id ELSE dialog.editId
           of == IF c.kind = "create" /\ c.fresh THEN c.id ELSE dialog.form.of
<1>2. id \in Ids \cup {None} /\ of \in Ids \cup {None}
  BY <1>1, DialogFields
<1>3. [dialog EXCEPT !.editId = id, !.form.of = of, !.health = "loading"] \in Dialogs
  <2> HIDE DEF id, of
  <2> QED BY <1>2 DEF Dialogs, ServiceForms
<1> QED BY <1>3

LEMMA SaveServed ==
    ASSUME DialogTypes, NEW i \in DOMAIN dialogCalls, ServeSave(i)
    PROVE  \E s \in Ids, form \in ServiceForms, d \in IdentifiedCalls :
             LET c == dialogCalls[i] IN
             /\ c.kind \in {"create", "update"} /\ (c.kind = "update" => s = c.id)
             /\ form.alien = c.form.alien /\ (form.of = IF c.kind = "create" THEN s ELSE c.form.of)
             /\ stored' = [stored EXCEPT ![s] = form]
             /\ d.kind = c.kind /\ d.id = s /\ d.form = c.form /\ d.andCheck = c.andCheck
             /\ d.fresh = c.fresh /\ dialogCalls' = [dialogCalls EXCEPT ![i] = d]
             /\ UNCHANGED <<dialog, spin, hasty>>
<1> DEFINE c == dialogCalls[i]
<1>1. c \in IdentifiedCalls /\ dialogCalls \in Seq(IdentifiedCalls)
  BY DialogRest DEF DialogTypes
<1>2. PICK s \in Ids :
        /\ c.kind \in {"create", "update"} /\ (c.kind = "update" => s = c.id)
        /\ stored' = [stored EXCEPT ![s] = IF c.kind = "create" THEN [c.form EXCEPT !.of = s]
                                                            ELSE c.form]
        /\ dialogCalls' = [dialogCalls EXCEPT ![i].served = TRUE, ![i].id = s]
  BY DEF ServeSave
<1> DEFINE form == IF c.kind = "create" THEN [c.form EXCEPT !.of = s] ELSE c.form
           d == [c EXCEPT !.served = TRUE, !.id = s]
<1>3. /\ form \in ServiceForms /\ form.alien = c.form.alien
      /\ form.of = IF c.kind = "create" THEN s ELSE c.form.of
  BY <1>1, CallFields DEF ServiceForms
<1>4. dialogCalls' = [dialogCalls EXCEPT ![i] = d]
  BY <1>1, <1>2
<1>5. d \in IdentifiedCalls
  BY <1>1, CallServed
<1>6. /\ d.kind = c.kind /\ d.id = s /\ d.form = c.form /\ d.andCheck = c.andCheck
      /\ d.fresh = c.fresh
  BY <1>1 DEF IdentifiedCalls, DialogCalls
<1>7. stored' = [stored EXCEPT ![s] = form] /\ UNCHANGED <<dialog, spin, hasty>>
  BY <1>2 DEF ServeSave
<1> HIDE DEF form, d
<1> USE <1>3, <1>5
<1> WITNESS s \in Ids, form \in ServiceForms, d \in IdentifiedCalls
<1> QED BY <1>2, <1>3, <1>4, <1>5, <1>6, <1>7

LEMMA TypesOnFill ==
    ASSUME DialogTypes, NEW id \in Ids \cup {None}, NEW form \in ServiceForms,
           NEW calls \in Seq(IdentifiedCalls), FillDialog(id, form, calls)
    PROVE  dialog' \in Dialogs /\ dialogCalls' \in Seq(IdentifiedCalls)
  BY CallsAged DEF FillDialog, Dialogs

LEMMA TypesOnSend ==
    ASSUME DialogTypes, NEW c \in IdentifiedCalls, dialogCalls' = dialogCalls \o <<c>>
    PROVE  dialogCalls' \in Seq(IdentifiedCalls)
  BY AllThere, OneMore DEF DialogTypes

LEMMA TypesOnAnswer ==
    ASSUME DialogTypes, NEW i \in DOMAIN dialogCalls, AnswerDialog(i)
    PROVE  DialogTypes'
<1> DEFINE c == dialogCalls[i]
           rest == RemoveAt(dialogCalls, i)
<1>1. /\ c \in IdentifiedCalls /\ rest \in Seq(IdentifiedCalls) /\ UNCHANGED <<stored, hasty>>
      /\ StopSpinner(c, TRUE) /\ dialog \in Dialogs
  BY DialogRest DEF AnswerDialog, DialogTypes
<1>2. spin' \in [describe : BOOLEAN, parse : BOOLEAN]
  BY <1>1, SpinnerStopped
<1>3. dialog' \in Dialogs /\ dialogCalls' \in Seq(IdentifiedCalls)
  <2>1. CASE c.kind \in {"create", "update"}
    <3>1. CASE c.andCheck
      <4>1. /\ c.served /\ dialogCalls' = rest \o <<CheckAfter(c)>>
            /\ dialog' = [dialog EXCEPT
                  !.editId = IF c.kind = "create" THEN c.id ELSE @,
                  !.form.of = IF c.kind = "create" /\ c.fresh THEN c.id ELSE @,
                  !.health = "loading"]
        BY <2>1, <3>1, SaveAnswered
      <4>2. CheckAfter(c) \in IdentifiedCalls
        BY <1>1, <4>1, CheckAfterType
      <4> QED BY <1>1, <4>1, <4>2, DialogKeptType, AllThere, OneMore
    <3>2. CASE ~c.andCheck
      <4>1. dialogCalls' = rest /\ dialog' = [dialog EXCEPT !.open = FALSE]
        BY <2>1, <3>2, SaveAnswered
      <4> QED BY <1>1, <4>1 DEF Dialogs
    <3> QED BY <3>1, <3>2
  <2>2. CASE c.kind = "check"
    <3>1. dialogCalls' = rest /\ dialog' = [dialog EXCEPT !.health = c.id]
      BY <2>2 DEF AnswerDialog, ServiceChecked
    <3> QED BY <1>1, <3>1, CallFields DEF Dialogs
  <2>3. CASE c.kind = "describe"
    <3> DEFINE alien == dialog.form.alien \/ ~c.fresh
    <3>1. dialogCalls' = rest /\ dialog' = [dialog EXCEPT !.form.alien = alien]
      BY <2>3, Zenon DEF AnswerDialog, TextCame
    <3>2. alien \in BOOLEAN
      BY Zenon
    <3> HIDE DEF alien
    <3> QED BY <1>1, <3>1, <3>2 DEF Dialogs, ServiceForms
  <2>4. CASE c.kind = "parse"
    <3>1. FillDialog(None, BlankForm, rest)
      BY <2>4 DEF AnswerDialog
    <3> QED BY <1>1, <3>1, BlankType, TypesOnFill
  <2> QED BY <1>1, <2>1, <2>2, <2>3, <2>4, CallFields
<1> QED BY <1>1, <1>2, <1>3 DEF DialogTypes

LEMMA TypesOnFail ==
    ASSUME DialogTypes, NEW i \in DOMAIN dialogCalls, FailDialog(i)
    PROVE  DialogTypes'
<1> DEFINE c == dialogCalls[i]
<1>1. c \in IdentifiedCalls /\ dialogCalls' \in Seq(IdentifiedCalls) /\ dialog \in Dialogs
  BY DialogRest DEF FailDialog, ServiceChecked, DialogTypes
<1>2. dialog' \in Dialogs
  BY <1>1, CallFields DEF FailDialog, ServiceChecked, Dialogs
<1>3. spin' \in [describe : BOOLEAN, parse : BOOLEAN]
  BY SpinnerStopped DEF FailDialog
<1> QED BY <1>1, <1>2, <1>3 DEF FailDialog, DialogTypes

LEMMA HastyType ==
    ASSUME hasty \in BOOLEAN, [DialogNext]_dialogVars
    PROVE  hasty' \in BOOLEAN
<1>1. hasty' = hasty \/ hasty' = (hasty \/ DialogOutstanding)
  BY Zenon DEF DialogNext, OpenNew, CloseDialog, CheckConnection, DescribeService, ParseCurl,
        OpenEdit, SubmitService, ReplyDialog, ServeSave, AnswerDialog, FailDialog, dialogVars
<1>2. (hasty \/ DialogOutstanding) \in BOOLEAN
  BY Zenon
<1> QED BY <1>1, <1>2, Zenon

LEMMA DialogTypesStep == DialogTypes /\ [DialogNext]_dialogVars => DialogTypes'
<1> SUFFICES ASSUME DialogTypes, [DialogNext]_dialogVars PROVE DialogTypes'
  OBVIOUS
<1>1. hasty' \in BOOLEAN
  BY HastyType DEF DialogTypes
<1>2. CASE UNCHANGED dialogVars
  BY <1>2 DEF dialogVars, DialogTypes
<1>3. CASE OpenNew
  <2>1. FillDialog(None, BlankForm, dialogCalls) /\ UNCHANGED <<stored, spin>>
    BY <1>3 DEF OpenNew
  <2>2. dialog' \in Dialogs /\ dialogCalls' \in Seq(IdentifiedCalls)
    BY <2>1, TypesOnFill, BlankType DEF DialogTypes
  <2> QED BY <1>1, <2>1, <2>2 DEF DialogTypes
<1>4. ASSUME NEW s \in Ids, OpenEdit(s) PROVE DialogTypes'
  <2>1. FillDialog(s, stored[s], dialogCalls) /\ UNCHANGED <<stored, spin>>
    BY <1>4 DEF OpenEdit
  <2>2. stored[s] \in ServiceForms
    BY <1>4 DEF OpenEdit, DialogTypes
  <2>3. dialog' \in Dialogs /\ dialogCalls' \in Seq(IdentifiedCalls)
    BY <2>1, <2>2, TypesOnFill DEF DialogTypes
  <2> QED BY <1>1, <2>1, <2>3 DEF DialogTypes
<1>5. CASE CloseDialog
  BY <1>5 DEF CloseDialog, DialogTypes, Dialogs
<1>6. CASE CheckConnection
  <2>1. dialogCalls' \in Seq(IdentifiedCalls)
    BY <1>6, CheckSends, TypesOnSend
  <2>2. dialog' = [dialog EXCEPT !.health = "loading"] /\ UNCHANGED <<stored, spin>>
    BY <1>6, CheckSends
  <2> QED BY <1>1, <2>1, <2>2 DEF DialogTypes, Dialogs
<1>7. ASSUME NEW kind \in {"describe", "parse"}, kind = "describe" => DescribeService,
             kind = "parse" => ParseCurl
      PROVE  DialogTypes'
  <2>1. dialogCalls' \in Seq(IdentifiedCalls)
    BY <1>7, TextSends, TypesOnSend
  <2>2. spin' = [spin EXCEPT ![kind] = TRUE] /\ UNCHANGED <<stored, dialog>>
    BY <1>7, TextSends
  <2> QED BY <1>1, <2>1, <2>2 DEF DialogTypes
<1>8. ASSUME NEW andCheck \in BOOLEAN, SubmitService(andCheck) PROVE DialogTypes'
  <2>1. dialogCalls' \in Seq(IdentifiedCalls) /\ UNCHANGED <<stored, dialog, spin>>
    BY <1>8, SubmitSends, TypesOnSend
  <2> QED BY <1>1, <2>1 DEF DialogTypes
<1>9. ASSUME NEW i \in DOMAIN dialogCalls, ServeSave(i) PROVE DialogTypes'
  <2>1. PICK s \in Ids, form \in ServiceForms, d \in IdentifiedCalls :
          /\ stored' = [stored EXCEPT ![s] = form] /\ UNCHANGED <<dialog, spin>>
          /\ dialogCalls' = [dialogCalls EXCEPT ![i] = d]
    BY <1>9, SaveServed
  <2> QED BY <1>1, <2>1 DEF DialogTypes
<1> QED BY <1>2, <1>3, <1>4, <1>5, <1>6, <1>7, <1>8, <1>9, TypesOnAnswer, TypesOnFail
        DEF DialogNext, ReplyDialog

-------------------------------------------------------------------------------
(* The spinners *)

OneText == Single(dialogCalls, "describe") /\ Single(dialogCalls, "parse")

LEMMA TurningOnFill ==
    ASSUME DialogTypes, OneText, DialogSpinners, UNCHANGED spin, NEW id, NEW form,
           FillDialog(id, form, dialogCalls)
    PROVE  OneText' /\ DialogSpinners'
<1>1. SameKinds(dialogCalls, dialogCalls')
  BY CallsAged DEF FillDialog, DialogTypes
<1>2. dialog'.health # "loading"
  BY DialogAssumption DEF FillDialog
<1> QED BY <1>1, <1>2, KindsStay DEF OneText, DialogSpinners

LEMMA TurningOnSend ==
    ASSUME DialogTypes, OneText, DialogSpinners, NEW c \in IdentifiedCalls,
           dialogCalls' = dialogCalls \o <<c>>,
           \/ c.kind \notin {"describe", "parse"} /\ UNCHANGED spin
           \/ /\ spin' = [spin EXCEPT ![c.kind] = TRUE]
              /\ c.kind \in {"describe", "parse"} /\ ~spin[c.kind],
           dialog'.health = "loading" => dialog.health = "loading" \/ c.kind = "check"
    PROVE  OneText' /\ DialogSpinners'
<1>1. dialogCalls \in Seq(IdentifiedCalls)
  BY DEF DialogTypes
<1>2. /\ \A kinds : Pending(dialogCalls', kinds) <=> Pending(dialogCalls, kinds) \/ c.kind \in kinds
      /\ \A kind : Single(dialogCalls, kind) /\ (~Pending(dialogCalls, {kind}) \/ c.kind # kind)
                     => Single(dialogCalls', kind)
  BY <1>1, OneSent
<1>3. CASE c.kind \notin {"describe", "parse"} /\ UNCHANGED spin
  BY <1>2, <1>3 DEF OneText, DialogSpinners
<1>4. CASE spin' = [spin EXCEPT !.describe = TRUE] /\ c.kind = "describe" /\ ~spin.describe
  <2>1. spin'.describe /\ spin'.parse = spin.parse
    BY <1>4 DEF DialogTypes
  <2> QED BY <1>2, <1>4, <2>1 DEF OneText, DialogSpinners
<1>5. CASE spin' = [spin EXCEPT !.parse = TRUE] /\ c.kind = "parse" /\ ~spin.parse
  <2>1. spin'.parse /\ spin'.describe = spin.describe
    BY <1>5 DEF DialogTypes
  <2> QED BY <1>2, <1>5, <2>1 DEF OneText, DialogSpinners
<1> QED BY <1>3, <1>4, <1>5

\* A call is over, and what it may leave under way is a check.
LEMMA TurningOnReply ==
    ASSUME DialogTypes, OneText, DialogSpinners, NEW i \in DOMAIN dialogCalls,
           NEW good \in BOOLEAN, StopSpinner(dialogCalls[i], good),
           \/ SameKinds(RemoveAt(dialogCalls, i), dialogCalls')
           \/ \E c \in IdentifiedCalls :
                c.kind = "check" /\ dialogCalls' = RemoveAt(dialogCalls, i) \o <<c>>,
           dialog'.health = "loading" =>
             \/ dialog.health = "loading" /\ dialogCalls[i].kind # "check"
             \/ Pending(dialogCalls', {"check"})
    PROVE  OneText' /\ DialogSpinners'
<1> DEFINE rest == RemoveAt(dialogCalls, i)
           kind == dialogCalls[i].kind
<1>1. dialogCalls \in Seq(IdentifiedCalls) /\ rest \in Seq(IdentifiedCalls)
  BY DialogRest DEF DialogTypes
<1>2. /\ spin'.describe <=> spin.describe /\ kind # "describe"
      /\ spin'.parse <=> spin.parse /\ kind # "parse"
  BY SpinnerStopped
<1>3. /\ Single(rest, "describe") /\ (Pending(rest, {"describe"}) <=> spin'.describe)
      /\ Single(rest, "parse") /\ (Pending(rest, {"parse"}) <=> spin'.parse)
      /\ Pending(dialogCalls, {"check"}) /\ kind # "check" => Pending(rest, {"check"})
  BY <1>1, <1>2, SingleLeft, PendingLeft DEF OneText, DialogSpinners
<1>4. /\ Single(dialogCalls', "describe") /\ Single(dialogCalls', "parse")
      /\ Pending(dialogCalls', {"describe"}) <=> Pending(rest, {"describe"})
      /\ Pending(dialogCalls', {"parse"}) <=> Pending(rest, {"parse"})
      /\ Pending(rest, {"check"}) => Pending(dialogCalls', {"check"})
  <2>1. CASE SameKinds(rest, dialogCalls')
    BY <1>3, <2>1, KindsStay
  <2>2. CASE \E c \in IdentifiedCalls : c.kind = "check" /\ dialogCalls' = rest \o <<c>>
    <3>1. PICK c \in IdentifiedCalls : c.kind = "check" /\ dialogCalls' = rest \o <<c>>
      BY <2>2
    <3>2. /\ \A kinds : Pending(dialogCalls', kinds) <=> Pending(rest, kinds) \/ c.kind \in kinds
          /\ \A k : Single(rest, k) /\ (~Pending(rest, {k}) \/ c.kind # k)
                           => Single(dialogCalls', k)
      BY <1>1, <3>1, OneSent
    <3> QED BY <1>3, <3>1, <3>2
  <2> QED BY <2>1, <2>2
<1> QED BY <1>3, <1>4 DEF OneText, DialogSpinners

LEMMA SameIsSame ==
    ASSUME NEW calls
    PROVE  SameKinds(calls, calls)
  BY DEF SameKinds

LEMMA TurningOnAnswer ==
    ASSUME DialogTypes, OneText, DialogSpinners, NEW i \in DOMAIN dialogCalls, AnswerDialog(i)
    PROVE  OneText' /\ DialogSpinners'
<1> DEFINE c == dialogCalls[i]
           rest == RemoveAt(dialogCalls, i)
<1>1. /\ c \in IdentifiedCalls /\ rest \in Seq(IdentifiedCalls) /\ dialog \in Dialogs
      /\ StopSpinner(c, TRUE)
  BY DialogRest DEF AnswerDialog, DialogTypes
<1>2. CASE c.kind \in {"create", "update"}
  <2>1. CASE c.andCheck
    <3>1. c.served /\ dialogCalls' = rest \o <<CheckAfter(c)>>
      BY <1>2, <2>1, SaveAnswered
    <3>2. CheckAfter(c) \in IdentifiedCalls /\ CheckAfter(c).kind = "check"
      BY <1>1, <3>1, CheckAfterType
    <3>3. Pending(dialogCalls', {"check"})
      BY <1>1, <3>1, <3>2, OneSent
    <3> QED BY <1>1, <3>1, <3>2, <3>3, TurningOnReply
  <2>2. CASE ~c.andCheck
    <3>1. dialogCalls' = rest /\ dialog' = [dialog EXCEPT !.open = FALSE]
      BY <1>2, <2>2, SaveAnswered
    <3>2. dialog'.health = dialog.health
      BY <1>1, <3>1 DEF Dialogs
    <3> QED BY <1>1, <1>2, <3>1, <3>2, SameIsSame, TurningOnReply
  <2> QED BY <2>1, <2>2
<1>3. CASE c.kind = "check"
  <2>1. dialogCalls' = rest /\ dialog' = [dialog EXCEPT !.health = c.id]
    BY <1>3 DEF AnswerDialog, ServiceChecked
  <2>2. dialog'.health # "loading"
    BY <1>1, <2>1, CallFields, DialogAssumption DEF Dialogs
  <2> QED BY <1>1, <2>1, <2>2, SameIsSame, TurningOnReply
<1>4. CASE c.kind = "describe"
  <2>1. dialogCalls' = rest /\ dialog' = [dialog EXCEPT !.form.alien = @ \/ ~c.fresh]
    BY <1>4 DEF AnswerDialog, TextCame
  <2>2. dialog'.health = dialog.health
    BY <1>1, <2>1 DEF Dialogs
  <2> QED BY <1>1, <1>4, <2>1, <2>2, SameIsSame, TurningOnReply
<1>5. CASE c.kind = "parse"
  <2>1. FillDialog(None, BlankForm, rest)
    BY <1>5 DEF AnswerDialog
  <2>2. SameKinds(rest, dialogCalls') /\ dialog'.health # "loading"
    BY <1>1, <2>1, CallsAged, DialogAssumption DEF FillDialog
  <2> QED BY <1>1, <2>2, TurningOnReply
<1> QED BY <1>1, <1>2, <1>3, <1>4, <1>5, CallFields

LEMMA TurningOnFail ==
    ASSUME DialogTypes, OneText, DialogSpinners, NEW i \in DOMAIN dialogCalls, FailDialog(i)
    PROVE  OneText' /\ DialogSpinners'
<1> DEFINE c == dialogCalls[i]
           rest == RemoveAt(dialogCalls, i)
<1>1. dialogCalls' = rest /\ StopSpinner(c, FALSE)
  BY DEF FailDialog, ServiceChecked
<1>2. dialog'.health = "loading" => dialog.health = "loading" /\ c.kind # "check"
  <2>1. CASE c.kind = "check"
    <3>1. dialog' = [dialog EXCEPT !.health = c.id]
      BY <2>1 DEF FailDialog, ServiceChecked
    <3>2. c.id \in Ids \cup {None}
      BY DialogRest, CallFields
    <3> QED BY <3>1, <3>2, DialogAssumption DEF DialogTypes, Dialogs
  <2>2. CASE c.kind # "check"
    BY <2>2 DEF FailDialog
  <2> QED BY <2>1, <2>2
<1> QED BY <1>1, <1>2, SameIsSame, TurningOnReply

LEMMA TurningStep ==
    DialogTypes /\ OneText /\ DialogSpinners /\ [DialogNext]_dialogVars
      => OneText' /\ DialogSpinners'
<1> SUFFICES ASSUME DialogTypes, OneText, DialogSpinners, [DialogNext]_dialogVars
             PROVE  OneText' /\ DialogSpinners'
  OBVIOUS
<1>1. dialog \in Dialogs
  BY DEF DialogTypes
<1>2. CASE UNCHANGED dialogVars
  BY <1>2 DEF dialogVars, OneText, DialogSpinners
<1>3. CASE OpenNew \/ \E s \in Ids : OpenEdit(s)
  BY <1>3, TurningOnFill DEF OpenNew, OpenEdit
<1>4. CASE CloseDialog
  <2>1. dialog'.health = dialog.health /\ UNCHANGED <<spin, dialogCalls>>
    BY <1>1, <1>4 DEF CloseDialog, Dialogs
  <2> QED BY <2>1 DEF OneText, DialogSpinners
<1>5. CASE CheckConnection
  <2>1. PICK c \in IdentifiedCalls :
          c.kind = "check" /\ dialogCalls' = dialogCalls \o <<c>> /\ UNCHANGED spin
    BY <1>5, CheckSends DEF NewCall
  <2> QED BY <2>1, TurningOnSend
<1>6. ASSUME NEW kind \in {"describe", "parse"}, kind = "describe" => DescribeService,
             kind = "parse" => ParseCurl
      PROVE  OneText' /\ DialogSpinners'
  <2>1. PICK c \in IdentifiedCalls :
          /\ c.kind = kind /\ dialogCalls' = dialogCalls \o <<c>> /\ UNCHANGED dialog
          /\ spin' = [spin EXCEPT ![kind] = TRUE] /\ ~spin[kind]
    BY <1>6, TextSends DEF NewCall
  <2> QED BY <2>1, TurningOnSend
<1>7. ASSUME NEW andCheck \in BOOLEAN, SubmitService(andCheck)
      PROVE  OneText' /\ DialogSpinners'
  <2>1. PICK c \in IdentifiedCalls :
          /\ c.kind \in {"create", "update"} /\ dialogCalls' = dialogCalls \o <<c>>
          /\ UNCHANGED <<dialog, spin>>
    BY <1>7, SubmitSends DEF NewCall
  <2> QED BY <2>1, TurningOnSend
<1>8. ASSUME NEW i \in DOMAIN dialogCalls, ServeSave(i) PROVE OneText' /\ DialogSpinners'
  <2>1. PICK d \in IdentifiedCalls :
          /\ d.kind = dialogCalls[i].kind /\ dialogCalls' = [dialogCalls EXCEPT ![i] = d]
          /\ UNCHANGED <<dialog, spin>>
    BY <1>8, SaveServed
  <2>2. SameKinds(dialogCalls, dialogCalls')
    BY <2>1, OneReplaced DEF DialogTypes
  <2> QED BY <2>1, <2>2, KindsStay DEF OneText, DialogSpinners
<1> QED BY <1>2, <1>3, <1>4, <1>5, <1>6, <1>7, <1>8, TurningOnAnswer, TurningOnFail
        DEF DialogNext, ReplyDialog

-------------------------------------------------------------------------------
(* The theorems *)

LEMMA DialogStart == DialogInit => DialogInv
<1> SUFFICES ASSUME DialogInit PROVE DialogInv
  OBVIOUS
<1>1. DialogTypes
  <2>1. \A s \in Ids : [of |-> s, alien |-> FALSE] \in ServiceForms
    BY DEF ServiceForms
  <2>2. stored \in [Ids -> ServiceForms \cup {None}]
    BY <2>1 DEF DialogInit
  <2>3. dialog \in Dialogs /\ spin \in [describe : BOOLEAN, parse : BOOLEAN]
    BY BlankType DEF DialogInit, Dialogs
  <2>4. dialogCalls \in Seq(IdentifiedCalls)
    BY DEF DialogInit
  <2>5. hasty \in BOOLEAN
    BY Zenon DEF DialogInit
  <2> QED BY <2>2, <2>3, <2>4, <2>5 DEF DialogTypes
<1>2. /\ dialogCalls = <<>> /\ dialog.form = BlankForm /\ dialog.editId = None
      /\ dialog.health = None /\ spin.describe = FALSE /\ spin.parse = FALSE
  BY DEF DialogInit
<1>3. OneText /\ DialogSpinners
  BY <1>2, DialogAssumption DEF OneText, Single, DialogSpinners, Pending
<1> QED BY <1>1, <1>3 DEF DialogInv, OneText

LEMMA DialogStep == DialogInv /\ [DialogNext]_dialogVars => DialogInv'
  BY DialogTypesStep, TurningStep DEF DialogInv, OneText

LEMMA DialogMeans == DialogInv => DialogTypeOK /\ DialogSpinners
<1> SUFFICES ASSUME DialogInv PROVE DialogTypeOK
  BY DEF DialogInv
<1>1. dialogCalls \in Seq(DialogCalls)
  BY DEF DialogInv, DialogTypes, IdentifiedCalls
<1> QED BY <1>1 DEF DialogInv, DialogTypes, DialogTypeOK

-------------------------------------------------------------------------------
(*****************************************************************************)
(* The board of services and groups                                          *)
(*****************************************************************************)

\* A deletion brings a service nowhere.
BoardSent == {c \in BoardCalls : c.kind = "delete" => c.to = Gone}

\* load() follows its answer.
Reloads(c) == c.kind \in {"create", "update", "delete", "addGroup", "dropGroup"}

BoardTypes ==
    /\ placed \in [Cards -> Places] /\ groups \in SUBSET GroupIds
    /\ \A s \in Cards : placed[s] \in groups \cup {None, Gone}
    /\ board \in [services : [Cards -> Places], groups : SUBSET GroupIds]
    /\ boardCalls \in Seq(BoardSent)
    /\ raced \in BOOLEAN

\* The one call under way is the move that the page has shown already.
Dragged(calls, b, at, gs) ==
    /\ Len(calls) = 1 /\ calls[1].kind = "move" /\ b.groups = gs
    /\ b.services = [at EXCEPT ![calls[1].card] = calls[1].to]
    /\ calls[1].done => b.services = at

\* A change was made that is followed by a reload.
Coming(calls) == \E i \in DOMAIN calls : Reloads(calls[i]) /\ calls[i].done

\* What the page has of services or groups is so, or the load that was sent last finds it.
LoadOf(calls, kind, has, is) ==
    /\ ~Pending(calls, {kind}) => has = is
    /\ \A i \in DOMAIN calls :
         calls[i].kind = kind /\ Newest(calls, i) => calls[i].seen \in {Gone, is}

Loading(calls, b, at, gs) ==
    LoadOf(calls, "services", b.services, at) /\ LoadOf(calls, "groups", b.groups, gs)

\* The page is ahead of the server by one move, or about to be brought up to it.
Near(calls, b, at, gs) ==
    \/ Dragged(calls, b, at, gs)
    \/ ~Pending(calls, {"move"}) /\ (Coming(calls) \/ Loading(calls, b, at, gs))

BoardInv == BoardTypes /\ (~raced => Near(boardCalls, board, placed, groups))

-------------------------------------------------------------------------------
(* Calls *)

LEMMA BoardCallFields ==
    ASSUME NEW c \in BoardSent
    PROVE  /\ c.kind = "services" => c.seen \in [Cards -> Places] \cup {Gone}
           /\ c.kind = "groups" => c.seen \in (SUBSET GroupIds) \cup {Gone}
           /\ c.kind \in {"create", "update", "delete", "move"}
                => c.card \in Cards /\ c.to \in Places /\ c.done \in BOOLEAN
           /\ c.kind \in {"addGroup", "dropGroup"} => c.group \in GroupIds /\ c.done \in BOOLEAN
           /\ c.kind = "delete" => c.to = Gone
           /\ c.kind = "services" \/ c.kind = "groups" \/ c.kind = "move" \/ Reloads(c)
<1>1. CASE c \in [kind : {"services"}, seen : [Cards -> Places] \cup {Gone}]
  BY <1>1 DEF Reloads
<1>2. CASE c \in [kind : {"groups"}, seen : (SUBSET GroupIds) \cup {Gone}]
  BY <1>2 DEF Reloads
<1>3. CASE c \in [kind : {"create", "update", "delete", "move"}, card : Cards, to : Places,
                  done : BOOLEAN]
  BY <1>3 DEF Reloads, BoardSent
<1>4. CASE c \in [kind : {"addGroup", "dropGroup"}, group : GroupIds, done : BOOLEAN]
  BY <1>4 DEF Reloads
<1> QED BY <1>1, <1>2, <1>3, <1>4 DEF BoardSent, BoardCalls

LEMMA LoadSeen ==
    ASSUME NEW c \in BoardSent, NEW found,
           \/ c.kind = "services" /\ found \in [Cards -> Places]
           \/ c.kind = "groups" /\ found \in SUBSET GroupIds
    PROVE  /\ [c EXCEPT !.seen = found] \in BoardSent
           /\ [c EXCEPT !.seen = found].kind = c.kind /\ [c EXCEPT !.seen = found].seen = found
<1>1. CASE c.kind = "services" /\ found \in [Cards -> Places]
  <2>1. c \in [kind : {"services"}, seen : [Cards -> Places] \cup {Gone}]
    BY <1>1 DEF BoardSent, BoardCalls
  <2>2. [c EXCEPT !.seen = found] \in [kind : {"services"}, seen : [Cards -> Places] \cup {Gone}]
    BY <1>1, <2>1
  <2> QED BY <2>1, <2>2 DEF BoardSent, BoardCalls
<1>2. CASE c.kind = "groups" /\ found \in SUBSET GroupIds
  <2>1. c \in [kind : {"groups"}, seen : (SUBSET GroupIds) \cup {Gone}]
    BY <1>2 DEF BoardSent, BoardCalls
  <2>2. [c EXCEPT !.seen = found] \in [kind : {"groups"}, seen : (SUBSET GroupIds) \cup {Gone}]
    BY <1>2, <2>1
  <2> QED BY <2>1, <2>2 DEF BoardSent, BoardCalls
<1> QED BY <1>1, <1>2

LEMMA ChangeDone ==
    ASSUME NEW c \in BoardSent, c.kind = "move" \/ Reloads(c)
    PROVE  LET d == [c EXCEPT !.done = TRUE] IN
           /\ d \in BoardSent /\ d.kind = c.kind /\ d.done
           /\ c.kind = "move" => d.card = c.card /\ d.to = c.to
<1> DEFINE d == [c EXCEPT !.done = TRUE]
<1>1. CASE c \in [kind : {"create", "update", "delete", "move"}, card : Cards, to : Places,
                  done : BOOLEAN]
  <2>1. d \in [kind : {"create", "update", "delete", "move"}, card : Cards, to : Places,
               done : BOOLEAN]
    BY <1>1
  <2>2. d.kind = c.kind /\ d.to = c.to /\ d.card = c.card /\ d.done
    BY <1>1
  <2> QED BY <2>1, <2>2 DEF BoardSent, BoardCalls
<1>2. CASE c \in [kind : {"addGroup", "dropGroup"}, group : GroupIds, done : BOOLEAN]
  <2>1. d \in [kind : {"addGroup", "dropGroup"}, group : GroupIds, done : BOOLEAN]
    BY <1>2
  <2>2. d.kind = c.kind /\ d.done /\ d.kind \in {"addGroup", "dropGroup"}
    BY <1>2
  <2> QED BY <2>1, <2>2 DEF BoardSent, BoardCalls
<1> QED BY <1>1, <1>2 DEF BoardSent, BoardCalls, Reloads

\* The two requests of load().
LoadBoard == FetchServices \o FetchGroups

LEMMA LoadBoardType ==
    /\ LoadBoard \in Seq(BoardSent) /\ Len(LoadBoard) = 2
    /\ LoadBoard[1].kind = "services" /\ LoadBoard[1].seen = Gone
    /\ LoadBoard[2].kind = "groups" /\ LoadBoard[2].seen = Gone
<1> DEFINE a == [kind |-> "services", seen |-> Gone]
           b == [kind |-> "groups", seen |-> Gone]
<1>1. a \in BoardSent /\ b \in BoardSent
  BY DEF BoardSent, BoardCalls
<1>2. LoadBoard = <<a, b>>
  BY Joined DEF LoadBoard, FetchServices, FetchGroups
<1>3. a.kind = "services" /\ a.seen = Gone /\ b.kind = "groups" /\ b.seen = Gone
  OBVIOUS
<1> HIDE DEF a, b
<1> QED BY <1>1, <1>2, <1>3

LEMMA LoadBoardPending ==
    /\ ~Pending(LoadBoard, {"move"})
    /\ Pending(LoadBoard, {"services"}) /\ Pending(LoadBoard, {"groups"})
  BY LoadBoardType DEF Pending

LEMMA ReloadType ==
    ASSUME NEW c PROVE ReloadBoard(c) \in Seq(BoardSent)
  BY LoadBoardType DEF ReloadBoard, LoadBoard

-------------------------------------------------------------------------------
(* Types *)

\* Whatever the user asks for but a move is a call that will be followed by a reload.
LEMMA CardAsked ==
    ASSUME NEW s \in Cards, NEW to \in Places, SaveCard(s, to) \/ DeleteCard(s)
    PROVE  \E c \in BoardSent : Reloads(c) /\ AskBoard(c)
<1>1. \A kind \in {"create", "update"} :
        ServiceChange(kind, s, to) \in BoardSent /\ Reloads(ServiceChange(kind, s, to))
  BY DEF ServiceChange, BoardSent, BoardCalls, Reloads
<1>2. ServiceChange("delete", s, Gone) \in BoardSent /\ Reloads(ServiceChange("delete", s, Gone))
  BY DEF ServiceChange, BoardSent, BoardCalls, Reloads, Places
<1> QED BY <1>1, <1>2 DEF SaveCard, DeleteCard

LEMMA GroupAsked ==
    ASSUME NEW g \in GroupIds, AddGroup(g) \/ DropGroup(g)
    PROVE  \E c \in BoardSent : Reloads(c) /\ AskBoard(c)
<1>1. \A kind \in {"addGroup", "dropGroup"} :
        LET c == [kind |-> kind, group |-> g, done |-> FALSE] IN c \in BoardSent /\ Reloads(c)
  BY DEF BoardSent, BoardCalls, Reloads
<1> QED BY <1>1 DEF AddGroup, DropGroup

\* What a step of the page can be.
LEMMA BoardSteps ==
    ASSUME [BoardNext]_boardVars
    PROVE  \/ UNCHANGED boardVars
           \/ \E c \in BoardSent : Reloads(c) /\ AskBoard(c)
           \/ \E s \in Cards, to \in Places : Drag(s, to)
           \/ \E i \in DOMAIN boardCalls : ServeBoard(i) \/ AnswerBoard(i) \/ FailBoard(i)
<1>1. ASSUME NEW s \in Cards, DeleteCard(s) PROVE \E c \in BoardSent : Reloads(c) /\ AskBoard(c)
  <2>1. Gone \in Places
    BY DEF Places
  <2> QED BY <1>1, <2>1, CardAsked
<1>2. ASSUME NEW s \in Cards, NEW to \in Places, Drag(s, to) \/ SaveCard(s, to)
      PROVE  \/ \E c \in BoardSent : Reloads(c) /\ AskBoard(c)
             \/ Drag(s, to)
  BY <1>2, CardAsked
<1>3. ASSUME NEW g \in GroupIds, AddGroup(g) \/ DropGroup(g)
      PROVE  \E c \in BoardSent : Reloads(c) /\ AskBoard(c)
  BY <1>3, GroupAsked
<1> QED BY <1>1, <1>2, <1>3, Zenon DEF BoardNext, ReplyBoard

LEMMA MoveType ==
    ASSUME NEW s \in Cards, NEW to \in Places
    PROVE  LET c == ServiceChange("move", s, to) IN
           c \in BoardSent /\ c.kind = "move" /\ c.card = s /\ c.to = to /\ ~c.done
  BY DEF ServiceChange, BoardSent, BoardCalls

\* What was a race stays one.
LEMMA RacedType ==
    ASSUME raced \in BOOLEAN, [BoardNext]_boardVars
    PROVE  raced' \in BOOLEAN /\ (raced => raced')
<1>1. ASSUME NEW c, AskBoard(c) PROVE raced' \in BOOLEAN /\ (raced => raced')
  BY <1>1, Zenon DEF AskBoard
<1>2. ASSUME NEW s, NEW to, Drag(s, to) PROVE raced' \in BOOLEAN /\ (raced => raced')
  BY <1>2, Zenon DEF Drag
<1>3. ASSUME NEW i, ServeBoard(i) \/ AnswerBoard(i) \/ FailBoard(i)
      PROVE  raced' \in BOOLEAN /\ (raced => raced')
  BY <1>3, Zenon DEF ServeBoard, AnswerBoard, FailBoard
<1>4. CASE UNCHANGED boardVars
  BY <1>4, Zenon DEF boardVars
<1> QED BY <1>1, <1>2, <1>3, <1>4, BoardSteps, Zenon

LEMMA ServeTypes ==
    ASSUME BoardTypes, NEW i \in DOMAIN boardCalls, ServeBoard(i)
    PROVE  /\ placed' \in [Cards -> Places] /\ groups' \in SUBSET GroupIds
           /\ \A s \in Cards : placed'[s] \in groups' \cup {None, Gone}
           /\ \E d \in BoardSent : /\ boardCalls' = [boardCalls EXCEPT ![i] = d]
                                   /\ d.kind = boardCalls[i].kind
<1> DEFINE c == boardCalls[i]
<1>1. c \in BoardSent /\ BoardUnserved(c) /\ BoardAccepts(c)
  BY DEF BoardTypes, ServeBoard
<1>2. CASE c.kind = "services"
  <2>1. boardCalls' = [boardCalls EXCEPT ![i] = [c EXCEPT !.seen = placed]]
        /\ placed' = placed /\ groups' = groups
    BY <1>2 DEF ServeBoard
  <2>2. [c EXCEPT !.seen = placed] \in BoardSent /\ [c EXCEPT !.seen = placed].kind = c.kind
    BY <1>1, <1>2, LoadSeen DEF BoardTypes
  <2> QED BY <2>1, <2>2 DEF BoardTypes
<1>3. CASE c.kind = "groups"
  <2>1. boardCalls' = [boardCalls EXCEPT ![i] = [c EXCEPT !.seen = groups]]
        /\ placed' = placed /\ groups' = groups
    BY <1>3 DEF ServeBoard
  <2>2. [c EXCEPT !.seen = groups] \in BoardSent /\ [c EXCEPT !.seen = groups].kind = c.kind
    BY <1>1, <1>3, LoadSeen DEF BoardTypes
  <2> QED BY <2>1, <2>2 DEF BoardTypes
<1>4. CASE c.kind = "move" \/ Reloads(c)
  <2>1. boardCalls' = [boardCalls EXCEPT ![i] = [c EXCEPT !.done = TRUE]]
    BY <1>4 DEF ServeBoard, Reloads
  <2>2. [c EXCEPT !.done = TRUE] \in BoardSent /\ [c EXCEPT !.done = TRUE].kind = c.kind
    BY <1>1, <1>4, ChangeDone
  <2>3. CASE c.kind \in {"create", "update", "delete", "move"}
    <3>1. placed' = [placed EXCEPT ![c.card] = c.to] /\ groups' = groups
      BY <2>3 DEF ServeBoard
    <3>2. c.card \in Cards /\ c.to \in Places /\ (c.kind = "delete" => c.to = Gone)
      BY <1>1, <2>3, BoardCallFields
    <3>3. c.to \in groups \cup {None, Gone}
      BY <1>1, <2>3, <3>2 DEF BoardAccepts
    <3> QED BY <2>1, <2>2, <3>1, <3>2, <3>3 DEF BoardTypes
  <2>4. CASE c.kind = "addGroup"
    <3>1. placed' = placed /\ groups' = groups \cup {c.group}
      BY <2>4 DEF ServeBoard
    <3>2. c.group \in GroupIds
      BY <1>1, <2>4, BoardCallFields
    <3> QED BY <2>1, <2>2, <3>1, <3>2 DEF BoardTypes
  <2>5. CASE c.kind = "dropGroup"
    <3>1. placed' = Ungrouped(c.group) /\ groups' = groups \ {c.group}
      BY <2>5 DEF ServeBoard
    <3>2. \A s \in Cards : placed'[s] = IF placed[s] = c.group THEN None ELSE placed[s]
      BY <3>1 DEF Ungrouped
    <3>3. placed' \in [Cards -> Places]
      BY <3>1 DEF Ungrouped, BoardTypes, Places
    <3>4. \A s \in Cards : placed'[s] \in groups' \cup {None, Gone}
      BY <3>1, <3>2 DEF BoardTypes
    <3> QED BY <2>1, <2>2, <3>1, <3>3, <3>4 DEF BoardTypes
  <2> QED BY <1>4, <2>3, <2>4, <2>5 DEF Reloads
<1> QED BY <1>1, <1>2, <1>3, <1>4, BoardCallFields

LEMMA AnswerTypes ==
    ASSUME BoardTypes, NEW i \in DOMAIN boardCalls, AnswerBoard(i)
    PROVE  /\ board' \in [services : [Cards -> Places], groups : SUBSET GroupIds]
           /\ boardCalls' \in Seq(BoardSent)
<1> DEFINE c == boardCalls[i]
<1>1. c \in BoardSent /\ ~BoardUnserved(c)
  BY DEF BoardTypes, AnswerBoard
<1>2. boardCalls' = RemoveAt(boardCalls, i) \o ReloadBoard(c)
  BY DEF AnswerBoard
<1>3. RemoveAt(boardCalls, i) \in Seq(BoardSent) /\ ReloadBoard(c) \in Seq(BoardSent)
  BY CallsLeft, ReloadType DEF BoardTypes
<1>4. boardCalls' \in Seq(BoardSent)
  BY <1>2, <1>3
<1>5. CASE c.kind = "services"
  <2>1. board' = [board EXCEPT !.services = c.seen]
    BY <1>5 DEF AnswerBoard
  <2>2. c.seen \in [Cards -> Places]
    BY <1>1, <1>5, BoardCallFields DEF BoardUnserved, IsLoad
  <2> QED BY <1>4, <2>1, <2>2 DEF BoardTypes
<1>6. CASE c.kind = "groups"
  <2>1. board' = [board EXCEPT !.groups = c.seen]
    BY <1>6 DEF AnswerBoard
  <2>2. c.seen \in SUBSET GroupIds
    BY <1>1, <1>6, BoardCallFields DEF BoardUnserved, IsLoad
  <2> QED BY <1>4, <2>1, <2>2 DEF BoardTypes
<1>7. CASE c.kind \notin {"services", "groups"}
  <2>1. board' = board
    BY <1>7 DEF AnswerBoard
  <2> QED BY <1>4, <2>1 DEF BoardTypes
<1> QED BY <1>5, <1>6, <1>7

LEMMA BoardTypesStep == ASSUME BoardTypes, [BoardNext]_boardVars PROVE BoardTypes'
<1>1. raced' \in BOOLEAN
  BY RacedType DEF BoardTypes
<1>2. CASE UNCHANGED boardVars
  BY <1>2 DEF boardVars, BoardTypes
<1>3. ASSUME NEW c \in BoardSent, AskBoard(c) PROVE BoardTypes'
  <2>1. boardCalls' \in Seq(BoardSent) /\ UNCHANGED <<placed, groups, board>>
    BY <1>3 DEF AskBoard, CallBoard, BoardTypes
  <2> QED BY <1>1, <2>1 DEF BoardTypes
<1>4. ASSUME NEW s \in Cards, NEW to \in Places, Drag(s, to) PROVE BoardTypes'
  <2>1. boardCalls' = Append(boardCalls, ServiceChange("move", s, to))
        /\ UNCHANGED <<placed, groups>> /\ board' = [board EXCEPT !.services[s] = to]
    BY <1>4 DEF Drag, CallBoard
  <2>2. boardCalls' \in Seq(BoardSent)
    BY <2>1, MoveType DEF BoardTypes
  <2>3. board' \in [services : [Cards -> Places], groups : SUBSET GroupIds]
    BY <2>1 DEF BoardTypes
  <2> QED BY <1>1, <2>1, <2>2, <2>3 DEF BoardTypes
<1>6. ASSUME NEW i \in DOMAIN boardCalls, ServeBoard(i) PROVE BoardTypes'
  <2>1. UNCHANGED board
    BY <1>6 DEF ServeBoard
  <2>2. boardCalls' \in Seq(BoardSent)
    BY <1>6, ServeTypes, OneReplaced DEF BoardTypes
  <2> QED BY <1>1, <1>6, <2>1, <2>2, ServeTypes DEF BoardTypes
<1>7. ASSUME NEW i \in DOMAIN boardCalls, AnswerBoard(i) PROVE BoardTypes'
  <2>1. UNCHANGED <<placed, groups>>
    BY <1>7 DEF AnswerBoard
  <2> QED BY <1>1, <1>7, <2>1, AnswerTypes DEF BoardTypes
<1>8. ASSUME NEW i \in DOMAIN boardCalls, FailBoard(i) PROVE BoardTypes'
  <2>1. UNCHANGED <<placed, groups, board>>
    BY <1>8 DEF FailBoard
  <2>2. boardCalls' \in {RemoveAt(boardCalls, i) \o <<>>, RemoveAt(boardCalls, i) \o LoadBoard}
    BY <1>8 DEF FailBoard, LoadBoard
  <2>3. RemoveAt(boardCalls, i) \in Seq(BoardSent)
    BY CallsLeft DEF BoardTypes
  <2>4. boardCalls' \in Seq(BoardSent)
    <3>1. LoadBoard \in Seq(BoardSent) /\ <<>> \in Seq(BoardSent)
      BY LoadBoardType
    <3>2. \A more \in Seq(BoardSent) : RemoveAt(boardCalls, i) \o more \in Seq(BoardSent)
      BY <2>3
    <3> QED BY <2>2, <3>1, <3>2, Zenon
  <2> QED BY <1>1, <2>1, <2>4 DEF BoardTypes
<1> QED BY <1>2, <1>3, <1>4, <1>6, <1>7, <1>8, BoardSteps

\* A list that is loaded is so when no load is under way.
LEMMA NothingUnderWay ==
    ASSUME NEW b, NEW at, NEW gs, NEW calls \in Seq(BoardSent), Near(calls, b, at, gs), calls = <<>>
    PROVE  b.services = at /\ b.groups = gs
  BY DEF Near, Dragged, Coming, Loading, LoadOf, Pending

LEMMA NearOnDrag ==
    ASSUME BoardTypes, Near(boardCalls, board, placed, groups), boardCalls = <<>>,
           NEW s \in Cards, NEW to \in Places, Drag(s, to)
    PROVE  Near(boardCalls', board', placed', groups')
<1> DEFINE c == ServiceChange("move", s, to)
<1>1. board.services = placed /\ board.groups = groups
  BY NothingUnderWay DEF BoardTypes
<1>2. /\ boardCalls' = Append(boardCalls, c) /\ board' = [board EXCEPT !.services[s] = to]
      /\ placed' = placed /\ groups' = groups
  BY DEF Drag, CallBoard
<1>3. c.kind = "move" /\ c.card = s /\ c.to = to /\ ~c.done
  BY MoveType
<1> HIDE DEF c
<1>4. Len(boardCalls') = 1 /\ boardCalls'[1] = c
  BY <1>2
<1>5. board'.groups = groups /\ board'.services = [placed EXCEPT ![s] = to]
  BY <1>1, <1>2 DEF BoardTypes
<1>6. Dragged(boardCalls', board', placed', groups')
  BY <1>2, <1>3, <1>4, <1>5 DEF Dragged
<1> QED BY <1>6, Zenon DEF Near

\* A change that is sent leaves the loads what they are.
LEMMA LoadOfMore ==
    ASSUME NEW calls \in Seq(BoardSent), NEW more \in Seq(BoardSent), NEW kind, NEW has, NEW is,
           LoadOf(calls, kind, has, is), ~Pending(more, {kind})
    PROVE  LoadOf(calls \o more, kind, has, is)
<1>1. ~Pending(calls \o more, {kind}) => has = is
  BY PendingMore DEF LoadOf
<1>2. ASSUME NEW k \in DOMAIN (calls \o more), (calls \o more)[k].kind = kind,
             Newest(calls \o more, k)
      PROVE  (calls \o more)[k].seen \in {Gone, is}
  <2>1. \/ Newest(calls, k) /\ (calls \o more)[k] = calls[k]
        \/ \E m \in DOMAIN more : (calls \o more)[k] = more[m]
    BY <1>2, NewestMore
  <2>2. ASSUME NEW m \in DOMAIN more, (calls \o more)[k] = more[m] PROVE FALSE
    BY <1>2, <2>2 DEF Pending
  <2>3. Newest(calls, k) /\ (calls \o more)[k] = calls[k]
    BY <2>1, <2>2
  <2> QED BY <1>2, <2>3 DEF LoadOf, Newest
<1> QED BY <1>1, <1>2 DEF LoadOf

LEMMA ComingMore ==
    ASSUME NEW calls \in Seq(BoardSent), NEW more \in Seq(BoardSent), Coming(calls)
    PROVE  Coming(calls \o more)
  BY AllThere DEF Coming

LEMMA NearOnAsk ==
    ASSUME BoardTypes, Near(boardCalls, board, placed, groups), ~Pending(boardCalls, {"move"}),
           NEW c \in BoardSent, Reloads(c), AskBoard(c)
    PROVE  Near(boardCalls', board', placed', groups')
<1>1. /\ boardCalls' = boardCalls \o <<c>> /\ <<c>> \in Seq(BoardSent)
      /\ boardCalls \in Seq(BoardSent)
      /\ board' = board /\ placed' = placed /\ groups' = groups
  BY OneMore DEF AskBoard, CallBoard, BoardTypes
<1>2. ~Pending(<<c>>, {"services"}) /\ ~Pending(<<c>>, {"groups"}) /\ ~Pending(<<c>>, {"move"})
  BY OneMore DEF Pending, Reloads
<1>3. ~Pending(boardCalls', {"move"})
  BY <1>1, <1>2, PendingMore
<1>4. ~Dragged(boardCalls, board, placed, groups)
  BY <1>1 DEF Dragged, Pending
<1>5. CASE Coming(boardCalls)
  <2>1. Coming(boardCalls')
    BY <1>1, <1>5, ComingMore
  <2> QED BY <1>3, <2>1 DEF Near
<1>6. CASE Loading(boardCalls, board, placed, groups)
  <2>1. Loading(boardCalls', board', placed', groups')
    BY <1>1, <1>2, <1>6, LoadOfMore, Zenon DEF Loading
  <2> QED BY <1>3, <2>1 DEF Near
<1> QED BY <1>4, <1>5, <1>6 DEF Near

-------------------------------------------------------------------------------
(* A call is served *)

LEMMA SameDrag ==
    ASSUME NEW calls, NEW b, NEW at, NEW gs, Dragged(calls, b, at, gs), NEW i \in DOMAIN calls,
           NEW C, calls \in Seq(C)
    PROVE  i = 1 /\ calls[i].kind = "move"
<1>1. i \in 1..1
  BY DEF Dragged
<1> QED BY <1>1 DEF Dragged

LEMMA NearOnServedLoad ==
    ASSUME BoardTypes, Near(boardCalls, board, placed, groups), NEW i \in DOMAIN boardCalls,
           ServeBoard(i), boardCalls[i].kind \in {"services", "groups"}
    PROVE  Near(boardCalls', board', placed', groups')
<1> DEFINE c == boardCalls[i]
           what == IF c.kind = "services" THEN placed ELSE groups
           d == [c EXCEPT !.seen = what]
<1>1. /\ boardCalls' = [boardCalls EXCEPT ![i] = d]
      /\ placed' = placed /\ groups' = groups /\ board' = board
  BY DEF ServeBoard
<1>2. d \in BoardSent /\ d.kind = c.kind /\ d.seen = what
  <2>1. c \in BoardSent /\ placed \in [Cards -> Places] /\ groups \in SUBSET GroupIds
    BY DEF BoardTypes
  <2>2. \/ c.kind = "services" /\ what \in [Cards -> Places]
        \/ c.kind = "groups" /\ what \in SUBSET GroupIds
    BY <2>1
  <2> HIDE DEF what, c
  <2> QED BY <2>1, <2>2, LoadSeen
<1>3. boardCalls \in Seq(BoardSent)
  BY DEF BoardTypes
<1>4. ~Dragged(boardCalls, board, placed, groups)
  BY <1>3, SameDrag
<1> HIDE DEF d
<1>5. /\ SameKinds(boardCalls, boardCalls')
      /\ \A j \in DOMAIN boardCalls : boardCalls'[j] = IF j = i THEN d ELSE boardCalls[j]
  BY <1>1, <1>2, <1>3, OneReplaced, Zenon
<1>6. ~Pending(boardCalls', {"move"})
  BY <1>4, <1>5, KindsStay DEF Near
<1>7. CASE Coming(boardCalls)
  <2>1. Coming(boardCalls')
    BY <1>5, <1>7 DEF Coming, Reloads, SameKinds
  <2> QED BY <1>6, <2>1 DEF Near
<1>8. CASE Loading(boardCalls, board, placed, groups)
  <2>1. ASSUME NEW kind \in {"services", "groups"}, NEW has, NEW is,
               LoadOf(boardCalls, kind, has, is), c.kind = kind => what = is
        PROVE  LoadOf(boardCalls', kind, has, is)
    <3>1. ~Pending(boardCalls', {kind}) => has = is
      BY <1>5, <2>1, KindsStay DEF LoadOf
    <3>2. ASSUME NEW j \in DOMAIN boardCalls', boardCalls'[j].kind = kind, Newest(boardCalls', j)
          PROVE  boardCalls'[j].seen \in {Gone, is}
      <4>1. j \in DOMAIN boardCalls /\ Newest(boardCalls, j) /\ boardCalls[j].kind = kind
        <5>1. j \in DOMAIN boardCalls /\ boardCalls[j].kind = kind
          BY <1>5, <3>2 DEF SameKinds
        <5>2. Newest(boardCalls, j)
          BY <1>5, <3>2, KindsStay, Zenon
        <5> QED BY <5>1, <5>2
      <4>2. CASE j = i
        BY <1>2, <1>5, <2>1, <4>1, <4>2
      <4>3. CASE j # i
        BY <1>5, <2>1, <4>1, <4>3 DEF LoadOf
      <4> QED BY <4>2, <4>3
    <3> QED BY <3>1, <3>2 DEF LoadOf
  <2>2. Loading(boardCalls', board', placed', groups')
    <3>1. LoadOf(boardCalls', "services", board.services, placed)
      BY <1>8, <2>1 DEF Loading
    <3>2. LoadOf(boardCalls', "groups", board.groups, groups)
      BY <1>8, <2>1 DEF Loading
    <3> QED BY <1>1, <3>1, <3>2, Zenon DEF Loading
  <2> QED BY <1>6, <2>2 DEF Near
<1> QED BY <1>4, <1>7, <1>8 DEF Near

LEMMA NearOnServedMove ==
    ASSUME BoardTypes, Near(boardCalls, board, placed, groups), NEW i \in DOMAIN boardCalls,
           ServeBoard(i), boardCalls[i].kind = "move"
    PROVE  Near(boardCalls', board', placed', groups')
<1> DEFINE c == boardCalls[i]
           d == [c EXCEPT !.done = TRUE]
<1>1. boardCalls \in Seq(BoardSent) /\ Pending(boardCalls, {"move"})
  BY DEF BoardTypes, Pending
<1>2. Dragged(boardCalls, board, placed, groups) /\ i = 1
  BY <1>1, SameDrag DEF Near
<1>3. /\ boardCalls' = [boardCalls EXCEPT ![i] = d]
      /\ placed' = [placed EXCEPT ![c.card] = c.to] /\ groups' = groups /\ board' = board
  BY DEF ServeBoard
<1>4. d.kind = "move" /\ d.card = c.card /\ d.to = c.to /\ c.card \in Cards
  <2>1. c \in BoardSent
    BY <1>1
  <2> QED BY <2>1, ChangeDone, BoardCallFields
<1> HIDE DEF d
<1>5. Len(boardCalls') = 1 /\ boardCalls'[1] = d
  BY <1>1, <1>2, <1>3 DEF Dragged
<1>6. board.services = placed' /\ board.groups = groups
  BY <1>2, <1>3 DEF Dragged
<1>7. [placed' EXCEPT ![c.card] = c.to] = placed'
  BY <1>3, <1>4 DEF BoardTypes
<1>8. Dragged(boardCalls', board', placed', groups')
  BY <1>3, <1>4, <1>5, <1>6, <1>7 DEF Dragged
<1> QED BY <1>8, Zenon DEF Near

LEMMA NearOnServedChange ==
    ASSUME BoardTypes, Near(boardCalls, board, placed, groups), NEW i \in DOMAIN boardCalls,
           ServeBoard(i), Reloads(boardCalls[i])
    PROVE  Near(boardCalls', board', placed', groups')
<1> DEFINE c == boardCalls[i]
           d == [c EXCEPT !.done = TRUE]
<1>1. boardCalls \in Seq(BoardSent)
  BY DEF BoardTypes
<1>2. ~Pending(boardCalls, {"move"})
  <2>1. ~Dragged(boardCalls, board, placed, groups)
    BY <1>1, SameDrag DEF Reloads
  <2> QED BY <2>1 DEF Near
<1>3. boardCalls' = [boardCalls EXCEPT ![i] = d]
  BY DEF ServeBoard, Reloads
<1>4. d \in BoardSent /\ d.kind = c.kind /\ d.done
  <2>1. c \in BoardSent
    BY <1>1
  <2> QED BY <2>1, ChangeDone
<1> HIDE DEF d
<1>5. SameKinds(boardCalls, boardCalls') /\ boardCalls'[i] = d /\ i \in DOMAIN boardCalls'
  <2>1. SameKinds(boardCalls, boardCalls') /\ boardCalls'[i] = d
    BY <1>1, <1>3, <1>4, OneReplaced, Zenon
  <2> QED BY <2>1 DEF SameKinds
<1>6. Coming(boardCalls')
  BY <1>4, <1>5 DEF Coming, Reloads
<1>7. ~Pending(boardCalls', {"move"})
  BY <1>2, <1>5, KindsStay
<1> QED BY <1>6, <1>7 DEF Near

\* An answer that overtakes none, or one of another kind, leaves the newest load what it is.
LEMMA LoadOfLeft ==
    ASSUME NEW calls \in Seq(BoardSent), NEW i \in DOMAIN calls, NEW kind, NEW has, NEW is,
           LoadOf(calls, kind, has, is), ~Overtakes(calls, i) \/ calls[i].kind # kind
    PROVE  \A j \in DOMAIN RemoveAt(calls, i) :
             RemoveAt(calls, i)[j].kind = kind /\ Newest(RemoveAt(calls, i), j)
               => RemoveAt(calls, i)[j].seen \in {Gone, is}
<1> SUFFICES ASSUME NEW j \in DOMAIN RemoveAt(calls, i), RemoveAt(calls, i)[j].kind = kind,
                    Newest(RemoveAt(calls, i), j)
             PROVE  RemoveAt(calls, i)[j].seen \in {Gone, is}
  OBVIOUS
<1>1. PICK m \in DOMAIN calls : Newest(calls, m) /\ calls[m] = RemoveAt(calls, i)[j]
  BY NewestLeft
<1> QED BY <1>1 DEF LoadOf

\* What the newest load brings is so.
LEMMA LoadOfLast ==
    ASSUME NEW calls \in Seq(BoardSent), NEW i \in DOMAIN calls, NEW has, NEW is,
           LoadOf(calls, calls[i].kind, has, is), calls[i].seen # Gone, ~Overtakes(calls, i)
    PROVE  LoadOf(RemoveAt(calls, i), calls[i].kind, calls[i].seen, is)
<1>1. ~Pending(RemoveAt(calls, i), {calls[i].kind}) => calls[i].seen = is
  BY LastIsNewest DEF LoadOf
<1> QED BY <1>1, LoadOfLeft DEF LoadOf

LEMMA LoadOfOther ==
    ASSUME NEW calls \in Seq(BoardSent), NEW i \in DOMAIN calls, NEW kind, NEW has, NEW is,
           LoadOf(calls, kind, has, is), calls[i].kind # kind
    PROVE  LoadOf(RemoveAt(calls, i), kind, has, is)
<1>1. ~Pending(RemoveAt(calls, i), {kind}) => has = is
  BY PendingLeft DEF LoadOf
<1> QED BY <1>1, LoadOfLeft DEF LoadOf

LEMMA ComingLeft ==
    ASSUME NEW calls \in Seq(BoardSent), NEW i \in DOMAIN calls, Coming(calls),
           ~Reloads(calls[i]) \/ ~calls[i].done
    PROVE  Coming(RemoveAt(calls, i))
<1>1. PICK m \in DOMAIN calls : Reloads(calls[m]) /\ calls[m].done
  BY DEF Coming
<1> QED BY <1>1, OthersLeft DEF Coming

\* When load() is called, everything will be brought.
LEMMA LoadOfReload ==
    ASSUME NEW calls \in Seq(BoardSent), NEW kind \in {"services", "groups"}, NEW has, NEW is
    PROVE  LoadOf(calls \o LoadBoard, kind, has, is)
<1>1. LoadBoard \in Seq(BoardSent) /\ Pending(LoadBoard, {kind})
  BY LoadBoardType, LoadBoardPending
<1>2. Pending(calls \o LoadBoard, {kind})
  BY <1>1, PendingMore
<1>3. ASSUME NEW k \in DOMAIN (calls \o LoadBoard), (calls \o LoadBoard)[k].kind = kind,
             Newest(calls \o LoadBoard, k)
      PROVE  (calls \o LoadBoard)[k].seen \in {Gone, is}
  <2>1. PICK m \in DOMAIN LoadBoard : (calls \o LoadBoard)[k] = LoadBoard[m]
    BY <1>1, <1>3, NewestMore
  <2>2. m = 1 \/ m = 2
    BY <1>1, LoadBoardType
  <2> QED BY <2>1, <2>2, LoadBoardType
<1> QED BY <1>2, <1>3 DEF LoadOf

LEMMA NearOnReload ==
    ASSUME NEW calls \in Seq(BoardSent), NEW b, NEW at, NEW gs, ~Pending(calls, {"move"})
    PROVE  Near(calls \o LoadBoard, b, at, gs)
<1>1. ~Pending(calls \o LoadBoard, {"move"})
  BY LoadBoardType, LoadBoardPending, PendingMore
<1>2. Loading(calls \o LoadBoard, b, at, gs)
  BY LoadOfReload DEF Loading
<1> QED BY <1>1, <1>2 DEF Near

-------------------------------------------------------------------------------
(* A call is answered, or fails *)

LEMMA Left ==
    ASSUME BoardTypes, NEW i \in DOMAIN boardCalls
    PROVE  /\ boardCalls \in Seq(BoardSent) /\ boardCalls[i] \in BoardSent
           /\ RemoveAt(boardCalls, i) \in Seq(BoardSent)
           /\ RemoveAt(boardCalls, i) \o <<>> = RemoveAt(boardCalls, i)
<1>1. RemoveAt(boardCalls, i) \in Seq(BoardSent)
  BY CallsLeft DEF BoardTypes
<1>2. RemoveAt(boardCalls, i) \o <<>> = RemoveAt(boardCalls, i)
  BY <1>1
<1> QED BY <1>1, <1>2 DEF BoardTypes

LEMMA NearOnLoad ==
    ASSUME BoardTypes, Near(boardCalls, board, placed, groups), NEW i \in DOMAIN boardCalls,
           AnswerBoard(i), ~Overtakes(boardCalls, i),
           boardCalls[i].kind \in {"services", "groups"}
    PROVE  Near(boardCalls', board', placed', groups')
<1> DEFINE c == boardCalls[i]
           rest == RemoveAt(boardCalls, i)
<1>1. /\ c \in BoardSent /\ boardCalls \in Seq(BoardSent) /\ rest \in Seq(BoardSent)
      /\ board \in [services : [Cards -> Places], groups : SUBSET GroupIds]
  BY Left DEF BoardTypes
<1>2. boardCalls' = rest /\ c.seen # Gone /\ UNCHANGED <<placed, groups>>
  <2>1. boardCalls' = rest \o <<>>
    BY DEF AnswerBoard, ReloadBoard
  <2> QED BY <2>1, Left DEF AnswerBoard, BoardUnserved, IsLoad
<1>3. /\ c.kind = "services" => board' = [board EXCEPT !.services = c.seen]
      /\ c.kind = "groups" => board' = [board EXCEPT !.groups = c.seen]
  BY DEF AnswerBoard
<1>4. ~Dragged(boardCalls, board, placed, groups)
  BY <1>1, SameDrag
<1>5. ~Pending(rest, {"move"})
  BY <1>1, <1>4, PendingLeft DEF Near
<1>6. CASE Coming(boardCalls)
  <2>1. Coming(rest)
    BY <1>1, <1>6, ComingLeft DEF Reloads
  <2> QED BY <1>2, <1>5, <2>1 DEF Near
<1>7. CASE Loading(boardCalls, board, placed, groups)
  <2>1. LoadOf(boardCalls, "services", board.services, placed)
        /\ LoadOf(boardCalls, "groups", board.groups, groups)
    BY <1>7 DEF Loading
  <2>2. CASE c.kind = "services"
    <3>1. board'.services = c.seen /\ board'.groups = board.groups
      BY <1>1, <1>3, <2>2
    <3>2. LoadOf(rest, "services", c.seen, placed)
      BY <1>1, <1>2, <2>1, <2>2, LoadOfLast
    <3>3. LoadOf(rest, "groups", board.groups, groups)
      BY <1>1, <2>1, <2>2, LoadOfOther
    <3> QED BY <1>2, <1>5, <3>1, <3>2, <3>3 DEF Near, Loading
  <2>3. CASE c.kind = "groups"
    <3>1. board'.groups = c.seen /\ board'.services = board.services
      BY <1>1, <1>3, <2>3
    <3>2. LoadOf(rest, "groups", c.seen, groups)
      BY <1>1, <1>2, <2>1, <2>3, LoadOfLast
    <3>3. LoadOf(rest, "services", board.services, placed)
      BY <1>1, <2>1, <2>3, LoadOfOther
    <3> QED BY <1>2, <1>5, <3>1, <3>2, <3>3 DEF Near, Loading
  <2> QED BY <2>2, <2>3
<1> QED BY <1>4, <1>6, <1>7 DEF Near

\* A move that the server made: the page has it.
LEMMA NearOnMoved ==
    ASSUME BoardTypes, Near(boardCalls, board, placed, groups), NEW i \in DOMAIN boardCalls,
           AnswerBoard(i), boardCalls[i].kind = "move"
    PROVE  Near(boardCalls', board', placed', groups')
<1>1. boardCalls \in Seq(BoardSent) /\ Pending(boardCalls, {"move"})
  BY DEF BoardTypes, Pending
<1>2. Dragged(boardCalls, board, placed, groups) /\ i = 1
  BY <1>1, SameDrag DEF Near
<1>3. boardCalls' = RemoveAt(boardCalls, i) \o <<>>
  BY DEF AnswerBoard, ReloadBoard
<1>4. boardCalls[1].done /\ board' = board /\ UNCHANGED <<placed, groups>>
  BY <1>2 DEF AnswerBoard, BoardUnserved, IsLoad
<1>5. \A j : j \notin DOMAIN boardCalls'
  <2>1. RemoveAt(boardCalls, i) \in Seq(BoardSent) /\ Len(RemoveAt(boardCalls, i)) = 0
    BY <1>1, <1>2, CallsLeft DEF Dragged
  <2> QED BY <1>3, <2>1
<1>6. board'.services = placed' /\ board'.groups = groups'
  BY <1>2, <1>4 DEF Dragged
<1>7. \A kinds : ~Pending(boardCalls', kinds)
  BY <1>5 DEF Pending
<1>8. Loading(boardCalls', board', placed', groups')
  BY <1>5, <1>6 DEF Loading, LoadOf
<1> QED BY <1>7, <1>8 DEF Near

LEMMA NearOnChanged ==
    ASSUME BoardTypes, Near(boardCalls, board, placed, groups), NEW i \in DOMAIN boardCalls,
           AnswerBoard(i), Reloads(boardCalls[i])
    PROVE  Near(boardCalls', board', placed', groups')
<1> DEFINE rest == RemoveAt(boardCalls, i)
<1>1. boardCalls \in Seq(BoardSent) /\ rest \in Seq(BoardSent)
  BY Left
<1>2. boardCalls' = rest \o LoadBoard
  BY DEF AnswerBoard, ReloadBoard, LoadBoard, Reloads
<1>3. ~Dragged(boardCalls, board, placed, groups)
  BY <1>1, SameDrag DEF Reloads
<1>4. ~Pending(rest, {"move"})
  BY <1>1, <1>3, PendingLeft DEF Near
<1> QED BY <1>1, <1>2, <1>4, NearOnReload

LEMMA NearOnFail ==
    ASSUME BoardTypes, Near(boardCalls, board, placed, groups), NEW i \in DOMAIN boardCalls,
           FailBoard(i), ~raced'
    PROVE  Near(boardCalls', board', placed', groups')
<1> DEFINE c == boardCalls[i]
           rest == RemoveAt(boardCalls, i)
<1>1. boardCalls \in Seq(BoardSent) /\ rest \in Seq(BoardSent) /\ c \in BoardSent
  BY Left
<1>2. ~IsLoad(c) /\ (c.kind # "move" => ~c.done)
  BY Zenon DEF FailBoard
<1>3. UNCHANGED <<placed, groups, board>>
  BY DEF FailBoard
<1>4. CASE c.kind = "move"
  <2>1. Dragged(boardCalls, board, placed, groups) /\ boardCalls' = rest \o LoadBoard
    BY <1>4 DEF FailBoard, LoadBoard, Near, Pending
  <2>2. Len(rest) = 0
    BY <1>1, <2>1, CallsLeft DEF Dragged
  <2>3. ~Pending(rest, {"move"})
    BY <1>1, <2>2 DEF Pending
  <2> QED BY <1>1, <2>1, <2>3, NearOnReload
<1>5. CASE c.kind # "move"
  <2>1. boardCalls' = rest
    <3>1. boardCalls' = rest \o <<>>
      BY <1>5 DEF FailBoard
    <3> QED BY <3>1, Left
  <2>2. ~Dragged(boardCalls, board, placed, groups)
    BY <1>1, <1>5, SameDrag
  <2>3. ~Pending(rest, {"move"})
    BY <1>1, <2>2, PendingLeft DEF Near
  <2>4. CASE Coming(boardCalls)
    <3>1. Coming(rest)
      BY <1>1, <1>2, <1>5, <2>4, ComingLeft
    <3> QED BY <2>1, <2>3, <3>1 DEF Near
  <2>5. CASE Loading(boardCalls, board, placed, groups)
    <3>1. c.kind # "services" /\ c.kind # "groups"
      BY <1>2 DEF IsLoad
    <3>2. Loading(rest, board, placed, groups)
      BY <1>1, <2>5, <3>1, LoadOfOther DEF Loading
    <3> QED BY <1>3, <2>1, <2>3, <3>2 DEF Near
  <2> QED BY <2>2, <2>4, <2>5 DEF Near
<1> QED BY <1>4, <1>5

-------------------------------------------------------------------------------
(* The theorem *)

LEMMA BoardStart == BoardInit => BoardInv
<1> SUFFICES ASSUME BoardInit PROVE BoardInv
  OBVIOUS
<1>1. boardCalls = LoadBoard
  BY DEF BoardInit, LoadBoard
<1>2. placed \in [Cards -> Places] /\ groups \in SUBSET GroupIds
      /\ \A s \in Cards : placed[s] \in groups \cup {None, Gone}
  BY DEF BoardInit, Places
<1>3. board \in [services : [Cards -> Places], groups : SUBSET GroupIds]
  BY DEF BoardInit, Places
<1>4. raced \in BOOLEAN
  BY Zenon DEF BoardInit
<1>5. BoardTypes
  BY <1>1, <1>2, <1>3, <1>4, LoadBoardType DEF BoardTypes
<1>6. Loading(boardCalls, board, placed, groups)
  <2>1. \A kind \in {"services", "groups"} : \A has, is : LoadOf(LoadBoard, kind, has, is)
    <3>1. ASSUME NEW kind \in {"services", "groups"}, NEW has, NEW is
          PROVE  LoadOf(LoadBoard, kind, has, is)
      <4>1. Pending(LoadBoard, {kind})
        BY LoadBoardPending
      <4>2. \A k \in DOMAIN LoadBoard : k = 1 \/ k = 2
        BY LoadBoardType
      <4> QED BY <4>1, <4>2, LoadBoardType DEF LoadOf
    <3> QED BY <3>1
  <2> QED BY <1>1, <2>1 DEF Loading
<1>7. ~Pending(boardCalls, {"move"})
  BY <1>1, LoadBoardPending
<1> QED BY <1>5, <1>6, <1>7 DEF BoardInv, Near

LEMMA BoardStep == BoardInv /\ [BoardNext]_boardVars => BoardInv'
<1> SUFFICES ASSUME BoardInv, [BoardNext]_boardVars PROVE BoardInv'
  OBVIOUS
<1>1. BoardTypes /\ BoardTypes'
  BY BoardTypesStep DEF BoardInv
<1>2. SUFFICES ASSUME ~raced' PROVE Near(boardCalls', board', placed', groups')
  BY <1>1 DEF BoardInv
<1>3. Near(boardCalls, board, placed, groups)
  BY <1>1, <1>2, RacedType DEF BoardInv, BoardTypes
<1>4. CASE UNCHANGED boardVars
  BY <1>3, <1>4, Zenon DEF boardVars
<1>5. ASSUME NEW c \in BoardSent, Reloads(c), AskBoard(c)
      PROVE  Near(boardCalls', board', placed', groups')
  <2>1. ~Pending(boardCalls, {"move"})
    BY <1>2, <1>5, Zenon DEF AskBoard
  <2> QED BY <1>1, <1>3, <1>5, <2>1, NearOnAsk
<1>6. ASSUME NEW s \in Cards, NEW to \in Places, Drag(s, to)
      PROVE  Near(boardCalls', board', placed', groups')
  <2>1. boardCalls = <<>>
    BY <1>2, <1>6, Zenon DEF Drag
  <2> QED BY <1>1, <1>3, <1>6, <2>1, NearOnDrag
<1>7. ASSUME NEW i \in DOMAIN boardCalls, ServeBoard(i) \/ AnswerBoard(i)
      PROVE  Near(boardCalls', board', placed', groups')
  <2>1. \/ boardCalls[i].kind \in {"services", "groups"} \/ boardCalls[i].kind = "move"
        \/ Reloads(boardCalls[i])
    BY <1>1, BoardCallFields DEF BoardTypes
  <2>2. CASE ServeBoard(i)
    BY <1>1, <1>3, <2>1, <2>2, NearOnServedLoad, NearOnServedMove, NearOnServedChange
  <2>3. CASE AnswerBoard(i)
    <3>1. IsLoad(boardCalls[i]) => ~Overtakes(boardCalls, i)
      BY <1>2, <2>3, Zenon DEF AnswerBoard
    <3>2. CASE boardCalls[i].kind \in {"services", "groups"}
      BY <1>1, <1>3, <2>3, <3>1, <3>2, NearOnLoad DEF IsLoad
    <3> QED BY <1>1, <1>3, <2>1, <2>3, <3>2, NearOnMoved, NearOnChanged
  <2> QED BY <1>7, <2>2, <2>3
<1>8. ASSUME NEW i \in DOMAIN boardCalls, FailBoard(i)
      PROVE  Near(boardCalls', board', placed', groups')
  BY <1>1, <1>2, <1>3, <1>8, NearOnFail
<1> QED BY <1>4, <1>5, <1>6, <1>7, <1>8, BoardSteps

LEMMA BoardMeans == BoardInv => BoardTypeOK /\ BoardSettled
<1> SUFFICES ASSUME BoardInv PROVE BoardTypeOK /\ BoardSettled
  OBVIOUS
<1>1. boardCalls \in Seq(BoardCalls)
  BY DEF BoardInv, BoardTypes, BoardSent
<1>2. BoardTypeOK
  BY <1>1 DEF BoardInv, BoardTypes, BoardTypeOK
<1>3. ASSUME boardCalls = <<>>, ~raced PROVE board = [services |-> placed, groups |-> groups]
  <2>1. board.services = placed /\ board.groups = groups
    BY <1>3, NothingUnderWay DEF BoardInv, BoardTypes
  <2> QED BY <2>1 DEF BoardInv, BoardTypes
<1> QED BY <1>2, <1>3 DEF BoardSettled

\* For any services, groups and number of calls (ServicesPage.tsx, the move of a card and
\* load()): with no call under way the page has the services and groups as the server has
\* them, unless answers crossed or one was lost.
THEOREM BoardComesToRest == BoardSpec => []BoardSettled
  BY BoardStart, BoardStep, BoardMeans, PTL DEF BoardSpec

-------------------------------------------------------------------------------
(*****************************************************************************)
(* The settings                                                              *)
(*****************************************************************************)

\* A row is never deleted.
RowStays == \A a \in Admins : save[a].read # None => row \in SystemSettings

\* What an update has read is what is there when it commits.
ReadsAreCurrent ==
    ~overlapped =>
        \A a \in Admins :
            save[a].phase = "read" /\ save[a].read # None => save[a].read = row

SettingsInv == SettingsTypeOK /\ RowStays /\ ReadsAreCurrent /\ SavedWhole

-------------------------------------------------------------------------------
(* What an update writes *)

\* Settings are made of two fields.
LEMMA MakeSettings ==
    ASSUME NEW on \in BOOLEAN, NEW llm \in Llms \cup {None}
    PROVE  [on |-> on, llm |-> llm] \in SystemSettings
  BY DEF SystemSettings

LEMMA FieldsOf ==
    ASSUME NEW f \in SystemSettings
    PROVE  f = [on |-> f.on, llm |-> f.llm]
  BY DEF SystemSettings

\* The row stays of its type, whatever was read.
LEMMA WrittenType ==
    ASSUME NEW old \in SystemSettings \cup {None}, NEW read \in SystemSettings \cup {None},
           NEW form \in SystemSettings, read # None => old \in SystemSettings
    PROVE  Written(old, read, form) \in SystemSettings
<1>1. CASE read = None
  BY <1>1 DEF Written
<1>2. CASE read # None
  <2> DEFINE on == IF form.on = read.on THEN old.on ELSE form.on
             llm == IF form.llm = read.llm THEN old.llm ELSE form.llm
  <2>1. old \in SystemSettings
    BY <1>2
  <2>2. form.on \in BOOLEAN /\ old.on \in BOOLEAN
    BY <2>1 DEF SystemSettings
  <2>3. form.llm \in Llms \cup {None} /\ old.llm \in Llms \cup {None}
    BY <2>1 DEF SystemSettings
  <2>4. on \in BOOLEAN
    BY <2>2, Zenon
  <2>5. llm \in Llms \cup {None}
    BY <2>3
  <2>6. Written(old, read, form) = [on |-> on, llm |-> llm]
    BY <1>2, Zenon DEF Written
  <2> HIDE DEF on, llm
  <2> QED BY <2>4, <2>5, <2>6, MakeSettings
<1> QED BY <1>1, <1>2

\* Who has read what is there writes what was sent.
LEMMA WrittenWhole ==
    ASSUME NEW old \in SystemSettings, NEW form \in SystemSettings
    PROVE  Written(old, old, form) = form
<1>1. CASE old = None
  BY <1>1 DEF Written
<1>2. CASE old # None
  <2> DEFINE on == IF form.on = old.on THEN old.on ELSE form.on
             llm == IF form.llm = old.llm THEN old.llm ELSE form.llm
  <2>1. Written(old, old, form) = [on |-> on, llm |-> llm]
    BY <1>2, Zenon DEF Written
  <2>2. on = form.on
    BY Zenon
  <2>3. llm = form.llm
    BY Zenon
  <2> HIDE DEF on, llm
  <2>4. Written(old, old, form) = [on |-> form.on, llm |-> form.llm]
    BY <2>1, <2>2, <2>3, Zenon
  <2> QED BY <2>4, FieldsOf
<1> QED BY <1>1, <1>2

-------------------------------------------------------------------------------
(* The invariant *)

LEMMA NoSaveType == NoSave \in Saves
<1>1. [on |-> FALSE, llm |-> None] \in SystemSettings
  BY Zenon DEF SystemSettings
<1>2. None \in SystemSettings \cup {None}
  OBVIOUS
<1> QED BY <1>1, <1>2 DEF NoSave, Saves

LEMMA SettingsStart == SettingsInit => SettingsInv
<1> SUFFICES ASSUME SettingsInit PROVE SettingsInv
  OBVIOUS
<1>1. SettingsTypeOK
  BY NoSaveType DEF SettingsInit, SettingsTypeOK
<1>2. \A a \in Admins : save[a].read = None
  BY DEF SettingsInit, NoSave
<1> QED BY <1>1, <1>2 DEF SettingsInit, SettingsInv, RowStays, ReadsAreCurrent, SavedWhole

\* What has been read by others is as it was, and so is the row: a step of one page that
\* does not touch the row, and after which that page has read nothing that is not there.
LEMMA OneSaveChanges ==
    ASSUME SettingsInv, NEW a \in Admins, NEW s \in Saves,
           save' = [save EXCEPT ![a] = s], UNCHANGED <<row, newest, overlapped>>,
           s.read \in {None, row}
    PROVE  SettingsInv'
<1>1. SettingsTypeOK'
  BY DEF SettingsInv, SettingsTypeOK
<1>2. \A b \in Admins : save'[b] = IF b = a THEN s ELSE save[b]
  BY DEF SettingsInv, SettingsTypeOK
<1>3. RowStays'
  BY <1>2 DEF SettingsInv, SettingsTypeOK, RowStays
<1>4. ReadsAreCurrent'
  BY <1>2 DEF SettingsInv, ReadsAreCurrent
<1>5. SavedWhole'
  BY DEF SettingsInv, SavedWhole
<1> QED BY <1>1, <1>3, <1>4, <1>5 DEF SettingsInv

LEMMA SubmitKeeps ==
    ASSUME SettingsInv, NEW a \in Admins, NEW form \in SystemSettings, SubmitSettings(a, form)
    PROVE  SettingsInv'
<1> DEFINE s == [phase |-> "sent", form |-> form, read |-> None]
<1>1. s \in Saves
  BY DEF Saves
<1>2. s.read = None
  OBVIOUS
<1>3. save' = [save EXCEPT ![a] = s] /\ UNCHANGED <<row, newest, overlapped>>
  BY DEF SubmitSettings
<1> HIDE DEF s
<1> QED BY <1>1, <1>2, <1>3, OneSaveChanges

LEMMA ReadKeeps ==
    ASSUME SettingsInv, NEW a \in Admins, ReadSettings(a)
    PROVE  SettingsInv'
<1> DEFINE s == [save[a] EXCEPT !.phase = "read", !.read = row]
<1>1. s \in Saves /\ s.read = row
  BY DEF SettingsInv, SettingsTypeOK, Saves
<1>2. save' = [save EXCEPT ![a] = s] /\ UNCHANGED <<row, newest, overlapped>>
  BY DEF ReadSettings, SettingsInv, SettingsTypeOK
<1> HIDE DEF s
<1> QED BY <1>1, <1>2, OneSaveChanges

LEMMA EndKeeps ==
    ASSUME SettingsInv, NEW a \in Admins, EndSave(a)
    PROVE  SettingsInv'
<1>1. NoSave.read = None
  BY DEF NoSave
<1> QED BY <1>1, NoSaveType, OneSaveChanges DEF EndSave

LEMMA CommitKeeps ==
    ASSUME SettingsInv, NEW a \in Admins, CommitSettings(a)
    PROVE  SettingsInv'
<1> DEFINE s == [save[a] EXCEPT !.phase = "done"]
           read == save[a].read
           form == save[a].form
<1>1. s \in Saves /\ s.phase = "done" /\ s.read = read
  BY DEF SettingsInv, SettingsTypeOK, Saves
<1>2. save' = [save EXCEPT ![a] = s]
  BY DEF CommitSettings, SettingsInv, SettingsTypeOK
<1>3. \A b \in Admins : save'[b] = IF b = a THEN s ELSE save[b]
  BY <1>2 DEF SettingsInv, SettingsTypeOK
<1>4. form \in SystemSettings /\ read \in SystemSettings \cup {None}
  BY DEF SettingsInv, SettingsTypeOK, Saves
<1>5. row \in SystemSettings \cup {None} /\ (read # None => row \in SystemSettings)
  BY DEF SettingsInv, SettingsTypeOK, RowStays
<1>6. row' = Written(row, read, form) /\ newest' = form
  BY DEF CommitSettings
<1>7. row' \in SystemSettings
  BY <1>4, <1>5, <1>6, WrittenType
<1>8. SettingsTypeOK'
  <2>1. overlapped' \in BOOLEAN
    BY Zenon DEF CommitSettings, SettingsInv, SettingsTypeOK
  <2> QED BY <1>1, <1>2, <1>4, <1>6, <1>7, <2>1 DEF SettingsInv, SettingsTypeOK
<1>9. RowStays'
  BY <1>7 DEF RowStays
<1>10. ASSUME ~overlapped'
       PROVE  /\ row' = form
              /\ \A b \in Admins :
                    save'[b].phase = "read" /\ save'[b].read # None => save'[b].read = row'
  <2>1. ~overlapped /\ \A b \in Admins \ {a} : ~(save[b].phase = "read" /\ save[b].read # None)
    BY <1>10 DEF CommitSettings
  <2>2. \A b \in Admins : ~(save'[b].phase = "read" /\ save'[b].read # None)
    BY <1>1, <1>3, <2>1
  <2>3. CASE read = None
    BY <1>6, <2>2, <2>3 DEF Written
  <2>4. CASE read # None
    <3>1. read = row
      BY <2>1, <2>4 DEF SettingsInv, ReadsAreCurrent, CommitSettings
    <3> QED BY <1>4, <1>6, <2>2, <2>4, <3>1, WrittenWhole
  <2> QED BY <2>3, <2>4
<1> QED BY <1>6, <1>8, <1>9, <1>10 DEF SettingsInv, ReadsAreCurrent, SavedWhole

LEMMA SettingsStep == SettingsInv /\ [SettingsNext]_settingsVars => SettingsInv'
<1> SUFFICES ASSUME SettingsInv, [SettingsNext]_settingsVars PROVE SettingsInv'
  OBVIOUS
<1>1. CASE UNCHANGED settingsVars
  BY <1>1 DEF settingsVars, SettingsInv, SettingsTypeOK, RowStays, ReadsAreCurrent, SavedWhole
<1>2. ASSUME NEW a \in Admins, NEW form \in SystemSettings, SubmitSettings(a, form)
      PROVE  SettingsInv'
  BY <1>2, SubmitKeeps
<1>3. ASSUME NEW a \in Admins, ReadSettings(a) \/ CommitSettings(a) \/ EndSave(a)
      PROVE  SettingsInv'
  BY <1>3, ReadKeeps, CommitKeeps, EndKeeps
<1> QED BY <1>1, <1>2, <1>3 DEF SettingsNext

\* The row and the updates under way are what their types say, whoever saves what.
THEOREM SettingsType == SettingsSpec => []SettingsTypeOK
<1>1. SettingsInv => SettingsTypeOK
  BY DEF SettingsInv
<1> QED BY <1>1, SettingsStart, SettingsStep, PTL DEF SettingsSpec

\* For any number of superadmins: the settings are what one of them saved last, whole,
\* unless two updates of an existing row overlapped (settings.py, update_settings).
THEOREM SettingsSavedWhole == SettingsSpec => []SavedWhole
<1>1. SettingsInv => SavedWhole
  BY DEF SettingsInv
<1> QED BY <1>1, SettingsStart, SettingsStep, PTL DEF SettingsSpec

-------------------------------------------------------------------------------
(*****************************************************************************)
(* The session                                                               *)
(*****************************************************************************)

SessionInv == SessionTypeOK /\ EndsOwnSession

TabStates == [at : {"login", "register", "home"}, user : Users \cup {None}]

\* Requests that are left of those there were still belong to the session, where no tab
\* that has one came home.
LEMMA Withdrawn ==
    ASSUME SessionInv, storage' \in {None, storage},
           \A q \in sent' : \E r \in sent :
               /\ q.tab = r.tab /\ q.kind = r.kind /\ q.as = r.as /\ q.old = r.old
               /\ tabs'[q.tab].at = "home" => tabs[q.tab].at = "home"
    PROVE  EndsOwnSession'
<1> SUFFICES ASSUME storage' # None, NEW q \in sent', tabs'[q.tab].at = "home"
             PROVE  q.old \/ (q.kind = "page" /\ q.as = storage')
  BY Zenon DEF EndsOwnSession
<1>1. PICK r \in sent : /\ q.tab = r.tab /\ q.kind = r.kind /\ q.as = r.as /\ q.old = r.old
                        /\ tabs'[q.tab].at = "home" => tabs[q.tab].at = "home"
  BY Zenon
<1>2. storage' = storage /\ tabs[r.tab].at = "home"
  BY <1>1
<1>3. r.old \/ (r.kind = "page" /\ r.as = storage)
  BY <1>2, Zenon DEF SessionInv, EndsOwnSession
<1> QED BY <1>1, <1>2, <1>3

\* A tab that is loaded anew or logs in is somewhere.
LEMMA LoadedType ==
    ASSUME SessionTypeOK, NEW t \in Tabs, NEW u \in Users \cup {None}
    PROVE  [tabs EXCEPT ![t] = Loaded(u)] \in [Tabs -> TabStates]
<1>1. Loaded(u) \in TabStates
  BY DEF Loaded, TabStates
<1> QED BY <1>1 DEF SessionTypeOK, TabStates

\* What a request is, but for its form and its age, stays when the form is left.
LEMMA FormLeftOf ==
    ASSUME NEW t \in Tabs, NEW requests \in SUBSET Requests, NEW q \in FormLeft(t, requests)
    PROVE  /\ q \in Requests
           /\ \E r \in requests :
                  q.tab = r.tab /\ q.kind = r.kind /\ q.as = r.as /\ q.old = r.old
<1>1. PICK r \in requests : q = [r EXCEPT !.fresh = @ /\ r.tab # t]
  BY DEF FormLeft
<1> DEFINE fresh == r.fresh /\ r.tab # t
<1>2. fresh \in BOOLEAN /\ q = [r EXCEPT !.fresh = fresh]
  BY <1>1, Zenon
<1>3. r \in Requests
  OBVIOUS
<1> HIDE DEF fresh
<1> QED BY <1>2, <1>3 DEF Requests

LEMMA SessionStart == SessionInit => SessionInv
<1> SUFFICES ASSUME SessionInit PROVE SessionInv
  OBVIOUS
<1>1. Loaded(None) \in TabStates
  BY DEF Loaded, TabStates
<1> QED BY <1>1 DEF SessionInit, SessionInv, SessionTypeOK, EndsOwnSession, TabStates

-------------------------------------------------------------------------------
(* The user *)

\* A request that is sent is one more; it belongs to the session, or comes from a form.
LEMMA SendKeeps ==
    ASSUME SessionInv, NEW t \in Tabs, NEW kind \in {"login", "page"},
           NEW user \in Users \cup {None}, SendRequest(t, kind, user),
           UNCHANGED <<valid, storage, tabs>>,
           (kind = "page" /\ user = storage) \/ tabs[t].at # "home"
    PROVE  SessionInv'
<1>1. PICK n \in 1..MaxCalls :
        sent' = sent \cup {[slot |-> n, tab |-> t, kind |-> kind, as |-> user,
                           status |-> "none", fresh |-> kind = "login", old |-> FALSE]}
  BY DEF SendRequest
<1> DEFINE q == [slot |-> n, tab |-> t, kind |-> kind, as |-> user,
                 status |-> "none", fresh |-> kind = "login", old |-> FALSE]
<1>2. q \in Requests /\ q.tab = t /\ q.kind = kind /\ q.as = user
  BY DEF Requests
<1>3. sent' = sent \cup {q}
  BY <1>1
<1> HIDE DEF q
<1>4. SessionTypeOK'
  BY <1>2, <1>3 DEF SessionInv, SessionTypeOK
<1>5. EndsOwnSession'
  BY <1>2, <1>3 DEF SessionInv, EndsOwnSession
<1> QED BY <1>4, <1>5 DEF SessionInv

LEMMA UseKeeps ==
    ASSUME SessionInv, NEW t \in Tabs, Use(t)
    PROVE  SessionInv'
<1>1. storage \in Users \cup {None} /\ SendRequest(t, "page", storage)
      /\ UNCHANGED <<valid, storage, tabs>>
  BY DEF SessionInv, SessionTypeOK, Use
<1> QED BY <1>1, SendKeeps

LEMMA SubmitLoginKeeps ==
    ASSUME SessionInv, NEW t \in Tabs, NEW u \in Users \cup {None}, SubmitLogin(t, u)
    PROVE  SessionInv'
<1>1. SendRequest(t, "login", u) /\ tabs[t].at # "home" /\ UNCHANGED <<valid, storage, tabs>>
  BY DEF SubmitLogin
<1> QED BY <1>1, SendKeeps

LEMMA OtherFormKeeps ==
    ASSUME SessionInv, NEW t \in Tabs, OtherForm(t)
    PROVE  SessionInv'
<1>1. tabs[t].at \in {"login", "register"} /\ sent' = FormLeft(t, sent)
      /\ UNCHANGED <<valid, storage>>
  BY DEF OtherForm
<1>2. PICK at \in {"login", "register"} : tabs' = [tabs EXCEPT ![t].at = at]
  BY DEF OtherForm
<1>3. tabs' \in [Tabs -> TabStates]
  BY <1>2 DEF SessionInv, SessionTypeOK, TabStates
<1>4. \A v \in Tabs : tabs'[v].at = "home" => tabs[v].at = "home"
  BY <1>2 DEF SessionInv, SessionTypeOK
<1>5. sent \subseteq Requests
  BY DEF SessionInv, SessionTypeOK
<1>6. sent' \subseteq Requests
  BY <1>1, <1>5, FormLeftOf
<1>7. \A q \in sent' : q.tab \in Tabs
  BY <1>6 DEF Requests
<1>8. EndsOwnSession'
  BY <1>1, <1>4, <1>5, <1>7, FormLeftOf, Withdrawn
<1> QED BY <1>1, <1>3, <1>6, <1>8 DEF SessionInv, SessionTypeOK, TabStates

LEMMA LogoutKeeps ==
    ASSUME SessionInv, NEW t \in Tabs, Logout(t)
    PROVE  SessionInv'
<1>1. tabs' = [tabs EXCEPT ![t] = Loaded(None)] /\ storage' = None /\ UNCHANGED <<valid, sent>>
  BY DEF Logout
<1>2. tabs' \in [Tabs -> TabStates]
  BY <1>1, LoadedType DEF SessionInv
<1> QED BY <1>1, <1>2 DEF SessionInv, SessionTypeOK, EndsOwnSession, TabStates

LEMMA ReloadTabKeeps ==
    ASSUME SessionInv, NEW t \in Tabs, NEW path \in {"login", "register", "home"},
           ReloadTab(t, path)
    PROVE  SessionInv'
<1>1. storage \in Users \cup {None} /\ UNCHANGED <<valid, storage>>
  BY DEF SessionInv, SessionTypeOK, ReloadTab
<1>2. [tabs EXCEPT ![t] = [at |-> path, user |-> storage]] \in [Tabs -> TabStates]
  BY <1>1 DEF SessionInv, SessionTypeOK, TabStates
<1>3. tabs' \in [Tabs -> TabStates]
  BY <1>1, <1>2, LoadedType DEF ReloadTab, SessionInv
<1>4. sent' \subseteq sent /\ \A q \in sent' : q.tab # t
  BY DEF ReloadTab, OfOtherTabs
<1>5. \A v \in Tabs : v # t => tabs'[v] = tabs[v]
  BY DEF ReloadTab, SessionInv, SessionTypeOK
<1>6. \A q \in sent' : q.tab \in Tabs
  BY <1>4 DEF SessionInv, SessionTypeOK, Requests
<1>7. EndsOwnSession'
  BY <1>1, <1>4, <1>5, <1>6, Withdrawn
<1> QED BY <1>1, <1>3, <1>4, <1>7 DEF SessionInv, SessionTypeOK, TabStates

-------------------------------------------------------------------------------
(* The server, and the answers *)

LEMMA ChangeAccountKeeps ==
    ASSUME SessionInv, NEW u \in Users, ChangeAccount(u)
    PROVE  SessionInv'
<1>1. valid' \subseteq Users
  BY DEF ChangeAccount, SessionInv, SessionTypeOK
<1> QED BY <1>1 DEF ChangeAccount, SessionInv, SessionTypeOK, EndsOwnSession

LEMMA ServeRequestKeeps ==
    ASSUME SessionInv, NEW r \in sent, ServeRequest(r)
    PROVE  SessionInv'
<1>1. PICK status \in {"ok", "401", "error"} :
        sent' = (sent \ {r}) \cup {[r EXCEPT !.status = status]}
  BY DEF ServeRequest
<1> DEFINE q == [r EXCEPT !.status = status]
<1>2. q \in Requests /\ q.tab = r.tab /\ q.kind = r.kind /\ q.as = r.as /\ q.old = r.old
  BY DEF SessionInv, SessionTypeOK, Requests
<1>3. sent' = (sent \ {r}) \cup {q} /\ UNCHANGED <<valid, storage, tabs>>
  BY <1>1 DEF ServeRequest
<1> HIDE DEF q
<1>4. EndsOwnSession'
  BY <1>2, <1>3, Withdrawn
<1> QED BY <1>2, <1>3, <1>4 DEF SessionInv, SessionTypeOK

\* Of a login that succeeds, all that is under way is older.
LEMMA LoggedInKeeps ==
    ASSUME SessionInv, NEW r \in sent, r.kind = "login", r.status = "ok", AnswerRequest(r)
    PROVE  SessionInv'
<1> DEFINE rest == {[q EXCEPT !.old = TRUE] : q \in sent \ {r}}
<1>1. r.tab \in Tabs /\ r.as \in Users \cup {None} /\ sent \subseteq Requests
  BY DEF SessionInv, SessionTypeOK, Requests
<1>2. /\ storage' = r.as /\ tabs' = [tabs EXCEPT ![r.tab] = Loaded(r.as)]
      /\ sent' = FormLeft(r.tab, rest) /\ UNCHANGED valid
  BY DEF AnswerRequest, LoggedIn
<1>3. tabs' \in [Tabs -> TabStates]
  BY <1>1, <1>2, LoadedType DEF SessionInv
<1>4. rest \in SUBSET Requests /\ \A q \in rest : q.old
  <2>1. ASSUME NEW q \in Requests
        PROVE  [q EXCEPT !.old = TRUE] \in Requests /\ [q EXCEPT !.old = TRUE].old
    BY DEF Requests
  <2>2. \A q \in sent \ {r} : q \in Requests
    BY <1>1
  <2> QED BY <2>1, <2>2
<1> HIDE DEF rest
<1>5. \A q \in sent' : q \in Requests /\ q.old
  BY <1>1, <1>2, <1>4, FormLeftOf
<1> QED BY <1>1, <1>2, <1>3, <1>5 DEF SessionInv, SessionTypeOK, EndsOwnSession, TabStates

LEMMA LoseKeeps ==
    ASSUME SessionInv, NEW r \in sent, sent' = sent \ {r}, UNCHANGED <<valid, storage, tabs>>
    PROVE  SessionInv'
<1>1. EndsOwnSession'
  BY Withdrawn
<1> QED BY <1>1 DEF SessionInv, SessionTypeOK

LEMMA AnswerRequestKeeps ==
    ASSUME SessionInv, NEW r \in sent, AnswerRequest(r)
    PROVE  SessionInv'
<1>1. CASE r.kind = "login" /\ r.status = "ok"
  BY <1>1, LoggedInKeeps
<1>2. CASE ~(r.kind = "login" /\ r.status = "ok") /\ r.status = "401" /\ tabs[r.tab].at = "home"
  <2>1. Expired(r.tab) /\ UNCHANGED valid
    BY <1>2 DEF AnswerRequest
  <2>2. r.tab \in Tabs
    BY DEF SessionInv, SessionTypeOK, Requests
  <2>3. tabs' \in [Tabs -> TabStates]
    BY <2>1, <2>2, LoadedType DEF Expired, SessionInv
  <2>4. sent' \subseteq sent /\ storage' = None
    BY <2>1 DEF Expired, OfOtherTabs
  <2> QED BY <2>1, <2>3, <2>4 DEF SessionInv, SessionTypeOK, EndsOwnSession, TabStates
<1>3. CASE /\ ~(r.kind = "login" /\ r.status = "ok")
           /\ ~(r.status = "401" /\ tabs[r.tab].at = "home")
  <2>1. sent' = sent \ {r} /\ UNCHANGED <<valid, storage, tabs>>
    BY <1>3 DEF AnswerRequest
  <2> QED BY <2>1, LoseKeeps
<1> QED BY <1>1, <1>2, <1>3

LEMMA SessionStep == SessionInv /\ [SessionNext]_sessionVars => SessionInv'
<1> SUFFICES ASSUME SessionInv, [SessionNext]_sessionVars PROVE SessionInv'
  OBVIOUS
<1>1. CASE UNCHANGED sessionVars
  BY <1>1 DEF sessionVars, SessionInv, SessionTypeOK, EndsOwnSession
<1>2. ASSUME NEW t \in Tabs, Use(t) \/ OtherForm(t) \/ Logout(t) PROVE SessionInv'
  BY <1>2, UseKeeps, OtherFormKeeps, LogoutKeeps
<1>3. ASSUME NEW t \in Tabs, NEW path \in {"login", "register", "home"}, ReloadTab(t, path)
      PROVE  SessionInv'
  BY <1>3, ReloadTabKeeps
<1>4. ASSUME NEW t \in Tabs, NEW u \in Users \cup {None}, SubmitLogin(t, u) PROVE SessionInv'
  BY <1>4, SubmitLoginKeeps
<1>5. ASSUME NEW u \in Users, ChangeAccount(u) PROVE SessionInv'
  BY <1>5, ChangeAccountKeeps
<1>6. ASSUME NEW r \in sent, ServeRequest(r) \/ AnswerRequest(r) \/ LoseRequest(r)
      PROVE  SessionInv'
  BY <1>6, ServeRequestKeeps, AnswerRequestKeeps, LoseKeeps DEF LoseRequest
<1> QED BY <1>1, <1>2, <1>3, <1>4, <1>5, <1>6 DEF SessionNext

\* For any number of users, tabs and requests (api/client.ts, store/authStore.ts,
\* LoginPage.tsx): a 401 that comes to a tab ends the session that sent it, or one that
\* began after it was sent, and no other.
THEOREM SessionEndsOwn == SessionSpec => []EndsOwnSession
<1>1. SessionInv => EndsOwnSession
  BY DEF SessionInv
<1> QED BY <1>1, SessionStart, SessionStep, PTL DEF SessionSpec

-------------------------------------------------------------------------------
(*****************************************************************************)
(* The interface                                                             *)
(*****************************************************************************)

\* What a visit of a page does is a step of that page, and of the others a stutter.
LEMMA PanelSteps ==
    [PanelNext]_panelVars =>
        /\ [Next]_vars /\ [DialogNext]_dialogVars /\ [BoardNext]_boardVars
        /\ [KeysNext]_keyVars /\ [DashNext]_dashVars /\ [SettingsNext]_settingsVars
        /\ [SessionNext]_sessionVars
        /\ visit' = visit
<1> SUFFICES ASSUME [PanelNext]_panelVars
             PROVE  /\ [Next]_vars /\ [DialogNext]_dialogVars /\ [BoardNext]_boardVars
                    /\ [KeysNext]_keyVars /\ [DashNext]_dashVars
                    /\ [SettingsNext]_settingsVars /\ [SessionNext]_sessionVars
                    /\ visit' = visit
  OBVIOUS
<1>1. CASE VisitPlayground BY <1>1, Zenon DEF VisitPlayground
<1>2. CASE VisitService BY <1>2, Zenon DEF VisitService
<1>3. CASE VisitBoard BY <1>3, Zenon DEF VisitBoard
<1>4. CASE VisitKeys BY <1>4, Zenon DEF VisitKeys
<1>5. CASE VisitDashboard BY <1>5, Zenon DEF VisitDashboard
<1>6. CASE VisitSettings BY <1>6, Zenon DEF VisitSettings
<1>7. CASE VisitSession BY <1>7, Zenon DEF VisitSession
<1>8. CASE UNCHANGED panelVars BY <1>8 DEF panelVars
<1> QED BY <1>1, <1>2, <1>3, <1>4, <1>5, <1>6, <1>7, <1>8, Zenon DEF PanelNext

\* The interface implements each of its pages (App.tsx mounts one of them at a time): what
\* is proved of a page by itself holds of it in the interface.
THEOREM PanelHasPages ==
    PanelSpec => /\ Spec /\ DialogSpec /\ BoardSpec /\ KeysSpec /\ DashSpec /\ SettingsSpec
                 /\ SessionSpec
<1>1. PanelInit => /\ Init /\ DialogInit /\ BoardInit /\ KeysInit /\ DashInit
                   /\ SettingsInit /\ SessionInit
  BY DEF PanelInit
<1> QED
  BY <1>1, PanelSteps, PTL
     DEF PanelSpec, Spec, DialogSpec, BoardSpec, KeysSpec, DashSpec, SettingsSpec, SessionSpec

\* What is inductive of the pages is so of the interface.
PanelInv ==
    /\ visit \in Visits
    /\ DialogInv /\ BoardInv /\ KeysInv /\ DashInv /\ SettingsInv /\ SessionInv

LEMMA PanelStart == PanelInit => PanelInv
  BY DialogStart, BoardStart, KeysStart, DashStart, SettingsStart, SessionStart, Zenon
     DEF PanelInit, PanelInv

LEMMA PanelStep == PanelInv /\ [PanelNext]_panelVars => PanelInv'
<1> SUFFICES ASSUME PanelInv, [PanelNext]_panelVars PROVE PanelInv'
  OBVIOUS
<1>1. /\ [DialogNext]_dialogVars /\ [BoardNext]_boardVars /\ [KeysNext]_keyVars
      /\ [DashNext]_dashVars /\ [SettingsNext]_settingsVars /\ [SessionNext]_sessionVars
      /\ visit' = visit
  BY PanelSteps, Zenon
<1>2. DialogInv' BY <1>1, DialogStep, Zenon DEF PanelInv
<1>3. BoardInv' BY <1>1, BoardStep, Zenon DEF PanelInv
<1>4. KeysInv' BY <1>1, KeysStep, Zenon DEF PanelInv
<1>5. DashInv' BY <1>1, DashStep, Zenon DEF PanelInv
<1>6. SettingsInv' BY <1>1, SettingsStep, Zenon DEF PanelInv
<1>7. SessionInv' BY <1>1, SessionStep, Zenon DEF PanelInv
<1>8. visit' \in Visits BY <1>1 DEF PanelInv, Visits
<1> QED BY <1>2, <1>3, <1>4, <1>5, <1>6, <1>7, <1>8 DEF PanelInv

LEMMA PanelMeans ==
    PanelInv => /\ PanelTypeOK /\ SpinnersTurn
                /\ BoardSettled
                /\ ReadingsAgree /\ ShowsSelection /\ TextsFit /\ SavedWhole /\ EndsOwnSession
<1> SUFFICES ASSUME PanelInv
             PROVE  /\ PanelTypeOK /\ SpinnersTurn
                    /\ BoardSettled
                    /\ ReadingsAgree /\ ShowsSelection /\ TextsFit /\ SavedWhole /\ EndsOwnSession
  OBVIOUS
<1>1. DialogTypeOK /\ DialogSpinners
  BY DialogMeans, Zenon DEF PanelInv
<1>2. BoardTypeOK /\ BoardSettled
  BY BoardMeans, Zenon DEF PanelInv
<1>3. KeysTypeOK /\ ReadingsAgree
  BY StoredTyped, StoredAgree, Zenon DEF PanelInv
<1>4. DashTypeOK /\ DashSpinners /\ ShowsSelection /\ TextsFit
  BY DashMeans, Zenon DEF PanelInv
<1>5. SettingsTypeOK /\ SavedWhole /\ SessionTypeOK /\ EndsOwnSession
  BY Zenon DEF PanelInv, SettingsInv, SessionInv
<1> QED BY <1>1, <1>2, <1>3, <1>4, <1>5, Zenon DEF PanelInv, PanelTypeOK, SpinnersTurn

\* The state of every page but the playground keeps its type, whatever is visited.
THEOREM PanelType == PanelSpec => []PanelTypeOK
  BY PanelStart, PanelStep, PanelMeans, PTL DEF PanelSpec

\* For any number of calls (ServicesPage.tsx, DashboardPage.tsx): what waits for the AI is
\* disabled exactly while a call to it is under way, and a check is shown as loading only
\* while one is: never for a call that is over or was not sent.
THEOREM PanelSpinnersTurn == PanelSpec => []SpinnersTurn
  BY PanelStart, PanelStep, PanelMeans, PTL DEF PanelSpec
===============================================================================
