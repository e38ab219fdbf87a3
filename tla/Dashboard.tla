------------------------------- MODULE Dashboard ------------------------------
(***************************************************************************)
(* DashboardPage.tsx: figures of a period and a list of requests by a query,  *)
(* each fetched again when its selection changes, without withdrawing what is *)
(* under way; a summary of the figures and analyses of single requests that   *)
(* are asked of the AI and shown whenever they come. What the figures are is  *)
(* left out: a value is abstracted to the selection it was fetched for.        *)
(***************************************************************************)
EXTENDS Calls

CONSTANTS Periods,          \* hours
          Day,              \* 24 of them
          Queries,          \* filters and logsLimit
          Unfiltered,       \* no filter, and a limit of 50
          Logs              \* requests that failed; the AI is not asked about others

ASSUME DashAssumption ==
    /\ Day \in Periods /\ Unfiltered \in Queries
    /\ None \notin Periods \cup Queries \cup Logs

VARIABLES sel,          \* hours, query, and the request whose details are open
          seen,         \* for which selection overview, byService and recentLogs were fetched
          texts,        \* aiSummary and aiErrorAnalysis, by what they are about
          dashCalls,    \* calls under way, oldest first
          jumbled,      \* ghost: figures were lost, or an older answer came after a newer one
          asked         \* ghost: an analysis was asked for since the details were opened

dashVars == <<sel, seen, texts, dashCalls, jumbled, asked>>

Figures == {"overview", "byService"}
DashLoads == Figures \cup {"logs"}

DashCalls == [kind : Figures, of : Periods] \cup [kind : {"logs"}, of : Queries]
                 \cup [kind : {"summary"}, of : Periods] \cup [kind : {"analysis"}, of : Logs]

DashTypeOK ==
    /\ sel \in [hours : Periods, query : Queries, log : Logs \cup {None}]
    /\ seen \in [overview : Periods \cup {None}, byService : Periods \cup {None},
                 logs : Queries \cup {None}]
    /\ texts \in [summary : Periods \cup {None}, analysis : Logs \cup {None},
                  summing : BOOLEAN, analysing : BOOLEAN]
    /\ dashCalls \in Seq(DashCalls)
    /\ jumbled \in BOOLEAN /\ asked \in BOOLEAN

Fetch(kind, of) == <<[kind |-> kind, of |-> of]>>

LoadFigures(h) == Fetch("overview", h) \o Fetch("byService", h)

\* Both effects run when the page is mounted, so the requests are fetched twice.
DashInit ==
    /\ sel = [hours |-> Day, query |-> Unfiltered, log |-> None]
    /\ seen = [overview |-> None, byService |-> None, logs |-> None]
    /\ texts = [summary |-> None, analysis |-> None, summing |-> FALSE,
                analysing |-> FALSE]
    /\ dashCalls = LoadFigures(Day) \o Fetch("logs", Unfiltered) \o Fetch("logs", Unfiltered)
    /\ jumbled = FALSE /\ asked = FALSE

-------------------------------------------------------------------------------
(* The user *)

CallDash(calls) ==
    /\ MaySend(dashCalls)
    /\ dashCalls' = dashCalls \o calls

\* Mutant of LoadDash: the effect of the period forgets the figures by service.
LoadDashOverview(h) == Fetch("overview", h) \o Fetch("logs", sel.query)

\* load()
LoadDash(h) == LoadFigures(h) \o Fetch("logs", sel.query)

PickHours(h) ==
    /\ h # sel.hours /\ sel.log = None
    /\ sel' = [sel EXCEPT !.hours = h]
    /\ CallDash(LoadDash(h))
    /\ UNCHANGED <<seen, texts, jumbled, asked>>

\* A filter, "Reset" or the limit.
PickQuery(q) ==
    /\ q # sel.query /\ sel.log = None
    /\ sel' = [sel EXCEPT !.query = q]
    /\ CallDash(Fetch("logs", q))
    /\ UNCHANGED <<seen, texts, jumbled, asked>>

OpenLog(l) ==
    /\ sel.log = None /\ seen.logs # None
    /\ sel' = [sel EXCEPT !.log = l]
    /\ UNCHANGED <<seen, texts, dashCalls, jumbled, asked>>

CloseLog ==
    /\ sel.log # None
    /\ sel' = [sel EXCEPT !.log = None]
    /\ texts' = [texts EXCEPT !.analysis = None]
    /\ asked' = FALSE
    /\ UNCHANGED <<seen, dashCalls, jumbled>>

\* handleAiSummary: it is told the period selected now, and the figures fetched last.
Summarize ==
    /\ sel.log = None /\ seen.overview # None /\ ~texts.summing
    /\ texts' = [texts EXCEPT !.summary = None, !.summing = TRUE]
    /\ CallDash(Fetch("summary", sel.hours))
    /\ UNCHANGED <<sel, seen, jumbled, asked>>

\* Mutant of Analyze: the button is not disabled while an analysis is under way.
AnalyzeAgain ==
    /\ sel.log # None
    /\ texts' = [texts EXCEPT !.analysis = None, !.analysing = TRUE]
    /\ CallDash(Fetch("analysis", sel.log))
    /\ asked' = TRUE
    /\ UNCHANGED <<sel, seen, jumbled>>

\* handleAiAnalyzeError
Analyze ==
    /\ sel.log # None /\ ~texts.analysing
    /\ texts' = [texts EXCEPT !.analysis = None, !.analysing = TRUE]
    /\ CallDash(Fetch("analysis", sel.log))
    /\ asked' = TRUE
    /\ UNCHANGED <<sel, seen, jumbled>>

-------------------------------------------------------------------------------
(* The answers *)

\* An answer is shown, whatever is selected by then.
AnswerDash(i) ==
    LET c == dashCalls[i] IN
    /\ dashCalls' = RemoveAt(dashCalls, i)
    /\ seen' = IF c.kind \in DashLoads THEN [seen EXCEPT ![c.kind] = c.of] ELSE seen
    /\ texts' = CASE c.kind = "summary" -> [texts EXCEPT !.summary = c.of, !.summing = FALSE]
                  [] c.kind = "analysis" -> [texts EXCEPT !.analysis = c.of, !.analysing = FALSE]
                  [] OTHER -> texts
    /\ jumbled' = (jumbled \/ (c.kind \in DashLoads /\ Overtakes(dashCalls, i)))
    /\ UNCHANGED <<sel, asked>>

\* A load that fails is ignored; of the AI's, the spinner ends.
FailDash(i) ==
    LET c == dashCalls[i] IN
    /\ dashCalls' = RemoveAt(dashCalls, i)
    /\ texts' = [texts EXCEPT !.summing = @ /\ c.kind # "summary",
                              !.analysing = @ /\ c.kind # "analysis"]
    /\ jumbled' = (jumbled \/ c.kind \in DashLoads)
    /\ UNCHANGED <<sel, seen, asked>>

ReplyDash(i) == i \in DOMAIN dashCalls /\ (AnswerDash(i) \/ FailDash(i))

DashNext ==
    \/ \E h \in Periods : PickHours(h)
    \/ \E q \in Queries : PickQuery(q)
    \/ \E l \in Logs : OpenLog(l)
    \/ CloseLog \/ Summarize \/ Analyze
    \/ \E i \in DOMAIN dashCalls : ReplyDash(i)

DashSpec == DashInit /\ [][DashNext]_dashVars

-------------------------------------------------------------------------------
(* Properties *)

\* The figures and requests shown are those of what is selected, as soon as no load is
\* under way: the fetches that a change of the period or of the query sets off do for every
\* change. It takes that none failed and none overtook an older one.
ShowsSelection ==
    ~jumbled /\ ~Pending(dashCalls, DashLoads) =>
        seen = [overview |-> sel.hours, byService |-> sel.hours, logs |-> sel.query]

\* Once an analysis was asked for in the details that are open, the one shown is of that
\* request: an analysis of another one, asked for before in details that were closed over
\* it, has come by then, since the button of all details waits for it.
TextsFit ==
    asked => texts.analysis \in {None, sel.log}

\* An AI button is disabled as long as its call is under way, and no longer.
DashSpinners ==
    /\ texts.summing <=> Pending(dashCalls, {"summary"})
    /\ texts.analysing <=> Pending(dashCalls, {"analysis"})
===============================================================================
