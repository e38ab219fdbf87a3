---------------------------- MODULE BrowserSession ----------------------------
(***************************************************************************)
(* Who is logged in to the admin interface: the token and the user that all   *)
(* tabs of a browser share in localStorage, the copy each tab took when it     *)
(* was loaded or logged in (store/authStore.ts), the routes that go by that    *)
(* copy (App.tsx), the token each request takes from the storage when it is    *)
(* sent, and the interceptor that ends a session upon a 401 (api/client.ts).   *)
(*                                                                         *)
(* What the pages do is a request; which page and which of them are for        *)
(* superadmins is left out, and so are passwords and the expiry of a token,     *)
(* which is a 401 like another.                                               *)
(***************************************************************************)
EXTENDS Calls

CONSTANTS Users, Tabs

ASSUME SessionAssumption == None \notin Users

VARIABLES valid,        \* server: accounts that are active and approved
          storage,      \* localStorage: the user whose token and record are in it, or None
          tabs,         \* tabs[t]: the path it is at, and the user of its authStore
          sent          \* the requests under way in all tabs

sessionVars == <<valid, storage, tabs, sent>>

\* Of a request: the bounded slot it is told from others by; whose token it carries, or, of
\* a login, whose credentials (None: nobody's); fresh, of a login: its form is still the one
\* on the screen; and old (ghost): somebody logged in after it was sent.
Requests == [slot : 1..MaxCalls, tab : Tabs, kind : {"login", "page"},
             as : Users \cup {None}, status : {"none", "ok", "401", "error"},
             fresh : BOOLEAN, old : BOOLEAN]

SessionTypeOK ==
    /\ valid \subseteq Users
    /\ storage \in Users \cup {None}
    /\ tabs \in [Tabs -> [at : {"login", "register", "home"}, user : Users \cup {None}]]
    /\ sent \subseteq Requests

\* PrivateRoute: a tab that is not authenticated is taken to the login.
Loaded(user) == [at |-> IF user = None THEN "login" ELSE "home", user |-> user]

SessionInit ==
    /\ valid = Users /\ storage = None
    /\ tabs = [t \in Tabs |-> Loaded(None)]
    /\ sent = {}

-------------------------------------------------------------------------------
(* The user *)

\* Bounded by the slots; answers come in any order.
SendRequest(t, kind, user) ==
    \E n \in 1..MaxCalls :
        /\ \A r \in sent : r.slot # n
        /\ sent' = sent \cup {[slot |-> n, tab |-> t, kind |-> kind, as |-> user,
                               status |-> "none", fresh |-> kind = "login", old |-> FALSE]}

\* Mutant of Use: the token is the one of the tab's store.
UseOwnCopy(t) ==
    /\ tabs[t].at = "home"
    /\ SendRequest(t, "page", tabs[t].user)
    /\ UNCHANGED <<valid, storage, tabs>>

\* A page asks the server for something, with the token that is in the storage now,
\* whoever is shown.
Use(t) ==
    /\ tabs[t].at = "home"
    /\ SendRequest(t, "page", storage)
    /\ UNCHANGED <<valid, storage, tabs>>

\* handleSubmit of LoginPage, with credentials that may be wrong; `loading` disables the
\* button while a login of this form is under way.
SubmitLogin(t, u) ==
    /\ tabs[t].at = "login"
    /\ \A r \in sent : ~(r.tab = t /\ r.fresh)
    /\ SendRequest(t, "login", u)
    /\ UNCHANGED <<valid, storage, tabs>>

\* A form that is left is gone with its `loading`, and its login goes on.
FormLeft(t, requests) == {[r EXCEPT !.fresh = @ /\ r.tab # t] : r \in requests}

\* The links between the two forms; a registration that succeeds leads to the login too.
OtherForm(t) ==
    /\ tabs[t].at \in {"login", "register"}
    /\ tabs' = [tabs EXCEPT ![t].at = IF @ = "login" THEN "register" ELSE "login"]
    /\ sent' = FormLeft(t, sent)
    /\ UNCHANGED <<valid, storage>>

\* "Logout" in Layout: nothing is withdrawn.
Logout(t) ==
    /\ tabs[t].at = "home"
    /\ storage' = None
    /\ tabs' = [tabs EXCEPT ![t] = Loaded(None)]
    /\ UNCHANGED <<valid, sent>>

OfOtherTabs(t) == {r \in sent : r.tab # t}

\* The user loads the tab anew, where it is or at '/': its requests are given up, its store
\* is made of the storage. The two forms are there for everybody.
ReloadTab(t, path) ==
    /\ path \in {tabs[t].at, "home"}
    /\ tabs' = [tabs EXCEPT ![t] = IF path = "home" THEN Loaded(storage)
                                   ELSE [at |-> path, user |-> storage]]
    /\ sent' = OfOtherTabs(t)
    /\ UNCHANGED <<valid, storage>>

-------------------------------------------------------------------------------
(* The server *)

\* An administrator approves, rejects, deactivates or reactivates an account.
ChangeAccount(u) ==
    /\ valid' = IF u \in valid THEN valid \ {u} ELSE valid \cup {u}
    /\ UNCHANGED <<storage, tabs, sent>>

\* A login succeeds or not; get_current_admin looks the user of a token up each time. An
\* account that lacks only the approval is a 403, and a request without a token a 401 or
\* a 403, as the version of the framework has it.
ServeRequest(r) ==
    /\ r.status = "none"
    /\ \E status \in IF r.as \in valid THEN {"ok"} ELSE {"401", "error"} :
         sent' = (sent \ {r}) \cup {[r EXCEPT !.status = status]}
    /\ UNCHANGED <<valid, storage, tabs>>

-------------------------------------------------------------------------------
(* The answers *)

\* store.login, and navigate('/'), also of a form that was left.
LoggedIn(t, u, rest) ==
    /\ storage' = u
    /\ tabs' = [tabs EXCEPT ![t] = Loaded(u)]
    /\ sent' = FormLeft(t, {[r EXCEPT !.old = TRUE] : r \in rest})

\* The interceptor: window.location.href = '/login' loads the tab anew.
Expired(t) ==
    /\ storage' = None
    /\ tabs' = [tabs EXCEPT ![t] = Loaded(None)]
    /\ sent' = OfOtherTabs(t)

\* At /login and /register a 401 is nothing but an error.
AnswerRequest(r) ==
    /\ r.status # "none"
    /\ CASE r.kind = "login" /\ r.status = "ok" -> LoggedIn(r.tab, r.as, sent \ {r})
         [] r.status = "401" /\ tabs[r.tab].at = "home" ->
                Expired(r.tab)
         [] OTHER -> sent' = sent \ {r} /\ UNCHANGED <<storage, tabs>>
    /\ UNCHANGED valid

\* The server is not reached, or its answer is lost.
LoseRequest(r) ==
    /\ sent' = sent \ {r}
    /\ UNCHANGED <<valid, storage, tabs>>

SessionNext ==
    \/ \E t \in Tabs : Use(t) \/ OtherForm(t) \/ Logout(t)
    \/ \E t \in Tabs, path \in {"login", "register", "home"} : ReloadTab(t, path)
    \/ \E t \in Tabs, u \in Users \cup {None} : SubmitLogin(t, u)
    \/ \E u \in Users : ChangeAccount(u)
    \/ \E r \in sent : ServeRequest(r) \/ AnswerRequest(r) \/ LoseRequest(r)

SessionSpec == SessionInit /\ [][SessionNext]_sessionVars

-------------------------------------------------------------------------------
(* Properties *)

\* A 401 that comes to a tab while somebody is logged in ends the session that sent it, or
\* one that began after it was sent: whichever tabs show whom, and whoever logged out or in,
\* a request that is younger than the session carries the token that is in the storage now,
\* and is no login, whose 401 would end a session that it has nothing to do with.
EndsOwnSession ==
    storage # None =>
        \A r \in sent : tabs[r.tab].at = "home" =>
            r.old \/ (r.kind = "page" /\ r.as = storage)
===============================================================================
