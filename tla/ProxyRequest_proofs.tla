------------------------- MODULE ProxyRequest_proofs --------------------------
(***************************************************************************)
(* Theorems of ProxyRequest, for any numbers of requests, services and      *)
(* connections, and any bounds.                                            *)
(*                                                                         *)
(* None of the properties is inductive: each depends on where in the code a *)
(* call stands.  CallOK says what holds there: which of the two attempts of *)
(* the call have not begun, are in progress, or are over, and what each has *)
(* logged and holds.  It speaks of one call at a time, and a step of one    *)
(* call leaves the others alone (Frame).                                   *)
(***************************************************************************)
EXTENDS ProxyRequest, TLAPS

Over == Statuses \cup {"raised"}

\* The attempt of r in the role b has not begun,
Fresh(r, b) == /\ attempt[r][b] = NoAttempt
               /\ spawned[r][b] = 0
               /\ <<r, b>> \notin held

\* has begun,
Begun(r, b) == /\ attempt[r][b].svc \in Services /\ attempt[r][b].row \in Rows
               /\ attempt[r][b].result = "pending"

\* is in progress,
Pending(r, b) == /\ Begun(r, b)
                 /\ attempt[r][b].kind = "none"
                 /\ spawned[r][b] = 0

\* has a response, logged, that goes to the cache first,
Kept(r, b) == /\ Begun(r, b)
              /\ attempt[r][b].kind = "plain"
              /\ attempt[r][b].reply \in Entries
              /\ spawned[r][b] = 1

\* What an attempt of this kind, that is over, has logged and holds.
Booked(kind, result, reply, logged, holds) ==
    /\ kind \in {"crash", "gone"} => logged = 0 /\ ~holds
    /\ kind \in {"cached", "error"} => logged = 1 /\ ~holds
    /\ kind = "plain" => logged = (IF reply.odd THEN 2 ELSE 1) /\ ~holds
    /\ kind = "stream" => /\ reply.odd <=> result = "raised"
                          /\ logged = IF reply.odd THEN 1 ELSE IF holds THEN 0 ELSE 1

\* or is over.
Closed(r, b) == /\ attempt[r][b].svc \in Services /\ attempt[r][b].row \in Rows
                /\ attempt[r][b].result \in Over
                /\ attempt[r][b].kind \in Kinds \ {"none"}
                /\ Booked(attempt[r][b].kind, attempt[r][b].result, attempt[r][b].reply,
                          spawned[r][b], <<r, b>> \in held)

\* The attempt in the role of q is a stream to be sent.
Flows(r, q) == /\ attempt[r][q.role].kind = "stream" /\ attempt[r][q.role].result # "raised"
               /\ <<r, q.role>> \in held

CallOK(r) ==
    LET q == req[r]
        holds == <<r, q.role>> \in held
    IN /\ q.pc = "lost" => \A b \in Roles : <<r, b>> \notin held /\ spawned[r][b] \in LogsDue(r, b)
       /\ q.pc # "lost" =>
           /\ q.role = "primary" => Fresh(r, "fallback")
           /\ q.role = "fallback" => Closed(r, "primary")
           /\ q.pc \in {"idle", "lookup"} => q.role = "primary" /\ Fresh(r, "primary")
           /\ q.pc # "idle" => q.body \in Bodies
           /\ q.pc = "lookup" => q.slug \in Slugs /\ q.key \in Keys
           /\ q.pc \in {"body", "cache", "send"} => Pending(r, q.role) /\ ~holds
           /\ q.pc = "upstream" => Pending(r, q.role) /\ holds
           /\ q.pc = "store" => Kept(r, q.role) /\ ~holds
           /\ q.pc = "fallback" => /\ Closed(r, q.role) /\ NeedsFallback(q, attempt[r][q.role])
                                   /\ attempt[r][q.role].kind = "stream" => holds
           /\ q.pc \in {"unread", "streaming"} => Closed(r, q.role) /\ Flows(r, q)
           /\ q.pc = "gone" => Closed(r, q.role)
           /\ q.pc = "done" => \/ Fresh(r, "primary") /\ q.role = "primary"
                               \/ /\ Closed(r, q.role)
                                  /\ holds => attempt[r][q.role].result = "raised"

Justified(r) ==
    attempt[r]["fallback"].svc # None =>
        /\ attempt[r]["fallback"].svc = attempt[r]["primary"].row.fallback
        /\ attempt[r]["primary"].result \in attempt[r]["primary"].row.on \cup {"raised"}

IInv == /\ TypeOK
        /\ \A r \in Requests : CallOK(r) /\ Justified(r)

-------------------------------------------------------------------------------
(* The types *)

\* Constants of the module that the provers need in one place.
LEMMA Literals == /\ "none" \notin Over /\ "pending" \notin Over
                  /\ None \notin Services /\ None \notin Rows /\ None \notin Replies
                  /\ NoAttempt \in Attempts /\ NoCall \in Calls
                  /\ Entries \subseteq Replies
BY ProxyAssumption DEF Over, NoAttempt, Attempts, NoCall, Calls, Kinds, Roles, Replies, Entries

\* Rewriting one call, or one attempt, keeps the type of the whole.
LEMMA CallType ==
    ASSUME TypeOK, NEW r \in Requests, NEW q \in Calls
    PROVE  [req EXCEPT ![r] = q] \in [Requests -> Calls]
BY DEF TypeOK

LEMMA AttemptType ==
    ASSUME TypeOK, NEW r \in Requests, NEW b \in Roles, NEW a \in Attempts
    PROVE  [attempt EXCEPT ![r][b] = a] \in [Requests -> [Roles -> Attempts]]
BY DEF TypeOK

LEMMA DeliverType ==
    ASSUME NEW q \in Calls, NEW a PROVE Deliver(q, a) \in Calls /\ Proceed(q, a) \in Calls
BY DEF Deliver, Proceed, Calls, Roles

LEMMA SettleType ==
    ASSUME TypeOK, NEW r \in Requests, NEW result \in Over, NEW kind \in Kinds,
           NEW reply \in Replies \cup {None}, Settle(r, result, kind, reply)
    PROVE  /\ req' \in [Requests -> Calls]
           /\ attempt' \in [Requests -> [Roles -> Attempts]]
<1> DEFINE a == [Current(r) EXCEPT !.result = result, !.kind = kind, !.reply = reply]
<1>1. req[r] \in Calls /\ req[r].role \in Roles /\ Current(r) \in Attempts
      BY DEF TypeOK, Calls, Current
<1>2. a \in Attempts
      BY <1>1 DEF Attempts, Over
<1>3. Proceed(req[r], a) \in Calls
      BY <1>1, DeliverType
<1> QED BY <1>1, <1>2, <1>3, CallType, AttemptType DEF Settle

\* The result of a response that is passed on.
LEMMA Outcome ==
    ASSUME NEW reply \in Replies
    PROVE  (IF reply.odd THEN "raised" ELSE reply.status) \in Over
BY DEF Replies, Over

\* A step that logs n rows of the current attempt of r.
Logs(r, n) == /\ tasks' \subseteq LogRows
              /\ spawned' \in [Requests -> [Roles -> Nat]]
              /\ spawned'[r][req[r].role] = spawned[r][req[r].role] + n
              /\ \A x \in Requests, b \in Roles :
                     <<x, b>> # <<r, req[r].role>> => spawned'[x][b] = spawned[x][b]

LEMMA LogsOthers ==
    ASSUME TypeOK, NEW r \in Requests, NEW n \in Nat, Logs(r, n)
    PROVE  \A x \in Requests \ {r} : spawned'[x] = spawned[x]
<1>1. ASSUME NEW x \in Requests, x # r
      PROVE  spawned'[x] = spawned[x]
  <2>1. \A b \in Roles : spawned'[x][b] = spawned[x][b]
        BY <1>1 DEF Logs
  <2>2. spawned'[x] \in [Roles -> Nat] /\ spawned[x] \in [Roles -> Nat]
        BY DEF Logs, TypeOK
  <2> QED BY <2>1, <2>2
<1> QED BY <1>1

LEMMA LogOnce ==
    ASSUME TypeOK, NEW r \in Requests, Current(r).svc \in Services,
           NEW kind \in {"plain", "cached", "stream", "error"},
           NEW owner \in Owners \cup {None}, Log(r, kind, owner)
    PROVE  Logs(r, 1)
<1>1. req[r].role \in Roles
      BY DEF TypeOK, Calls
<1>2. LogRow(r, kind, owner) \in LogRows
      BY <1>1 DEF LogRows, LogRow
<1> QED BY <1>1, <1>2 DEF Log, Logs, TypeOK

LEMMA LogNone ==
    ASSUME TypeOK, NEW r \in Requests, NoLog
    PROVE  Logs(r, 0)
<1>1. req[r].role \in Roles
      BY DEF TypeOK, Calls
<1> QED BY <1>1 DEF NoLog, Logs, TypeOK

LEMMA LogBoth ==
    ASSUME TypeOK, NEW r \in Requests, Current(r).svc \in Services, LogTwice(r)
    PROVE  Logs(r, 2)
<1>1. req[r].role \in Roles /\ ServiceOwner[Current(r).svc] \in Owners
      BY DEF TypeOK, Calls, Owners
<1>2. /\ LogRow(r, "plain", ServiceOwner[Current(r).svc]) \in LogRows
      /\ LogRow(r, "error", None) \in LogRows
      BY <1>1 DEF LogRows, LogRow
<1> QED BY <1>1, <1>2 DEF LogTwice, Logs, TypeOK

LEMMA BeginType ==
    ASSUME TypeOK, NEW r \in Requests, NEW s \in Services, table[s] # None, NEW b \in Roles,
           Begin(r, s, b)
    PROVE  /\ req' \in [Requests -> Calls]
           /\ attempt' \in [Requests -> [Roles -> Attempts]]
           /\ table[s] \in Rows
<1>1. table[s] \in Rows
      BY DEF TypeOK, Tables
<1>2. [svc |-> s, row |-> table[s], reply |-> None, result |-> "pending", kind |-> "none"]
         \in Attempts
      BY <1>1 DEF Attempts, Kinds
<1>3. [req[r] EXCEPT !.role = b, !.pc = "body"] \in Calls
      BY DEF TypeOK, Calls
<1>4. req' = [req EXCEPT ![r] = [req[r] EXCEPT !.role = b, !.pc = "body"]]
      BY DEF Begin, TypeOK
<1>5. req' \in [Requests -> Calls]
      BY <1>3, <1>4, CallType
<1>6. attempt' = [attempt EXCEPT ![r][b] =
                     [svc |-> s, row |-> table[s], reply |-> None, result |-> "pending",
                      kind |-> "none"]]
      BY DEF Begin
<1>7. attempt' \in [Requests -> [Roles -> Attempts]]
      BY <1>2, <1>6, AttemptType
<1> QED BY <1>1, <1>5, <1>7

LEMMA Frame ==
    ASSUME TypeOK, NEW r \in Requests, CallOK(r), Justified(r),
           req'[r] = req[r], attempt'[r] = attempt[r], spawned'[r] = spawned[r],
           \A b \in Roles : <<r, b>> \in held' <=> <<r, b>> \in held
    PROVE  CallOK(r)' /\ Justified(r)'
<1>1. Justified(r)'
      BY DEF Justified
<1>2. \A b \in Roles : /\ Fresh(r, b) <=> Fresh(r, b)'
                       /\ Pending(r, b) <=> Pending(r, b)'
                       /\ Kept(r, b) <=> Kept(r, b)'
                       /\ Closed(r, b) <=> Closed(r, b)'
                       /\ LogsDue(r, b) = LogsDue(r, b)'
      BY DEF Fresh, Begun, Pending, Kept, Closed, LogsDue
<1>2a. Flows(r, req[r]) <=> Flows(r, req[r])'
      BY DEF Flows, TypeOK, Calls
<1>3. req[r].role \in Roles /\ "primary" \in Roles /\ "fallback" \in Roles
      BY DEF TypeOK, Calls, Roles
<1>4. NeedsFallback(req[r], attempt[r][req[r].role])'
         <=> NeedsFallback(req[r], attempt[r][req[r].role])
      BY DEF NeedsFallback
<1>5. CallOK(r)'
      BY <1>2, <1>2a, <1>3, <1>4 DEF CallOK
<1> QED BY <1>1, <1>5

\* A step that touches no call but r.
Confined(r) == \A x \in Requests \ {r} :
                  /\ req'[x] = req[x] /\ attempt'[x] = attempt[x] /\ spawned'[x] = spawned[x]
                  /\ \A b \in Roles : <<x, b>> \in held' <=> <<x, b>> \in held

\* Such a step has to establish the invariant for r only.
LEMMA Others ==
    ASSUME IInv, NEW r \in Requests, Confined(r), TypeOK', CallOK(r)', Justified(r)'
    PROVE  IInv'
<1>1. ASSUME NEW x \in Requests, x # r
      PROVE  CallOK(x)' /\ Justified(x)'
      BY <1>1, Frame DEF IInv, Confined
<1> QED BY <1>1 DEF IInv

-------------------------------------------------------------------------------
(* handle() ends *)

\* An attempt that ends with what belongs to its kind in the log and in the pool
\* leaves its call in order, and the others alone.
LEMMA SettleCall ==
    ASSUME IInv, NEW r \in Requests,
           req[r].pc \notin {"idle", "lost"}, Begun(r, req[r].role),
           NEW result \in Over, NEW kind \in Kinds \ {"none"}, NEW reply \in Replies \cup {None},
           Settle(r, result, kind, reply),
           NEW n \in Nat, Logs(r, n),
           held' \in {held, held \ {<<r, req[r].role>>}},
           Booked(kind, result, reply, spawned[r][req[r].role] + n, <<r, req[r].role>> \in held'),
           kind = "stream" => <<r, req[r].role>> \in held',
           cache' \in [Slugs \X Bodies -> Entries \cup {None}],
           UNCHANGED <<table, keyActive, logs, edits, restarts>>
    PROVE  IInv'
<1> DEFINE role == req[r].role
           a == [Current(r) EXCEPT !.result = result, !.kind = kind, !.reply = reply]
<1>0. TypeOK /\ CallOK(r) /\ Justified(r) /\ req[r] \in Calls
      BY DEF IInv, TypeOK
<1>1. role \in Roles /\ "primary" \in Roles /\ "fallback" \in Roles
      BY <1>0 DEF Calls, Roles
<1>2. /\ attempt[r] \in [Roles -> Attempts] /\ Current(r) \in Attempts
      /\ attempt \in [Requests -> [Roles -> Attempts]]
      BY <1>0, <1>1 DEF TypeOK, Current
<1>3. /\ a.svc = Current(r).svc /\ a.row = Current(r).row
      /\ a.result = result /\ a.kind = kind /\ a.reply = reply
      BY <1>2 DEF Attempts
<1>4. attempt'[r][role] = a /\ \A b \in Roles \ {role} : attempt'[r][b] = attempt[r][b]
      BY <1>1, <1>2 DEF Settle
<1>5. req'[r] = Proceed(req[r], a)
      BY <1>0 DEF Settle, TypeOK
<1>6. /\ req'[r].role = role /\ req'[r].pc \in {"fallback", "unread", "done"}
      /\ req'[r].body = req[r].body
      BY <1>0, <1>5 DEF Proceed, Deliver, Calls
<1>6a. /\ spawned'[r][role] = spawned[r][role] + n
       /\ \A b \in Roles \ {role} : /\ spawned'[r][b] = spawned[r][b]
                                    /\ <<r, b>> \in held' <=> <<r, b>> \in held
      BY <1>1 DEF Logs
<1>7. Closed(r, role)'
  <2>1. attempt'[r][role].svc \in Services /\ attempt'[r][role].row \in Rows
        BY <1>3, <1>4 DEF Begun, Current
  <2>2. /\ attempt'[r][role].result = result /\ attempt'[r][role].kind = kind
        /\ attempt'[r][role].reply = reply
        BY <1>3, <1>4
  <2>3. Booked(kind, result, reply, spawned'[r][role], <<r, role>> \in held')
        BY <1>6a
  <2> HIDE DEF a
  <2> QED BY <1>6, <2>1, <2>2, <2>3 DEF Closed
<1>8. ASSUME NEW b \in Roles, b # role
      PROVE  (Fresh(r, b) => Fresh(r, b)') /\ (Closed(r, b) => Closed(r, b)')
  <2>0. b \in Roles \ {role}
        BY <1>8
  <2> HIDE DEF a, role
  <2>1. /\ attempt'[r][b] = attempt[r][b] /\ spawned'[r][b] = spawned[r][b]
        /\ <<r, b>> \in held' <=> <<r, b>> \in held
        BY <1>4, <1>6a, <2>0
  <2>2. Fresh(r, b) => Fresh(r, b)'
        BY <2>1 DEF Fresh
  <2>3. Closed(r, b) => Closed(r, b)'
        BY <2>1 DEF Closed, Booked
  <2> QED BY <2>2, <2>3
<1>9. req'[r].pc = "fallback" => NeedsFallback(req'[r], attempt'[r][role])
      BY <1>0, <1>4, <1>5, <1>6 DEF Proceed, Deliver, NeedsFallback, Calls
<1>10. /\ req'[r].pc = "unread" => kind = "stream" /\ result # "raised"
       /\ req'[r].pc = "done" => kind # "stream" \/ result = "raised"
      BY <1>0, <1>3, <1>5 DEF Proceed, Deliver, Calls
<1>10a. <<r, role>> \in held' => kind = "stream"
      BY DEF Booked, Kinds
<1>11. CallOK(r)'
  <2>1. role = "primary" => Fresh(r, "fallback")'
        BY <1>0, <1>1, <1>8 DEF CallOK
  <2>2. role = "fallback" => Closed(r, "primary")'
        BY <1>0, <1>1, <1>8 DEF CallOK
  <2>3. attempt'[r][role].kind = kind /\ attempt'[r][role].result = result
        BY <1>3, <1>4
  <2>4. req'[r].body \in Bodies
        BY <1>0, <1>6 DEF CallOK
  <2> HIDE DEF a
  <2>5. req'[r].pc = "unread" => Flows(r, req[r])'
        BY <1>6, <1>10, <2>3 DEF Flows
  <2> QED BY <1>6, <1>7, <1>9, <1>10, <1>10a, <2>1, <2>2, <2>3, <2>4, <2>5 DEF CallOK
<1>12. Justified(r)'
  <2>1. CASE role = "primary"
        BY <1>1, <1>11, <1>6, <2>1, Literals DEF CallOK, Fresh, Justified, NoAttempt
  <2>2. CASE role = "fallback"
        BY <1>0, <1>1, <1>3, <1>4, <2>2 DEF Justified, Current
  <2> QED BY <1>1, <2>1, <2>2 DEF Roles
<1>13. TypeOK'
  <2>1. req' \in [Requests -> Calls] /\ attempt' \in [Requests -> [Roles -> Attempts]]
        BY <1>0, SettleType
  <2> QED BY <1>0, <2>1 DEF TypeOK, Logs
<1>14. Confined(r)
      BY <1>0, <1>1 DEF Confined, Settle, Logs, TypeOK
<1> QED BY <1>11, <1>12, <1>13, <1>14, Others

-------------------------------------------------------------------------------
(* One lemma per step of a call *)

LEMMA ArriveStep ==
    ASSUME IInv, NEW r \in Requests, NEW slug \in Slugs, NEW k \in Keys, NEW body \in Bodies,
           Arrive(r, slug, k, body)
    PROVE  IInv'
<1> DEFINE q == [req[r] EXCEPT !.pc = "lookup", !.slug = slug, !.key = k, !.body = body]
<1>1. req \in [Requests -> Calls] /\ req[r] \in Calls /\ q \in Calls
      BY DEF IInv, TypeOK, Calls
<1>2. Refused(q) \in Calls
      BY <1>1 DEF Refused, Calls
<1>3. req' = [req EXCEPT ![r] = IF keyActive[k] THEN q ELSE Refused(q)]
      BY DEF Arrive
<1>4. TypeOK'
      BY <1>1, <1>2, <1>3 DEF Arrive, IInv, TypeOK
<1>5. Confined(r)
      BY <1>1, <1>3 DEF Arrive, Confined
<1>6. CallOK(r)'
  <2>1. req[r].role = "primary" /\ Fresh(r, "primary") /\ Fresh(r, "fallback")
        BY DEF IInv, CallOK, Arrive
  <2>2. Fresh(r, "primary")' /\ Fresh(r, "fallback")'
        BY <2>1 DEF Fresh, Arrive
  <2>3. /\ req'[r].role = "primary" /\ req'[r].body = body
        /\ \/ req'[r].pc = "lookup" /\ req'[r].slug = slug /\ req'[r].key = k
           \/ req'[r].pc = "done"
        BY <1>1, <1>2, <1>3, <2>1 DEF Refused, Calls
  <2> QED BY <2>2, <2>3 DEF CallOK
<1>7. Justified(r)'
      BY DEF IInv, Justified, Arrive
<1> QED BY <1>4, <1>5, <1>6, <1>7, Others

\* A handle() begins: in the role "primary" when nothing was tried, in the role
\* "fallback" when the primary is over and calls for that fallback.
LEMMA BeginCall ==
    ASSUME TypeOK, NEW r \in Requests, NEW s \in Services, table[s] # None, NEW b \in Roles,
           CallOK(r), Justified(r), req[r].pc \notin {"idle", "lost"}, Fresh(r, b), Begin(r, s, b),
           b = "primary" => Fresh(r, "fallback"),
           b = "fallback" => /\ Closed(r, "primary") /\ s = attempt[r]["primary"].row.fallback
                             /\ NeedsFallback(req[r], attempt[r]["primary"]),
           UNCHANGED <<held, spawned>>
    PROVE  CallOK(r)' /\ Justified(r)' /\ Confined(r)
<1>1. table[s] \in Rows
      BY BeginType
<1>2. /\ attempt'[r][b] = [svc |-> s, row |-> table[s], reply |-> None,
                           result |-> "pending", kind |-> "none"]
      /\ \A c \in Roles \ {b} : attempt'[r][c] = attempt[r][c]
      BY DEF Begin, TypeOK
<1>3. req'[r].role = b /\ req'[r].pc = "body" /\ req'[r].body = req[r].body
      BY DEF Begin, TypeOK, Calls
<1>4. Pending(r, b)' /\ <<r, b>> \notin held'
      BY <1>1, <1>2 DEF Begun, Pending, Fresh
<1>5. ASSUME NEW c \in Roles, c # b
      PROVE  (Fresh(r, c) => Fresh(r, c)') /\ (Closed(r, c) => Closed(r, c)')
      BY <1>2, <1>5 DEF Fresh, Closed
<1>6. "primary" \in Roles /\ "fallback" \in Roles
      BY DEF Roles
<1>7. CallOK(r)'
      BY <1>3, <1>4, <1>5, <1>6 DEF CallOK
<1>8. Justified(r)'
  <2>1. CASE b = "primary"
        BY <1>2, <1>6, <2>1, Literals DEF Justified, Fresh, NoAttempt
  <2>2. CASE b = "fallback"
        BY <1>2, <1>6, <2>2 DEF Justified, NeedsFallback
  <2> QED BY <2>1, <2>2 DEF Roles
<1>9. Confined(r)
      BY DEF Confined, Begin, TypeOK
<1> QED BY <1>7, <1>8, <1>9

LEMMA LookupStep ==
    ASSUME IInv, NEW r \in Requests, Lookup(r)
    PROVE  IInv'
<1>1. /\ TypeOK /\ CallOK(r) /\ Justified(r) /\ req[r].pc = "lookup"
      /\ req[r] \in Calls
      BY DEF IInv, Lookup, TypeOK
<1>2. /\ req[r].role = "primary" /\ Fresh(r, "primary") /\ Fresh(r, "fallback")
      /\ req[r].body \in Bodies
      BY <1>1 DEF CallOK
<1>3. ASSUME NEW s \in Services, Admitted(req[r], s), Begin(r, s, "primary") PROVE IInv'
  <2>1. table[s] # None
        BY <1>3 DEF Admitted, Live
  <2>2. TypeOK'
        BY <1>1, <1>3, <2>1, BeginType DEF Lookup, TypeOK, Roles
  <2>3. CallOK(r)' /\ Justified(r)' /\ Confined(r)
        BY <1>1, <1>2, <1>3, <2>1, BeginCall DEF Lookup, Roles
  <2> QED BY <2>2, <2>3, Others
<1>4. CASE req' = [req EXCEPT ![r] = Refused(req[r])] /\ UNCHANGED attempt
  <2>1. UNCHANGED <<held, spawned>>
        BY DEF Lookup
  <2>2. /\ Refused(req[r]) \in Calls /\ Refused(req[r]).pc = "done"
        /\ Refused(req[r]).role = "primary" /\ Refused(req[r]).body = req[r].body
        BY <1>1, <1>2 DEF Refused, Calls
  <2>3. req'[r] = Refused(req[r])
        BY <1>1, <1>4 DEF TypeOK
  <2>4. TypeOK'
        BY <1>1, <1>4, <2>1, <2>2 DEF Lookup, TypeOK
  <2>5. CallOK(r)'
        BY <1>2, <1>4, <2>1, <2>2, <2>3 DEF CallOK, Fresh
  <2>6. Justified(r)' /\ Confined(r)
        BY <1>1, <1>4, <2>1 DEF Justified, Confined, TypeOK
  <2> QED BY <2>4, <2>5, <2>6, Others
<1> QED BY <1>3, <1>4 DEF Lookup, Named

\* The current attempt, as long as it is in progress.
LEMMA InProgress ==
    ASSUME IInv, NEW r \in Requests, req[r].pc \in {"body", "cache", "send", "upstream"}
    PROVE  /\ TypeOK /\ req[r] \in Calls /\ req[r].role \in Roles /\ req[r].body \in Bodies
           /\ Pending(r, req[r].role) /\ Begun(r, req[r].role)
           /\ <<r, req[r].role>> \in held <=> req[r].pc = "upstream"
           /\ Current(r) = attempt[r][req[r].role]
           /\ Current(r).svc \in Services /\ Current(r).row \in Rows
           /\ spawned[r][req[r].role] = 0
           /\ ServiceOwner[Current(r).svc] \in Owners
           /\ cache \in [Slugs \X Bodies -> Entries \cup {None}]
           /\ CacheKey(r) \in Slugs \X Bodies
<1>1. /\ TypeOK /\ req[r] \in Calls /\ req[r].role \in Roles /\ CallOK(r)
      /\ cache \in [Slugs \X Bodies -> Entries \cup {None}]
      BY DEF IInv, TypeOK, Calls
<1>2. /\ Pending(r, req[r].role) /\ req[r].body \in Bodies
      /\ <<r, req[r].role>> \in held <=> req[r].pc = "upstream"
      BY <1>1 DEF CallOK
<1>3. /\ Begun(r, req[r].role) /\ Current(r) = attempt[r][req[r].role]
      /\ Current(r).svc \in Services /\ Current(r).row \in Rows
      /\ spawned[r][req[r].role] = 0
      BY <1>2 DEF Pending, Begun, Current
<1>4. ServiceOwner[Current(r).svc] \in Owners /\ CacheKey(r) \in Slugs \X Bodies
      BY <1>2, <1>3 DEF Owners, CacheKey, Rows
<1> QED BY <1>1, <1>2, <1>3, <1>4

LEMMA CacheHitStep ==
    ASSUME IInv, NEW r \in Requests, CacheHit(r)
    PROVE  IInv'
<1> DEFINE reply == cache[CacheKey(r)]
           result == IF reply.odd THEN "raised" ELSE reply.status
<1>1. req[r].pc = "cache"
      BY DEF CacheHit
<1>2. reply \in Replies /\ result \in Over
      BY <1>1, InProgress, Literals, Outcome DEF CacheHit
<1>3. Logs(r, 1)
      BY <1>1, InProgress, LogOnce DEF CacheHit
<1>4. /\ UNCHANGED held /\ <<r, req[r].role>> \notin held /\ spawned[r][req[r].role] + 1 = 1
      /\ Begun(r, req[r].role)
      BY <1>1, InProgress DEF CacheHit
<1>5. Booked("cached", result, reply, 1, <<r, req[r].role>> \in held')
      BY <1>4 DEF Booked
<1>6. Settle(r, result, "cached", reply)
      BY DEF CacheHit, Respond
<1>7. cache' \in [Slugs \X Bodies -> Entries \cup {None}]
      BY <1>1, InProgress DEF CacheHit
<1>8. UNCHANGED <<table, keyActive, logs, edits, restarts>>
      BY DEF CacheHit
<1>9. "cached" \in Kinds \ {"none"} /\ 1 \in Nat
      BY DEF Kinds
<1> HIDE DEF result, reply
<1> QED BY <1>1, <1>2, <1>3, <1>4, <1>5, <1>6, <1>7, <1>8, <1>9, SettleCall

LEMMA FailStep ==
    ASSUME IInv, NEW r \in Requests, Fail(r)
    PROVE  IInv'
<1>1. req[r].pc \in {"send", "upstream"}
      BY DEF Fail
<1>2. Logs(r, 1)
      BY <1>1, InProgress, LogOnce DEF Fail
<1>3. Begun(r, req[r].role) /\ spawned[r][req[r].role] = 0
      BY <1>1, InProgress
<1>3a. held' = held \ {<<r, req[r].role>>}
      BY DEF Fail, Release
<1>4. /\ Booked("error", "raised", None, spawned[r][req[r].role] + 1, <<r, req[r].role>> \in held')
      /\ held' \in {held, held \ {<<r, req[r].role>>}}
      BY <1>3, <1>3a DEF Booked
<1>5. cache' \in [Slugs \X Bodies -> Entries \cup {None}]
      BY <1>1, InProgress DEF Fail
<1>6. Settle(r, "raised", "error", None) /\ UNCHANGED <<table, keyActive, logs, edits, restarts>>
      BY DEF Fail
<1>7. "error" \in Kinds \ {"none"} /\ "raised" \in Over /\ 1 \in Nat
      BY DEF Kinds, Over
<1> QED BY <1>1, <1>2, <1>3, <1>4, <1>5, <1>6, <1>7, SettleCall

\* An attempt that ends outside the try (Crash, LoseBody).
LEMMA Unlogged ==
    ASSUME IInv, NEW r \in Requests, req[r].pc \in {"body", "send"},
           NEW kind \in {"crash", "gone"}, Settle(r, "raised", kind, None),
           UNCHANGED <<table, keyActive, held, cache, tasks, logs, spawned, edits, restarts>>
    PROVE  IInv'
<1>1. /\ <<r, req[r].role>> \notin held /\ spawned[r][req[r].role] = 0
      /\ Begun(r, req[r].role) /\ cache \in [Slugs \X Bodies -> Entries \cup {None}]
      BY InProgress
<1>2. Logs(r, 0)
      BY InProgress, LogNone DEF NoLog
<1>3. Booked(kind, "raised", None, spawned[r][req[r].role] + 0, <<r, req[r].role>> \in held')
      BY <1>1 DEF Booked
<1>4. kind \in Kinds \ {"none"} /\ "raised" \in Over /\ 0 \in Nat
      BY DEF Kinds, Over
<1> QED BY <1>1, <1>2, <1>3, <1>4, SettleCall

LEMMA CrashStep == ASSUME IInv, NEW r \in Requests, Crash(r) PROVE IInv'
BY Unlogged DEF Crash

LEMMA LoseBodyStep == ASSUME IInv, NEW r \in Requests, LoseBody(r) PROVE IInv'
BY Unlogged DEF LoseBody

\* Only the place in the code changes (ReadBody, CacheMiss, StartStream, ClientGone).
LEMMA MoveOn ==
    ASSUME IInv, NEW r \in Requests, NEW pc,
           \/ req[r].pc = "body" /\ pc \in {"cache", "send"}
           \/ req[r].pc = "cache" /\ pc = "send"
           \/ req[r].pc = "unread" /\ pc \in {"streaming", "gone"},
           req' = [req EXCEPT ![r].pc = pc],
           UNCHANGED <<table, keyActive, attempt, held, cache, tasks, logs, spawned, edits, restarts>>
    PROVE  IInv'
<1>1. TypeOK /\ CallOK(r) /\ Justified(r) /\ req[r] \in Calls /\ req[r].role \in Roles
      BY DEF IInv, TypeOK, Calls
<1>2. [req[r] EXCEPT !.pc = pc] \in Calls
      BY <1>1 DEF Calls
<1>3. /\ req' = [req EXCEPT ![r] = [req[r] EXCEPT !.pc = pc]]
      /\ req'[r].pc = pc /\ req'[r].role = req[r].role /\ req'[r].body = req[r].body
      BY <1>1, <1>2 DEF TypeOK, Calls
<1>4. TypeOK'
      BY <1>1, <1>2, <1>3, CallType DEF TypeOK
<1>5. \A b \in Roles : /\ Fresh(r, b) => Fresh(r, b)'
                       /\ Pending(r, b) => Pending(r, b)'
                       /\ Closed(r, b) => Closed(r, b)'
      BY DEF Fresh, Begun, Pending, Closed
<1>5a. Flows(r, req[r]) => Flows(r, req[r])'
      BY <1>3 DEF Flows
<1>6. CallOK(r)'
      BY <1>1, <1>3, <1>5, <1>5a DEF CallOK, Roles
<1>7. Justified(r)' /\ Confined(r)
      BY <1>1 DEF Justified, Confined, TypeOK
<1> QED BY <1>4, <1>6, <1>7, Others

LEMMA SendStep ==
    ASSUME IInv, NEW r \in Requests, Send(r)
    PROVE  IInv'
<1>1. TypeOK /\ CallOK(r) /\ Justified(r) /\ req[r] \in Calls /\ req[r].role \in Roles
      BY DEF IInv, TypeOK, Calls
<1>2. [req[r] EXCEPT !.pc = "upstream"] \in Calls
      BY <1>1 DEF Calls
<1>3. /\ req' = [req EXCEPT ![r] = [req[r] EXCEPT !.pc = "upstream"]]
      /\ req'[r].pc = "upstream" /\ req'[r].role = req[r].role /\ req'[r].body = req[r].body
      BY <1>1, <1>2 DEF TypeOK, Calls, Send
<1>4. TypeOK'
      BY <1>1, <1>2, <1>3, CallType DEF TypeOK, Send
<1>5. Pending(r, req[r].role)' /\ <<r, req[r].role>> \in held'
      BY <1>1 DEF CallOK, Begun, Pending, Send
<1>6. \A b \in Roles \ {req[r].role} : /\ Fresh(r, b) => Fresh(r, b)'
                                       /\ Closed(r, b) => Closed(r, b)'
      BY DEF Fresh, Closed, Send
<1>7. CallOK(r)'
      BY <1>1, <1>3, <1>5, <1>6 DEF CallOK, Roles, Send
<1>8. Justified(r)' /\ Confined(r)
      BY <1>1 DEF Justified, Confined, TypeOK, Send
<1> QED BY <1>4, <1>7, <1>8, Others

\* Where the answer goes to the cache first, the attempt goes on.
LEMMA KeepReplyStep ==
    ASSUME IInv, NEW r \in Requests, NEW reply \in Replies, req[r].pc = "upstream",
           reply.status \in Success, Release(r), KeepReply(r, reply),
           UNCHANGED <<table, keyActive, cache, logs, edits, restarts>>
    PROVE  IInv'
<1> DEFINE role == req[r].role
           a == [Current(r) EXCEPT !.kind = "plain", !.reply = reply]
<1>1. /\ TypeOK /\ CallOK(r) /\ Justified(r) /\ req[r] \in Calls /\ role \in Roles
      /\ attempt[r] \in [Roles -> Attempts] /\ Current(r) \in Attempts
      BY DEF IInv, TypeOK, Calls, Current
<1>2. /\ Current(r).svc \in Services /\ Current(r).row \in Rows /\ Current(r).result = "pending"
      /\ spawned[r][role] = 0 /\ req[r].body \in Bodies
      BY InProgress DEF Begun
<1>3. reply \in Entries
      BY DEF Replies, Entries
<1>4. [req[r] EXCEPT !.pc = "store"] \in Calls /\ a \in Attempts
      BY <1>1 DEF Calls, Attempts, Kinds
<1>5. /\ req' = [req EXCEPT ![r] = [req[r] EXCEPT !.pc = "store"]]
      /\ req'[r].pc = "store" /\ req'[r].role = role /\ req'[r].body = req[r].body
      BY <1>1, <1>4 DEF KeepReply, TypeOK, Calls
<1>6. attempt' = [attempt EXCEPT ![r][role] = a]
      BY DEF KeepReply
<1>7. Logs(r, 1)
      BY <1>1, <1>2, LogOnce, InProgress DEF KeepReply
<1>8. held' = held \ {<<r, role>>}
      BY DEF Release
<1>9. TypeOK'
  <2>1. req' \in [Requests -> Calls] /\ attempt' \in [Requests -> [Roles -> Attempts]]
        BY <1>1, <1>4, <1>5, <1>6, CallType, AttemptType
  <2> QED BY <1>1, <1>7, <1>8, <2>1 DEF TypeOK, Logs
<1>10. /\ attempt'[r][role] = a /\ \A b \in Roles \ {role} : attempt'[r][b] = attempt[r][b]
       /\ a.svc = Current(r).svc /\ a.row = Current(r).row /\ a.result = Current(r).result
       /\ a.kind = "plain" /\ a.reply = reply
      BY <1>1, <1>6 DEF TypeOK, Attempts
<1>11. spawned'[r][role] = 1 /\ \A b \in Roles \ {role} : spawned'[r][b] = spawned[r][b]
      BY <1>1, <1>2, <1>7 DEF Logs
<1> HIDE DEF a
<1>12. Kept(r, role)' /\ <<r, role>> \notin held'
      BY <1>2, <1>3, <1>5, <1>8, <1>10, <1>11 DEF Kept, Begun
<1>13. \A b \in Roles \ {role} : (Fresh(r, b) => Fresh(r, b)') /\ (Closed(r, b) => Closed(r, b)')
      BY <1>8, <1>10, <1>11 DEF Fresh, Closed
<1>14. CallOK(r)'
      BY <1>1, <1>2, <1>5, <1>12, <1>13 DEF CallOK, Roles
<1>15. Justified(r)'
  <2>1. CASE role = "primary"
        BY <1>5, <1>14, <2>1, Literals DEF CallOK, Fresh, Justified, NoAttempt
  <2>2. CASE role = "fallback"
        BY <1>1, <1>10, <2>2 DEF Justified, Current, Roles
  <2> QED BY <1>1, <2>1, <2>2 DEF Roles
<1>16. Confined(r)
  <2>1. \A x \in Requests \ {r} : spawned'[x] = spawned[x]
        BY <1>1, <1>7, LogsOthers
  <2>2. \A x \in Requests \ {r} : /\ req'[x] = req[x] /\ attempt'[x] = attempt[x]
                                  /\ \A b \in Roles : <<x, b>> \in held' <=> <<x, b>> \in held
        BY <1>1, <1>5, <1>6, <1>8 DEF TypeOK
  <2> QED BY <2>1, <2>2 DEF Confined
<1> QED BY <1>9, <1>14, <1>15, <1>16, Others

LEMMA PassReplyStep ==
    ASSUME IInv, NEW r \in Requests, NEW reply \in Replies, req[r].pc = "upstream",
           Release(r), PassReply(r, reply),
           UNCHANGED <<table, keyActive, cache, logs, edits, restarts>>
    PROVE  IInv'
<1> DEFINE result == IF reply.odd THEN "raised" ELSE reply.status
           n == IF reply.odd THEN 2 ELSE 1
<1>1. Logs(r, n) /\ n \in Nat
  <2>1. CASE reply.odd
        BY <2>1, InProgress, LogBoth DEF PassReply
  <2>2. CASE ~reply.odd
        BY <2>2, InProgress, LogOnce DEF PassReply
  <2> QED BY <2>1, <2>2
<1>2. /\ spawned[r][req[r].role] = 0 /\ Begun(r, req[r].role)
      /\ cache \in [Slugs \X Bodies -> Entries \cup {None}]
      BY InProgress
<1>2a. held' = held \ {<<r, req[r].role>>} /\ held' \in {held, held \ {<<r, req[r].role>>}}
      BY DEF Release
<1>3. result \in Over /\ Settle(r, result, "plain", reply)
      BY Outcome DEF PassReply, Respond
<1>4. spawned[r][req[r].role] + n = n
      BY <1>2
<1>4a. Booked("plain", result, reply, n, <<r, req[r].role>> \in held')
      BY <1>2a DEF Booked
<1>5. "plain" \in Kinds \ {"none"}
      BY DEF Kinds
<1> HIDE DEF result, n
<1>6. /\ cache' \in [Slugs \X Bodies -> Entries \cup {None}]
      /\ UNCHANGED <<table, keyActive, logs, edits, restarts>>
      BY <1>2
<1>7. req[r].pc \notin {"idle", "lost"}
      OBVIOUS
<1>8. Booked("plain", result, reply, spawned[r][req[r].role] + n, <<r, req[r].role>> \in held')
      BY <1>4, <1>4a
<1> QED BY <1>1, <1>2, <1>2a, <1>3, <1>5, <1>6, <1>7, <1>8, SettleCall

LEMMA ReplyPlainStep ==
    ASSUME IInv, NEW r \in Requests, NEW reply \in Replies, ReplyPlain(r, reply)
    PROVE  IInv'
BY KeepReplyStep, PassReplyStep DEF ReplyPlain

LEMMA StoreStep ==
    ASSUME IInv, NEW r \in Requests, Store(r)
    PROVE  IInv'
<1> DEFINE reply == Current(r).reply
           result == IF reply.odd THEN "raised" ELSE reply.status
           n == IF reply.odd THEN 1 ELSE 0
<1>1. /\ TypeOK /\ CallOK(r) /\ req[r].pc = "store" /\ req[r] \in Calls
      /\ req[r].body \in Bodies
      BY DEF IInv, TypeOK, Calls, Store, CallOK
<1>2. /\ Kept(r, req[r].role) /\ Begun(r, req[r].role) /\ <<r, req[r].role>> \notin held
      /\ UNCHANGED held
      BY <1>1 DEF CallOK, Kept, Store
<1>3. /\ reply \in Entries /\ reply \in Replies /\ spawned[r][req[r].role] = 1
      /\ Current(r).svc \in Services /\ Current(r).row \in Rows
      BY <1>2, Literals DEF Kept, Begun, Current
<1>4. Logs(r, n) /\ n \in Nat
  <2>1. CASE reply.odd
        BY <1>1, <1>3, <2>1, LogOnce DEF Store
  <2>2. CASE ~reply.odd
        BY <1>1, <2>2, LogNone DEF Store
  <2> QED BY <2>1, <2>2
<1>5. cache' \in [Slugs \X Bodies -> Entries \cup {None}]
  <2>1. CacheKey(r) \in Slugs \X Bodies
        BY <1>1, <1>3 DEF CacheKey, Rows
  <2>2. cache' \in {cache, [cache EXCEPT ![CacheKey(r)] = reply]}
        BY DEF Store
  <2> QED BY <1>1, <1>3, <2>1, <2>2 DEF TypeOK
<1>6. result \in Over /\ Settle(r, result, "plain", reply)
      BY <1>3, Outcome DEF Store, Respond
<1>7. Booked("plain", result, reply, spawned[r][req[r].role] + n, <<r, req[r].role>> \in held')
      BY <1>2, <1>3 DEF Booked
<1>8. "plain" \in Kinds \ {"none"} /\ UNCHANGED <<table, keyActive, logs, edits, restarts>>
      BY DEF Kinds, Store
<1> HIDE DEF reply, result, n
<1> QED BY <1>1, <1>2, <1>3, <1>4, <1>5, <1>6, <1>7, <1>8, SettleCall

LEMMA ReplyStreamStep ==
    ASSUME IInv, NEW r \in Requests, NEW reply \in Replies, ReplyStream(r, reply)
    PROVE  IInv'
<1> DEFINE result == IF reply.odd THEN "raised" ELSE reply.status
           n == IF reply.odd THEN 1 ELSE 0
<1>1. req[r].pc = "upstream" /\ UNCHANGED held
      BY DEF ReplyStream
<1>2. Logs(r, n) /\ n \in Nat
  <2>1. CASE reply.odd
        BY <1>1, <2>1, InProgress, LogOnce DEF ReplyStream
  <2>2. CASE ~reply.odd
        BY <1>1, <2>2, InProgress, LogNone DEF ReplyStream
  <2> QED BY <2>1, <2>2
<1>3. /\ <<r, req[r].role>> \in held /\ spawned[r][req[r].role] = 0
      /\ Begun(r, req[r].role) /\ cache \in [Slugs \X Bodies -> Entries \cup {None}]
      BY <1>1, InProgress
<1>3a. /\ <<r, req[r].role>> \in held' /\ cache' \in [Slugs \X Bodies -> Entries \cup {None}]
      /\ spawned[r][req[r].role] + n = n
      BY <1>1, <1>3 DEF ReplyStream
<1>4. result \in Over /\ Settle(r, result, "stream", reply)
      BY Outcome DEF ReplyStream, Respond
<1>5. reply.odd <=> result = "raised"
      BY ProxyAssumption DEF Replies
<1>6. Booked("stream", result, reply, n, <<r, req[r].role>> \in held')
      BY <1>3a, <1>5 DEF Booked
<1>7. "stream" \in Kinds \ {"none"} /\ UNCHANGED <<table, keyActive, logs, edits, restarts>>
      BY DEF Kinds, ReplyStream
<1> HIDE DEF result, n
<1> QED BY <1>1, <1>2, <1>3, <1>3a, <1>4, <1>6, <1>7, SettleCall

LEMMA LoadFallbackStep ==
    ASSUME IInv, NEW r \in Requests, LoadFallback(r)
    PROVE  IInv'
<1> DEFINE f == Current(r).row.fallback
<1>1. /\ TypeOK /\ CallOK(r) /\ Justified(r) /\ req[r].pc = "fallback" /\ req[r] \in Calls
      BY DEF IInv, LoadFallback, TypeOK
<1>2. /\ Closed(r, req[r].role) /\ NeedsFallback(req[r], Current(r))
      /\ req[r].role = "primary"
      BY <1>1 DEF CallOK, NeedsFallback, Current
<1>3. Fresh(r, "fallback") /\ Closed(r, "primary") /\ f \in Services
      BY <1>1, <1>2 DEF CallOK, Closed, NeedsFallback, Current, Rows
<1>4. CASE Live(f)
  <2>1. Begin(r, f, "fallback") /\ table[f] # None
        BY <1>4 DEF LoadFallback, Live
  <2>2. TypeOK'
        BY <1>1, <1>3, <2>1, BeginType DEF LoadFallback, TypeOK, Roles
  <2>3. CallOK(r)' /\ Justified(r)' /\ Confined(r)
        BY <1>1, <1>2, <1>3, <2>1, BeginCall DEF LoadFallback, Roles, Current
  <2> QED BY <2>2, <2>3, Others
<1>5. CASE ~Live(f)
  <2> DEFINE a == Current(r)
  <2>1. req' = [req EXCEPT ![r] = Deliver(req[r], a)] /\ UNCHANGED <<attempt, held, spawned>>
        BY <1>5 DEF LoadFallback
  <2>2. Deliver(req[r], a) \in Calls
        BY <1>1, DeliverType
  <2>3. /\ req'[r] = Deliver(req[r], a) /\ req'[r].role = "primary"
        /\ req'[r].pc = IF a.kind = "stream" /\ a.result # "raised" THEN "unread" ELSE "done"
        /\ req'[r].body = req[r].body
        BY <1>1, <1>2, <2>1 DEF Deliver, TypeOK, Calls
  <2>4. TypeOK'
        BY <1>1, <1>5, <2>1, <2>2, CallType DEF LoadFallback, TypeOK
  <2>5. \A b \in Roles : (Fresh(r, b) => Fresh(r, b)') /\ (Closed(r, b) => Closed(r, b)')
        BY <2>1 DEF Fresh, Closed
  <2>6. a.kind = "stream" <=> <<r, "primary">> \in held
        BY <1>1, <1>2 DEF CallOK, Current, Closed, Booked, Kinds
  <2>6a. req'[r].pc = "unread" => Flows(r, req[r])'
        BY <1>2, <2>1, <2>3, <2>6 DEF Flows, Current
  <2>6b. req[r].body \in Bodies
        BY <1>1 DEF CallOK
  <2>7. CallOK(r)'
        BY <1>2, <1>3, <2>1, <2>3, <2>5, <2>6, <2>6a, <2>6b DEF CallOK, Roles, Current
  <2>8. Justified(r)' /\ Confined(r)
        BY <1>1, <2>1 DEF Justified, Confined, TypeOK
  <2> QED BY <2>4, <2>7, <2>8, Others
<1> QED BY <1>4, <1>5

LEMMA EndStreamStep ==
    ASSUME IInv, NEW r \in Requests, EndStream(r)
    PROVE  IInv'
<1> DEFINE role == req[r].role
<1>1. /\ TypeOK /\ CallOK(r) /\ Justified(r) /\ req[r].pc = "streaming" /\ req[r] \in Calls
      /\ role \in Roles
      BY DEF IInv, EndStream, TypeOK, Calls
<1>2. /\ Closed(r, role) /\ <<r, role>> \in held /\ Current(r).svc \in Services
      /\ attempt[r][role].kind = "stream" /\ attempt[r][role].result # "raised"
      /\ req[r].body \in Bodies
      BY <1>1 DEF CallOK, Closed, Current, Flows
<1>3. [req[r] EXCEPT !.pc = "done"] \in Calls
      BY <1>1 DEF Calls
<1>4. /\ req' = [req EXCEPT ![r] = [req[r] EXCEPT !.pc = "done"]]
      /\ req'[r].pc = "done" /\ req'[r].role = role /\ req'[r].body = req[r].body
      BY <1>1, <1>3 DEF EndStream, TypeOK, Calls
<1>5. held' = held \ {<<r, role>>} /\ Log(r, "stream", None) /\ UNCHANGED attempt
      BY DEF EndStream, Release
<1>6. Logs(r, 1)
      BY <1>1, <1>2, <1>5, LogOnce
<1>7. TypeOK'
      BY <1>1, <1>3, <1>4, <1>5, <1>6, CallType DEF EndStream, TypeOK, Logs
<1>8. spawned'[r][role] = 1 /\ \A b \in Roles \ {role} : spawned'[r][b] = spawned[r][b]
      BY <1>1, <1>2, <1>6 DEF Logs, Closed, Booked
<1>9. Closed(r, role)' /\ <<r, role>> \notin held'
      BY <1>2, <1>4, <1>5, <1>8 DEF Closed, Booked
<1>10. \A b \in Roles \ {role} : (Fresh(r, b) => Fresh(r, b)') /\ (Closed(r, b) => Closed(r, b)')
      BY <1>5, <1>8 DEF Fresh, Closed
<1>11. CallOK(r)'
      BY <1>1, <1>2, <1>4, <1>9, <1>10 DEF CallOK, Roles
<1>12. Justified(r)' /\ Confined(r)
  <2>1. \A x \in Requests \ {r} : spawned'[x] = spawned[x]
        BY <1>1, <1>6, LogsOthers
  <2>2. \A x \in Requests \ {r} : /\ req'[x] = req[x] /\ attempt'[x] = attempt[x]
                                  /\ \A b \in Roles : <<x, b>> \in held' <=> <<x, b>> \in held
        BY <1>1, <1>4, <1>5 DEF TypeOK
  <2> QED BY <1>1, <1>5, <2>1, <2>2 DEF Justified, Confined
<1> QED BY <1>7, <1>11, <1>12, Others

-------------------------------------------------------------------------------
(* Around the calls *)

\* A step that touches no call at all.
LEMMA Untouched ==
    ASSUME IInv, TypeOK', UNCHANGED <<req, attempt, held, spawned>>
    PROVE  IInv'
<1>1. ASSUME NEW r \in Requests
      PROVE  CallOK(r)' /\ Justified(r)'
      BY <1>1, Frame DEF IInv
<1> QED BY <1>1 DEF IInv

LEMMA WriteLogStep ==
    ASSUME IInv, NEW l \in tasks, WriteLog(l)
    PROVE  IInv'
<1>1. TypeOK'
      BY DEF IInv, WriteLog, TypeOK
<1> QED BY <1>1, Untouched DEF WriteLog

LEMMA ExpireStep ==
    ASSUME IInv, NEW e \in Slugs \X Bodies, Expire(e)
    PROVE  IInv'
<1>1. TypeOK'
      BY DEF IInv, Expire, TypeOK
<1> QED BY <1>1, Untouched DEF Expire

\* The bounds on the counters.
LEMMA EditCount == ASSUME TypeOK, Edit PROVE edits' \in 0..MaxEdits
BY ProxyAssumption DEF TypeOK, Edit

LEMMA EditServiceStep ==
    ASSUME IInv, NEW s \in Services, EditService(s)
    PROVE  IInv'
<1> DEFINE row == table[s]
<1>1. TypeOK /\ row \in Rows
      BY DEF IInv, TypeOK, Tables, EditService
<1>2. /\ \A x \in BOOLEAN : /\ [row EXCEPT !.active = x] \in Rows
                            /\ [row EXCEPT !.streaming = x] \in Rows
                            /\ [row EXCEPT !.cache = x] \in Rows
      /\ \A f \in Services \cup {None} : [row EXCEPT !.fallback = f] \in Rows
      /\ \A on \in SUBSET Statuses : [row EXCEPT !.on = on] \in Rows
      /\ \A slug \in Slugs : [row EXCEPT !.slug = slug] \in Rows
      BY <1>1 DEF Rows
<1>3. (~row.active) \in BOOLEAN /\ (~row.streaming) \in BOOLEAN /\ (~row.cache) \in BOOLEAN
      OBVIOUS
<1>4. RowEdits(s) \subseteq Rows
      BY <1>2, <1>3 DEF RowEdits
<1>5. table' \in Tables
      BY <1>1, <1>4 DEF EditService, TypeOK, Tables
<1>6. TypeOK'
      BY <1>1, <1>5, EditCount DEF EditService, TypeOK
<1> QED BY <1>6, Untouched DEF EditService

LEMMA DeleteServiceStep ==
    ASSUME IInv, NEW s \in Services, DeleteService(s)
    PROVE  IInv'
<1>1. TypeOK
      BY DEF IInv
<1>2. ASSUME NEW x \in Services, table[x] # None
      PROVE  [table[x] EXCEPT !.fallback = None] \in Rows
      BY <1>1, <1>2 DEF TypeOK, Tables, Rows
<1>3. table' \in Tables
      BY <1>1, <1>2 DEF DeleteService, TypeOK, Tables
<1>4. TypeOK'
      BY <1>1, <1>3, EditCount DEF DeleteService, TypeOK
<1> QED BY <1>4, Untouched DEF DeleteService

LEMMA ToggleKeyStep ==
    ASSUME IInv, NEW k \in Keys, ToggleKey(k)
    PROVE  IInv'
<1>1. TypeOK'
      BY EditCount DEF IInv, ToggleKey, TypeOK
<1> QED BY <1>1, Untouched DEF ToggleKey

\* Each attempt has logged what is due.
LEMMA AttemptLogged ==
    ASSUME IInv, NEW r \in Requests, NEW b \in Roles
    PROVE  spawned[r][b] \in LogsDue(r, b)
<1>1. req[r] \in Calls /\ req[r].role \in Roles /\ CallOK(r)
      BY DEF IInv, TypeOK, Calls
<1>2. CASE req[r].pc = "lost"
      BY <1>1, <1>2 DEF CallOK
<1>3. CASE req[r].pc # "lost"
  <2>1. Fresh(r, b) \/ Pending(r, b) \/ Kept(r, b) \/ Closed(r, b)
        BY <1>1, <1>3 DEF CallOK, Calls, Roles
  <2>2. CASE Fresh(r, b)
        BY <2>2 DEF Fresh, NoAttempt, LogsDue
  <2>3. CASE Pending(r, b)
        BY <2>3 DEF Pending, LogsDue
  <2>4. CASE Kept(r, b)
        BY <2>4 DEF Kept, Begun, LogsDue
  <2>5. CASE Closed(r, b)
        BY <1>3, <2>5, Literals DEF Closed, Booked, Kinds, LogsDue
  <2> QED BY <2>1, <2>2, <2>3, <2>4, <2>5
<1> QED BY <1>2, <1>3

\* Every call that has begun is lost, and holds nothing.
LEMMA RestartStep ==
    ASSUME IInv, Restart
    PROVE  IInv'
<1> DEFINE gone(r) == [req[r] EXCEPT !.pc = "lost",
                                     !.answer = IF @ = "none" THEN "lost" ELSE @]
<1>1. TypeOK
      BY DEF IInv
<1>2. ASSUME NEW r \in Requests
      PROVE  gone(r) \in Calls /\ gone(r).pc = "lost"
  <2>1. req[r] \in Calls
        BY <1>1 DEF TypeOK
  <2>2. CASE req[r].answer = "none"
        BY <2>1, <2>2 DEF Calls
  <2>3. CASE req[r].answer # "none"
        BY <2>1, <2>3 DEF Calls
  <2> QED BY <2>2, <2>3
<1>3. /\ req' = [r \in Requests |-> IF req[r].pc = "idle" THEN req[r] ELSE gone(r)]
      /\ held' = {} /\ tasks' = {} /\ UNCHANGED <<table, keyActive, attempt, cache, spawned, edits>>
      BY DEF Restart
<1>4. logs' \subseteq LogRows
  <2>1. \A l \in LogRows : [l EXCEPT !.owner = Admin] \in LogRows
        BY DEF LogRows, Owners
  <2> QED BY <1>1, <2>1 DEF Restart, TypeOK
<1>5. req' \in [Requests -> Calls]
  <2> HIDE DEF gone
  <2> QED BY <1>1, <1>2, <1>3 DEF TypeOK
<1>6. TypeOK'
  <2>1. restarts \in 0..MaxRestarts /\ restarts < MaxRestarts /\ restarts' = restarts + 1
        BY <1>1 DEF Restart, TypeOK
  <2>2. restarts' \in 0..MaxRestarts
        BY <2>1, ProxyAssumption
  <2> HIDE DEF gone
  <2> QED BY <1>1, <1>3, <1>4, <1>5, <2>2 DEF TypeOK
<1>7. ASSUME NEW r \in Requests
      PROVE  CallOK(r)' /\ Justified(r)'
  <2>1. Justified(r)'
        BY <1>3 DEF IInv, Justified
  <2>2. CASE req[r].pc = "idle"
    <3>1. req'[r] = req[r]
          BY <1>3, <2>2
    <3>2. req[r].role = "primary" /\ Fresh(r, "primary") /\ Fresh(r, "fallback")
          BY <2>2 DEF IInv, CallOK
    <3>3. Fresh(r, "primary")' /\ Fresh(r, "fallback")'
          BY <1>3, <3>2 DEF Fresh
    <3> QED BY <2>1, <2>2, <3>1, <3>2, <3>3 DEF CallOK
  <2>3. CASE req[r].pc # "idle"
    <3>1. req'[r].pc = "lost"
          BY <1>2, <1>3, <2>3
    <3>2. ASSUME NEW b \in Roles PROVE spawned'[r][b] \in LogsDue(r, b)'
      <4>1. spawned[r][b] \in LogsDue(r, b)
            BY AttemptLogged
      <4>2. attempt'[r][b] = attempt[r][b] /\ spawned'[r][b] = spawned[r][b]
            BY <1>3
      <4> QED BY <3>1, <4>1, <4>2 DEF LogsDue
    <3> QED BY <1>3, <2>1, <3>1, <3>2 DEF CallOK
  <2> QED BY <2>2, <2>3
<1> QED BY <1>6, <1>7 DEF IInv

-------------------------------------------------------------------------------
(* The invariant *)

LEMMA InitHolds == Init => IInv
<1> SUFFICES ASSUME Init PROVE IInv
    OBVIOUS
<1>1. TypeOK
      BY Literals, ProxyAssumption DEF Init, TypeOK, Roles
<1>2. ASSUME NEW r \in Requests
      PROVE  CallOK(r) /\ Justified(r)
  <2>1. Fresh(r, "primary") /\ Fresh(r, "fallback")
        BY DEF Init, Fresh, Roles
  <2> QED BY <2>1 DEF Init, CallOK, Justified, Fresh, NoCall, NoAttempt
<1> QED BY <1>1, <1>2 DEF IInv

LEMMA CallStep ==
    ASSUME IInv, NEW r \in Requests, Call(r)
    PROVE  IInv'
<1>1. CASE \E slug \in Slugs, k \in Keys, body \in Bodies : Arrive(r, slug, k, body)
      BY <1>1, ArriveStep
<1>2. CASE Lookup(r)
      BY <1>2, LookupStep
<1>3. CASE CacheHit(r)
      BY <1>3, CacheHitStep
<1>4. CASE CacheMiss(r)
  <2>1. /\ req[r].pc = "cache" /\ req' = [req EXCEPT ![r].pc = "send"]
        /\ UNCHANGED <<table, keyActive, attempt, held, cache, tasks, logs, spawned, edits, restarts>>
        BY <1>4 DEF CacheMiss
  <2> QED BY <2>1, MoveOn
<1>5. CASE Send(r)
      BY <1>5, SendStep
<1>6. CASE Fail(r)
      BY <1>6, FailStep
<1>7. CASE Store(r)
      BY <1>7, StoreStep
<1>8. CASE \E reply \in Replies : ReplyPlain(r, reply) \/ ReplyStream(r, reply)
      BY <1>8, ReplyPlainStep, ReplyStreamStep
<1>9. CASE LoadFallback(r)
      BY <1>9, LoadFallbackStep
<1>10. CASE StartStream(r)
  <2>1. /\ req[r].pc = "unread" /\ req' = [req EXCEPT ![r].pc = "streaming"]
        /\ UNCHANGED <<table, keyActive, attempt, held, cache, tasks, logs, spawned, edits, restarts>>
        BY <1>10 DEF StartStream
  <2> QED BY <2>1, MoveOn
<1>11. CASE EndStream(r)
      BY <1>11, EndStreamStep
<1>13. CASE Crash(r)
      BY <1>13, CrashStep
<1>12. CASE ClientGone(r)
  <2>1. /\ req[r].pc = "unread" /\ req' = [req EXCEPT ![r].pc = "gone"]
        /\ UNCHANGED <<table, keyActive, attempt, held, cache, tasks, logs, spawned, edits, restarts>>
        BY <1>12 DEF ClientGone
  <2> QED BY <2>1, MoveOn
<1>14. CASE ReadBody(r)
  <2> DEFINE pc == IF Current(r).row.cache THEN "cache" ELSE "send"
  <2>1. /\ req[r].pc = "body" /\ pc \in {"cache", "send"} /\ req' = [req EXCEPT ![r].pc = pc]
        /\ UNCHANGED <<table, keyActive, attempt, held, cache, tasks, logs, spawned, edits, restarts>>
        BY <1>14 DEF ReadBody
  <2> HIDE DEF pc
  <2> QED BY <2>1, MoveOn
<1>15. CASE LoseBody(r)
      BY <1>15, LoseBodyStep
<1> QED BY <1>1, <1>2, <1>3, <1>4, <1>5, <1>6, <1>7, <1>8, <1>9, <1>10, <1>11, <1>12, <1>13, <1>14,
           <1>15 DEF Call, Bounded, Outside

LEMMA NextHolds == IInv /\ [Next]_vars => IInv'
<1> SUFFICES ASSUME IInv, [Next]_vars PROVE IInv'
    OBVIOUS
<1>1. CASE \E r \in Requests : Call(r)
      BY <1>1, CallStep
<1>2. CASE \E l \in tasks : WriteLog(l)
      BY <1>2, WriteLogStep
<1>3. CASE \E e \in Slugs \X Bodies : Expire(e)
      BY <1>3, ExpireStep
<1>4. CASE Administer
      BY <1>4, EditServiceStep, DeleteServiceStep, ToggleKeyStep DEF Administer
<1>5. CASE Restart
      BY <1>5, RestartStep
<1>6. CASE UNCHANGED vars
  <2>1. TypeOK'
        BY <1>6 DEF vars, IInv, TypeOK
  <2> QED BY <1>6, <2>1, Untouched DEF vars
<1> QED BY <1>1, <1>2, <1>3, <1>4, <1>5, <1>6 DEF Next

LEMMA InvHolds == Spec => []IInv
BY InitHolds, NextHolds, PTL DEF Spec

-------------------------------------------------------------------------------
(* Theorems *)

\* Every variable of the request path keeps its type: in particular only successes
\* (below 400) are ever in the cache.
THEOREM TypeCorrect == Spec => []TypeOK
<1>1. IInv => TypeOK
      BY DEF IInv
<1> QED BY <1>1, InvHolds, PTL

\* What an attempt logs, in every interleaving of any number of calls, edits and
\* restarts: one row, but for the exceptions that LogsDue names.
THEOREM EachAttemptLoggedOnce == Spec => []LoggedOnce
<1>1. IInv => LoggedOnce
      BY AttemptLogged DEF LoggedOnce
<1> QED BY <1>1, InvHolds, PTL

\* Connections are held by attempts that wait for their upstream, by streams on their
\* way to a client, and by the three leaks of Leaked, by nothing else.
THEOREM NoIdleConnection == Spec => []HeldInUse
<1>1. IInv => HeldInUse
  <2> SUFFICES ASSUME IInv, NEW r \in Requests, NEW b \in Roles, <<r, b>> \in held
               PROVE  \/ req[r].role = b /\ req[r].pc = "upstream"
                      \/ /\ req[r].role = b /\ req[r].pc \in {"fallback", "unread", "streaming"}
                         /\ attempt[r][b].kind = "stream"
                      \/ Leaked(r, b)
      BY DEF HeldInUse, IInv, TypeOK
  <2>1. req[r] \in Calls /\ req[r].role \in Roles /\ CallOK(r) /\ req[r].pc # "lost"
        BY DEF IInv, TypeOK, Calls, CallOK
  <2>2. Closed(r, b) => attempt[r][b].kind = "stream"
        BY DEF Closed, Booked, Kinds
  <2>3. CASE req[r].role # b
        BY <2>1, <2>2, <2>3 DEF CallOK, Roles, Fresh, Leaked
  <2>4. CASE req[r].role = b
        BY <2>1, <2>2, <2>4 DEF CallOK, Calls, Fresh, Leaked
  <2> QED BY <2>3, <2>4
<1> QED BY <1>1, InvHolds, PTL

\* A fallback is tried only where the primary's row and its outcome call for it.
THEOREM FallbackIsJustified == Spec => []FallbackJustified
<1>1. IInv => FallbackJustified
      BY DEF IInv, Justified, FallbackJustified
<1> QED BY <1>1, InvHolds, PTL

-------------------------------------------------------------------------------
(* The promise *)

\* Whoever is still on the way to an answer has none.
Unanswered == {"idle", "lookup", "body", "cache", "send", "upstream", "store", "fallback"}

AnswerOK(r) == req[r].pc \in Unanswered => req[r].answer = "none"

\* A step of r leaves the call x as it is.
Alone(r) == \A x \in Requests \ {r} : req'[x] = req[x] /\ attempt'[x] = attempt[x]

LEMMA CallAlone ==
    ASSUME IInv, NEW r \in Requests, Call(r)
    PROVE  Alone(r)
<1> USE DEF Alone
<1>1. req \in [Requests -> Calls] /\ attempt \in [Requests -> [Roles -> Attempts]]
      BY DEF IInv, TypeOK
<1>2. ASSUME NEW slug \in Slugs, NEW k \in Keys, NEW body \in Bodies, Arrive(r, slug, k, body)
      PROVE  Alone(r)
      BY <1>1, <1>2 DEF Arrive
<1>3. CASE Lookup(r)
      BY <1>1, <1>3 DEF Lookup, Begin
<1>4. ASSUME NEW result, NEW kind, NEW reply, Settle(r, result, kind, reply) PROVE Alone(r)
      BY <1>1, <1>4 DEF Settle
<1>5. CASE CacheHit(r) \/ Store(r) \/ Crash(r) \/ LoseBody(r) \/ Fail(r)
      BY <1>4, <1>5 DEF CacheHit, Store, Crash, LoseBody, Fail, Respond
<1>6. CASE ReadBody(r) \/ CacheMiss(r) \/ Send(r) \/ StartStream(r) \/ EndStream(r) \/ ClientGone(r)
      BY <1>1, <1>6 DEF ReadBody, CacheMiss, Send, StartStream, EndStream, ClientGone
<1>7. ASSUME NEW reply \in Replies, ReplyPlain(r, reply) \/ ReplyStream(r, reply)
      PROVE  Alone(r)
      BY <1>1, <1>4, <1>7 DEF ReplyPlain, ReplyStream, KeepReply, PassReply, Respond
<1>8. CASE LoadFallback(r)
      BY <1>1, <1>8 DEF LoadFallback, Begin
<1> QED BY <1>2, <1>3, <1>5, <1>6, <1>7, <1>8 DEF Call, Bounded, Outside

\* How a call is answered: not at all as long as it goes on.
LEMMA AnswerKept ==
    ASSUME IInv, NEW r \in Requests, AnswerOK(r), Call(r)
    PROVE  AnswerOK(r)'
<1>1. /\ req \in [Requests -> Calls] /\ req[r] \in Calls
      /\ attempt \in [Requests -> [Roles -> Attempts]]
      BY DEF IInv, TypeOK
<1>2. ASSUME NEW a, req[r].answer = "none"
      PROVE  /\ Proceed(req[r], a).pc \in Unanswered => Proceed(req[r], a).answer = "none"
             /\ Deliver(req[r], a).pc \notin Unanswered
      BY <1>1, <1>2 DEF Proceed, Deliver, Calls, Unanswered
<1>3. ASSUME NEW slug \in Slugs, NEW k \in Keys, NEW body \in Bodies,
             Arrive(r, slug, k, body)
      PROVE  AnswerOK(r)'
  <2> DEFINE q == [req[r] EXCEPT !.pc = "lookup", !.slug = slug, !.key = k, !.body = body]
  <2>1. req[r].answer = "none"
        BY <1>3 DEF AnswerOK, Unanswered, Arrive
  <2>2. q.answer = "none" /\ Refused(q).pc = "done"
        BY <1>1, <2>1 DEF Calls, Refused
  <2>3. req'[r] \in {q, Refused(q)}
        BY <1>1, <1>3 DEF Arrive
  <2> HIDE DEF q
  <2> QED BY <2>2, <2>3 DEF AnswerOK, Unanswered
<1>4. CASE Lookup(r)
  <2>1. req[r].answer = "none"
        BY <1>4 DEF AnswerOK, Unanswered, Lookup
  <2>2. ASSUME NEW x, Begin(r, x, "primary") PROVE AnswerOK(r)'
        BY <1>1, <2>1, <2>2 DEF Begin, AnswerOK, Calls
  <2>3. CASE req' = [req EXCEPT ![r] = Refused(req[r])]
        BY <1>1, <2>3 DEF Refused, AnswerOK, Calls, Unanswered
  <2> QED BY <1>4, <2>2, <2>3 DEF Lookup
<1>5. ASSUME NEW result, NEW kind, NEW reply, Settle(r, result, kind, reply),
             req[r].pc \in Unanswered
      PROVE  AnswerOK(r)'
  <2> DEFINE a == [Current(r) EXCEPT !.result = result, !.kind = kind, !.reply = reply]
  <2>1. req'[r] = Proceed(req[r], a)
        BY <1>1, <1>5 DEF Settle
  <2> HIDE DEF a
  <2> QED BY <1>2, <1>5, <2>1 DEF AnswerOK
<1>6. CASE CacheHit(r) \/ Store(r) \/ Crash(r) \/ LoseBody(r) \/ Fail(r)
      BY <1>5, <1>6 DEF CacheHit, Store, Crash, LoseBody, Fail, Respond, Unanswered
<1>7. CASE ReadBody(r) \/ CacheMiss(r) \/ Send(r)
      BY <1>1, <1>7 DEF ReadBody, CacheMiss, Send, AnswerOK, Calls, Unanswered
<1>9. ASSUME NEW reply \in Replies, ReplyPlain(r, reply) \/ ReplyStream(r, reply)
      PROVE  AnswerOK(r)'
  <2>1. req[r].pc \in Unanswered
        BY <1>9 DEF ReplyPlain, ReplyStream, Unanswered
  <2>2. CASE KeepReply(r, reply)
        BY <1>1, <2>1, <2>2 DEF KeepReply, AnswerOK, Calls
  <2>3. CASE PassReply(r, reply) \/ Respond(r, reply, "stream")
        BY <1>5, <2>1, <2>3 DEF PassReply, Respond
  <2> QED BY <1>9, <2>2, <2>3 DEF ReplyPlain, ReplyStream
<1>10. CASE LoadFallback(r)
  <2>1. req[r].pc \in Unanswered /\ req[r].answer = "none"
        BY <1>10 DEF LoadFallback, Unanswered, AnswerOK
  <2>2. CASE Live(Current(r).row.fallback)
        BY <1>1, <1>10, <2>1, <2>2 DEF LoadFallback, Begin, AnswerOK, Calls
  <2>3. CASE ~Live(Current(r).row.fallback)
        BY <1>1, <1>2, <1>10, <2>1, <2>3 DEF LoadFallback, AnswerOK
  <2> QED BY <2>2, <2>3
<1>11. CASE StartStream(r) \/ EndStream(r) \/ ClientGone(r)
      BY <1>1, <1>11 DEF StartStream, EndStream, ClientGone, AnswerOK, Calls, Unanswered
<1> QED BY <1>3, <1>4, <1>6, <1>7, <1>9, <1>10, <1>11 DEF Call, Bounded, Outside

PromiseInv == IInv /\ \A r \in Requests : AnswerOK(r)

LEMMA PromiseInvHolds == Spec => []PromiseInv
<1>1. Init => PromiseInv
      BY InitHolds DEF Init, PromiseInv, AnswerOK, NoCall
<1>2. PromiseInv /\ [Next]_vars => PromiseInv'
  <2> SUFFICES ASSUME PromiseInv, [Next]_vars, NEW x \in Requests PROVE AnswerOK(x)'
      BY NextHolds DEF PromiseInv
  <2>1. ASSUME NEW r \in Requests, Call(r) PROVE AnswerOK(x)'
    <3>1. CASE x = r
          BY <2>1, <3>1, AnswerKept DEF PromiseInv
    <3>2. CASE x # r
          BY <2>1, <3>2, CallAlone DEF PromiseInv, Alone, AnswerOK
    <3> QED BY <3>1, <3>2
  <2>2. CASE Restart
    <3>1. req[x] \in Calls
          BY DEF PromiseInv, IInv, TypeOK
    <3>2. CASE req[x].pc = "idle"
          BY <2>2, <3>2 DEF Restart, PromiseInv, AnswerOK
    <3>3. CASE req[x].pc # "idle"
      <4>1. req'[x].pc = "lost"
            BY <2>2, <3>1, <3>3 DEF Restart, Calls
      <4> QED BY <4>1 DEF AnswerOK, Unanswered
    <3> QED BY <3>2, <3>3
  <2>3. CASE UNCHANGED req
        BY <2>3 DEF PromiseInv, AnswerOK
  <2>4. ASSUME (\E l \in tasks : WriteLog(l)) \/ (\E e \in Slugs \X Bodies : Expire(e))
                 \/ Administer \/ UNCHANGED vars
        PROVE  UNCHANGED req
        BY <2>4 DEF WriteLog, Expire, Administer, EditService, DeleteService, ToggleKey, vars
  <2> QED BY <2>1, <2>2, <2>3, <2>4 DEF Next
<1> QED BY <1>1, <1>2, PTL DEF Spec

-------------------------------------------------------------------------------
(* Each step of the code against those of ProxyPromise *)

LEMMA Alphabet == "primary" \in Roles /\ "fallback" \in Roles
BY DEF Roles

\* What one call does, seen from the promise.
LEMMA OthersTries ==
    ASSUME NEW r \in Requests, Alone(r)
    PROVE  /\ [x \in Requests |-> Try(x, "primary")]'
                = [[x \in Requests |-> Try(x, "primary")] EXCEPT ![r] = Try(r, "primary")']
           /\ [x \in Requests |-> Try(x, "fallback")]'
                = [[x \in Requests |-> Try(x, "fallback")] EXCEPT ![r] = Try(r, "fallback")']
           /\ [x \in Requests |-> req[x].answer]'
                = [[x \in Requests |-> req[x].answer] EXCEPT ![r] = req'[r].answer]
<1>1. \A x \in Requests \ {r}, b \in Roles : Try(x, b)' = Try(x, b)
      BY DEF Alone, Try, Verdict
<1>2. \A x \in Requests \ {r} : req'[x].answer = req[x].answer
      BY DEF Alone
<1> QED BY <1>1, <1>2, Alphabet

LEMMA Unseen ==
    ASSUME NEW r \in Requests, Alone(r), attempt'[r] = attempt[r],
           req'[r].answer = req[r].answer
    PROVE  UNCHANGED Promise!vars
<1>1. \A b \in Roles : Try(r, b)' = Try(r, b)
      BY DEF Try, Verdict
<1>2. \A x \in Requests, b \in Roles : Try(x, b)' = Try(x, b)
      BY <1>1 DEF Alone, Try, Verdict
<1>3. \A x \in Requests : req'[x].answer = req[x].answer
      BY DEF Alone
<1> QED BY <1>2, <1>3, Alphabet DEF Promise!vars

LEMMA RefuseMaps ==
    ASSUME NEW r \in Requests, Alone(r), Fresh(r, "primary"), attempt'[r] = attempt[r],
           req[r].answer = "none", req'[r].answer = "refused"
    PROVE  Promise!Refuse(r)
<1>1. Try(r, "primary") = Promise!Untried
      BY DEF Fresh, Try, Verdict, NoAttempt, Promise!Untried
<1>2. \A b \in Roles : Try(r, b)' = Try(r, b)
      BY DEF Try, Verdict
<1>3. \A x \in Requests, b \in Roles : Try(x, b)' = Try(x, b)
      BY <1>2 DEF Alone, Try, Verdict
<1>4. /\ [x \in Requests |-> Try(x, "primary")]' = [x \in Requests |-> Try(x, "primary")]
      /\ [x \in Requests |-> Try(x, "fallback")]' = [x \in Requests |-> Try(x, "fallback")]
      BY <1>3, Alphabet
<1>5. [x \in Requests |-> req[x].answer]'
        = [[x \in Requests |-> req[x].answer] EXCEPT ![r] = "refused"]
      BY OthersTries
<1>6. /\ [x \in Requests |-> Try(x, "primary")][r] = Promise!Untried
      /\ [x \in Requests |-> req[x].answer][r] = "none"
      BY <1>1
<1> QED BY <1>4, <1>5, <1>6 DEF Promise!Refuse, Promise!Answer, Promise!Open

\* A handle() begins: the first, or after one that failed the second.
LEMMA BeginMaps ==
    ASSUME TypeOK, NEW r \in Requests, Alone(r), NEW s \in Services, NEW b \in Roles,
           req[r].answer = "none", Fresh(r, b), Begin(r, s, b),
           b = "fallback" => Verdict(attempt[r]["primary"]) \in {"bad", "raised"}
    PROVE  Promise!Next
<1>1. /\ attempt'[r][b] = [svc |-> s, row |-> table[s], reply |-> None,
                           result |-> "pending", kind |-> "none"]
      /\ \A c \in Roles \ {b} : attempt'[r][c] = attempt[r][c]
      /\ req'[r].answer = req[r].answer
      BY DEF Begin, TypeOK, Calls
<1>2. /\ Try(r, b) = Promise!Untried /\ Try(r, b)' = [svc |-> s, result |-> "pending"]
      /\ \A c \in Roles \ {b} : Try(r, c)' = Try(r, c)
      BY <1>1 DEF Fresh, Try, Verdict, NoAttempt, Promise!Untried
<1>3. [x \in Requests |-> req[x].answer]' = [x \in Requests |-> req[x].answer]
      BY <1>1 DEF Alone
<1>4. [x \in Requests |-> req[x].answer][r] = "none"
      OBVIOUS
<1>5. CASE b = "primary"
  <2>1. /\ [x \in Requests |-> Try(x, "primary")]'
             = [[x \in Requests |-> Try(x, "primary")]
                   EXCEPT ![r] = [svc |-> s, result |-> "pending"]]
        /\ [x \in Requests |-> Try(x, "primary")][r] = Promise!Untried
        BY <1>2, <1>5, OthersTries
  <2>2. [x \in Requests |-> Try(x, "fallback")]' = [x \in Requests |-> Try(x, "fallback")]
        BY <1>2, <1>5, Alphabet, OthersTries
  <2>3. Promise!TryFirst(r, s)
        BY <1>3, <1>4, <2>1, <2>2 DEF Promise!TryFirst, Promise!Open
  <2> QED BY <2>3 DEF Promise!Next
<1>6. CASE b = "fallback"
  <2>1. /\ [x \in Requests |-> Try(x, "fallback")]'
             = [[x \in Requests |-> Try(x, "fallback")]
                   EXCEPT ![r] = [svc |-> s, result |-> "pending"]]
        /\ [x \in Requests |-> Try(x, "fallback")][r] = Promise!Untried
        BY <1>2, <1>6, OthersTries
  <2>2. [x \in Requests |-> Try(x, "primary")]' = [x \in Requests |-> Try(x, "primary")]
        BY <1>2, <1>6, Alphabet, OthersTries
  <2>3. [x \in Requests |-> Try(x, "primary")][r].result \in {"bad", "raised"}
        BY <1>6 DEF Try
  <2>4. Promise!TrySecond(r, s)
        BY <1>3, <1>4, <2>1, <2>2, <2>3 DEF Promise!TrySecond, Promise!Open
  <2> QED BY <2>4 DEF Promise!Next
<1> QED BY <1>5, <1>6 DEF Roles

\* An attempt that is over has a verdict, raised if it has raised.
LEMMA Judged ==
    ASSUME NEW a, a.result \in Over
    PROVE  /\ Verdict(a) \in {"good", "bad", "raised"}
           /\ Verdict(a) = "raised" <=> a.result = "raised"
BY Literals DEF Verdict, Over

\* What goes out is the outcome of the attempt, if anything does.
LEMMA Outcomes ==
    ASSUME NEW q \in Calls, NEW a, a.result \in Over
    PROVE  /\ Deliver(q, a).answer = Promise!Outcome(q.role, Verdict(a))
           /\ Proceed(q, a).answer \in {q.answer, Promise!Outcome(q.role, Verdict(a))}
<1>1. Deliver(q, a).answer = Promise!Outcome(q.role, Verdict(a))
      BY Judged DEF Deliver, Calls, Promise!Outcome
<1>2. Proceed(q, a) = Deliver(q, a) \/ Proceed(q, a).answer = q.answer
      BY DEF Proceed, Calls
<1> QED BY <1>1, <1>2

\* The attempt in progress ends, and its answer may go out.
LEMMA SettleMaps ==
    ASSUME TypeOK, NEW r \in Requests, Alone(r), NEW b \in Roles, NEW a,
           req[r].answer = "none", Begun(r, b), a.result \in Over,
           attempt'[r][b] = a, a.svc = attempt[r][b].svc,
           \A c \in Roles \ {b} : attempt'[r][c] = attempt[r][c],
           req'[r].answer \in {"none", Promise!Outcome(b, Verdict(a))}
    PROVE  Promise!Next
<1> DEFINE result == Verdict(a)
<1>1. result \in {"good", "bad", "raised"}
      BY Judged
<1>2. /\ Try(r, b).result = "pending" /\ Try(r, b)' = [Try(r, b) EXCEPT !.result = result]
      /\ \A c \in Roles \ {b} : Try(r, c)' = Try(r, c)
      BY DEF Begun, Try, Verdict
<1>2a. \A x \in Requests, c \in Roles : c # b => Try(x, c)' = Try(x, c)
  <2> SUFFICES ASSUME NEW x \in Requests, NEW c \in Roles, c # b PROVE Try(x, c)' = Try(x, c)
      OBVIOUS
  <2>1. attempt'[x][c] = attempt[x][c]
        BY DEF Alone
  <2> QED BY <2>1 DEF Try, Verdict
<1>3. [x \in Requests |-> req[x].answer][r] = "none"
      OBVIOUS
<1> DEFINE answers == [x \in Requests |-> req[x].answer]
<1>4. answers' \in {answers, [answers EXCEPT ![r] = Promise!Outcome(b, result)]}
  <2>1. answers' = [answers EXCEPT ![r] = req'[r].answer]
        BY OthersTries
  <2>2. CASE req'[r].answer = "none"
        BY <1>3, <2>1, <2>2
  <2>3. CASE req'[r].answer = Promise!Outcome(b, result)
        BY <2>1, <2>3
  <2> QED BY <2>2, <2>3
<1> HIDE DEF result
<1>5. CASE b = "primary"
  <2>1. /\ [x \in Requests |-> Try(x, "primary")]'
             = [[x \in Requests |-> Try(x, "primary")] EXCEPT ![r].result = result]
        /\ [x \in Requests |-> Try(x, "primary")][r].result = "pending"
        BY <1>2, <1>5, OthersTries
  <2>2. [x \in Requests |-> Try(x, "fallback")]' = [x \in Requests |-> Try(x, "fallback")]
        BY <1>2a, <1>5, Alphabet
  <2>3. Promise!SettleFirst(r, result)
        BY <1>3, <1>4, <1>5, <2>1, <2>2 DEF Promise!SettleFirst, Promise!Open
  <2> QED BY <1>1, <2>3 DEF Promise!Next
<1>6. CASE b = "fallback"
  <2>1. /\ [x \in Requests |-> Try(x, "fallback")]'
             = [[x \in Requests |-> Try(x, "fallback")] EXCEPT ![r].result = result]
        /\ [x \in Requests |-> Try(x, "fallback")][r].result = "pending"
        BY <1>2, <1>6, OthersTries
  <2>2. [x \in Requests |-> Try(x, "primary")]' = [x \in Requests |-> Try(x, "primary")]
        BY <1>2a, <1>6, Alphabet
  <2>3. Promise!SettleSecond(r, result)
        BY <1>3, <1>4, <1>6, <2>1, <2>2 DEF Promise!SettleSecond, Promise!Open
  <2> QED BY <1>1, <2>3 DEF Promise!Next
<1> QED BY <1>5, <1>6 DEF Roles

\* An attempt was over already, and its answer goes out now.
LEMMA DeliverMaps ==
    ASSUME TypeOK, NEW r \in Requests, Alone(r), NEW b \in Roles,
           req[r].answer = "none", Closed(r, b), b = "primary" => Fresh(r, "fallback"),
           attempt'[r] = attempt[r],
           req'[r].answer = Promise!Outcome(b, Verdict(attempt[r][b]))
    PROVE  Promise!Next
<1>1. \A c \in Roles : Try(r, c)' = Try(r, c)
      BY DEF Try, Verdict
<1>2. /\ [x \in Requests |-> Try(x, "primary")]' = [x \in Requests |-> Try(x, "primary")]
      /\ [x \in Requests |-> Try(x, "fallback")]' = [x \in Requests |-> Try(x, "fallback")]
      BY <1>1, Alphabet, OthersTries
<1>3. /\ [x \in Requests |-> req[x].answer]'
           = [[x \in Requests |-> req[x].answer] EXCEPT ![r] = Promise!Outcome(b, Try(r, b).result)]
      /\ [x \in Requests |-> req[x].answer][r] = "none"
      BY OthersTries DEF Try
<1>4. Try(r, b).result \in {"good", "bad", "raised"}
      BY Judged DEF Try, Closed
<1>5. CASE b = "primary"
  <2>1. Try(r, "fallback") = Promise!Untried
        BY <1>5 DEF Fresh, Try, Verdict, NoAttempt, Promise!Untried
  <2>2. Promise!AnswerFirst(r)
        BY <1>2, <1>3, <1>4, <1>5, <2>1 DEF Promise!AnswerFirst, Promise!Answer, Promise!Open
  <2> QED BY <2>2 DEF Promise!Next
<1>6. CASE b = "fallback"
  <2>1. Promise!AnswerSecond(r)
        BY <1>2, <1>3, <1>4, <1>6 DEF Promise!AnswerSecond, Promise!Answer, Promise!Open
  <2> QED BY <2>1 DEF Promise!Next
<1> QED BY <1>5, <1>6 DEF Roles
\* A crash loses what has no answer yet.
LEMMA LoseMaps == ASSUME TypeOK, Restart PROVE Promise!Lose
<1> DEFINE answers == [x \in Requests |-> req[x].answer]
<1>1. /\ \A x \in Requests, b \in Roles : Try(x, b)' = Try(x, b)
      BY DEF Restart, Try, Verdict
<1>2. /\ [x \in Requests |-> Try(x, "primary")]' = [x \in Requests |-> Try(x, "primary")]
      /\ [x \in Requests |-> Try(x, "fallback")]' = [x \in Requests |-> Try(x, "fallback")]
      BY <1>1, Alphabet
<1>3. ASSUME NEW x \in Requests
      PROVE  /\ req'[x].answer \in Promise!Answers
             /\ req'[x].answer # req[x].answer => req[x].answer = "none" /\ req'[x].answer = "lost"
  <2>1. req[x] \in Calls
        BY DEF TypeOK
  <2>2. CASE req[x].pc = "idle"
        BY <2>1, <2>2 DEF Restart, Calls, Promise!Answers
  <2>3. CASE req[x].pc # "idle"
    <3>1. req'[x].answer = IF req[x].answer = "none" THEN "lost" ELSE req[x].answer
          BY <2>1, <2>3 DEF Restart, Calls
    <3> QED BY <2>1, <3>1 DEF Calls, Promise!Answers
  <2> QED BY <2>2, <2>3
<1>4. answers' \in [Requests -> Promise!Answers]
      BY <1>3
<1>5. \A x \in Requests : answers'[x] # answers[x] => answers[x] = "none" /\ answers'[x] = "lost"
      BY <1>3
<1> QED BY <1>2, <1>4, <1>5 DEF Promise!Lose, Promise!Open

LEMMA InitMaps == Init => Promise!Init
<1> SUFFICES ASSUME Init PROVE Promise!Init
    OBVIOUS
<1>1. \A x \in Requests, b \in Roles : Try(x, b) = Promise!Untried
      BY DEF Init, Try, Verdict, NoAttempt, Promise!Untried
<1>2. \A x \in Requests : req[x].answer = "none"
      BY DEF Init, NoCall
<1> QED BY <1>1, <1>2, Alphabet DEF Promise!Init

\* The end of handle(), seen from the promise.
LEMMA SettleStep ==
    ASSUME IInv, NEW r \in Requests, AnswerOK(r), Alone(r),
           req[r].pc \in Unanswered, Begun(r, req[r].role),
           NEW result \in Over, NEW kind, NEW reply, Settle(r, result, kind, reply)
    PROVE  Promise!Next
<1> DEFINE b == req[r].role
           a == [Current(r) EXCEPT !.result = result, !.kind = kind, !.reply = reply]
<1>1. /\ req[r] \in Calls /\ b \in Roles /\ req[r].answer = "none" /\ TypeOK
      /\ Current(r) \in Attempts /\ Current(r) = attempt[r][b]
      BY DEF IInv, TypeOK, Calls, AnswerOK, Current
<1>2. a.result = result /\ a.svc = attempt[r][b].svc
      BY <1>1 DEF Attempts
<1>3. attempt'[r][b] = a /\ \A c \in Roles \ {b} : attempt'[r][c] = attempt[r][c]
      BY <1>1 DEF Settle, TypeOK
<1>4. req'[r] = Proceed(req[r], a)
      BY <1>1 DEF Settle, TypeOK
<1> HIDE DEF a
<1>5. req'[r].answer \in {"none", Promise!Outcome(b, Verdict(a))}
      BY <1>1, <1>2, <1>4, Outcomes
<1>6. Begun(r, b)
      OBVIOUS
<1> HIDE DEF b
<1> QED BY <1>1, <1>2, <1>3, <1>5, <1>6, SettleMaps

LEMMA LoadFallbackMaps ==
    ASSUME IInv, NEW r \in Requests, AnswerOK(r), Alone(r), LoadFallback(r)
    PROVE  Promise!Next
<1> DEFINE a == attempt[r]["primary"]
<1>1. /\ req[r] \in Calls /\ req[r].answer = "none" /\ TypeOK /\ CallOK(r)
      /\ req[r].pc = "fallback" /\ req[r].role \in Roles
      BY DEF IInv, TypeOK, Calls, AnswerOK, LoadFallback, Unanswered
<1>2. /\ req[r].role = "primary" /\ Closed(r, "primary") /\ Fresh(r, "fallback")
      /\ NeedsFallback(req[r], a) /\ Current(r) = a
      BY <1>1 DEF CallOK, NeedsFallback, Current
<1>3. a.row.fallback \in Services
      BY <1>2 DEF Closed, Rows, NeedsFallback
<1>4. Verdict(a) \in {"bad", "raised"}
      BY <1>2, Literals DEF NeedsFallback, Closed, Verdict, Over
<1>5. CASE Live(a.row.fallback)
  <2>1. Begin(r, a.row.fallback, "fallback")
        BY <1>2, <1>5 DEF LoadFallback
  <2> QED BY <1>1, <1>2, <1>3, <1>4, <2>1, Alphabet, BeginMaps
<1>6. CASE ~Live(a.row.fallback)
  <2>1. req'[r] = Deliver(req[r], a) /\ attempt'[r] = attempt[r]
        BY <1>1, <1>2, <1>6 DEF LoadFallback, TypeOK
  <2>2. req'[r].answer = Promise!Outcome("primary", Verdict(a))
        BY <1>1, <1>2, <2>1, Outcomes DEF Closed
  <2> QED BY <1>1, <1>2, <2>1, <2>2, Alphabet, DeliverMaps
<1> QED BY <1>5, <1>6

LEMMA LookupMaps ==
    ASSUME IInv, NEW r \in Requests, AnswerOK(r), Alone(r), Lookup(r)
    PROVE  Promise!Next
<1>1. req[r] \in Calls /\ req[r].answer = "none" /\ TypeOK /\ Fresh(r, "primary")
      BY DEF IInv, TypeOK, CallOK, AnswerOK, Lookup, Unanswered
<1>2. ASSUME NEW s \in Services, Begin(r, s, "primary") PROVE Promise!Next
      BY <1>1, <1>2, Alphabet, BeginMaps
<1>3. CASE req' = [req EXCEPT ![r] = Refused(req[r])] /\ UNCHANGED attempt
  <2>1. attempt'[r] = attempt[r] /\ req'[r] = Refused(req[r])
        BY <1>1, <1>3 DEF TypeOK
  <2>2. req'[r].answer = "refused"
        BY <1>1, <2>1 DEF Refused, Calls
  <2>3. Promise!Refuse(r)
        BY <1>1, <2>1, <2>2, RefuseMaps
  <2> QED BY <2>3 DEF Promise!Next
<1> QED BY <1>2, <1>3 DEF Lookup, Named

LEMMA ArriveMaps ==
    ASSUME IInv, NEW r \in Requests, AnswerOK(r), Alone(r),
           NEW slug \in Slugs, NEW k \in Keys, NEW body \in Bodies, Arrive(r, slug, k, body)
    PROVE  Promise!Next \/ UNCHANGED Promise!vars
<1> DEFINE q == [req[r] EXCEPT !.pc = "lookup", !.slug = slug, !.key = k, !.body = body]
<1>1. /\ req[r] \in Calls /\ req[r].answer = "none" /\ TypeOK /\ Fresh(r, "primary")
      BY DEF IInv, TypeOK, CallOK, AnswerOK, Arrive, Unanswered
<1>2. q.answer = "none" /\ Refused(q).answer = "refused"
      BY <1>1 DEF Refused, Calls
<1>3. req'[r] \in {q, Refused(q)} /\ attempt'[r] = attempt[r]
      BY <1>1 DEF Arrive, TypeOK
<1> HIDE DEF q
<1>4. CASE req'[r] = q
      BY <1>1, <1>2, <1>3, <1>4, Unseen
<1>5. CASE req'[r] = Refused(q)
      BY <1>1, <1>2, <1>3, <1>5, RefuseMaps DEF Promise!Next
<1> QED BY <1>3, <1>4, <1>5

\* What a call does between these is not seen at all,
LEMMA QuietMaps ==
    ASSUME IInv, NEW r \in Requests, Alone(r),
           \/ ReadBody(r) \/ CacheMiss(r) \/ Send(r)
           \/ StartStream(r) \/ EndStream(r) \/ ClientGone(r)
    PROVE  UNCHANGED Promise!vars
<1>1. req \in [Requests -> Calls] /\ req[r] \in Calls
      BY DEF IInv, TypeOK
<1>2. attempt'[r] = attempt[r] /\ req'[r].answer = req[r].answer
      BY <1>1 DEF ReadBody, CacheMiss, Send, StartStream, EndStream, ClientGone, Calls
<1> QED BY <1>2, Unseen

\* nor that an answer goes to the cache before it goes out.
LEMMA KeepMaps ==
    ASSUME IInv, NEW r \in Requests, Alone(r), NEW reply, KeepReply(r, reply)
    PROVE  UNCHANGED Promise!vars
<1> DEFINE b == req[r].role
<1>1. /\ req \in [Requests -> Calls] /\ req[r] \in Calls /\ b \in Roles
      /\ attempt \in [Requests -> [Roles -> Attempts]] /\ Current(r) = attempt[r][b]
      BY DEF IInv, TypeOK, Calls, Current
<1>2. /\ attempt'[r][b] = [attempt[r][b] EXCEPT !.kind = "plain", !.reply = reply]
      /\ \A c \in Roles \ {b} : attempt'[r][c] = attempt[r][c]
      /\ req'[r].answer = req[r].answer
      BY <1>1 DEF KeepReply, Calls
<1>3. /\ attempt'[r][b].svc = attempt[r][b].svc /\ attempt'[r][b].row = attempt[r][b].row
      /\ attempt'[r][b].result = attempt[r][b].result
      BY <1>1, <1>2 DEF Attempts
<1>4. \A c \in Roles : Try(r, c)' = Try(r, c)
      BY <1>2, <1>3 DEF Try, Verdict
<1>5. \A x \in Requests, c \in Roles : Try(x, c)' = Try(x, c)
      BY <1>4 DEF Alone, Try, Verdict
<1>6. \A x \in Requests : req'[x].answer = req[x].answer
      BY <1>2 DEF Alone
<1> QED BY <1>5, <1>6, Alphabet DEF Promise!vars

LEMMA HandleMaps ==
    ASSUME IInv, NEW r \in Requests, AnswerOK(r), Alone(r),
           \/ CacheHit(r) \/ Crash(r) \/ LoseBody(r) \/ Fail(r) \/ Store(r)
           \/ \E reply \in Replies : ReplyPlain(r, reply) \/ ReplyStream(r, reply)
    PROVE  Promise!Next \/ UNCHANGED Promise!vars
<1>1. req[r].pc \in {"body", "cache", "send", "upstream", "store"}
      BY DEF CacheHit, Crash, LoseBody, Fail, Store, ReplyPlain, ReplyStream
<1>2. req[r].pc \in Unanswered /\ Begun(r, req[r].role)
      BY <1>1 DEF Unanswered, IInv, TypeOK, CallOK, Pending, Kept
<1>3. ASSUME NEW result \in Over, NEW kind, NEW reply, Settle(r, result, kind, reply)
      PROVE  Promise!Next
      BY <1>2, <1>3, SettleStep
<1>4. ASSUME NEW reply \in Replies, NEW kind, Respond(r, reply, kind) PROVE Promise!Next
      BY <1>3, <1>4, Outcome DEF Respond
<1>5. CASE CacheHit(r)
  <2>1. cache[CacheKey(r)] \in Replies
        BY <1>5, InProgress, Literals DEF CacheHit
  <2> QED BY <1>4, <1>5, <2>1 DEF CacheHit
<1>6. CASE Crash(r) \/ LoseBody(r) \/ Fail(r)
      BY <1>3, <1>6 DEF Crash, LoseBody, Fail, Over
<1>7. CASE Store(r)
  <2>1. Current(r).reply \in Replies
        BY <1>7, Literals DEF Store, IInv, TypeOK, CallOK, Kept, Current
  <2> QED BY <1>4, <1>7, <2>1 DEF Store
<1>8. ASSUME NEW reply \in Replies, ReplyStream(r, reply) PROVE Promise!Next
      BY <1>4, <1>8 DEF ReplyStream
<1>9. ASSUME NEW reply \in Replies, ReplyPlain(r, reply)
      PROVE  Promise!Next \/ UNCHANGED Promise!vars
      BY <1>4, <1>9, KeepMaps DEF ReplyPlain, PassReply
<1> QED BY <1>5, <1>6, <1>7, <1>8, <1>9

\* Each step of the request path is a step of the promise, or is not seen by it.
LEMMA StepMaps == PromiseInv /\ [Next]_vars => [Promise!Next]_(Promise!vars)
<1> SUFFICES ASSUME PromiseInv, [Next]_vars PROVE Promise!Next \/ UNCHANGED Promise!vars
    OBVIOUS
<1>1. IInv /\ TypeOK
      BY DEF PromiseInv, IInv
<1>2. ASSUME NEW r \in Requests, Call(r) PROVE Promise!Next \/ UNCHANGED Promise!vars
  <2>1. Alone(r) /\ AnswerOK(r)
        BY <1>1, <1>2, CallAlone DEF PromiseInv
  <2>2. ASSUME NEW slug \in Slugs, NEW k \in Keys, NEW body \in Bodies,
               Arrive(r, slug, k, body)
        PROVE  Promise!Next \/ UNCHANGED Promise!vars
        BY <1>1, <2>1, <2>2, ArriveMaps
  <2>3. CASE Lookup(r)
        BY <1>1, <2>1, <2>3, LookupMaps
  <2>4. CASE \/ CacheHit(r) \/ Crash(r) \/ LoseBody(r) \/ Fail(r) \/ Store(r)
             \/ \E reply \in Replies : ReplyPlain(r, reply) \/ ReplyStream(r, reply)
        BY <1>1, <2>1, <2>4, HandleMaps
  <2>6. CASE LoadFallback(r)
        BY <1>1, <2>1, <2>6, LoadFallbackMaps
  <2>7. CASE \/ ReadBody(r) \/ CacheMiss(r) \/ Send(r)
             \/ StartStream(r) \/ EndStream(r) \/ ClientGone(r)
        BY <1>1, <2>1, <2>7, QuietMaps
  <2> QED BY <1>2, <2>2, <2>3, <2>4, <2>6, <2>7 DEF Call, Bounded, Outside
<1>3. CASE Restart
      BY <1>1, <1>3, LoseMaps DEF Promise!Next
<1>4. CASE UNCHANGED <<req, attempt>>
      BY <1>4 DEF Promise!vars, Try, Verdict
<1>5. ASSUME (\E l \in tasks : WriteLog(l)) \/ (\E e \in Slugs \X Bodies : Expire(e))
               \/ Administer \/ UNCHANGED vars
      PROVE  UNCHANGED <<req, attempt>>
      BY <1>5 DEF WriteLog, Expire, Administer, EditService, DeleteService, ToggleKey, vars
<1> QED BY <1>2, <1>3, <1>4, <1>5 DEF Next

\* The request path keeps its promise: the client is answered at most once, after at
\* most two attempts, with the outcome of the last (proxy_request and handle()).
THEOREM PromiseKept == Spec => KeepsPromise
BY InitMaps, PromiseInvHolds, StepMaps, PTL DEF Spec, KeepsPromise, Promise!Spec

\* No handle() begins for a service that is gone or switched off at that moment: each
\* of the two loads of proxy_request looks at the row it has just read.
THEOREM BeginsLive == Spec => StartsLive
<1>1. IInv /\ [Next]_vars =>
        [\A r \in Requests, b \in Roles :
           attempt[r][b].svc = None /\ attempt'[r][b].svc # None => Live(attempt'[r][b].svc)]_vars
  <2> SUFFICES ASSUME IInv, [Next]_vars, NEW x \in Requests, NEW b \in Roles,
                      attempt[x][b].svc = None, attempt'[x][b].svc # None
               PROVE  Live(attempt'[x][b].svc)
      OBVIOUS
  <2>1. attempt \in [Requests -> [Roles -> Attempts]]
        BY DEF IInv, TypeOK
  <2>2. ASSUME NEW s, NEW role \in Roles, NEW r \in Requests, Live(s), Begin(r, s, role)
        PROVE  Live(attempt'[x][b].svc)
    <3>1. CASE x = r /\ b = role
          BY <2>1, <2>2, <3>1 DEF Begin
    <3>2. CASE ~(x = r /\ b = role)
          BY <2>1, <2>2, <3>2 DEF Begin
    <3> QED BY <3>1, <3>2
  <2>3. ASSUME NEW r \in Requests, Call(r) PROVE Live(attempt'[x][b].svc)
    <3>1. CASE Lookup(r)
      <4>1. ASSUME NEW s \in Services, Admitted(req[r], s), Begin(r, s, "primary")
            PROVE  Live(attempt'[x][b].svc)
            BY <2>2, <4>1, Alphabet DEF Admitted
      <4> QED BY <3>1, <4>1 DEF Lookup, Named
    <3>2. CASE LoadFallback(r)
      <4>1. CASE Live(Current(r).row.fallback)
            BY <2>2, <3>2, <4>1, Alphabet DEF LoadFallback
      <4>2. CASE ~Live(Current(r).row.fallback)
            BY <3>2, <4>2 DEF LoadFallback
      <4> QED BY <4>1, <4>2
    <3>3. ASSUME NEW result, NEW kind, NEW reply, Settle(r, result, kind, reply) PROVE FALSE
      <4>1. attempt'[x][b].svc = attempt[x][b].svc
            BY <2>1, <3>3 DEF Settle, Current, Attempts
      <4> QED BY <4>1
    <3>4. CASE CacheHit(r) \/ Store(r) \/ Crash(r) \/ LoseBody(r) \/ Fail(r)
          BY <3>3, <3>4 DEF CacheHit, Store, Crash, LoseBody, Fail, Respond
    <3>5. ASSUME NEW reply \in Replies, ReplyPlain(r, reply) \/ ReplyStream(r, reply)
          PROVE  FALSE
      <4>1. CASE KeepReply(r, reply)
        <5>1. attempt'[x][b].svc = attempt[x][b].svc
              BY <2>1, <4>1 DEF KeepReply, Current, Attempts
        <5> QED BY <5>1
      <4>2. CASE PassReply(r, reply) \/ Respond(r, reply, "stream")
            BY <3>3, <4>2 DEF PassReply, Respond
      <4> QED BY <3>5, <4>1, <4>2 DEF ReplyPlain, ReplyStream
    <3>6. CASE UNCHANGED attempt
          BY <3>6
    <3> QED BY <2>3, <3>1, <3>2, <3>4, <3>5, <3>6
            DEF Call, Bounded, Outside, Arrive, ReadBody, CacheMiss, Send, StartStream,
                EndStream, ClientGone
  <2>4. ASSUME (\E l \in tasks : WriteLog(l)) \/ (\E e \in Slugs \X Bodies : Expire(e))
                 \/ Administer \/ Restart \/ UNCHANGED vars
        PROVE  UNCHANGED attempt
        BY <2>4 DEF WriteLog, Expire, Administer, EditService, DeleteService, ToggleKey, Restart, vars
  <2> QED BY <2>3, <2>4 DEF Next
<1> QED BY <1>1, InvHolds, PTL DEF Spec, StartsLive
===============================================================================
