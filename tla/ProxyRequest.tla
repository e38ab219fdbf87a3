----------------------------- MODULE ProxyRequest -----------------------------
(***************************************************************************)
(* The request path of ProxyML: proxy_request (src/api/v1/proxy.py) and     *)
(* GenericProxyHandler.handle (src/proxy/handler.py), one action per stretch *)
(* between two awaits, for several requests served at once by one process.  *)
(* They share the response cache (Redis), the upstream connection pool       *)
(* (httpx), the services table, which administrators edit meanwhile, and    *)
(* the request log, written by tasks that nobody awaits.                    *)
(*                                                                         *)
(* Data that the properties do not tell apart is left out: URLs, headers,   *)
(* sizes, durations.  Of a body only its kind counts, and requests for one   *)
(* service with bodies of one kind are the same request: they meet in the   *)
(* cache.                                                                  *)
(***************************************************************************)
EXTENDS FiniteSets, Naturals

CONSTANTS Requests,     \* calls of /proxy/{slug}/{path}
          Services,     \* ids of service rows
          Slugs,        \* names of services, unique at each moment
          Keys,         \* API keys
          Statuses,     \* upstream status codes
          Success,      \* those below 400
          KeyAllows,    \* KeyAllows[k]: allowed_services (slugs), {} for None or []
          KeyOwner,     \* owner_id of a key
          ServiceOwner, \* owner_id of a service
          Admin,        \* the seed administrator of lifespan
          Bodies,       \* the kinds of bodies that clients send
          InitTables,   \* the services tables to start from
          MaxConns,     \* max_connections of the httpx client
          MaxEdits,     \* bound: changes by administrators
          MaxLogs,      \* bound: rows written to request_logs
          MaxRestarts,  \* bound: crashes of the process
          None

Owners == {KeyOwner[k] : k \in Keys} \cup {ServiceOwner[s] : s \in Services} \cup {Admin}

\* The columns of a services row that the request path reads.
Rows == [slug      : Slugs,
         active    : BOOLEAN,                      \* is_active
         streaming : BOOLEAN,                      \* supports_streaming
         cache     : BOOLEAN,                      \* cache_enabled
         fallback  : Services \cup {None},         \* fallback_service_id
         on        : SUBSET Statuses]              \* fallback_on_statuses

Tables == [Services -> Rows \cup {None}]           \* None: no such row

\* Bodies: "stream" is a JSON object with "stream": true, "array" a JSON value that is no
\* object, "plain" everything else (objects, no body, bytes that are not JSON).

\* A response: its status, and whether its headers are odd: httpx decodes header
\* values as UTF-8, and starlette's Response raises on those that are not latin-1.
Replies == [status : Statuses, odd : BOOLEAN]

ASSUME ProxyAssumption ==
    /\ None \notin Services \cup Slugs \cup Rows \cup Replies \cup Owners
    /\ Success \subseteq Statuses
    /\ {"none", "pending", "raised"} \cap Statuses = {}
    /\ InitTables \subseteq Tables
    /\ \A t \in InitTables, s \in Services :       \* a fallback is another row of the table
          t[s] # None /\ t[s].fallback # None => t[s].fallback # s /\ t[t[s].fallback] # None
    /\ \A t \in InitTables, s1, s2 \in Services :  \* slugs are unique
          t[s1] # None /\ t[s2] # None /\ t[s1].slug = t[s2].slug => s1 = s2
    /\ Bodies \subseteq {"stream", "array", "plain"}
    /\ MaxConns \in Nat /\ MaxEdits \in Nat /\ MaxLogs \in Nat /\ MaxRestarts \in Nat

VARIABLES table,        \* the services table
          keyActive,    \* keyActive[k]: is_active and not expired
          req,          \* req[r]: locals of proxy_request
          attempt,      \* attempt[r][role]: the call of handle() in this role
          held,         \* pool connections in use, as <<request, role>>
          cache,        \* cache[slug, body]: the Redis entry, or None
          tasks,        \* _write_log tasks not yet run
          logs,         \* rows of request_logs
          spawned,      \* history: spawned[r][role], log_request_fire_and_forget calls
          edits, restarts

vars == <<table, keyActive, req, attempt, held, cache, tasks, logs, spawned, edits, restarts>>

Roles == {"primary", "fallback"}

\* How far an attempt came: nothing yet, a buffered response, a cached one, the headers
\* of a stream, an error on the way to one, or an end before anything was sent.
Kinds == {"none", "plain", "cached", "stream", "error", "crash", "gone"}

Calls == [pc     : {"idle", "lookup", "body", "cache", "send", "upstream", "store",
                    "fallback", "unread", "streaming", "gone", "done", "lost"},
          slug   : Slugs \cup {None},
          body   : Bodies \cup {None},
          key    : Keys \cup {None},
          role   : Roles,                          \* of the handle() in progress
          answer : {"none", "refused", "primary", "fallback", "error", "lost"}]

Attempts == [svc    : Services \cup {None},
             row    : Rows \cup {None},            \* the ORM object, as loaded
             reply  : Replies \cup {None},         \* what the upstream or the cache gave
             result : Statuses \cup {"none", "pending", "raised"},
             kind   : Kinds]

LogRows == [req : Requests, role : Roles, svc : Services,
            kind : {"plain", "cached", "stream", "error"}, owner : Owners \cup {None}]

Entries == [status : Success, odd : BOOLEAN]       \* only successes are stored

TypeOK == /\ table \in Tables
          /\ keyActive \in [Keys -> BOOLEAN]
          /\ req \in [Requests -> Calls]
          /\ attempt \in [Requests -> [Roles -> Attempts]]
          /\ held \subseteq Requests \X Roles
          /\ cache \in [Slugs \X Bodies -> Entries \cup {None}]
          /\ tasks \subseteq LogRows /\ logs \subseteq LogRows
          /\ spawned \in [Requests -> [Roles -> Nat]]
          /\ edits \in 0..MaxEdits /\ restarts \in 0..MaxRestarts

NoCall == [pc |-> "idle", slug |-> None, body |-> None, key |-> None,
           role |-> "primary", answer |-> "none"]

NoAttempt == [svc |-> None, row |-> None, reply |-> None, result |-> "none", kind |-> "none"]

Init == /\ table \in InitTables
        /\ keyActive = [k \in Keys |-> TRUE]
        /\ req = [r \in Requests |-> NoCall]
        /\ attempt = [r \in Requests |-> [b \in Roles |-> NoAttempt]]
        /\ held = {}
        /\ cache = [e \in Slugs \X Bodies |-> None]
        /\ tasks = {} /\ logs = {}
        /\ spawned = [r \in Requests |-> [b \in Roles |-> 0]]
        /\ edits = 0 /\ restarts = 0

-------------------------------------------------------------------------------
(* What the steps share *)

Current(r) == attempt[r][req[r].role]

\* Streaming only when the service supports it and the body asks for it.
Streams(r) == Current(r).row.streaming /\ req[r].body = "stream"

\* body_json.get, outside the try of handle(): only an object has it.
Crashes(r) == Current(r).row.streaming /\ req[r].body = "array"

\* Entries are named by the slug of the service that is called, as its row was loaded.
CacheKey(r) == <<Current(r).row.slug, req[r].body>>

LogRow(r, kind, owner) == [req |-> r, role |-> req[r].role, svc |-> Current(r).svc,
                           kind |-> kind, owner |-> owner]

\* log_request_fire_and_forget: a task is scheduled, the request goes on.
Log(r, kind, owner) == /\ tasks' = tasks \cup {LogRow(r, kind, owner)}
                       /\ spawned' = [spawned EXCEPT ![r][req[r].role] = @ + 1]

\* A buffered response is logged, cannot be sent on, and is logged again as an error.
LogTwice(r) == /\ tasks' = tasks \cup {LogRow(r, "plain", ServiceOwner[Current(r).svc]),
                                       LogRow(r, "error", None)}
               /\ spawned' = [spawned EXCEPT ![r][req[r].role] = @ + 2]

NoLog == UNCHANGED <<tasks, spawned>>

\* handle() begins with the row of the service as just loaded.
Begin(r, s, role) ==
    /\ req' = [req EXCEPT ![r].role = role, ![r].pc = "body"]
    /\ attempt' = [attempt EXCEPT ![r][role] = [svc |-> s, row |-> table[s], reply |-> None,
                                                result |-> "pending", kind |-> "none"]]

\* The attempt a is over and its outcome is the client's answer. A streaming body
\* is still to be read, by whoever sends the response.
Deliver(q, a) ==
    [q EXCEPT !.pc = IF a.kind = "stream" /\ a.result # "raised" THEN "unread" ELSE "done",
              !.answer = IF a.result = "raised" THEN "error" ELSE q.role]

\* Mutants of NeedsFallback: any answer calls for the fallback; a fallback falls back.
NeedsFallbackAlways(q, a) == q.role = "primary" /\ a.row.fallback # None
NeedsFallbackAgain(q, a) == /\ a.row.fallback # None
                            /\ a.result = "raised" \/ a.result \in a.row.on

\* need_fallback of proxy_request, and a fallback to load.
NeedsFallback(q, a) == /\ q.role = "primary"
                       /\ a.row.fallback # None
                       /\ a.result = "raised" \/ a.result \in a.row.on

\* handle() is over: the response goes out, unless the fallback is to be tried.
Proceed(q, a) == IF NeedsFallback(q, a) THEN [q EXCEPT !.pc = "fallback"] ELSE Deliver(q, a)

\* handle() returns or raises at the end of this step.
Settle(r, result, kind, reply) ==
    LET a == [Current(r) EXCEPT !.result = result, !.kind = kind, !.reply = reply]
    IN /\ attempt' = [attempt EXCEPT ![r][req[r].role] = a]
       /\ req' = [req EXCEPT ![r] = Proceed(req[r], a)]

\* handle() builds its Response or StreamingResponse, which raises on odd headers.
Respond(r, reply, kind) ==
    Settle(r, IF reply.odd THEN "raised" ELSE reply.status, kind, reply)

Release(r) == held' = held \ {<<r, req[r].role>>}

Live(s) == table[s] # None /\ table[s].active

-------------------------------------------------------------------------------
(* proxy_request up to the first handle() *)

Refused(q) == [q EXCEPT !.pc = "done", !.answer = "refused"]

\* A client calls; validate_api_key answers 401 or lets the call in.
Arrive(r, slug, k, body) ==
    /\ req[r].pc = "idle"
    /\ LET q == [req[r] EXCEPT !.pc = "lookup", !.slug = slug, !.key = k, !.body = body]
       IN req' = [req EXCEPT ![r] = IF keyActive[k] THEN q ELSE Refused(q)]
    /\ UNCHANGED <<table, keyActive, attempt, held, cache, tasks, logs, spawned, edits, restarts>>

\* 403: the slug is not on the key's list; 404: inactive; 403: of another owner.
Admitted(q, s) == /\ KeyAllows[q.key] = {} \/ q.slug \in KeyAllows[q.key]
                  /\ Live(s)
                  /\ KeyOwner[q.key] = ServiceOwner[s]

\* get_service_by_slug: the one row with this slug, if there is one.
Named(slug) == {s \in Services : table[s] # None /\ table[s].slug = slug}

Lookup(r) ==
    /\ req[r].pc = "lookup"
    /\ \/ \E s \in Named(req[r].slug) : Admitted(req[r], s) /\ Begin(r, s, "primary")
       \/ /\ \A s \in Named(req[r].slug) : ~Admitted(req[r], s)
          /\ req' = [req EXCEPT ![r] = Refused(req[r])] /\ UNCHANGED attempt
    /\ UNCHANGED <<table, keyActive, held, cache, tasks, logs, spawned, edits, restarts>>

-------------------------------------------------------------------------------
(* handle() *)

\* request.body(): the first call waits for the client to send it all, the call of
\* the fallback finds what the first one found.
BodyCame(r) == req[r].role = "primary" \/ attempt[r]["primary"].kind # "gone"
BodyLost(r) == req[r].role = "primary" \/ attempt[r]["primary"].kind = "gone"

ReadBody(r) ==
    /\ req[r].pc = "body" /\ BodyCame(r)
    /\ req' = [req EXCEPT ![r].pc = IF Current(r).row.cache THEN "cache" ELSE "send"]
    /\ UNCHANGED <<table, keyActive, attempt, held, cache, tasks, logs, spawned, edits, restarts>>

\* The client leaves before its body has come. That raises outside the try: no log.
LoseBody(r) ==
    /\ req[r].pc = "body" /\ BodyLost(r)
    /\ Settle(r, "raised", "gone", None)
    /\ UNCHANGED <<table, keyActive, held, cache, tasks, logs, spawned, edits, restarts>>

\* get_cached_response: a hit is the answer of this attempt, streaming or not. It is
\* logged before the Response is built, outside the try.
CacheHit(r) ==
    /\ req[r].pc = "cache"
    /\ cache[CacheKey(r)] # None
    /\ Respond(r, cache[CacheKey(r)], "cached")
    /\ Log(r, "cached", ServiceOwner[Current(r).svc])
    /\ UNCHANGED <<table, keyActive, held, cache, logs, edits, restarts>>

\* A Redis error counts as a miss.
CacheMiss(r) ==
    /\ req[r].pc = "cache"
    /\ req' = [req EXCEPT ![r].pc = "send"]
    /\ UNCHANGED <<table, keyActive, attempt, held, cache, tasks, logs, spawned, edits, restarts>>

\* The body is looked into before anything is sent, and outside the try: no log.
Crash(r) ==
    /\ req[r].pc = "send" /\ Crashes(r)
    /\ Settle(r, "raised", "crash", None)
    /\ UNCHANGED <<table, keyActive, held, cache, tasks, logs, spawned, edits, restarts>>

\* The client takes a connection from the pool and sends.
Send(r) ==
    /\ req[r].pc = "send" /\ ~Crashes(r)
    /\ Cardinality(held) < MaxConns
    /\ held' = held \cup {<<r, req[r].role>>}
    /\ req' = [req EXCEPT ![r].pc = "upstream"]
    /\ UNCHANGED <<table, keyActive, attempt, cache, tasks, logs, spawned, edits, restarts>>

\* Mutant of Fail: a client without a timeout for its pool waits for a connection.
FailWithoutPoolTimeout(r) ==
    /\ req[r].pc = "upstream" /\ ~Crashes(r)
    /\ Release(r)
    /\ Settle(r, "raised", "error", None)
    /\ Log(r, "error", None)
    /\ UNCHANGED <<table, keyActive, cache, logs, edits, restarts>>

\* The except branch, before a response has come: no connection, no free slot in time,
\* a timeout or a protocol error. The attempt is logged as a 502, without its owner,
\* and raises. (Its other ways in are those of ReplyPlain, Store and ReplyStream.)
Fail(r) ==
    /\ req[r].pc \in {"send", "upstream"} /\ ~Crashes(r)
    /\ Release(r)
    /\ Settle(r, "raised", "error", None)
    /\ Log(r, "error", None)
    /\ UNCHANGED <<table, keyActive, cache, logs, edits, restarts>>

\* A buffered response is logged; then it goes to the cache, or to the client at once.
KeepReply(r, reply) ==
    /\ Log(r, "plain", ServiceOwner[Current(r).svc])
    /\ req' = [req EXCEPT ![r].pc = "store"]
    /\ attempt' = [attempt EXCEPT ![r][req[r].role] =
                      [Current(r) EXCEPT !.kind = "plain", !.reply = reply]]

PassReply(r, reply) ==
    /\ IF reply.odd THEN LogTwice(r) ELSE Log(r, "plain", ServiceOwner[Current(r).svc])
    /\ Respond(r, reply, "plain")

\* Mutants of ReplyPlain: the connection is kept; errors are cached too.
ReplyPlainKeepsConnection(r, reply) ==
    /\ req[r].pc = "upstream" /\ ~Streams(r)
    /\ PassReply(r, reply)
    /\ UNCHANGED <<table, keyActive, held, cache, logs, edits, restarts>>

ReplyPlainCachesAll(r, reply) ==
    /\ req[r].pc = "upstream" /\ ~Streams(r)
    /\ Release(r)
    /\ IF Current(r).row.cache THEN KeepReply(r, reply) ELSE PassReply(r, reply)
    /\ UNCHANGED <<table, keyActive, cache, logs, edits, restarts>>

\* client.request: the whole response is read and its connection released; a good
\* one goes to the cache before handle() returns.
ReplyPlain(r, reply) ==
    /\ req[r].pc = "upstream" /\ ~Streams(r)
    /\ Release(r)
    /\ IF Current(r).row.cache /\ reply.status \in Success
         THEN KeepReply(r, reply)
         ELSE PassReply(r, reply)
    /\ UNCHANGED <<table, keyActive, cache, logs, edits, restarts>>

\* Mutant of Store: a Redis error reaches the except branch of handle().
StoreRaises(r) ==
    /\ req[r].pc = "store"
    /\ \/ UNCHANGED cache /\ Settle(r, "raised", "plain", Current(r).reply)
          /\ Log(r, "error", None)
       \/ /\ cache' = [cache EXCEPT ![CacheKey(r)] = Current(r).reply]
          /\ Respond(r, Current(r).reply, "plain")
          /\ IF Current(r).reply.odd THEN Log(r, "error", None) ELSE NoLog
    /\ UNCHANGED <<table, keyActive, held, logs, edits, restarts>>

\* set_cached_response: written under the slug of the service that answered, or
\* lost to a Redis error that is swallowed. Then the Response is built; odd headers
\* raise into the except branch, which logs the attempt again.
Store(r) ==
    /\ req[r].pc = "store"
    /\ cache' \in {cache, [cache EXCEPT ![CacheKey(r)] = Current(r).reply]}
    /\ IF Current(r).reply.odd THEN Log(r, "error", None) ELSE NoLog
    /\ Respond(r, Current(r).reply, "plain")
    /\ UNCHANGED <<table, keyActive, held, logs, edits, restarts>>

\* client.send(stream=True): only the headers have come. The connection stays
\* taken, and the log is left to logging_stream, which nobody has started yet. If the
\* StreamingResponse cannot be built, the attempt is logged as an error and raises,
\* and nobody closes the upstream's response.
ReplyStream(r, reply) ==
    /\ req[r].pc = "upstream" /\ Streams(r)
    /\ IF reply.odd THEN Log(r, "error", None) ELSE NoLog
    /\ Respond(r, reply, "stream")
    /\ UNCHANGED <<table, keyActive, held, cache, logs, edits, restarts>>

-------------------------------------------------------------------------------
(* proxy_request after the first handle() *)

\* Mutant of LoadFallback: is_active of the fallback row is not looked at.
LoadFallbackIfThere(r) ==
    /\ req[r].pc = "fallback"
    /\ LET f == Current(r).row.fallback
       IN IF table[f] # None
            THEN Begin(r, f, "fallback")
            ELSE req' = [req EXCEPT ![r] = Deliver(req[r], Current(r))] /\ UNCHANGED attempt
    /\ UNCHANGED <<table, keyActive, held, cache, tasks, logs, spawned, edits, restarts>>

\* The fallback row is loaded. If it is there and active it is tried, once, and the
\* response of the primary, if there was one, is dropped as it is; else that
\* response, or a 502, goes out.
LoadFallback(r) ==
    /\ req[r].pc = "fallback"
    /\ LET f == Current(r).row.fallback
       IN IF Live(f)
            THEN Begin(r, f, "fallback")
            ELSE req' = [req EXCEPT ![r] = Deliver(req[r], Current(r))] /\ UNCHANGED attempt
    /\ UNCHANGED <<table, keyActive, held, cache, tasks, logs, spawned, edits, restarts>>

\* The server pulls the first chunk: logging_stream starts.
StartStream(r) ==
    /\ req[r].pc = "unread"
    /\ req' = [req EXCEPT ![r].pc = "streaming"]
    /\ UNCHANGED <<table, keyActive, attempt, held, cache, tasks, logs, spawned, edits, restarts>>

\* Mutant of EndStream: the log call after the loop, not in a finally clause.
EndStreamIfWhole(r) ==
    /\ req[r].pc = "streaming"
    /\ Release(r)
    /\ Log(r, "stream", None) \/ NoLog
    /\ req' = [req EXCEPT ![r].pc = "done"]
    /\ UNCHANGED <<table, keyActive, attempt, cache, logs, edits, restarts>>

\* The stream ends, breaks, or its client leaves: the finally clause logs, without
\* the owner, and the connection is released.
EndStream(r) ==
    /\ req[r].pc = "streaming"
    /\ Release(r)
    /\ Log(r, "stream", None)
    /\ req' = [req EXCEPT ![r].pc = "done"]
    /\ UNCHANGED <<table, keyActive, attempt, cache, logs, edits, restarts>>

\* A client that left while the upstream was answering: the sending task may be
\* cancelled before its first step, and then logging_stream never starts, and never
\* logs or closes anything.
ClientGone(r) ==
    /\ req[r].pc = "unread"
    /\ req' = [req EXCEPT ![r].pc = "gone"]
    /\ UNCHANGED <<table, keyActive, attempt, held, cache, tasks, logs, spawned, edits, restarts>>

-------------------------------------------------------------------------------
(* Around the requests *)

\* _write_log commits the row, or gives up with a warning.
WriteLog(l) ==
    /\ l \in tasks
    /\ tasks' = tasks \ {l}
    /\ \/ logs' = logs \cup {l} /\ Cardinality(logs') <= MaxLogs
       \/ UNCHANGED logs
    /\ UNCHANGED <<table, keyActive, req, attempt, held, cache, spawned, edits, restarts>>

\* Redis drops an entry when its TTL is over.
Expire(e) ==
    /\ cache[e] # None
    /\ cache' = [cache EXCEPT ![e] = None]
    /\ UNCHANGED <<table, keyActive, req, attempt, held, tasks, logs, spawned, edits, restarts>>

Edit == edits < MaxEdits /\ edits' = edits + 1

\* The rows that one column's change makes of s (a fallback is another service, and
\* a slug one that nobody has: renamed or deleted services leave theirs to others).
RowEdits(s) ==
    LET row == table[s]
        others == {f \in Services \ {s} : table[f] # None}
    IN    {[row EXCEPT !.active = ~@], [row EXCEPT !.streaming = ~@], [row EXCEPT !.cache = ~@]}
     \cup {[row EXCEPT !.fallback = f] : f \in others \cup {None}}
     \cup {[row EXCEPT !.slug = slug] : slug \in Slugs \ {table[x].slug : x \in others}}
     \cup {[row EXCEPT !.on = on] : on \in SUBSET Statuses}

\* update_service commits.
EditService(s) ==
    /\ Edit
    /\ table[s] # None
    /\ \E row \in RowEdits(s) : table' = [table EXCEPT ![s] = row]
    /\ UNCHANGED <<keyActive, req, attempt, held, cache, tasks, logs, spawned, restarts>>

\* delete_service, and ON DELETE SET NULL for the rows that fall back to it.
DeleteService(s) ==
    /\ Edit
    /\ table[s] # None
    /\ table' = [x \in Services |->
                    IF x = s \/ table[x] = None THEN None
                    ELSE IF table[x].fallback = s THEN [table[x] EXCEPT !.fallback = None]
                    ELSE table[x]]
    /\ UNCHANGED <<keyActive, req, attempt, held, cache, tasks, logs, spawned, restarts>>

\* A key is switched off or on, or its time runs out.
ToggleKey(k) ==
    /\ Edit
    /\ keyActive' = [keyActive EXCEPT ![k] = ~@]
    /\ UNCHANGED <<table, req, attempt, held, cache, tasks, logs, spawned, restarts>>

\* The process dies and comes back: calls, connections and log tasks are gone, Redis
\* and PostgreSQL stay. lifespan hands log rows without an owner to the seed admin.
Restart ==
    /\ restarts < MaxRestarts /\ restarts' = restarts + 1
    /\ req' = [r \in Requests |->
                  IF req[r].pc = "idle" THEN req[r]
                  ELSE [req[r] EXCEPT !.pc = "lost",
                                      !.answer = IF @ = "none" THEN "lost" ELSE @]]
    /\ held' = {} /\ tasks' = {}
    /\ logs' = {IF l.owner = None THEN [l EXCEPT !.owner = Admin] ELSE l : l \in logs}
    /\ UNCHANGED <<table, keyActive, attempt, cache, spawned, edits>>

-------------------------------------------------------------------------------
\* The steps of a call that wait for nobody outside the process: httpx looks for a
\* free connection of its pool for timeout_seconds, then it raises PoolTimeout.
Bounded(r) == \/ Crash(r)
              \/ Send(r)
              \/ req[r].pc = "send" /\ Fail(r)

\* The steps that wait for the body, for PostgreSQL, for Redis, or for the upstream.
\* Nothing bounds these waits: neither the body nor Redis nor the database has a
\* timeout here, and httpx's read timeout starts anew with every byte.
Outside(r) == \/ Lookup(r) \/ ReadBody(r) \/ LoseBody(r)
              \/ CacheHit(r) \/ CacheMiss(r) \/ Store(r) \/ LoadFallback(r)
              \/ req[r].pc = "upstream" /\ Fail(r)
              \/ \E reply \in Replies : ReplyPlain(r, reply) \/ ReplyStream(r, reply)

Call(r) == \/ \E slug \in Slugs, k \in Keys, body \in Bodies : Arrive(r, slug, k, body)
           \/ Bounded(r) \/ Outside(r)
           \/ StartStream(r) \/ EndStream(r) \/ ClientGone(r)

Administer == \/ \E s \in Services : EditService(s) \/ DeleteService(s)
              \/ \E k \in Keys : ToggleKey(k)

Next == \/ \E r \in Requests : Call(r)
        \/ \E l \in tasks : WriteLog(l)
        \/ \E e \in Slugs \X Bodies : Expire(e)
        \/ Administer
        \/ Restart

Spec == Init /\ [][Next]_vars

\* The event loop runs what is ready, and the pool's timeout is kept. Of the world
\* outside nothing is assumed: Answered names what it needs.
FairSpec == Spec /\ \A r \in Requests : WF_vars(Bounded(r))

-------------------------------------------------------------------------------
(* Properties *)

\* How many log rows an attempt has scheduled, given how far it has come.
LogsDue(r, b) ==
    LET a == attempt[r][b]
    IN CASE a.kind \in {"none", "crash", "gone"} -> {0}
         [] a.kind = "plain"  -> IF a.reply.odd /\ a.result # "pending" THEN {2} ELSE {1}
         [] a.kind = "stream" -> IF a.reply.odd THEN {1}
                                 ELSE IF req[r].pc = "lost" THEN {0, 1}
                                 ELSE IF <<r, b>> \in held THEN {0} ELSE {1}
         [] OTHER             -> {1}

\* Bookkeeping of an attempt, at every moment of every interleaving, crashes included:
\* it is logged once, with these exceptions and no others. Twice, if a buffered
\* response was logged and then could not be sent on; not at all, if it ended outside
\* the try (the client left before its body had come, or the body is no JSON object),
\* or if nobody ends its stream: replaced, abandoned before its first chunk, or cut
\* by the end of the process. A cache that fails, a fallback, or a client that leaves
\* during a stream, costs no row and makes none.
LoggedOnce == \A r \in Requests, b \in Roles : spawned[r][b] \in LogsDue(r, b)

\* A connection that nobody will give back: of a stream that a fallback replaced, whose
\* client left before its first chunk, or whose StreamingResponse could not be built.
Leaked(r, b) == /\ attempt[r][b].kind = "stream"
                /\ req[r].role # b \/ req[r].pc = "gone" \/ attempt[r][b].result = "raised"

\* A connection is taken by an attempt that waits for its upstream or by a stream that
\* is still to be sent or being sent; and what the pool loses for good (three leaks
\* that the code has) it loses to streams: buffered and failed attempts give theirs
\* back at once, whatever else fails.
HeldInUse ==
    \A h \in held :
        LET r == h[1]
            b == h[2]
        IN \/ req[r].role = b /\ req[r].pc = "upstream"
           \/ /\ req[r].role = b /\ req[r].pc \in {"fallback", "unread", "streaming"}
              /\ attempt[r][b].kind = "stream"
           \/ Leaked(r, b)

\* The fallback that is tried is the one the primary's row named, and the primary
\* had raised or answered with a status on its list.
FallbackJustified ==
    \A r \in Requests :
        LET first == attempt[r]["primary"]
            second == attempt[r]["fallback"]
        IN second.svc # None => /\ second.svc = first.row.fallback
                                /\ first.result \in first.row.on \cup {"raised"}

\* A handle() begins only for a service that is there and active at that moment,
\* whatever administrators changed since the call came in.
StartsLive ==
    [][\A r \in Requests, b \in Roles :
          attempt[r][b].svc = None /\ attempt'[r][b].svc # None => Live(attempt'[r][b].svc)]_vars

\* A call that was let in is answered, or dies with the process, if whatever it waits
\* for itself goes on in the end: its client's body, the database, Redis, its upstream.
\* The other calls may hang for ever, and hold every connection there is.
Answered ==
    \A r \in Requests :
        WF_vars(Outside(r)) => (req[r].pc = "lookup" ~> req[r].answer # "none")

\* Each step of the request path is a step of ProxyPromise or invisible to it.
Verdict(a) == IF a.result \in {"none", "pending", "raised"} THEN a.result
              ELSE IF a.result \in a.row.on THEN "bad" ELSE "good"

Try(r, b) == [svc |-> attempt[r][b].svc, result |-> Verdict(attempt[r][b])]

Promise == INSTANCE ProxyPromise WITH
               first  <- [r \in Requests |-> Try(r, "primary")],
               second <- [r \in Requests |-> Try(r, "fallback")],
               answer <- [r \in Requests |-> req[r].answer]

KeepsPromise == Promise!Spec

\* "Detailed statistics on every request": an attempt that its upstream answered, and
\* that the fallback replaces because of its status, is logged like any other.
ReplacedAttemptLogged ==
    \A r \in Requests :
        req[r].answer = "fallback" /\ attempt[r]["primary"].result \in Statuses
            => spawned[r]["primary"] = 1

\* A row of the request log belongs to the owner of its service, who sees it in the
\* statistics.
LogsOfOwner == \A l \in logs : l.owner = ServiceOwner[l.svc]

\* "Check cache (only for non-streaming)": a streaming attempt is not answered from
\* the cache.
StreamsBypassCache ==
    \A r \in Requests : Current(r).kind = "cached" => ~Streams(r)
===============================================================================
