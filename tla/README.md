# ProxyML: models and proofs

ProxyML is a gateway in front of machine-learning services: a client calls
`/proxy/{slug}/{path}` with an API key, the gateway forwards the request to the
service of that slug (or to its fallback), caches and logs, and an admin panel manages
services, keys and users. The backend is a single-process FastAPI application
(`src/src/`), the panel a React application (`src/admin-ui/`), the state lives in
PostgreSQL and Redis. This directory holds TLA+ models of the parts where
interleavings matter, the TLC runs that check them, and TLAPS proofs. Paths below are
relative to the repository; `src/src/api/v1/proxy.py` is the module `src.api.v1.proxy`.

## The system

One asyncio process serves everything. A handler runs alone between two `await`s, and
any other handler may run at each of them. Each HTTP request has one SQLAlchemy session
(`expire_on_commit=False`), so a row it has loaded stays as it was loaded; the isolation
of the database is READ COMMITTED.

| Component | State | Operations | What is hard | What makes it correct |
|---|---|---|---|---|
| Proxy request path: `api/v1/proxy.py`, `proxy/handler.py`, `proxy/client.py`, `proxy/streaming.py` | locals of a call, connections of the httpx pool | authenticate, look up, cache, send, stream, fall back, answer | rows change during a call; a streamed answer is dropped for the fallback's; failures at every await | one answer per call; at most one fallback, justified; an attempt is logged once and its connection comes back, with exceptions that are all known |
| Response cache: `cache/proxy_cache.py` | Redis entries by slug, method and digest | get, set with ttl | shared by calls; failing Redis; services change their slugs | only successes are kept; streams bypass it |
| Request logger: `services/request_logger.py` | tasks nobody awaits, rows of `request_logs` | schedule, write | lost at a crash; called on four paths, two of which may follow one another | one row per attempt, with its owner |
| Service registry: `services/service_registry.py`, `api/admin/services.py` | `services` rows; `fallback_service_id` is a graph | create, update, delete; validation walks the chain | validation and commit are apart; the chain changes under the walk | no cycle, no dangling link, equal types |
| Import and export, service groups: `api/admin/services.py`, `api/admin/service_groups.py` | the same rows, and groups | export; a transaction of groups and two passes over the services, in one session | per-item errors in a session that a failed flush spoils; names and slugs looked up again and again while others change them; links without validation | every item that is not reported is in the table; an export restores what was deleted; other users' services stay as they are |
| Accounts: `api/admin/users.py`, `api/admin/auth.py`, `services/auth_service.py`, `main.py:lifespan` | `admin_users` rows | register, update, approve, reject, delete; seeding at the start | superadmins act on each other and on themselves at once | unique names; nobody locks himself out; someone can administer |
| API keys: `services/api_key_service.py`; `ApiKeysPage.tsx` | `api_keys` rows; the list, the form and the raw key on the page | create, validate, update, toggle, delete | an empty list of services read in two ways; a toggle that negates what the server has; a raw key that comes once; other tabs of the owner | the proxy and the lists agree, whatever any of his tabs sends |
| Settings and AI: `api/admin/settings.py`, `SettingsPage.tsx` | the one row of `system_settings` | load, save; one upstream call | updates that overlap write differences; the first insert races | the row is what was saved last, whole |
| Statistics, health checks | the log; none | aggregates; one upstream call | none | |
| Panel: session: `store/authStore.ts`, `api/client.ts`, `App.tsx`, `LoginPage.tsx`, `RegisterPage.tsx` | token and user in localStorage, a copy in the store of each tab | login, logout, the 401 interceptor, reload | tabs share the storage but not the copy; two logins of one tab may overlap; 401s come late | a 401 ends no session that is older than its request, but its own |
| Panel: playground: `PlaygroundPage.tsx`, `components/playground/`, `api/playground.ts`; `api/admin/playground.py` | the selected service, the mounted playground, its talk, the stream; rows of `playground_history` | select, send, stream, clear, save, replay | answers to a playground that was left; clearing during a stream; chunks that cut lines | the spinner is the playground's own; questions and answers stay paired; no talk strays to another service |
| Panel: services page: `ServicesPage.tsx` | the dialog with its form, identity and check result; the list by groups | add, edit, clone, check, generate, parse; drag, delete, import, groups | answers that write into whatever dialog is there; a list of two loads, changed ahead of the server | no form is saved over another service; the list settles at what the server has |
| Panel: dashboard: `DashboardPage.tsx` | period, query, figures, requests, AI texts | select, load, summarise, analyse | answers out of order, or for what is no longer selected | what is shown is what is selected |

The panel and the request path meet in the tables `services` and `api_keys`, which
administrators change while calls are in progress, and in `request_logs`, which
the process writes and `lifespan` repairs. Logs whose owner is missing go to the seed
administrator at the next start; deleting a user cascades to his rows.

The hazards, each at its line and with the properties that are about it, are in
`PROJECT.json`.

## The modules

| Module | What it is |
|---|---|
| `FallbackForest` | Abstract: fallback links form a forest over the rows that exist. |
| `FallbackRegistry` | The handlers that create, update, delete and link services, one action per database round trip. Implements `FallbackForest` (with one update at a time). |
| `MCFallbackRegistry` | Instances for TLC. |
| `FallbackRegistry_proofs` | Theorems. |
| `ProxyPromise` | Abstract: what a client may rely on: at most two tries, one answer, and the answer is the outcome of the last try. |
| `ProxyRequest` | The request path, one action per stretch between two awaits, composed with the cache, the connection pool, the log and the administrators' edits. Implements `ProxyPromise`. |
| `MCProxyRequest` | Instances for TLC. |
| `ProxyRequest_proofs` | Theorems. |
| `Accounts` | Registration, the superadmins' requests and the start of the process. |
| `MCAccounts` | Instances for TLC. |
| `Accounts_proofs` | Theorems. |
| `Calls` | What the pages of the panel share: calls under way, whose answers come in any order. |
| `Playground` | The playground page of the panel, its stream reader and history, and the endpoints behind them. |
| `ServiceDialog` | The dialog of the services page and the calls that write into it. |
| `ServiceBoard` | The list of the services page: groups, drags, reloads. |
| `ApiKeys` | The table of API keys and the page that changes it. |
| `Dashboard` | Periods, queries and AI texts of the dashboard. |
| `Settings` | The row of the settings and the page at several superadmins. |
| `BrowserSession` | Who is logged in, in all tabs of a browser. |
| `AdminPanel` | The panel: its pages, one of which is visited. Composes the seven above. |
| `MCAdminPanel` | Instance for TLC. |
| `Calls_proofs` | Lemmas about sequences of calls. |
| `Playground_proofs`, `ApiKeys_proofs`, `AdminPanel_proofs` | Theorems; those of a page are in the last if the page has no module of its own for them. |
| `ServicesImport` | Export and import of services and groups, among other requests. |
| `MCServicesImport` | Instance for TLC: tables and files. |
| `ServicesImport_proofs` | Theorems. |

### FallbackRegistry and the code

`life`, `fb` and `typ` are the columns of `services` that the fallback logic reads. An id
is a uuid4: it is used once, so a row goes from unborn to live to deleted. `job[h]` holds
the locals of one handler. `PUT /services/{id}` is `StartUpdate` (the load in
`admin_update_service`), `Reread` (the second select, of `update_service`), `LoadTarget` and
any number of `Walk` (`_validate_fallback`, a query per hop), and `CommitUpdate`: SQLAlchemy
writes the attributes that differ from the loaded ones, a row deleted meanwhile and a
foreign key to a deleted row roll the update back. `POST /services` is `StartCreate`,
`LoadTarget`, `Walk`, `CommitCreate`. `DeleteService` is one statement with its
`ON DELETE SET NULL`. `LoadLink` and `CommitLink` are one link of the second pass of an
import. The value `Keep` stands for a field that the body does not set.

### ProxyRequest and the code

`req[r]` are the locals of `proxy_request`, `attempt[r][role]` those of its one or two calls
of `handle()`, with the row as the session loaded it. The actions follow the code:
`Arrive` (`get_api_key_or_fail`), `Lookup` (the checks up to the first `handle()`), `ReadBody` and
`LoseBody` (`await request.body()`: it all comes, or the client leaves first), `CacheHit`
and `CacheMiss`, `Crash` (the body is examined before the `try`), `Send`, `Fail` (the `except`
branch before a response has come), `ReplyPlain` and `Store`, `ReplyStream`, `LoadFallback`, `StartStream`, `EndStream`
and `ClientGone` (the life of `logging_stream`). `WriteLog` is the task that nobody awaits,
`Expire` Redis, `EditService`, `DeleteService` and `ToggleKey` the administrators, `Restart` a
crash and the start after it, with the backfill of owner-less log rows. `spawned`
is a history variable: how often `log_request_fire_and_forget` was called for an attempt.

A service is a row with an id and a slug, and both matter: fallbacks name ids, keys and cache entries name slugs
(`CacheKey`), and an administrator may give a slug that is free to another row (`RowEdits`).

A reply is its status and whether its headers are `odd`. httpx decodes header values as UTF-8, while starlette
encodes them as latin-1 when a `Response` or a `StreamingResponse` is built, and raises on what does not fit. `Respond` is that
constructor. All three are built after something was done that a raise does not undo: a buffered response has been logged (`PassReply`,
`Store`), and the `except` branch logs the attempt again; a stream is open (`ReplyStream`), and nobody closes it; a
cached one has been logged, too, but outside the `try` (`CacheHit`), and raises on every hit until the entry expires.

A failing Redis is a miss (`CacheMiss` is enabled on a hit, too) or a write that is
lost (`Store`). `LogsDue` says how many rows an attempt has scheduled, by how it ended, and `Leaked` when a connection is lost to the pool. A generator that is dropped without ever being started does nothing; so a
streamed primary that the fallback replaces keeps its connection in `held`, and the
model never gives it back: `aclose` is not called, and what the garbage collector
does with the response later is not relied upon.

### Accounts and the code

`flags[u]` are the three Boolean columns that decide what a user may do. A request of a
superadmin is `Authorize` (`get_current_superadmin`, and the refusal to delete oneself),
`Load` (the 404, and the protection of one's own rights in `update_user`) and `Commit`,
which writes the attributes that differ from the loaded ones. `Authorize` and `Load` use one
session: who acts on himself sees the row as it was authorised, hence `seen`. `CheckName` and
`Register` are the two ends of `POST /register`, with the hashing of the password in between.
`Boot` is `lifespan`; its backfill of rows without an owner is in `ProxyRequest`'s `Restart`, for
the table that has such rows.

### Playground and the code

One user and his browser tab. `page` is the state of `PlaygroundPage` and of the history panel,
`view` that of the one playground that is mounted: `ChatPlayground`, or one of the form
playgrounds (embeddings, speech, transcription, custom), which keep the last question and
answer only and are otherwise alike. `Show` is what React does when the page's state changes:
`key={selected.id}` mounts a new playground for another service or after another tab, and the
new one consumes `replayEntry`. `call[n]` is the execution of the nth question, which outlives
the playground that asked: `Answer` changes the view only if it is still the same instance
(React drops state updates of an unmounted component).

`Send` is `handleSend` and its siblings up to the first await. Then the server finds the service
(`Accept`) or not, answers at once (`Respond`), streams (`Open`, `Read` for each chunk, `Finish`), or
anything on the way breaks (`Fail`). `Split` is the reader's `buffer.split('\n')`; a stream is a
sequence of parts of lines and newlines, so a chunk may end inside a line. `Save`
and `StoreEntry` are the two ends of `POST /playground/history`; `DeleteService` is the other
panel's deletion with its `ON DELETE SET NULL`. A history row is known by its talk: rows that agree
are one.

### The other pages and the code

`Calls` is the idea the page modules are built on. A page keeps its calls in a sequence, oldest first,
and any of them may be served, answered or lost next: axios neither orders nor withdraws requests and
`api/client.ts` sets no timeout. A call is a record of what was sent and, once served, of what will be
answered. The `ghost` variables (`hasty`, `raced`, `jumbled`, `overlapped`) note that the
user did what the page does not guard against, or that answers crossed; their properties say what holds as
long as that has not happened, and nothing about the rest, for which the code has no check. What then goes wrong is in
the list of disagreements below. Two more ghosts only record what happened: `asked` of `Dashboard` (an analysis was asked for in the
open details) and `old` of a request of `BrowserSession` (somebody logged in after it was sent).

`ServiceDialog`: `dialog` is `dialogOpen`, `editId`, `form` and `modalHealth` of `ServicesPage`. `OpenNew`, `OpenEdit`
and a cURL command that was parsed fill it (`FillDialog`); `SubmitService` is `handleSubmit` up to its await, `ServiceSaved`
what follows, with the check of "Create & Check" (`ThenCheck`) that makes an edit of a creation;
`CheckConnection`, `DescribeService`, `ParseCurl` are the other calls. A form is known by the service it is of.

`ServiceBoard`: `load()` is two requests, each served and answered at its time. `Drag` is `handleDragEnd`, which changes
the list first and reloads only upon an error. `SaveCard` is what the dialog and the import do to the table.

`ApiKeys`: `keys` is the table, `keyPage` the list, the services on offer and the form with its raw key. `ServeKey` has a
disjunct for each endpoint. `ElsewhereKey` is the same page in another tab or session of the owner, which sends what a form of the page can
send, at any moment; so cards are outdated, and keys vanish under an open form. No button is disabled while a call is under way. `MayUse` is the condition of `proxy.py:23`, `ListedFor` that of `get_keys_for_service`.

`Dashboard`: what was fetched is known by the selection it was fetched for. `LoadDash` is `load()`, which the effect of the
period runs; the effect of the query runs `loadLogs()`; both run when the page is mounted (`DashInit`). Details that are closed over an analysis leave it under way, and it is shown in
whichever details are open when it comes; the button of all of them is disabled until then.

`Settings`: an update is `ReadSettings` and `CommitSettings`; the ORM writes the fields that differ from what was read
(`Written`), and two first inserts collide on the primary key. The page may send any form (see below).

`BrowserSession`: `storage` is localStorage, `tabs[t].user` the zustand store that a tab made of it. `Use` is any call of any
page: the request interceptor takes the token from the storage, not from the store. `Expired` is the response
interceptor. `SubmitLogin` may be wrong about the password. Its `loading` is state of the form (`fresh`): the link to the registration and back
(`OtherForm`) mounts a new form, whose login may be sent while the first one is under way, so that a 401 of the second can come to the page that the
first one opened. Requests are told apart by a slot of a bounded number.

`AdminPanel`: `visit` is the page that is looked at. A page keeps nothing when it is left, and none reads what another
has, so one visit at a time is enough; the session is a visit of its own because it regards requests as such.

### ServicesImport and the code

`svc` and `grp` are the two tables, `imp` the locals of `import_services`. `Upload`, `FindGroup` for each
group, `CommitGroups` and `LoadGroups` are the first transaction and what follows it; `Lookup`,
`Reread`, `Update` or `Insert`, and `Refresh` are one item, an action per query or commit
(`get_service_by_slug`, then `update_service` or `create_service`); `FindService`, `FindTarget` and
`CommitLink` one link. All fields of a service that nothing refers to are one value, `data`; an
item's may also be `Partial` (some required field is missing: `ServiceUpdate` takes it,
`ServiceCreate` does not), `Bad` (neither does) or `Poison` (only the database refuses, for example a
`name` that is null).

`dead` says that a flush has failed: `import_services` catches the exception but does not roll back, so
SQLAlchemy refuses each later use of the session (`PendingRollbackError`), and every later item
and link becomes an error. A flush writes a field only if it differs from the loaded one; for
a row that others have changed since the upload (`touched`) the model leaves open which value was
loaded (`Flushed`). `calm` and `touched` are history variables. `Others` are the other requests, each as one
commit; their own steps are in `FallbackRegistry`.

## The runs

`expect: pass`:

| Run | Instance | What it shows |
|---|---|---|
| `RegistrySerial` | 3 ids, none inserted at first, one type, one updater, one creator | `TypeOK`, `Acyclic`, and every step is a step of `FallbackForest` (`KeepsForest`) |
| `RegistryWalkEnds` | 2 rows, 2 types, an updater and an importer, weak fairness | `NoDanglingLink`; `UpdateEnds`, on cyclic tables too |
| `ProxyTwoCalls` | two calls, two services that fall back to each other, in two combinations of streaming and caching, one connection, weak fairness of the pool's timeout | `TypeOK`, `LoggedOnce`, `HeldInUse`, `Answered` |
| `ProxyOneCall` | one call with any body, two edits by administrators (renamings included), one log row, one crash | `LoggedOnce`, `FallbackJustified`, `StartsLive`, `KeepsPromise` |
| `AccountsOne` | 3 users, two registrations, one request of a superadmin at a time, no reject, two starts | `TypeOK`, `SomeSuperadmin`, `UniqueNames`, `OwnRightsKept` |
| `PanelSession` | `AdminPanel`: each page in turn, with up to two calls under way when the user starts another. Playground: a chat that streams and a service of another type, two questions, three mounted playgrounds, two streams cut anywhere | `TypeOK`, `WaitsForOwn`, `Paired`, `OwnService`, `StreamWhole` |
| | its services page: two ids, one stored; one card and one group | `FormOfItsOwn`, `HealthOfItsOwn`, `BoardSettled` |
| | its other pages: one key and one slug; two periods, queries and failed requests; two superadmins and one model | `ReadingsAgree`; `ShowsSelection`, `TextsFit`; `SavedWhole` |
| | its session: two users, two tabs; and all of it | `EndsOwnSession`; `PanelTypeOK`, `SpinnersTurn` |
| `ImportSession` | two tables, six files and the exported one, two other requests | `TypeOK`, `Accounted`, `RoundTrip`, `OthersUntouched` |

`expect: violation`, each a disagreement between the code and what a comment, a message
or the documentation says (quoted under "findings"):

| Run | Property | What happens |
|---|---|---|
| `RegistryRace` | `Acyclic` | two updates validate, then both commit: a cycle |
| `ProxyReplaced` | `ReplacedAttemptLogged` | a streamed answer that the fallback replaces is never logged |
| `ProxyOwner` | `LogsOfOwner` | rows of streams and failures have no owner |
| `ProxyStreamCache` | `StreamsBypassCache` | a stream request is answered from the cache |
| `AccountsReject` | `OwnRightsKept` | a superadmin rejects himself |

Other disagreements, met while modelling, that need no model checker because one step of
the code shows them:

- `api/admin/services.py:246` writes the links of an import without `_validate_fallback`, so an
  item may name itself ("Service cannot be its own fallback", `service_registry.py:21`). The
  importer of `FallbackRegistry` does so.
- `service_registry.py:91` validates only bodies that name a fallback: a change of `service_type`
  alone leaves a link between different types ("Fallback service type mismatch", `:27`).
- `proxy/handler.py:92` calls `.get` on any JSON value, outside the `try`: an array as body of a
  streaming service raises, and no row is logged (action `Crash`).
- `main.py:56` restores `is_superadmin` and `is_approved` of the seed administrator but not
  `is_active` (`SeedAdmin`), though `README.md:208` says the start updates the account.
- `models/request_log.py:13` has no foreign key, so the log rows of a deleted user stay, though
  `UsersPage.tsx:44` announces that all data will be deleted.

- `api/admin/services.py:197` refuses a file whose services are not a list after its groups have
  been committed (`LoadGroups`): the answer is a 400, and the groups have changed.
- `api/admin/services.py:166`: two groups of one name, which nothing prevents, make an import of that name end
  with a 500, also the import of one's own export (`FindGroup`).
- `service_registry.py:81`: a service that is deleted during its item's update counts as updated (`Reread`).
- `schemas/service.py:28` has a pattern for the slug that `ServiceUpdate` (`:55`) has not: a slug changed by a PUT
  may be one that an import later refuses. (`ServicesImport` has valid slugs only.)
- `admin-ui/src/api/playground.ts:52` keeps what follows the last newline in its buffer, and the end of the
  stream drops it (`Finish`): a last line without newline is lost.
- `EmbeddingPlayground.tsx:74` and its siblings save the text that is in the field now with a result that was
  asked for with another.
- `BrowserSession`: a tab whose user is A sends as B after B logged in in another tab, until it is reloaded. A 401 that was
  caused by A's token, or by a second login with a wrong password, and comes after a login of B removes B's token (`old`).
- `api/deps.py:11` leaves a request without a token to `HTTPBearer`, whose answer is a 403 or a 401 depending on the version
  of the framework; only a 401 takes a tab that was logged out elsewhere to the login (`ServeRequest`).
- `ServicesPage.tsx:182`: the answer of a plain save closes whatever dialog is open by then; one of "Create & Check" makes
  the dialog an edit of the service that was created, whatever form it holds by then (`hasty`). A late check result is shown in it likewise.
- `ServicesPage.tsx:101`: a card that is dragged while a load is under way jumps back, and is not corrected, though the server
  has moved it; a service whose group is not (yet) in the list of groups is not shown at all (`raced`).
- `ApiKeysPage.tsx:81`: "Copy this key now" never appears for a key whose answer comes after the dialog was closed, and a second click on
  "Create" makes a second key, whose raw value replaces that of the first on the screen (`AnswerKey`).
- `services/api_key_service.py:98` negates what the row has: "Disable" on a card that another tab has made outdated enables the key (`ToggleKey`).
- `schemas/api_key.py` accepts an empty list of services, which the page never sends: to a client of the API, `ReadingsAgree` does not apply.
- `DashboardPage.tsx:67` sends the selected period with the figures fetched last; the summary also stays when the period
  changes. `:100` shows an analysis in the details that are open when it comes, also if none was asked for in these (`asked`).
- `proxy/handler.py:198` is inside the `try` and after the log call of `:168`: a response whose headers cannot be encoded is logged twice,
  once as a success and once as a 502 (`LogTwice`, `Store`).
- `proxy/handler.py:152`: a streamed response whose headers cannot be encoded is never closed (`ReplyStream`, `Leaked`); nor is one that a fallback
  replaces or whose client leaves before the first chunk. Each takes a connection of the pool for good.
- `cache/proxy_cache.py:12`: entries go by slug and no edit drops them, so what a renamed or deleted service left is answered for the next bearer
  of its slug until it expires (`CacheKey`).
- `api/admin/services.py:245` drops a link whose slug no service has, and `:214` a group that neither the file nor the user has, without an
  error in the answer (`Accounted` exempts these two and nothing else).
- `api/admin/settings.py:31`: two updates that overlap can leave the switch of one with the service of the other
  (`overlapped`). `SettingsPage.tsx` can be saved before its load has come, which stores the defaults.
- `HealthPage.tsx:49` replaces the report and keeps the diagnoses of the one before it.
- `CurlGenerator.tsx:77` writes `/api/v1/proxy/{slug}`, but the proxy is mounted at `/proxy`.
- `cache/proxy_cache.py:49`: a ttl of 0 is the default ttl, not "no caching".
- `services/api_key_service.py:63` ignores a `rate_limit_rpm` of null, so a limit cannot be taken away again, though
  the form's empty field reads "No limit" (`ApiKeysPage.tsx:258`).

### Bounds

Three rows are the least on which a chain has an inner hop to walk and on which two
updates close a cycle; two are enough for a walk that meets a cycle. One type is enough
where types are not at issue. In the request path two services give every
role (called, fallback), one key is enough because keys do not interact, and two
statuses (one good, one on the list for the fallback) tell apart all that the code
compares. One connection makes the pool a bottleneck; the fallback of a dropped stream
then has to wait for it. `MaxEdits = 2` allows a change and its reversal, or a change of
the primary and one of the fallback, between any steps, so all combinations of streaming and
caching come up, and the slug of a row that is deleted can pass to another one; `MaxRestarts = 1` puts a crash between any two steps. `MaxLogs` bounds the rows that are written, which matter to `LogsOfOwner` only; the tasks that would write them are not bounded. Three users are the seed
and two more, who may register under one name, be promoted and deleted; `MaxBoots = 2` is a
start at the beginning and one after anything else.

In the panel `MaxCalls = 2` calls may be under way when the user starts another action, which may add two or three of its
own: enough for a call to be overtaken by a newer one of its kind while a third, which reads or writes the same place,
is about. One card with one group has all the moves there are, to the group, out of it and from a group that is deleted;
cards do not interact. One key with one slug has the three lists that can be told apart: everything, nothing and
something. Two ids in the dialog are one service to edit and one that comes to be by a creation or a clone. Of periods,
queries, requests, users and tabs it takes two to mistake one for the other.

In the playground two questions let one be on its way while another playground asks the second, and
three mounted playgrounds a return to the first service while its answer is still to come. In the
import two slugs suffice for a link, for a chain that an item names before it exists, and for a slug
that another user takes: that needs two other requests, a deletion and a creation, hence
`MaxOps = 2`, which also lets the user delete both services between export and import. Four ids are
as many as two requests and an import can use up.

`AccountsOne` uses symmetry of the users and of the registrations, `ImportSession` of the ids that no
table starts with: their properties are invariants or relate one step's two states, and none is
a liveness property.

`CHECK_DEADLOCK FALSE` is set where the bounds end a behaviour: in the request path (every call has
ended, edits and restarts are used up), in the panel (in the playground no question and no mount is left) and in
the import, which has answered.

### Fairness

`FallbackRegistry!FairSpec` assumes weak fairness of the steps of a handler that has begun:
the event loop resumes a coroutine whose query has answered. Requests need not
come. `ProxyRequest!FairSpec` assumes one thing of a call: httpx looks for a free connection of its pool and gives up after
`timeout_seconds` (`Bounded`: the steps of a call that has its body and its cache lookup behind it and no connection yet). Nothing else has a timeout that
would bound it: `request.body()` waits for the client, Redis and the database have none, and the read timeout of httpx starts anew with each
byte. `Answered` therefore names what it needs, as part of the property: the call that is let in is answered if the steps that wait for something outside
(`Outside`) go on *for that call*. The others may hang for ever, in any of their steps, holding every connection; the mutant
without a pool timeout shows that the call would otherwise wait for them. Clients are not assumed to call, to read a
stream or to stay.

`AdminPanel` assumes none: axios has no timeout, so nothing makes a call of a page end. That spinners end when their calls do
is therefore stated as an invariant (`SpinnersTurn`): a spinner turns only as long as its call is under way.

## The proofs

All for any values of the constants that meet the assumptions of the modules
(`RegistryAssumption`, `ProxyAssumption`, `AccountsAssumption`, `PlaygroundAssumption`, `ImportAssumption`,
`CallsAssumption`, `KeysAssumption`, `DialogAssumption`, `BoardAssumption`, `DashAssumption`, `SettingsAssumption`,
`SessionAssumption`: the value for NULL is not an id, handlers of different kinds are different, a fallback is another
row of the table, the replies of an upstream are sequences, what is no object or no list is none, and the like).

`FallbackRegistry_proofs`
- `TypeCorrect`, `NoDangling`: whatever runs at once.
- `NeverOwnFallback`: without importers no service is its own fallback, for any number of
  concurrent updates. (No run checks it: with one updater it follows from `Acyclic`.)
- `NoCycle`, `ForestKept`: without importers and with at most one updater. `RegistryRace` and the
  unvalidated links of an import show that neither assumption can be dropped.

`Acyclic` is not inductive: when an update commits, its link is safe because of what a walk
several steps ago has seen. The invariant `WalkOK` says what the walk has established: the
rows visited so far, the updated one aside, point only to one another and to the next hop.
A creation cannot break it (visited rows exist, and only a new row gets a link) nor a deletion
(it only cuts links); when the walk ends, the visited rows are closed under links and do not
contain the updated row, and a set that keeps all its own fallbacks after the commit would give
one before it.

`ProxyRequest_proofs`
- `TypeCorrect`, `EachAttemptLoggedOnce` (`LoggedOnce`), `NoIdleConnection` (`HeldInUse`),
  `FallbackIsJustified` (`FallbackJustified`), `BeginsLive` (`StartsLive`), for any number
  of calls, services, keys, connections, edits and crashes.
- `PromiseKept` (`KeepsPromise`): `ProxyRequest` implements `ProxyPromise`, for as many.

The invariant is `CallOK(r)` for every call: for each `pc` what is known of the attempts (which one
is pending, which holds a connection, which has been logged), of which `LoggedOnce` and
`HeldInUse` are consequences; and `Justified(r)`, which carries `NeedsFallback` from the step that
decided for the fallback to the one that begins it. A call only changes its own attempt, so the
lemma `Frame` reduces every action to the call that takes it. The refinement needs one thing more, `AnswerOK`: who is
still on the way has no answer. Then each step of a call maps to one of `ProxyPromise` (`BeginMaps`, `SettleMaps`, `DeliverMaps`,
`RefuseMaps`), a crash to `Lose`, and the rest is not seen.

`Accounts_proofs`
- `TypeCorrect`, `NamesUnique`: whatever runs at once.
- `OwnRights`: when nobody asks for a rejection (`AccountsReject` shows why), for any number of requests.
- `SuperadminRemains`: without rejections and with one superadmin request at a time. Two superadmins
  who demote each other at the same time leave none, so the assumption is needed.

The invariant `JobsOK` says what was checked of a request before its commit and is still so: it
spares its actor. `Administered` adds that the one who asked still may administer, so he is the
witness after the commit.

`Playground_proofs`
- `SpinnerIsRight` (`WaitsForOwn`), `TalksPaired` (`Paired`), `TalksOfOwnService` (`OwnService`), for any number of
  services, questions, mounted playgrounds and replies.
- `StreamsWhole` (`StreamWhole`) and `PlaygroundType` (`TypeOK`), for replies of any length, cut anywhere.

None of the first three is inductive. `ViewOK` says who is waiting: a playground with the spinner has exactly
one execution under way, for its service, and the last message of its talk, if it has not been cleared,
is that execution's question, which is why the answer pairs; one without it has none. `PageOK` ties the
view to the selected service and the entries on show to it, and `GoodEntry` says of a saved talk what a
replay needs: it is complete and of one service.

`StreamsWhole` rests on what `Split` and `Pieces` compute for any text, so the module proves by induction. The library's
induction theorems take an operator and cannot be used; `WFMin`, which takes a set, can: a set of numbers that is not empty has a
least element (`Least`), so a set that has 0 and n + 1 whenever it has n has all numbers (`UpTo`). A function that is
CHOSEN by a recursive equation then exists, since the set of the lengths up to which there is one is such a set (`StepsTaken`),
and so do those of `Split` (`SplitTaken`) and `Pieces` (`PiecesLooked`). `SplitParts` says that a text may be split part by part, if the rest
of the first part is put before the second: this is what the reader does with its buffer, and `ChunkRead` concludes that
one chunk keeps `WholeSoFar`, the invariant of an execution that reads; one that does not has nothing yet.

`Calls_proofs` has no theorem of its own. It says what is left of a sequence of calls when one of them is answered, what is
there after one was sent, and how that moves the two notions the invariants of the pages are written in: the `Newest` call of a
kind, and a kind of which only a `Single` call is under way.

`ApiKeys_proofs`
- `KeysReadingsAgree` (`ReadingsAgree`), for any number of keys, services and calls, with other tabs at work.

No empty list is stored because none is sent: `Submittable` guards the form, and what the form starts from is the list,
which is what was stored. The invariant `KeysInv` says so of the table, of the list, of the loads that are under way
and of the saves that are; without the guard of the button, `ReadingsAgree` fails at the server a step later.

`AdminPanel_proofs`
- Dashboard: `DashShowsSelection` (`ShowsSelection`), `DashTextsFit` (`TextsFit`), for any periods, queries, failed requests and calls.
  Neither is inductive. In `DashInv` the *newest* load of each kind is for what is selected, or, if there is none, what is seen is (`LoadsFit`); older
  ones may be for anything, and if an answer does not cross another they are answered first. Of analyses one is under way at most,
  because the button is disabled while it is; once one was asked for in the open details, it is the one under way, or none is (`AnalysesFit`). So a
  stray one, of details closed before, cannot come after it.
- List of services: `BoardComesToRest` (`BoardSettled`), for any services, groups and calls. `BoardInv` says how far the page is from the server
  (`Near`): ahead by the one move that is under way; or a change was made whose answer starts a reload (`Coming`); or, of
  services and of groups, what the page has is so, or the newest load finds it (`LoadOf`). `raced` is when that is not so.
- Settings: `SettingsSavedWhole` (`SavedWhole`) and `SettingsType`, for any number of superadmins. `SavedWhole` alone is not inductive: what an
  update writes is the difference to what it read. `ReadsAreCurrent` says that what it read is still there, and `RowStays` that a
  row once there is never gone, so `Written` returns the form that was sent.
- Session: `SessionEndsOwn` (`EndsOwnSession`), for any number of users, tabs and requests. With the type it is inductive: the storage
  changes by being emptied, or by a login, which makes every request under way `old`; and a tab comes to a page by a login or by a reload, which gives up its
  requests, so whatever it sent before it was there is `old` or gone.
- The panel: `PanelHasPages` shows that `AdminPanel` implements each of its pages (a step of another page is a stutter), so each
  theorem about a page, those of `Playground_proofs` and `ApiKeys_proofs` included, holds of the panel that `PanelSession` checks. `PanelType` (`PanelTypeOK`) and
  `PanelSpinnersTurn` (`SpinnersTurn`) are of several pages and follow from `PanelInv`, the invariants of all of them: a flag is set when the one call
  it stands for is sent (`Single`) and reset when that call, and no other, ends.

`ServicesImport_proofs`
- `TypeCorrect` (with foreign keys and unique slugs), `OthersLeftAlone` (`OthersUntouched`) and `AnswerAccounts`
  (`Accounted`), for any tables, files and number of other requests.

The invariant `RowOK` carries the owner check from the lookup to the commit: the row in hand is the user's
as long as it exists, because owners do not change and an id is used once (`UsedOK`); a row
found by the same slug later is another row. `FileOK` carries what the schemas have
checked of the item in hand. `AccountOK` says of every item behind the import, unless a later one or other requests have
touched its slug, that its row is as the file has it (`PlacedOK`), and in the second pass that its link stands, too; of the row in
hand, that it is the one the item names (`HandOK`); that no error is noted ahead of time (`ErrorsOK`); and that the import has an id for the name of each group of the file, from the pass over
the groups on (`NamesOK`).
- `ExportComesBack` (`RoundTrip`), for any tables and any deletions between the export and the import.

`RoundTrip` speaks of the end of the import only; `RestoreOK` follows the exported file up to there. The file is whole
(`WholeFile`: each slug once, and the groups and fallbacks it names are in it, too), and stays so because it is not
touched. The database stays the file's (`StillOwn`: every service of the user is one that the file names, without a fallback
of the user where the file has none, nobody else has a slug of it, and no two groups of the user have one name): deletions
only take away, and an import of that very file only adds what it names. On its way the import notes no error (`Unharmed`)
and knows the right group for every name (`GroupsFound`), which is why no foreign key can fail. Together with `AccountOK`,
which says that each item and link is in place, this gives both inclusions (`AllBack`). That no two groups of the
export have one name is needed: `scalar_one_or_none` raises on two.

What is left to TLC: the liveness properties `UpdateEnds` and `Answered`, which are beyond the prover, and `FormOfItsOwn` and
`HealthOfItsOwn`, which say so little of a user who does not wait that a proof would not add to the run.

## What is not modelled

Data that no property tells apart: URLs, headers, authentication strategies, sizes, durations,
names. Time: an entry may expire, a key may run out and an upstream may time out at any
moment. Failures of PostgreSQL itself: a handler's query answers. The pool of database
connections. Several worker processes: the container starts one. In `ProxyRequest` a service is
not its own fallback (an import can make it one) and keeps its
owner; two bodies of one kind are one request; and `handler.py:186` keeps the length of a compressed body that httpx has
decompressed, which the server below may refuse after the call has ended. In `Playground` texts, models and parameters, presets, notes and favourites, the
generated curl commands and the toasts are left out, a service keeps its type and its streaming flag, the
loads of the history are answered in order (one that is late is a hazard of its own), and nothing is said
about liveness: the reader of a stream has no timeout. In `ServicesImport` there is one import
at a time (another one is other requests to it), items have a slug of the right form and no `clear_fallback`,
and groups have a name only. In `Accounts` usernames and passwords never change, and the rows a user
owns in other tables are left out.

Of the panel: `HealthPage.tsx` and the page of users, which show one list and reload it after each call as the list of
keys does; the check of a single card; the generated curl commands; presets, notes and favourites; the counts of
services and keys on the dashboard; the load of the settings (`SubmitSettings` takes any form instead); `themeStore.ts`,
layout and texts; which pages are for superadmins, which the server checks again. Two requests about a key that
overlap at the server are one step after the other. In `ServiceDialog` a service that is edited is not deleted meanwhile.

Statistics, the catalogue and health checks are read-only; the migrations run before the process starts. The reasons
for each are in `PROJECT.json`.

Hazards that no module covers, beyond those in `PROJECT.json`: the cascades of a deleted user, which are declarations to
the database; group names that are not unique; and the repair of the seed administrator, above.

## Plan

1. *Done*: `FallbackForest`, `FallbackRegistry`, `ProxyPromise`, `ProxyRequest`, `Accounts`, `Playground`,
   `ServicesImport`, and their proofs.
2. *Done*: `Calls`, `ServiceDialog`, `ServiceBoard`, `ApiKeys`, `Dashboard`, `Settings`, `BrowserSession`, their composition
   `AdminPanel`, and the proofs of their properties, those of the dialog excepted.
3. `DbPool`: sessions that keep their connection through an upstream call.
4. The pages of users and of health checks, presets and favourites of the playground.
5. *Done*: the proofs of `KeepsPromise`, `StartsLive`, `Accounted` and `RoundTrip`.
