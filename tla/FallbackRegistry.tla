--------------------------- MODULE FallbackRegistry ---------------------------
(***************************************************************************)
(* The handlers that write services.fallback_service_id, as they interleave *)
(* at their awaits: create_service and update_service of                    *)
(* src/services/service_registry.py (with _validate_fallback, which walks   *)
(* the chain one SELECT per hop), delete_service, and the second pass of    *)
(* import_services in src/api/admin/services.py, which links by slug        *)
(* without validating.                                                      *)
(*                                                                         *)
(* PostgreSQL runs at READ COMMITTED: a SELECT sees what is committed, and  *)
(* nothing a handler has read is protected until its own commit.  The       *)
(* foreign key and ON DELETE SET NULL of models/service.py hold at every    *)
(* commit.  A session keeps the attributes of a row it has loaded, so a     *)
(* value equal to the loaded one is not written (SQLAlchemy flushes net     *)
(* changes only).                                                          *)
(***************************************************************************)
CONSTANTS Services,    \* ids a service row can ever get (uuid4, never reused)
          Existing,    \* the rows there when the program starts, without links
          Types,       \* values of service_type
          Updaters,    \* concurrent PUT /services/{id} requests
          Creators,    \* concurrent POST /services requests
          Importers,   \* concurrent POST /services-import requests, at their second pass
          None,        \* SQL NULL / Python None
          Keep         \* a field the request body does not set

Handlers == Updaters \cup Creators \cup Importers

ASSUME RegistryAssumption ==
    /\ Existing \subseteq Services
    /\ None \notin Services /\ Keep \notin Services \cup Types \cup {None}
    /\ Updaters \cap Creators = {} /\ Updaters \cap Importers = {}
    /\ Creators \cap Importers = {}

VARIABLES life,        \* life[s]: is the row s not yet inserted, live, or deleted
          fb,          \* fb[s]: fallback_service_id
          typ,         \* typ[s]: service_type
          job          \* job[h]: locals of the handler h

vars == <<life, fb, typ, job>>

Steps == {"idle", "found", "target", "walk", "commit", "link"}

Jobs == [pc      : Steps,
         svc     : Services \cup {None},          \* service_id (None: being created)
         target  : Services \cup {None, Keep},    \* fallback_service_id of the body
         type    : Types \cup {Keep},             \* service_type of the body
         oldFb   : Services \cup {None},          \* attributes as the session loaded them
         oldType : Types \cup {Keep},
         cur     : Services \cup {None},          \* next hop of the walk
         seen    : SUBSET Services]               \* visited

Idle == [pc |-> "idle", svc |-> None, target |-> Keep, type |-> Keep,
         oldFb |-> None, oldType |-> Keep, cur |-> None, seen |-> {}]

TypeOK == /\ life \in [Services -> {"unborn", "live", "deleted"}]
          /\ fb \in [Services -> Services \cup {None}]
          /\ typ \in [Services -> Types]
          /\ job \in [Handlers -> Jobs]

Init == /\ life = [s \in Services |-> IF s \in Existing THEN "live" ELSE "unborn"]
        /\ fb = [s \in Services |-> None]
        /\ typ \in [Services -> Types]
        /\ job = [h \in Handlers |-> Idle]

Live(s) == s \in Services /\ life[s] = "live"

\* Mutant of NewType: the body's field is taken even when it is not set.
NewTypeOfBody(j) == j.type

\* The service_type the row will have: that of the body, else the loaded one.
NewType(j) == IF j.type = Keep THEN j.oldType ELSE j.type

Finish(h) == job' = [job EXCEPT ![h] = Idle]

-------------------------------------------------------------------------------
(* PUT /services/{id} *)

\* admin_update_service: the row is loaded (and its owner checked).
StartUpdate(h, s, target, type) ==
    /\ job[h].pc = "idle"
    /\ Live(s)
    /\ job' = [job EXCEPT ![h] = [Idle EXCEPT !.pc = "found", !.svc = s,
                                              !.target = target, !.type = type,
                                              !.oldFb = fb[s], !.oldType = typ[s]]]
    /\ UNCHANGED <<life, fb, typ>>

\* 404: the id names no row.
NotFound(h, s) == /\ job[h].pc = "idle"
                  /\ ~Live(s)
                  /\ UNCHANGED vars

\* Mutant of Reread: an update validated as if it were a creation (no service_id).
RereadNoServiceId(h) ==
    /\ job[h].pc = "found"
    /\ IF ~Live(job[h].svc)
         THEN Finish(h)
         ELSE job' = [job EXCEPT ![h].pc =
                         IF job[h].target \in Services THEN "target" ELSE "commit"]
    /\ UNCHANGED <<life, fb, typ>>

\* update_service selects the row again and decides whether to validate.
Reread(h) ==
    /\ job[h].pc = "found"
    /\ LET j == job[h]
           gone == ~Live(j.svc)
           self == j.target = j.svc
       IN IF gone \/ self
            THEN Finish(h)
            ELSE job' = [job EXCEPT ![h] =
                            [j EXCEPT !.pc = IF j.target \in Services THEN "target" ELSE "commit",
                                      !.seen = {j.svc}]]
    /\ UNCHANGED <<life, fb, typ>>

-------------------------------------------------------------------------------
(* _validate_fallback, for an update (seen starts as {service_id}) and for a *)
(* creation (seen starts empty).                                             *)

\* Mutant of Advance: the walk forgets where it has been.
AdvanceForgetful(h, f, visited) ==
    job' = [job EXCEPT ![h] = [job[h] EXCEPT !.pc = IF f = None THEN "commit" ELSE "walk",
                                             !.cur = f]]

\* The walk moves on to f, or is over when there is no further hop.
Advance(h, f, visited) ==
    job' = [job EXCEPT ![h] = [job[h] EXCEPT !.pc = IF f = None THEN "commit" ELSE "walk",
                                             !.cur = f,
                                             !.seen = visited]]

\* First hop: the target must exist, have the type of the service and be new.
LoadTarget(h) ==
    /\ job[h].pc = "target"
    /\ LET t == job[h].target
       IN IF Live(t) /\ typ[t] = NewType(job[h]) /\ t \notin job[h].seen
            THEN Advance(h, fb[t], job[h].seen \cup {t})
            ELSE Finish(h)
    /\ UNCHANGED <<life, fb, typ>>

\* One further hop of the while loop: a row that is gone ends the walk, a row
\* already visited rejects the request.
Walk(h) ==
    /\ job[h].pc = "walk"
    /\ LET c == job[h].cur
       IN \/ ~Live(c) /\ job' = [job EXCEPT ![h] = [job[h] EXCEPT !.pc = "commit"]]
          \/ Live(c) /\ c \in job[h].seen /\ Finish(h)
          \/ Live(c) /\ c \notin job[h].seen /\ Advance(h, fb[c], job[h].seen \cup {c})
    /\ UNCHANGED <<life, fb, typ>>

-------------------------------------------------------------------------------
(* The commits *)

\* Mutant of FkOk: the column has no foreign key.
FkOkAlways(f) == TRUE

\* The foreign key accepts this value.
FkOk(f) == f = None \/ Live(f)

\* update_service flushes the attributes that differ from the loaded ones. A row
\* deleted meanwhile (StaleDataError) and a fallback deleted meanwhile
\* (IntegrityError) roll the whole update back.
CommitUpdate(h) ==
    /\ job[h].pc = "commit"
    /\ LET j == job[h]
           setFb == j.target # Keep /\ j.target # j.oldFb
           setType == NewType(j) # j.oldType
       IN IF Live(j.svc) /\ (setFb => FkOk(j.target))
            THEN /\ fb' = IF setFb THEN [fb EXCEPT ![j.svc] = j.target] ELSE fb
                 /\ typ' = IF setType THEN [typ EXCEPT ![j.svc] = NewType(j)] ELSE typ
            ELSE UNCHANGED <<fb, typ>>
    /\ Finish(h)
    /\ UNCHANGED life

\* POST /services: create_service validates only a body that names a fallback.
StartCreate(h, target, type) ==
    /\ job[h].pc = "idle"
    /\ job' = [job EXCEPT ![h] = [Idle EXCEPT !.pc = IF target = None THEN "commit" ELSE "target",
                                              !.target = target, !.type = type]]
    /\ UNCHANGED <<life, fb, typ>>

\* The INSERT; it fails on a fallback deleted since the walk.
CommitCreate(h, s) ==
    /\ job[h].pc = "commit"
    /\ life[s] = "unborn"
    /\ IF FkOk(job[h].target)
         THEN /\ life' = [life EXCEPT ![s] = "live"]
              /\ fb' = [fb EXCEPT ![s] = job[h].target]
              /\ typ' = [typ EXCEPT ![s] = job[h].type]
         ELSE UNCHANGED <<life, fb, typ>>
    /\ Finish(h)

\* Mutant of DeleteService: the foreign key without ON DELETE SET NULL.
DeleteServiceLeavesLinks(s) ==
    /\ Live(s)
    /\ life' = [life EXCEPT ![s] = "deleted"]
    /\ UNCHANGED <<fb, typ, job>>

\* DELETE /services/{id}: one DELETE statement, and the foreign key's SET NULL.
DeleteService(s) ==
    /\ Live(s)
    /\ life' = [life EXCEPT ![s] = "deleted"]
    /\ fb' = [x \in Services |-> IF x = s \/ fb[x] = s THEN None ELSE fb[x]]
    /\ UNCHANGED <<typ, job>>

\* import_services, second pass: both rows are loaded by slug...
LoadLink(h, s, f) ==
    /\ job[h].pc = "idle"
    /\ Live(s) /\ Live(f)
    /\ job' = [job EXCEPT ![h] = [Idle EXCEPT !.pc = "link", !.svc = s, !.target = f,
                                              !.oldFb = fb[s], !.oldType = typ[s]]]
    /\ UNCHANGED <<life, fb, typ>>

\* ... and the link is written without a walk.
CommitLink(h) ==
    /\ job[h].pc = "link"
    /\ LET j == job[h]
       IN fb' = IF Live(j.svc) /\ Live(j.target) /\ j.target # j.oldFb
                  THEN [fb EXCEPT ![j.svc] = j.target] ELSE fb
    /\ Finish(h)
    /\ UNCHANGED <<life, typ>>

-------------------------------------------------------------------------------
Update(h) == \/ \E s \in Services, target \in Services \cup {None, Keep}, type \in Types \cup {Keep} :
                    StartUpdate(h, s, target, type)
             \/ \E s \in Services : NotFound(h, s)
             \/ Reread(h)
             \/ LoadTarget(h)
             \/ Walk(h)
             \/ CommitUpdate(h)

Create(h) == \/ \E target \in Services \cup {None}, type \in Types : StartCreate(h, target, type)
             \/ LoadTarget(h)
             \/ Walk(h)
             \/ \E s \in Services : CommitCreate(h, s)

ImportLink(h) == \/ \E s, f \in Services : LoadLink(h, s, f)
                 \/ CommitLink(h)

Next == \/ \E h \in Updaters : Update(h)
        \/ \E h \in Creators : Create(h)
        \/ \E h \in Importers : ImportLink(h)
        \/ \E s \in Services : DeleteService(s)

Spec == Init /\ [][Next]_vars

\* The event loop resumes a handler whose query has answered: a handler that has
\* begun takes its next step. Nobody has to send a request.
Resume(h) == \/ Reread(h) \/ LoadTarget(h) \/ Walk(h)
             \/ h \in Updaters /\ CommitUpdate(h)
             \/ h \in Importers /\ CommitLink(h)

FairSpec == Spec /\ \A h \in Updaters \cup Importers : WF_vars(Resume(h))

-------------------------------------------------------------------------------
(* Properties *)

\* _validate_fallback's purpose: no chain of fallbacks leads back to its start.
Acyclic == \A T \in SUBSET Services : T # {} => \E s \in T : fb[s] \notin T

\* A link always joins two rows that exist, whatever was deleted between the walk
\* that checked the target and the commit that links to it.
NoDanglingLink ==
    \A s \in Services : fb[s] # None => life[s] = "live" /\ life[fb[s]] = "live"

\* The visited set bounds the walk: whatever the other handlers do to the chain
\* while it is walked, and even on a table that already has a cycle, an update ends.
UpdateEnds == \A h \in Updaters \cup Importers : job[h].pc # "idle" ~> job[h].pc = "idle"

\* With one update at a time the handlers keep what FallbackForest promises.
Forest == INSTANCE FallbackForest
KeepsForest == Forest!Spec
===============================================================================
