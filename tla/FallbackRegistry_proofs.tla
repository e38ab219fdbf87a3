----------------------- MODULE FallbackRegistry_proofs ------------------------
(***************************************************************************)
(* Theorems of FallbackRegistry, for any set of rows and handlers.          *)
(*                                                                         *)
(*   TypeCorrect, NoDangling   whatever runs concurrently                   *)
(*   NeverOwnFallback          without imports                              *)
(*   NoCycle, ForestKept       without imports, one update at a time        *)
(*                                                                         *)
(* Acyclic is not inductive: it needs what the walk of a pending update has *)
(* established and others must not undo.  WalkOK says it: the rows visited  *)
(* so far, the updated one aside, point only to one another and to the next *)
(* hop.  Creations cannot touch them (they exist already) and deletions     *)
(* only cut links, so only another update can break it.                     *)
(***************************************************************************)
EXTENDS FallbackRegistry, TLAPS

\* Every type that Idle and the actions write belongs to Jobs.
LEMMA IdleType == Idle \in Jobs
BY DEF Idle, Jobs, Steps

\* A job keeps its type when one of the walk's steps rewrites it.
LEMMA AdvanceType ==
    ASSUME TypeOK, NEW h \in Handlers, NEW f \in Services \cup {None},
           NEW visited \in SUBSET Services, Advance(h, f, visited)
    PROVE  job' \in [Handlers -> Jobs]
<1>1. [job[h] EXCEPT !.pc = IF f = None THEN "commit" ELSE "walk", !.cur = f, !.seen = visited] \in Jobs
      BY DEF TypeOK, Jobs, Steps
<1> QED BY <1>1 DEF TypeOK, Advance

\* A job that changes is changed by a step of its own handler.
LEMMA OwnJob ==
    ASSUME TypeOK, [Next]_vars, NEW k \in Handlers, job'[k] # job[k]
    PROVE  \/ k \in Updaters /\ Update(k)
           \/ k \in Creators /\ Create(k)
           \/ k \in Importers /\ ImportLink(k)
<1> USE DEF TypeOK
<1>1. ASSUME NEW h \in Handlers, h # k, NEW j, job' = [job EXCEPT ![h] = j] PROVE FALSE
      BY <1>1
<1>2. ASSUME NEW h \in Updaters, Update(h) PROVE h = k
  <2>1. UNCHANGED job \/ \E j : job' = [job EXCEPT ![h] = j]
        BY <1>2 DEF Update, StartUpdate, NotFound, vars, Reread, LoadTarget, Walk, Advance, CommitUpdate, Finish
  <2> QED BY <2>1, <1>1 DEF Handlers
<1>3. ASSUME NEW h \in Creators, Create(h) PROVE h = k
  <2>1. UNCHANGED job \/ \E j : job' = [job EXCEPT ![h] = j]
        BY <1>3 DEF Create, StartCreate, LoadTarget, Walk, Advance, CommitCreate, Finish
  <2> QED BY <2>1, <1>1 DEF Handlers
<1>4. ASSUME NEW h \in Importers, ImportLink(h) PROVE h = k
  <2>1. UNCHANGED job \/ \E j : job' = [job EXCEPT ![h] = j]
        BY <1>4 DEF ImportLink, LoadLink, CommitLink, Finish
  <2> QED BY <2>1, <1>1 DEF Handlers
<1>5. ASSUME NEW s \in Services, DeleteService(s) PROVE FALSE
      BY <1>5 DEF DeleteService
<1>6. CASE UNCHANGED vars
      BY <1>6 DEF vars
<1> QED BY <1>2, <1>3, <1>4, <1>5, <1>6 DEF Next

\* The body of a pending creation names a service_type.
BodyTyped == \A h \in Creators : job[h].pc # "idle" => job[h].type \in Types

TypeInv == TypeOK /\ BodyTyped

\* No handler but the creation itself touches the type its body names.
LEMMA BodyTypedStep == TypeInv /\ [Next]_vars => BodyTyped'
<1> SUFFICES ASSUME TypeInv, [Next]_vars, NEW k \in Creators, job'[k].pc # "idle"
             PROVE job'[k].type \in Types
    BY DEF BodyTyped
<1> USE RegistryAssumption DEF TypeInv, TypeOK, BodyTyped
<1>1. CASE job'[k] = job[k]
      BY <1>1
<1>2. ASSUME job'[k] # job[k] PROVE Create(k)
      BY <1>2, OwnJob DEF Handlers
<1>3. CASE Create(k)
  <2>0. job[k] \in Jobs /\ k \in Handlers
        BY DEF Handlers
  <2>1. ASSUME NEW target \in Services \cup {None}, NEW type \in Types, StartCreate(k, target, type)
        PROVE job'[k].type \in Types
        BY <2>1 DEF StartCreate, Idle
  <2>2. ~Finish(k)
        BY <2>0 DEF Finish, Idle
  <2>3. ASSUME NEW f, NEW visited, Advance(k, f, visited) PROVE job'[k].type = job[k].type
        BY <2>0, <2>3 DEF Advance, Jobs
  <2>4. ASSUME LoadTarget(k) PROVE job'[k].type \in Types
    <3>1. job[k].pc # "idle" /\ job'[k].type = job[k].type
          BY <2>4, <2>2, <2>3 DEF LoadTarget
    <3> QED BY <3>1
  <2>5. ASSUME Walk(k) PROVE job'[k].type \in Types
    <3>1. CASE job' = [job EXCEPT ![k] = [job[k] EXCEPT !.pc = "commit"]]
          BY <2>0, <2>5, <3>1 DEF Walk, Jobs
    <3>2. CASE \E f, visited : Advance(k, f, visited)
          BY <2>3, <2>5, <3>2 DEF Walk
    <3> QED BY <2>5, <2>2, <3>1, <3>2 DEF Walk
  <2>6. ASSUME NEW s \in Services, CommitCreate(k, s) PROVE job'[k].type \in Types
        BY <2>6 DEF CommitCreate, Finish, Idle, Jobs
  <2> QED BY <1>3, <2>1, <2>4, <2>5, <2>6 DEF Create
<1> QED BY <1>1, <1>2, <1>3

\* Each action keeps the types, whoever else is running.
LEMMA TypeStep == TypeInv /\ [Next]_vars => TypeOK'
<1> SUFFICES ASSUME TypeInv, [Next]_vars PROVE TypeOK'
    OBVIOUS
<1> USE IdleType DEF TypeInv, TypeOK
<1>1. ASSUME NEW h \in Handlers, NEW s \in Services, NEW target \in Services \cup {None, Keep},
             NEW type \in Types \cup {Keep}, StartUpdate(h, s, target, type)
      PROVE TypeOK'
  <2>1. [Idle EXCEPT !.pc = "found", !.svc = s, !.target = target, !.type = type,
                     !.oldFb = fb[s], !.oldType = typ[s]] \in Jobs
        BY DEF Jobs, Idle, Steps
  <2> QED BY <1>1, <2>1 DEF StartUpdate
<1>2. ASSUME NEW h \in Handlers, Reread(h) PROVE TypeOK'
  <2>1. CASE job' = [job EXCEPT ![h] = Idle]
        BY <1>2, <2>1 DEF Reread
  <2>2. CASE ~Live(job[h].svc) \/ job[h].target = job[h].svc
        BY <1>2, <2>2, <2>1 DEF Reread, Finish
  <2>3. CASE Live(job[h].svc) /\ job[h].target # job[h].svc
    <3>1. {job[h].svc} \in SUBSET Services
          BY <2>3 DEF Live
    <3>2. [job[h] EXCEPT !.pc = IF job[h].target \in Services THEN "target" ELSE "commit",
                         !.seen = {job[h].svc}] \in Jobs
          BY <3>1 DEF Jobs, Steps
    <3> QED BY <1>2, <2>3, <3>2 DEF Reread
  <2> QED BY <2>2, <2>3
<1>3. ASSUME NEW h \in Handlers, LoadTarget(h) PROVE TypeOK'
  <2>1. CASE Finish(h)
        BY <1>3, <2>1 DEF LoadTarget, Finish
  <2>2. CASE ~Finish(h)
    <3>1. /\ Live(job[h].target)
          /\ Advance(h, fb[job[h].target], job[h].seen \cup {job[h].target})
          BY <1>3, <2>2 DEF LoadTarget
    <3>2. /\ fb[job[h].target] \in Services \cup {None}
          /\ job[h].seen \cup {job[h].target} \in SUBSET Services
          BY <3>1 DEF Live, Jobs
    <3> QED BY <1>3, <3>1, <3>2, AdvanceType DEF LoadTarget
  <2> QED BY <2>1, <2>2
<1>4. ASSUME NEW h \in Handlers, Walk(h) PROVE TypeOK'
  <2>1. CASE Finish(h)
        BY <1>4, <2>1 DEF Walk, Finish
  <2>2. CASE job' = [job EXCEPT ![h].pc = "commit"]
        BY <1>4, <2>2 DEF Walk, Jobs, Steps
  <2>3. CASE Live(job[h].cur) /\ Advance(h, fb[job[h].cur], job[h].seen \cup {job[h].cur})
    <3>1. /\ fb[job[h].cur] \in Services \cup {None}
          /\ job[h].seen \cup {job[h].cur} \in SUBSET Services
          BY <2>3 DEF Live, Jobs
    <3> QED BY <1>4, <2>3, <3>1, AdvanceType DEF Walk
  <2> QED BY <1>4, <2>1, <2>2, <2>3 DEF Walk
<1>5. ASSUME NEW h \in Updaters, CommitUpdate(h) PROVE TypeOK'
  <2>1. h \in Handlers /\ job[h] \in Jobs
        BY DEF Handlers
  <2>2. job' \in [Handlers -> Jobs] /\ life' = life
        BY <1>5, <2>1 DEF CommitUpdate, Finish
  <2>3. job[h].target # Keep => job[h].target \in Services \cup {None}
        BY <2>1 DEF Jobs
  <2>4. NewType(job[h]) # job[h].oldType => NewType(job[h]) \in Types
        BY <2>1 DEF Jobs, NewType
  <2>5. fb' \in [Services -> Services \cup {None}]
        BY <1>5, <2>3 DEF CommitUpdate
  <2>6. typ' \in [Services -> Types]
        BY <1>5, <2>4 DEF CommitUpdate
  <2> QED BY <2>2, <2>5, <2>6
<1>6. ASSUME NEW h \in Handlers, NEW target \in Services \cup {None}, NEW type \in Types,
             StartCreate(h, target, type)
      PROVE TypeOK'
  <2>1. [Idle EXCEPT !.pc = IF target = None THEN "commit" ELSE "target",
                     !.target = target, !.type = type] \in Jobs
        BY DEF Jobs, Idle, Steps
  <2> QED BY <1>6, <2>1 DEF StartCreate
<1>7. ASSUME NEW h \in Creators, NEW s \in Services, CommitCreate(h, s) PROVE TypeOK'
  <2>1. h \in Handlers /\ job[h].type \in Types
        BY <1>7 DEF Handlers, BodyTyped, CommitCreate
  <2>2. FkOk(job[h].target) => job[h].target \in Services \cup {None}
        BY DEF FkOk, Live
  <2> QED BY <1>7, <2>1, <2>2 DEF CommitCreate, Finish
<1>8. ASSUME NEW s \in Services, DeleteService(s) PROVE TypeOK'
      BY <1>8 DEF DeleteService
<1>9. ASSUME NEW h \in Handlers, NEW s \in Services, NEW f \in Services, LoadLink(h, s, f)
      PROVE TypeOK'
  <2>1. [Idle EXCEPT !.pc = "link", !.svc = s, !.target = f,
                     !.oldFb = fb[s], !.oldType = typ[s]] \in Jobs
        BY DEF Jobs, Idle, Steps
  <2> QED BY <1>9, <2>1 DEF LoadLink
<1>10. ASSUME NEW h \in Handlers, CommitLink(h) PROVE TypeOK'
      BY <1>10 DEF CommitLink, Finish, Live
<1>11. CASE UNCHANGED vars
      BY <1>11 DEF vars
<1> QED
    BY <1>1, <1>2, <1>3, <1>4, <1>5, <1>6, <1>7, <1>8, <1>9, <1>10, <1>11
       DEF Next, Update, Create, ImportLink, Handlers, NotFound

\* Every reachable state is of the declared types, with any number of handlers.
THEOREM TypeCorrect == Spec => []TypeOK
<1>1. Init => TypeInv
      BY IdleType DEF Init, TypeInv, TypeOK, BodyTyped, Idle, Handlers
<1>2. TypeInv /\ [Next]_vars => TypeInv'
      BY TypeStep, BodyTypedStep DEF TypeInv
<1>3. TypeInv => TypeOK
      BY DEF TypeInv
<1> QED BY <1>1, <1>2, <1>3, PTL DEF Spec

-------------------------------------------------------------------------------
(* Links join rows that exist *)

\* The foreign key and SET NULL keep every link between two rows that are there,
\* however stale the target that a handler has validated.
LEMMA DanglingStep == TypeInv /\ NoDanglingLink /\ [Next]_vars => NoDanglingLink'
<1> SUFFICES ASSUME TypeInv, NoDanglingLink, [Next]_vars PROVE NoDanglingLink'
    OBVIOUS
<1> USE RegistryAssumption DEF TypeInv, TypeOK, NoDanglingLink
<1>1. CASE UNCHANGED <<life, fb>>
      BY <1>1
<1>2. ASSUME NEW h \in Updaters, CommitUpdate(h) PROVE NoDanglingLink'
  <2>1. CASE UNCHANGED fb
        BY <1>2, <2>1 DEF CommitUpdate
  <2>2. CASE ~UNCHANGED fb
    <3>1. /\ Live(job[h].svc) /\ FkOk(job[h].target)
          /\ fb' = [fb EXCEPT ![job[h].svc] = job[h].target]
          /\ life' = life
          BY <1>2, <2>2 DEF CommitUpdate
    <3> QED BY <3>1 DEF Live, FkOk
  <2> QED BY <2>1, <2>2
<1>3. ASSUME NEW h \in Creators, NEW s \in Services, CommitCreate(h, s) PROVE NoDanglingLink'
      BY <1>3 DEF CommitCreate, FkOk, Live
<1>4. ASSUME NEW s \in Services, DeleteService(s) PROVE NoDanglingLink'
      BY <1>4 DEF DeleteService, Live
<1>5. ASSUME NEW h \in Importers, CommitLink(h) PROVE NoDanglingLink'
      BY <1>5 DEF CommitLink, Live
<1> QED
    BY <1>1, <1>2, <1>3, <1>4, <1>5
       DEF Next, vars, Update, Create, ImportLink, StartUpdate, NotFound, Reread, LoadTarget, Walk,
           StartCreate, LoadLink

\* A link joins two rows that exist: NoDanglingLink, with any number of handlers.
THEOREM NoDangling == Spec => []NoDanglingLink
<1>1. Init => TypeInv /\ NoDanglingLink
      BY IdleType DEF Init, TypeInv, TypeOK, BodyTyped, Idle, Handlers, NoDanglingLink
<1>2. TypeInv /\ NoDanglingLink /\ [Next]_vars => (TypeInv /\ NoDanglingLink)'
      BY TypeStep, BodyTypedStep, DanglingStep DEF TypeInv
<1> QED BY <1>1, <1>2, PTL DEF Spec

-------------------------------------------------------------------------------
(* No service is its own fallback, without imports *)

\* A service is never its own fallback.
NoSelfFallback == \A s \in Services : fb[s] # s

\* Past Reread, a pending update does not link a service to itself.
OtherTarget == \A h \in Updaters :
    job[h].pc \in {"target", "walk", "commit"} => job[h].target # job[h].svc

LEMMA OtherTargetStep == TypeInv /\ OtherTarget /\ [Next]_vars => OtherTarget'
<1> SUFFICES ASSUME TypeInv, OtherTarget, [Next]_vars, NEW k \in Updaters,
                    job'[k].pc \in {"target", "walk", "commit"}
             PROVE  job'[k].target # job'[k].svc
    BY DEF OtherTarget
<1> USE RegistryAssumption DEF TypeInv, TypeOK, OtherTarget
<1>1. job[k] \in Jobs /\ k \in Handlers
      BY DEF Handlers
<1>2. CASE job'[k] = job[k]
      BY <1>2
<1>3. ASSUME job'[k] # job[k] PROVE Update(k)
      BY <1>3, <1>1, OwnJob
<1>4. ~Finish(k)
      BY <1>1 DEF Finish, Idle
<1>5. ASSUME NEW s \in Services, NEW target \in Services \cup {None, Keep},
             NEW type \in Types \cup {Keep}, StartUpdate(k, s, target, type)
      PROVE FALSE
      BY <1>1, <1>5 DEF StartUpdate, Idle
<1>6. CASE Reread(k)
  <2>1. job[k].target # job[k].svc
        BY <1>4, <1>6 DEF Reread
  <2>2. job' = [job EXCEPT ![k] =
                   [job[k] EXCEPT !.pc = IF job[k].target \in Services THEN "target" ELSE "commit",
                                  !.seen = {job[k].svc}]]
        BY <1>4, <1>6 DEF Reread
  <2> QED BY <1>1, <2>1, <2>2 DEF Jobs
<1>7. ASSUME NEW f, NEW visited, Advance(k, f, visited)
      PROVE job'[k].target = job[k].target /\ job'[k].svc = job[k].svc
      BY <1>1, <1>7 DEF Advance, Jobs
<1>8. CASE LoadTarget(k)
  <2>1. job[k].pc = "target" /\ \E f, visited : Advance(k, f, visited)
        BY <1>4, <1>8 DEF LoadTarget
  <2> QED BY <2>1, <1>7
<1>9. CASE Walk(k)
  <2>1. CASE job' = [job EXCEPT ![k] = [job[k] EXCEPT !.pc = "commit"]]
        BY <1>1, <1>9, <2>1 DEF Walk, Jobs
  <2>2. CASE \E f, visited : Advance(k, f, visited)
        BY <1>7, <1>9, <2>2 DEF Walk
  <2> QED BY <1>4, <1>9, <2>1, <2>2 DEF Walk
<1>10. CASE CommitUpdate(k)
      BY <1>4, <1>10 DEF CommitUpdate
<1>11. CASE UNCHANGED vars
      BY <1>11 DEF vars
<1> QED BY <1>2, <1>3, <1>5, <1>6, <1>8, <1>9, <1>10, <1>11 DEF Update, NotFound

\* What the commits rely on: the target of a link being written is another row.
LEMMA SelfStep ==
    ASSUME Importers = {}
    PROVE  TypeInv /\ OtherTarget /\ NoSelfFallback /\ [Next]_vars => NoSelfFallback'
<1> SUFFICES ASSUME TypeInv, OtherTarget, NoSelfFallback, [Next]_vars PROVE NoSelfFallback'
    OBVIOUS
<1> USE RegistryAssumption DEF TypeInv, TypeOK, NoSelfFallback
<1>1. CASE UNCHANGED fb
      BY <1>1
<1>2. ASSUME NEW h \in Updaters, CommitUpdate(h) PROVE NoSelfFallback'
      BY <1>2 DEF CommitUpdate, OtherTarget
<1>3. ASSUME NEW h \in Creators, NEW s \in Services, CommitCreate(h, s) PROVE NoSelfFallback'
      BY <1>3 DEF CommitCreate, FkOk, Live
<1>4. ASSUME NEW s \in Services, DeleteService(s) PROVE NoSelfFallback'
      BY <1>4 DEF DeleteService
<1> QED
    BY <1>1, <1>2, <1>3, <1>4
       DEF Next, vars, Update, Create, StartUpdate, NotFound, Reread, LoadTarget, Walk, StartCreate

\* However many updates and creations run at once, none makes a service its own
\* fallback. (An import can: its second pass does not validate.)
THEOREM NeverOwnFallback == ASSUME Importers = {} PROVE Spec => []NoSelfFallback
<1>1. Init => TypeInv /\ OtherTarget /\ NoSelfFallback
  <2>1. Init => TypeInv
        BY IdleType DEF Init, TypeInv, TypeOK, BodyTyped, Idle, Handlers
  <2>2. Init => OtherTarget /\ NoSelfFallback
        BY RegistryAssumption DEF Init, OtherTarget, NoSelfFallback, Idle, Handlers
  <2> QED BY <2>1, <2>2
<1>2. TypeInv /\ OtherTarget /\ NoSelfFallback /\ [Next]_vars
         => (TypeInv /\ OtherTarget /\ NoSelfFallback)'
      BY TypeStep, BodyTypedStep, OtherTargetStep, SelfStep DEF TypeInv
<1> QED BY <1>1, <1>2, PTL DEF Spec

-------------------------------------------------------------------------------
(* No cycle, without imports and with one update at a time *)

OneUpdate == Importers = {} /\ \A g, h \in Updaters : g = h

\* The rows an update's walk has visited, the updated one aside.
Visited(j) == j.seen \ {j.svc}

\* What the walk of a pending update has established: the visited rows exist, and
\* point to nothing but one another and the hop to come.
Checked(j) ==
    /\ j.svc \in j.seen /\ j.target \in Visited(j)
    /\ \A v \in Visited(j) :
         /\ life[v] # "unborn"
         /\ fb[v] \in Visited(j) \cup {None} \cup (IF j.pc = "walk" THEN {j.cur} ELSE {})
    /\ j.pc = "walk" => j.cur \in Services /\ life[j.cur] # "unborn"

JobOK(j) ==
    /\ j.pc = "target" => j.seen = {j.svc} /\ j.target # j.svc /\ j.target \in Services
    /\ j.pc = "walk" => j.target \in Services
    /\ j.pc \in {"walk", "commit"} /\ j.target \in Services => Checked(j)

WalkOK == \A h \in Updaters : JobOK(job[h])

IInv == TypeInv /\ NoDanglingLink /\ WalkOK /\ Acyclic

\* Cutting links makes no cycle.
LEMMA FewerLinks ==
    ASSUME Acyclic, NEW g, \A s \in Services : g[s] = fb[s] \/ g[s] \notin Services
    PROVE  \A T \in SUBSET Services : T # {} => \E s \in T : g[s] \notin T
BY DEF Acyclic

\* A row that nothing points to may point anywhere but to itself.
LEMMA LinkFromNewRow ==
    ASSUME Acyclic, NEW n \in Services, \A s \in Services : fb[s] # n,
           NEW f, f # n, fb \in [Services -> Services \cup {None}]
    PROVE  \A T \in SUBSET Services : T # {} => \E s \in T : [fb EXCEPT ![n] = f][s] \notin T
<1> SUFFICES ASSUME NEW T \in SUBSET Services, T # {},
                    \A s \in T : [fb EXCEPT ![n] = f][s] \in T
             PROVE  FALSE
    OBVIOUS
\* Without n the set is still closed, and still not empty.
<1>1. T \ {n} # {}
      BY DEF Acyclic
<1>2. \A s \in T \ {n} : fb[s] \in T \ {n}
      OBVIOUS
<1>3. T \ {n} \in SUBSET Services
      OBVIOUS
<1> QED BY <1>1, <1>2, <1>3 DEF Acyclic

\* The link that a completed walk allows: its target lies in a set V that the links
\* do not leave and that does not contain the linking row.
LEMMA LinkIntoClosed ==
    ASSUME Acyclic, NEW n \in Services, NEW V \in SUBSET Services, n \notin V,
           \A v \in V : fb[v] \in V \cup {None}, None \notin Services,
           NEW f \in V, fb \in [Services -> Services \cup {None}]
    PROVE  \A T \in SUBSET Services : T # {} => \E s \in T : [fb EXCEPT ![n] = f][s] \notin T
<1> SUFFICES ASSUME NEW T \in SUBSET Services, T # {},
                    \A s \in T : [fb EXCEPT ![n] = f][s] \in T
             PROVE  FALSE
    OBVIOUS
<1>1. CASE n \notin T
  <2>1. \A s \in T : fb[s] \in T
        BY <1>1
  <2> QED BY <2>1 DEF Acyclic
<1>2. CASE n \in T
  <2>1. f \in T \cap V
        BY <1>2
  <2>2. \A s \in T \cap V : fb[s] \in T \cap V
        OBVIOUS
  <2>3. T \cap V \in SUBSET Services
        OBVIOUS
  <2> QED BY <2>1, <2>2, <2>3 DEF Acyclic
<1> QED BY <1>1, <1>2

\* Every step leaves the table without a cycle.
LEMMA AcyclicStep == ASSUME OneUpdate, IInv, [Next]_vars PROVE Acyclic'
<1> USE RegistryAssumption DEF IInv, TypeInv, TypeOK
<1>1. CASE UNCHANGED fb
      BY <1>1 DEF Acyclic
<1>2. ASSUME NEW h \in Updaters, CommitUpdate(h) PROVE Acyclic'
  <2> DEFINE j == job[h]
  <2>1. CASE UNCHANGED fb
        BY <1>1, <2>1
  <2>2. CASE ~UNCHANGED fb
    <3>1. /\ j.pc = "commit" /\ Live(j.svc) /\ FkOk(j.target)
          /\ fb' = [fb EXCEPT ![j.svc] = j.target]
          BY <1>2, <2>2 DEF CommitUpdate
    <3>2. CASE j.target = None
          BY <3>1, <3>2, FewerLinks DEF Acyclic, Live
    <3>3. CASE j.target \in Services
      <4>1. Checked(j)
            BY <3>1, <3>3 DEF WalkOK, JobOK
      <4>2. /\ Visited(j) \in SUBSET Services /\ j.svc \notin Visited(j)
            /\ j.target \in Visited(j)
            /\ \A v \in Visited(j) : fb[v] \in Visited(j) \cup {None}
            BY <3>1, <4>1 DEF Checked, Visited, Jobs, Handlers
      <4>3. j.svc \in Services
            BY <3>1 DEF Live
      <4> QED BY <3>1, <4>2, <4>3, LinkIntoClosed DEF Acyclic
    <3> QED BY <3>1, <3>2, <3>3 DEF FkOk, Live
  <2> QED BY <2>1, <2>2
<1>3. ASSUME NEW h \in Creators, NEW s \in Services, CommitCreate(h, s) PROVE Acyclic'
  <2>1. CASE UNCHANGED fb
        BY <1>1, <2>1
  <2>2. CASE fb' = [fb EXCEPT ![s] = job[h].target] /\ FkOk(job[h].target)
    <3>1. /\ life[s] = "unborn" /\ job[h].target # s
          /\ \A x \in Services : fb[x] # s
          BY <1>3, <2>2 DEF CommitCreate, FkOk, Live, NoDanglingLink
    <3> QED BY <2>2, <3>1, LinkFromNewRow DEF Acyclic
  <2> QED BY <1>3, <2>1, <2>2 DEF CommitCreate
<1>4. ASSUME NEW s \in Services, DeleteService(s) PROVE Acyclic'
  <2>1. \A x \in Services : fb'[x] = fb[x] \/ fb'[x] \notin Services
        BY <1>4 DEF DeleteService
  <2> QED BY <2>1, FewerLinks DEF Acyclic
<1> QED
    BY <1>1, <1>2, <1>3, <1>4
       DEF OneUpdate, Next, vars, Update, Create, StartUpdate, NotFound, Reread, LoadTarget, Walk,
           StartCreate

\* The walk of the one pending update: its own steps extend what is established...
LEMMA WalkOwnStep ==
    ASSUME IInv, NEW k \in Updaters, Update(k)
    PROVE  JobOK(job[k])'
<1> USE RegistryAssumption DEF IInv, TypeInv, TypeOK
<1>1. job[k] \in Jobs /\ k \in Handlers
      BY DEF Handlers
<1>2. CASE job'[k].pc \in {"idle", "found"}
      BY <1>2 DEF JobOK
<1>3. CASE Reread(k) /\ ~Finish(k)
  <2>1. /\ Live(job[k].svc) /\ job[k].target # job[k].svc
        /\ job'[k] = [job[k] EXCEPT !.pc = IF job[k].target \in Services THEN "target" ELSE "commit",
                                    !.seen = {job[k].svc}]
        BY <1>1, <1>3 DEF Reread
  <2> QED BY <1>1, <2>1 DEF Jobs, JobOK
<1>4. CASE LoadTarget(k) /\ ~Finish(k)
  <2> DEFINE t == job[k].target
  <2>1. /\ Live(t) /\ job[k].seen = {job[k].svc} /\ t # job[k].svc /\ UNCHANGED <<life, fb>>
        /\ job'[k] = [job[k] EXCEPT !.pc = IF fb[t] = None THEN "commit" ELSE "walk",
                                    !.cur = fb[t], !.seen = job[k].seen \cup {t}]
        BY <1>1, <1>4 DEF LoadTarget, Advance, WalkOK, JobOK
  <2>2. fb[t] # None => fb[t] \in Services /\ life[fb[t]] # "unborn"
        BY <2>1 DEF NoDanglingLink, Live
  <2>3. /\ job'[k].target = t /\ job'[k].svc = job[k].svc /\ job'[k].seen = {job[k].svc, t}
        /\ job'[k].pc = IF fb[t] = None THEN "commit" ELSE "walk"
        /\ job'[k].cur = fb[t]
        BY <1>1, <2>1 DEF Jobs
  <2>4. Visited(job[k])' = {t}
        BY <2>1, <2>3 DEF Visited
  <2>5. Checked(job[k])'
        BY <2>1, <2>2, <2>3, <2>4 DEF Checked, Live
  <2> QED BY <2>1, <2>3, <2>5 DEF JobOK, Live
<1>5. CASE Walk(k) /\ ~Finish(k)
  <2> DEFINE c == job[k].cur
  <2>1. /\ job[k].pc = "walk" /\ Checked(job[k]) /\ job[k].target \in Services
        /\ UNCHANGED <<life, fb>>
        BY <1>5 DEF Walk, WalkOK, JobOK
  <2>2. CASE ~Live(c)
    <3>1. job'[k] = [job[k] EXCEPT !.pc = "commit"]
          BY <1>1, <1>5, <2>2 DEF Walk
    <3>2. /\ job'[k].target = job[k].target /\ job'[k].svc = job[k].svc
          /\ job'[k].seen = job[k].seen /\ job'[k].pc = "commit"
          BY <1>1, <3>1 DEF Jobs
    \* The hop is gone, and with it every link to it.
    <3>3. \A v \in Visited(job[k]) : fb[v] # c
          BY <1>1, <2>1, <2>2 DEF Checked, Visited, Jobs, NoDanglingLink, Live
    <3>4. Visited(job[k])' = Visited(job[k])
          BY <3>2 DEF Visited
    <3>5. Checked(job[k])'
          BY <2>1, <3>2, <3>3, <3>4 DEF Checked
    <3> QED BY <2>1, <3>2, <3>5 DEF JobOK
  <2>3. CASE Live(c)
    <3>1. /\ c \notin job[k].seen
          /\ job'[k] = [job[k] EXCEPT !.pc = IF fb[c] = None THEN "commit" ELSE "walk",
                                      !.cur = fb[c], !.seen = job[k].seen \cup {c}]
          BY <1>1, <1>5, <2>3 DEF Walk, Advance
    <3>2. /\ job'[k].target = job[k].target /\ job'[k].svc = job[k].svc
          /\ job'[k].seen = job[k].seen \cup {c} /\ job'[k].cur = fb[c]
          /\ job'[k].pc = IF fb[c] = None THEN "commit" ELSE "walk"
          BY <1>1, <3>1 DEF Jobs
    <3>3. fb[c] # None => fb[c] \in Services /\ life[fb[c]] # "unborn"
          BY <2>3 DEF NoDanglingLink, Live
    <3>4. c # job[k].svc
          BY <2>1, <3>1 DEF Checked
    <3>5. Visited(job[k])' = Visited(job[k]) \cup {c}
          BY <3>2, <3>4 DEF Visited
    <3>6. Checked(job[k])'
          BY <2>1, <2>3, <3>2, <3>3, <3>5 DEF Checked, Live
    <3> QED BY <2>1, <3>2, <3>6 DEF JobOK
  <2> QED BY <2>2, <2>3
<1>6. ASSUME Finish(k) PROVE job'[k].pc = "idle"
      BY <1>1, <1>6 DEF Finish, Idle
<1>7. ASSUME NEW s \in Services, NEW target \in Services \cup {None, Keep},
             NEW type \in Types \cup {Keep}, StartUpdate(k, s, target, type)
      PROVE  job'[k].pc = "found"
      BY <1>1, <1>7 DEF StartUpdate, Idle
<1>8. ASSUME NEW s \in Services, NotFound(k, s) PROVE job'[k].pc = "idle"
      BY <1>8 DEF NotFound, vars
<1>9. ASSUME CommitUpdate(k) PROVE Finish(k)
      BY <1>9 DEF CommitUpdate
<1> QED BY <1>2, <1>3, <1>4, <1>5, <1>6, <1>7, <1>8, <1>9 DEF Update

\* ... and the steps of creations and deletions leave it alone.
LEMMA WalkStep == ASSUME OneUpdate, IInv, [Next]_vars PROVE WalkOK'
<1> USE RegistryAssumption DEF IInv, TypeInv, TypeOK
<1> SUFFICES ASSUME NEW k \in Updaters
             PROVE  JobOK(job[k])'
    BY DEF WalkOK
<1>1. job[k] \in Jobs /\ k \in Handlers
      BY DEF Handlers
<1>2. CASE Update(k)
      BY <1>2, WalkOwnStep
<1>3. CASE ~Update(k)
  <2>1. job'[k] = job[k]
        BY <1>1, <1>3, OwnJob
  <2>2. ASSUME Checked(job[k]) PROVE Checked(job[k])'
    <3>1. \A v \in Services : life[v] # "unborn" => life'[v] # "unborn" /\ fb'[v] \in {fb[v], None}
      <4>1. ASSUME NEW h \in Creators, Create(h), NEW v \in Services, life[v] # "unborn"
            PROVE life'[v] # "unborn" /\ fb'[v] = fb[v]
            BY <4>1 DEF Create, StartCreate, LoadTarget, Walk, CommitCreate
      <4>2. ASSUME NEW s \in Services, DeleteService(s), NEW v \in Services, life[v] # "unborn"
            PROVE life'[v] # "unborn" /\ fb'[v] \in {fb[v], None}
            BY <4>2 DEF DeleteService
      <4>3. CASE UNCHANGED vars
            BY <4>3 DEF vars
      <4> QED BY <1>3, <4>1, <4>2, <4>3 DEF OneUpdate, Next
    <3>2. Visited(job[k]) \in SUBSET Services
          BY <1>1 DEF Visited, Jobs
    <3> QED BY <2>1, <2>2, <3>1, <3>2 DEF Checked, Visited
  <2> QED BY <2>1, <2>2 DEF WalkOK, JobOK
<1> QED BY <1>2, <1>3

\* Initially there is no link at all.
LEMMA InitIInv == Init => IInv
<1>1. Init => TypeInv
      BY IdleType DEF Init, TypeInv, TypeOK, BodyTyped, Idle, Handlers
<1>2. Init => NoDanglingLink /\ WalkOK /\ Acyclic
      BY RegistryAssumption DEF Init, NoDanglingLink, WalkOK, JobOK, Acyclic, Idle, Handlers
<1> QED BY <1>1, <1>2 DEF IInv

LEMMA IInvStep == ASSUME OneUpdate PROVE IInv /\ [Next]_vars => IInv'
BY TypeStep, BodyTypedStep, DanglingStep, WalkStep, AcyclicStep DEF IInv, TypeInv

\* While updates come one at a time, creations and deletions may interleave with
\* them at every await and no chain of fallbacks ever becomes a cycle.
THEOREM NoCycle == ASSUME OneUpdate PROVE Spec => []Acyclic
<1>1. IInv => Acyclic
      BY DEF IInv
<1> QED BY <1>1, InitIInv, IInvStep, PTL DEF Spec

\* Under the same conditions the handlers implement FallbackForest: each of their
\* steps is one of its steps, or changes nothing it can see.
THEOREM ForestKept == ASSUME OneUpdate PROVE Spec => KeepsForest
<1>1. Init => Forest!Init
      BY DEF Init, Forest!Init
<1>2. IInv /\ [Next]_vars => [Forest!Next]_(Forest!vars)
  <2> SUFFICES ASSUME IInv, [Next]_vars, ~UNCHANGED <<life, fb>> PROVE Forest!Next
      BY DEF Forest!vars
  <2> USE RegistryAssumption DEF IInv, TypeInv, TypeOK
  <2>1. Acyclic'
        BY IInvStep
  <2>2. ASSUME NEW h \in Updaters, CommitUpdate(h) PROVE Forest!Next
    <3>1. /\ Live(job[h].svc) /\ FkOk(job[h].target) /\ UNCHANGED life
          /\ fb' = [fb EXCEPT ![job[h].svc] = job[h].target]
          BY <2>2 DEF CommitUpdate
    <3>2. CASE job[h].target = None
          BY <3>1, <3>2 DEF Forest!Next, Forest!Unlink, Forest!Live, Live
    <3>3. CASE Live(job[h].target)
          BY <2>1, <3>1, <3>3 DEF Forest!Next, Forest!Link, Forest!Live, Live, Acyclic, Forest!Acyclic
    <3> QED BY <3>1, <3>2, <3>3 DEF FkOk
  <2>3. ASSUME NEW h \in Creators, NEW s \in Services, CommitCreate(h, s) PROVE Forest!Next
        BY <2>3 DEF CommitCreate, Forest!Next, Forest!Add, Forest!Live, FkOk, Live
  <2>4. ASSUME NEW s \in Services, DeleteService(s) PROVE Forest!Next
        BY <2>4 DEF DeleteService, Forest!Next, Forest!Remove, Forest!Live, Live
  <2> QED
      BY <2>2, <2>3, <2>4
         DEF OneUpdate, Next, vars, Update, Create, StartUpdate, NotFound, Reread, LoadTarget, Walk,
             StartCreate
<1> QED BY <1>1, <1>2, InitIInv, IInvStep, PTL DEF Spec, KeepsForest, Forest!Spec
===============================================================================
