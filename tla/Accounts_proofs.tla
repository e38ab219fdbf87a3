---------------------------- MODULE Accounts_proofs ---------------------------
(***************************************************************************)
(* Theorems of Accounts, for any sets of users, names and requests.        *)
(*                                                                         *)
(*   TypeCorrect, NamesUnique   whatever runs concurrently                  *)
(*   OwnRights                  without reject                              *)
(*   SuperadminRemains          without reject, one request at a time       *)
(*                                                                         *)
(* The last two rest on JobsOK: what Authorize and Load have checked of a   *)
(* request is still so when it commits, because nothing rewrites a request. *)
(***************************************************************************)
EXTENDS Accounts, TLAPS

USE DEF Flags, Fields

LEMMA AssignsType ==
    ASSUME NEW op \in Ops, NEW patch \in Patches
    PROVE  Assigns(op, patch) \in Fields
BY AccountsAssumption, SMT DEF AccountsAssumption, Assigns

\* Inserting a row keeps the types of the columns.
LEMMA InsertType ==
    ASSUME TypeOK, NEW u \in Users, NEW n \in Names, NEW values \in [Flags -> BOOLEAN],
           Insert(u, n, values)
    PROVE  /\ life' \in [Users -> {"unborn", "live", "deleted"}]
           /\ name' \in [Users -> Names]
           /\ flags' \in [Users -> [Flags -> BOOLEAN]]
BY DEF TypeOK, Insert

\* Every step keeps the types.
LEMMA TypeStep == TypeOK /\ [Next]_vars => TypeOK'
<1> SUFFICES ASSUME TypeOK, [Next]_vars PROVE TypeOK'
    OBVIOUS
<1>a. Idle \in {Idle} /\ AllFalse \in [Flags -> BOOLEAN]
      BY DEF AllFalse
<1>1. CASE Boot
  <2>1. PICK u \in Users : SeedAdmin(u)
        BY <1>1 DEF Boot
  <2>2. /\ life' \in [Users -> {"unborn", "live", "deleted"}]
        /\ name' \in [Users -> Names]
        /\ flags' \in [Users -> [Flags -> BOOLEAN]]
    <3>1. CASE Taken(Seed)
      <4>1. [flags[u] EXCEPT !["is_superadmin"] = TRUE, !["is_approved"] = TRUE] \in [Flags -> BOOLEAN]
            BY DEF TypeOK
      <4> HIDE DEF Flags
      <4> QED BY <2>1, <3>1, <4>1 DEF SeedAdmin, TypeOK
    <3>2. CASE ~Taken(Seed)
      <4>1. Insert(u, Seed, [f \in Flags |-> TRUE])
            BY <2>1, <3>2 DEF SeedAdmin
      <4>2. [f \in Flags |-> TRUE] \in [Flags -> BOOLEAN]
            OBVIOUS
      <4> HIDE DEF Flags
      <4> QED BY <4>1, <4>2, InsertType, AccountsAssumption DEF AccountsAssumption
    <3> QED BY <3>1, <3>2
  <2>3. job' \in [Sessions -> Jobs \cup {Idle}]
        BY <1>1 DEF Boot
  <2>4. reg' \in [Registrars -> [pc : {"idle", "hashing"}, name : Names]]
        BY <1>1, AccountsAssumption DEF Boot, AccountsAssumption
  <2>5. boots' \in 0..MaxBoots
        BY <1>1, AccountsAssumption DEF Boot, TypeOK, AccountsAssumption
  <2> QED BY <2>2, <2>3, <2>4, <2>5 DEF TypeOK
<1>2. ASSUME NEW g \in Registrars, NEW n \in Names, CheckName(g, n) PROVE TypeOK'
      BY <1>2 DEF CheckName, TypeOK
<1>3. ASSUME NEW g \in Registrars, NEW u \in Users, Register(g, u) PROVE TypeOK'
  <2>1. /\ life' \in [Users -> {"unborn", "live", "deleted"}]
        /\ name' \in [Users -> Names]
        /\ flags' \in [Users -> [Flags -> BOOLEAN]]
    <3>1. CASE UniqueOk(reg[g].name)
      <4>1. Insert(u, reg[g].name, [AllFalse EXCEPT !["is_active"] = TRUE])
            BY <1>3, <3>1 DEF Register
      <4>2. reg[g].name \in Names /\ [AllFalse EXCEPT !["is_active"] = TRUE] \in [Flags -> BOOLEAN]
            BY <1>a DEF TypeOK
      <4> HIDE DEF Flags
      <4> QED BY <4>1, <4>2, InsertType
    <3>2. CASE ~UniqueOk(reg[g].name)
          BY <1>3, <3>2 DEF Register, TypeOK
    <3> QED BY <3>1, <3>2
  <2>2. reg' \in [Registrars -> [pc : {"idle", "hashing"}, name : Names]]
        BY <1>3 DEF Register, TypeOK
  <2> QED BY <1>3, <2>1, <2>2 DEF Register, TypeOK
<1>4. ASSUME NEW h \in Sessions, Ask(h) PROVE TypeOK'
  <2>1. PICK u \in Users, target \in Users, op \in Ops, patch \in Patches :
            Authorize(h, u, op, target, patch)
        BY <1>4 DEF Ask
  <2>2. [pc |-> "authorized", op |-> op, actor |-> u, target |-> target,
         patch |-> Assigns(op, patch), seen |-> flags[u]] \in Jobs
        BY AssignsType, AccountsAssumption DEF TypeOK, Jobs, AccountsAssumption
  <2> QED BY <2>1, <2>2 DEF Authorize, TypeOK
<1>5. ASSUME NEW h \in Sessions, Load(h) PROVE TypeOK'
  <2>1. job[h] \in Jobs
        BY <1>5 DEF Load, TypeOK, Idle
  <2>2. \A seen \in [Flags -> BOOLEAN] :
            [job[h] EXCEPT !.pc = "commit", !.seen = seen] \in Jobs
        BY <2>1 DEF Jobs
  <2>3. /\ job[h].seen \in [Flags -> BOOLEAN]
        /\ flags[job[h].target] \in [Flags -> BOOLEAN]
        BY <2>1 DEF Jobs, TypeOK
  <2>4. job' \in [Sessions -> Jobs \cup {Idle}]
        BY <1>5, <2>2, <2>3 DEF Load, Finish, TypeOK
  <2> QED BY <1>5, <2>4 DEF Load, TypeOK
<1>6. ASSUME NEW h \in Sessions, Commit(h) PROVE TypeOK'
  <2>1. job[h] \in Jobs
        BY <1>6 DEF Commit, TypeOK, Idle
  <2> DEFINE j == job[h]
             changed == {f \in Flags : j.patch[f] \notin {Keep, j.seen[f]}}
             values == [f \in Flags |-> IF f \in changed THEN j.patch[f] ELSE flags[j.target][f]]
  <2>2. ASSUME NotNull(values) PROVE values \in [Flags -> BOOLEAN]
        BY <2>1, <2>2 DEF NotNull, Jobs, TypeOK
  <2>3. /\ life' \in [Users -> {"unborn", "live", "deleted"}]
        /\ flags' \in [Users -> [Flags -> BOOLEAN]]
    <3>1. CASE ~Live(j.target) \/ ~NotNull(values)
          BY <1>6, <3>1 DEF Commit, TypeOK
    <3>2. CASE Live(j.target) /\ NotNull(values) /\ j.op = "delete"
      <4>1. life' = [life EXCEPT ![j.target] = "deleted"] /\ UNCHANGED flags
            BY <1>6, <3>2 DEF Commit
      <4> QED BY <4>1 DEF TypeOK
    <3>3. CASE Live(j.target) /\ NotNull(values) /\ j.op # "delete"
      <4>1. flags' = [flags EXCEPT ![j.target] = values] /\ UNCHANGED life
            BY <1>6, <3>3 DEF Commit
      <4> HIDE DEF Flags, values
      <4> QED BY <4>1, <3>3, <2>2 DEF TypeOK
    <3> QED BY <3>1, <3>2, <3>3
  <2>4. job' \in [Sessions -> Jobs \cup {Idle}]
        BY <1>6 DEF Commit, Finish, TypeOK
  <2> QED BY <1>6, <2>3, <2>4 DEF Commit, TypeOK
<1>7. CASE UNCHANGED vars
      BY <1>7 DEF vars, TypeOK
<1> QED BY <1>1, <1>2, <1>3, <1>4, <1>5, <1>6, <1>7 DEF Next

\* Every variable has its type in every reachable state.
THEOREM TypeCorrect == Spec => []TypeOK
<1>1. Init => TypeOK
      BY AccountsAssumption DEF Init, TypeOK, AllFalse, AccountsAssumption
<1> QED BY <1>1, TypeStep, PTL DEF Spec

-------------------------------------------------------------------------------
(* Names *)

\* Inserting a row whose name is free keeps names unique.
LEMMA InsertUnique ==
    ASSUME TypeOK, UniqueNames, NEW u \in Users, NEW n \in Names, NEW values,
           Insert(u, n, values), ~Taken(n)
    PROVE  UniqueNames'
BY DEF TypeOK, UniqueNames, Insert, Taken, Live

\* A step that inserts no row and renames none keeps names unique.
LEMMA NoInsertUnique ==
    ASSUME UniqueNames, UNCHANGED name, \A u \in Users : Live(u)' => Live(u)
    PROVE  UniqueNames'
BY DEF UniqueNames, Live

LEMMA UniqueStep == TypeOK /\ UniqueNames /\ [Next]_vars => UniqueNames'
<1> SUFFICES ASSUME TypeOK, UniqueNames, [Next]_vars PROVE UniqueNames'
    OBVIOUS
<1>1. CASE Boot
  <2>1. PICK u \in Users : SeedAdmin(u)
        BY <1>1 DEF Boot
  <2>2. CASE Taken(Seed)
        BY <2>1, <2>2, NoInsertUnique DEF SeedAdmin, Live
  <2>3. CASE ~Taken(Seed)
        BY <2>1, <2>3, InsertUnique, AccountsAssumption DEF SeedAdmin, AccountsAssumption
  <2> QED BY <2>2, <2>3
<1>2. ASSUME NEW g \in Registrars, NEW u \in Users, Register(g, u) PROVE UniqueNames'
  <2>1. reg[g].name \in Names
        BY DEF TypeOK
  <2>2. CASE UniqueOk(reg[g].name)
        BY <1>2, <2>1, <2>2, InsertUnique DEF Register, UniqueOk
  <2>3. CASE ~UniqueOk(reg[g].name)
        BY <1>2, <2>3, NoInsertUnique DEF Register, Live
  <2> QED BY <2>2, <2>3
<1>3. ASSUME NEW h \in Sessions, Commit(h) PROVE UniqueNames'
  <2>1. UNCHANGED name /\ (life' = life \/ life' = [life EXCEPT ![job[h].target] = "deleted"])
        BY <1>3, Zenon DEF Commit
  <2>2. \A u \in Users : Live(u)' => Live(u)
        BY <2>1 DEF Live, TypeOK
  <2> QED BY <2>1, <2>2, NoInsertUnique
<1>4. ASSUME NEW g \in Registrars, NEW n \in Names, CheckName(g, n) PROVE UniqueNames'
      BY <1>4, NoInsertUnique DEF CheckName, Live
<1>5. ASSUME NEW h \in Sessions, Ask(h) \/ Load(h) PROVE UniqueNames'
      BY <1>5, NoInsertUnique DEF Ask, Authorize, Load, Live
<1>6. CASE UNCHANGED vars
      BY <1>6, NoInsertUnique DEF vars, Live
<1> QED BY <1>1, <1>2, <1>3, <1>4, <1>5, <1>6 DEF Next

\* A username never belongs to two accounts, whatever registers and starts at once.
THEOREM NamesUnique == Spec => []UniqueNames
<1>1. Init => UniqueNames
      BY DEF Init, UniqueNames, Live
<1> QED BY <1>1, UniqueStep, TypeCorrect, PTL DEF Spec

-------------------------------------------------------------------------------
(* The actor of a request *)

\* What has been checked of a request that is on its way, when nobody asks for a
\* rejection: it spares its actor, who has a row.
JobOK(j) ==
    j.pc # "idle" =>
        /\ life[j.actor] # "unborn"
        /\ j.op # "reject"
        /\ j.op = "delete" => j.target # j.actor
        /\ j.op = "approve" => \A f \in Flags : j.patch[f] # FALSE
        /\ j.pc = "commit" /\ j.target = j.actor => \A f \in Flags : j.patch[f] # FALSE

JobsOK == \A h \in Sessions : JobOK(job[h])

LEMMA JobsStep ==
    ASSUME "reject" \notin Ops, TypeOK, JobsOK, [Next]_vars
    PROVE  JobsOK'
<1> SUFFICES ASSUME NEW k \in Sessions PROVE JobOK(job[k])'
    BY DEF JobsOK
<1>a. JobOK(job[k])
      BY DEF JobsOK
<1>b. ASSUME job'[k] = job[k], \A u \in Users : life[u] # "unborn" => life'[u] # "unborn"
      PROVE  JobOK(job[k])'
  <2>1. job[k].pc # "idle" => job[k].actor \in Users
        BY DEF TypeOK, Jobs, Idle
  <2> QED BY <1>a, <1>b, <2>1 DEF JobOK
<1>c. ASSUME job'[k] = Idle PROVE JobOK(job[k])'
      BY <1>c DEF JobOK, Idle
<1>1. CASE Boot
      BY <1>1, <1>c DEF Boot
<1>2. ASSUME NEW g \in Registrars, NEW n \in Names, CheckName(g, n) PROVE JobOK(job[k])'
      BY <1>2, <1>b DEF CheckName
<1>3. ASSUME NEW g \in Registrars, NEW u \in Users, Register(g, u) PROVE JobOK(job[k])'
      BY <1>3, <1>b DEF Register, Insert, TypeOK
<1>4. ASSUME NEW h \in Sessions, Ask(h) PROVE JobOK(job[k])'
  <2>1. PICK u \in Users, target \in Users, op \in Ops, patch \in Patches :
            Authorize(h, u, op, target, patch)
        BY <1>4 DEF Ask
  <2>2. CASE k = h /\ ~(op = "delete" /\ target = u)
    <3>1. job'[k] = [pc |-> "authorized", op |-> op, actor |-> u, target |-> target,
                     patch |-> Assigns(op, patch), seen |-> flags[u]]
          BY <2>1, <2>2 DEF Authorize, TypeOK
    <3>2. op = "approve" => \A f \in Flags : Assigns(op, patch)[f] # FALSE
      <4>1. op = "approve" =>
                Assigns(op, patch) = [f \in Flags |-> IF f = "is_superadmin" THEN Keep ELSE TRUE]
            BY DEF Assigns
      <4>2. Keep # FALSE
            BY AccountsAssumption DEF AccountsAssumption
      <4> QED BY <4>1, <4>2
    <3>3. life'[u] # "unborn"
          BY <2>1 DEF Authorize, Entitled, Live
    <3>4. /\ job'[k].pc = "authorized" /\ job'[k].op = op /\ job'[k].actor = u
          /\ job'[k].target = target /\ job'[k].patch = Assigns(op, patch)
          BY <3>1
    <3> HIDE DEF Flags
    <3> QED BY <3>2, <3>3, <3>4, <2>2 DEF JobOK
  <2>3. CASE k # h \/ (op = "delete" /\ target = u)
        BY <2>1, <2>3, <1>b DEF Authorize, TypeOK
  <2> QED BY <2>2, <2>3
<1>5. ASSUME NEW h \in Sessions, Load(h) PROVE JobOK(job[k])'
  <2>1. CASE k # h
        BY <1>5, <2>1, <1>b DEF Load, Finish, TypeOK
  <2>2. CASE k = h /\ (~Live(job[h].target) \/ Protected(job[h]))
        BY <1>5, <2>2, <1>c DEF Load, Finish, TypeOK
  <2>3. CASE k = h /\ ~(~Live(job[h].target) \/ Protected(job[h]))
    <3>1. PICK seen : job'[h] = [job[h] EXCEPT !.pc = "commit", !.seen = seen]
          BY <1>5, <2>3 DEF Load, TypeOK
    <3>2. job[h] \in Jobs /\ job[h].pc # "idle"
          BY <1>5 DEF Load, TypeOK, Idle
    <3>3. /\ job'[h].op = job[h].op /\ job'[h].actor = job[h].actor
          /\ job'[h].target = job[h].target /\ job'[h].patch = job[h].patch
          BY <3>1, <3>2 DEF Jobs
    <3>4. job[h].target = job[h].actor => \A f \in Flags : job[h].patch[f] # FALSE
          BY <1>a, <2>3, <3>2 DEF JobOK, Protected, Jobs
    <3>5. UNCHANGED life
          BY <1>5 DEF Load
    <3> QED BY <1>a, <2>3, <3>2, <3>3, <3>4, <3>5 DEF JobOK
  <2> QED BY <2>1, <2>2, <2>3
<1>6. ASSUME NEW h \in Sessions, Commit(h) PROVE JobOK(job[k])'
  <2>1. CASE k = h
        BY <1>6, <2>1, <1>c DEF Commit, Finish, TypeOK
  <2>2. CASE k # h
    <3>1. job'[k] = job[k]
          BY <1>6, <2>2 DEF Commit, Finish, TypeOK
    <3>2. life' = life \/ life' = [life EXCEPT ![job[h].target] = "deleted"]
          BY <1>6, Zenon DEF Commit
    <3> QED BY <3>1, <3>2, <1>b DEF TypeOK
  <2> QED BY <2>1, <2>2
<1>7. CASE UNCHANGED vars
      BY <1>7, <1>b DEF vars
<1> QED BY <1>1, <1>2, <1>3, <1>4, <1>5, <1>6, <1>7 DEF Next

LEMMA JobsInit == Init => JobsOK
BY DEF Init, JobsOK, JobOK, Idle

\* What a commit leaves its own actor: every right he had.
Spared(h) == /\ job[h].pc = "commit" /\ job'[h].pc = "idle" /\ job[h].target = job[h].actor
             => LET u == job[h].actor
                IN life'[u] = life[u] /\ \A f \in Flags : flags[u][f] => flags'[u][f]

\* A commit on its own actor is an update or an approval that clears nothing.
LEMMA CommitSpares ==
    ASSUME TypeOK, JobsOK, NEW h \in Sessions, Commit(h), job[h].target = job[h].actor
    PROVE  LET u == job[h].actor
           IN /\ UNCHANGED life
              /\ \A f \in Flags : flags[u][f] => flags'[u][f]
<1> DEFINE j == job[h]
           u == j.actor
           changed == {f \in Flags : j.patch[f] \notin {Keep, j.seen[f]}}
           values == [f \in Flags |-> IF f \in changed THEN j.patch[f] ELSE flags[j.target][f]]
<1>1. j \in Jobs /\ j.pc = "commit"
      BY DEF Commit, TypeOK, Idle
<1>2. /\ j.op # "delete"
      /\ \A f \in Flags : j.patch[f] # FALSE
      BY <1>1 DEF JobsOK, JobOK
<1>3. CASE ~Live(j.target) \/ ~NotNull(values)
      BY <1>3 DEF Commit
<1>4. CASE Live(j.target) /\ NotNull(values)
  <2>1. flags' = [flags EXCEPT ![u] = values] /\ UNCHANGED life
        BY <1>2, <1>4 DEF Commit
  <2>2. flags'[u] = values
        BY <2>1, <1>1 DEF TypeOK, Jobs
  <2>3. ASSUME NEW f \in Flags, flags[u][f] PROVE values[f]
    <3>1. CASE f \in changed
      <4>1. j.patch[f] \in BOOLEAN \cup {Null, Keep} /\ j.patch[f] # Null
        <5>1. j.patch \in Fields
              BY <1>1 DEF Jobs
        <5>2. values[f] = j.patch[f]
              BY <3>1
        <5> HIDE DEF values
        <5> QED BY <5>1, <5>2, <1>4 DEF NotNull
      <4>2. j.patch[f] = TRUE
            BY <4>1, <3>1, <1>2
      <4> QED BY <4>2, <3>1
    <3>2. CASE f \notin changed
          BY <3>2, <2>3
    <3> QED BY <3>1, <3>2
  <2> HIDE DEF values
  <2> QED BY <2>1, <2>2, <2>3
<1> QED BY <1>3, <1>4

LEMMA SparedStep ==
    ASSUME TypeOK, JobsOK, [Next]_vars, NEW h \in Sessions
    PROVE  Spared(h)
<1> SUFFICES ASSUME job[h].pc = "commit", job'[h].pc = "idle", job[h].target = job[h].actor
             PROVE  LET u == job[h].actor
                    IN life'[u] = life[u] /\ \A f \in Flags : flags[u][f] => flags'[u][f]
    BY DEF Spared
<1>a. job[h] \in Jobs /\ job[h].actor \in Users /\ life[job[h].actor] # "unborn"
  <2>1. job[h] \in Jobs
        BY DEF TypeOK, Idle
  <2>2. job[h].actor \in Users
        BY <2>1 DEF Jobs
  <2>3. life[job[h].actor] # "unborn"
        BY DEF JobsOK, JobOK
  <2> QED BY <2>1, <2>2, <2>3
<1>1. CASE Boot
  <2>1. PICK u \in Users : SeedAdmin(u)
        BY <1>1 DEF Boot
  <2>2. CASE Taken(Seed)
    <3>1. /\ UNCHANGED life
          /\ flags' = [flags EXCEPT ![u] =
                [@ EXCEPT !["is_superadmin"] = TRUE, !["is_approved"] = TRUE]]
          BY <2>1, <2>2 DEF SeedAdmin
    <3>2. \A f \in Flags : flags[u][f] => flags'[u][f]
          BY <3>1 DEF TypeOK
    <3>3. \A w \in Users \ {u} : flags'[w] = flags[w]
          BY <3>1 DEF TypeOK
    <3> QED BY <3>1, <3>2, <3>3, <1>a
  <2>3. CASE ~Taken(Seed)
        BY <2>1, <2>3, <1>a DEF SeedAdmin, Insert, TypeOK
  <2> QED BY <2>2, <2>3
<1>2. ASSUME NEW k \in Sessions, Ask(k) \/ Load(k) PROVE FALSE
  <2>1. k # h
        BY <1>2 DEF Ask, Authorize, Load
  <2>2. UNCHANGED job \/ \E j : job' = [job EXCEPT ![k] = j]
        BY <1>2, Zenon DEF Ask, Authorize, Load, Finish
  <2>3. UNCHANGED job[h]
        BY <2>1, <2>2 DEF TypeOK
  <2> QED BY <2>3
<1>3. ASSUME NEW k \in Sessions, Commit(k)
      PROVE  LET u == job[h].actor
             IN life'[u] = life[u] /\ \A f \in Flags : flags[u][f] => flags'[u][f]
  <2>1. k = h
    <3>1. job' = [job EXCEPT ![k] = Idle]
          BY <1>3, Zenon DEF Commit, Finish
    <3> QED BY <3>1 DEF TypeOK
  <2> QED BY <2>1, <1>3, CommitSpares
<1>4. ASSUME NEW g \in Registrars, (\E n \in Names : CheckName(g, n)) \/ (\E u \in Users : Register(g, u))
      PROVE  FALSE
      BY <1>4 DEF CheckName, Register
<1>5. CASE UNCHANGED vars
      BY <1>5 DEF vars
<1> QED BY <1>1, <1>2, <1>3, <1>4, <1>5 DEF Next

\* Without reject, no request takes a right from its own actor, however many overlap.
THEOREM OwnRights ==
    ASSUME "reject" \notin Ops
    PROVE  Spec => OwnRightsKept
<1>1. JobsOK /\ TypeOK /\ [Next]_vars => JobsOK'
      BY JobsStep
<1>2. TypeOK /\ JobsOK /\ [Next]_vars
      => [\A h \in Sessions :
              job[h].pc = "commit" /\ job'[h].pc = "idle" /\ job[h].target = job[h].actor =>
                  LET u == job[h].actor
                  IN life'[u] = life[u] /\ \A f \in Flags : flags[u][f] => flags'[u][f]]_vars
      BY SparedStep DEF Spared
<1> QED BY <1>1, <1>2, JobsInit, TypeCorrect, PTL DEF Spec, OwnRightsKept

-------------------------------------------------------------------------------
(* Somebody can administer *)

\* Before the first start the table is empty; from then on somebody may administer, and
\* the one who asked for the request in flight still may.
Administered ==
    /\ boots = 0 => /\ \A u \in Users : life[u] = "unborn"
                    /\ \A g \in Registrars : reg[g].pc = "idle"
    /\ SomeSuperadmin
    /\ \A h \in Sessions : job[h].pc # "idle" => Entitled(job[h].actor)

LEMMA StaysEntitled ==
    ASSUME NEW u \in Users, Entitled(u), life'[u] = life[u],
           \A f \in Flags : flags[u][f] => flags'[u][f]
    PROVE  Entitled(u)'
BY DEF Entitled, Live

\* A step that changes neither a row nor, other than to end it, a request.
LEMMA QuietStep ==
    ASSUME Administered, UNCHANGED <<life, flags, boots>>,
           boots = 0 => \A g \in Registrars : reg'[g].pc = "idle",
           \A h \in Sessions : \/ job'[h].pc = "idle"
                               \/ Entitled(job'[h].actor)
    PROVE  Administered'
BY DEF Administered, SomeSuperadmin, Entitled, Live

LEMMA AdministeredStep ==
    ASSUME \A h, k \in Sessions : h = k,
           TypeOK, JobsOK, Administered, [Next]_vars
    PROVE  Administered'
<1>a. boots \in Nat
      BY AccountsAssumption DEF TypeOK, AccountsAssumption
<1>1. CASE Boot
  <2>1. PICK u \in Users : SeedAdmin(u)
        BY <1>1 DEF Boot
  <2>2. \E w \in Users : Entitled(w)'
    <3>1. CASE ~Taken(Seed)
          BY <2>1, <3>1 DEF SeedAdmin, Insert, Entitled, Live, TypeOK
    <3>2. CASE Taken(Seed)
      <4>1. boots > 0
            BY <1>a, <3>2 DEF Administered, Taken, Live
      <4>2. PICK w \in Users : Entitled(w)
            BY <4>1 DEF Administered, SomeSuperadmin
      <4>3. /\ UNCHANGED life
            /\ flags' = [flags EXCEPT ![u] =
                  [@ EXCEPT !["is_superadmin"] = TRUE, !["is_approved"] = TRUE]]
            BY <2>1, <3>2 DEF SeedAdmin
      <4>4. \A f \in Flags : flags[u][f] => flags'[u][f]
            BY <4>3 DEF TypeOK
      <4>5. w # u => flags'[w] = flags[w]
            BY <4>3 DEF TypeOK
      <4> QED BY <4>2, <4>3, <4>4, <4>5, StaysEntitled
    <3> QED BY <3>1, <3>2
  <2>3. boots' # 0 /\ \A h \in Sessions : job'[h].pc = "idle"
        BY <1>1, <1>a DEF Boot, Idle
  <2> QED BY <2>2, <2>3 DEF Administered, SomeSuperadmin
<1>2. ASSUME NEW g \in Registrars, NEW n \in Names, CheckName(g, n) PROVE Administered'
      BY <1>2, <1>a, QuietStep DEF CheckName, Administered
<1>3. ASSUME NEW g \in Registrars, NEW u \in Users, Register(g, u) PROVE Administered'
  <2>1. boots # 0 /\ UNCHANGED <<boots, job>>
        BY <1>3 DEF Register, Administered
  <2>2. ASSUME NEW w \in Users, Entitled(w) PROVE Entitled(w)'
    <3>1. life'[w] = life[w] /\ flags'[w] = flags[w]
          BY <1>3, <2>2 DEF Register, Insert, Entitled, Live, TypeOK
    <3> QED BY <3>1, <2>2, StaysEntitled
  <2>3. \A h \in Sessions : job[h].pc # "idle" => job[h].actor \in Users
        BY DEF TypeOK, Jobs, Idle
  <2> QED BY <2>1, <2>2, <2>3 DEF Administered, SomeSuperadmin
<1>4. ASSUME NEW h \in Sessions, Ask(h) PROVE Administered'
  <2>1. PICK u \in Users, target \in Users, op \in Ops, patch \in Patches :
            Authorize(h, u, op, target, patch)
        BY <1>4 DEF Ask
  <2>2. job' = job \/ job'[h].actor = u
        BY <2>1 DEF Authorize, TypeOK
  <2>3. Entitled(u) /\ UNCHANGED <<life, flags, boots, reg>>
        BY <2>1 DEF Authorize
  <2> QED BY <2>2, <2>3, QuietStep DEF Administered
<1>5. ASSUME NEW h \in Sessions, Load(h) PROVE Administered'
  <2>1. job'[h].pc = "idle" \/ job'[h].actor = job[h].actor
    <3>1. job[h] \in Jobs
          BY <1>5 DEF Load, TypeOK, Idle
    <3>2. \/ job' = [job EXCEPT ![h] = Idle]
          \/ \E seen : job' = [job EXCEPT ![h] = [job[h] EXCEPT !.pc = "commit", !.seen = seen]]
          BY <1>5, Zenon DEF Load, Finish
    <3>3. job'[h] = Idle \/ \E seen : job'[h] = [job[h] EXCEPT !.pc = "commit", !.seen = seen]
          BY <3>2 DEF TypeOK
    <3>4. ASSUME NEW seen, job'[h] = [job[h] EXCEPT !.pc = "commit", !.seen = seen]
          PROVE  job'[h].actor = job[h].actor
          BY <3>1, <3>4 DEF Jobs
    <3>5. job'[h] = Idle => job'[h].pc = "idle"
          BY DEF Idle
    <3> QED BY <3>3, <3>4, <3>5, Zenon
  <2>2. Entitled(job[h].actor)
        BY <1>5 DEF Load, Administered
  <2>3. UNCHANGED <<life, flags, boots, reg>>
        BY <1>5 DEF Load
  <2> QED BY <2>1, <2>2, <2>3, QuietStep DEF Administered
<1>6. ASSUME NEW h \in Sessions, Commit(h) PROVE Administered'
  <2>a. job[h] \in Jobs
        BY <1>6 DEF Commit, TypeOK, Idle
  <2>b. PICK u \in Users : u = job[h].actor
        BY <2>a DEF Jobs
  <2>1. Entitled(u)
        BY <1>6, <2>b DEF Commit, Administered
  <2>2. Entitled(u)'
    <3>1. CASE job[h].target = u
      <4>1. life'[u] = life[u] /\ \A f \in Flags : flags[u][f] => flags'[u][f]
            BY <1>6, <2>b, <3>1, CommitSpares
      <4> HIDE DEF Flags
      <4> QED BY <2>1, <4>1, StaysEntitled
    <3>2. CASE job[h].target # u
      <4>1. /\ UNCHANGED life \/ life' = [life EXCEPT ![job[h].target] = "deleted"]
            /\ UNCHANGED flags \/ \E values : flags' = [flags EXCEPT ![job[h].target] = values]
            BY <1>6, Zenon DEF Commit
      <4>2. life'[u] = life[u] /\ flags'[u] = flags[u]
            BY <3>2, <4>1 DEF TypeOK
      <4> QED BY <2>1, <4>2, StaysEntitled
    <3> QED BY <3>1, <3>2
  <2>3. boots # 0 /\ UNCHANGED boots
        BY <1>6, <2>1 DEF Commit, Administered, Entitled, Live
  <2>4. \A k \in Sessions : job'[k].pc = "idle"
    <3>1. job' = [job EXCEPT ![h] = Idle]
          BY <1>6, Zenon DEF Commit, Finish
    <3> QED BY <3>1 DEF TypeOK, Idle
  <2> QED BY <2>2, <2>3, <2>4 DEF Administered, SomeSuperadmin
<1>7. CASE UNCHANGED vars
      BY <1>7, QuietStep DEF vars, Administered
<1> QED BY <1>1, <1>2, <1>3, <1>4, <1>5, <1>6, <1>7 DEF Next

\* With one request of a superadmin at a time, and no reject, an account that may
\* administer is there from the first start on.
THEOREM SuperadminRemains ==
    ASSUME "reject" \notin Ops, \A h, k \in Sessions : h = k
    PROVE  Spec => []SomeSuperadmin
<1>1. Init => Administered
      BY DEF Init, Administered, SomeSuperadmin, Idle
<1>2. TypeOK /\ JobsOK /\ [Next]_vars => JobsOK'
      BY JobsStep
<1>3. TypeOK /\ JobsOK /\ Administered /\ [Next]_vars => Administered'
      BY AdministeredStep
<1>4. Administered => SomeSuperadmin
      BY DEF Administered
<1> QED BY <1>1, <1>2, <1>3, <1>4, JobsInit, TypeCorrect, PTL DEF Spec
===============================================================================
