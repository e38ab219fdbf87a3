------------------------------- MODULE Accounts -------------------------------
(***************************************************************************)
(* The accounts of the admin panel: registration, the requests superadmins  *)
(* make on each other (src/api/admin/users.py), and the start of the        *)
(* process, which creates or repairs the seed administrator (lifespan).     *)
(*                                                                         *)
(* A request is authorised against the row of its actor, loads the row of   *)
(* its target, and commits the attributes that differ from the loaded ones; *)
(* other requests run in between.  One session serves the whole request, so *)
(* a superadmin who acts on himself sees the row as it was authorised.      *)
(***************************************************************************)
EXTENDS Naturals

CONSTANTS Users,       \* ids a row of admin_users can ever get
          Names,       \* usernames
          Seed,        \* settings.admin_username
          Sessions,    \* concurrent requests of superadmins
          Registrars,  \* concurrent POST /register
          Ops,         \* what superadmins ask for
          Patches,     \* bodies of PUT /users/{id}, as [Flags -> BOOLEAN \cup {Null, Keep}]
          MaxBoots,    \* bound: starts of the process
          Null,        \* an explicit null in a body
          Keep         \* a field the body does not set

Flags == {"is_active", "is_approved", "is_superadmin"}
Fields == [Flags -> BOOLEAN \cup {Null, Keep}]

ASSUME AccountsAssumption ==
    /\ Seed \in Names
    /\ Ops \subseteq {"update", "approve", "reject", "delete"}
    /\ Patches \subseteq Fields
    /\ {Null, Keep} \cap BOOLEAN = {}
    /\ MaxBoots \in Nat

VARIABLES life,    \* life[u]: is the row u not yet inserted, live, or deleted
          name,    \* name[u]: username
          flags,   \* flags[u]: the three columns of Flags
          job,     \* job[h]: the request that the session h serves
          reg,     \* reg[g]: the registration g
          boots    \* starts so far

vars == <<life, name, flags, job, reg, boots>>

Jobs == [pc : {"idle", "authorized", "commit"}, op : {"update", "approve", "reject", "delete"},
         actor : Users, target : Users, patch : Fields, seen : [Flags -> BOOLEAN]]

Idle == [pc |-> "idle"]
AllFalse == [f \in Flags |-> FALSE]

TypeOK == /\ life \in [Users -> {"unborn", "live", "deleted"}]
          /\ name \in [Users -> Names]
          /\ flags \in [Users -> [Flags -> BOOLEAN]]
          /\ job \in [Sessions -> Jobs \cup {Idle}]
          /\ reg \in [Registrars -> [pc : {"idle", "hashing"}, name : Names]]
          /\ boots \in 0..MaxBoots

Init == /\ life = [u \in Users |-> "unborn"]
        /\ name = [u \in Users |-> Seed]
        /\ flags = [u \in Users |-> AllFalse]
        /\ job = [h \in Sessions |-> Idle]
        /\ reg = [g \in Registrars |-> [pc |-> "idle", name |-> Seed]]
        /\ boots = 0

Live(u) == life[u] = "live"
Taken(n) == \E u \in Users : Live(u) /\ name[u] = n

Insert(u, n, values) == /\ life[u] = "unborn"
                        /\ life' = [life EXCEPT ![u] = "live"]
                        /\ name' = [name EXCEPT ![u] = n]
                        /\ flags' = [flags EXCEPT ![u] = values]

-------------------------------------------------------------------------------
(* Start of the process *)

\* lifespan finds its administrator and approves him and makes him superadmin again
\* (is_active stays as it is), or inserts him.
SeedAdmin(u) ==
    IF Taken(Seed)
      THEN /\ Live(u) /\ name[u] = Seed
           /\ flags' = [flags EXCEPT ![u] = [@ EXCEPT !["is_superadmin"] = TRUE, !["is_approved"] = TRUE]]
           /\ UNCHANGED <<life, name>>
      ELSE Insert(u, Seed, [f \in Flags |-> TRUE])

\* Whatever was in flight is gone; the administrator of the settings is seeded.
Boot ==
    /\ boots < MaxBoots /\ boots' = boots + 1
    /\ \E u \in Users : SeedAdmin(u)
    /\ job' = [h \in Sessions |-> Idle]
    /\ reg' = [g \in Registrars |-> [pc |-> "idle", name |-> Seed]]

-------------------------------------------------------------------------------
(* POST /register *)

\* 400 when the name is taken; else the password is hashed in a thread...
CheckName(g, n) ==
    /\ boots > 0 /\ reg[g].pc = "idle"
    /\ reg' = IF Taken(n) THEN reg ELSE [reg EXCEPT ![g] = [pc |-> "hashing", name |-> n]]
    /\ UNCHANGED <<life, name, flags, job, boots>>

\* Mutant of UniqueOk: the column username is not unique.
UniqueOkAlways(n) == TRUE

\* unique=True of AdminUser.username.
UniqueOk(n) == ~Taken(n)

\* ... and the row is inserted, unless the name was taken meanwhile (IntegrityError).
Register(g, u) ==
    /\ reg[g].pc = "hashing"
    /\ IF UniqueOk(reg[g].name)
         THEN Insert(u, reg[g].name, [AllFalse EXCEPT !["is_active"] = TRUE])
         ELSE UNCHANGED <<life, name, flags>>
    /\ reg' = [reg EXCEPT ![g].pc = "idle"]
    /\ UNCHANGED <<job, boots>>

-------------------------------------------------------------------------------
(* Requests of superadmins *)

\* get_current_superadmin lets this user in.
Entitled(u) == Live(u) /\ \A f \in Flags : flags[u][f]

\* The columns an operation assigns.
Assigns(op, patch) ==
    CASE op = "approve" -> [f \in Flags |-> IF f = "is_superadmin" THEN Keep ELSE TRUE]
      [] op = "reject"  -> [f \in Flags |-> IF f = "is_superadmin" THEN Keep ELSE FALSE]
      [] op = "update"  -> patch
      [] op = "delete"  -> [f \in Flags |-> Keep]

Finish(h) == job' = [job EXCEPT ![h] = Idle]

\* The request of u arrives; DELETE of one's own id is refused at once.
Authorize(h, u, op, target, patch) ==
    /\ job[h].pc = "idle"
    /\ Entitled(u)
    /\ IF op = "delete" /\ target = u
         THEN UNCHANGED job
         ELSE job' = [job EXCEPT ![h] = [pc |-> "authorized", op |-> op, actor |-> u,
                                         target |-> target, patch |-> Assigns(op, patch),
                                         seen |-> flags[u]]]
    /\ UNCHANGED <<life, name, flags, reg, boots>>

\* Mutants of Protected: no protection; only the superadmin flag is protected.
ProtectedNever(j) == FALSE
ProtectedSuperadmin(j) ==
    j.op = "update" /\ j.target = j.actor /\ j.patch["is_superadmin"] = FALSE

\* "Prevent superadmin from removing their own superadmin/active/approved status".
Protected(j) == /\ j.op = "update" /\ j.target = j.actor
                /\ \E f \in Flags : j.patch[f] = FALSE

\* The target is loaded: 404, or 400 for an update of oneself that takes rights away.
Load(h) ==
    /\ job[h].pc = "authorized"
    /\ LET j == job[h]
       IN IF ~Live(j.target) \/ Protected(j)
            THEN Finish(h)
            ELSE job' = [job EXCEPT ![h] =
                    [j EXCEPT !.pc = "commit",
                              !.seen = IF j.target = j.actor THEN @ ELSE flags[j.target]]]
    /\ UNCHANGED <<life, name, flags, reg, boots>>

\* Mutant of NotNull: the columns accept NULL.
NotNullNever(values) == TRUE

\* nullable=False of the three columns.
NotNull(values) == \A f \in Flags : values[f] # Null

\* The UPDATE of the changed columns, or the DELETE. A row deleted
\* meanwhile, or a null in the body, rolls the request back.
Commit(h) ==
    /\ job[h].pc = "commit"
    /\ LET j == job[h]
           changed == {f \in Flags : j.patch[f] \notin {Keep, j.seen[f]}}
           values == [f \in Flags |-> IF f \in changed THEN j.patch[f] ELSE flags[j.target][f]]
       IN IF ~Live(j.target) \/ ~NotNull(values)
            THEN UNCHANGED <<life, flags>>
            ELSE IF j.op = "delete"
              THEN life' = [life EXCEPT ![j.target] = "deleted"] /\ UNCHANGED flags
              ELSE flags' = [flags EXCEPT ![j.target] = values] /\ UNCHANGED life
    /\ Finish(h)
    /\ UNCHANGED <<name, reg, boots>>

-------------------------------------------------------------------------------
Ask(h) == \E u, target \in Users, op \in Ops, patch \in Patches : Authorize(h, u, op, target, patch)

Next == \/ Boot
        \/ \E g \in Registrars, n \in Names : CheckName(g, n)
        \/ \E g \in Registrars, u \in Users : Register(g, u)
        \/ \E h \in Sessions : Ask(h) \/ Load(h) \/ Commit(h)

Spec == Init /\ [][Next]_vars

-------------------------------------------------------------------------------
(* Properties *)

\* Two registrations that checked the same name at the same time, or one racing a
\* start of the process, still make one account.
UniqueNames == \A u, w \in Users : Live(u) /\ Live(w) /\ name[u] = name[w] => u = w

\* With one superadmin request at a time (and no reject), somebody can always
\* administer: superadmins come and go, but each request spares its actor.
SomeSuperadmin == boots > 0 => \E u \in Users : Entitled(u)

\* "Prevent superadmin from removing their own superadmin/active/approved status":
\* the commit of a request takes no right from its own actor.
OwnRightsKept ==
    [][\A h \in Sessions :
          job[h].pc = "commit" /\ job'[h].pc = "idle" /\ job[h].target = job[h].actor =>
              LET u == job[h].actor
              IN life'[u] = life[u] /\ \A f \in Flags : flags[u][f] => flags'[u][f]]_vars
===============================================================================
