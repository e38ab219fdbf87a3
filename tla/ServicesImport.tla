---------------------------- MODULE ServicesImport ----------------------------
(***************************************************************************)
(* Export and import of services (src/api/admin/services.py), one import by  *)
(* the user `me', await by await, while other requests create, change and    *)
(* delete services and groups.                                              *)
(*                                                                         *)
(* The import runs in one session. Its groups are one transaction, each item  *)
(* and each link commits by itself, and what goes wrong with an item becomes   *)
(* an error of the answer. But a flush that fails leaves the session          *)
(* unusable: nobody rolls it back, so every later item and link fails, too.    *)
(*                                                                         *)
(* A file is a record of its groups and services. `data' stands for all the    *)
(* fields of a service that nothing refers to.                               *)
(***************************************************************************)
EXTENDS Naturals, Sequences, FiniteSets, SequencesExt

CONSTANTS Ids, GroupIds,   \* uuid4, used once
          Users, me,
          Slugs, Names,    \* slugs of services, names of groups
          Data,
          Tables,          \* what may be there at the beginning
          Files,           \* what else may be uploaded
          MaxOps,          \* bound: requests of others, or of me in another tab
          Partial,         \* an item without some field: enough to update a service only
          Bad,             \* an item that the schemas refuse
          Poison,          \* an item that the database refuses (a name that is null)
          Junk,            \* what should be an object and is not
          NotAList,        \* "services" missing, or not a list
          None

Rows == [owner : Users, slug : Slugs, group : GroupIds \cup {None}, data : Data,
         fb : Ids \cup {None}]
Groups == [owner : Users, name : Names]

Objects == [slug : Slugs \cup {None}, group : Names \cup {None},
            data : Data \cup {Partial, Bad, Poison}, fb : Slugs \cup {None}]
Items == Objects \cup {Junk}
FileType == [groups : Seq(Names \cup {None, Junk}), services : Seq(Items) \cup {NotAList}]

\* The foreign keys, and the unique slug.
Sound(s, g) ==
    /\ \A i \in Ids : s[i] # None => /\ s[i].group # None => g[s[i].group] # None
                                     /\ s[i].fb # None => s[s[i].fb] # None
    /\ \A i, j \in Ids : s[i] # None /\ s[j] # None /\ s[i].slug = s[j].slug => i = j

ASSUME ImportAssumption ==
    /\ IsFiniteSet(Ids) /\ IsFiniteSet(GroupIds)
    /\ me \in Users /\ MaxOps \in Nat
    /\ None \notin Ids \cup GroupIds \cup Slugs \cup Names \cup Rows \cup Groups \cup FileType
    /\ Partial \notin Data /\ Bad \notin Data /\ Poison \notin Data
    /\ Junk \notin Objects \cup Names \cup {None} /\ NotAList \notin Seq(Items)
    /\ Files \subseteq FileType
    /\ \A t \in Tables : /\ t.svc \in [Ids -> Rows \cup {None}]
                         /\ t.grp \in [GroupIds -> Groups \cup {None}]
                         /\ Sound(t.svc, t.grp)

VARIABLES svc,         \* table services
          grp,         \* table service_groups
          used,        \* ids that have been given
          imp,         \* locals of import_services
          exported,    \* the file that export_services answered last
          calm,        \* history: since then nothing but deletions by me, before the upload
          touched,     \* history: slugs of the rows that others have changed since the upload
          ops

vars == <<svc, grp, used, imp, exported, calm, touched, ops>>

Phases == {"idle", "groups", "reload", "items", "reread", "update", "insert", "refresh",
           "links", "target", "link", "done", "failed", "refused"}

Imports == [pc     : Phases,
            file   : FileType \cup {None},
            at     : Nat \ {0},                          \* which group, item or link
            names  : [Names -> GroupIds \cup {None}],    \* group_name_to_id
            fresh  : SUBSET GroupIds,                    \* inserted, not committed
            row    : Ids \cup {None},                    \* existing, service, svc
            target : Ids \cup {None},                    \* fb
            dead   : BOOLEAN,                            \* a flush has failed
            errors : SUBSET Nat,                         \* items reported as errors
            linkErrors : SUBSET Nat]                     \* links reported as errors

TypeOK == /\ svc \in [Ids -> Rows \cup {None}]
          /\ grp \in [GroupIds -> Groups \cup {None}]
          /\ Sound(svc, grp)
          /\ used \subseteq Ids \cup GroupIds
          /\ imp \in Imports
          /\ exported \in FileType \cup {None}
          /\ calm \in BOOLEAN
          /\ touched \subseteq Slugs
          /\ ops \in 0..MaxOps

NoImport == [pc |-> "idle", file |-> None, at |-> 1, names |-> [n \in Names |-> None],
             fresh |-> {}, row |-> None, target |-> None, dead |-> FALSE,
             errors |-> {}, linkErrors |-> {}]

Init == /\ \E t \in Tables :
              /\ svc = t.svc /\ grp = t.grp
              /\ used = {i \in Ids : t.svc[i] # None} \cup {g \in GroupIds : t.grp[g] # None}
        /\ imp = NoImport
        /\ exported = None /\ calm = FALSE /\ touched = {} /\ ops = 0

-------------------------------------------------------------------------------
(* GET /services-export *)

Mine == {i \in Ids : svc[i] # None /\ svc[i].owner = me}
MyGroups == {g \in GroupIds : grp[g] # None /\ grp[g].owner = me}

\* Groups and fallbacks of other users are left out.
ItemOf(i) == [slug  |-> svc[i].slug,
              group |-> IF svc[i].group \in MyGroups THEN grp[svc[i].group].name ELSE None,
              data  |-> svc[i].data,
              fb    |-> IF svc[i].fb \in Mine THEN svc[svc[i].fb].slug ELSE None]

\* export_services, in some order.
Export ==
    /\ imp.pc = "idle" /\ exported = None
    /\ \E g \in SetToSeqs(MyGroups), s \in SetToSeqs(Mine) :
          exported' = [groups   |-> [k \in DOMAIN g |-> grp[g[k]].name],
                       services |-> [k \in DOMAIN s |-> ItemOf(s[k])]]
    /\ calm' = TRUE
    /\ UNCHANGED <<svc, grp, used, imp, touched, ops>>

-------------------------------------------------------------------------------
(* POST /services-import: the groups *)

Database == <<svc, grp, used>>
History == <<exported, calm, touched, ops>>

\* The file is read and is an object.
Upload(file) ==
    /\ imp.pc = "idle"
    /\ imp' = [NoImport EXCEPT !.pc = "groups", !.file = file]
    /\ calm' = (calm /\ file = exported)
    /\ UNCHANGED <<Database, exported, touched, ops>>

Abort == imp' = [imp EXCEPT !.pc = "failed"]

\* One group: updated, or inserted into the transaction. Names are not unique, and two of
\* one name are one too many for scalar_one_or_none (500).
FindGroup ==
    /\ imp.pc = "groups" /\ imp.at <= Len(imp.file.groups)
    /\ LET name == imp.file.groups[imp.at]
           found == {g \in GroupIds : \/ g \in MyGroups /\ grp[g].name = name
                                      \/ name \in Names /\ g = imp.names[name] /\ g \in imp.fresh}
       IN \/ name = Junk /\ Abort /\ UNCHANGED used
          \/ name = None /\ imp' = [imp EXCEPT !.at = @ + 1] /\ UNCHANGED used
          \/ name \in Names /\ (\E g, h \in found : g # h) /\ Abort /\ UNCHANGED used
          \/ /\ name \in Names
             /\ \E g \in GroupIds : /\ found = {g}
                                    /\ imp' = [imp EXCEPT !.at = @ + 1, !.names[name] = g]
             /\ UNCHANGED used
          \/ /\ name \in Names /\ found = {}
             /\ \E g \in GroupIds \ used :
                   /\ imp' = [imp EXCEPT !.at = @ + 1, !.names[name] = g, !.fresh = @ \cup {g}]
                   /\ used' = used \cup {g}
    /\ UNCHANGED <<svc, grp, History>>

\* The commit of the groups. One that was deleted meanwhile fails it (500), unless the file
\* changes nothing of it.
CommitGroups ==
    /\ imp.pc = "groups" /\ imp.at > Len(imp.file.groups)
    /\ \/ /\ grp' = [g \in GroupIds |->
                        IF g \in imp.fresh
                          THEN [owner |-> me, name |-> CHOOSE n \in Names : imp.names[n] = g]
                          ELSE grp[g]]
          /\ imp' = [imp EXCEPT !.pc = "reload", !.fresh = {}]
       \/ /\ \E n \in Names : /\ imp.names[n] \in GroupIds \ imp.fresh
                              /\ grp[imp.names[n]] = None
          /\ Abort /\ UNCHANGED grp
    /\ UNCHANGED <<svc, used, History>>

\* The groups of the user are read again: one of each name, and whatever else was known
\* stays. Only then it matters that the services are a list (400).
LoadGroups ==
    /\ imp.pc = "reload"
    /\ \E names \in [Names -> GroupIds \cup {None}] :
          /\ \A n \in Names : LET there == {g \in MyGroups : grp[g].name = n}
                              IN IF there = {} THEN names[n] = imp.names[n] ELSE names[n] \in there
          /\ imp' = [imp EXCEPT !.pc = IF imp.file.services = NotAList THEN "refused" ELSE "items",
                                !.names = names, !.at = 1]
    /\ UNCHANGED <<Database, History>>

-------------------------------------------------------------------------------
(* The items *)

Item(k) == imp.file.services[k]
GroupOf(item) == IF item.group = None THEN None ELSE imp.names[item.group]

Known(slug) == {i \in Ids : svc[i] # None /\ svc[i].slug = slug}

\* The next item; e are those that failed, d says that the session is lost.
NextItem(e, d) ==
    imp' = [imp EXCEPT !.pc = "items", !.at = @ + 1, !.row = None,
                       !.errors = @ \cup e, !.dead = @ \/ d]

\* An item that is no object: its own error cannot be worded either (500).
JunkItem ==
    /\ imp.pc = "items" /\ imp.at <= Len(imp.file.services)
    /\ Item(imp.at) = Junk
    /\ Abort
    /\ UNCHANGED <<Database, History>>

\* Mutant of SkipItem: the items of a lost session are not reported.
SkipItemSilently ==
    /\ imp.pc = "items" /\ imp.at <= Len(imp.file.services)
    /\ Item(imp.at) # Junk /\ (Item(imp.at).slug = None \/ imp.dead)
    /\ NextItem({}, FALSE)
    /\ UNCHANGED <<Database, History>>

\* Missing slug, or a session that is lost.
SkipItem ==
    /\ imp.pc = "items" /\ imp.at <= Len(imp.file.services)
    /\ Item(imp.at) # Junk /\ (Item(imp.at).slug = None \/ imp.dead)
    /\ NextItem({imp.at}, FALSE)
    /\ UNCHANGED <<Database, History>>

\* Mutant of Lookup: the owner is not looked at.
LookupOfAnyOwner ==
    /\ imp.pc = "items" /\ imp.at <= Len(imp.file.services)
    /\ LET item == Item(imp.at)
       IN /\ item # Junk /\ item.slug # None /\ ~imp.dead
          /\ \/ \E i \in Known(item.slug) :
                   imp' = [imp EXCEPT !.pc = "reread", !.row = i]
             \/ /\ Known(item.slug) = {}
                /\ IF item.data \in {Bad, Partial} THEN NextItem({imp.at}, FALSE)
                   ELSE imp' = [imp EXCEPT !.pc = "insert"]
    /\ UNCHANGED <<Database, History>>

\* The slug is looked up, and the item read as an update of the user's service or as a new
\* one.
Lookup ==
    /\ imp.pc = "items" /\ imp.at <= Len(imp.file.services)
    /\ LET item == Item(imp.at)
       IN /\ item # Junk /\ item.slug # None /\ ~imp.dead
          /\ \/ \E i \in Known(item.slug) :
                   IF svc[i].owner # me \/ item.data = Bad THEN NextItem({imp.at}, FALSE)
                   ELSE imp' = [imp EXCEPT !.pc = "reread", !.row = i]
             \/ /\ Known(item.slug) = {}
                /\ IF item.data \in {Bad, Partial} THEN NextItem({imp.at}, FALSE)
                   ELSE imp' = [imp EXCEPT !.pc = "insert"]
    /\ UNCHANGED <<Database, History>>

\* update_service selects the row again. One that is gone counts as updated.
Reread ==
    /\ imp.pc = "reread"
    /\ IF svc[imp.row] = None THEN NextItem({}, FALSE) ELSE imp' = [imp EXCEPT !.pc = "update"]
    /\ UNCHANGED <<Database, History>>

\* What a flush makes of a field that is `now' and was set to `new': it is written if it
\* differs from what the session has loaded, which is `now' unless others changed the row.
Flushed(now, new, changed) == {new} \cup (IF changed THEN {now} ELSE {})

\* Mutant of FkOk: no foreign key.
FkOkAlways(now, new, table) == TRUE

\* The foreign key looks at values that are written.
FkOk(now, new, table) == new = now \/ new = None \/ table[new] # None

Update ==
    /\ imp.pc = "update"
    /\ LET item == Item(imp.at)
           i == imp.row
           now == svc[i]
       IN \/ /\ now = None \/ item.data = Poison
             /\ NextItem({imp.at}, TRUE)
             /\ UNCHANGED svc
          \/ /\ now = None /\ item.data # Poison
             /\ imp' = [imp EXCEPT !.pc = "refresh"]     \* nothing to write
             /\ UNCHANGED svc
          \/ /\ now # None /\ item.data # Poison
             /\ \E group \in Flushed(now.group, GroupOf(item), now.slug \in touched),
                   data \in IF item.data = Partial THEN {now.data}
                            ELSE Flushed(now.data, item.data, now.slug \in touched) :
                   IF FkOk(now.group, group, grp)
                     THEN /\ svc' = [svc EXCEPT ![i].group = group, ![i].data = data]
                          /\ imp' = [imp EXCEPT !.pc = "refresh"]
                     ELSE NextItem({imp.at}, TRUE) /\ UNCHANGED svc
    /\ UNCHANGED <<grp, used, History>>

\* create_service. The slug may be taken by now, and the group gone.
Insert ==
    /\ imp.pc = "insert"
    /\ LET item == Item(imp.at)
           group == GroupOf(item)
       IN IF Known(item.slug) = {} /\ FkOk(None, group, grp) /\ item.data # Poison
            THEN \E i \in Ids \ used :
                    /\ svc' = [svc EXCEPT ![i] = [owner |-> me, slug |-> item.slug, group |-> group,
                                                  data |-> item.data, fb |-> None]]
                    /\ used' = used \cup {i}
                    /\ imp' = [imp EXCEPT !.pc = "refresh", !.row = i]
            ELSE NextItem({imp.at}, TRUE) /\ UNCHANGED <<svc, used>>
    /\ UNCHANGED <<grp, History>>

\* session.refresh after the commit: an error if the row is gone again.
Refresh ==
    /\ imp.pc = "refresh"
    /\ NextItem(IF svc[imp.row] = None THEN {imp.at} ELSE {}, FALSE)
    /\ UNCHANGED <<Database, History>>

ItemsDone ==
    /\ imp.pc = "items" /\ imp.at > Len(imp.file.services)
    /\ imp' = [imp EXCEPT !.pc = "links", !.at = 1]
    /\ UNCHANGED <<Database, History>>

-------------------------------------------------------------------------------
(* The links *)

\* Mutant of Links: a link is kept only to a service that the file has named before.
LinksBackwards ==
    {k \in DOMAIN imp.file.services :
        k \notin imp.errors /\ Item(k).fb # None /\ \E j \in 1..(k - 1) : Item(j).slug = Item(k).fb}

\* fallback_links: those of the items that made no error.
Links == {k \in DOMAIN imp.file.services : k \notin imp.errors /\ Item(k).fb # None}

ToDo == {k \in Links : k >= imp.at}

NextLink(k, e, d) ==
    imp' = [imp EXCEPT !.pc = "links", !.at = k + 1, !.row = None, !.target = None,
                       !.linkErrors = @ \cup e, !.dead = @ \/ d]

\* The service that has the slug now, if it is the user's.
FindService(k) ==
    /\ imp.pc = "links" /\ k \in ToDo /\ \A j \in ToDo : k <= j
    /\ IF imp.dead THEN NextLink(k, {k}, FALSE)
       ELSE imp' = [imp EXCEPT !.pc = "target", !.at = k,
                               !.row = IF Known(Item(k).slug) \cap Mine = {} THEN None
                                       ELSE CHOOSE i \in Known(Item(k).slug) \cap Mine : TRUE]
    /\ UNCHANGED <<Database, History>>

\* The service that has the other slug, whoever owns it. Without either there is no link, and
\* no error.
FindTarget ==
    /\ imp.pc = "target"
    /\ LET found == Known(Item(imp.at).fb)
       IN IF imp.row = None \/ found = {} THEN NextLink(imp.at, {}, FALSE)
          ELSE \E f \in found : imp' = [imp EXCEPT !.pc = "link", !.target = f]
    /\ UNCHANGED <<Database, History>>

\* The link is written as it is: _validate_fallback is not called.
CommitLink ==
    /\ imp.pc = "link"
    /\ LET i == imp.row
           now == svc[i]
       IN \/ /\ now = None
             /\ \E lost \in BOOLEAN : NextLink(imp.at, IF lost THEN {imp.at} ELSE {}, lost)
             /\ UNCHANGED svc
          \/ /\ now # None
             /\ \E fb \in Flushed(now.fb, imp.target, now.slug \in touched) :
                   IF FkOk(now.fb, fb, svc)
                     THEN svc' = [svc EXCEPT ![i].fb = fb] /\ NextLink(imp.at, {}, FALSE)
                     ELSE NextLink(imp.at, {imp.at}, TRUE) /\ UNCHANGED svc
    /\ UNCHANGED <<grp, used, History>>

\* The answer.
Finish ==
    /\ imp.pc = "links" /\ ToDo = {}
    /\ imp' = [imp EXCEPT !.pc = "done"]
    /\ UNCHANGED <<Database, History>>

-------------------------------------------------------------------------------
(* Other requests, of others and of the same user, each one commit *)

\* After a request that changes the table to what svc' is.
Other(mayBeCalm) ==
    /\ imp.pc \notin {"done", "failed", "refused"}
    /\ ops' = ops + 1
    /\ calm' = (calm /\ mayBeCalm /\ imp.pc = "idle")
    /\ touched' = IF imp.pc = "idle" THEN {}
                  ELSE touched \cup {s \in Slugs :
                         \E i \in Ids : /\ svc'[i] # svc[i]
                                        /\ \/ svc[i] # None /\ svc[i].slug = s
                                           \/ svc'[i] # None /\ svc'[i].slug = s}
    /\ UNCHANGED <<imp, exported>>

CreateService(i, row) ==
    /\ i \notin used /\ used' = used \cup {i}
    /\ Known(row.slug) = {}
    /\ svc' = [svc EXCEPT ![i] = row] /\ Sound(svc', grp)
    /\ UNCHANGED grp
    /\ Other(FALSE)

\* PUT /services/{id}; FallbackRegistry has its steps.
EditService(i, row) ==
    /\ svc[i] # None /\ row # svc[i] /\ row.owner = svc[i].owner
    /\ svc' = [svc EXCEPT ![i] = row] /\ Sound(svc', grp)
    /\ UNCHANGED <<grp, used>>
    /\ Other(FALSE)

\* With the SET NULL of the links to it.
DeleteService(i) ==
    /\ svc[i] # None
    /\ svc' = [j \in Ids |-> IF j = i THEN None
                             ELSE IF svc[j] # None /\ svc[j].fb = i
                               THEN [svc[j] EXCEPT !.fb = None] ELSE svc[j]]
    /\ UNCHANGED <<grp, used>>
    /\ Other(svc[i].owner = me)

CreateGroup(g, group) ==
    /\ g \notin used /\ used' = used \cup {g}
    /\ grp' = [grp EXCEPT ![g] = group]
    /\ UNCHANGED svc
    /\ Other(FALSE)

UpdateGroup(g, name) ==
    /\ grp[g] # None /\ name # grp[g].name
    /\ grp' = [grp EXCEPT ![g].name = name]
    /\ UNCHANGED <<svc, used>>
    /\ Other(FALSE)

\* With the SET NULL of the services in it.
DeleteGroup(g) ==
    /\ grp[g] # None
    /\ grp' = [grp EXCEPT ![g] = None]
    /\ svc' = [i \in Ids |-> IF svc[i] # None /\ svc[i].group = g
                               THEN [svc[i] EXCEPT !.group = None] ELSE svc[i]]
    /\ UNCHANGED used
    /\ Other(grp[g].owner = me)

-------------------------------------------------------------------------------
Import == \/ \E file \in Files \cup ({exported} \ {None}) : Upload(file)
          \/ FindGroup \/ CommitGroups \/ LoadGroups
          \/ JunkItem \/ SkipItem \/ Lookup \/ Reread \/ Update \/ Insert \/ Refresh \/ ItemsDone
          \/ imp.pc = "links" /\ \E k \in Links : FindService(k)
          \/ FindTarget \/ CommitLink \/ Finish

Others == \/ \E i \in Ids, row \in Rows : CreateService(i, row) \/ EditService(i, row)
          \/ \E i \in Ids : DeleteService(i)
          \/ \E g \in GroupIds, group \in Groups : CreateGroup(g, group)
          \/ \E g \in GroupIds, name \in Names : UpdateGroup(g, name)
          \/ \E g \in GroupIds : DeleteGroup(g)

Next == Export \/ Import \/ (ops < MaxOps /\ Others)

Spec == Init /\ [][Next]_vars

-------------------------------------------------------------------------------
(* Properties *)

\* An import never changes a service of another user, although it names services by slugs
\* that are freed and taken while it runs, and links them in a second pass.
OthersUntouched ==
    [][imp' # imp => \A i \in Ids : svc[i] # None /\ svc[i].owner # me => svc'[i] = svc[i]]_vars

\* Each item that the answer does not report as an error is in the table with the fields of
\* the file, in a group if the file has the group it names; and its link is there, unless it
\* is reported or no service has the slug it names; all that unless others have changed the
\* services it names in the meantime. So nothing else is lost silently, after a failed flush
\* in particular. Silently lost are a link whose slug no service has, and a group that
\* neither the file nor the user has.
Accounted ==
    imp.pc = "done" =>
        \A k \in DOMAIN imp.file.services \ imp.errors :
            LET item == Item(k)
                last == \A j \in DOMAIN imp.file.services \ imp.errors :
                            j > k => Item(j).slug # item.slug
            IN last /\ item.slug \notin touched =>
                 \E i \in Known(item.slug) \cap Mine :
                    /\ svc[i].group = GroupOf(item)
                    /\ item.group \in Names \cap Range(imp.file.groups) => svc[i].group # None
                    /\ item.data \in {svc[i].data, Partial}
                    /\ \/ item.fb = None \/ k \in imp.linkErrors \/ item.fb \in touched
                       \/ Known(item.fb) = {}
                       \/ svc[i].fb \in Known(item.fb)

\* Whatever services and groups the user deletes after an export, importing the file brings
\* all of it back, without an error. (With two groups of one name it may end with a 500.)
RoundTrip ==
    calm /\ imp.pc \in {"done", "failed", "refused"} /\ IsInjective(imp.file.groups) =>
        /\ imp.pc = "done" /\ imp.errors = {} /\ imp.linkErrors = {}
        /\ {ItemOf(i) : i \in Mine} = {Item(k) : k \in DOMAIN imp.file.services}
===============================================================================
