------------------------- MODULE ServicesImport_proofs -------------------------
(***************************************************************************)
(* For any tables, files and requests of others: the tables stay sound, an   *)
(* import changes no service of another user, its answer accounts for the     *)
(* items and links of the file, and what was exported comes back.             *)
(***************************************************************************)
EXTENDS ServicesImport, FiniteSetTheorems, TLAPS

InItem == {"reread", "update", "insert", "refresh"}
InLinks == {"links", "target", "link"}

\* What the import knows of its file.
FileOK ==
    /\ imp.pc \in Phases \ {"idle"} => imp.file \in FileType
    /\ imp.pc \in {"items"} \cup InItem \cup InLinks => imp.file.services \in Seq(Items)
    /\ imp.pc \in InItem => /\ imp.at \in DOMAIN imp.file.services
                            /\ Item(imp.at) # Junk
                            /\ Item(imp.at).slug \in Slugs /\ Item(imp.at).data # Bad
    /\ imp.pc = "insert" => Item(imp.at).data # Partial

\* The row in hand is the user's, as long as it is there; no id is used twice, so what is
\* there later is the same row.
RowOK ==
    /\ imp.pc \in {"reread", "update", "refresh", "link"} => imp.row \in Ids
    /\ imp.pc = "link" => imp.target \in Ids
    /\ imp.row \in Ids => /\ imp.row \in used
                          /\ svc[imp.row] # None => svc[imp.row].owner = me

UsedOK ==
    /\ \A i \in Ids : svc[i] # None => i \in used
    /\ \A g \in GroupIds : grp[g] # None => g \in used

FreshOK == imp.pc = "groups" =>
               \A g \in imp.fresh : g \in used /\ \E n \in Names : imp.names[n] = g

IInv == TypeOK /\ FileOK /\ RowOK /\ UsedOK /\ FreshOK

\* A step of the import that changes its locals only.
LEMMA LocalStep ==
    ASSUME IInv, UNCHANGED <<svc, grp, used, exported, touched, ops>>, calm' \in BOOLEAN,
           imp' \in Imports, FileOK', RowOK', FreshOK'
    PROVE  IInv'
BY DEF IInv, TypeOK, UsedOK

\* An item is left: whatever comes next, nothing is in hand.
LEMMA NextItemOK ==
    ASSUME IInv, imp.pc \in {"items"} \cup InItem, NEW e \in SUBSET {imp.at}, NEW d \in BOOLEAN,
           NextItem(e, d)
    PROVE  imp' \in Imports /\ FileOK' /\ RowOK' /\ FreshOK'
<1>1. imp \in Imports /\ None \notin Ids BY ImportAssumption DEF IInv, TypeOK
<1>2. imp' \in Imports
  <2> DEFINE lost == imp.dead \/ d
  <2>4. imp.at \in Nat \ {0} /\ imp.errors \in SUBSET Nat BY <1>1 DEF Imports
  <2>5. imp.at + 1 \in Nat \ {0} BY <2>4
  <2>6. "items" \in Phases BY DEF Phases
  <2>7. imp.errors \cup e \in SUBSET Nat BY <2>4
  <2>1. imp.at + 1 \in Nat \ {0} /\ imp.errors \cup e \in SUBSET Nat /\ "items" \in Phases
    BY <2>5, <2>6, <2>7
  <2>3. lost \in BOOLEAN BY <1>1, Zenon
  <2>2. imp' = [imp EXCEPT !.pc = "items", !.at = imp.at + 1, !.row = None,
                           !.errors = @ \cup e, !.dead = lost]
    BY DEF NextItem
  <2> HIDE DEF lost
  <2> QED BY <1>1, <2>1, <2>2, <2>3 DEF Imports
<1>3. FileOK'
  BY <1>1 DEF IInv, FileOK, NextItem, Imports, Phases, InItem, InLinks
<1>4. RowOK' BY <1>1 DEF NextItem, Imports, RowOK
<1>5. FreshOK' BY <1>1 DEF IInv, FreshOK, NextItem, Imports
<1> QED BY <1>2, <1>3, <1>4, <1>5

LEMMA NextLinkOK ==
    ASSUME IInv, imp.pc \in InLinks, NEW k \in Nat, NEW e \in SUBSET {k}, NEW d \in BOOLEAN,
           NextLink(k, e, d)
    PROVE  imp' \in Imports /\ FileOK' /\ RowOK' /\ FreshOK'
<1>1. imp \in Imports /\ None \notin Ids BY ImportAssumption DEF IInv, TypeOK
<1>2. imp' \in Imports
  <2> DEFINE lost == imp.dead \/ d
  <2>4. imp.linkErrors \in SUBSET Nat BY <1>1 DEF Imports
  <2>5. k + 1 \in Nat \ {0} OBVIOUS
  <2>6. "links" \in Phases BY DEF Phases
  <2>7. imp.linkErrors \cup e \in SUBSET Nat BY <2>4
  <2>1. k + 1 \in Nat \ {0} /\ imp.linkErrors \cup e \in SUBSET Nat /\ "links" \in Phases
    BY <2>5, <2>6, <2>7
  <2>3. lost \in BOOLEAN BY <1>1, Zenon
  <2>2. imp' = [imp EXCEPT !.pc = "links", !.at = k + 1, !.row = None, !.target = None,
                           !.linkErrors = @ \cup e, !.dead = lost]
    BY DEF NextLink
  <2> HIDE DEF lost
  <2> QED BY <1>1, <2>1, <2>2, <2>3 DEF Imports
<1>3. FileOK'
  BY <1>1 DEF IInv, FileOK, NextLink, Imports, Phases, InItem, InLinks
<1>4. RowOK' BY <1>1 DEF NextLink, Imports, RowOK
<1>5. FreshOK' BY <1>1 DEF IInv, FreshOK, NextLink, Imports
<1> QED BY <1>2, <1>3, <1>4, <1>5

\* What an export writes can be imported.
LEMMA ExportTyped ==
    ASSUME IInv, Export
    PROVE  exported' \in FileType
<1>1. PICK g \in SetToSeqs(MyGroups), s \in SetToSeqs(Mine) :
         exported' = [groups   |-> [k \in DOMAIN g |-> grp[g[k]].name],
                      services |-> [k \in DOMAIN s |-> ItemOf(s[k])]]
  BY DEF Export
<1>2. IsFiniteSet(MyGroups) /\ IsFiniteSet(Mine)
  BY ImportAssumption, FS_Subset DEF MyGroups, Mine
<1>3. Cardinality(MyGroups) \in Nat /\ Cardinality(Mine) \in Nat
  BY <1>2, FS_CardinalityType
<1>4. /\ g \in [1..Cardinality(MyGroups) -> MyGroups]
      /\ s \in [1..Cardinality(Mine) -> Mine]
  BY <1>1 DEF SetToSeqs
<1>5. \A h \in MyGroups : grp[h].name \in Names
  BY DEF MyGroups, IInv, TypeOK, Groups
<1>6. \A i \in Mine : ItemOf(i) \in Items
  <2> SUFFICES ASSUME NEW i \in Mine PROVE ItemOf(i) \in Items
    OBVIOUS
  <2>1. svc[i] \in Rows BY DEF Mine, IInv, TypeOK
  <2>2. \A j \in Mine : svc[j].slug \in Slugs BY DEF Mine, IInv, TypeOK, Rows
  <2>3. \A h \in MyGroups : grp[h].name \in Names BY <1>5
  <2> QED BY <2>1, <2>2, <2>3 DEF ItemOf, Items, Objects, Rows
<1>7. [k \in DOMAIN g |-> grp[g[k]].name] \in Seq(Names \cup {None, Junk})
  BY <1>3, <1>4, <1>5
<1>8. [k \in DOMAIN s |-> ItemOf(s[k])] \in Seq(Items)
  BY <1>3, <1>4, <1>6
<1> QED BY <1>1, <1>7, <1>8 DEF FileType

LEMMA One == 1 \in Nat \ {0}
OBVIOUS

LEMMA InitOK == Init => IInv
<1> SUFFICES ASSUME Init PROVE IInv OBVIOUS
<1>1. PICK t \in Tables :
         /\ svc = t.svc /\ grp = t.grp
         /\ used = {i \in Ids : t.svc[i] # None} \cup {g \in GroupIds : t.grp[g] # None}
  BY DEF Init
<1>2. /\ svc \in [Ids -> Rows \cup {None}] /\ grp \in [GroupIds -> Groups \cup {None}]
      /\ Sound(svc, grp)
  BY <1>1, ImportAssumption
<1>3. imp \in Imports BY DEF Init, NoImport, Imports, Phases
<1>4. TypeOK
  <2>1. 0 \in 0..MaxOps BY ImportAssumption
  <2>2. used \subseteq Ids \cup GroupIds BY <1>1
  <2> QED BY <1>2, <1>3, <2>1, <2>2 DEF Init, TypeOK
<1>5. FileOK /\ FreshOK BY DEF Init, NoImport, FileOK, FreshOK, InItem, InLinks
<1>6. RowOK BY ImportAssumption DEF Init, NoImport, RowOK
<1>7. UsedOK BY <1>1 DEF UsedOK
<1> QED BY <1>4, <1>5, <1>6, <1>7 DEF IInv

-------------------------------------------------------------------------------
(* The steps of the import that change only its locals *)

\* What they leave alone.
LEMMA Leaves ==
    ASSUME UNCHANGED <<Database, History>>, IInv
    PROVE  UNCHANGED <<svc, grp, used, exported, touched, ops>> /\ calm' \in BOOLEAN
BY DEF Database, History, IInv, TypeOK

LEMMA UploadOK == ASSUME IInv, NEW file \in Files \cup ({exported} \ {None}), Upload(file) PROVE IInv'
<1>1. file \in FileType BY ImportAssumption DEF IInv, TypeOK
<1>2. imp' \in Imports BY <1>1, One DEF Upload, NoImport, Imports, Phases
<1>3. FileOK' /\ FreshOK'
  BY <1>1 DEF Upload, NoImport, FileOK, FreshOK, InItem, InLinks
<1>4. RowOK' BY ImportAssumption DEF Upload, NoImport, RowOK
<1>5. UNCHANGED <<svc, grp, used, exported, touched, ops>> BY DEF Upload, Database
<1>6. calm' \in BOOLEAN BY Zenon DEF Upload
<1> QED BY <1>2, <1>3, <1>4, <1>5, <1>6, LocalStep

\* The import fails.
LEMMA AbortOK ==
    ASSUME IInv, Abort, imp.pc # "idle"
    PROVE  imp' \in Imports /\ FileOK' /\ (svc' = svc /\ used \subseteq used' => RowOK') /\ FreshOK'
<1>1. imp \in Imports BY DEF IInv, TypeOK
<1>2. imp' \in Imports BY <1>1 DEF Abort, Imports, Phases
<1>3. FileOK' BY <1>1 DEF IInv, Abort, Imports, Phases, FileOK, InItem, InLinks
<1>4. svc' = svc /\ used \subseteq used' => RowOK' BY <1>1 DEF IInv, Abort, Imports, RowOK
<1>5. FreshOK' BY <1>1 DEF IInv, Abort, Imports, FreshOK
<1> QED BY <1>2, <1>3, <1>4, <1>5

LEMMA FindGroupOK == ASSUME IInv, FindGroup PROVE IInv'
<1> DEFINE name == imp.file.groups[imp.at]
           found == {g \in GroupIds : \/ g \in MyGroups /\ grp[g].name = name
                                      \/ name \in Names /\ g = imp.names[name] /\ g \in imp.fresh}
<1>0. imp \in Imports /\ imp.pc = "groups" /\ UNCHANGED <<svc, grp, History>>
  BY DEF IInv, TypeOK, FindGroup
<1>1. CASE Abort /\ UNCHANGED used
  BY <1>0, <1>1, AbortOK, LocalStep DEF IInv, TypeOK, History
<1>2. CASE imp' = [imp EXCEPT !.at = @ + 1] /\ UNCHANGED used
  <2>1. imp' \in Imports BY <1>0, <1>2 DEF Imports
  <2>2. FileOK' BY <1>0, <1>2 DEF IInv, FileOK, Imports, InItem, InLinks
  <2>3. RowOK' /\ FreshOK' BY <1>0, <1>2 DEF IInv, RowOK, FreshOK, Imports
  <2> QED BY <1>0, <1>2, <2>1, <2>2, <2>3, LocalStep DEF IInv, TypeOK, History
<1>3. ASSUME name \in Names, NEW g \in GroupIds, found = {g}, UNCHANGED used,
             imp' = [imp EXCEPT !.at = @ + 1, !.names[name] = g]
      PROVE  IInv'
  <2>1. imp' \in Imports
    <3>1. [imp.names EXCEPT ![name] = g] \in [Names -> GroupIds \cup {None}]
      BY <1>0, <1>3 DEF Imports
    <3>2. imp.at + 1 \in Nat \ {0} /\ imp.fresh \cup {g} \in SUBSET GroupIds
      BY <1>0, <1>3 DEF Imports
    <3> QED BY <1>0, <1>3, <3>1, <3>2 DEF Imports
  <2>2. FileOK' BY <1>0, <1>3 DEF IInv, FileOK, Imports, InItem, InLinks
  <2>3. RowOK' BY <1>0, <1>3 DEF IInv, RowOK, Imports
  <2>4. imp.names[name] \in imp.fresh => imp.names[name] = g
    BY <1>0, <1>3 DEF Imports
  <2>5. FreshOK' BY <1>0, <1>3, <2>4 DEF IInv, FreshOK, Imports
  <2> QED BY <1>0, <1>3, <2>1, <2>2, <2>3, <2>5, LocalStep DEF IInv, TypeOK, History
<1>4. ASSUME name \in Names, found = {}, NEW g \in GroupIds \ used, used' = used \cup {g},
             imp' = [imp EXCEPT !.at = @ + 1, !.names[name] = g, !.fresh = @ \cup {g}]
      PROVE  IInv'
  <2>1. imp' \in Imports
    <3>1. [imp.names EXCEPT ![name] = g] \in [Names -> GroupIds \cup {None}]
      BY <1>0, <1>4 DEF Imports
    <3>2. imp.at + 1 \in Nat \ {0} /\ imp.fresh \cup {g} \in SUBSET GroupIds
      BY <1>0, <1>4 DEF Imports
    <3> QED BY <1>0, <1>4, <3>1, <3>2 DEF Imports
  <2>2. FileOK' BY <1>0, <1>4 DEF IInv, FileOK, Imports, InItem, InLinks
  <2>3. RowOK' BY <1>0, <1>4 DEF IInv, RowOK, Imports
  <2>4. imp.names[name] \notin imp.fresh BY <1>0, <1>4 DEF Imports
  <2>5. FreshOK' BY <1>0, <1>4, <2>4 DEF IInv, FreshOK, Imports
  <2>6. TypeOK' BY <1>0, <1>4, <2>1 DEF IInv, TypeOK, History
  <2>7. UsedOK' BY <1>0, <1>4 DEF IInv, UsedOK
  <2> QED BY <2>2, <2>3, <2>5, <2>6, <2>7 DEF IInv
<1> QED BY <1>1, <1>2, <1>3, <1>4 DEF FindGroup

LEMMA CommitGroupsOK == ASSUME IInv, CommitGroups PROVE IInv'
<1>0. imp \in Imports /\ imp.pc = "groups" /\ UNCHANGED <<svc, used, History>>
  BY DEF IInv, TypeOK, CommitGroups
<1>1. CASE Abort /\ UNCHANGED grp
  BY <1>0, <1>1, AbortOK, LocalStep DEF IInv, TypeOK, History
<1>2. ASSUME grp' = [g \in GroupIds |->
                       IF g \in imp.fresh
                         THEN [owner |-> me, name |-> CHOOSE n \in Names : imp.names[n] = g]
                         ELSE grp[g]],
             imp' = [imp EXCEPT !.pc = "reload", !.fresh = {}]
      PROVE  IInv'
  <2>1. imp' \in Imports BY <1>0, <1>2 DEF Imports, Phases
  <2>2. FileOK' BY <1>0, <1>2 DEF IInv, FileOK, Imports, Phases, InItem, InLinks
  <2>3. RowOK' /\ FreshOK' BY <1>0, <1>2 DEF IInv, RowOK, FreshOK, Imports
  <2>4. \A g \in imp.fresh : (CHOOSE n \in Names : imp.names[n] = g) \in Names
    BY <1>0 DEF IInv, FreshOK
  <2>5. grp' \in [GroupIds -> Groups \cup {None}]
    BY <1>0, <1>2, <2>4, ImportAssumption DEF IInv, TypeOK, Groups
  <2>6. \A g \in GroupIds : /\ grp[g] # None => grp'[g] # None
                            /\ grp'[g] # None => grp[g] # None \/ g \in imp.fresh
    BY <1>2, <2>4, <2>5, ImportAssumption DEF IInv, TypeOK, Groups
  <2>7. Sound(svc, grp)' BY <1>0, <2>6 DEF IInv, TypeOK, Sound, Rows
  <2>8. TypeOK' BY <1>0, <2>1, <2>5, <2>7 DEF IInv, TypeOK, History
  <2>9. UsedOK' BY <1>0, <2>6 DEF IInv, UsedOK, FreshOK
  <2> QED BY <2>2, <2>3, <2>8, <2>9 DEF IInv
<1> QED BY <1>1, <1>2 DEF CommitGroups

LEMMA LoadGroupsOK == ASSUME IInv, LoadGroups PROVE IInv'
<1>1. PICK names \in [Names -> GroupIds \cup {None}] :
         imp' = [imp EXCEPT !.pc = IF imp.file.services = NotAList THEN "refused" ELSE "items",
                            !.names = names, !.at = 1]
  BY DEF LoadGroups
<1>2. imp \in Imports /\ imp.pc = "reload" /\ UNCHANGED <<Database, History>>
  BY DEF IInv, TypeOK, LoadGroups
<1>3. imp' \in Imports BY <1>1, <1>2, One DEF Imports, Phases
<1>4. imp.file \in FileType BY <1>2 DEF IInv, FileOK, Phases
<1>5. FileOK' BY <1>1, <1>2, <1>4 DEF FileOK, FileType, Imports, InItem, InLinks
<1>6. RowOK' BY <1>1, <1>2 DEF IInv, RowOK, Imports, Database
<1>8. FreshOK' BY <1>1, <1>2 DEF FreshOK, Imports
<1> QED BY <1>2, <1>3, <1>5, <1>6, <1>8, LocalStep, Leaves

LEMMA ItemAt ==
    ASSUME IInv, imp.pc = "items", imp.at <= Len(imp.file.services)
    PROVE  /\ imp.at \in DOMAIN imp.file.services /\ Item(imp.at) \in Items
           /\ Item(imp.at) # Junk => /\ Item(imp.at).slug \in Slugs \cup {None}
                                     /\ Item(imp.at).data \in Data \cup {Partial, Bad, Poison}
<1>1. imp.at \in Nat \ {0} /\ imp.file.services \in Seq(Items)
  BY DEF IInv, TypeOK, Imports, FileOK
<1>2. imp.at \in DOMAIN imp.file.services /\ Item(imp.at) \in Items
  BY <1>1 DEF Item
<1> QED BY <1>2 DEF Items, Objects

LEMMA ScanItemOK == ASSUME IInv, JunkItem \/ SkipItem PROVE IInv'
<1>1. CASE JunkItem
  BY <1>1, AbortOK, LocalStep, Leaves DEF JunkItem, Database
<1>2. CASE SkipItem
  <2>1. {imp.at} \in SUBSET {imp.at} /\ FALSE \in BOOLEAN OBVIOUS
  <2> QED BY <1>2, <2>1, NextItemOK, LocalStep, Leaves DEF SkipItem
<1> QED BY <1>1, <1>2

LEMMA LookupOK == ASSUME IInv, Lookup PROVE IInv'
<1> DEFINE item == Item(imp.at)
<1>0. /\ imp \in Imports /\ imp.pc = "items" /\ imp.at <= Len(imp.file.services)
      /\ item # Junk /\ item.slug # None /\ UNCHANGED <<Database, History>>
  BY DEF IInv, TypeOK, Lookup
<1>1. /\ imp.at \in DOMAIN imp.file.services /\ item.slug \in Slugs
      /\ imp.file \in FileType /\ imp.file.services \in Seq(Items)
  BY <1>0, ItemAt DEF IInv, FileOK, Phases
<1>2. CASE NextItem({imp.at}, FALSE)
  BY <1>0, <1>2, NextItemOK, LocalStep, Leaves
<1>3. ASSUME NEW i \in Known(item.slug), svc[i].owner = me, item.data # Bad,
             imp' = [imp EXCEPT !.pc = "reread", !.row = i]
      PROVE  IInv'
  <2>1. i \in Ids /\ svc[i] # None BY <1>3 DEF Known
  <2>2. imp' \in Imports BY <1>0, <1>3, <2>1 DEF Imports, Phases
  <2>3. FileOK' BY <1>0, <1>1, <1>3 DEF FileOK, Imports, InItem, InLinks, Item
  <2>4. RowOK' BY <1>0, <1>3, <2>1 DEF IInv, UsedOK, RowOK, Imports, Database
  <2>5. FreshOK' BY <1>0, <1>3 DEF FreshOK, Imports
  <2> QED BY <1>0, <2>2, <2>3, <2>4, <2>5, LocalStep, Leaves
<1>4. ASSUME item.data \notin {Bad, Partial}, imp' = [imp EXCEPT !.pc = "insert"]
      PROVE  IInv'
  <2>2. imp' \in Imports BY <1>0, <1>4 DEF Imports, Phases
  <2>3. FileOK' BY <1>0, <1>1, <1>4 DEF FileOK, Imports, InItem, InLinks, Item
  <2>4. RowOK' BY <1>0, <1>4 DEF IInv, RowOK, Imports, Database
  <2>5. FreshOK' BY <1>0, <1>4 DEF FreshOK, Imports
  <2> QED BY <1>0, <2>2, <2>3, <2>4, <2>5, LocalStep, Leaves
<1> QED BY <1>2, <1>3, <1>4 DEF Lookup

LEMMA RereadOK == ASSUME IInv, Reread PROVE IInv'
<1>0. imp \in Imports /\ imp.pc = "reread" /\ UNCHANGED <<Database, History>>
  BY DEF IInv, TypeOK, Reread
<1>1. CASE NextItem({}, FALSE)
  BY <1>0, <1>1, NextItemOK, LocalStep, Leaves DEF InItem
<1>2. CASE imp' = [imp EXCEPT !.pc = "update"]
  <2>2. imp' \in Imports BY <1>0, <1>2 DEF Imports, Phases
  <2>3. FileOK' BY <1>0, <1>2 DEF IInv, FileOK, Imports, Phases, InItem, InLinks, Item
  <2>4. RowOK' BY <1>0, <1>2 DEF IInv, RowOK, Imports, Database
  <2>5. FreshOK' BY <1>0, <1>2 DEF FreshOK, Imports
  <2> QED BY <1>0, <2>2, <2>3, <2>4, <2>5, LocalStep, Leaves
<1> QED BY <1>1, <1>2 DEF Reread

LEMMA RefreshOK == ASSUME IInv, Refresh PROVE IInv'
<1>0. imp.pc = "refresh" /\ UNCHANGED <<Database, History>> BY DEF Refresh
<1>1. PICK e \in SUBSET {imp.at} : NextItem(e, FALSE) BY DEF Refresh
<1> QED BY <1>0, <1>1, NextItemOK, LocalStep, Leaves DEF InItem

LEMMA ItemsDoneOK == ASSUME IInv, ItemsDone PROVE IInv'
<1>0. /\ imp \in Imports /\ imp.pc = "items" /\ UNCHANGED <<Database, History>>
      /\ imp' = [imp EXCEPT !.pc = "links", !.at = 1]
  BY DEF IInv, TypeOK, ItemsDone
<1>2. imp' \in Imports BY <1>0, One DEF Imports, Phases
<1>3. FileOK' BY <1>0 DEF IInv, FileOK, Imports, Phases, InItem, InLinks
<1>4. RowOK' BY <1>0 DEF IInv, RowOK, Imports, Database
<1>5. FreshOK' BY <1>0 DEF FreshOK, Imports
<1> QED BY <1>0, <1>2, <1>3, <1>4, <1>5, LocalStep, Leaves

LEMMA FindServiceOK == ASSUME IInv, imp.pc = "links", NEW k \in Links, FindService(k) PROVE IInv'
<1>0. /\ imp \in Imports /\ UNCHANGED <<Database, History>>
      /\ imp.file \in FileType /\ imp.file.services \in Seq(Items)
  BY DEF IInv, TypeOK, FindService, FileOK, Phases, InLinks
<1>1. k \in Nat \ {0} BY <1>0 DEF Links
<1>2. CASE NextLink(k, {k}, FALSE)
  BY <1>0, <1>1, <1>2, NextLinkOK, LocalStep, Leaves DEF InLinks
<1>3. ASSUME imp' = [imp EXCEPT !.pc = "target", !.at = k,
                                !.row = IF Known(Item(k).slug) \cap Mine = {} THEN None
                                        ELSE CHOOSE i \in Known(Item(k).slug) \cap Mine : TRUE]
      PROVE  IInv'
  <2> DEFINE row == IF Known(Item(k).slug) \cap Mine = {} THEN None
                    ELSE CHOOSE i \in Known(Item(k).slug) \cap Mine : TRUE
  <2>1. row = None \/ row \in Mine OBVIOUS
  <2> HIDE DEF row
  <2>2. imp' = [imp EXCEPT !.pc = "target", !.at = k, !.row = row] BY <1>3 DEF row
  <2>3. row = None \/ (row \in Ids /\ svc[row] # None /\ svc[row].owner = me)
    BY <2>1 DEF Mine
  <2>4. imp' \in Imports BY <1>0, <1>1, <2>2, <2>3 DEF Imports, Phases
  <2>5. FileOK' BY <1>0, <2>2 DEF FileOK, Imports, InItem, InLinks
  <2>6. RowOK' BY <1>0, <2>2, <2>3, ImportAssumption DEF IInv, UsedOK, RowOK, Imports, Database
  <2>7. FreshOK' BY <1>0, <2>2 DEF FreshOK, Imports
  <2> QED BY <1>0, <2>4, <2>5, <2>6, <2>7, LocalStep, Leaves
<1> QED BY <1>2, <1>3 DEF FindService

LEMMA FindTargetOK == ASSUME IInv, FindTarget PROVE IInv'
<1>0. imp \in Imports /\ imp.pc = "target" /\ UNCHANGED <<Database, History>>
  BY DEF IInv, TypeOK, FindTarget
<1>1. imp.at \in Nat BY <1>0 DEF Imports
<1>2. CASE NextLink(imp.at, {}, FALSE)
  BY <1>0, <1>1, <1>2, NextLinkOK, LocalStep, Leaves DEF InLinks
<1>3. ASSUME imp.row # None, NEW f \in Ids, imp' = [imp EXCEPT !.pc = "link", !.target = f]
      PROVE  IInv'
  <2>1. imp' \in Imports BY <1>0, <1>3 DEF Imports, Phases
  <2>2. FileOK' BY <1>0, <1>3 DEF IInv, FileOK, Imports, Phases, InItem, InLinks
  <2>3. RowOK' BY <1>0, <1>3 DEF IInv, RowOK, Imports, Database
  <2>4. FreshOK' BY <1>0, <1>3 DEF FreshOK, Imports
  <2> QED BY <1>0, <2>1, <2>2, <2>3, <2>4, LocalStep, Leaves
<1> QED BY <1>2, <1>3 DEF FindTarget, Known

LEMMA FinishOK == ASSUME IInv, Finish PROVE IInv'
<1>0. /\ imp \in Imports /\ imp.pc = "links" /\ UNCHANGED <<Database, History>>
      /\ imp' = [imp EXCEPT !.pc = "done"]
  BY DEF IInv, TypeOK, Finish
<1>1. imp' \in Imports BY <1>0 DEF Imports, Phases
<1>2. FileOK' BY <1>0 DEF IInv, FileOK, Imports, Phases, InItem, InLinks
<1>3. RowOK' /\ FreshOK' BY <1>0 DEF IInv, RowOK, FreshOK, Imports, Database
<1> QED BY <1>0, <1>1, <1>2, <1>3, LocalStep, Leaves

-------------------------------------------------------------------------------
(* The steps that write services *)

\* The tables after a row of the user has been written.
LEMMA Written ==
    ASSUME IInv, NEW i \in Ids, svc[i] # None, NEW row \in Rows, svc' = [svc EXCEPT ![i] = row],
           row.owner = svc[i].owner, row.slug = svc[i].slug,
           row.group # None => grp[row.group] # None, row.fb # None => svc[row.fb] # None,
           UNCHANGED <<grp, used>>
    PROVE  /\ svc' \in [Ids -> Rows \cup {None}] /\ Sound(svc, grp)' /\ UsedOK'
           /\ \A j \in Ids : /\ svc[j] # None => svc'[j] # None
                             /\ svc'[j] # None => svc[j] # None
                             /\ svc[j] # None => svc'[j].owner = svc[j].owner
<1>1. svc \in [Ids -> Rows \cup {None}] /\ Sound(svc, grp) /\ UsedOK
  BY DEF IInv, TypeOK
<1>2. row # None BY ImportAssumption
<1>3. svc' \in [Ids -> Rows \cup {None}] BY <1>1
<1>4. \A j \in Ids : /\ svc[j] # None => svc'[j] # None
                     /\ svc'[j] # None => svc[j] # None
                     /\ svc[j] # None => /\ svc'[j].owner = svc[j].owner
                                         /\ svc'[j].slug = svc[j].slug
                                         /\ j # i => svc'[j] = svc[j]
  BY <1>1, <1>2
<1>5. UsedOK' BY <1>1, <1>4 DEF UsedOK
<1>6. Sound(svc, grp)'
  <2>1. \A j, k \in Ids : svc'[j] # None /\ svc'[k] # None /\ svc'[j].slug = svc'[k].slug => j = k
    BY <1>1, <1>4 DEF Sound
  <2>2. ASSUME NEW j \in Ids, svc'[j] # None
        PROVE  /\ svc'[j].group # None => grp'[svc'[j].group] # None
               /\ svc'[j].fb # None => svc'[svc'[j].fb] # None
    <3>1. CASE j = i
      <4>1. svc'[j] = row BY <1>1, <3>1
      <4>2. row.fb # None => row.fb \in Ids BY DEF Rows
      <4>3. row.fb # None => svc'[row.fb] # None BY <1>4, <4>2
      <4>4. row.group # None => grp'[row.group] # None OBVIOUS
      <4> QED BY <4>1, <4>3, <4>4
    <3>2. CASE j # i
      <4>1. svc'[j] = svc[j] /\ svc[j] \in Rows BY <1>1, <1>4, <2>2, <3>2
      <4>2. svc[j].fb # None => svc[j].fb \in Ids BY <4>1 DEF Rows
      <4>3. /\ svc[j].group # None => grp[svc[j].group] # None
            /\ svc[j].fb # None => svc[svc[j].fb] # None
        BY <1>1, <2>2, <4>1 DEF Sound
      <4>4. svc[j].fb # None => svc'[svc[j].fb] # None BY <1>4, <4>2, <4>3
      <4> QED BY <4>1, <4>3, <4>4
    <3> QED BY <3>1, <3>2
  <2> QED BY <2>1, <2>2 DEF Sound
<1> QED BY <1>3, <1>4, <1>5, <1>6

\* The fields of the item in hand.
LEMMA ItemInHand ==
    ASSUME IInv, imp.pc \in InItem
    PROVE  /\ Item(imp.at).slug \in Slugs
           /\ Item(imp.at).data \in Data \cup {Partial, Poison}
           /\ GroupOf(Item(imp.at)) \in GroupIds \cup {None}
<1>1. imp.file.services \in Seq(Items) /\ imp.at \in DOMAIN imp.file.services
  BY DEF IInv, FileOK
<1>2. Item(imp.at) \in Items /\ Item(imp.at) # Junk /\ Item(imp.at).data # Bad
  BY <1>1 DEF IInv, FileOK, Item
<1>3. /\ Item(imp.at).group \in Names \cup {None}
      /\ Item(imp.at).data \in Data \cup {Partial, Bad, Poison}
  BY <1>2 DEF Items, Objects
<1>4. Item(imp.at).slug \in Slugs BY DEF IInv, FileOK
<1> QED BY <1>2, <1>3, <1>4 DEF GroupOf, IInv, TypeOK, Imports

LEMMA UpdateOK == ASSUME IInv, Update PROVE IInv'
<1> DEFINE item == Item(imp.at)
           now == svc[imp.row]
<1>0. /\ imp \in Imports /\ imp.pc = "update" /\ imp.row \in Ids /\ imp.row \in used
      /\ UNCHANGED <<grp, used, History>>
  BY DEF IInv, TypeOK, RowOK, Update
<1>1. CASE NextItem({imp.at}, TRUE) /\ UNCHANGED svc
  <2>1. UNCHANGED <<Database, History>> BY <1>0, <1>1 DEF Database
  <2> QED BY <1>0, <1>1, <2>1, NextItemOK, LocalStep, Leaves DEF InItem
<1>2. ASSUME imp' = [imp EXCEPT !.pc = "refresh"]
      PROVE  imp' \in Imports /\ FileOK' /\ FreshOK'
  <2>1. imp' \in Imports BY <1>0, <1>2 DEF Imports, Phases
  <2>2. FileOK' BY <1>0, <1>2 DEF IInv, FileOK, Imports, Phases, InItem, InLinks, Item
  <2>3. FreshOK' BY <1>0, <1>2 DEF FreshOK, Imports
  <2> QED BY <2>1, <2>2, <2>3
<1>3. CASE imp' = [imp EXCEPT !.pc = "refresh"] /\ UNCHANGED svc
  <2>1. UNCHANGED <<Database, History>> BY <1>0, <1>3 DEF Database
  <2>2. RowOK' BY <1>0, <1>3 DEF IInv, RowOK, Imports
  <2> QED BY <1>2, <1>3, <2>1, <2>2, LocalStep, Leaves
<1>4. ASSUME now # None, item.data # Poison,
             NEW group \in Flushed(now.group, GroupOf(item), now.slug \in touched),
             NEW data \in IF item.data = Partial THEN {now.data}
                          ELSE Flushed(now.data, item.data, now.slug \in touched),
             FkOk(now.group, group, grp),
             svc' = [svc EXCEPT ![imp.row].group = group, ![imp.row].data = data],
             imp' = [imp EXCEPT !.pc = "refresh"]
      PROVE  IInv'
  <2> DEFINE row == [now EXCEPT !.group = group, !.data = data]
  <2>1. now \in Rows BY <1>0, <1>4 DEF IInv, TypeOK
  <2>2. group \in GroupIds \cup {None} /\ data \in Data
    BY <1>0, <1>4, <2>1, ItemInHand DEF Flushed, Rows, InItem
  <2>3. row \in Rows /\ row.owner = now.owner /\ row.slug = now.slug /\ row.group = group
        /\ row.fb = now.fb
    BY <2>1, <2>2 DEF Rows
  <2>4. /\ now.group # None => grp[now.group] # None
        /\ now.fb # None => svc[now.fb] # None
    BY <1>0, <1>4 DEF IInv, TypeOK, Sound
  <2>5. svc' = [svc EXCEPT ![imp.row] = row]
    BY <1>0, <1>4 DEF IInv, TypeOK
  <2>6. row.group # None => grp[row.group] # None BY <1>4, <2>3, <2>4 DEF FkOk
  <2> HIDE DEF row
  <2>7. /\ svc' \in [Ids -> Rows \cup {None}] /\ Sound(svc, grp)' /\ UsedOK'
        /\ \A j \in Ids : /\ svc[j] # None => svc'[j] # None
                          /\ svc'[j] # None => svc[j] # None
                          /\ svc[j] # None => svc'[j].owner = svc[j].owner
    <3>1. row.fb # None => svc[row.fb] # None BY <2>3, <2>4
    <3>2. UNCHANGED <<grp, used>> BY <1>0
    <3>3. now # None BY <1>4
    <3> HIDE DEF now
    <3>4. svc[imp.row] = now BY DEF now
    <3> QED BY <1>0, <2>3, <2>5, <2>6, <3>1, <3>2, <3>3, <3>4, Written
  <2>8. RowOK' BY <1>0, <1>4, <2>7 DEF IInv, RowOK, Imports
  <2>9. TypeOK' BY <1>0, <1>2, <1>4, <2>7 DEF IInv, TypeOK, History
  <2> QED BY <1>2, <1>4, <2>7, <2>8, <2>9 DEF IInv
<1> QED BY <1>1, <1>3, <1>4 DEF Update

LEMMA CommitLinkOK == ASSUME IInv, CommitLink PROVE IInv'
<1> DEFINE now == svc[imp.row]
<1>0. /\ imp \in Imports /\ imp.pc = "link" /\ imp.row \in Ids /\ imp.target \in Ids
      /\ imp.at \in Nat \ {0} /\ UNCHANGED <<grp, used, History>>
  BY DEF IInv, TypeOK, Imports, RowOK, CommitLink
<1>1. ASSUME NEW e \in SUBSET {imp.at}, NEW d \in BOOLEAN, NextLink(imp.at, e, d), UNCHANGED svc
      PROVE  IInv'
  <2>1. UNCHANGED <<Database, History>> BY <1>0, <1>1 DEF Database
  <2> QED BY <1>0, <1>1, <2>1, NextLinkOK, LocalStep, Leaves DEF InLinks
<1>2. ASSUME now # None, NEW fb \in Flushed(now.fb, imp.target, now.slug \in touched),
             FkOk(now.fb, fb, svc), svc' = [svc EXCEPT ![imp.row].fb = fb],
             NextLink(imp.at, {}, FALSE)
      PROVE  IInv'
  <2> DEFINE row == [now EXCEPT !.fb = fb]
  <2>1. now \in Rows BY <1>0, <1>2 DEF IInv, TypeOK
  <2>2. fb \in Ids \cup {None} BY <1>0, <1>2, <2>1 DEF Flushed, Rows
  <2>3. row \in Rows /\ row.owner = now.owner /\ row.slug = now.slug /\ row.group = now.group
        /\ row.fb = fb
    BY <2>1, <2>2 DEF Rows
  <2>4. /\ now.group # None => grp[now.group] # None
        /\ now.fb # None => svc[now.fb] # None
    BY <1>0, <1>2 DEF IInv, TypeOK, Sound
  <2>5. svc' = [svc EXCEPT ![imp.row] = row]
    BY <1>0, <1>2 DEF IInv, TypeOK
  <2>6. row.fb # None => svc[row.fb] # None BY <1>2, <2>3, <2>4 DEF FkOk
  <2> HIDE DEF row
  <2>7. /\ svc' \in [Ids -> Rows \cup {None}] /\ Sound(svc, grp)' /\ UsedOK'
    <3>1. row.group # None => grp[row.group] # None BY <2>3, <2>4
    <3>2. UNCHANGED <<grp, used>> BY <1>0
    <3>3. now # None BY <1>2
    <3> HIDE DEF now
    <3>4. svc[imp.row] = now BY DEF now
    <3> QED BY <1>0, <2>3, <2>5, <2>6, <3>1, <3>2, <3>3, <3>4, Written
  <2>8. imp' \in Imports /\ FileOK' /\ RowOK' /\ FreshOK'
    BY <1>0, <1>2, NextLinkOK DEF InLinks
  <2>9. TypeOK' BY <1>0, <2>7, <2>8 DEF IInv, TypeOK, History
  <2> QED BY <2>7, <2>8, <2>9 DEF IInv
<1> QED BY <1>1, <1>2 DEF CommitLink

\* The tables after a row has been inserted.
LEMMA Inserted ==
    ASSUME IInv, NEW i \in Ids \ used, NEW row \in Rows, svc' = [svc EXCEPT ![i] = row],
           used' = used \cup {i}, UNCHANGED grp
    PROVE  /\ svc' \in [Ids -> Rows \cup {None}] /\ UsedOK'
           /\ svc[i] = None /\ svc'[i] = row /\ row # None
           /\ \A j \in Ids : j # i => svc'[j] = svc[j]
BY ImportAssumption DEF IInv, TypeOK, UsedOK

LEMMA InsertOK == ASSUME IInv, Insert PROVE IInv'
<1> DEFINE item == Item(imp.at)
<1>0. imp \in Imports /\ imp.pc = "insert" /\ UNCHANGED <<grp, History>>
  BY DEF IInv, TypeOK, Insert
<1>1. CASE NextItem({imp.at}, TRUE) /\ UNCHANGED <<svc, used>>
  <2>1. UNCHANGED <<Database, History>> BY <1>0, <1>1 DEF Database
  <2> QED BY <1>0, <1>1, <2>1, NextItemOK, LocalStep, Leaves DEF InItem
<1>2. ASSUME Known(item.slug) = {}, FkOk(None, GroupOf(item), grp), item.data # Poison,
             NEW i \in Ids \ used, used' = used \cup {i},
             svc' = [svc EXCEPT ![i] = [owner |-> me, slug |-> item.slug,
                                        group |-> GroupOf(item), data |-> item.data, fb |-> None]],
             imp' = [imp EXCEPT !.pc = "refresh", !.row = i]
      PROVE  IInv'
  <2> DEFINE row == [owner |-> me, slug |-> item.slug, group |-> GroupOf(item),
                     data |-> item.data, fb |-> None]
  <2>1. item.data # Partial BY <1>0 DEF IInv, FileOK
  <2>2. row \in Rows
    BY <1>0, <1>2, <2>1, ItemInHand, ImportAssumption DEF Rows, InItem
  <2>3. row.owner = me /\ row.slug = item.slug /\ row.group = GroupOf(item) /\ row.fb = None
    OBVIOUS
  <2> HIDE DEF row
  <2>4. /\ svc' \in [Ids -> Rows \cup {None}] /\ UsedOK'
        /\ svc[i] = None /\ svc'[i] = row /\ row # None
        /\ \A j \in Ids : j # i => svc'[j] = svc[j]
    BY <1>0, <1>2, <2>2, Inserted DEF row
  <2>5. Sound(svc, grp)'
    <3>1. svc \in [Ids -> Rows \cup {None}] /\ Sound(svc, grp) BY DEF IInv, TypeOK
    <3>2. \A j \in Ids : svc[j] # None => svc[j].slug # item.slug BY <1>2 DEF Known
    <3>3. \A j, k \in Ids : svc'[j] # None /\ svc'[k] # None /\ svc'[j].slug = svc'[k].slug => j = k
      BY <2>3, <2>4, <3>1, <3>2 DEF Sound
    <3>4. ASSUME NEW j \in Ids, svc'[j] # None
          PROVE  /\ svc'[j].group # None => grp'[svc'[j].group] # None
                 /\ svc'[j].fb # None => svc'[svc'[j].fb] # None
      <4>1. CASE j = i BY <1>0, <1>2, <2>3, <2>4, <4>1 DEF FkOk
      <4>2. CASE j # i
        <5>1. svc'[j] = svc[j] /\ svc[j] \in Rows BY <2>4, <3>1, <3>4, <4>2
        <5>2. svc[j].fb # None => svc[j].fb \in Ids BY <5>1 DEF Rows
        <5> QED BY <1>0, <2>4, <3>1, <3>4, <5>1, <5>2 DEF Sound
      <4> QED BY <4>1, <4>2
    <3> QED BY <3>3, <3>4 DEF Sound
  <2>6. imp' \in Imports BY <1>0, <1>2 DEF Imports, Phases
  <2>7. FileOK' BY <1>0, <1>2 DEF IInv, FileOK, Imports, Phases, InItem, InLinks, Item
  <2>8. RowOK' BY <1>0, <1>2, <2>3, <2>4 DEF RowOK, Imports
  <2>9. FreshOK' BY <1>0, <1>2 DEF FreshOK, Imports
  <2>10. TypeOK' BY <1>0, <1>2, <2>4, <2>5, <2>6 DEF IInv, TypeOK, History
  <2> QED BY <2>4, <2>7, <2>8, <2>9, <2>10 DEF IInv
<1> QED BY <1>1, <1>2 DEF Insert

-------------------------------------------------------------------------------
(* The other requests *)

\* What they have in common: if they leave the tables sound, give no row another owner and
\* take unused ids, the invariant is kept.
LEMMA OtherStep ==
    ASSUME IInv, ops < MaxOps, NEW b \in BOOLEAN, Other(b),
           svc' \in [Ids -> Rows \cup {None}], grp' \in [GroupIds -> Groups \cup {None}],
           Sound(svc, grp)', UsedOK', used \subseteq used', used' \subseteq Ids \cup GroupIds,
           \A i \in used \cap Ids : svc'[i] # None => svc[i] # None /\ svc'[i].owner = svc[i].owner
    PROVE  IInv'
<1>1. imp' = imp /\ exported' = exported /\ ops' = ops + 1 BY DEF Other
<1>2. ops' \in 0..MaxOps BY <1>1, ImportAssumption DEF IInv, TypeOK
<1>3. touched' \subseteq Slugs BY DEF IInv, TypeOK, Other
<1>4. calm' \in BOOLEAN BY Zenon DEF Other
<1>5. TypeOK' BY <1>1, <1>2, <1>3, <1>4 DEF IInv, TypeOK
<1>6. FileOK' /\ FreshOK' BY <1>1 DEF IInv, FileOK, FreshOK, Item
<1>7. RowOK' BY <1>1 DEF IInv, RowOK
<1> QED BY <1>5, <1>6, <1>7 DEF IInv

LEMMA CreateServiceOK ==
    ASSUME IInv, ops < MaxOps, NEW i \in Ids, NEW row \in Rows, CreateService(i, row)
    PROVE  IInv'
<1>1. Other(FALSE) /\ Sound(svc, grp)' BY DEF CreateService, Sound
<1>2. /\ svc' \in [Ids -> Rows \cup {None}] /\ UsedOK'
      /\ \A j \in Ids : j # i => svc'[j] = svc[j]
  BY Inserted DEF CreateService
<1>3. /\ i \notin used /\ used \subseteq used' /\ used' \subseteq Ids \cup GroupIds
      /\ grp' \in [GroupIds -> Groups \cup {None}]
  BY DEF IInv, TypeOK, CreateService
<1> QED BY <1>1, <1>2, <1>3, OtherStep

LEMMA EditServiceOK ==
    ASSUME IInv, ops < MaxOps, NEW i \in Ids, NEW row \in Rows, EditService(i, row)
    PROVE  IInv'
<1>1. /\ Other(FALSE) /\ Sound(svc, grp)' /\ UNCHANGED <<grp, used>>
      /\ svc[i] # None /\ row.owner = svc[i].owner /\ svc' = [svc EXCEPT ![i] = row]
  BY DEF EditService, Sound
<1>2. svc' \in [Ids -> Rows \cup {None}] BY <1>1 DEF IInv, TypeOK
<1>3. \A j \in Ids : svc'[j] # None => svc[j] # None /\ svc'[j].owner = svc[j].owner
  BY <1>1 DEF IInv, TypeOK
<1>4. UsedOK' BY <1>1, <1>3 DEF IInv, UsedOK
<1>5. /\ used \subseteq used' /\ used' \subseteq Ids \cup GroupIds
      /\ grp' \in [GroupIds -> Groups \cup {None}]
  BY <1>1 DEF IInv, TypeOK
<1> QED BY <1>1, <1>2, <1>3, <1>4, <1>5, OtherStep

\* A table in which rows are only missing, or have lost their group or their fallback.
LEMMA SetNullOK ==
    ASSUME IInv, svc' = [i \in Ids |-> svc'[i]],
           \A i \in Ids : svc'[i] \in {svc[i], None}
                         \cup {[svc[i] EXCEPT !.fb = None], [svc[i] EXCEPT !.group = None]},
           \A i \in Ids : svc[i] = None => svc'[i] = None
    PROVE  /\ svc' \in [Ids -> Rows \cup {None}]
           /\ \A i \in Ids : svc'[i] # None => /\ svc[i] # None
                                              /\ svc'[i].owner = svc[i].owner
                                              /\ svc'[i].slug = svc[i].slug
                                              /\ svc'[i].group \in {svc[i].group, None}
                                              /\ svc'[i].fb \in {svc[i].fb, None}
<1>1. \A i \in Ids : svc[i] # None => svc[i] \in Rows BY DEF IInv, TypeOK
<1>2. \A r \in Rows : /\ [r EXCEPT !.fb = None] \in Rows /\ [r EXCEPT !.group = None] \in Rows
  BY DEF Rows
<1>3. svc' \in [Ids -> Rows \cup {None}]
  <2>1. \A i \in Ids : svc'[i] \in Rows \cup {None} BY <1>1, <1>2
  <2> QED BY <2>1
<1>4. ASSUME NEW i \in Ids, svc'[i] # None
      PROVE  /\ svc[i] # None
             /\ svc'[i].owner = svc[i].owner /\ svc'[i].slug = svc[i].slug
             /\ svc'[i].group \in {svc[i].group, None} /\ svc'[i].fb \in {svc[i].fb, None}
  <2>1. svc[i] \in Rows BY <1>1, <1>4
  <2> QED BY <1>4, <2>1 DEF Rows
<1> QED BY <1>3, <1>4

LEMMA DeleteServiceOK ==
    ASSUME IInv, ops < MaxOps, NEW i \in Ids, DeleteService(i)
    PROVE  IInv'
<1>1. /\ UNCHANGED <<grp, used>> /\ Other(svc[i].owner = me)
      /\ svc' = [j \in Ids |-> IF j = i THEN None
                               ELSE IF svc[j] # None /\ svc[j].fb = i
                                 THEN [svc[j] EXCEPT !.fb = None] ELSE svc[j]]
  BY DEF DeleteService
<1>2. /\ svc' \in [Ids -> Rows \cup {None}]
      /\ \A j \in Ids : svc'[j] # None => /\ svc[j] # None
                                         /\ svc'[j].owner = svc[j].owner
                                         /\ svc'[j].slug = svc[j].slug
                                         /\ svc'[j].group \in {svc[j].group, None}
                                         /\ svc'[j].fb \in {svc[j].fb, None}
  BY <1>1, SetNullOK
<1>3. \A j \in Ids : /\ svc'[j] # None => svc'[j].fb # i
                     /\ j # i /\ svc[j] # None => svc'[j] # None
  <2> SUFFICES ASSUME NEW j \in Ids
               PROVE  /\ svc'[j] # None => svc'[j].fb # i
                      /\ j # i /\ svc[j] # None => svc'[j] # None
    OBVIOUS
  <2>1. svc[j] # None => svc[j] \in Rows /\ [svc[j] EXCEPT !.fb = None] \in Rows
    BY DEF IInv, TypeOK, Rows
  <2>2. None \notin Rows /\ None # i BY ImportAssumption
  <2>3. svc[j] \in Rows => [svc[j] EXCEPT !.fb = None].fb = None BY DEF Rows
  <2> QED BY <1>1, <2>1, <2>2, <2>3
<1>4. Sound(svc, grp)'
  <2>1. Sound(svc, grp) /\ svc \in [Ids -> Rows \cup {None}] BY DEF IInv, TypeOK
  <2>2. \A j, k \in Ids : svc'[j] # None /\ svc'[k] # None /\ svc'[j].slug = svc'[k].slug => j = k
    BY <1>2, <2>1 DEF Sound
  <2>3. ASSUME NEW j \in Ids, svc'[j] # None
        PROVE  /\ svc'[j].group # None => grp'[svc'[j].group] # None
               /\ svc'[j].fb # None => svc'[svc'[j].fb] # None
    <3>1. svc'[j].group # None => grp'[svc'[j].group] # None
      BY <1>1, <1>2, <2>1, <2>3 DEF Sound
    <3>2. svc'[j].fb # None => svc'[j].fb \in Ids BY <1>2, <2>3 DEF Rows
    <3>3. svc'[j].fb # None => svc[svc'[j].fb] # None BY <1>2, <2>1, <2>3 DEF Sound
    <3> QED BY <1>3, <2>3, <3>1, <3>2, <3>3
  <2> QED BY <2>2, <2>3 DEF Sound
<1>5. UsedOK' BY <1>1, <1>2 DEF IInv, UsedOK
<1>6. /\ used \subseteq used' /\ used' \subseteq Ids \cup GroupIds
      /\ grp' \in [GroupIds -> Groups \cup {None}] /\ (svc[i].owner = me) \in BOOLEAN
  BY <1>1 DEF IInv, TypeOK
<1> QED BY <1>1, <1>2, <1>4, <1>5, <1>6, OtherStep

LEMMA DeleteGroupOK ==
    ASSUME IInv, ops < MaxOps, NEW g \in GroupIds, DeleteGroup(g)
    PROVE  IInv'
<1>1. /\ used' = used /\ Other(grp[g].owner = me) /\ grp' = [grp EXCEPT ![g] = None]
      /\ svc' = [j \in Ids |-> IF svc[j] # None /\ svc[j].group = g
                                 THEN [svc[j] EXCEPT !.group = None] ELSE svc[j]]
  BY DEF DeleteGroup
<1>2. /\ svc' \in [Ids -> Rows \cup {None}]
      /\ \A j \in Ids : svc'[j] # None => /\ svc[j] # None
                                         /\ svc'[j].owner = svc[j].owner
                                         /\ svc'[j].slug = svc[j].slug
                                         /\ svc'[j].group \in {svc[j].group, None}
                                         /\ svc'[j].fb \in {svc[j].fb, None}
  BY <1>1, SetNullOK
<1>3. \A j \in Ids : /\ svc'[j] # None => svc'[j].group # g
                     /\ svc[j] # None => svc'[j] # None
  <2> SUFFICES ASSUME NEW j \in Ids
               PROVE  /\ svc'[j] # None => svc'[j].group # g
                      /\ svc[j] # None => svc'[j] # None
    OBVIOUS
  <2>1. svc[j] # None => svc[j] \in Rows /\ [svc[j] EXCEPT !.group = None] \in Rows
    BY DEF IInv, TypeOK, Rows
  <2>2. None \notin Rows /\ None # g BY ImportAssumption
  <2>3. svc[j] \in Rows => [svc[j] EXCEPT !.group = None].group = None BY DEF Rows
  <2> QED BY <1>1, <2>1, <2>2, <2>3
<1>4. Sound(svc, grp)'
  <2>1. Sound(svc, grp) /\ svc \in [Ids -> Rows \cup {None}] BY DEF IInv, TypeOK
  <2>2. \A j, k \in Ids : svc'[j] # None /\ svc'[k] # None /\ svc'[j].slug = svc'[k].slug => j = k
    BY <1>2, <2>1 DEF Sound
  <2>3. ASSUME NEW j \in Ids, svc'[j] # None
        PROVE  /\ svc'[j].group # None => grp'[svc'[j].group] # None
               /\ svc'[j].fb # None => svc'[svc'[j].fb] # None
    <3>1. /\ svc'[j].fb # None => svc'[j].fb \in Ids
          /\ svc'[j].group # None => svc'[j].group \in GroupIds
      BY <1>2, <2>3 DEF Rows
    <3>2. /\ svc'[j].fb # None => svc[svc'[j].fb] # None
          /\ svc'[j].group # None => grp[svc'[j].group] # None
      BY <1>2, <2>1, <2>3 DEF Sound
    <3>3. \A h \in GroupIds : h # g => grp'[h] = grp[h] BY <1>1 DEF IInv, TypeOK
    <3> QED BY <1>3, <2>3, <3>1, <3>2, <3>3
  <2> QED BY <2>2, <2>3 DEF Sound
<1>5. UsedOK' BY <1>1, <1>2 DEF IInv, TypeOK, UsedOK
<1>6. /\ used \subseteq used' /\ used' \subseteq Ids \cup GroupIds
      /\ grp' \in [GroupIds -> Groups \cup {None}] /\ (grp[g].owner = me) \in BOOLEAN
  BY <1>1 DEF IInv, TypeOK
<1> QED BY <1>1, <1>2, <1>4, <1>5, <1>6, OtherStep

\* A group is created or renamed.
LEMMA GroupWritten ==
    ASSUME IInv, NEW g \in GroupIds, NEW group \in Groups, grp' = [grp EXCEPT ![g] = group],
           svc' = svc, used' = used \cup {g}
    PROVE  /\ svc' \in [Ids -> Rows \cup {None}] /\ grp' \in [GroupIds -> Groups \cup {None}]
           /\ Sound(svc, grp)' /\ UsedOK'
<1>1. /\ svc \in [Ids -> Rows \cup {None}] /\ grp \in [GroupIds -> Groups \cup {None}]
      /\ Sound(svc, grp)
  BY DEF IInv, TypeOK
<1>2. \A h \in GroupIds : grp[h] # None => grp'[h] # None BY <1>1, ImportAssumption
<1>3. \A i \in Ids : svc[i] # None /\ svc[i].group # None => svc[i].group \in GroupIds
  BY <1>1 DEF Rows
<1>4. Sound(svc, grp)' BY <1>1, <1>2, <1>3 DEF Sound
<1>5. UsedOK' BY <1>1 DEF IInv, UsedOK
<1> QED BY <1>1, <1>4, <1>5

LEMMA OtherGroupOK ==
    ASSUME IInv, ops < MaxOps, NEW g \in GroupIds,
           \/ \E group \in Groups : CreateGroup(g, group)
           \/ \E name \in Names : UpdateGroup(g, name)
    PROVE  IInv'
<1>1. CASE \E group \in Groups : CreateGroup(g, group)
  <2>1. PICK group \in Groups : CreateGroup(g, group) BY <1>1
  <2>2. /\ grp' = [grp EXCEPT ![g] = group] /\ svc' = svc /\ used' = used \cup {g} /\ Other(FALSE)
    BY <2>1 DEF CreateGroup
  <2> QED BY <2>2, GroupWritten, OtherStep DEF IInv, TypeOK
<1>2. CASE \E name \in Names : UpdateGroup(g, name)
  <2>1. PICK name \in Names : UpdateGroup(g, name) BY <1>2
  <2>2. /\ grp[g] # None /\ grp' = [grp EXCEPT ![g].name = name]
        /\ svc' = svc /\ used' = used /\ Other(FALSE)
    BY <2>1 DEF UpdateGroup
  <2>3. grp[g] \in Groups BY <2>2 DEF IInv, TypeOK
  <2>4. [grp[g] EXCEPT !.name = name] \in Groups BY <2>3 DEF Groups
  <2>5. grp' = [grp EXCEPT ![g] = [grp[g] EXCEPT !.name = name]] BY <2>2 DEF IInv, TypeOK
  <2>6. used' = used \cup {g} BY <2>2 DEF IInv, UsedOK
  <2> QED BY <2>2, <2>4, <2>5, <2>6, GroupWritten, OtherStep DEF IInv, TypeOK
<1> QED BY <1>1, <1>2

-------------------------------------------------------------------------------
LEMMA ExportOK == ASSUME IInv, Export PROVE IInv'
<1>1. exported' \in FileType BY ExportTyped
<1>2. UNCHANGED <<svc, grp, used, imp, touched, ops>> /\ calm' \in BOOLEAN BY DEF Export
<1> QED BY <1>1, <1>2 DEF IInv, TypeOK, FileOK, RowOK, UsedOK, FreshOK, Item

LEMMA StepOK == IInv /\ [Next]_vars => IInv'
<1> SUFFICES ASSUME IInv, [Next]_vars PROVE IInv' OBVIOUS
<1>1. CASE UNCHANGED vars
  BY <1>1 DEF vars, IInv, TypeOK, FileOK, RowOK, UsedOK, FreshOK, Item
<1>2. CASE Export BY <1>2, ExportOK
<1>3. CASE Import
  BY <1>3, UploadOK, FindGroupOK, CommitGroupsOK, LoadGroupsOK, ScanItemOK, LookupOK, RereadOK,
     UpdateOK, InsertOK, RefreshOK, ItemsDoneOK, FindServiceOK, FindTargetOK, CommitLinkOK, FinishOK
     DEF Import
<1>4. CASE ops < MaxOps /\ Others
  BY <1>4, CreateServiceOK, EditServiceOK, DeleteServiceOK, DeleteGroupOK, OtherGroupOK DEF Others
<1> QED BY <1>1, <1>2, <1>3, <1>4 DEF Next

THEOREM Invariant == Spec => []IInv
<1> QED BY InitOK, StepOK, PTL DEF Spec

\* The tables keep their foreign keys and their unique slugs, whatever an import and others
\* do at once, also through names of groups that the import remembers too long.
THEOREM TypeCorrect == Spec => []TypeOK
<1>1. IInv => TypeOK BY DEF IInv
<1> QED BY <1>1, Invariant, PTL

\* The import of one user leaves the services of all others as they are.
THEOREM OthersLeftAlone == Spec => OthersUntouched
<1>1. ASSUME IInv, [Next]_vars, imp' # imp, NEW i \in Ids, svc[i] # None, svc[i].owner # me
      PROVE  svc'[i] = svc[i]
  <2>1. svc \in [Ids -> Rows \cup {None}] BY <1>1 DEF IInv, TypeOK
  <2>2. imp.row \in Ids /\ svc[imp.row] # None => svc[imp.row].owner = me
    BY <1>1 DEF IInv, RowOK
  <2>3. i \in used BY <1>1 DEF IInv, UsedOK
  <2>4. CASE UNCHANGED vars BY <1>1, <2>4 DEF vars
  <2>5. CASE Export BY <1>1, <2>5 DEF Export
  <2>6. CASE Others
    BY <1>1, <2>6 DEF Others, CreateService, EditService, DeleteService, CreateGroup, UpdateGroup,
                      DeleteGroup, Other
  <2>7. CASE Update BY <1>1, <2>1, <2>2, <2>7 DEF Update
  <2>8. CASE Insert BY <1>1, <2>1, <2>3, <2>8 DEF Insert
  <2>9. CASE CommitLink BY <1>1, <2>1, <2>2, <2>9 DEF CommitLink
  <2>10. CASE Import /\ ~Update /\ ~Insert /\ ~CommitLink
    BY <2>10 DEF Import, Upload, FindGroup, CommitGroups, LoadGroups, JunkItem, SkipItem, Lookup,
                 Reread, Refresh, ItemsDone, FindService, FindTarget, Finish, Database
  <2> QED BY <1>1, <2>4, <2>5, <2>6, <2>7, <2>8, <2>9, <2>10 DEF Next
<1>2. IInv /\ [Next]_vars =>
        [imp' # imp => \A i \in Ids : svc[i] # None /\ svc[i].owner # me => svc'[i] = svc[i]]_vars
  BY <1>1
<1> QED BY <1>2, Invariant, PTL DEF Spec, OthersUntouched

-------------------------------------------------------------------------------
(* What the answer says *)

\* The items that have been dealt with and have made no error.
Past == {k \in DOMAIN imp.file.services \ imp.errors :
            imp.pc \in {"items"} \cup InItem =>
                k < imp.at \/ (imp.pc = "refresh" /\ k = imp.at)}

Final(k) == \A j \in Past : j > k => Item(j).slug # Item(k).slug

Placed(k, i) == /\ i \in Known(Item(k).slug) \cap Mine
                /\ svc[i].group = GroupOf(Item(k))
                /\ Item(k).data \in {svc[i].data, Partial}

Linked(k, i) == \/ Item(k).fb = None \/ k \in imp.linkErrors \/ Item(k).fb \in touched
                \/ Known(Item(k).fb) = {}
                \/ svc[i].fb \in Known(Item(k).fb)

ErrorsOK == /\ imp.pc \in {"groups", "reload"} => imp.errors = {}
            /\ imp.pc \in {"items"} \cup InItem => \A k \in imp.errors : k < imp.at

\* The row in hand is the one that the item names, unless others have been there.
HandOK ==
    /\ imp.pc \in {"reread", "update", "refresh", "target", "link"} /\ imp.row \in Ids =>
          /\ svc[imp.row] # None => svc[imp.row].slug \in {Item(imp.at).slug} \cup touched
          /\ Item(imp.at).slug \notin touched => imp.row \in Known(Item(imp.at).slug)
    /\ imp.pc \in {"target", "link"} => imp.at \in DOMAIN imp.file.services \ imp.errors
    /\ imp.pc = "target" /\ imp.row = None /\ Final(imp.at) => Item(imp.at).slug \in touched
    /\ imp.pc = "link" => \/ Item(imp.at).fb \in touched
                          \/ imp.target \in Known(Item(imp.at).fb)

PlacedOK ==
    imp.pc \in {"items", "done"} \cup InItem \cup InLinks =>
        \A k \in Past : Final(k) /\ Item(k).slug \notin touched =>
            \E i \in Ids : /\ Placed(k, i)
                           /\ imp.pc = "done" \/ (imp.pc \in InLinks /\ k < imp.at) => Linked(k, i)

AccountOK == ErrorsOK /\ HandOK /\ PlacedOK

\* No two services have one slug.
LEMMA Unique ==
    ASSUME IInv, NEW s, NEW i \in Known(s), NEW j \in Known(s)
    PROVE  i = j
BY DEF IInv, TypeOK, Sound, Known

\* What others do to a slug shows in `touched'.
LEMMA Touch ==
    ASSUME IInv, IInv', Others, imp.pc # "idle"
    PROVE  /\ UNCHANGED imp
           /\ touched \subseteq touched'
           /\ \A i \in Ids : svc'[i] # svc[i] =>
                 /\ svc[i] # None => svc[i].slug \in touched'
                 /\ svc'[i] # None => svc'[i].slug \in touched'
<1>1. /\ imp' = imp
      /\ touched' = touched \cup {s \in Slugs :
                         \E i \in Ids : /\ svc'[i] # svc[i]
                                        /\ \/ svc[i] # None /\ svc[i].slug = s
                                           \/ svc'[i] # None /\ svc'[i].slug = s}
  BY DEF Others, CreateService, EditService, DeleteService, CreateGroup, UpdateGroup, DeleteGroup, Other
<1>2. \A i \in Ids : /\ svc[i] # None => svc[i].slug \in Slugs
                     /\ svc'[i] # None => svc'[i].slug \in Slugs
  BY DEF IInv, TypeOK, Rows
<1> QED BY <1>1, <1>2

LEMMA OthersAccount == ASSUME IInv, IInv', AccountOK, Others PROVE AccountOK'
<1>1. CASE imp.pc = "idle"
  <2>1. imp' = imp
    BY DEF Others, CreateService, EditService, DeleteService, CreateGroup, UpdateGroup, DeleteGroup, Other
  <2> QED BY <1>1, <2>1 DEF AccountOK, ErrorsOK, HandOK, PlacedOK, InItem, InLinks
<1> SUFFICES ASSUME imp.pc # "idle" PROVE AccountOK'
  BY <1>1
<1>2. /\ UNCHANGED imp
      /\ touched \subseteq touched'
      /\ \A i \in Ids : svc'[i] # svc[i] =>
            /\ svc[i] # None => svc[i].slug \in touched'
            /\ svc'[i] # None => svc'[i].slug \in touched'
  BY Touch
<1>3. /\ \A k : Item(k)' = Item(k)
      /\ Past' = Past /\ \A k : Final(k)' = Final(k)
      /\ \A item : GroupOf(item)' = GroupOf(item)
  BY <1>2 DEF Item, Past, Final, GroupOf
<1>4. ASSUME NEW s, s \notin touched'
      PROVE  Known(s)' = Known(s) /\ \A i \in Known(s) : svc'[i] = svc[i]
  BY <1>2, <1>4 DEF Known
<1>5. ErrorsOK'
  BY <1>2 DEF AccountOK, ErrorsOK
<1>6. HandOK'
  <2>1. HandOK
    BY DEF AccountOK
  <2>2. ASSUME imp.pc \in {"reread", "update", "refresh", "target", "link"}, imp.row \in Ids
        PROVE  /\ svc'[imp.row] # None => svc'[imp.row].slug \in {Item(imp.at).slug} \cup touched'
               /\ Item(imp.at).slug \notin touched' => imp.row \in Known(Item(imp.at).slug)'
    <3>1. /\ svc[imp.row] # None => svc[imp.row].slug \in {Item(imp.at).slug} \cup touched
          /\ Item(imp.at).slug \notin touched => imp.row \in Known(Item(imp.at).slug)
      BY <2>1, <2>2 DEF HandOK
    <3>2. CASE svc'[imp.row] = svc[imp.row]
      BY <1>2, <1>3, <2>2, <3>1, <3>2 DEF Known
    <3>3. CASE svc'[imp.row] # svc[imp.row]
      BY <1>2, <1>3, <2>2, <3>1, <3>3 DEF Known
    <3> QED BY <3>2, <3>3
  <2>3. imp.pc = "target" /\ imp.row = None /\ Final(imp.at) => Item(imp.at).slug \in touched'
    BY <1>2, <2>1 DEF HandOK
  <2>4. imp.pc = "link" => \/ Item(imp.at).fb \in touched'
                           \/ imp.target \in Known(Item(imp.at).fb)'
    BY <1>2, <1>3, <1>4, <2>1 DEF HandOK
  <2> QED BY <1>2, <1>3, <2>1, <2>2, <2>3, <2>4 DEF HandOK
<1>7. ASSUME NEW k, NEW i \in Ids, Item(k).slug \notin touched', Placed(k, i)
      PROVE  Placed(k, i)' /\ (Linked(k, i) => Linked(k, i)')
  <2>1. i \in Known(Item(k).slug) /\ svc'[i] = svc[i]
    BY <1>4, <1>7 DEF Placed
  <2>2. Placed(k, i)'
    BY <1>3, <1>4, <1>7, <2>1 DEF Placed, Mine, Known
  <2>3. ASSUME Linked(k, i) PROVE Linked(k, i)'
    BY <1>2, <1>3, <1>4, <2>1, <2>3 DEF Linked
  <2> QED BY <2>2, <2>3
<1>8. PlacedOK'
  <2> SUFFICES ASSUME imp.pc \in {"items", "done"} \cup InItem \cup InLinks, NEW k \in Past, Final(k),
                      Item(k).slug \notin touched'
               PROVE  \E i \in Ids : /\ Placed(k, i)'
                                     /\ imp.pc = "done" \/ (imp.pc \in InLinks /\ k < imp.at)
                                           => Linked(k, i)'
    BY <1>2, <1>3 DEF PlacedOK
  <2>1. PICK i \in Ids : /\ Placed(k, i)
                         /\ imp.pc = "done" \/ (imp.pc \in InLinks /\ k < imp.at) => Linked(k, i)
    BY <1>2 DEF AccountOK, PlacedOK
  <2> QED BY <1>7, <2>1
<1> QED BY <1>5, <1>6, <1>8 DEF AccountOK

\* Between two items: what has been dealt with stays as it is, but for slugs that others
\* have touched.
LEMMA CarryItems ==
    ASSUME PlacedOK, UNCHANGED <<svc, touched>>, imp'.file = imp.file, imp'.names = imp.names,
           imp.pc \in {"items"} \cup InItem, imp'.pc \in {"items"} \cup InItem,
           \A k \in Past' : Item(k).slug \notin touched => k \in Past,
           \A j \in Past : j \notin Past' => Item(j).slug \in touched
    PROVE  PlacedOK'
<1>1. /\ \A k : Item(k)' = Item(k)
      /\ \A item : GroupOf(item)' = GroupOf(item)
  BY DEF Item, GroupOf
<1>2. \A k, i : Placed(k, i)' = Placed(k, i)
  BY <1>1 DEF Placed, Known, Mine
<1>3. imp'.pc # "done" /\ imp'.pc \notin InLinks
  BY DEF InItem, InLinks
<1> SUFFICES ASSUME NEW k \in Past', Final(k)', Item(k).slug \notin touched
             PROVE  \E i \in Ids : Placed(k, i)
  BY <1>1, <1>2, <1>3 DEF PlacedOK
<1>4. k \in Past
  OBVIOUS
<1>5. Final(k)
  BY <1>1 DEF Final
<1> QED BY <1>4, <1>5 DEF PlacedOK

LEMMA NextItemIs ==
    ASSUME imp \in Imports, NEW e, NEW d, NextItem(e, d)
    PROVE  /\ imp'.pc = "items" /\ imp'.at = imp.at + 1 /\ imp'.errors = imp.errors \cup e
           /\ imp'.file = imp.file /\ imp'.names = imp.names
BY DEF NextItem, Imports

LEMMA Positions ==
    ASSUME IInv, imp.pc \in {"items"} \cup InItem \cup InLinks
    PROVE  /\ imp \in Imports /\ imp.at \in Nat /\ Past \subseteq Nat
           /\ imp.file.services \in Seq(Items)
           /\ DOMAIN imp.file.services = 1..Len(imp.file.services)
           /\ Len(imp.file.services) \in Nat
<1>1. imp \in Imports /\ imp.at \in Nat
  BY DEF IInv, TypeOK, Imports
<1>2. imp.file.services \in Seq(Items)
  BY DEF IInv, FileOK
<1> QED BY <1>1, <1>2 DEF Past

\* An item is left as an error, or with its row where it should be, or its slug touched.
LEMMA LeaveItem ==
    ASSUME IInv, AccountOK, imp.pc \in {"items"} \cup InItem, UNCHANGED <<svc, touched>>,
           NEW e \in {{}, {imp.at}}, NEW d, NextItem(e, d),
           imp.pc # "refresh" /\ e = {} => Item(imp.at).slug \in touched,
           imp.pc = "refresh" /\ e # {} => Item(imp.at).slug \in touched
    PROVE  AccountOK'
<1>1. /\ imp'.pc = "items" /\ imp'.at = imp.at + 1 /\ imp'.errors = imp.errors \cup e
      /\ imp'.file = imp.file /\ imp'.names = imp.names
      /\ imp \in Imports /\ imp.at \in Nat
      /\ DOMAIN imp.file.services = 1..Len(imp.file.services)
      /\ Len(imp.file.services) \in Nat
  BY NextItemIs, Positions
<1>2. \A k \in imp.errors : k \in Nat /\ k < imp.at
  BY <1>1 DEF AccountOK, ErrorsOK, Imports
<1>3. ErrorsOK'
  BY <1>1, <1>2 DEF ErrorsOK, InItem
<1>4. HandOK'
  BY <1>1 DEF HandOK
<1>5. Past = {k \in DOMAIN imp.file.services \ imp.errors :
                 k < imp.at \/ (imp.pc = "refresh" /\ k = imp.at)}
  BY DEF Past
<1>6. Past' = {k \in DOMAIN imp.file.services \ (imp.errors \cup e) : k < imp.at + 1}
  BY <1>1 DEF Past
<1>7. \A k \in Past' : Item(k).slug \notin touched => k \in Past
  <2> SUFFICES ASSUME NEW k \in Past', Item(k).slug \notin touched PROVE k \in Past
    OBVIOUS
  <2>1. k \in Nat /\ k \in DOMAIN imp.file.services \ imp.errors /\ k \notin e /\ k < imp.at + 1
    BY <1>1, <1>6
  <2>2. k < imp.at \/ k = imp.at
    BY <1>1, <2>1
  <2>3. k = imp.at => imp.pc = "refresh"
    BY <2>1
  <2> QED BY <1>5, <2>1, <2>2, <2>3
<1>8. \A j \in Past : j \notin Past' => Item(j).slug \in touched
  <2> SUFFICES ASSUME NEW j \in Past, j \notin Past' PROVE Item(j).slug \in touched
    OBVIOUS
  <2>1. j \in Nat /\ j < imp.at + 1 /\ j \in DOMAIN imp.file.services \ imp.errors
    BY <1>1, <1>5
  <2>2. j \in e
    BY <1>6, <2>1
  <2>3. j = imp.at /\ e # {}
    BY <2>2
  <2>4. imp.pc = "refresh"
    BY <1>1, <1>5, <2>3
  <2> QED BY <2>3, <2>4
<1>9. PlacedOK'
  BY <1>1, <1>7, <1>8, CarryItems DEF AccountOK
<1> QED BY <1>3, <1>4, <1>9 DEF AccountOK

\* A step within one item that writes nothing.
LEMMA StayItem ==
    ASSUME IInv, AccountOK, imp.pc \in {"items", "reread"}, UNCHANGED <<svc, touched>>,
           imp'.file = imp.file, imp'.names = imp.names, imp'.at = imp.at, imp'.errors = imp.errors,
           imp'.pc \in {"reread", "update", "insert"},
           imp'.pc # "insert" =>
              /\ svc[imp'.row] # None => svc[imp'.row].slug \in {Item(imp.at).slug} \cup touched
              /\ Item(imp.at).slug \notin touched => imp'.row \in Known(Item(imp.at).slug)
    PROVE  AccountOK'
<1>1. Past' = Past
  BY DEF Past, InItem
<1>2. PlacedOK'
  BY <1>1, CarryItems DEF AccountOK, InItem
<1>3. ErrorsOK'
  BY DEF AccountOK, ErrorsOK, InItem
<1>4. HandOK'
  <2>1. Item(imp.at)' = Item(imp.at) /\ \A x : Known(x)' = Known(x)
    BY DEF Item, Known
  <2>2. imp'.pc \notin {"target", "link", "refresh"}
    OBVIOUS
  <2> QED BY <2>1, <2>2 DEF HandOK
<1> QED BY <1>2, <1>3, <1>4 DEF AccountOK

\* The row of an item is written.
LEMMA WroteItem ==
    ASSUME IInv, IInv', AccountOK, imp.pc \in {"update", "insert"}, UNCHANGED touched,
           imp'.file = imp.file, imp'.names = imp.names, imp'.at = imp.at, imp'.errors = imp.errors,
           imp'.pc = "refresh", NEW r \in Ids, imp'.row = r,
           \A i \in Ids \ {r} : svc'[i] = svc[i],
           svc[r] # None => svc[r].slug \in {Item(imp.at).slug} \cup touched,
           svc'[r] # None => svc'[r].slug \in {Item(imp.at).slug} \cup touched,
           Item(imp.at).slug \in touched \/ Placed(imp.at, r)'
    PROVE  AccountOK'
<1>1. /\ \A k : Item(k)' = Item(k)
      /\ \A item : GroupOf(item)' = GroupOf(item)
  BY DEF Item, GroupOf
<1>2. ErrorsOK'
  BY DEF AccountOK, ErrorsOK, InItem
<1>3. HandOK'
  BY <1>1 DEF HandOK, Placed, Known
<1>4. PlacedOK'
  <2> SUFFICES ASSUME NEW k \in Past', Final(k)', Item(k).slug \notin touched
               PROVE  \E i \in Ids : Placed(k, i)'
    BY <1>1 DEF PlacedOK, InLinks
  <2>1. /\ imp.at \in Nat /\ Past \subseteq Nat /\ imp.at \in DOMAIN imp.file.services
        /\ DOMAIN imp.file.services = 1..Len(imp.file.services)
        /\ Len(imp.file.services) \in Nat
    BY Positions DEF InItem, IInv, FileOK
  <2>2. imp.at \notin imp.errors
    BY <2>1 DEF AccountOK, ErrorsOK, InItem
  <2>3. Past = {j \in DOMAIN imp.file.services \ imp.errors : j < imp.at}
    BY DEF Past, InItem
  <2>4. Past' = Past \cup {imp.at}
    BY <2>1, <2>2, <2>3 DEF Past, InItem
  <2>5. CASE k = imp.at
    BY <2>5
  <2>6. CASE k # imp.at
    <3>1. k \in Past /\ imp.at > k /\ Item(k).slug # Item(imp.at).slug
      BY <1>1, <2>1, <2>3, <2>4, <2>6 DEF Final
    <3>2. Final(k)
      BY <1>1, <2>4 DEF Final
    <3>3. PICK i \in Ids : Placed(k, i)
      BY <3>1, <3>2 DEF AccountOK, PlacedOK, InItem
    <3>4. i # r
      BY <3>1, <3>3 DEF Placed, Known
    <3>5. Placed(k, i)'
      BY <1>1, <3>3, <3>4 DEF Placed, Known, Mine
    <3> QED BY <3>5
  <2> QED BY <2>5, <2>6
<1> QED BY <1>2, <1>3, <1>4 DEF AccountOK

\* Before the items, and after an import that was broken off, nothing is said of any item.
LEMMA NothingSaid ==
    ASSUME imp'.pc \in {"idle", "groups", "reload", "failed", "refused"},
           imp'.pc \in {"groups", "reload"} => imp'.errors = {}
    PROVE  AccountOK'
BY DEF AccountOK, ErrorsOK, HandOK, PlacedOK, InItem, InLinks

LEMMA AbortAccount == ASSUME IInv, Abort PROVE AccountOK'
BY NothingSaid DEF Abort, IInv, TypeOK, Imports

LEMMA GroupsAccount ==
    ASSUME IInv, AccountOK, NEW file, Upload(file) \/ FindGroup \/ CommitGroups
    PROVE  AccountOK'
<1>1. imp \in Imports BY DEF IInv, TypeOK
<1>2. CASE Abort BY <1>2, AbortAccount
<1>3. CASE Upload(file)
  <2>1. imp'.pc = "groups" /\ imp'.errors = {} BY <1>3 DEF Upload, NoImport
  <2> QED BY <2>1, NothingSaid
<1>4. ASSUME FindGroup, ~Abort PROVE AccountOK'
  <2>1. imp.pc = "groups" /\ imp'.pc = "groups" /\ imp'.errors = imp.errors
    BY <1>1, <1>4 DEF FindGroup, Imports
  <2> QED BY <2>1, NothingSaid DEF AccountOK, ErrorsOK
<1>5. ASSUME CommitGroups, ~Abort PROVE AccountOK'
  <2>1. imp.pc = "groups" /\ imp'.pc = "reload" /\ imp'.errors = imp.errors
    BY <1>1, <1>5 DEF CommitGroups, Imports
  <2>2. imp.errors = {}
    BY <2>1 DEF AccountOK, ErrorsOK
  <2> QED BY <2>1, <2>2, NothingSaid
<1> QED BY <1>2, <1>3, <1>4, <1>5

LEMMA LoadGroupsAccount == ASSUME IInv, IInv', AccountOK, LoadGroups PROVE AccountOK'
<1>1. /\ imp \in Imports /\ imp.pc = "reload" /\ imp.errors = {}
      /\ imp'.pc \in {"refused", "items"} /\ imp'.errors = imp.errors /\ imp'.at = 1
  BY DEF LoadGroups, IInv, TypeOK, Imports, AccountOK, ErrorsOK
<1>2. CASE imp'.pc = "refused"
  BY <1>2, NothingSaid
<1>3. CASE imp'.pc = "items"
  <2>1. imp'.file.services \in Seq(Items)
    BY <1>3 DEF IInv, FileOK
  <2>2. Past' = {}
    BY <1>1, <1>3, <2>1 DEF Past
  <2> QED BY <1>1, <1>3, <2>2 DEF AccountOK, ErrorsOK, HandOK, PlacedOK
<1> QED BY <1>1, <1>2, <1>3

LEMMA ScanAccount ==
    ASSUME IInv, AccountOK, JunkItem \/ SkipItem \/ Lookup \/ Reread \/ Refresh
    PROVE  AccountOK'
<1>1. UNCHANGED <<svc, touched>> /\ imp \in Imports
  BY DEF JunkItem, SkipItem, Lookup, Reread, Refresh, Database, History, IInv, TypeOK
<1>2. CASE JunkItem BY <1>2, AbortAccount DEF JunkItem
<1>3. ASSUME imp.pc \in {"items", "reread", "refresh"}, NEW e \in {{}, {imp.at}}, NextItem(e, FALSE),
             imp.pc # "refresh" /\ e = {} => Item(imp.at).slug \in touched,
             imp.pc = "refresh" /\ e # {} => Item(imp.at).slug \in touched
      PROVE  AccountOK'
  BY <1>1, <1>3, LeaveItem DEF InItem
<1>4. CASE SkipItem BY <1>3, <1>4 DEF SkipItem
<1>5. CASE Lookup
  <2>1. CASE NextItem({imp.at}, FALSE) BY <1>3, <1>5, <2>1 DEF Lookup
  <2>2. ASSUME NEW i \in Known(Item(imp.at).slug), imp' = [imp EXCEPT !.pc = "reread", !.row = i]
        PROVE  AccountOK'
    <3>1. /\ imp'.pc = "reread" /\ imp'.row = i /\ imp'.at = imp.at /\ imp'.errors = imp.errors
          /\ imp'.file = imp.file /\ imp'.names = imp.names
      BY <1>1, <2>2 DEF Imports
    <3>2. svc[i].slug = Item(imp.at).slug /\ imp.pc = "items"
      BY <1>5, <2>2 DEF Known, Lookup
    <3> QED BY <1>1, <2>2, <3>1, <3>2, StayItem
  <2>3. ASSUME imp' = [imp EXCEPT !.pc = "insert"] PROVE AccountOK'
    <3>1. /\ imp'.pc = "insert" /\ imp'.at = imp.at /\ imp'.errors = imp.errors
          /\ imp'.file = imp.file /\ imp'.names = imp.names
      BY <1>1, <2>3 DEF Imports
    <3> QED BY <1>1, <1>5, <3>1, StayItem DEF Lookup
  <2> QED BY <1>5, <2>1, <2>2, <2>3 DEF Lookup
<1>6. CASE Reread
  <2>1. imp.pc = "reread" /\ imp.row \in Ids
    BY <1>6 DEF Reread, IInv, RowOK
  <2>2. /\ svc[imp.row] # None => svc[imp.row].slug \in {Item(imp.at).slug} \cup touched
        /\ Item(imp.at).slug \notin touched => imp.row \in Known(Item(imp.at).slug)
    BY <2>1 DEF AccountOK, HandOK
  <2>3. CASE svc[imp.row] = None
    BY <1>3, <1>6, <2>1, <2>2, <2>3 DEF Reread, Known
  <2>4. CASE svc[imp.row] # None
    <3>1. /\ imp'.pc = "update" /\ imp'.at = imp.at /\ imp'.errors = imp.errors
          /\ imp'.file = imp.file /\ imp'.names = imp.names /\ imp'.row = imp.row
      BY <1>1, <1>6, <2>4 DEF Reread, Imports
    <3> QED BY <1>1, <2>1, <2>2, <3>1, StayItem
  <2> QED BY <2>3, <2>4
<1>7. CASE Refresh
  <2>1. imp.pc = "refresh" /\ imp.row \in Ids
    BY <1>7 DEF Refresh, IInv, RowOK
  <2>2. svc[imp.row] = None => Item(imp.at).slug \in touched
    BY <2>1 DEF AccountOK, HandOK, Known
  <2> QED BY <1>3, <1>7, <2>1, <2>2 DEF Refresh
<1> QED BY <1>2, <1>4, <1>5, <1>6, <1>7

LEMMA UpdateAccount == ASSUME IInv, IInv', AccountOK, Update PROVE AccountOK'
<1> DEFINE item == Item(imp.at)
           r == imp.row
           now == svc[r]
<1>1. /\ imp \in Imports /\ imp.pc = "update" /\ r \in Ids /\ UNCHANGED touched
      /\ svc \in [Ids -> Rows \cup {None}]
  BY DEF Update, IInv, RowOK, TypeOK, History
<1>2. /\ now # None => now.slug \in {item.slug} \cup touched
      /\ item.slug \notin touched => r \in Known(item.slug)
  BY <1>1 DEF AccountOK, HandOK
<1>3. now # None => now \in Rows /\ now.owner = me
  BY <1>1 DEF IInv, RowOK
<1>4. ASSUME NextItem({imp.at}, TRUE), UNCHANGED svc PROVE AccountOK'
  BY <1>1, <1>4, LeaveItem DEF InItem
<1>5. ASSUME imp' = [imp EXCEPT !.pc = "refresh"]
      PROVE  /\ imp'.pc = "refresh" /\ imp'.at = imp.at /\ imp'.errors = imp.errors
             /\ imp'.file = imp.file /\ imp'.names = imp.names /\ imp'.row = imp.row
  BY <1>1, <1>5 DEF Imports
<1>6. ASSUME now = None, imp' = [imp EXCEPT !.pc = "refresh"], UNCHANGED svc PROVE AccountOK'
  <2>1. item.slug \in touched
    BY <1>2, <1>6 DEF Known
  <2> QED BY <1>1, <1>5, <1>6, <2>1, WroteItem
<1>7. ASSUME now # None, item.data # Poison,
             NEW group \in Flushed(now.group, GroupOf(item), now.slug \in touched),
             NEW data \in IF item.data = Partial THEN {now.data}
                          ELSE Flushed(now.data, item.data, now.slug \in touched),
             svc' = [svc EXCEPT ![r].group = group, ![r].data = data],
             imp' = [imp EXCEPT !.pc = "refresh"]
      PROVE  AccountOK'
  <2>1. \A i \in Ids \ {r} : svc'[i] = svc[i]
    BY <1>1, <1>7
  <2>2. svc'[r] = [[now EXCEPT !.group = group] EXCEPT !.data = data]
    BY <1>1, <1>7
  <2>3. /\ svc'[r].slug = now.slug /\ svc'[r].owner = me
        /\ svc'[r].group = group /\ svc'[r].data = data
    <3>1. now \in Rows /\ now.owner = me
      BY <1>3, <1>7
    <3> HIDE DEF now, r
    <3> QED BY <2>2, <3>1 DEF Rows
  <2>4. ASSUME item.slug \notin touched PROVE Placed(imp.at, r)'
    <3>1. now.slug = item.slug
      BY <1>2, <2>4 DEF Known
    <3>2. group = GroupOf(item)
      BY <1>7, <2>4, <3>1 DEF Flushed
    <3>3. item.data \in {data, Partial}
      BY <1>7, <2>4, <3>1 DEF Flushed
    <3>4. svc'[r] # None
      <4>1. now \in Rows /\ group \in GroupIds \cup {None}
        BY <1>1, <1>3, <1>7, <3>2, ItemInHand DEF InItem
      <4>2. data \in Data
        BY <1>1, <1>7, <2>4, <3>1, <4>1, ItemInHand DEF InItem, Flushed, Rows
      <4>3. svc'[r] \in Rows
        BY <2>2, <4>1, <4>2 DEF Rows
      <4> QED BY <4>3, ImportAssumption
    <3>5. Item(imp.at)' = item /\ GroupOf(item)' = GroupOf(item)
      BY <1>5, <1>7 DEF Item, GroupOf
    <3>6. r \in Known(item.slug)' /\ r \in Mine'
      BY <1>1, <2>3, <3>1, <3>4, <3>5 DEF Known, Mine
    <3> QED BY <2>3, <3>2, <3>3, <3>5, <3>6, <1>5, <1>7 DEF Placed
  <2> QED BY <1>1, <1>2, <1>5, <1>7, <2>1, <2>3, <2>4, WroteItem
<1> QED BY <1>4, <1>6, <1>7 DEF Update

LEMMA InsertAccount == ASSUME IInv, IInv', AccountOK, Insert PROVE AccountOK'
<1> DEFINE item == Item(imp.at)
<1>1. /\ imp \in Imports /\ imp.pc = "insert" /\ UNCHANGED touched
      /\ svc \in [Ids -> Rows \cup {None}]
  BY DEF Insert, IInv, TypeOK, History
<1>2. CASE NextItem({imp.at}, TRUE) /\ UNCHANGED svc
  BY <1>1, <1>2, LeaveItem DEF InItem
<1>3. ASSUME NEW i \in Ids \ used, Known(item.slug) = {}, item.data # Poison,
             svc' = [svc EXCEPT ![i] = [owner |-> me, slug |-> item.slug, group |-> GroupOf(item),
                                        data |-> item.data, fb |-> None]],
             imp' = [imp EXCEPT !.pc = "refresh", !.row = i]
      PROVE  AccountOK'
  <2>1. /\ imp'.pc = "refresh" /\ imp'.at = imp.at /\ imp'.errors = imp.errors
        /\ imp'.file = imp.file /\ imp'.names = imp.names /\ imp'.row = i
    BY <1>1, <1>3 DEF Imports
  <2>2. svc[i] = None
    BY <1>3 DEF IInv, UsedOK
  <2>3. /\ \A j \in Ids \ {i} : svc'[j] = svc[j]
        /\ svc'[i] = [owner |-> me, slug |-> item.slug, group |-> GroupOf(item),
                       data |-> item.data, fb |-> None]
    BY <1>1, <1>3
  <2>4. svc'[i] # None
    <3>1. /\ item.slug \in Slugs /\ GroupOf(item) \in GroupIds \cup {None}
          /\ item.data \in Data \cup {Partial, Poison}
      BY <1>1, ItemInHand DEF InItem
    <3>2. item.data # Partial
      BY <1>1 DEF IInv, FileOK
    <3>3. svc'[i] \in Rows
      BY <1>3, <2>3, <3>1, <3>2, ImportAssumption DEF Rows
    <3> QED BY <3>3, ImportAssumption
  <2>5. Item(imp.at)' = item /\ GroupOf(item)' = GroupOf(item)
    BY <2>1 DEF Item, GroupOf
  <2>6. Placed(imp.at, i)'
    BY <2>1, <2>3, <2>4, <2>5 DEF Placed, Known, Mine
  <2>7. svc'[i].slug = item.slug
    BY <2>3
  <2> QED BY <1>1, <2>1, <2>2, <2>3, <2>6, <2>7, WroteItem
<1> QED BY <1>2, <1>3 DEF Insert

LEMMA ItemsDoneAccount == ASSUME IInv, AccountOK, ItemsDone PROVE AccountOK'
<1>1. /\ imp.pc = "items" /\ UNCHANGED <<svc, touched>>
      /\ imp \in Imports /\ imp.at \in Nat
      /\ DOMAIN imp.file.services = 1..Len(imp.file.services)
      /\ Len(imp.file.services) \in Nat /\ imp.at > Len(imp.file.services)
  BY Positions DEF ItemsDone, Database, History
<1>2. /\ imp'.pc = "links" /\ imp'.at = 1 /\ imp'.errors = imp.errors
      /\ imp'.file = imp.file /\ imp'.names = imp.names
  BY <1>1 DEF ItemsDone, Imports
<1>3. Past' = Past /\ Past = DOMAIN imp.file.services \ imp.errors
  BY <1>1, <1>2 DEF Past, InItem
<1>4. /\ \A k : Item(k)' = Item(k) /\ \A item : GroupOf(item)' = GroupOf(item)
      /\ \A k, i : Placed(k, i)' = Placed(k, i)
  BY <1>1, <1>2 DEF Item, GroupOf, Placed, Known, Mine
<1>5. \A k : Final(k)' = Final(k)
  BY <1>3, <1>4 DEF Final
<1>6. PlacedOK'
  <2> SUFFICES ASSUME NEW k \in Past, Final(k), Item(k).slug \notin touched
               PROVE  (\E i \in Ids : Placed(k, i)) /\ ~(k < 1)
    BY <1>1, <1>2, <1>3, <1>4, <1>5 DEF PlacedOK
  <2> QED BY <1>1, <1>3 DEF AccountOK, PlacedOK
<1> QED BY <1>2, <1>6 DEF AccountOK, ErrorsOK, HandOK, InItem

\* Between two links: the items stay where they are, and so do the links that stand.
LEMMA CarryLinks ==
    ASSUME IInv, AccountOK, imp.pc \in InLinks, imp'.pc \in InLinks \cup {"done"}, UNCHANGED touched,
           imp'.file = imp.file, imp'.names = imp.names, imp'.errors = imp.errors,
           \A i \in Ids : /\ svc'[i] # None <=> svc[i] # None
                          /\ svc[i] # None => /\ svc'[i].slug = svc[i].slug
                                              /\ svc'[i].owner = svc[i].owner
                                              /\ svc'[i].group = svc[i].group
                                              /\ svc'[i].data = svc[i].data,
           \A k \in Past, i \in Ids :
              /\ Final(k) /\ Item(k).slug \notin touched /\ Placed(k, i)
              /\ k < imp.at => Linked(k, i)
              /\ imp'.pc = "done" \/ k < imp'.at
              => Linked(k, i)'
    PROVE  /\ PlacedOK' /\ ErrorsOK'
           /\ \A k : Item(k)' = Item(k) /\ Final(k)' = Final(k)
           /\ \A s : Known(s)' = Known(s)
<1>1. /\ \A k : Item(k)' = Item(k) /\ \A item : GroupOf(item)' = GroupOf(item)
      /\ Past' = Past
  BY DEF Item, GroupOf, Past, InLinks, InItem
<1>2. \A k : Final(k)' = Final(k)
  BY <1>1 DEF Final
<1>3. \A s : Known(s)' = Known(s)
  BY DEF Known
<1>4. ASSUME NEW k, NEW i \in Ids, Placed(k, i) PROVE Placed(k, i)'
  BY <1>1, <1>3, <1>4 DEF Placed, Known, Mine
<1>5. PlacedOK'
  <2> SUFFICES ASSUME NEW k \in Past, Final(k), Item(k).slug \notin touched
               PROVE  \E i \in Ids : /\ Placed(k, i)'
                                     /\ imp'.pc = "done" \/ k < imp'.at => Linked(k, i)'
    BY <1>1, <1>2 DEF PlacedOK
  <2>1. PICK i \in Ids : Placed(k, i) /\ (k < imp.at => Linked(k, i))
    BY DEF AccountOK, PlacedOK
  <2> QED BY <1>4, <2>1
<1>6. ErrorsOK'
  BY DEF ErrorsOK, InLinks, InItem
<1> QED BY <1>1, <1>2, <1>3, <1>5, <1>6

LEMMA NextLinkIs ==
    ASSUME imp \in Imports, NEW k, NEW e, NEW d, NextLink(k, e, d)
    PROVE  /\ imp'.pc = "links" /\ imp'.at = k + 1 /\ imp'.linkErrors = imp.linkErrors \cup e
           /\ imp'.file = imp.file /\ imp'.names = imp.names /\ imp'.errors = imp.errors
BY DEF NextLink, Imports

\* In the second pass the items behind are all that made no error.
LEMMA PastIsAll ==
    ASSUME imp.pc \in InLinks
    PROVE  Past = DOMAIN imp.file.services \ imp.errors
BY DEF Past, InLinks, InItem

\* A link that stands stays, as long as no service is written.
LEMMA LinkStands ==
    ASSUME UNCHANGED <<svc, touched>>, imp'.file = imp.file, imp.linkErrors \subseteq imp'.linkErrors,
           NEW k, NEW i, Linked(k, i)
    PROVE  Linked(k, i)'
BY DEF Linked, Item, Known

LEMMA FindServiceAccount ==
    ASSUME IInv, AccountOK, imp.pc = "links", NEW k \in Links, FindService(k)
    PROVE  AccountOK'
<1>1. /\ UNCHANGED <<svc, touched>> /\ imp \in Imports /\ imp.at \in Nat
      /\ Past = DOMAIN imp.file.services \ imp.errors /\ Past \subseteq Nat /\ k \in Past
      /\ k \in Nat
  BY Positions, PastIsAll DEF FindService, Database, History, InLinks, Links
<1>2. \A j \in Past : j < imp.at \/ k <= j \/ Item(j).fb = None
  BY <1>1 DEF FindService, ToDo, Links
<1>3. CASE NextLink(k, {k}, FALSE)
  <2>1. /\ imp'.pc = "links" /\ imp'.at = k + 1 /\ imp'.linkErrors = imp.linkErrors \cup {k}
        /\ imp'.file = imp.file /\ imp'.names = imp.names /\ imp'.errors = imp.errors
    BY <1>1, <1>3, NextLinkIs
  <2>2. ASSUME NEW j \in Past, NEW i, j < imp.at => Linked(j, i), j < k + 1 PROVE Linked(j, i)'
    <3>1. CASE j < imp.at BY <1>1, <2>1, <2>2, <3>1, LinkStands
    <3>2. CASE Item(j).fb = None BY <2>1, <3>2 DEF Linked, Item
    <3>3. CASE k <= j
      <4>1. j = k BY <1>1, <2>2, <3>3
      <4> QED BY <2>1, <4>1 DEF Linked
    <3> QED BY <1>2, <3>1, <3>2, <3>3
  <2>3. PlacedOK' /\ ErrorsOK' BY <1>1, <2>1, <2>2, CarryLinks DEF InLinks
  <2>4. HandOK' BY <2>1 DEF HandOK
  <2> QED BY <2>3, <2>4 DEF AccountOK
<1>4. ASSUME imp' = [imp EXCEPT !.pc = "target", !.at = k,
                         !.row = IF Known(Item(k).slug) \cap Mine = {} THEN None
                                 ELSE CHOOSE i \in Known(Item(k).slug) \cap Mine : TRUE]
      PROVE  AccountOK'
  <2> DEFINE row == IF Known(Item(k).slug) \cap Mine = {} THEN None
                    ELSE CHOOSE i \in Known(Item(k).slug) \cap Mine : TRUE
  <2>1. /\ imp'.pc = "target" /\ imp'.at = k /\ imp'.row = row /\ imp'.linkErrors = imp.linkErrors
        /\ imp'.file = imp.file /\ imp'.names = imp.names /\ imp'.errors = imp.errors
    BY <1>1, <1>4 DEF Imports
  <2>2. ASSUME NEW j \in Past, NEW i, j < imp.at => Linked(j, i), j < k PROVE Linked(j, i)'
    <3>1. CASE j < imp.at BY <1>1, <2>1, <2>2, <3>1, LinkStands
    <3>2. CASE Item(j).fb = None BY <2>1, <3>2 DEF Linked, Item
    <3> QED BY <1>1, <1>2, <2>2, <3>1, <3>2
  <2>3. /\ PlacedOK' /\ ErrorsOK'
        /\ \A x : Item(x)' = Item(x) /\ Final(x)' = Final(x)
        /\ \A s : Known(s)' = Known(s)
    BY <1>1, <2>1, <2>2, CarryLinks DEF InLinks
  <2>4. row = None \/ row \in Known(Item(k).slug)
    OBVIOUS
  <2>5. row = None /\ Final(k) => Item(k).slug \in touched
    <3> SUFFICES ASSUME row = None, Final(k), Item(k).slug \notin touched PROVE FALSE
      OBVIOUS
    <3>1. PICK i \in Ids : Placed(k, i)
      BY <1>1 DEF AccountOK, PlacedOK, InLinks
    <3>2. row \in Ids BY <3>1 DEF Placed, Mine
    <3> QED BY <3>2, ImportAssumption
  <2>6. HandOK'
    <3> HIDE DEF row
    <3>1. row \in Ids => svc[row].slug = Item(k).slug /\ row \in Known(Item(k).slug)
      BY <2>4, ImportAssumption DEF Known
    <3>2. k \in DOMAIN imp'.file.services \ imp'.errors BY <1>1, <2>1
    <3> QED BY <1>1, <2>1, <2>3, <2>5, <3>1, <3>2 DEF HandOK
  <2> QED BY <2>3, <2>6 DEF AccountOK
<1> QED BY <1>3, <1>4 DEF FindService

LEMMA FindTargetAccount == ASSUME IInv, AccountOK, FindTarget PROVE AccountOK'
<1> DEFINE k == imp.at
           found == Known(Item(k).fb)
<1>1. /\ UNCHANGED <<svc, touched>> /\ imp \in Imports /\ imp.pc = "target" /\ k \in Nat
      /\ Past = DOMAIN imp.file.services \ imp.errors /\ Past \subseteq Nat
  BY Positions, PastIsAll DEF FindTarget, Database, History, InLinks
<1>2. /\ imp.row \in Ids =>
            /\ svc[imp.row] # None => svc[imp.row].slug \in {Item(k).slug} \cup touched
            /\ Item(k).slug \notin touched => imp.row \in Known(Item(k).slug)
      /\ k \in DOMAIN imp.file.services \ imp.errors
      /\ imp.row = None /\ Final(k) => Item(k).slug \in touched
  BY <1>1 DEF AccountOK, HandOK
<1>3. CASE NextLink(k, {}, FALSE) /\ (imp.row = None \/ found = {})
  <2>1. /\ imp'.pc = "links" /\ imp'.at = k + 1 /\ imp'.linkErrors = imp.linkErrors \cup {}
        /\ imp'.file = imp.file /\ imp'.names = imp.names /\ imp'.errors = imp.errors
    BY <1>1, <1>3, NextLinkIs
  <2>2. ASSUME NEW j \in Past, NEW i, Final(j), Item(j).slug \notin touched,
               j < k => Linked(j, i), j < k + 1
        PROVE  Linked(j, i)'
    <3>1. CASE j < k BY <1>1, <2>1, <2>2, <3>1, LinkStands
    <3>2. CASE j = k
      <4>1. found = {} BY <1>2, <1>3, <2>2, <3>2
      <4>2. Linked(j, i) BY <3>2, <4>1 DEF Linked
      <4> QED BY <1>1, <2>1, <4>2, LinkStands
    <3> QED BY <1>1, <2>2, <3>1, <3>2
  <2>3. PlacedOK' /\ ErrorsOK' BY <1>1, <2>1, <2>2, CarryLinks DEF InLinks
  <2>4. HandOK' BY <2>1 DEF HandOK
  <2> QED BY <2>3, <2>4 DEF AccountOK
<1>4. ASSUME imp.row # None, NEW f \in found, imp' = [imp EXCEPT !.pc = "link", !.target = f]
      PROVE  AccountOK'
  <2>1. /\ imp'.pc = "link" /\ imp'.at = k /\ imp'.row = imp.row /\ imp'.target = f
        /\ imp'.linkErrors = imp.linkErrors
        /\ imp'.file = imp.file /\ imp'.names = imp.names /\ imp'.errors = imp.errors
    BY <1>1, <1>4 DEF Imports
  <2>2. ASSUME NEW j \in Past, NEW i, j < k => Linked(j, i), j < k PROVE Linked(j, i)'
    BY <1>1, <2>1, <2>2, LinkStands
  <2>3. /\ PlacedOK' /\ ErrorsOK'
        /\ \A x : Item(x)' = Item(x) /\ Final(x)' = Final(x)
        /\ \A s : Known(s)' = Known(s)
    BY <1>1, <2>1, <2>2, CarryLinks DEF InLinks
  <2>4. HandOK' BY <1>1, <1>2, <1>4, <2>1, <2>3 DEF HandOK
  <2> QED BY <2>3, <2>4 DEF AccountOK
<1> QED BY <1>3, <1>4 DEF FindTarget

LEMMA CommitLinkAccount == ASSUME IInv, AccountOK, CommitLink PROVE AccountOK'
<1> DEFINE k == imp.at
           r == imp.row
           now == svc[r]
<1>1. /\ UNCHANGED touched /\ imp \in Imports /\ imp.pc = "link" /\ k \in Nat /\ r \in Ids
      /\ Past = DOMAIN imp.file.services \ imp.errors /\ Past \subseteq Nat
      /\ svc \in [Ids -> Rows \cup {None}]
  BY Positions, PastIsAll DEF CommitLink, History, InLinks, IInv, RowOK, TypeOK
<1>2. /\ now # None => now.slug \in {Item(k).slug} \cup touched
      /\ Item(k).slug \notin touched => r \in Known(Item(k).slug)
      /\ k \in Past
      /\ Item(k).fb \in touched \/ imp.target \in Known(Item(k).fb)
  BY <1>1 DEF AccountOK, HandOK
<1>3. ASSUME NEW e \in {{}, {k}}, NEW d, NextLink(k, e, d), UNCHANGED svc,
             e = {} => Item(k).slug \in touched
      PROVE  AccountOK'
  <2>1. /\ imp'.pc = "links" /\ imp'.at = k + 1 /\ imp'.linkErrors = imp.linkErrors \cup e
        /\ imp'.file = imp.file /\ imp'.names = imp.names /\ imp'.errors = imp.errors
    BY <1>1, <1>3, NextLinkIs
  <2>2. ASSUME NEW j \in Past, NEW i, Item(j).slug \notin touched,
               j < k => Linked(j, i), j < k + 1
        PROVE  Linked(j, i)'
    <3>1. CASE j < k BY <1>1, <1>3, <2>1, <2>2, <3>1, LinkStands
    <3>2. CASE j = k
      <4>1. k \in imp'.linkErrors BY <1>3, <2>1, <2>2, <3>2
      <4> QED BY <3>2, <4>1 DEF Linked
    <3> QED BY <1>1, <2>2, <3>1, <3>2
  <2>3. PlacedOK' /\ ErrorsOK' BY <1>1, <1>3, <2>1, <2>2, CarryLinks DEF InLinks
  <2>4. HandOK' BY <2>1 DEF HandOK
  <2> QED BY <2>3, <2>4 DEF AccountOK
<1>4. CASE now = None
  <2>1. Item(k).slug \in touched BY <1>2, <1>4 DEF Known
  <2> QED BY <1>3, <1>4, <2>1 DEF CommitLink
<1>5. ASSUME now # None, NEW fb \in Flushed(now.fb, imp.target, now.slug \in touched),
             svc' = [svc EXCEPT ![r].fb = fb], NextLink(k, {}, FALSE)
      PROVE  AccountOK'
  <2>1. /\ imp'.pc = "links" /\ imp'.at = k + 1 /\ imp'.linkErrors = imp.linkErrors \cup {}
        /\ imp'.file = imp.file /\ imp'.names = imp.names /\ imp'.errors = imp.errors
    BY <1>1, <1>5, NextLinkIs
  <2>2. now \in Rows /\ svc' = [svc EXCEPT ![r] = [now EXCEPT !.fb = fb]]
    BY <1>1, <1>5
  <2>3. /\ svc'[r] = [now EXCEPT !.fb = fb]
        /\ \A i \in Ids \ {r} : svc'[i] = svc[i]
    BY <1>1, <2>2
  <2>4. [now EXCEPT !.fb = fb] # None
    <3>1. fb \in Ids \cup {None}
      BY <1>1, <1>5, <2>2 DEF Flushed, Rows, IInv, RowOK
    <3>2. [now EXCEPT !.fb = fb] \in Rows BY <2>2, <3>1 DEF Rows
    <3> QED BY <3>2, ImportAssumption
  <2>5. /\ svc'[r].slug = now.slug /\ svc'[r].owner = now.owner /\ svc'[r].group = now.group
        /\ svc'[r].data = now.data /\ svc'[r].fb = fb
    BY <2>2, <2>3 DEF Rows
  <2>6. \A i \in Ids : /\ svc'[i] # None <=> svc[i] # None
                       /\ svc[i] # None => /\ svc'[i].slug = svc[i].slug
                                           /\ svc'[i].owner = svc[i].owner
                                           /\ svc'[i].group = svc[i].group
                                           /\ svc'[i].data = svc[i].data
    BY <1>5, <2>3, <2>4, <2>5
  <2>7. \A s : Known(s)' = Known(s) BY <2>6 DEF Known
  <2>8. ASSUME NEW j \in Past, NEW i \in Ids, Final(j), Item(j).slug \notin touched, Placed(j, i),
               j < k => Linked(j, i), j < k + 1
        PROVE  Linked(j, i)'
    <3>1. CASE j < k
      <4>1. Item(j).slug # Item(k).slug BY <1>1, <1>2, <2>8, <3>1 DEF Final
      <4>2. i # r BY <1>2, <2>8, <4>1 DEF Placed, Known
      <4>3. svc'[i].fb = svc[i].fb BY <2>3, <4>2
      <4>4. Linked(j, i) BY <2>8, <3>1
      <4> QED BY <1>1, <2>1, <2>7, <4>3, <4>4 DEF Linked, Item
    <3>2. CASE j = k
      <4>1. i = r BY <1>2, <2>8, <3>2, Unique DEF Placed
      <4>2. now.slug = Item(k).slug BY <2>8, <3>2, <4>1 DEF Placed, Known
      <4>3. fb = imp.target BY <1>5, <2>8, <3>2, <4>2 DEF Flushed
      <4> QED BY <1>1, <1>2, <2>1, <2>5, <2>7, <3>2, <4>1, <4>3 DEF Linked, Item
    <3> QED BY <1>1, <2>8, <3>1, <3>2
  <2>9. PlacedOK' /\ ErrorsOK' BY <1>1, <2>1, <2>6, <2>8, CarryLinks DEF InLinks
  <2>10. HandOK' BY <2>1 DEF HandOK
  <2> QED BY <2>9, <2>10 DEF AccountOK
<1>6. ASSUME NextLink(k, {k}, TRUE), UNCHANGED svc PROVE AccountOK'
  BY <1>3, <1>6
<1> QED BY <1>4, <1>5, <1>6 DEF CommitLink

LEMMA FinishAccount == ASSUME IInv, AccountOK, Finish PROVE AccountOK'
<1>1. /\ UNCHANGED <<svc, touched>> /\ imp \in Imports /\ imp.pc = "links" /\ imp.at \in Nat
      /\ Past = DOMAIN imp.file.services \ imp.errors /\ Past \subseteq Nat
  BY Positions, PastIsAll DEF Finish, Database, History, InLinks
<1>2. /\ imp'.pc = "done" /\ imp'.at = imp.at /\ imp'.linkErrors = imp.linkErrors
      /\ imp'.file = imp.file /\ imp'.names = imp.names /\ imp'.errors = imp.errors
  BY <1>1 DEF Finish, Imports
<1>3. ASSUME NEW j \in Past, NEW i, j < imp.at => Linked(j, i) PROVE Linked(j, i)'
  <2>1. j < imp.at \/ Item(j).fb = None BY <1>1 DEF Finish, ToDo, Links
  <2>2. Linked(j, i) BY <1>3, <2>1 DEF Linked
  <2> QED BY <1>1, <1>2, <2>2, LinkStands
<1>4. PlacedOK' /\ ErrorsOK' BY <1>1, <1>2, <1>3, CarryLinks DEF InLinks
<1>5. HandOK' BY <1>2 DEF HandOK
<1> QED BY <1>4, <1>5 DEF AccountOK

LEMMA AccountStep == IInv /\ AccountOK /\ [Next]_vars => AccountOK'
<1> SUFFICES ASSUME IInv, AccountOK, [Next]_vars PROVE AccountOK' OBVIOUS
<1>1. IInv' BY StepOK
<1>2. CASE UNCHANGED <<svc, imp, touched>>
  <2>1. /\ \A k : Item(k)' = Item(k) /\ \A item : GroupOf(item)' = GroupOf(item)
        /\ Past' = Past /\ \A k : Final(k)' = Final(k) /\ \A s : Known(s)' = Known(s)
    BY <1>2 DEF Item, GroupOf, Past, Final, Known
  <2>2. \A k, i : Placed(k, i)' = Placed(k, i) /\ Linked(k, i)' = Linked(k, i)
    BY <1>2, <2>1 DEF Placed, Linked, Mine
  <2>3. PlacedOK' BY <1>2, <2>1, <2>2 DEF AccountOK, PlacedOK
  <2>4. ErrorsOK' BY <1>2 DEF AccountOK, ErrorsOK
  <2>5. HandOK' BY <1>2, <2>1 DEF AccountOK, HandOK
  <2> QED BY <2>3, <2>4, <2>5 DEF AccountOK
<1>3. CASE Export \/ UNCHANGED vars BY <1>2, <1>3 DEF Export, vars
<1>4. CASE Import
  BY <1>1, <1>4, GroupsAccount, LoadGroupsAccount, ScanAccount, UpdateAccount, InsertAccount,
     ItemsDoneAccount, FindServiceAccount, FindTargetAccount, CommitLinkAccount, FinishAccount
     DEF Import
<1>5. CASE Others BY <1>1, <1>5, OthersAccount
<1> QED BY <1>3, <1>4, <1>5 DEF Next

-------------------------------------------------------------------------------
(* The groups of the file *)

\* The pass over the groups is behind.
Grouped == {"reload", "items", "done"} \cup InItem \cup InLinks

\* The import knows an id for the name of each group it is past.
GroupKnown(p) == imp.file.groups[p] \in Names => imp.names[imp.file.groups[p]] # None

NamesOK ==
    /\ imp.pc = "groups" => \A p \in DOMAIN imp.file.groups : p < imp.at => GroupKnown(p)
    /\ imp.pc \in Grouped => \A p \in DOMAIN imp.file.groups : GroupKnown(p)

LEMMA GroupPlaces ==
    ASSUME IInv, imp.pc \in {"groups"} \cup Grouped
    PROVE  /\ imp \in Imports /\ imp.at \in Nat /\ imp.names \in [Names -> GroupIds \cup {None}]
           /\ Len(imp.file.groups) \in Nat
           /\ DOMAIN imp.file.groups = 1..Len(imp.file.groups)
<1>1. imp \in Imports /\ imp.pc \in Phases \ {"idle"}
  BY DEF IInv, TypeOK, Phases, Grouped, InItem, InLinks
<1>2. imp.file.groups \in Seq(Names \cup {None, Junk})
  BY <1>1 DEF IInv, FileOK, FileType
<1> QED BY <1>1, <1>2 DEF Imports

\* After the pass the names stay as they are.
LEMMA NamesStay ==
    ASSUME IInv, NamesOK, imp'.names = imp.names, imp'.file = imp.file,
           imp'.pc \in Grouped => imp.pc \in Grouped, imp'.pc # "groups"
    PROVE  NamesOK'
BY DEF NamesOK, GroupKnown

LEMMA FindGroupNames == ASSUME IInv, NamesOK, FindGroup PROVE NamesOK'
<1> DEFINE name == imp.file.groups[imp.at]
<1>1. /\ imp \in Imports /\ imp.at \in Nat /\ imp.pc = "groups"
      /\ imp.names \in [Names -> GroupIds \cup {None}]
      /\ DOMAIN imp.file.groups = 1..Len(imp.file.groups) /\ Len(imp.file.groups) \in Nat
  BY GroupPlaces DEF FindGroup
<1>2. \A p \in DOMAIN imp.file.groups : p < imp.at => GroupKnown(p)
  BY <1>1 DEF NamesOK
<1>3. CASE Abort
  BY <1>1, <1>3 DEF Abort, NamesOK, Imports, Grouped, InItem, InLinks
<1>4. CASE name = None /\ imp' = [imp EXCEPT !.at = @ + 1]
  <2>1. /\ imp'.pc = "groups" /\ imp'.at = imp.at + 1 /\ imp'.file = imp.file
        /\ imp'.names = imp.names
    BY <1>1, <1>4 DEF Imports
  <2>2. ASSUME NEW p \in DOMAIN imp.file.groups, p < imp.at + 1 PROVE GroupKnown(p)
    <3>1. CASE p < imp.at BY <1>2, <3>1
    <3>2. CASE p = imp.at BY <1>4, <3>2, ImportAssumption DEF GroupKnown
    <3> QED BY <1>1, <2>2, <3>1, <3>2
  <2> QED BY <2>1, <2>2 DEF NamesOK, GroupKnown, Grouped, InItem, InLinks
<1>5. ASSUME name \in Names, NEW g \in GroupIds,
             \/ imp' = [imp EXCEPT !.at = @ + 1, !.names[name] = g]
             \/ imp' = [imp EXCEPT !.at = @ + 1, !.names[name] = g, !.fresh = @ \cup {g}]
      PROVE  NamesOK'
  <2>1. /\ imp'.pc = "groups" /\ imp'.at = imp.at + 1 /\ imp'.file = imp.file
        /\ imp'.names = [imp.names EXCEPT ![name] = g]
    BY <1>1, <1>5 DEF Imports
  <2>2. g # None
    BY ImportAssumption
  <2>3. \A n \in Names : imp'.names[n] = IF n = name THEN g ELSE imp.names[n]
    BY <1>1, <2>1
  <2>4. ASSUME NEW p \in DOMAIN imp.file.groups, p < imp.at + 1, imp.file.groups[p] \in Names
        PROVE  imp'.names[imp.file.groups[p]] # None
    <3>1. CASE p < imp.at BY <1>2, <2>2, <2>3, <2>4, <3>1 DEF GroupKnown
    <3>2. CASE p = imp.at BY <2>2, <2>3, <2>4, <3>2
    <3> QED BY <1>1, <2>4, <3>1, <3>2
  <2> QED BY <2>1, <2>4 DEF NamesOK, GroupKnown, Grouped, InItem, InLinks
<1> QED BY <1>3, <1>4, <1>5 DEF FindGroup

LEMMA CommitGroupsNames == ASSUME IInv, NamesOK, CommitGroups PROVE NamesOK'
<1>1. /\ imp \in Imports /\ imp.at \in Nat /\ imp.pc = "groups"
      /\ DOMAIN imp.file.groups = 1..Len(imp.file.groups) /\ Len(imp.file.groups) \in Nat
      /\ imp.at > Len(imp.file.groups)
  BY GroupPlaces DEF CommitGroups
<1>2. \A p \in DOMAIN imp.file.groups : p < imp.at
  BY <1>1
<1>3. CASE Abort
  BY <1>1, <1>3 DEF Abort, NamesOK, Imports, Grouped, InItem, InLinks
<1>4. CASE imp' = [imp EXCEPT !.pc = "reload", !.fresh = {}]
  <2>1. imp'.pc = "reload" /\ imp'.file = imp.file /\ imp'.names = imp.names
    BY <1>1, <1>4 DEF Imports
  <2> QED BY <1>1, <1>2, <2>1 DEF NamesOK, GroupKnown
<1> QED BY <1>3, <1>4 DEF CommitGroups

LEMMA LoadGroupsNames == ASSUME IInv, NamesOK, LoadGroups PROVE NamesOK'
<1>1. imp \in Imports /\ imp.pc = "reload" /\ imp.pc \in Grouped
  BY DEF LoadGroups, IInv, TypeOK, Grouped
<1>2. PICK names \in [Names -> GroupIds \cup {None}] :
        /\ \A n \in Names : LET there == {g \in MyGroups : grp[g].name = n}
                            IN IF there = {} THEN names[n] = imp.names[n] ELSE names[n] \in there
        /\ imp' = [imp EXCEPT !.pc = IF imp.file.services = NotAList THEN "refused" ELSE "items",
                              !.names = names, !.at = 1]
  BY DEF LoadGroups
<1>3. /\ imp'.pc \in {"refused", "items"} /\ imp'.file = imp.file /\ imp'.names = names
  BY <1>1, <1>2 DEF Imports
<1>4. \A n \in Names : imp.names[n] # None => names[n] # None
  BY <1>2, ImportAssumption DEF MyGroups
<1> QED BY <1>1, <1>3, <1>4 DEF NamesOK, GroupKnown

LEMMA NamesStep == IInv /\ NamesOK /\ [Next]_vars => NamesOK'
<1> SUFFICES ASSUME IInv, NamesOK, [Next]_vars PROVE NamesOK' OBVIOUS
<1>1. imp \in Imports BY DEF IInv, TypeOK
<1>2. CASE UNCHANGED imp
  BY <1>2 DEF NamesOK, GroupKnown
<1>3. ASSUME NEW file, Upload(file) PROVE NamesOK'
  <2>1. imp'.pc = "groups" /\ imp'.at = 1 /\ imp'.file = file BY <1>3 DEF Upload, NoImport
  <2>2. file \in FileType
    <3>1. IInv' BY StepOK
    <3>2. imp'.pc \in Phases \ {"idle"} BY <2>1 DEF Phases
    <3> QED BY <2>1, <3>1, <3>2 DEF IInv, FileOK
  <2>3. \A p \in DOMAIN file.groups : ~(p < 1) BY <2>2 DEF FileType
  <2> QED BY <2>1, <2>3 DEF NamesOK, Grouped, InItem, InLinks
<1>4. ASSUME imp.pc \in Grouped, NEW e, NEW d, NextItem(e, d) PROVE NamesOK'
  BY <1>1, <1>4, NextItemIs, NamesStay
<1>5. ASSUME imp.pc \in Grouped, NEW k, NEW e, NEW d, NextLink(k, e, d) PROVE NamesOK'
  BY <1>1, <1>5, NextLinkIs, NamesStay
<1>6. CASE JunkItem
  BY <1>1, <1>6 DEF JunkItem, Abort, NamesOK, Imports, Grouped, InItem, InLinks
<1>7. CASE SkipItem \/ Refresh
  <2>1. imp.pc \in Grouped BY <1>7 DEF SkipItem, Refresh, Grouped, InItem
  <2> QED BY <1>4, <1>7, <2>1 DEF SkipItem, Refresh
<1>8. ASSUME imp.pc \in Grouped, NEW pc, pc # "groups", NEW i,
             \/ imp' = [imp EXCEPT !.pc = pc]
             \/ imp' = [imp EXCEPT !.pc = pc, !.row = i]
             \/ imp' = [imp EXCEPT !.pc = pc, !.target = i]
             \/ imp' = [imp EXCEPT !.pc = pc, !.at = 1]
             \/ \E k : imp' = [imp EXCEPT !.pc = pc, !.at = k, !.row = i]
      PROVE  NamesOK'
  <2>1. imp'.pc = pc /\ imp'.file = imp.file /\ imp'.names = imp.names
    BY <1>1, <1>8 DEF Imports
  <2> QED BY <1>8, <2>1, NamesStay
<1>9. CASE Lookup
  <2>1. imp.pc \in Grouped BY <1>9 DEF Lookup, Grouped
  <2>2. \/ NextItem({imp.at}, FALSE) \/ imp' = [imp EXCEPT !.pc = "insert"]
        \/ \E i \in Ids : imp' = [imp EXCEPT !.pc = "reread", !.row = i]
    BY <1>9, Zenon DEF Lookup, Known
  <2> QED BY <1>4, <1>8, <2>1, <2>2
<1>10. CASE Reread
  <2>1. imp.pc \in Grouped BY <1>10 DEF Reread, Grouped, InItem
  <2> QED BY <1>4, <1>8, <1>10, <2>1 DEF Reread
<1>11. CASE Update
  <2>1. imp.pc \in Grouped BY <1>11 DEF Update, Grouped, InItem
  <2>2. NextItem({imp.at}, TRUE) \/ imp' = [imp EXCEPT !.pc = "refresh"]
    BY <1>11, Zenon DEF Update
  <2> QED BY <1>4, <1>8, <2>1, <2>2
<1>12. CASE Insert
  <2>1. imp.pc \in Grouped BY <1>12 DEF Insert, Grouped, InItem
  <2>2. NextItem({imp.at}, TRUE) \/ \E i \in Ids : imp' = [imp EXCEPT !.pc = "refresh", !.row = i]
    BY <1>12, Zenon DEF Insert
  <2> QED BY <1>4, <1>8, <2>1, <2>2
<1>13. CASE ItemsDone \/ Finish
  <2>1. imp.pc \in Grouped BY <1>13 DEF ItemsDone, Finish, Grouped, InLinks
  <2> QED BY <1>8, <1>13, <2>1 DEF ItemsDone, Finish
<1>14. ASSUME NEW k, FindService(k) PROVE NamesOK'
  <2>1. imp.pc \in Grouped BY <1>14 DEF FindService, Grouped, InLinks
  <2>2. \/ NextLink(k, {k}, FALSE)
        \/ \E i : imp' = [imp EXCEPT !.pc = "target", !.at = k, !.row = i]
    BY <1>14, Zenon DEF FindService
  <2> QED BY <1>5, <1>8, <2>1, <2>2
<1>15. CASE FindTarget
  <2>1. imp.pc \in Grouped BY <1>15 DEF FindTarget, Grouped, InLinks
  <2>2. \/ NextLink(imp.at, {}, FALSE) \/ \E f : imp' = [imp EXCEPT !.pc = "link", !.target = f]
    BY <1>15, Zenon DEF FindTarget
  <2> QED BY <1>5, <1>8, <2>1, <2>2
<1>16. CASE CommitLink
  <2>1. imp.pc \in Grouped BY <1>16 DEF CommitLink, Grouped, InLinks
  <2>2. \E e, d : NextLink(imp.at, e, d)
    BY <1>16, Zenon DEF CommitLink
  <2> QED BY <1>5, <2>1, <2>2
<1>17. CASE Import
  BY <1>3, <1>6, <1>7, <1>9, <1>10, <1>11, <1>12, <1>13, <1>14, <1>15, <1>16, <1>17,
     FindGroupNames, CommitGroupsNames, LoadGroupsNames DEF Import
<1>18. CASE Others \/ Export \/ UNCHANGED vars
  <2>1. UNCHANGED imp
    BY <1>18 DEF Others, Export, vars, CreateService, EditService, DeleteService, CreateGroup,
                UpdateGroup, DeleteGroup, Other
  <2> QED BY <1>2, <2>1
<1> QED BY <1>17, <1>18 DEF Next

\* What the answer of an import does not report as an error is in the table, items with
\* their groups and links, as the file has it, unless others have been there since; but for
\* groups that neither the file nor the user has, and links to slugs that no service has.
THEOREM AnswerAccounts == Spec => []Accounted
<1>1. Init => AccountOK /\ NamesOK
  BY DEF Init, NoImport, AccountOK, ErrorsOK, HandOK, PlacedOK, NamesOK, Grouped, InItem, InLinks
<1>2. IInv /\ AccountOK /\ NamesOK => Accounted
  <2> SUFFICES ASSUME IInv, AccountOK, NamesOK, imp.pc = "done",
                      NEW k \in DOMAIN imp.file.services \ imp.errors,
                      \A j \in DOMAIN imp.file.services \ imp.errors :
                          j > k => Item(j).slug # Item(k).slug,
                      Item(k).slug \notin touched
               PROVE  \E i \in Known(Item(k).slug) \cap Mine :
                        /\ svc[i].group = GroupOf(Item(k))
                        /\ Item(k).group \in Names \cap Range(imp.file.groups)
                             => svc[i].group # None
                        /\ Item(k).data \in {svc[i].data, Partial}
                        /\ \/ Item(k).fb = None \/ k \in imp.linkErrors \/ Item(k).fb \in touched
                           \/ Known(Item(k).fb) = {}
                           \/ svc[i].fb \in Known(Item(k).fb)
    BY DEF Accounted
  <2>1. Past = DOMAIN imp.file.services \ imp.errors BY DEF Past, InItem
  <2>2. Final(k) BY <2>1 DEF Final
  <2>3. PICK i \in Ids : Placed(k, i) /\ Linked(k, i) BY <2>1, <2>2 DEF AccountOK, PlacedOK
  <2>4. ASSUME Item(k).group \in Names \cap Range(imp.file.groups)
        PROVE  GroupOf(Item(k)) # None
    <3>1. PICK p \in DOMAIN imp.file.groups : imp.file.groups[p] = Item(k).group
      BY <2>4 DEF Range
    <3>2. GroupKnown(p) BY DEF NamesOK, Grouped
    <3> QED BY <2>4, <3>1, <3>2, ImportAssumption DEF GroupKnown, GroupOf
  <2> QED BY <2>3, <2>4 DEF Placed, Linked
<1>3. IInv /\ AccountOK /\ NamesOK /\ [Next]_vars => NamesOK' /\ AccountOK'
  BY AccountStep, NamesStep
<1> QED BY <1>1, <1>2, <1>3, Invariant, PTL DEF Spec

-------------------------------------------------------------------------------
(* What an export saves, an import brings back *)

\* The file is whole: every service has its fields, and the groups and services that it
\* names are in the file, too.
WholeFile ==
    /\ exported.groups \in Seq(Names) /\ exported.services \in Seq(Objects)
    /\ \A k \in DOMAIN exported.services :
         /\ exported.services[k].slug \in Slugs /\ exported.services[k].data \in Data
         /\ exported.services[k].group \in Range(exported.groups) \cup {None}
         /\ exported.services[k].fb = None
              \/ \E j \in DOMAIN exported.services : exported.services[j].slug = exported.services[k].fb
    /\ \A j, k \in DOMAIN exported.services :
         exported.services[j].slug = exported.services[k].slug => j = k

\* The file names all that the user has, and nobody else has what it names.
StillOwn ==
    /\ \A i \in Mine : \E k \in DOMAIN exported.services :
         /\ svc[i].slug = exported.services[k].slug
         /\ exported.services[k].fb = None => svc[i].fb \notin Mine
    /\ \A k \in DOMAIN exported.services : Known(exported.services[k].slug) \subseteq Mine
    /\ \A g, h \in MyGroups : grp[g].name = grp[h].name => g = h

\* Nothing went wrong, and an item that is new is so.
Unharmed == /\ ~imp.dead /\ imp.errors = {} /\ imp.linkErrors = {}
            /\ imp.pc \notin {"failed", "refused"}
            /\ imp.pc = "insert" => Known(Item(imp.at).slug) = {}

\* A name has been found among the user's groups, or is that of a new one.
GroupFound(n) ==
    \/ imp.names[n] \in MyGroups \ imp.fresh /\ grp[imp.names[n]].name = n
    \/ imp.names[n] \in imp.fresh /\ \A g \in MyGroups : grp[g].name # n

SeenNames == {exported.groups[p] : p \in {q \in DOMAIN exported.groups : q < imp.at}}

Later == {"items", "done"} \cup InItem \cup InLinks

GroupsFound ==
    /\ imp.pc = "groups" =>
         /\ \A n \in Names : IF n \in SeenNames THEN GroupFound(n) ELSE imp.names[n] = None
         /\ \A m, n \in Names : imp.names[m] = imp.names[n] => m = n \/ imp.names[m] = None
         /\ \A g \in imp.fresh : grp[g] = None
    /\ imp.pc = "reload" =>
         \A n \in Range(exported.groups) : \E g \in MyGroups : grp[g].name = n
    /\ imp.pc \in Later =>
         \A n \in Range(exported.groups) : imp.names[n] \in MyGroups /\ grp[imp.names[n]].name = n

Restoring ==
    /\ WholeFile /\ StillOwn
    /\ imp.pc # "idle" =>
         imp.file = exported /\ touched = {} /\ Unharmed /\ GroupsFound

RestoreOK ==
    /\ imp.pc = "idle" => touched = {}
    /\ calm => /\ exported # None
               /\ imp.pc # "idle" => imp.file = exported
               /\ IsInjective(exported.groups) => Restoring

\* The order of a set in which each element comes once.
LEMMA OrderedOnce ==
    ASSUME NEW S, IsFiniteSet(S), NEW s \in SetToSeqs(S)
    PROVE  /\ Cardinality(S) \in Nat /\ DOMAIN s = 1..Cardinality(S) /\ s \in Seq(S)
           /\ \A k \in DOMAIN s : s[k] \in S
           /\ \A j, k \in DOMAIN s : s[j] = s[k] => j = k
           /\ \A x \in S : \E k \in DOMAIN s : s[k] = x
<1> DEFINE D == 1..Cardinality(S)
<1>1. Cardinality(S) \in Nat
  BY FS_CardinalityType
<1>2. s \in [D -> S] /\ \A i, j \in D : i # j => s[i] # s[j]
  BY DEF SetToSeqs
<1>3. s \in Injection(D, S)
  BY <1>2 DEF Injection, IsInjective
<1>4. IsFiniteSet(D) /\ Cardinality(D) = Cardinality(S)
  BY <1>1, FS_Interval
<1>5. s \in Surjection(D, S)
  BY <1>3, <1>4, FS_Injection
<1>6. \A x \in S : \E k \in D : s[k] = x
  BY <1>5 DEF Surjection
<1>7. s \in Seq(S)
  BY <1>1, <1>2
<1> QED BY <1>1, <1>2, <1>6, <1>7

LEMMA ExportRestores == ASSUME IInv, Export, IsInjective(exported'.groups) PROVE WholeFile' /\ StillOwn'
<1>1. PICK g \in SetToSeqs(MyGroups), s \in SetToSeqs(Mine) :
         exported' = [groups   |-> [k \in DOMAIN g |-> grp[g[k]].name],
                      services |-> [k \in DOMAIN s |-> ItemOf(s[k])]]
  BY DEF Export
<1> DEFINE G == exported'.groups
           S == exported'.services
<1>2. IsFiniteSet(MyGroups) /\ IsFiniteSet(Mine)
  BY ImportAssumption, FS_Subset DEF MyGroups, Mine
<1>3. /\ Cardinality(MyGroups) \in Nat /\ DOMAIN g = 1..Cardinality(MyGroups)
      /\ \A k \in DOMAIN g : g[k] \in MyGroups
      /\ \A x \in MyGroups : \E k \in DOMAIN g : g[k] = x
  BY <1>2, OrderedOnce
<1>4. /\ Cardinality(Mine) \in Nat /\ DOMAIN s = 1..Cardinality(Mine)
      /\ \A k \in DOMAIN s : s[k] \in Mine
      /\ \A j, k \in DOMAIN s : s[j] = s[k] => j = k
      /\ \A x \in Mine : \E k \in DOMAIN s : s[k] = x
  BY <1>2, OrderedOnce
<1>5. /\ DOMAIN G = DOMAIN g /\ \A k \in DOMAIN g : G[k] = grp[g[k]].name
      /\ DOMAIN S = DOMAIN s /\ \A k \in DOMAIN s : S[k] = ItemOf(s[k])
  BY <1>1
<1>6. \A h \in MyGroups : grp[h].name \in Names /\ h \in GroupIds
  BY DEF MyGroups, IInv, TypeOK, Groups
<1>7. \A i \in Mine : svc[i] \in Rows /\ i \in Ids /\ svc[i].slug \in Slugs /\ svc[i].data \in Data
  BY DEF Mine, IInv, TypeOK, Rows
<1>8. ASSUME NEW i \in Mine
      PROVE  /\ ItemOf(i) \in Objects
             /\ ItemOf(i).slug = svc[i].slug /\ ItemOf(i).data = svc[i].data
             /\ ItemOf(i).group \in {grp[h].name : h \in MyGroups} \cup {None}
             /\ IF svc[i].fb \in Mine THEN ItemOf(i).fb = svc[svc[i].fb].slug ELSE ItemOf(i).fb = None
  BY <1>6, <1>7 DEF ItemOf, Objects, Rows
<1>9. G \in Seq(Names)
  BY <1>1, <1>3, <1>6
<1>10. S \in Seq(Objects)
  BY <1>1, <1>4, <1>8
<1>11. \A h \in MyGroups : grp[h].name \in Range(G)
  BY <1>3, <1>5 DEF Range
<1>12. UNCHANGED <<svc, grp>> /\ Mine' = Mine /\ MyGroups' = MyGroups
  BY DEF Export, Mine, MyGroups
<1> HIDE DEF G, S
<1>13. \A j, k \in DOMAIN S : S[j].slug = S[k].slug => j = k
  <2> SUFFICES ASSUME NEW j \in DOMAIN S, NEW k \in DOMAIN S, S[j].slug = S[k].slug PROVE j = k
    OBVIOUS
  <2>1. s[j] \in Mine /\ s[k] \in Mine
    BY <1>4, <1>5
  <2>2. svc[s[j]].slug = svc[s[k]].slug
    BY <1>5, <1>8, <2>1
  <2>3. s[j] = s[k]
    BY <2>1, <2>2 DEF IInv, TypeOK, Sound, Mine
  <2> QED BY <1>4, <1>5, <2>3
<1>14. ASSUME NEW k \in DOMAIN S
       PROVE  /\ S[k].slug \in Slugs /\ S[k].data \in Data
              /\ S[k].group \in Range(G) \cup {None}
              /\ S[k].fb = None \/ \E j \in DOMAIN S : S[j].slug = S[k].fb
  <2>1. s[k] \in Mine /\ S[k] = ItemOf(s[k])
    BY <1>4, <1>5
  <2>2. S[k].slug \in Slugs /\ S[k].data \in Data
    BY <1>7, <1>8, <2>1
  <2>3. S[k].group \in Range(G) \cup {None}
    BY <1>8, <1>11, <2>1
  <2>4. ASSUME svc[s[k]].fb \in Mine PROVE \E j \in DOMAIN S : S[j].slug = S[k].fb
    <3>1. PICK j \in DOMAIN s : s[j] = svc[s[k]].fb
      BY <1>4, <2>4
    <3>2. S[j].slug = svc[svc[s[k]].fb].slug
      BY <1>5, <1>8, <2>4, <3>1
    <3> QED BY <1>5, <1>8, <2>1, <2>4, <3>1, <3>2
  <2> QED BY <1>8, <2>1, <2>2, <2>3, <2>4
<1>15. WholeFile'
  BY <1>9, <1>10, <1>13, <1>14 DEF WholeFile, G, S
<1>16. ASSUME NEW i \in Mine
       PROVE  \E k \in DOMAIN S : svc[i].slug = S[k].slug /\ (S[k].fb = None => svc[i].fb \notin Mine)
  <2>1. PICK k \in DOMAIN s : s[k] = i
    BY <1>4
  <2>2. S[k] = ItemOf(i) /\ k \in DOMAIN S
    BY <1>5, <2>1
  <2>3. svc[i].fb \in Mine => svc[svc[i].fb].slug # None
    BY <1>7, ImportAssumption
  <2> QED BY <1>8, <2>2, <2>3
<1>17. \A k \in DOMAIN S : Known(S[k].slug) \subseteq Mine
  <2> SUFFICES ASSUME NEW k \in DOMAIN S, NEW i \in Known(S[k].slug) PROVE i \in Mine
    OBVIOUS
  <2>1. s[k] \in Mine /\ S[k].slug = svc[s[k]].slug
    BY <1>4, <1>5, <1>8
  <2>2. i = s[k]
    BY <2>1 DEF IInv, TypeOK, Sound, Mine, Known
  <2> QED BY <2>1, <2>2
<1>18. ASSUME NEW x \in MyGroups, NEW h \in MyGroups, grp[x].name = grp[h].name PROVE x = h
  <2>1. PICK j \in DOMAIN g, k \in DOMAIN g : g[j] = x /\ g[k] = h
    BY <1>3
  <2>2. G[j] = G[k]
    BY <1>5, <1>18, <2>1
  <2>3. j = k
    BY <1>5, <2>2 DEF IsInjective, G
  <2> QED BY <2>1, <2>3
<1>19. StillOwn'
  <2>1. \A i \in Mine' : \E k \in DOMAIN S : /\ svc'[i].slug = S[k].slug
                                             /\ S[k].fb = None => svc'[i].fb \notin Mine'
    BY <1>12, <1>16
  <2>2. \A k \in DOMAIN exported'.services : Known(exported.services[k].slug)' \subseteq Mine'
    BY <1>12, <1>17 DEF S, Known
  <2>3. \A x, h \in MyGroups' : grp'[x].name = grp'[h].name => x = h
    BY <1>12, <1>18
  <2> QED BY <2>1, <2>2, <2>3 DEF StillOwn, S
<1> QED BY <1>15, <1>19

\* What the user may have deleted since then is not missed.
LEMMA LessIsOwn ==
    ASSUME WholeFile, StillOwn, UNCHANGED exported,
           \A i \in Ids : svc'[i] # None =>
              /\ svc[i] # None /\ svc'[i].slug = svc[i].slug /\ svc'[i].owner = svc[i].owner
              /\ svc'[i].fb \in {svc[i].fb, None},
           \A g \in GroupIds : grp'[g] # None => grp'[g] = grp[g]
    PROVE  WholeFile' /\ StillOwn'
<1>1. WholeFile'
  BY Zenon DEF WholeFile
<1>2. Mine' \subseteq Mine /\ MyGroups' \subseteq MyGroups /\ \A s : Known(s)' \subseteq Known(s)
  BY DEF Mine, MyGroups, Known
<1>3. ASSUME NEW i \in Mine'
      PROVE  \E k \in DOMAIN exported.services :
                /\ svc'[i].slug = exported.services[k].slug
                /\ exported.services[k].fb = None => svc'[i].fb \notin Mine'
  <2>1. PICK k \in DOMAIN exported.services :
           /\ svc[i].slug = exported.services[k].slug
           /\ exported.services[k].fb = None => svc[i].fb \notin Mine
    BY <1>2 DEF StillOwn
  <2>2. svc'[i].slug = svc[i].slug /\ svc'[i].fb \in {svc[i].fb, None}
    BY DEF Mine
  <2>3. None \notin Mine'
    BY ImportAssumption DEF Mine
  <2> QED BY <1>2, <2>1, <2>2, <2>3
<1>4. \A k \in DOMAIN exported.services : Known(exported.services[k].slug)' \subseteq Mine'
  <2> SUFFICES ASSUME NEW k \in DOMAIN exported.services, NEW i \in Known(exported.services[k].slug)'
               PROVE  i \in Mine'
    OBVIOUS
  <2>1. i \in Mine
    BY <1>2 DEF StillOwn, Known
  <2>2. i \in Ids /\ svc'[i] # None
    BY DEF Known
  <2> QED BY <2>1, <2>2 DEF Mine
<1>5. \A g, h \in MyGroups' : grp'[g].name = grp'[h].name => g = h
  BY <1>2 DEF StillOwn, MyGroups
<1> QED BY <1>1, <1>3, <1>4, <1>5 DEF StillOwn

LEMMA OthersRestore == ASSUME IInv, RestoreOK, Others PROVE RestoreOK'
<1>1. /\ UNCHANGED <<imp, exported>>
      /\ calm' => calm /\ imp.pc = "idle"
      /\ imp.pc = "idle" => touched' = {}
  BY DEF Others, CreateService, EditService, DeleteService, CreateGroup, UpdateGroup, DeleteGroup, Other
<1> SUFFICES ASSUME calm', IsInjective(exported.groups) PROVE WholeFile' /\ StillOwn'
  BY <1>1 DEF RestoreOK, Restoring
<1>2. WholeFile /\ StillOwn
  BY <1>1 DEF RestoreOK, Restoring
<1>3. svc \in [Ids -> Rows \cup {None}] /\ grp \in [GroupIds -> Groups \cup {None}]
  BY DEF IInv, TypeOK
<1>4. ASSUME NEW i \in Ids, DeleteService(i) PROVE WholeFile' /\ StillOwn'
  <2>1. ASSUME NEW j \in Ids, svc'[j] # None
        PROVE  /\ svc[j] # None /\ svc'[j].slug = svc[j].slug /\ svc'[j].owner = svc[j].owner
               /\ svc'[j].fb \in {svc[j].fb, None}
    <3>1. \/ svc'[j] = None
          \/ svc'[j] = svc[j]
          \/ svc[j] # None /\ svc'[j] = [svc[j] EXCEPT !.fb = None]
      BY <1>4 DEF DeleteService
    <3>2. svc[j] # None => svc[j] \in Rows
      BY <1>3
    <3>3. None \in {svc[j].fb, None} /\ svc[j].fb \in {svc[j].fb, None}
      OBVIOUS
    <3>4. CASE svc'[j] = svc[j]
      BY <2>1, <3>3, <3>4
    <3>5. CASE svc[j] # None /\ svc'[j] = [svc[j] EXCEPT !.fb = None]
      BY <3>2, <3>3, <3>5 DEF Rows
    <3> QED BY <2>1, <3>1, <3>4, <3>5
  <2>2. UNCHANGED grp
    BY <1>4 DEF DeleteService
  <2> QED BY <1>1, <1>2, <2>1, <2>2, LessIsOwn
<1>5. ASSUME NEW g \in GroupIds, DeleteGroup(g) PROVE WholeFile' /\ StillOwn'
  <2>1. ASSUME NEW j \in Ids, svc'[j] # None
        PROVE  /\ svc[j] # None /\ svc'[j].slug = svc[j].slug /\ svc'[j].owner = svc[j].owner
               /\ svc'[j].fb \in {svc[j].fb, None}
    <3>1. \/ svc'[j] = svc[j]
          \/ svc[j] # None /\ svc'[j] = [svc[j] EXCEPT !.group = None]
      BY <1>5 DEF DeleteGroup
    <3>2. svc[j] # None => svc[j] \in Rows
      BY <1>3
    <3>3. svc[j].fb \in {svc[j].fb, None}
      OBVIOUS
    <3>4. CASE svc'[j] = svc[j]
      BY <2>1, <3>3, <3>4
    <3>5. CASE svc[j] # None /\ svc'[j] = [svc[j] EXCEPT !.group = None]
      BY <3>2, <3>3, <3>5 DEF Rows
    <3> QED BY <3>1, <3>4, <3>5
  <2>2. \A h \in GroupIds : grp'[h] # None => grp'[h] = grp[h]
    BY <1>3, <1>5 DEF DeleteGroup
  <2> QED BY <1>1, <1>2, <2>1, <2>2, LessIsOwn
<1>6. (\E i \in Ids : DeleteService(i)) \/ (\E g \in GroupIds : DeleteGroup(g))
  BY DEF Others, CreateService, EditService, CreateGroup, UpdateGroup, Other
<1> QED BY <1>4, <1>5, <1>6


LEMMA UploadRestores ==
    ASSUME RestoreOK, NEW file, Upload(file), calm', IsInjective(exported.groups)
    PROVE  Restoring'
<1>1. /\ imp.pc = "idle" /\ imp' = [NoImport EXCEPT !.pc = "groups", !.file = file]
      /\ file = exported /\ calm /\ UNCHANGED <<svc, grp, exported, touched>>
  BY DEF Upload, Database
<1>2. WholeFile /\ StillOwn /\ touched = {}
  BY <1>1 DEF RestoreOK, Restoring
<1>3. WholeFile' /\ StillOwn'
  BY <1>1, <1>2, LessIsOwn
<1>4. /\ imp'.pc = "groups" /\ imp'.file = exported /\ imp'.at = 1 /\ imp'.fresh = {}
      /\ imp'.names = [n \in Names |-> None] /\ ~imp'.dead /\ imp'.errors = {} /\ imp'.linkErrors = {}
  BY <1>1 DEF NoImport
<1>5. SeenNames' = {}
  BY <1>1, <1>2, <1>4 DEF SeenNames, WholeFile
<1>6. GroupsFound'
  BY <1>4, <1>5 DEF GroupsFound, Later, InItem, InLinks
<1> QED BY <1>1, <1>2, <1>3, <1>4, <1>6 DEF Restoring, Unharmed

\* What an import that restores knows on its way.
LEMMA OnTheWay ==
    ASSUME IInv, Restoring, imp.pc # "idle"
    PROVE  /\ imp \in Imports /\ imp.file = exported /\ touched = {} /\ WholeFile /\ StillOwn
           /\ Unharmed /\ GroupsFound
BY DEF IInv, TypeOK, Restoring

LEMMA FindGroupRestores ==
    ASSUME IInv, Restoring, FindGroup, IsInjective(exported.groups)
    PROVE  Restoring'
<1> DEFINE name == imp.file.groups[imp.at]
           found == {g \in GroupIds : \/ g \in MyGroups /\ grp[g].name = name
                                      \/ name \in Names /\ g = imp.names[name] /\ g \in imp.fresh}
<1>0. imp.pc = "groups" /\ imp.at <= Len(imp.file.groups) /\ UNCHANGED <<svc, grp, History>>
  BY Zenon DEF FindGroup
<1>1. /\ imp.pc = "groups" /\ imp.at <= Len(imp.file.groups)
      /\ UNCHANGED <<svc, grp, exported, touched>>
      /\ imp \in Imports /\ imp.file = exported /\ touched = {} /\ WholeFile /\ StillOwn
      /\ Unharmed /\ GroupsFound
  BY <1>0, OnTheWay DEF History
<1>2. /\ exported.groups \in Seq(Names) /\ imp.at \in Nat \ {0} /\ imp.at \in DOMAIN exported.groups
      /\ name \in Names /\ name = exported.groups[imp.at]
  BY <1>1 DEF WholeFile, Imports
<1>3. name \notin SeenNames
  BY <1>2 DEF SeenNames, IsInjective
<1>4. imp.names[name] = None
  BY <1>1, <1>2, <1>3 DEF GroupsFound
<1>5. found = {g \in MyGroups : grp[g].name = name}
  <2>1. imp.names[name] \notin imp.fresh
    BY <1>1, <1>4, ImportAssumption DEF Imports
  <2> QED BY <2>1 DEF MyGroups
<1>6. \A g, h \in found : g = h
  BY <1>1, <1>5 DEF StillOwn
<1>7. name # Junk /\ name # None
  BY <1>2, ImportAssumption
<1>8. \/ \E g \in GroupIds : /\ found = {g}
                             /\ imp' = [imp EXCEPT !.at = @ + 1, !.names[name] = g]
      \/ \E g \in GroupIds \ used :
            /\ found = {}
            /\ imp' = [imp EXCEPT !.at = @ + 1, !.names[name] = g, !.fresh = @ \cup {g}]
  BY <1>6, <1>7, Zenon DEF FindGroup
<1>9. WholeFile' /\ StillOwn' /\ MyGroups' = MyGroups
  BY <1>1, LessIsOwn DEF MyGroups
<1>10. \A n \in Names : imp.names[n] \in GroupIds => imp.names[n] \in used /\ imp.names[n] \notin GroupIds \ used
  <2> SUFFICES ASSUME NEW n \in Names, imp.names[n] \in GroupIds PROVE imp.names[n] \in used
    OBVIOUS
  <2>1. GroupFound(n)
    BY <1>1, ImportAssumption DEF GroupsFound
  <2> QED BY <1>1, <2>1 DEF GroupFound, MyGroups, IInv, UsedOK, FreshOK
<1>11. ASSUME NEW g \in GroupIds, imp'.pc = "groups", imp'.file = exported, imp'.at = imp.at + 1,
              imp'.names = [imp.names EXCEPT ![name] = g], imp'.dead = imp.dead,
              imp'.errors = imp.errors, imp'.linkErrors = imp.linkErrors,
              \/ g \in MyGroups \ imp.fresh /\ grp[g].name = name /\ imp'.fresh = imp.fresh
              \/ /\ g \in GroupIds \ used /\ \A h \in MyGroups : grp[h].name # name
                 /\ imp'.fresh = imp.fresh \cup {g}
       PROVE  Restoring'
  <2> HIDE DEF found, name
  <2>2. imp.names \in [Names -> GroupIds \cup {None}]
    BY <1>1 DEF Imports
  <2>3. SeenNames' = SeenNames \cup {name}
    <3>1. \A q \in DOMAIN exported.groups : q < imp.at + 1 <=> q < imp.at \/ q = imp.at
      BY <1>2
    <3> QED BY <1>1, <1>2, <1>11, <3>1 DEF SeenNames
  <2>4. imp'.names[name] = g /\ \A n \in Names \ {name} : imp'.names[n] = imp.names[n]
    BY <1>2, <1>11, <2>2
  <2>5. \A n \in Names \ {name} : imp.names[n] # g
    <3> SUFFICES ASSUME NEW n \in Names \ {name}, imp.names[n] = g PROVE FALSE
      OBVIOUS
    <3>1. g \in MyGroups \ imp.fresh /\ grp[g].name = name
      BY <1>10, <1>11
    <3>2. GroupFound(n)
      BY <1>1, <1>11, ImportAssumption DEF GroupsFound
    <3> QED BY <3>1, <3>2 DEF GroupFound
  <2>6. \A h \in imp'.fresh : grp[h] = None
    <3>1. g \notin used => grp[g] = None
      BY DEF IInv, UsedOK
    <3> QED BY <1>1, <1>11, <3>1 DEF GroupsFound
  <2>7. ASSUME NEW n \in Names
        PROVE  IF n \in SeenNames' THEN GroupFound(n)' ELSE imp'.names[n] = None
    <3>1. CASE n = name
      BY <1>1, <1>9, <1>11, <2>3, <2>4, <3>1 DEF GroupFound
    <3>2. CASE n # name
      <4>1. imp'.names[n] = imp.names[n] /\ (n \in SeenNames' <=> n \in SeenNames)
        BY <2>3, <2>4, <3>2
      <4>2. imp.names[n] # g
        BY <2>5, <3>2
      <4>3. GroupFound(n) => GroupFound(n)'
        BY <1>1, <1>9, <1>11, <4>1, <4>2 DEF GroupFound
      <4> QED BY <1>1, <4>1, <4>3 DEF GroupsFound
    <3> QED BY <3>1, <3>2
  <2>8. ASSUME NEW m \in Names, NEW n \in Names, imp'.names[m] = imp'.names[n]
        PROVE  m = n \/ imp'.names[m] = None
    BY <1>1, <2>4, <2>5, <2>8 DEF GroupsFound
  <2>9. GroupsFound'
    <3>1. imp'.pc # "reload" /\ imp'.pc \notin Later
      BY <1>11 DEF Later, InItem, InLinks
    <3> QED BY <1>1, <2>6, <2>7, <2>8, <3>1 DEF GroupsFound
  <2>10. Unharmed'
    BY <1>1, <1>11 DEF Unharmed
  <2> QED BY <1>1, <1>9, <1>11, <2>9, <2>10 DEF Restoring
<1>12. ASSUME NEW g \in GroupIds, found = {g}, imp' = [imp EXCEPT !.at = @ + 1, !.names[name] = g]
       PROVE  Restoring'
  <2>1. g \in MyGroups /\ grp[g].name = name
    BY <1>5, <1>12
  <2>2. g \notin imp.fresh
    BY <1>1, <2>1 DEF GroupsFound, MyGroups
  <2>3. /\ imp'.pc = "groups" /\ imp'.file = exported /\ imp'.at = imp.at + 1
        /\ imp'.names = [imp.names EXCEPT ![name] = g] /\ imp'.fresh = imp.fresh
        /\ imp'.dead = imp.dead /\ imp'.errors = imp.errors /\ imp'.linkErrors = imp.linkErrors
    BY <1>1, <1>12 DEF Imports
  <2> HIDE DEF found, name
  <2> QED BY <1>11, <2>1, <2>2, <2>3
<1>13. ASSUME NEW g \in GroupIds \ used, found = {},
              imp' = [imp EXCEPT !.at = @ + 1, !.names[name] = g, !.fresh = @ \cup {g}]
       PROVE  Restoring'
  <2>1. /\ imp'.pc = "groups" /\ imp'.file = exported /\ imp'.at = imp.at + 1
        /\ imp'.names = [imp.names EXCEPT ![name] = g] /\ imp'.fresh = imp.fresh \cup {g}
        /\ imp'.dead = imp.dead /\ imp'.errors = imp.errors /\ imp'.linkErrors = imp.linkErrors
    BY <1>1, <1>13 DEF Imports
  <2>2. \A h \in MyGroups : grp[h].name # name
    BY <1>5, <1>13
  <2> HIDE DEF found, name
  <2> QED BY <1>11, <1>13, <2>1, <2>2
<1> HIDE DEF found, name
<1> QED BY <1>8, <1>12, <1>13, Zenon

LEMMA CommitGroupsRestores ==
    ASSUME IInv, Restoring, CommitGroups
    PROVE  Restoring'
<1>0. imp.pc = "groups" /\ imp.at > Len(imp.file.groups) /\ UNCHANGED <<svc, used, History>>
  BY DEF CommitGroups
<1>1. /\ UNCHANGED <<svc, exported, touched>>
      /\ imp \in Imports /\ imp.file = exported /\ touched = {} /\ WholeFile /\ StillOwn
      /\ Unharmed /\ GroupsFound
  BY <1>0, OnTheWay DEF History
<1>2. exported.groups \in Seq(Names) /\ grp \in [GroupIds -> Groups \cup {None}]
  BY <1>1 DEF WholeFile, IInv, TypeOK
<1>3. SeenNames = Range(exported.groups) /\ SeenNames \subseteq Names
  <2>1. \A q \in DOMAIN exported.groups : q < imp.at
    BY <1>0, <1>1, <1>2 DEF Imports
  <2> QED BY <1>2, <2>1 DEF SeenNames, Range
<1>4. \A n \in Names : imp.names[n] \notin GroupIds \ imp.fresh \/ grp[imp.names[n]] # None
  BY <1>0, <1>1, ImportAssumption DEF GroupsFound, GroupFound, MyGroups
<1>5. /\ grp' = [g \in GroupIds |->
                    IF g \in imp.fresh
                      THEN [owner |-> me, name |-> CHOOSE n \in Names : imp.names[n] = g]
                      ELSE grp[g]]
      /\ imp' = [imp EXCEPT !.pc = "reload", !.fresh = {}]
  BY <1>4 DEF CommitGroups
<1>6. /\ imp'.pc = "reload" /\ imp'.file = exported
      /\ imp'.dead = imp.dead /\ imp'.errors = imp.errors /\ imp'.linkErrors = imp.linkErrors
  BY <1>1, <1>5 DEF Imports
<1>7. ASSUME NEW g \in imp.fresh
      PROVE  /\ g \in GroupIds /\ g \in MyGroups' /\ g \notin MyGroups
             /\ grp'[g].name \in Names /\ imp.names[grp'[g].name] = g
  <2>1. g \in GroupIds /\ grp[g] = None
    BY <1>0, <1>1 DEF Imports, GroupsFound
  <2>2. \E n \in Names : imp.names[n] = g
    BY <1>0 DEF IInv, FreshOK
  <2> DEFINE name == CHOOSE n \in Names : imp.names[n] = g
  <2>3. name \in Names /\ imp.names[name] = g
    BY <2>2
  <2>4. grp'[g] = [owner |-> me, name |-> name]
    BY <1>5, <2>1
  <2> HIDE DEF name
  <2>5. grp'[g] # None
    BY <2>3, <2>4, ImportAssumption DEF Groups
  <2> QED BY <2>1, <2>3, <2>4, <2>5 DEF MyGroups
<1>8. \A g \in GroupIds \ imp.fresh : grp'[g] = grp[g]
  BY <1>5
<1>9. MyGroups' = MyGroups \cup imp.fresh
  BY <1>7, <1>8 DEF MyGroups
<1>10. ASSUME NEW g \in imp.fresh, NEW h \in MyGroups PROVE grp'[g].name # grp'[h].name
  <2>1. grp'[h] = grp[h] /\ h \in GroupIds
    BY <1>7, <1>8, <1>10 DEF MyGroups
  <2>2. GroupFound(grp'[g].name)
    BY <1>0, <1>1, <1>7, ImportAssumption DEF GroupsFound
  <2> QED BY <1>7, <2>1, <2>2 DEF GroupFound
<1>11. \A g, h \in MyGroups' : grp'[g].name = grp'[h].name => g = h
  <2> SUFFICES ASSUME NEW g \in MyGroups', NEW h \in MyGroups', grp'[g].name = grp'[h].name
               PROVE  g = h
    OBVIOUS
  <2>1. CASE g \in imp.fresh /\ h \in imp.fresh
    BY <1>7, <2>1
  <2>2. CASE g \in MyGroups /\ h \in MyGroups
    <3>1. grp'[g] = grp[g] /\ grp'[h] = grp[h]
      BY <1>7, <1>8, <2>2 DEF MyGroups
    <3> QED BY <1>1, <2>2, <3>1 DEF StillOwn
  <2> QED BY <1>9, <1>10, <2>1, <2>2
<1>12. WholeFile' /\ StillOwn'
  <2>1. Mine' = Mine /\ \A s : Known(s)' = Known(s)
    BY <1>1 DEF Mine, Known
  <2>2. \A k \in DOMAIN exported.services : Known(exported.services[k].slug)' \subseteq Mine'
    BY <1>1, <2>1 DEF StillOwn, Known
  <2>3. \A i \in Mine' : \E k \in DOMAIN exported.services :
           /\ svc'[i].slug = exported.services[k].slug
           /\ exported.services[k].fb = None => svc'[i].fb \notin Mine'
    BY <1>1, <2>1 DEF StillOwn
  <2> QED BY <1>1, <1>11, <2>2, <2>3 DEF StillOwn, WholeFile
<1>13. \A n \in Range(exported.groups) : \E g \in MyGroups' : grp'[g].name = n
  <2> SUFFICES ASSUME NEW n \in Range(exported.groups) PROVE \E g \in MyGroups' : grp'[g].name = n
    OBVIOUS
  <2>1. n \in Names /\ GroupFound(n)
    BY <1>0, <1>1, <1>3 DEF GroupsFound
  <2>2. CASE imp.names[n] \in MyGroups \ imp.fresh /\ grp[imp.names[n]].name = n
    BY <1>8, <1>9, <2>2 DEF MyGroups
  <2>3. CASE imp.names[n] \in imp.fresh
    <3>1. imp.names[grp'[imp.names[n]].name] = imp.names[n] /\ grp'[imp.names[n]].name \in Names
      BY <1>7, <2>3
    <3>2. imp.names[n] # None
      BY <1>7, <2>3, ImportAssumption
    <3>3. grp'[imp.names[n]].name = n
      BY <1>0, <1>1, <2>1, <3>1, <3>2 DEF GroupsFound
    <3> QED BY <1>9, <2>3, <3>3
  <2> QED BY <2>1, <2>2, <2>3 DEF GroupFound
<1>14. GroupsFound'
  BY <1>1, <1>6, <1>13 DEF GroupsFound, Later, InItem, InLinks
<1> QED BY <1>1, <1>6, <1>12, <1>14 DEF Restoring, Unharmed

LEMMA LoadGroupsRestores ==
    ASSUME IInv, Restoring, LoadGroups
    PROVE  Restoring'
<1>0. imp.pc = "reload" /\ UNCHANGED <<Database, History>>
  BY DEF LoadGroups
<1>1. /\ UNCHANGED <<svc, grp, exported, touched>>
      /\ imp \in Imports /\ imp.file = exported /\ touched = {} /\ WholeFile /\ StillOwn
      /\ Unharmed /\ GroupsFound
  BY <1>0, OnTheWay DEF Database, History
<1>2. exported.services # NotAList
  BY <1>1, ImportAssumption DEF WholeFile, Items
<1>3. PICK names \in [Names -> GroupIds \cup {None}] :
         /\ \A n \in Names : LET there == {g \in MyGroups : grp[g].name = n}
                             IN IF there = {} THEN names[n] = imp.names[n] ELSE names[n] \in there
         /\ imp' = [imp EXCEPT !.pc = IF imp.file.services = NotAList THEN "refused" ELSE "items",
                               !.names = names, !.at = 1]
  BY Zenon DEF LoadGroups
<1>4. /\ imp'.pc = "items" /\ imp'.file = exported /\ imp'.names = names
      /\ imp'.dead = imp.dead /\ imp'.errors = imp.errors /\ imp'.linkErrors = imp.linkErrors
  BY <1>1, <1>2, <1>3 DEF Imports
<1>5. WholeFile' /\ StillOwn' /\ MyGroups' = MyGroups
  BY <1>1, LessIsOwn DEF MyGroups
<1>6. ASSUME NEW n \in Range(exported.groups) PROVE names[n] \in MyGroups /\ grp[names[n]].name = n
  <2>1. n \in Names
    BY <1>1, <1>6 DEF WholeFile, Range
  <2>2. \E g \in MyGroups : grp[g].name = n
    BY <1>0, <1>1, <1>6 DEF GroupsFound
  <2> QED BY <1>3, <2>1, <2>2
<1>7. GroupsFound'
  BY <1>1, <1>4, <1>5, <1>6 DEF GroupsFound, Later, InItem, InLinks
<1> QED BY <1>1, <1>4, <1>5, <1>7 DEF Restoring, Unharmed

\* An item of the file that was exported.
LEMMA SavedItem ==
    ASSUME IInv, Restoring, imp.pc \in Later, NEW k \in DOMAIN exported.services
    PROVE  /\ Item(k) = exported.services[k] /\ Item(k) \in Objects /\ Item(k) # Junk
           /\ Item(k).slug \in Slugs /\ Item(k).slug # None
           /\ Item(k).data \in Data /\ Item(k).data \notin {Partial, Bad, Poison}
           /\ IF Item(k).group = None THEN GroupOf(Item(k)) = None
              ELSE GroupOf(Item(k)) \in MyGroups /\ grp[GroupOf(Item(k))].name = Item(k).group
           /\ GroupOf(Item(k)) # None => grp[GroupOf(Item(k))] # None
<1>1. /\ imp.file = exported /\ WholeFile /\ GroupsFound
  BY OnTheWay DEF Later, InItem, InLinks
<1>2. Item(k) = exported.services[k] /\ Item(k) \in Objects /\ Item(k) # Junk
  BY <1>1, ImportAssumption DEF Item, WholeFile
<1>3. /\ Item(k).slug \in Slugs /\ Item(k).slug # None
      /\ Item(k).data \in Data /\ Item(k).data \notin {Partial, Bad, Poison}
      /\ Item(k).group \in Range(exported.groups) \cup {None}
  BY <1>1, <1>2, ImportAssumption DEF WholeFile
<1>4. IF Item(k).group = None THEN GroupOf(Item(k)) = None
      ELSE GroupOf(Item(k)) \in MyGroups /\ grp[GroupOf(Item(k))].name = Item(k).group
  BY <1>1, <1>3 DEF GroupOf, GroupsFound
<1>5. GroupOf(Item(k)) # None => grp[GroupOf(Item(k))] # None
  BY <1>4 DEF MyGroups
<1> QED BY <1>2, <1>3, <1>4, <1>5

\* A step of the two passes after which the user has what he had, and perhaps more, and
\* no error is noted.
LEMMA GoesOn ==
    ASSUME IInv, Restoring, imp.pc \in Later, UNCHANGED <<grp, exported, touched>>,
           StillOwn',
           imp'.pc \in Later, imp'.file = imp.file, imp'.names = imp.names,
           imp'.dead = imp.dead, imp'.errors = imp.errors, imp'.linkErrors = imp.linkErrors,
           imp'.pc = "insert" => Known(Item(imp.at).slug)' = {}
    PROVE  Restoring'
<1>1. /\ imp.file = exported /\ touched = {} /\ WholeFile /\ Unharmed /\ GroupsFound
  BY OnTheWay DEF Later, InItem, InLinks
<1>2. WholeFile'
  BY <1>1, Zenon DEF WholeFile
<1>3. MyGroups' = MyGroups
  BY DEF MyGroups
<1>4. GroupsFound'
  BY <1>1, <1>3 DEF GroupsFound, Later, InItem, InLinks
<1>5. Unharmed'
  BY <1>1 DEF Unharmed, Later, InItem, InLinks
<1> QED BY <1>1, <1>2, <1>4, <1>5 DEF Restoring

LEMMA OwnUnwritten ==
    ASSUME StillOwn, WholeFile, UNCHANGED <<svc, grp, exported>>
    PROVE  StillOwn'
BY LessIsOwn

\* What is written keeps its slug, and has a link where the file has one.
LEMMA OwnWritten ==
    ASSUME StillOwn, UNCHANGED <<grp, exported>>,
           \A i \in Ids : svc'[i] # None <=> svc[i] # None,
           \A i \in Ids : svc[i] # None =>
              /\ svc'[i].slug = svc[i].slug /\ svc'[i].owner = svc[i].owner
              /\ \/ svc'[i].fb = svc[i].fb
                 \/ \E k \in DOMAIN exported.services : /\ svc[i].slug = exported.services[k].slug
                                                        /\ exported.services[k].fb # None
    PROVE  StillOwn'
<1>1. Mine' = Mine /\ MyGroups' = MyGroups /\ \A s : Known(s)' = Known(s)
  BY DEF Mine, MyGroups, Known
<1>2. ASSUME NEW i \in Mine'
      PROVE  \E k \in DOMAIN exported.services :
                /\ svc'[i].slug = exported.services[k].slug
                /\ exported.services[k].fb = None => svc'[i].fb \notin Mine'
  <2>1. /\ svc'[i].slug = svc[i].slug
        /\ \/ svc'[i].fb = svc[i].fb
           \/ \E k \in DOMAIN exported.services : /\ svc[i].slug = exported.services[k].slug
                                                  /\ exported.services[k].fb # None
    BY DEF Mine
  <2>2. PICK k \in DOMAIN exported.services :
           /\ svc[i].slug = exported.services[k].slug
           /\ exported.services[k].fb = None => svc[i].fb \notin Mine
    BY <1>1 DEF StillOwn
  <2> QED BY <1>1, <2>1, <2>2
<1>3. \A k \in DOMAIN exported.services : Known(exported.services[k].slug)' \subseteq Mine'
  BY <1>1 DEF StillOwn, Known
<1>4. \A g, h \in MyGroups' : grp'[g].name = grp'[h].name => g = h
  BY <1>1 DEF StillOwn
<1> QED BY <1>2, <1>3, <1>4 DEF StillOwn

\* No error: the next item.
LEMMA NextItemGoesOn ==
    ASSUME IInv, Restoring, imp.pc \in {"items"} \cup InItem, NextItem({}, FALSE),
           UNCHANGED <<Database, History>>
    PROVE  Restoring'
<1>1. /\ imp \in Imports /\ WholeFile /\ StillOwn /\ UNCHANGED <<svc, grp, exported, touched>>
  BY OnTheWay DEF Database, History, InItem
<1>2. /\ imp'.pc = "items" /\ imp'.file = imp.file /\ imp'.names = imp.names
      /\ imp'.errors = imp.errors /\ imp'.linkErrors = imp.linkErrors
  BY <1>1 DEF NextItem, Imports
<1>3. imp'.dead = imp.dead
  BY <1>1, Zenon DEF NextItem, Imports
<1> QED BY <1>1, <1>2, <1>3, OwnUnwritten, GoesOn DEF Later

LEMMA NextLinkGoesOn ==
    ASSUME IInv, Restoring, imp.pc \in InLinks, NEW k, NextLink(k, {}, FALSE),
           StillOwn', UNCHANGED <<grp, exported, touched>>
    PROVE  Restoring'
<1>1. imp \in Imports
  BY DEF IInv, TypeOK
<1>2. /\ imp'.pc = "links" /\ imp'.file = imp.file /\ imp'.names = imp.names
      /\ imp'.errors = imp.errors /\ imp'.linkErrors = imp.linkErrors
  BY <1>1 DEF NextLink, Imports
<1>3. imp'.dead = imp.dead
  BY <1>1, Zenon DEF NextLink, Imports
<1> QED BY <1>2, <1>3, GoesOn DEF Later, InLinks

LEMMA ItemReached ==
    ASSUME IInv, Restoring, imp.pc \in {"items"} \cup InItem,
           imp.pc = "items" => imp.at <= Len(imp.file.services)
    PROVE  imp.at \in DOMAIN exported.services /\ imp.file = exported
<1>1. imp \in Imports /\ imp.file = exported /\ imp.file.services \in Seq(Items)
  BY OnTheWay DEF InItem, IInv, FileOK
<1>2. imp.pc \in InItem => imp.at \in DOMAIN imp.file.services
  BY DEF IInv, FileOK
<1> QED BY <1>1, <1>2 DEF Imports

LEMMA LookupRestores == ASSUME IInv, Restoring, Lookup PROVE Restoring'
<1> DEFINE item == Item(imp.at)
<1>1. imp.pc = "items" /\ imp.at <= Len(imp.file.services) /\ UNCHANGED <<Database, History>>
  BY Zenon DEF Lookup
<1>2. /\ imp \in Imports /\ WholeFile /\ StillOwn /\ UNCHANGED <<svc, grp, exported, touched>>
  BY <1>1, OnTheWay DEF Database, History
<1>3. imp.at \in DOMAIN exported.services
  BY <1>1, ItemReached
<1>4. item = exported.services[imp.at] /\ item.data \notin {Bad, Partial}
  BY <1>1, <1>3, SavedItem DEF Later
<1>5. \A i \in Known(item.slug) : svc[i].owner = me
  BY <1>2, <1>3, <1>4 DEF StillOwn, Mine
<1>6. \/ \E i \in Known(item.slug) : imp' = [imp EXCEPT !.pc = "reread", !.row = i]
      \/ Known(item.slug) = {} /\ imp' = [imp EXCEPT !.pc = "insert"]
  <2>1. \/ \E i \in Known(item.slug) :
              IF svc[i].owner # me \/ item.data = Bad THEN NextItem({imp.at}, FALSE)
              ELSE imp' = [imp EXCEPT !.pc = "reread", !.row = i]
        \/ /\ Known(item.slug) = {}
           /\ IF item.data \in {Bad, Partial} THEN NextItem({imp.at}, FALSE)
              ELSE imp' = [imp EXCEPT !.pc = "insert"]
    BY Zenon DEF Lookup
  <2>2. item.data # Bad
    BY <1>4
  <2> HIDE DEF item
  <2> QED BY <1>4, <1>5, <2>1, <2>2, Zenon
<1>7. /\ imp'.file = imp.file /\ imp'.names = imp.names
      /\ imp'.dead = imp.dead /\ imp'.errors = imp.errors /\ imp'.linkErrors = imp.linkErrors
      /\ imp'.pc = "reread" \/ (imp'.pc = "insert" /\ imp'.at = imp.at /\ Known(item.slug) = {})
  <2>1. ASSUME NEW i, imp' = [imp EXCEPT !.pc = "reread", !.row = i]
        PROVE  /\ imp'.file = imp.file /\ imp'.names = imp.names
               /\ imp'.dead = imp.dead /\ imp'.errors = imp.errors /\ imp'.linkErrors = imp.linkErrors
               /\ imp'.pc = "reread"
    BY <1>2, <2>1 DEF Imports
  <2>2. ASSUME imp' = [imp EXCEPT !.pc = "insert"]
        PROVE  /\ imp'.file = imp.file /\ imp'.names = imp.names
               /\ imp'.dead = imp.dead /\ imp'.errors = imp.errors /\ imp'.linkErrors = imp.linkErrors
               /\ imp'.pc = "insert" /\ imp'.at = imp.at
    BY <1>2, <2>2 DEF Imports
  <2> HIDE DEF item
  <2>3. CASE Known(item.slug) = {} /\ imp' = [imp EXCEPT !.pc = "insert"]
    BY <2>2, <2>3
  <2>4. CASE \E i \in Known(item.slug) : imp' = [imp EXCEPT !.pc = "reread", !.row = i]
    BY <2>1, <2>4, Zenon
  <2> QED BY <1>6, <2>3, <2>4, Zenon
<1>8. imp'.pc = "insert" => Known(Item(imp.at).slug)' = {}
  BY <1>2, <1>7 DEF Known, Item
<1> QED BY <1>1, <1>2, <1>7, <1>8, OwnUnwritten, GoesOn DEF Later, InItem

\* The row in hand is the one that the item names.
LEMMA RowThere ==
    ASSUME IInv, AccountOK, Restoring, imp.pc \in {"reread", "update", "refresh", "link"}
    PROVE  /\ imp.row \in Ids /\ svc[imp.row] \in Rows /\ svc[imp.row] # None
           /\ svc[imp.row].slug = Item(imp.at).slug /\ svc[imp.row].owner = me
           /\ imp.row \in Known(Item(imp.at).slug)
<1>1. imp.row \in Ids /\ touched = {}
  BY OnTheWay DEF IInv, RowOK
<1>2. imp.row \in Known(Item(imp.at).slug)
  BY <1>1 DEF AccountOK, HandOK
<1> QED BY <1>1, <1>2 DEF Known, IInv, RowOK, TypeOK

LEMMA RereadRestores == ASSUME IInv, AccountOK, Restoring, Reread PROVE Restoring'
<1>1. /\ imp.pc = "reread" /\ UNCHANGED <<Database, History>>
      /\ imp' = [imp EXCEPT !.pc = "update"]
  BY RowThere DEF Reread
<1>2. /\ imp \in Imports /\ WholeFile /\ StillOwn /\ UNCHANGED <<svc, grp, exported, touched>>
  BY <1>1, OnTheWay DEF Database, History
<1>3. /\ imp'.pc = "update" /\ imp'.file = imp.file /\ imp'.names = imp.names
      /\ imp'.dead = imp.dead /\ imp'.errors = imp.errors /\ imp'.linkErrors = imp.linkErrors
  BY <1>1, <1>2 DEF Imports
<1> QED BY <1>1, <1>2, <1>3, OwnUnwritten, GoesOn DEF Later, InItem

LEMMA RefreshRestores == ASSUME IInv, AccountOK, Restoring, Refresh PROVE Restoring'
<1>1. imp.pc = "refresh" /\ UNCHANGED <<Database, History>> /\ NextItem({}, FALSE)
  BY RowThere DEF Refresh
<1> QED BY <1>1, NextItemGoesOn DEF InItem

LEMMA UpdateRestores == ASSUME IInv, AccountOK, Restoring, Update PROVE Restoring'
<1> DEFINE item == Item(imp.at)
           r == imp.row
           now == svc[r]
<1>1. imp.pc = "update" /\ UNCHANGED <<grp, used, History>>
  BY Zenon DEF Update
<1>2. /\ imp \in Imports /\ WholeFile /\ StillOwn /\ UNCHANGED <<exported, touched>> /\ touched = {}
      /\ svc \in [Ids -> Rows \cup {None}]
  BY <1>1, OnTheWay DEF History, IInv, TypeOK
<1>3. imp.at \in DOMAIN exported.services
  BY <1>1, ItemReached DEF InItem
<1>4. /\ item.data \notin {Poison, Partial} /\ item.data \in Data
      /\ GroupOf(item) \in GroupIds \cup {None}
      /\ GroupOf(item) # None => grp[GroupOf(item)] # None
  BY <1>1, <1>3, SavedItem, ItemInHand DEF Later, InItem
<1>5. now \in Rows /\ now # None /\ r \in Ids
  BY <1>1, RowThere
<1>6. svc' = [svc EXCEPT ![r].group = GroupOf(item), ![r].data = item.data]
      /\ imp' = [imp EXCEPT !.pc = "refresh"]
  <2>1. \E group \in Flushed(now.group, GroupOf(item), now.slug \in touched),
           data \in IF item.data = Partial THEN {now.data}
                    ELSE Flushed(now.data, item.data, now.slug \in touched) :
           IF FkOk(now.group, group, grp)
             THEN /\ svc' = [svc EXCEPT ![r].group = group, ![r].data = data]
                  /\ imp' = [imp EXCEPT !.pc = "refresh"]
             ELSE NextItem({imp.at}, TRUE) /\ UNCHANGED svc
    <3>1. now # None /\ item.data # Poison
      BY <1>4, <1>5
    <3> QED BY <3>1, Zenon DEF Update
  <2>2. /\ Flushed(now.group, GroupOf(item), now.slug \in touched) = {GroupOf(item)}
        /\ Flushed(now.data, item.data, now.slug \in touched) = {item.data}
    BY <1>2 DEF Flushed
  <2>3. FkOk(now.group, GroupOf(item), grp)
    BY <1>4 DEF FkOk
  <2> HIDE DEF item, r, now
  <2> QED BY <1>4, <2>1, <2>2, <2>3
<1>7. /\ imp'.pc = "refresh" /\ imp'.file = imp.file /\ imp'.names = imp.names
      /\ imp'.dead = imp.dead /\ imp'.errors = imp.errors /\ imp'.linkErrors = imp.linkErrors
  BY <1>2, <1>6 DEF Imports
<1>8. /\ svc'[r] = [now EXCEPT !.group = GroupOf(item), !.data = item.data]
      /\ \A i \in Ids \ {r} : svc'[i] = svc[i]
  BY <1>2, <1>5, <1>6
<1>9. /\ svc'[r] \in Rows /\ svc'[r].slug = now.slug /\ svc'[r].owner = now.owner
      /\ svc'[r].fb = now.fb
  <2> HIDE DEF item, r, now
  <2> QED BY <1>4, <1>5, <1>8 DEF Rows
<1>10. svc'[r] # None
  BY <1>9, ImportAssumption
<1>11. StillOwn'
  <2>1. \A i \in Ids : /\ svc'[i] # None <=> svc[i] # None
                       /\ svc'[i].slug = svc[i].slug /\ svc'[i].owner = svc[i].owner
                       /\ svc'[i].fb = svc[i].fb
    BY <1>5, <1>8, <1>9, <1>10
  <2> QED BY <1>1, <1>2, <2>1, OwnWritten
<1> QED BY <1>1, <1>2, <1>7, <1>11, GoesOn DEF Later, InItem

LEMMA InsertRestores == ASSUME IInv, Restoring, Insert PROVE Restoring'
<1> DEFINE item == Item(imp.at)
           group == GroupOf(item)
<1>1. imp.pc = "insert" /\ UNCHANGED <<grp, History>>
  BY Zenon DEF Insert
<1>2. /\ imp \in Imports /\ WholeFile /\ StillOwn /\ UNCHANGED <<exported, touched>>
      /\ Known(item.slug) = {} /\ svc \in [Ids -> Rows \cup {None}]
  BY <1>1, OnTheWay DEF History, IInv, TypeOK, Unharmed
<1>3. imp.at \in DOMAIN exported.services
  BY <1>1, ItemReached DEF InItem
<1>4. /\ item.data # Poison /\ item.data \in Data /\ item.slug \in Slugs
      /\ group \in GroupIds \cup {None} /\ item = exported.services[imp.at]
  BY <1>1, <1>3, SavedItem, ItemInHand DEF Later, InItem
<1>5. FkOk(None, group, grp)
  BY <1>1, <1>3, SavedItem DEF Later, InItem, FkOk
<1> DEFINE row == [owner |-> me, slug |-> item.slug, group |-> group, data |-> item.data, fb |-> None]
<1>6. PICK i \in Ids \ used : svc' = [svc EXCEPT ![i] = row] /\ imp' = [imp EXCEPT !.pc = "refresh", !.row = i]
  <2>1. Known(item.slug) = {} /\ FkOk(None, group, grp) /\ item.data # Poison
    BY <1>2, <1>4, <1>5
  <2> QED BY <2>1, Zenon DEF Insert
<1>7. /\ imp'.pc = "refresh" /\ imp'.file = imp.file /\ imp'.names = imp.names
      /\ imp'.dead = imp.dead /\ imp'.errors = imp.errors /\ imp'.linkErrors = imp.linkErrors
  BY <1>2, <1>6 DEF Imports
<1>8. row # None /\ row.owner = me /\ row.slug = item.slug /\ row.fb = None
  <2>1. row \in Rows
    BY <1>4, ImportAssumption DEF Rows
  <2> QED BY <2>1, ImportAssumption
<1>9. svc[i] = None /\ svc'[i] = row /\ \A j \in Ids \ {i} : svc'[j] = svc[j]
  BY <1>2, <1>6 DEF IInv, UsedOK
<1> HIDE DEF row, item
<1>10. Mine' = Mine \cup {i} /\ MyGroups' = MyGroups
  BY <1>1, <1>8, <1>9 DEF Mine, MyGroups
<1>11. \A s : Known(s)' \subseteq Known(s) \cup {i}
  BY <1>9 DEF Known
<1>12. ASSUME NEW j \in Mine'
       PROVE  \E k \in DOMAIN exported.services :
                 /\ svc'[j].slug = exported.services[k].slug
                 /\ exported.services[k].fb = None => svc'[j].fb \notin Mine'
  <2>1. CASE j = i
    <3>1. None \notin Mine'
      BY ImportAssumption DEF Mine
    <3> QED BY <1>3, <1>4, <1>8, <1>9, <2>1, <3>1
  <2>2. CASE j # i
    <3>1. j \in Mine /\ svc'[j] = svc[j]
      BY <1>9, <1>10, <2>2 DEF Mine
    <3>2. svc[j].fb # i
      BY <1>9, <3>1, ImportAssumption DEF IInv, TypeOK, Sound, Mine
    <3>3. PICK k \in DOMAIN exported.services :
             /\ svc[j].slug = exported.services[k].slug
             /\ exported.services[k].fb = None => svc[j].fb \notin Mine
      BY <1>2, <3>1 DEF StillOwn
    <3> QED BY <1>10, <3>1, <3>2, <3>3
  <2> QED BY <2>1, <2>2
<1>13. \A k \in DOMAIN exported.services : Known(exported.services[k].slug)' \subseteq Mine'
  BY <1>2, <1>10, <1>11 DEF StillOwn, Known
<1>14. \A g, h \in MyGroups' : grp'[g].name = grp'[h].name => g = h
  BY <1>1, <1>2, <1>10 DEF StillOwn
<1>15. StillOwn'
  BY <1>2, <1>12, <1>13, <1>14 DEF StillOwn
<1> QED BY <1>1, <1>2, <1>7, <1>15, GoesOn DEF Later, InItem

\* What the items brought back, the links find.
LEMMA PlacedAll ==
    ASSUME IInv, AccountOK, Restoring, imp.pc \in {"done"} \cup InLinks,
           NEW k \in DOMAIN exported.services
    PROVE  Final(k) /\ \E i \in Ids : Placed(k, i) /\ (imp.pc = "done" => Linked(k, i))
<1>1. imp.file = exported /\ touched = {} /\ WholeFile /\ Unharmed
  BY OnTheWay DEF InLinks
<1>2. Past = DOMAIN exported.services
  BY <1>1 DEF Past, Unharmed, InItem, InLinks
<1>3. \A j \in DOMAIN exported.services : Item(j) = exported.services[j] /\ j \in Nat
  BY <1>1 DEF Item, WholeFile
<1>4. Final(k)
  <2> SUFFICES ASSUME NEW j \in Past, j > k PROVE Item(j).slug # Item(k).slug
    BY DEF Final
  <2>1. j \in DOMAIN exported.services /\ j # k
    BY <1>2, <1>3
  <2> QED BY <1>1, <1>3, <2>1 DEF WholeFile
<1>5. Item(k).slug \notin touched
  BY <1>1
<1> QED BY <1>2, <1>4, <1>5 DEF AccountOK, PlacedOK

LEMMA FindServiceRestores ==
    ASSUME IInv, Restoring, imp.pc = "links", NEW k \in Links, FindService(k)
    PROVE  Restoring'
<1>1. /\ imp \in Imports /\ WholeFile /\ StillOwn /\ Unharmed /\ UNCHANGED <<svc, grp, exported, touched>>
  BY OnTheWay DEF FindService, Database, History
<1> DEFINE row == IF Known(Item(k).slug) \cap Mine = {} THEN None
                  ELSE CHOOSE i \in Known(Item(k).slug) \cap Mine : TRUE
<1>2. imp' = [imp EXCEPT !.pc = "target", !.at = k, !.row = row]
  <2>1. ~imp.dead
    BY <1>1 DEF Unharmed
  <2> QED BY <2>1, Zenon DEF FindService
<1> HIDE DEF row
<1>3. /\ imp'.pc = "target" /\ imp'.file = imp.file /\ imp'.names = imp.names
      /\ imp'.dead = imp.dead /\ imp'.errors = imp.errors /\ imp'.linkErrors = imp.linkErrors
  BY <1>1, <1>2 DEF Imports
<1> QED BY <1>1, <1>3, OwnUnwritten, GoesOn DEF Later, InLinks

LEMMA FindTargetRestores == ASSUME IInv, Restoring, FindTarget PROVE Restoring'
<1>0. imp.pc = "target" /\ UNCHANGED <<Database, History>>
  BY Zenon DEF FindTarget
<1>1. /\ imp \in Imports /\ WholeFile /\ StillOwn /\ UNCHANGED <<svc, grp, exported, touched>>
  BY <1>0, OnTheWay DEF Database, History
<1>2. CASE NextLink(imp.at, {}, FALSE)
  BY <1>0, <1>1, <1>2, OwnUnwritten, NextLinkGoesOn DEF InLinks
<1>3. ASSUME NEW f, imp' = [imp EXCEPT !.pc = "link", !.target = f] PROVE Restoring'
  <2>1. /\ imp'.pc = "link" /\ imp'.file = imp.file /\ imp'.names = imp.names
        /\ imp'.dead = imp.dead /\ imp'.errors = imp.errors /\ imp'.linkErrors = imp.linkErrors
    BY <1>1, <1>3 DEF Imports
  <2> QED BY <1>0, <1>1, <2>1, OwnUnwritten, GoesOn DEF Later, InLinks
<1> QED BY <1>2, <1>3, Zenon DEF FindTarget

LEMMA CommitLinkRestores == ASSUME IInv, AccountOK, Restoring, CommitLink PROVE Restoring'
<1> DEFINE k == imp.at
           r == imp.row
           now == svc[r]
<1>1. imp.pc = "link" /\ UNCHANGED <<grp, used, History>>
  BY Zenon DEF CommitLink
<1>2. /\ imp \in Imports /\ imp.file = exported /\ WholeFile /\ StillOwn
      /\ UNCHANGED <<exported, touched>> /\ touched = {} /\ svc \in [Ids -> Rows \cup {None}]
  BY <1>1, OnTheWay DEF History, IInv, TypeOK
<1>3. now \in Rows /\ now # None /\ r \in Ids /\ now.slug = Item(k).slug
  BY <1>1, RowThere
<1>4. /\ k \in DOMAIN exported.services /\ Item(k) = exported.services[k]
      /\ imp.target \in Known(Item(k).fb)
  BY <1>1, <1>2 DEF AccountOK, HandOK, Item
<1>5. imp.target \in Ids /\ svc[imp.target] # None /\ Item(k).fb # None
  BY <1>4, ImportAssumption DEF Known, IInv, TypeOK, Rows
<1>6. svc' = [svc EXCEPT ![r].fb = imp.target] /\ NextLink(k, {}, FALSE)
  <2>1. \E fb \in Flushed(now.fb, imp.target, now.slug \in touched) :
           IF FkOk(now.fb, fb, svc)
             THEN svc' = [svc EXCEPT ![r].fb = fb] /\ NextLink(k, {}, FALSE)
             ELSE NextLink(k, {k}, TRUE) /\ UNCHANGED svc
    BY <1>3, Zenon DEF CommitLink
  <2>2. Flushed(now.fb, imp.target, now.slug \in touched) = {imp.target}
    BY <1>2 DEF Flushed
  <2>3. FkOk(now.fb, imp.target, svc)
    BY <1>5 DEF FkOk
  <2> HIDE DEF r, now, k
  <2> QED BY <2>1, <2>2, <2>3
<1>7. svc'[r] = [now EXCEPT !.fb = imp.target] /\ \A i \in Ids \ {r} : svc'[i] = svc[i]
  BY <1>2, <1>3, <1>6
<1>8. svc'[r] \in Rows /\ svc'[r].slug = now.slug /\ svc'[r].owner = now.owner
  <2> HIDE DEF r, now
  <2> QED BY <1>3, <1>5, <1>7 DEF Rows
<1>9. svc'[r] # None
  BY <1>8, ImportAssumption
<1>10. StillOwn'
  <2>1. \A i \in Ids : svc'[i] # None <=> svc[i] # None
    BY <1>3, <1>7, <1>9
  <2>2. \A i \in Ids : svc[i] # None =>
           /\ svc'[i].slug = svc[i].slug /\ svc'[i].owner = svc[i].owner
           /\ \/ svc'[i].fb = svc[i].fb
              \/ \E j \in DOMAIN exported.services : /\ svc[i].slug = exported.services[j].slug
                                                     /\ exported.services[j].fb # None
    <3> HIDE DEF k
    <3> QED BY <1>3, <1>4, <1>5, <1>7, <1>8
  <2> QED BY <1>1, <1>2, <2>1, <2>2, OwnWritten
<1> QED BY <1>1, <1>2, <1>6, <1>10, NextLinkGoesOn DEF InLinks

\* The end of a pass.
LEMMA PassRestores == ASSUME IInv, Restoring, ItemsDone \/ Finish PROVE Restoring'
<1>1. /\ imp.pc \in {"items", "links"} /\ UNCHANGED <<Database, History>>
      /\ \/ imp' = [imp EXCEPT !.pc = "links", !.at = 1]
         \/ imp' = [imp EXCEPT !.pc = "done"]
  BY DEF ItemsDone, Finish
<1>2. /\ imp \in Imports /\ WholeFile /\ StillOwn /\ UNCHANGED <<svc, grp, exported, touched>>
  BY <1>1, OnTheWay DEF Database, History
<1>3. /\ imp'.pc \in {"links", "done"} /\ imp'.file = imp.file /\ imp'.names = imp.names
      /\ imp'.dead = imp.dead /\ imp'.errors = imp.errors /\ imp'.linkErrors = imp.linkErrors
  <2>1. CASE imp' = [imp EXCEPT !.pc = "links", !.at = 1]
    BY <1>2, <2>1 DEF Imports
  <2>2. CASE imp' = [imp EXCEPT !.pc = "done"]
    BY <1>2, <2>2 DEF Imports
  <2> QED BY <1>1, <2>1, <2>2
<1> QED BY <1>1, <1>2, <1>3, OwnUnwritten, GoesOn DEF Later, InLinks

\* Every item is one that can be looked up.
LEMMA NoneSkipped == ASSUME IInv, Restoring, JunkItem \/ SkipItem PROVE FALSE
<1>1. imp.pc = "items" /\ imp.at <= Len(imp.file.services)
  BY DEF JunkItem, SkipItem
<1>2. imp.at \in DOMAIN exported.services /\ ~imp.dead
  BY <1>1, ItemReached, OnTheWay DEF Unharmed
<1>3. Item(imp.at) # Junk /\ Item(imp.at).slug # None
  BY <1>1, <1>2, SavedItem DEF Later
<1> QED BY <1>2, <1>3 DEF JunkItem, SkipItem

LEMMA ImportRestores ==
    ASSUME IInv, AccountOK, Restoring, IsInjective(exported.groups), Import, imp.pc # "idle"
    PROVE  Restoring'
<1>1. \A file : ~Upload(file)
  BY DEF Upload
<1> QED BY <1>1, FindGroupRestores, CommitGroupsRestores, LoadGroupsRestores, NoneSkipped,
           LookupRestores, RereadRestores, UpdateRestores, InsertRestores, RefreshRestores,
           PassRestores, FindServiceRestores, FindTargetRestores, CommitLinkRestores
        DEF Import

\* A step of the import keeps the file, and is not back at the start.
LEMMA ImportKeepsFile ==
    ASSUME IInv, Import, imp.pc # "idle"
    PROVE  UNCHANGED <<exported, calm, touched>> /\ imp'.pc # "idle" /\ imp'.file = imp.file
<1>1. imp \in Imports
  BY DEF IInv, TypeOK
<1>2. ASSUME NEW e, NEW d, NextItem(e, d) PROVE imp'.pc # "idle" /\ imp'.file = imp.file
  BY <1>1, <1>2 DEF NextItem, Imports
<1>3. ASSUME NEW k, NEW e, NEW d, NextLink(k, e, d) PROVE imp'.pc # "idle" /\ imp'.file = imp.file
  BY <1>1, <1>3 DEF NextLink, Imports
<1>4. Abort => imp'.pc # "idle" /\ imp'.file = imp.file
  BY <1>1 DEF Abort, Imports
<1>5. CASE FindGroup
  <2>1. UNCHANGED <<exported, calm, touched>> /\ imp.pc # "idle"
    BY <1>5, Zenon DEF FindGroup, History
  <2>2. ASSUME NEW n, NEW g,
               imp' = [imp EXCEPT !.at = @ + 1, !.names[n] = g, !.fresh = @ \cup {g}]
        PROVE  imp'.pc = imp.pc /\ imp'.file = imp.file
    BY <1>1, <2>2 DEF Imports
  <2>3. ASSUME NEW n, NEW g, imp' = [imp EXCEPT !.at = @ + 1, !.names[n] = g]
        PROVE  imp'.pc = imp.pc /\ imp'.file = imp.file
    BY <1>1, <2>3 DEF Imports
  <2>4. imp' = [imp EXCEPT !.at = @ + 1] => imp'.pc = imp.pc /\ imp'.file = imp.file
    BY <1>1 DEF Imports
  <2>5. \/ Abort \/ imp' = [imp EXCEPT !.at = @ + 1]
        \/ \E g : imp' = [imp EXCEPT !.at = @ + 1, !.names[imp.file.groups[imp.at]] = g]
        \/ \E g : imp' = [imp EXCEPT !.at = @ + 1, !.names[imp.file.groups[imp.at]] = g,
                                     !.fresh = @ \cup {g}]
    BY <1>5, Zenon DEF FindGroup
  <2> QED BY <1>4, <1>5, <2>1, <2>2, <2>3, <2>4, <2>5, Zenon
<1>6. CASE CommitGroups
  <2>1. imp' = [imp EXCEPT !.pc = "reload", !.fresh = {}] => imp'.pc # "idle" /\ imp'.file = imp.file
    BY <1>1 DEF Imports
  <2> QED BY <1>4, <1>6, <2>1 DEF CommitGroups, History
<1>7. CASE LoadGroups
  <2>1. PICK names : imp' = [imp EXCEPT !.pc = IF imp.file.services = NotAList THEN "refused" ELSE "items",
                                       !.names = names, !.at = 1]
    BY <1>7, Zenon DEF LoadGroups
  <2>2. UNCHANGED <<exported, calm, touched>>
    BY <1>7, Zenon DEF LoadGroups, History
  <2> QED BY <1>1, <2>1, <2>2 DEF Imports
<1>8. CASE JunkItem \/ SkipItem
  BY <1>2, <1>4, <1>8 DEF JunkItem, SkipItem, History
<1>9. CASE Lookup
  <2>1. UNCHANGED <<exported, calm, touched>>
    BY <1>9, Zenon DEF Lookup, History
  <2>2. \/ NextItem({imp.at}, FALSE) \/ imp' = [imp EXCEPT !.pc = "insert"]
        \/ \E i : imp' = [imp EXCEPT !.pc = "reread", !.row = i]
    BY <1>9, Zenon DEF Lookup
  <2>3. ASSUME NEW i, imp' = [imp EXCEPT !.pc = "reread", !.row = i]
        PROVE  imp'.pc # "idle" /\ imp'.file = imp.file
    BY <1>1, <2>3 DEF Imports
  <2>4. imp' = [imp EXCEPT !.pc = "insert"] => imp'.pc # "idle" /\ imp'.file = imp.file
    BY <1>1 DEF Imports
  <2> QED BY <1>2, <1>9, <2>1, <2>2, <2>3, <2>4, Zenon
<1>10. CASE Reread
  <2>1. imp' = [imp EXCEPT !.pc = "update"] => imp'.pc # "idle" /\ imp'.file = imp.file
    BY <1>1 DEF Imports
  <2> QED BY <1>2, <1>10, <2>1 DEF Reread, History
<1>11. imp' = [imp EXCEPT !.pc = "refresh"] => imp'.pc # "idle" /\ imp'.file = imp.file
  BY <1>1 DEF Imports
<1>12. CASE Update
  <2>1. UNCHANGED <<exported, calm, touched>>
    BY <1>12, Zenon DEF Update, History
  <2>2. NextItem({imp.at}, TRUE) \/ imp' = [imp EXCEPT !.pc = "refresh"]
    BY <1>12, Zenon DEF Update
  <2> QED BY <1>2, <1>11, <2>1, <2>2
<1>13. CASE Insert
  <2>1. UNCHANGED <<exported, calm, touched>>
    BY <1>13, Zenon DEF Insert, History
  <2>2. NextItem({imp.at}, TRUE) \/ \E i : imp' = [imp EXCEPT !.pc = "refresh", !.row = i]
    BY <1>13, Zenon DEF Insert
  <2>3. ASSUME NEW i, imp' = [imp EXCEPT !.pc = "refresh", !.row = i]
        PROVE  imp'.pc # "idle" /\ imp'.file = imp.file
    BY <1>1, <2>3 DEF Imports
  <2> QED BY <1>2, <2>1, <2>2, <2>3, Zenon
<1>14. CASE Refresh
  BY <1>2, <1>14 DEF Refresh, History
<1>15. CASE ItemsDone
  BY <1>1, <1>15 DEF ItemsDone, History, Imports
<1>16. CASE Finish
  BY <1>1, <1>16 DEF Finish, History, Imports
<1>17. ASSUME NEW k \in Links, FindService(k)
       PROVE  UNCHANGED <<exported, calm, touched>> /\ imp'.pc # "idle" /\ imp'.file = imp.file
  <2>1. UNCHANGED <<exported, calm, touched>>
    BY <1>17, Zenon DEF FindService, History
  <2>2. NextLink(k, {k}, FALSE) \/ \E i : imp' = [imp EXCEPT !.pc = "target", !.at = k, !.row = i]
    BY <1>17, Zenon DEF FindService
  <2>3. ASSUME NEW i, imp' = [imp EXCEPT !.pc = "target", !.at = k, !.row = i]
        PROVE  imp'.pc # "idle" /\ imp'.file = imp.file
    BY <1>1, <2>3 DEF Imports
  <2> QED BY <1>3, <2>1, <2>2, <2>3, Zenon
<1>18. CASE FindTarget
  <2>1. UNCHANGED <<exported, calm, touched>>
    BY <1>18, Zenon DEF FindTarget, History
  <2>2. NextLink(imp.at, {}, FALSE) \/ \E f : imp' = [imp EXCEPT !.pc = "link", !.target = f]
    BY <1>18, Zenon DEF FindTarget
  <2>3. ASSUME NEW f, imp' = [imp EXCEPT !.pc = "link", !.target = f]
        PROVE  imp'.pc # "idle" /\ imp'.file = imp.file
    BY <1>1, <2>3 DEF Imports
  <2> QED BY <1>3, <2>1, <2>2, <2>3, Zenon
<1>19. CASE CommitLink
  <2>1. UNCHANGED <<exported, calm, touched>>
    BY <1>19, Zenon DEF CommitLink, History
  <2>2. \E k, e, d : NextLink(k, e, d)
    BY <1>19, Zenon DEF CommitLink
  <2> QED BY <1>3, <2>1, <2>2
<1>20. \A file : ~Upload(file)
  BY DEF Upload
<1> QED BY <1>5, <1>6, <1>7, <1>8, <1>9, <1>10, <1>12, <1>13, <1>14, <1>15, <1>16, <1>17,
           <1>18, <1>19, <1>20 DEF Import

LEMMA RestoreStep == IInv /\ AccountOK /\ RestoreOK /\ [Next]_vars => RestoreOK'
<1> SUFFICES ASSUME IInv, AccountOK, RestoreOK, [Next]_vars PROVE RestoreOK'
  OBVIOUS
<1>1. CASE UNCHANGED vars
  <2>1. UNCHANGED <<svc, grp, used, imp, exported, calm, touched, ops>>
    BY <1>1 DEF vars
  <2>2. WholeFile /\ StillOwn => WholeFile' /\ StillOwn'
    BY <2>1, LessIsOwn
  <2>3. Unharmed' = Unharmed /\ GroupsFound' = GroupsFound
    BY <2>1 DEF Unharmed, GroupsFound, GroupFound, SeenNames, MyGroups, Known, Item, Later
  <2> QED BY <2>1, <2>2, <2>3 DEF RestoreOK, Restoring
<1>2. CASE Export
  <2>1. imp.pc = "idle" /\ UNCHANGED <<imp, touched>>
    BY <1>2 DEF Export
  <2>2. exported' # None
    BY <1>2, ExportTyped, ImportAssumption
  <2> QED BY <1>2, <2>1, <2>2, ExportRestores DEF RestoreOK, Restoring
<1>3. CASE Others
  BY <1>3, OthersRestore
<1>4. ASSUME NEW file, file \in Files \cup ({exported} \ {None}), Upload(file) PROVE RestoreOK'
  <2>1. /\ imp'.pc = "groups" /\ imp'.file = file /\ UNCHANGED exported
        /\ calm' => calm /\ file = exported
    BY <1>4 DEF Upload, NoImport
  <2> QED BY <1>4, <2>1, UploadRestores DEF RestoreOK
<1>5. CASE Import /\ imp.pc # "idle"
  <2>1. UNCHANGED <<exported, calm, touched>> /\ imp'.pc # "idle" /\ imp'.file = imp.file
    BY <1>5, ImportKeepsFile
  <2> QED BY <1>5, <2>1, ImportRestores DEF RestoreOK
<1>6. Import /\ imp.pc = "idle" => \E file \in Files \cup ({exported} \ {None}) : Upload(file)
  BY DEF Import, FindGroup, CommitGroups, LoadGroups, JunkItem, SkipItem, Lookup, Reread, Update,
         Insert, Refresh, ItemsDone, FindTarget, CommitLink, Finish
<1> QED BY <1>1, <1>2, <1>3, <1>4, <1>5, <1>6 DEF Next

\* At the end, what the user has is what the file names.
LEMMA AllBack ==
    ASSUME IInv, AccountOK, Restoring, imp.pc = "done"
    PROVE  {ItemOf(i) : i \in Mine} = {Item(k) : k \in DOMAIN imp.file.services}
<1>1. /\ imp.file = exported /\ touched = {} /\ WholeFile /\ StillOwn /\ Unharmed
  BY OnTheWay
<1>2. \A k \in DOMAIN exported.services : \E i \in Ids : Placed(k, i) /\ Linked(k, i)
  BY PlacedAll
<1>3. svc \in [Ids -> Rows \cup {None}] /\ grp \in [GroupIds -> Groups \cup {None}]
  BY DEF IInv, TypeOK
<1>4. ASSUME NEW k \in DOMAIN exported.services, NEW i \in Ids, Placed(k, i), Linked(k, i)
      PROVE  i \in Mine /\ ItemOf(i) = Item(k)
  <2>1. /\ Item(k) = exported.services[k] /\ Item(k) \in Objects
        /\ Item(k).data # Partial
        /\ IF Item(k).group = None THEN GroupOf(Item(k)) = None
           ELSE GroupOf(Item(k)) \in MyGroups /\ grp[GroupOf(Item(k))].name = Item(k).group
    BY SavedItem DEF Later
  <2>2. /\ i \in Mine /\ i \in Known(Item(k).slug) /\ svc[i].group = GroupOf(Item(k))
        /\ Item(k).data \in {svc[i].data, Partial}
    BY <1>4 DEF Placed
  <2>3. svc[i].slug = Item(k).slug /\ svc[i].data = Item(k).data
    BY <2>1, <2>2 DEF Known
  <2>4. (IF svc[i].group \in MyGroups THEN grp[svc[i].group].name ELSE None) = Item(k).group
    <3>1. None \notin MyGroups
      BY ImportAssumption DEF MyGroups
    <3> QED BY <2>1, <2>2, <3>1
  <2>5. CASE Item(k).fb = None
    <3>1. PICK j \in DOMAIN exported.services :
             /\ svc[i].slug = exported.services[j].slug
             /\ exported.services[j].fb = None => svc[i].fb \notin Mine
      BY <1>1, <2>2 DEF StillOwn
    <3>2. j = k
      BY <1>1, <2>1, <2>3, <3>1 DEF WholeFile
    <3> QED BY <2>1, <2>2, <2>3, <2>4, <2>5, <3>1, <3>2 DEF ItemOf, Objects
  <2>6. CASE Item(k).fb # None
    <3>1. PICK j \in DOMAIN exported.services : exported.services[j].slug = Item(k).fb
      BY <1>1, <2>1, <2>6 DEF WholeFile
    <3>2. Known(Item(k).fb) \subseteq Mine
      BY <1>1, <3>1 DEF StillOwn
    <3>3. Known(Item(k).fb) # {}
      <4>1. Item(j).slug = Item(k).fb
        BY <1>1, <3>1 DEF Item
      <4> QED BY <1>2, <4>1 DEF Placed
    <3>4. svc[i].fb \in Known(Item(k).fb)
      BY <1>1, <1>4, <2>6, <3>3 DEF Linked, Unharmed
    <3>5. svc[i].fb \in Mine /\ svc[svc[i].fb].slug = Item(k).fb
      BY <3>2, <3>4 DEF Known
    <3> QED BY <2>1, <2>2, <2>3, <2>4, <3>5 DEF ItemOf, Objects
  <2> QED BY <2>5, <2>6
<1>5. ASSUME NEW k \in DOMAIN exported.services PROVE \E i \in Mine : ItemOf(i) = Item(k)
  BY <1>2, <1>4
<1>6. ASSUME NEW i \in Mine PROVE \E k \in DOMAIN exported.services : ItemOf(i) = Item(k)
  <2>1. PICK k \in DOMAIN exported.services : svc[i].slug = exported.services[k].slug
    BY <1>1 DEF StillOwn
  <2>2. PICK j \in Ids : Placed(k, j) /\ Linked(k, j)
    BY <1>2
  <2>3. i \in Known(Item(k).slug) /\ j \in Known(Item(k).slug)
    BY <1>1, <2>1, <2>2 DEF Placed, Known, Mine, Item
  <2>4. i = j
    BY <2>3, Unique
  <2> QED BY <1>4, <2>2, <2>4
<1> QED BY <1>1, <1>5, <1>6

\* What was exported comes back, whatever of it the user has deleted before the upload.
THEOREM ExportComesBack == Spec => []RoundTrip
<1>1. Init => AccountOK
  BY DEF Init, NoImport, AccountOK, ErrorsOK, HandOK, PlacedOK, InItem, InLinks
<1>2. Init => RestoreOK
  BY DEF Init, RestoreOK
<1>3. IInv /\ AccountOK /\ RestoreOK => RoundTrip
  <2> SUFFICES ASSUME IInv, AccountOK, RestoreOK, calm,
                      imp.pc \in {"done", "failed", "refused"}, IsInjective(imp.file.groups)
               PROVE  /\ imp.pc = "done" /\ imp.errors = {} /\ imp.linkErrors = {}
                      /\ {ItemOf(i) : i \in Mine} = {Item(k) : k \in DOMAIN imp.file.services}
    BY DEF RoundTrip
  <2>1. Restoring
    BY DEF RestoreOK
  <2>2. imp.pc = "done" /\ imp.errors = {} /\ imp.linkErrors = {}
    BY <2>1, OnTheWay DEF Unharmed
  <2> QED BY <2>1, <2>2, AllBack
<1> QED BY <1>1, <1>2, <1>3, AccountStep, RestoreStep, Invariant, PTL DEF Spec
===============================================================================
