---------------------------- MODULE ApiKeys_proofs ----------------------------
(***************************************************************************)
(* For any number of keys, services and calls: the proxy and the lists of     *)
(* keys agree on who may use what, because no empty list of allowed services   *)
(* is ever stored. That is so because none is ever sent, and what a page sends *)
(* it has from its form or, by way of the list, from what was stored: the      *)
(* inductive invariant follows the lists all the way around.                 *)
(***************************************************************************)
EXTENDS ApiKeys, Calls_proofs

\* The lists of allowed services that are not empty, and what is made of them.
Lists == AccessLists \ {{}}
StoredKeys == [active : BOOLEAN, allowed : Lists]
StoredTables == [KeyIds -> StoredKeys \cup {None, Gone}]

Loads   == [kind : {"load"}, seen : StoredTables \cup {None}]
Creates == [kind : {"create"}, id : KeyIds \cup {None}, allowed : Lists, done : BOOLEAN]
Updates == [kind : {"update"}, id : KeyIds, allowed : Lists, done : BOOLEAN]
Clicks  == [kind : {"toggle", "delete"}, id : KeyIds, done : BOOLEAN]
CallsSent == Loads \cup Creates \cup Updates \cup Clicks

KeysInv ==
    /\ keys \in StoredTables
    /\ keyPage \in [listed : StoredTables, services : SUBSET Slugs, form : KeyForms]
    /\ keyCalls \in Seq(CallsSent)

-------------------------------------------------------------------------------
(* Calls and their kinds *)

LEMMA CallOfKind ==
    ASSUME NEW c \in CallsSent
    PROVE  /\ c.kind = "load" => c \in Loads
           /\ c.kind = "create" => c \in Creates
           /\ c.kind = "update" => c \in Updates
           /\ c.kind \in {"toggle", "delete"} => c \in Clicks
  BY DEF CallsSent, Loads, Creates, Updates, Clicks

LEMMA CallAt ==
    ASSUME KeysInv, NEW i \in DOMAIN keyCalls
    PROVE  keyCalls[i] \in CallsSent
  BY DEF KeysInv

\* Another call is made, one is over, one is replaced by what became of it.
LEMMA MoreCalls ==
    ASSUME NEW s \in Seq(CallsSent), NEW c \in CallsSent
    PROVE  Append(s, c) \in Seq(CallsSent)
  OBVIOUS

LEMMA FewerCalls ==
    ASSUME NEW s \in Seq(CallsSent), NEW i \in DOMAIN s
    PROVE  RemoveAt(s, i) \in Seq(CallsSent)
<1>1. SubSeq(s, 1, i - 1) \in Seq(CallsSent) /\ SubSeq(s, i + 1, Len(s)) \in Seq(CallsSent)
  OBVIOUS
<1> QED BY <1>1 DEF RemoveAt

LEMMA CallReplaced ==
    ASSUME NEW s \in Seq(CallsSent), NEW i \in DOMAIN s, NEW c \in CallsSent
    PROVE  [s EXCEPT ![i] = c] \in Seq(CallsSent)
  OBVIOUS

LEMMA LoadSent == LoadKeys \in Seq(CallsSent)
<1>1. [kind |-> "load", seen |-> None] \in CallsSent
  BY DEF CallsSent, Loads
<1> QED BY <1>1 DEF LoadKeys

LEMMA Reloaded ==
    ASSUME NEW s \in Seq(CallsSent), NEW i \in DOMAIN s
    PROVE  RemoveAt(s, i) \o LoadKeys \in Seq(CallsSent)
  BY FewerCalls, LoadSent

-------------------------------------------------------------------------------
(* Forms *)

LEMMA PageWithForm ==
    ASSUME KeysInv, NEW f \in KeyForms, SetKeyForm(f)
    PROVE  keyPage' \in [listed : StoredTables, services : SUBSET Slugs, form : KeyForms]
  BY DEF SetKeyForm, KeysInv

LEMMA NewFormType == NewKeyForm \in KeyForms
  BY Zenon DEF NewKeyForm, KeyForms

LEMMA FormFields ==
    ASSUME NEW f \in KeyForms
    PROVE  /\ f = [open |-> f.open, editing |-> f.editing, allAccess |-> f.allAccess,
                   selected |-> f.selected, newKey |-> f.newKey]
           /\ f.open \in BOOLEAN /\ f.allAccess \in BOOLEAN
           /\ f.editing \in KeyIds \cup {None} /\ f.newKey \in KeyIds \cup {None}
           /\ f.selected \in SUBSET Slugs
  BY DEF KeyForms

LEMMA FormOpened ==
    ASSUME NEW f \in KeyForms, NEW open \in BOOLEAN
    PROVE  [f EXCEPT !.open = open] \in KeyForms
  BY DEF KeyForms

LEMMA FormOfKey ==
    ASSUME NEW k \in KeyIds, NEW all \in BOOLEAN, NEW selected \in SUBSET Slugs
    PROVE  [NewKeyForm EXCEPT !.open = TRUE, !.editing = k, !.allAccess = all,
                              !.selected = selected] \in KeyForms
<1> DEFINE f1 == [NewKeyForm EXCEPT !.open = TRUE]
           f2 == [f1 EXCEPT !.editing = k]
           f3 == [f2 EXCEPT !.allAccess = all]
           f4 == [f3 EXCEPT !.selected = selected]
<1>1. f1 \in KeyForms
  BY NewFormType, FormOpened
<1> HIDE DEF f1
<1>2. f2 \in KeyForms
  BY <1>1 DEF KeyForms
<1> HIDE DEF f2
<1>3. f3 \in KeyForms
  BY <1>2 DEF KeyForms
<1> HIDE DEF f3
<1>4. f4 \in KeyForms
  BY <1>3 DEF KeyForms
<1> USE DEF f1, f2, f3
<1> QED BY <1>4

LEMMA FormOfNewKey ==
    ASSUME NEW f \in KeyForms, NEW k \in KeyIds \cup {None}
    PROVE  [f EXCEPT !.newKey = k] \in KeyForms
  BY DEF KeyForms

-------------------------------------------------------------------------------
(* The page *)

\* What is a key at all is one with a list that is not empty.
LEMMA KeyFound ==
    ASSUME NEW table \in StoredTables, NEW k \in KeyIds, table[k] \in Keys
    PROVE  table[k] \in StoredKeys
<1>1. table[k] \in StoredKeys \cup {None, Gone}
  BY DEF StoredTables
<1>2. table[k] # None /\ table[k] # Gone
  BY KeysAssumption
<1> QED BY <1>1, <1>2

LEMMA OnlyForm ==
    ASSUME KeysInv, NEW f \in KeyForms, SetKeyForm(f), UNCHANGED <<keys, keyCalls>>
    PROVE  KeysInv'
  BY PageWithForm DEF KeysInv

LEMMA OpenCreateKeeps == ASSUME KeysInv, OpenCreate PROVE KeysInv'
<1> DEFINE f == [NewKeyForm EXCEPT !.open = TRUE]
<1>1. f \in KeyForms
  BY NewFormType, FormOpened
<1>2. SetKeyForm(f) /\ UNCHANGED <<keys, keyCalls>>
  BY DEF OpenCreate
<1> HIDE DEF f
<1> QED BY <1>1, <1>2, OnlyForm

LEMMA OpenKeyKeeps == ASSUME KeysInv, NEW k \in KeyIds, OpenKey(k) PROVE KeysInv'
<1> DEFINE allowed == keyPage.listed[k].allowed
           all == allowed = All
           selected == IF allowed = All THEN {} ELSE allowed
           f == [NewKeyForm EXCEPT !.open = TRUE, !.editing = k, !.allAccess = all,
                                   !.selected = selected]
<1>1. keyPage.listed[k] \in StoredKeys
  BY KeyFound DEF OpenKey, OnCard, KeysInv
<1>2. allowed \in Lists
  BY <1>1 DEF StoredKeys
<1>3. selected \in SUBSET Slugs
  BY <1>2 DEF Lists, AccessLists
<1>4. all \in BOOLEAN
  BY Zenon
<1>5. SetKeyForm(f) /\ UNCHANGED <<keys, keyCalls>>
  BY Zenon DEF OpenKey
<1> HIDE DEF all, selected
<1>7. f \in KeyForms
  BY <1>3, <1>4, FormOfKey
<1> HIDE DEF f
<1> QED BY <1>5, <1>7, OnlyForm

LEMMA CloseFormKeeps == ASSUME KeysInv, CloseForm PROVE KeysInv'
<1> DEFINE f == [keyPage.form EXCEPT !.open = FALSE]
<1>1. f \in KeyForms
  BY FormOpened DEF KeysInv
<1>2. SetKeyForm(f) /\ UNCHANGED <<keys, keyCalls>>
  BY DEF CloseForm
<1> HIDE DEF f
<1> QED BY <1>1, <1>2, OnlyForm

LEMMA SwitchAccessKeeps == ASSUME KeysInv, SwitchAccess PROVE KeysInv'
<1> DEFINE g == keyPage.form
           all == ~g.allAccess
           selected == IF g.allAccess THEN g.selected ELSE {}
           f == [g EXCEPT !.allAccess = all, !.selected = selected]
<1>1. g \in KeyForms
  BY DEF KeysInv
<1>2. all \in BOOLEAN
  BY Zenon
<1>3. selected \in SUBSET Slugs
  BY <1>1, FormFields
<1>4. SetKeyForm([g EXCEPT !.allAccess = ~@, !.selected = IF g.allAccess THEN @ ELSE {}])
  BY DEF SwitchAccess
<1>5. [g EXCEPT !.allAccess = ~@, !.selected = IF g.allAccess THEN @ ELSE {}] = f
  BY <1>1 DEF KeyForms
<1>6. UNCHANGED <<keys, keyCalls>>
  BY DEF SwitchAccess
<1> HIDE DEF all, selected, g
<1>7. f \in KeyForms
  BY <1>1, <1>2, <1>3 DEF KeyForms
<1> HIDE DEF f
<1>8. SetKeyForm(f)
  BY <1>4, <1>5
<1> QED BY <1>6, <1>7, <1>8, OnlyForm

LEMMA PickServiceKeeps == ASSUME KeysInv, NEW s \in Slugs, PickService(s) PROVE KeysInv'
<1> DEFINE g == keyPage.form
           selected == IF s \in g.selected THEN g.selected \ {s} ELSE g.selected \cup {s}
           f == [g EXCEPT !.selected = selected]
<1>1. g \in KeyForms
  BY DEF KeysInv
<1>2. selected \in SUBSET Slugs
  BY <1>1, FormFields
<1>3. SetKeyForm([g EXCEPT !.selected = IF s \in @ THEN @ \ {s} ELSE @ \cup {s}])
  BY DEF PickService
<1>4. [g EXCEPT !.selected = IF s \in @ THEN @ \ {s} ELSE @ \cup {s}] = f
  BY <1>1 DEF KeyForms
<1>5. UNCHANGED <<keys, keyCalls>>
  BY DEF PickService
<1> HIDE DEF selected, g
<1>6. f \in KeyForms
  BY <1>1, <1>2 DEF KeyForms
<1> HIDE DEF f
<1>7. SetKeyForm(f)
  BY <1>3, <1>4
<1> QED BY <1>5, <1>6, <1>7, OnlyForm

-------------------------------------------------------------------------------
(* Calls that are made *)

LEMMA OneCallMore ==
    ASSUME KeysInv, NEW c \in CallsSent, CallKeys(c), UNCHANGED <<keys, keyPage>>
    PROVE  KeysInv'
  BY MoreCalls DEF CallKeys, KeysInv

\* What is submitted is everything, or a selection that is not empty.
LEMMA SubmittedList ==
    ASSUME NEW f \in KeyForms, Submittable(f)
    PROVE  Submitted(f) \in Lists
<1>1. f.selected \in SUBSET Slugs /\ (f.allAccess \/ f.selected # {})
  BY FormFields DEF Submittable
<1>2. All # {}
  BY KeysAssumption
<1> QED BY <1>1, <1>2 DEF Submitted, Lists, AccessLists

LEMMA SubmittedCall ==
    ASSUME KeysInv, SubmitKey
    PROVE  \E c \in Creates \cup Updates : CallKeys(c) /\ UNCHANGED <<keys, keyPage>>
<1> DEFINE f == keyPage.form
           allowed == Submitted(f)
           kind == IF f.editing = None THEN "create" ELSE "update"
           c == [kind |-> kind, id |-> f.editing, allowed |-> allowed, done |-> FALSE]
<1>1. f \in KeyForms
  BY DEF KeysInv
<1>2. f.editing \in KeyIds \cup {None}
  BY <1>1, FormFields
<1>3. allowed \in Lists
  BY <1>1, SubmittedList DEF SubmitKey
<1>4. CallKeys(c) /\ UNCHANGED <<keys, keyPage>>
  BY Zenon DEF SubmitKey
<1> HIDE DEF allowed
<1>6. c \in Creates \cup Updates
  BY <1>2, <1>3 DEF Creates, Updates
<1> HIDE DEF c
<1> QED BY <1>4, <1>6

LEMMA SubmitKeyKeeps == ASSUME KeysInv, SubmitKey PROVE KeysInv'
  BY SubmittedCall, OneCallMore DEF CallsSent

LEMMA ToggleKeyKeeps == ASSUME KeysInv, NEW k \in KeyIds, ToggleKey(k) PROVE KeysInv'
<1> DEFINE c == [kind |-> "toggle", id |-> k, done |-> FALSE]
<1>1. c \in CallsSent
  BY DEF CallsSent, Clicks
<1>2. CallKeys(c) /\ UNCHANGED <<keys, keyPage>>
  BY DEF ToggleKey
<1> HIDE DEF c
<1> QED BY <1>1, <1>2, OneCallMore

LEMMA DeleteKeyKeeps == ASSUME KeysInv, NEW k \in KeyIds, DeleteKey(k) PROVE KeysInv'
<1> DEFINE c == [kind |-> "delete", id |-> k, done |-> FALSE]
<1>1. c \in CallsSent
  BY DEF CallsSent, Clicks
<1>2. CallKeys(c) /\ UNCHANGED <<keys, keyPage>>
  BY DEF DeleteKey
<1> HIDE DEF c
<1> QED BY <1>1, <1>2, OneCallMore

-------------------------------------------------------------------------------
(* The server *)

LEMMA TableChanged ==
    ASSUME NEW table \in StoredTables, NEW k \in KeyIds,
           NEW key \in StoredKeys \cup {None, Gone}
    PROVE  [table EXCEPT ![k] = key] \in StoredTables
  BY DEF StoredTables

\* A row is made, changed, taken away, here or elsewhere.
LEMMA RowMade ==
    ASSUME KeysInv, NEW k \in KeyIds, NEW allowed \in Lists, NewKeyRow(k, allowed)
    PROVE  keys' \in StoredTables
<1>1. [active |-> TRUE, allowed |-> allowed] \in StoredKeys
  BY DEF StoredKeys
<1> QED BY <1>1, TableChanged DEF NewKeyRow, KeysInv

LEMMA RowUpdated ==
    ASSUME KeysInv, NEW k \in KeyIds, NEW allowed \in Lists,
           ChangeKeyRow(k, [keys[k] EXCEPT !.allowed = allowed])
    PROVE  keys' \in StoredTables
<1>1. keys[k] \in StoredKeys
  BY KeyFound DEF ChangeKeyRow, KeysInv
<1>2. [keys[k] EXCEPT !.allowed = allowed] \in StoredKeys
  BY <1>1 DEF StoredKeys
<1> QED BY <1>2, TableChanged DEF ChangeKeyRow, KeysInv

LEMMA RowToggled ==
    ASSUME KeysInv, NEW k \in KeyIds, ChangeKeyRow(k, [keys[k] EXCEPT !.active = ~@])
    PROVE  keys' \in StoredTables
<1> DEFINE row == [keys[k] EXCEPT !.active = ~keys[k].active]
<1>1. keys[k] \in StoredKeys
  BY KeyFound DEF ChangeKeyRow, KeysInv
<1>2. (~keys[k].active) \in BOOLEAN
  OBVIOUS
<1>3. \A b \in BOOLEAN : [keys[k] EXCEPT !.active = b] \in StoredKeys
  BY <1>1 DEF StoredKeys
<1>4. row \in StoredKeys
  BY <1>2, <1>3, Zenon
<1>5. keys' = [keys EXCEPT ![k] = row]
  BY Zenon DEF ChangeKeyRow
<1> HIDE DEF row
<1> QED BY <1>4, <1>5, TableChanged DEF KeysInv

LEMMA RowDeleted ==
    ASSUME KeysInv, NEW k \in KeyIds, ChangeKeyRow(k, Gone)
    PROVE  keys' \in StoredTables
  BY TableChanged DEF ChangeKeyRow, KeysInv

LEMMA LoadServed ==
    ASSUME NEW c \in Loads, NEW table \in StoredTables
    PROVE  [c EXCEPT !.seen = table] \in CallsSent
  BY DEF Loads, CallsSent

LEMMA CallDone ==
    ASSUME NEW c \in Updates \cup Clicks
    PROVE  [c EXCEPT !.done = TRUE] \in CallsSent
<1>1. CASE c \in Updates
  <2>1. [c EXCEPT !.done = TRUE] \in Updates
    BY <1>1 DEF Updates
  <2> QED BY <2>1 DEF CallsSent
<1>2. CASE c \in Clicks
  <2>1. [c EXCEPT !.done = TRUE] \in Clicks
    BY <1>2 DEF Clicks
  <2> QED BY <2>1 DEF CallsSent
<1> QED BY <1>1, <1>2

LEMMA CreateDone ==
    ASSUME NEW c \in Creates, NEW k \in KeyIds
    PROVE  [c EXCEPT !.done = TRUE, !.id = k] \in CallsSent
<1>1. [c EXCEPT !.done = TRUE, !.id = k] \in Creates
  BY DEF Creates
<1> QED BY <1>1 DEF CallsSent

\* What is served leaves lists that are not empty, in the table and in the answer.
LEMMA Served ==
    ASSUME KeysInv, NEW i \in DOMAIN keyCalls, NEW c \in CallsSent,
           keyCalls' = [keyCalls EXCEPT ![i] = c], keys' \in StoredTables,
           UNCHANGED keyPage
    PROVE  KeysInv'
  BY CallReplaced DEF KeysInv

LEMMA ServeLoadKeeps ==
    ASSUME KeysInv, NEW i \in DOMAIN keyCalls, keyCalls[i].kind = "load",
           keyCalls' = [keyCalls EXCEPT ![i].seen = keys], UNCHANGED <<keys, keyPage>>
    PROVE  KeysInv'
<1>1. keyCalls[i] \in Loads /\ keys \in StoredTables
  BY CallAt, CallOfKind DEF KeysInv
<1>2. [keyCalls[i] EXCEPT !.seen = keys] \in CallsSent
  BY <1>1, LoadServed
<1> QED BY <1>1, <1>2, Served

LEMMA ServeCreateKeeps ==
    ASSUME KeysInv, NEW i \in DOMAIN keyCalls, keyCalls[i].kind = "create",
           NEW k \in KeyIds, NewKeyRow(k, keyCalls[i].allowed),
           keyCalls' = [keyCalls EXCEPT ![i].done = TRUE, ![i].id = k], UNCHANGED keyPage
    PROVE  KeysInv'
<1>1. keyCalls[i] \in Creates /\ keyCalls[i].allowed \in Lists
  BY CallAt, CallOfKind DEF Creates
<1>2. keys' \in StoredTables
  BY <1>1, RowMade
<1>3. [keyCalls[i] EXCEPT !.done = TRUE, !.id = k] \in CallsSent
  BY <1>1, CreateDone
<1>4. keyCalls' = [keyCalls EXCEPT ![i] = [keyCalls[i] EXCEPT !.done = TRUE, !.id = k]]
  BY DEF KeysInv
<1> QED BY <1>2, <1>3, <1>4, Served

LEMMA ServeChangeKeeps ==
    ASSUME KeysInv, NEW i \in DOMAIN keyCalls, keyCalls[i].kind \in {"update", "toggle", "delete"},
           keys' \in StoredTables,
           keyCalls' = [keyCalls EXCEPT ![i].done = TRUE], UNCHANGED keyPage
    PROVE  KeysInv'
<1>1. keyCalls[i] \in Updates \cup Clicks
  BY CallAt, CallOfKind
<1>2. [keyCalls[i] EXCEPT !.done = TRUE] \in CallsSent
  BY <1>1, CallDone
<1> QED BY <1>2, Served

LEMMA ServeKeeps ==
    ASSUME KeysInv, NEW i \in DOMAIN keyCalls, ServeKey(i)
    PROVE  KeysInv'
<1> DEFINE c == keyCalls[i]
<1>1. CASE /\ c.kind = "load" /\ keyCalls' = [keyCalls EXCEPT ![i].seen = keys]
           /\ UNCHANGED keys
  BY <1>1, ServeLoadKeeps DEF ServeKey
<1>2. ASSUME NEW k \in KeyIds, c.kind = "create", NewKeyRow(k, c.allowed),
             keyCalls' = [keyCalls EXCEPT ![i].done = TRUE, ![i].id = k]
      PROVE  KeysInv'
  BY <1>2, ServeCreateKeeps DEF ServeKey
<1>3. ASSUME keyCalls' = [keyCalls EXCEPT ![i].done = TRUE],
             \/ c.kind = "update" /\ ChangeKeyRow(c.id, [keys[c.id] EXCEPT !.allowed = c.allowed])
             \/ c.kind = "toggle" /\ ChangeKeyRow(c.id, [keys[c.id] EXCEPT !.active = ~@])
             \/ c.kind = "delete" /\ ChangeKeyRow(c.id, Gone)
      PROVE  KeysInv'
  <2>1. c.kind = "update" => c.id \in KeyIds /\ c.allowed \in Lists
    BY CallAt, CallOfKind DEF Updates
  <2>2. c.kind \in {"toggle", "delete"} => c.id \in KeyIds
    BY CallAt, CallOfKind DEF Clicks
  <2>3. keys' \in StoredTables
    BY <1>3, <2>1, <2>2, RowUpdated, RowToggled, RowDeleted
  <2> QED BY <1>3, <2>3, ServeChangeKeeps DEF ServeKey
<1> QED BY <1>1, <1>2, <1>3 DEF ServeKey

LEMMA ElsewhereKeeps ==
    ASSUME KeysInv, NEW k \in KeyIds, ElsewhereKey(k)
    PROVE  KeysInv'
<1>1. ASSUME NEW f \in KeyForms, Submittable(f),
             \/ NewKeyRow(k, Submitted(f))
             \/ ChangeKeyRow(k, [keys[k] EXCEPT !.allowed = Submitted(f)])
      PROVE  keys' \in StoredTables
  BY <1>1, SubmittedList, RowMade, RowUpdated
<1>2. keys' \in StoredTables
  BY <1>1, RowToggled, RowDeleted DEF ElsewhereKey
<1> QED BY <1>2 DEF ElsewhereKey, KeysInv

-------------------------------------------------------------------------------
(* The answers *)

\* The list is what it was at some time.
LEMMA AnswerLoadKeeps ==
    ASSUME KeysInv, NEW i \in DOMAIN keyCalls, keyCalls[i].kind = "load",
           keyCalls[i].seen # None,
           keyPage' = [keyPage EXCEPT !.listed = keyCalls[i].seen, !.services = Slugs],
           keyCalls' = RemoveAt(keyCalls, i), UNCHANGED keys
    PROVE  KeysInv'
<1>1. keyCalls[i] \in Loads
  BY CallAt, CallOfKind
<1>2. keyCalls[i].seen \in StoredTables
  BY <1>1 DEF Loads
<1>3. keyPage' \in [listed : StoredTables, services : SUBSET Slugs, form : KeyForms]
  BY <1>2 DEF KeysInv
<1>4. keyCalls' \in Seq(CallsSent)
  BY FewerCalls DEF KeysInv
<1> QED BY <1>3, <1>4 DEF KeysInv

\* Another answer changes the form at most, and the list is loaded.
LEMMA FormAnswered ==
    ASSUME KeysInv, NEW i \in DOMAIN keyCalls,
           keyCalls' = RemoveAt(keyCalls, i) \o LoadKeys, UNCHANGED keys,
           UNCHANGED keyPage \/ \E f \in KeyForms : SetKeyForm(f)
    PROVE  KeysInv'
<1>1. keyCalls' \in Seq(CallsSent)
  BY Reloaded DEF KeysInv
<1>2. keyPage' \in [listed : StoredTables, services : SUBSET Slugs, form : KeyForms]
  BY PageWithForm DEF KeysInv
<1> QED BY <1>1, <1>2 DEF KeysInv

LEMMA AnswerKeeps ==
    ASSUME KeysInv, NEW i \in DOMAIN keyCalls, AnswerKey(i)
    PROVE  KeysInv'
<1> DEFINE c == keyCalls[i]
<1>1. c \in CallsSent /\ keyPage.form \in KeyForms /\ UNCHANGED keys
  BY CallAt DEF AnswerKey, KeysInv
<1>2. CASE c.kind = "load"
  <2>1. c.seen # None
    BY <1>2 DEF AnswerKey, UnservedKey
  <2>2. /\ keyPage' = [keyPage EXCEPT !.listed = c.seen, !.services = Slugs]
        /\ keyCalls' = RemoveAt(keyCalls, i)
    BY <1>2 DEF AnswerKey
  <2> QED BY <1>1, <1>2, <2>1, <2>2, AnswerLoadKeeps
<1>3. CASE c.kind = "create"
  <2>1. c.id \in KeyIds \cup {None}
    BY <1>1, <1>3, CallOfKind DEF Creates
  <2>2. [keyPage.form EXCEPT !.newKey = c.id] \in KeyForms
    BY <1>1, <2>1, FormOfNewKey
  <2>3. /\ SetKeyForm([keyPage.form EXCEPT !.newKey = c.id])
        /\ keyCalls' = RemoveAt(keyCalls, i) \o LoadKeys
    BY <1>3 DEF AnswerKey
  <2> QED BY <1>1, <2>2, <2>3, FormAnswered
<1>4. CASE c.kind = "update"
  <2>1. [keyPage.form EXCEPT !.open = FALSE] \in KeyForms
    BY <1>1, FormOpened
  <2>2. /\ SetKeyForm([keyPage.form EXCEPT !.open = FALSE])
        /\ keyCalls' = RemoveAt(keyCalls, i) \o LoadKeys
    BY <1>4 DEF AnswerKey
  <2> QED BY <1>1, <2>1, <2>2, FormAnswered
<1>5. CASE c.kind \notin {"load", "create", "update"}
  <2>1. keyCalls' = RemoveAt(keyCalls, i) \o LoadKeys /\ UNCHANGED keyPage
    BY <1>5 DEF AnswerKey
  <2> QED BY <1>1, <2>1, FormAnswered
<1> QED BY <1>2, <1>3, <1>4, <1>5

LEMMA FailKeeps ==
    ASSUME KeysInv, NEW i \in DOMAIN keyCalls, FailKey(i)
    PROVE  KeysInv'
<1>1. keyCalls' \in Seq(CallsSent)
  BY FewerCalls DEF FailKey, KeysInv
<1> QED BY <1>1 DEF FailKey, KeysInv

-------------------------------------------------------------------------------
(* The theorem *)

LEMMA KeysStart == KeysInit => KeysInv
<1> SUFFICES ASSUME KeysInit PROVE KeysInv
  OBVIOUS
<1>1. NoKeys \in StoredTables
  BY DEF NoKeys, StoredTables
<1>2. keyPage \in [listed : StoredTables, services : SUBSET Slugs, form : KeyForms]
  BY <1>1, NewFormType DEF KeysInit
<1> QED BY <1>1, <1>2, LoadSent DEF KeysInit, KeysInv

LEMMA KeysStep == KeysInv /\ [KeysNext]_keyVars => KeysInv'
<1> SUFFICES ASSUME KeysInv, [KeysNext]_keyVars PROVE KeysInv'
  OBVIOUS
<1>1. CASE UNCHANGED keyVars
  BY <1>1 DEF keyVars, KeysInv
<1>2. CASE OpenCreate \/ CloseForm \/ SwitchAccess \/ SubmitKey
  BY <1>2, OpenCreateKeeps, CloseFormKeeps, SwitchAccessKeeps, SubmitKeyKeeps
<1>3. ASSUME NEW k \in KeyIds, OpenKey(k) \/ ToggleKey(k) \/ DeleteKey(k) \/ ElsewhereKey(k)
      PROVE  KeysInv'
  BY <1>3, OpenKeyKeeps, ToggleKeyKeeps, DeleteKeyKeeps, ElsewhereKeeps
<1>4. ASSUME NEW s \in Slugs, PickService(s) PROVE KeysInv'
  BY <1>4, PickServiceKeeps
<1>5. ASSUME NEW i \in DOMAIN keyCalls, ReplyKey(i) PROVE KeysInv'
  BY <1>5, ServeKeeps, AnswerKeeps, FailKeeps DEF ReplyKey
<1> QED BY <1>1, <1>2, <1>3, <1>4, <1>5 DEF KeysNext

LEMMA StoredAgree == KeysInv => ReadingsAgree
<1> SUFFICES ASSUME KeysInv, NEW k \in KeyIds, NEW s \in Slugs,
                    keys[k] \in Keys, keys[k].active
             PROVE  MayUse(keys[k], s) <=> ListedFor(keys[k], s)
  BY DEF ReadingsAgree
<1>1. keys[k] \in StoredKeys
  BY KeyFound DEF KeysInv
<1>2. keys[k].allowed # {}
  BY <1>1 DEF StoredKeys, Lists
<1>3. MayUse(keys[k], s) <=> keys[k].allowed = All \/ s \in keys[k].allowed
  BY <1>2 DEF MayUse
<1> QED BY <1>3, Zenon DEF ListedFor

LEMMA StoredIsKey == StoredKeys \subseteq Keys
  BY DEF StoredKeys, Keys, Lists

LEMMA StoredTyped == KeysInv => KeysTypeOK
<1> SUFFICES ASSUME KeysInv PROVE KeysTypeOK
  OBVIOUS
<1>1. StoredTables \subseteq KeyTables
  BY StoredIsKey DEF StoredTables, KeyTables
<1>2. CallsSent \subseteq KeyCalls
  <2>1. Loads \subseteq [kind : {"load"}, seen : KeyTables \cup {None}]
    BY <1>1 DEF Loads
  <2>2. Creates \cup Updates \subseteq [kind : {"create", "update"}, id : KeyIds \cup {None},
                                       allowed : AccessLists, done : BOOLEAN]
    BY DEF Creates, Updates, Lists
  <2> QED BY <2>1, <2>2, Zenon DEF CallsSent, KeyCalls, Clicks
<1>3. keyCalls \in Seq(KeyCalls)
  BY <1>2 DEF KeysInv
<1>4. keyPage \in [listed : KeyTables, services : SUBSET Slugs, form : KeyForms]
  BY <1>1 DEF KeysInv
<1>5. keys \in KeyTables
  BY <1>1 DEF KeysInv
<1> QED BY <1>3, <1>4, <1>5 DEF KeysTypeOK

\* For any number of keys, services and calls, and whatever other tabs and sessions of the
\* owner do (proxy.py, api_key_service.py, ApiKeysPage.tsx): an active key may use exactly
\* the services that list it.
THEOREM KeysReadingsAgree == KeysSpec => []ReadingsAgree
  BY KeysStart, KeysStep, StoredAgree, PTL DEF KeysSpec
===============================================================================
