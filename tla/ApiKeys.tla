-------------------------------- MODULE ApiKeys -------------------------------
(***************************************************************************)
(* API keys: the table behind api_key_service.py, and ApiKeysPage.tsx, which *)
(* creates keys, shows the raw value of a new one once, changes which         *)
(* services a key may use, disables, enables and deletes keys. The same page   *)
(* may be open elsewhere, in another tab or another session of the owner.     *)
(*                                                                         *)
(* An empty list of allowed services means every service to the proxy and no  *)
(* service to the list of the keys of a service: whether that can be told     *)
(* apart depends on what is ever stored. Names, rate limits, expiry and times  *)
(* of use are left out, and requests are served in one step each: of two that   *)
(* overlap one may overwrite the other, which makes no other row than one of    *)
(* those that the two make alone.                                           *)
(***************************************************************************)
EXTENDS Calls

CONSTANTS KeyIds, Slugs,
          All               \* allowed_services is null

VARIABLES keys,         \* server: api_keys
          keyPage,      \* state of ApiKeysPage
          keyCalls      \* calls under way, oldest first

keyVars == <<keys, keyPage, keyCalls>>

AccessLists == {All} \cup SUBSET Slugs
Keys == [active : BOOLEAN, allowed : AccessLists]

\* What is not a key is not like one, nor is an unlimited key like a limited one.
ASSUME KeysAssumption ==
    /\ None \notin KeyIds
    /\ \A l \in SUBSET Slugs : l # All
    /\ \A key \in Keys : key \notin {None, Gone}

KeyTables == [KeyIds -> Keys \cup {None, Gone}]

KeyForms == [open : BOOLEAN, editing : KeyIds \cup {None}, allAccess : BOOLEAN,
             selected : SUBSET Slugs, newKey : KeyIds \cup {None}]

KeyCalls ==
    [kind : {"load"}, seen : KeyTables \cup {None}]
        \cup [kind : {"create", "update"}, id : KeyIds \cup {None}, allowed : AccessLists, done : BOOLEAN]
        \cup [kind : {"toggle", "delete"}, id : KeyIds, done : BOOLEAN]

KeysTypeOK ==
    /\ keys \in KeyTables
    /\ keyPage \in [listed : KeyTables, services : SUBSET Slugs, form : KeyForms]
    /\ keyCalls \in Seq(KeyCalls)

NoKeys == [k \in KeyIds |-> None]
LoadKeys == <<[kind |-> "load", seen |-> None]>>

NewKeyForm == [open |-> FALSE, editing |-> None, allAccess |-> TRUE, selected |-> {},
               newKey |-> None]

KeysInit ==
    /\ keys = NoKeys
    /\ keyPage = [listed |-> NoKeys, services |-> {}, form |-> NewKeyForm]
    /\ keyCalls = LoadKeys

\* The list has a card for the key, with its buttons.
OnCard(k) == keyPage.listed[k] \in Keys

-------------------------------------------------------------------------------
(* The dialog *)

SetKeyForm(f) == keyPage' = [keyPage EXCEPT !.form = f]

\* openCreate, with resetForm: a raw key that was not shown yet is forgotten.
OpenCreate ==
    /\ ~keyPage.form.open
    /\ SetKeyForm([NewKeyForm EXCEPT !.open = TRUE])
    /\ UNCHANGED <<keys, keyCalls>>

\* openEdit
OpenKey(k) ==
    /\ ~keyPage.form.open /\ OnCard(k)
    /\ LET allowed == keyPage.listed[k].allowed
       IN SetKeyForm([NewKeyForm EXCEPT !.open = TRUE, !.editing = k,
                                     !.allAccess = allowed = All,
                                     !.selected = IF allowed = All THEN {} ELSE allowed])
    /\ UNCHANGED <<keys, keyCalls>>

\* "Cancel", "Done" or a click outside. A new key whose answer comes later is shown in
\* no dialog, or in one that was opened for something else meanwhile.
CloseForm ==
    /\ keyPage.form.open
    /\ SetKeyForm([keyPage.form EXCEPT !.open = FALSE])
    /\ UNCHANGED <<keys, keyCalls>>

Editable == keyPage.form.open /\ keyPage.form.newKey = None

\* "Access to all services"; checking it empties the selection.
SwitchAccess ==
    /\ Editable
    /\ SetKeyForm([keyPage.form EXCEPT !.allAccess = ~@,
                                    !.selected = IF keyPage.form.allAccess THEN @ ELSE {}])
    /\ UNCHANGED <<keys, keyCalls>>

\* toggleService
PickService(s) ==
    /\ Editable /\ ~keyPage.form.allAccess /\ s \in keyPage.services
    /\ SetKeyForm([keyPage.form EXCEPT !.selected = IF s \in @ THEN @ \ {s} ELSE @ \cup {s}])
    /\ UNCHANGED <<keys, keyCalls>>

-------------------------------------------------------------------------------
(* Calls *)

CallKeys(c) == MaySend(keyCalls) /\ keyCalls' = Append(keyCalls, c)

\* Mutant of Submittable: the button is enabled whatever is selected.
AlwaysSubmittable(f) == f.open /\ f.newKey = None

\* The submit button of the form.
Submittable(f) == f.open /\ f.newKey = None /\ (f.allAccess \/ f.selected # {})

\* allowed_services of the request.
Submitted(f) == IF f.allAccess THEN All ELSE f.selected

\* handleCreate and handleUpdate up to their await. Nothing is disabled meanwhile.
SubmitKey ==
    LET f == keyPage.form IN
    /\ Submittable(f)
    /\ CallKeys([kind |-> IF f.editing = None THEN "create" ELSE "update", id |-> f.editing,
                 allowed |-> Submitted(f), done |-> FALSE])
    /\ UNCHANGED <<keys, keyPage>>

\* handleToggle: under "Disable" or "Enable", as the list has it; the server negates
\* what the row has.
ToggleKey(k) ==
    /\ OnCard(k)
    /\ CallKeys([kind |-> "toggle", id |-> k, done |-> FALSE])
    /\ UNCHANGED <<keys, keyPage>>

\* handleDelete, confirmed.
DeleteKey(k) ==
    /\ OnCard(k)
    /\ CallKeys([kind |-> "delete", id |-> k, done |-> FALSE])
    /\ UNCHANGED <<keys, keyPage>>

UnservedKey(c) == IF c.kind = "load" THEN c.seen = None ELSE ~c.done

\* create_api_key: a new row.
NewKeyRow(k, allowed) ==
    /\ keys[k] = None
    /\ keys' = [keys EXCEPT ![k] = [active |-> TRUE, allowed |-> allowed]]

\* update_api_key, toggle_api_key, delete_api_key: the row that is there.
ChangeKeyRow(k, row) ==
    /\ keys[k] \in Keys
    /\ keys' = [keys EXCEPT ![k] = row]

\* A request is served; what it finds no key for is a FailKey.
ServeKey(i) ==
    LET c == keyCalls[i] IN
    /\ UnservedKey(c)
    /\ \/ /\ c.kind = "load"
          /\ keyCalls' = [keyCalls EXCEPT ![i].seen = keys]
          /\ UNCHANGED keys
       \/ \E k \in KeyIds :
            /\ c.kind = "create" /\ NewKeyRow(k, c.allowed)
            /\ keyCalls' = [keyCalls EXCEPT ![i].done = TRUE, ![i].id = k]
       \/ /\ \/ c.kind = "update" /\ ChangeKeyRow(c.id, [keys[c.id] EXCEPT !.allowed = c.allowed])
             \/ c.kind = "toggle" /\ ChangeKeyRow(c.id, [keys[c.id] EXCEPT !.active = ~@])
             \/ c.kind = "delete" /\ ChangeKeyRow(c.id, Gone)
          /\ keyCalls' = [keyCalls EXCEPT ![i].done = TRUE]
    /\ UNCHANGED keyPage

\* The page in another tab or session of the owner: its form can send what this one can.
ElsewhereKey(k) ==
    /\ \/ \E f \in KeyForms :
             /\ Submittable(f)
             /\ \/ NewKeyRow(k, Submitted(f))
                \/ ChangeKeyRow(k, [keys[k] EXCEPT !.allowed = Submitted(f)])
       \/ ChangeKeyRow(k, [keys[k] EXCEPT !.active = ~@])
       \/ ChangeKeyRow(k, Gone)
    /\ UNCHANGED <<keyPage, keyCalls>>

\* The handlers go on: a new key is shown in the dialog, if that is open, in place of
\* one that was shown there before; an update closes it; all reload.
AnswerKey(i) ==
    LET c == keyCalls[i]
        rest == RemoveAt(keyCalls, i)
    IN /\ ~UnservedKey(c)
       /\ CASE c.kind = "load" -> /\ keyPage' = [keyPage EXCEPT !.listed = c.seen, !.services = Slugs]
                                  /\ keyCalls' = rest
            [] c.kind = "create" -> /\ SetKeyForm([keyPage.form EXCEPT !.newKey = c.id])
                                    /\ keyCalls' = rest \o LoadKeys
            [] c.kind = "update" -> /\ SetKeyForm([keyPage.form EXCEPT !.open = FALSE])
                                    /\ keyCalls' = rest \o LoadKeys
            [] OTHER -> keyCalls' = rest \o LoadKeys /\ UNCHANGED keyPage
       /\ UNCHANGED keys

\* Nothing is done about a refusal or an answer that is lost.
FailKey(i) ==
    /\ keyCalls' = RemoveAt(keyCalls, i)
    /\ UNCHANGED <<keys, keyPage>>

ReplyKey(i) == i \in DOMAIN keyCalls /\ (ServeKey(i) \/ AnswerKey(i) \/ FailKey(i))

KeysNext ==
    \/ OpenCreate \/ CloseForm \/ SwitchAccess \/ SubmitKey
    \/ \E k \in KeyIds : OpenKey(k) \/ ToggleKey(k) \/ DeleteKey(k) \/ ElsewhereKey(k)
    \/ \E s \in Slugs : PickService(s)
    \/ \E i \in DOMAIN keyCalls : ReplyKey(i)

KeysSpec == KeysInit /\ [][KeysNext]_keyVars

-------------------------------------------------------------------------------
(* Properties *)

\* proxy.py: `if api_key.allowed_services and slug not in api_key.allowed_services'
MayUse(key, s) == key.allowed \in {All, {}} \/ s \in key.allowed

\* get_keys_for_service
ListedFor(key, s) == key.active /\ (key.allowed = All \/ s \in key.allowed)

\* The proxy lets a key use exactly the services whose lists of keys name it (those of an
\* active key), though the two read an empty list in opposite ways: no sequence of
\* creations and changes on the page, in as many tabs as the owner has open, a form edited
\* while a list arrives included, ever stores one.
ReadingsAgree ==
    \A k \in KeyIds, s \in Slugs :
        keys[k] \in Keys /\ keys[k].active => (MayUse(keys[k], s) <=> ListedFor(keys[k], s))
===============================================================================
