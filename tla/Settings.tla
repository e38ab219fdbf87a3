-------------------------------- MODULE Settings --------------------------------
(***************************************************************************)
(* The system settings: the one row behind settings.py, and SettingsPage.tsx  *)
(* open at several superadmins. An update reads the row, or finds that there   *)
(* is none yet, sets the fields it was sent and commits; of the fields the     *)
(* ORM writes those that differ from what was read.                          *)
(*                                                                         *)
(* A page sends its form as a whole, and any form: one that was edited, the   *)
(* defaults if the settings have not come yet or did not, an older state if    *)
(* they came over what was edited. The model override, a text like the        *)
(* service, is left out, and so are callers that are cut off.                 *)
(***************************************************************************)
EXTENDS Calls

CONSTANTS Admins,       \* superadmins that have the page open
          Llms          \* slugs of services of type llm_chat

ASSUME SettingsAssumption == None \notin Llms

VARIABLES row,          \* server: the row of system_settings, or None
          save,         \* save[a]: updateSettings of a's page, which has one at a time
          newest,       \* ghost: the form of the update that was committed last
          overlapped    \* ghost: an update was committed between read and commit of another

settingsVars == <<row, save, newest, overlapped>>

\* Of all forms the page can send, an assistant that is off keeps its service.
SystemSettings == [on : BOOLEAN, llm : Llms \cup {None}]

Saves == [phase : {"none", "sent", "read", "done"}, form : SystemSettings,
          read : SystemSettings \cup {None}]

SettingsTypeOK ==
    /\ row \in SystemSettings \cup {None} /\ newest \in SystemSettings \cup {None}
    /\ save \in [Admins -> Saves]
    /\ overlapped \in BOOLEAN

NoSave == [phase |-> "none", form |-> [on |-> FALSE, llm |-> None], read |-> None]

SettingsInit ==
    /\ row = None /\ newest = None
    /\ save = [a \in Admins |-> NoSave]
    /\ overlapped = FALSE

\* handleSave up to its await; the button is disabled until it ends.
SubmitSettings(a, form) ==
    /\ save[a].phase = "none"
    /\ save' = [save EXCEPT ![a] = [phase |-> "sent", form |-> form, read |-> None]]
    /\ UNCHANGED <<row, newest, overlapped>>

\* update_settings: select
ReadSettings(a) ==
    /\ save[a].phase = "sent"
    /\ save' = [save EXCEPT ![a].phase = "read", ![a].read = row]
    /\ UNCHANGED <<row, newest, overlapped>>

\* Mutant of Written: fields that are null are not set.
WrittenExcludingNull(old, read, form) ==
    IF read = None THEN form
    ELSE [on  |-> IF form.on = read.on THEN old.on ELSE form.on,
          llm |-> IF form.llm \in {read.llm, None} THEN old.llm ELSE form.llm]

\* The row after the flush: a new one as a whole, else with the fields that differ.
Written(old, read, form) ==
    IF read = None THEN form
    ELSE [on  |-> IF form.on = read.on THEN old.on ELSE form.on,
          llm |-> IF form.llm = read.llm THEN old.llm ELSE form.llm]

\* commit; an insert only if there is no row by now.
CommitSettings(a) ==
    LET s == save[a] IN
    /\ s.phase = "read" /\ (s.read = None => row = None)
    /\ row' = Written(row, s.read, s.form)
    /\ newest' = s.form
    /\ overlapped' = \/ overlapped
                      \/ \E b \in Admins \ {a} : save[b].phase = "read" /\ save[b].read # None
    /\ save' = [save EXCEPT ![a].phase = "done"]

\* handleSave goes on: the answer, or an error, which an insert of a second row is.
EndSave(a) ==
    /\ save[a].phase # "none"
    /\ save' = [save EXCEPT ![a] = NoSave]
    /\ UNCHANGED <<row, newest, overlapped>>

SettingsNext ==
    \E a \in Admins :
        \/ \E form \in SystemSettings : SubmitSettings(a, form)
        \/ ReadSettings(a) \/ CommitSettings(a) \/ EndSave(a)

SettingsSpec == SettingsInit /\ [][SettingsNext]_settingsVars

-------------------------------------------------------------------------------
(* Properties *)

\* The settings are what one superadmin saved last, as a whole, cleared fields included,
\* although the update compares with what it read and writes the difference: unless two
\* updates overlap at the server, which can leave a mixture that nobody chose. Two first
\* updates may overlap: one of them is refused.
SavedWhole == ~overlapped => row = newest
================================================================================
