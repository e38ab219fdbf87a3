---------------------------- MODULE ServiceDialog -----------------------------
(***************************************************************************)
(* The service dialog of ServicesPage.tsx: one form that is opened to add a *)
(* service, to clone one, to edit one or with what the AI parsed out of a    *)
(* cURL command, and the calls whose answers write into it: saving, saving   *)
(* and checking, checking, generating a description, parsing. None of these *)
(* answers asks whether the dialog it finds is the one it left.              *)
(*                                                                         *)
(* A form is abstracted to the service it is `of', None for one that is to   *)
(* be created, and to whether a text in it was `alien', written about another *)
(* form. The service table is `stored'; the reload that follows a save, and    *)
(* services that are deleted, are ServiceBoard's subject.                     *)
(***************************************************************************)
EXTENDS Calls

CONSTANTS Ids,              \* identifiers a service can get
          Stored            \* services that are there when the page is opened

ASSUME DialogAssumption ==
    /\ Stored \subseteq Ids /\ None \notin Ids
    /\ "loading" \notin Ids \cup {None}

VARIABLES stored,       \* server: stored[s] is the form s was last saved with, or None
          dialog,       \* dialogOpen, editId, form and modalHealth
          spin,         \* aiDescLoading and curlImportLoading
          dialogCalls,  \* calls under way, oldest first
          hasty         \* ghost: the user went on before an answer that writes into the dialog

dialogVars == <<stored, dialog, spin, dialogCalls, hasty>>

ServiceForms == [of : Ids \cup {None}, alien : BOOLEAN]

Dialogs == [open : BOOLEAN, editId : Ids \cup {None}, form : ServiceForms,
            health : Ids \cup {None, "loading"}]    \* the service whose result is shown

DialogCalls == [kind : {"create", "update", "check", "describe", "parse"},
          id : Ids \cup {None},         \* the service it is about; of a creation, once served
          form : ServiceForms,                 \* as sent, of a save
          andCheck : BOOLEAN,
          served : BOOLEAN,             \* a save that is in the table
          fresh : BOOLEAN]              \* ghost: the dialog has not been filled anew since

DialogTypeOK ==
    /\ stored \in [Ids -> ServiceForms \cup {None}]
    /\ dialog \in Dialogs
    /\ spin \in [describe : BOOLEAN, parse : BOOLEAN]
    /\ dialogCalls \in Seq(DialogCalls)
    /\ hasty \in BOOLEAN

BlankForm == [of |-> None, alien |-> FALSE]

DialogInit ==
    /\ stored = [s \in Ids |-> IF s \in Stored THEN [of |-> s, alien |-> FALSE] ELSE None]
    /\ dialog = [open |-> FALSE, editId |-> None, form |-> BlankForm, health |-> None]
    /\ spin = [describe |-> FALSE, parse |-> FALSE]
    /\ dialogCalls = <<>> /\ hasty = FALSE

-------------------------------------------------------------------------------
(* The user *)

\* Its answer writes into the dialog that is there then.
WritesDialog(c) == c.kind \in {"describe", "parse", "check"} \/ c.andCheck

DialogOutstanding == \E i \in DOMAIN dialogCalls : WritesDialog(dialogCalls[i])

Aged(calls) == [i \in DOMAIN calls |-> [calls[i] EXCEPT !.fresh = FALSE]]

\* Mutants of FillDialog: the identity or the result of a check stays.
FillDialogKeepingHealth(id, form, calls) ==
    /\ dialog' = [open |-> TRUE, editId |-> id, form |-> form, health |-> dialog.health]
    /\ dialogCalls' = Aged(calls)

FillDialogKeepingId(id, form, calls) ==
    /\ dialog' = [dialog EXCEPT !.open = TRUE, !.form = form, !.health = None]
    /\ dialogCalls' = Aged(calls)

\* The dialog opens with a form, to edit a service or to create one.
FillDialog(id, form, calls) ==
    /\ dialog' = [open |-> TRUE, editId |-> id, form |-> form, health |-> None]
    /\ dialogCalls' = Aged(calls)

\* openCreate and openClone: neither keeps the identity of a service.
OpenNew ==
    /\ ~dialog.open
    /\ FillDialog(None, BlankForm, dialogCalls)
    /\ hasty' = (hasty \/ DialogOutstanding)
    /\ UNCHANGED <<stored, spin>>

OpenEdit(s) ==
    /\ ~dialog.open /\ stored[s] # None
    /\ FillDialog(s, stored[s], dialogCalls)
    /\ hasty' = (hasty \/ DialogOutstanding)
    /\ UNCHANGED <<stored, spin>>

\* "Cancel", or a click outside. Nothing is withdrawn.
CloseDialog ==
    /\ dialog.open
    /\ dialog' = [dialog EXCEPT !.open = FALSE]
    /\ UNCHANGED <<stored, spin, dialogCalls, hasty>>

CallDialog(kind, id, form, andCheck) ==
    /\ MaySend(dialogCalls)
    /\ dialogCalls' = Append(dialogCalls,
           [kind |-> kind, id |-> id, form |-> form, andCheck |-> andCheck,
            served |-> FALSE, fresh |-> TRUE])

\* handleSubmit up to its first await. Its buttons are never disabled.
SubmitService(andCheck) ==
    /\ dialog.open
    /\ CallDialog(IF dialog.editId = None THEN "create" ELSE "update",
             dialog.editId, dialog.form, andCheck)
    /\ hasty' = (hasty \/ DialogOutstanding)
    /\ UNCHANGED <<stored, dialog, spin>>

\* "Check Connection", for a service that exists.
CheckConnection ==
    /\ dialog.open /\ dialog.editId # None /\ dialog.health # "loading"
    /\ CallDialog("check", dialog.editId, BlankForm, FALSE)
    /\ dialog' = [dialog EXCEPT !.health = "loading"]
    /\ UNCHANGED <<stored, spin, hasty>>

\* handleGenerateDescription: the button is disabled while one is under way.
DescribeService ==
    /\ dialog.open /\ ~spin.describe
    /\ CallDialog("describe", None, BlankForm, FALSE)
    /\ spin' = [spin EXCEPT !.describe = TRUE]
    /\ UNCHANGED <<stored, dialog, hasty>>

\* handleCurlImport, from a dialog of its own that can be closed meanwhile.
ParseCurl ==
    /\ ~dialog.open /\ ~spin.parse
    /\ CallDialog("parse", None, BlankForm, FALSE)
    /\ spin' = [spin EXCEPT !.parse = TRUE]
    /\ hasty' = (hasty \/ DialogOutstanding)
    /\ UNCHANGED <<stored, dialog>>

-------------------------------------------------------------------------------
(* The server, and the answers *)

\* create_service and update_service; a refusal is a FailDialog.
ServeSave(i) ==
    LET c == dialogCalls[i] IN
    /\ ~c.served
    /\ \E s \in Ids :
         /\ \/ c.kind = "create" /\ stored[s] = None
            \/ c.kind = "update" /\ s = c.id
         /\ stored' = [stored EXCEPT ![s] = IF c.kind = "create" THEN [c.form EXCEPT !.of = s]
                                                                ELSE c.form]
         /\ dialogCalls' = [dialogCalls EXCEPT ![i].served = TRUE, ![i].id = s]
    /\ UNCHANGED <<dialog, spin, hasty>>

\* The check that follows a save, with the spinner in the dialog.
ThenCheck(c, rest) ==
    /\ dialogCalls' = Append(rest, [c EXCEPT !.kind = "check", !.form = BlankForm,
                                             !.andCheck = FALSE, !.served = FALSE])
    /\ dialog' = [dialog EXCEPT
           !.editId = IF c.kind = "create" THEN c.id ELSE @,
           !.form.of = IF c.kind = "create" /\ c.fresh THEN c.id ELSE @,   \* ghost
           !.health = "loading"]

\* handleSubmit goes on: the dialog is closed, or kept for the result of a check.
ServiceSaved(c, rest) ==
    IF c.andCheck THEN ThenCheck(c, rest)
    ELSE dialog' = [dialog EXCEPT !.open = FALSE] /\ dialogCalls' = rest

\* A text about the form it was asked for, set in the form that is there.
TextCame(c, rest) ==
    /\ dialog' = [dialog EXCEPT !.form.alien = @ \/ ~c.fresh]
    /\ dialogCalls' = rest

\* The result of a check of c.id, be it that the request failed.
ServiceChecked(c, rest) ==
    /\ dialog' = [dialog EXCEPT !.health = c.id]
    /\ dialogCalls' = rest

\* Mutant of StopSpinner: the spinner stops with a good answer only.
StopSpinnerIfGood(c, good) ==
    spin' = [describe |-> spin.describe /\ ~(c.kind = "describe" /\ good),
             parse |-> spin.parse /\ c.kind # "parse"]

\* finally { setAiDescLoading(false) }, { setCurlImportLoading(false) }
StopSpinner(c, good) ==
    spin' = [describe |-> spin.describe /\ c.kind # "describe",
             parse |-> spin.parse /\ c.kind # "parse"]

AnswerDialog(i) ==
    LET c == dialogCalls[i]
        rest == RemoveAt(dialogCalls, i)
    IN /\ c.kind \in {"create", "update"} => c.served
       /\ CASE c.kind \in {"create", "update"} -> ServiceSaved(c, rest)
            [] c.kind = "check" -> ServiceChecked(c, rest)
            [] c.kind = "describe" -> TextCame(c, rest)
            [] c.kind = "parse" -> FillDialog(None, BlankForm, rest)
       /\ StopSpinner(c, TRUE)
       /\ UNCHANGED <<stored, hasty>>

\* A refusal, an error or no answer: a toast, but for a check.
FailDialog(i) ==
    LET c == dialogCalls[i]
        rest == RemoveAt(dialogCalls, i)
    IN /\ IF c.kind = "check" THEN ServiceChecked(c, rest)
                              ELSE dialogCalls' = rest /\ UNCHANGED dialog
       /\ StopSpinner(c, FALSE)
       /\ UNCHANGED <<stored, hasty>>

ReplyDialog(i) == i \in DOMAIN dialogCalls /\ (ServeSave(i) \/ AnswerDialog(i) \/ FailDialog(i))

DialogNext ==
    \/ OpenNew \/ CloseDialog \/ CheckConnection \/ DescribeService \/ ParseCurl
    \/ \E s \in Ids : OpenEdit(s)
    \/ \E andCheck \in BOOLEAN : SubmitService(andCheck)
    \/ \E i \in DOMAIN dialogCalls : ReplyDialog(i)

DialogSpec == DialogInit /\ [][DialogNext]_dialogVars

-------------------------------------------------------------------------------
(* Properties *)

\* Unless the user went on while an answer was outstanding that writes into the dialog
\* (handleSubmit with andCheck, handleGenerateDescription, handleCurlImport), a service is
\* only ever stored with the form that was opened or created for it, and with no text the
\* AI wrote about another: neither clones, closed dialogs, failed or slow plain saves nor
\* a creation that turns into an edit mix two services up.
FormOfItsOwn ==
    ~hasty => /\ \A s \in Ids : stored[s] # None => stored[s] = [of |-> s, alien |-> FALSE]
              /\ dialog.open => dialog.editId = dialog.form.of

\* Likewise a result shown in the dialog is of the service that is being edited.
HealthOfItsOwn ==
    ~hasty /\ dialog.open /\ dialog.health \in Ids => dialog.health = dialog.editId

\* A spinner of the dialog turns for a call that is under way: none is left turning when
\* the dialog is closed, filled anew, checked twice, or a call fails.
DialogSpinners ==
    /\ spin.describe <=> Pending(dialogCalls, {"describe"})
    /\ spin.parse <=> Pending(dialogCalls, {"parse"})
    /\ dialog.health = "loading" => Pending(dialogCalls, {"check"})
===============================================================================
