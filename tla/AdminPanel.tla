------------------------------- MODULE AdminPanel -------------------------------
(***************************************************************************)
(* The admin interface as a whole (App.tsx): what happens on one of its pages *)
(* from the moment it is mounted, or in all its tabs as far as the session is *)
(* concerned. A page keeps nothing when it is left, and no page reads what     *)
(* another has, so that one visit at a time is enough: the dialog and the      *)
(* list of the services page, too, share only the list, which each of the two  *)
(* modules abstracts in its own way.                                         *)
(***************************************************************************)
EXTENDS Playground, ServiceDialog, ServiceBoard, ApiKeys, Dashboard, Settings,
        BrowserSession

VARIABLE visit

Visits == {"playground", "service", "board", "keys", "dashboard", "settings", "session"}

panelVars == <<visit, vars, dialogVars, boardVars, keyVars, dashVars, settingsVars,
               sessionVars>>

PanelTypeOK ==
    /\ visit \in Visits
    /\ DialogTypeOK /\ BoardTypeOK /\ KeysTypeOK /\ DashTypeOK /\ SettingsTypeOK
    /\ SessionTypeOK

PanelInit ==
    /\ visit \in Visits
    /\ Init /\ DialogInit /\ BoardInit /\ KeysInit /\ DashInit /\ SettingsInit
    /\ SessionInit

VisitPlayground ==
    /\ visit = "playground" /\ Next
    /\ UNCHANGED <<visit, dialogVars, boardVars, keyVars, dashVars, settingsVars, sessionVars>>

VisitService ==
    /\ visit = "service" /\ DialogNext
    /\ UNCHANGED <<visit, vars, boardVars, keyVars, dashVars, settingsVars, sessionVars>>

VisitBoard ==
    /\ visit = "board" /\ BoardNext
    /\ UNCHANGED <<visit, vars, dialogVars, keyVars, dashVars, settingsVars, sessionVars>>

VisitKeys ==
    /\ visit = "keys" /\ KeysNext
    /\ UNCHANGED <<visit, vars, dialogVars, boardVars, dashVars, settingsVars, sessionVars>>

VisitDashboard ==
    /\ visit = "dashboard" /\ DashNext
    /\ UNCHANGED <<visit, vars, dialogVars, boardVars, keyVars, settingsVars, sessionVars>>

VisitSettings ==
    /\ visit = "settings" /\ SettingsNext
    /\ UNCHANGED <<visit, vars, dialogVars, boardVars, keyVars, dashVars, sessionVars>>

VisitSession ==
    /\ visit = "session" /\ SessionNext
    /\ UNCHANGED <<visit, vars, dialogVars, boardVars, keyVars, dashVars, settingsVars>>

PanelNext ==
    \/ VisitPlayground \/ VisitService \/ VisitBoard \/ VisitKeys
    \/ VisitDashboard \/ VisitSettings \/ VisitSession

PanelSpec == PanelInit /\ [][PanelNext]_panelVars

-------------------------------------------------------------------------------
(* Properties *)

\* No button stays disabled, and no spinner turns, for a call that is over or was never
\* sent, whatever was closed, opened, picked or failed meanwhile: since every call of
\* axios ends in its then or its catch, each spinner ends.
SpinnersTurn == DialogSpinners /\ DashSpinners
===============================================================================
