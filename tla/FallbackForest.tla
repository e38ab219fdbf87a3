---------------------------- MODULE FallbackForest ----------------------------
(***************************************************************************)
(* What the service registry promises about fallback links, without saying  *)
(* how: every service row has at most one fallback, a link always points to *)
(* a row that exists, and following links always comes to an end.           *)
(* FallbackRegistry is the handlers that have to keep this promise.         *)
(***************************************************************************)
CONSTANTS Services,   \* the ids a service row can ever get (uuid4, never reused)
          Existing,   \* the rows there at the start
          None        \* SQL NULL

VARIABLES life,       \* life[s]: has the row s not been inserted, is it there, is it deleted
          fb          \* fb[s]: column fallback_service_id of the row s

vars == <<life, fb>>

Life == {"unborn", "live", "deleted"}

\* No set of rows keeps its own fallbacks: on a finite table, no cycle.
Acyclic == \A T \in SUBSET Services : T # {} => \E s \in T : fb[s] \notin T

\* A link joins two rows that are there.
NoDanglingLink ==
    \A s \in Services : fb[s] # None => life[s] = "live" /\ life[fb[s]] = "live"

Init == /\ life = [s \in Services |-> IF s \in Existing THEN "live" ELSE "unborn"]
        /\ fb = [s \in Services |-> None]

Live(f) == f \in Services /\ life[f] = "live"

Add(s, f) == /\ life[s] = "unborn"
             /\ f = None \/ Live(f)
             /\ life' = [life EXCEPT ![s] = "live"]
             /\ fb' = [fb EXCEPT ![s] = f]

\* A link may be drawn only when nothing on the new chain leads back.
Link(s, f) == /\ Live(s) /\ Live(f)
              /\ fb' = [fb EXCEPT ![s] = f]
              /\ Acyclic'
              /\ UNCHANGED life

Unlink(s) == /\ Live(s)
             /\ fb' = [fb EXCEPT ![s] = None]
             /\ UNCHANGED life

\* Rows that pointed to a removed row lose their link (ON DELETE SET NULL).
Remove(s) == /\ Live(s)
             /\ life' = [life EXCEPT ![s] = "deleted"]
             /\ fb' = [x \in Services |-> IF x = s \/ fb[x] = s THEN None ELSE fb[x]]

Next == \E s \in Services :
            \/ \E f \in Services \cup {None} : Add(s, f)
            \/ \E f \in Services : Link(s, f)
            \/ Unlink(s)
            \/ Remove(s)

Spec == Init /\ [][Next]_vars
===============================================================================
