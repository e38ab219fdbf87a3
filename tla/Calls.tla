--------------------------------- MODULE Calls --------------------------------
(***************************************************************************)
(* What the pages of the admin interface have in common. A page keeps its    *)
(* calls in a sequence, the oldest first, from which answers are taken in any  *)
(* order: axios neither orders nor withdraws requests, nor does it give them  *)
(* a timeout (api/client.ts).                                                *)
(***************************************************************************)
EXTENDS Naturals, Sequences, SequencesExt

CONSTANTS None,         \* null
          Gone,         \* what was there and was deleted
          MaxCalls      \* bound: calls under way when the user starts another

ASSUME CallsAssumption == None # Gone /\ MaxCalls \in Nat

\* The user starts something that sends new calls.
MaySend(calls) == Len(calls) < MaxCalls

\* A call of one of the kinds is under way.
Pending(calls, kinds) == \E i \in DOMAIN calls : calls[i].kind \in kinds

\* An older call of its kind is under way, whose answer will come after that of call i.
Overtakes(calls, i) == \E j \in 1..(i - 1) : calls[j].kind = calls[i].kind
===============================================================================
