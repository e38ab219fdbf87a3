------------------------------ MODULE MCAccounts ------------------------------
(***************************************************************************)
(* Accounts for TLC: three rows (the seed administrator and two whose names *)
(* may clash), and bodies that set one flag each.                           *)
(***************************************************************************)
EXTENDS Accounts, TLC

CONSTANTS ua, ub, uc, admin, bob, h1, g1, g2

ThreeUsers == {ua, ub, uc}
TwoUsers == {ua, ub}
TwoNames == {admin, bob}
OneSession == {h1}
OneRegistrar == {g1}
TwoRegistrars == {g1, g2}
WithoutReject == {"update", "approve", "delete"}
AllOps == {"update", "approve", "reject", "delete"}

OneFlag == {[f \in Flags |-> IF f = g THEN v ELSE Keep] : g \in Flags, v \in {TRUE, FALSE, Null}}

\* Sound: invariants and a property of single steps, none of which names an id.
Symmetry == Permutations(ThreeUsers) \cup Permutations(TwoRegistrars)
===============================================================================
