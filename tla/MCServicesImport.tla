--------------------------- MODULE MCServicesImport ---------------------------
(***************************************************************************)
(* ServicesImport for TLC: a table in which the user has two services, one   *)
(* of which falls back to the other and is in a group, and another user has   *)
(* one; files that make every branch happen.                                 *)
(***************************************************************************)
EXTENDS ServicesImport

CONSTANTS you, a, b, team, old, new, i1, i2, i3, i4, g1, g2

FourIds == {i1, i2, i3, i4}
TwoGroups == {g1, g2}
TwoUsers == {me, you}
TwoSlugs == {a, b}
OneName == {team}
TwoData == {old, new}

Row(owner, slug, group, fb) ==
    [owner |-> owner, slug |-> slug, group |-> group, data |-> old, fb |-> fb]
Empty == [i \in Ids |-> None]
OneGroup == [g \in GroupIds |-> IF g = g1 THEN [owner |-> me, name |-> team] ELSE None]

TwoTables ==
    {[svc |-> [Empty EXCEPT ![i1] = Row(me, a, g1, i2), ![i2] = Row(me, b, None, None)],
      grp |-> OneGroup],
     [svc |-> [Empty EXCEPT ![i1] = Row(you, a, None, None), ![i2] = Row(me, b, g1, i1)],
      grp |-> OneGroup]}

It(slug, group, data, fb) == [slug |-> slug, group |-> group, data |-> data, fb |-> fb]
File(groups, services) == [groups |-> groups, services |-> services]

SomeFiles ==
    {File(<<team>>, <<It(a, team, new, b), It(b, team, new, a)>>),
     File(<<>>, <<It(a, None, Poison, None), It(b, None, new, b)>>),
     File(<<None, team>>, <<It(None, None, new, None), It(a, None, Partial, b), It(a, team, Bad, None)>>),
     File(<<team, team>>, NotAList),
     File(<<team, Junk>>, <<It(a, None, new, None)>>),
     File(<<>>, <<It(b, None, new, a), Junk>>)}

Unborn == Permutations({i3, i4})
===============================================================================
