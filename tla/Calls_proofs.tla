------------------------------ MODULE Calls_proofs ------------------------------
(***************************************************************************)
(* What the proofs about the pages of the admin interface need to know of a   *)
(* sequence of calls: what is left of it when a call is answered, what is      *)
(* added when one is sent, which call of a kind is the newest, and that there  *)
(* is only one. None of it depends on what the calls are.                    *)
(***************************************************************************)
EXTENDS Calls, TLAPS

\* No call of its kind was sent after it.
Newest(calls, i) ==
    i \in DOMAIN calls /\ \A j \in DOMAIN calls : j > i => calls[j].kind # calls[i].kind

\* No two calls of this kind are under way.
Single(calls, kind) ==
    \A i, j \in DOMAIN calls : calls[i].kind = kind /\ calls[j].kind = kind => i = j

-------------------------------------------------------------------------------
(* A call is answered *)

LEMMA CallIn ==
    ASSUME NEW C, NEW calls \in Seq(C), NEW i \in DOMAIN calls
    PROVE  i \in 1..Len(calls) /\ Len(calls) \in Nat /\ i \in Nat /\ calls[i] \in C
  OBVIOUS

LEMMA CallsLeft ==
    ASSUME NEW C, NEW calls \in Seq(C), NEW i \in DOMAIN calls
    PROVE  /\ RemoveAt(calls, i) \in Seq(C)
           /\ Len(RemoveAt(calls, i)) = Len(calls) - 1
           /\ \A j \in 1..(Len(calls) - 1) :
                RemoveAt(calls, i)[j] = IF j < i THEN calls[j] ELSE calls[j + 1]
<1> DEFINE before == SubSeq(calls, 1, i - 1)
           after == SubSeq(calls, i + 1, Len(calls))
<1>1. i \in 1..Len(calls) /\ Len(calls) \in Nat
  BY CallIn
<1>2. before \in Seq(C) /\ Len(before) = i - 1 /\ \A j \in 1..(i - 1) : before[j] = calls[j]
  BY <1>1
<1>3. /\ after \in Seq(C) /\ Len(after) = Len(calls) - i
      /\ \A j \in 1..(Len(calls) - i) : after[j] = calls[j + i]
  BY <1>1
<1>4. RemoveAt(calls, i) = before \o after
  BY DEF RemoveAt
<1> HIDE DEF before, after
<1>5. before \o after \in Seq(C) /\ Len(before \o after) = Len(calls) - 1
  BY <1>1, <1>2, <1>3
<1>6. ASSUME NEW j \in 1..(Len(calls) - 1)
      PROVE  (before \o after)[j] = IF j < i THEN calls[j] ELSE calls[j + 1]
  <2>1. CASE j < i
    BY <1>1, <1>2, <1>3, <2>1
  <2>2. CASE ~(j < i)
    <3>1. (before \o after)[j] = after[j - (i - 1)]
      BY <1>1, <1>2, <1>3, <2>2
    <3>2. j - (i - 1) \in 1..(Len(calls) - i) /\ (j - (i - 1)) + i = j + 1
      BY <1>1, <2>2
    <3> QED BY <1>1, <1>3, <2>2, <3>1, <3>2
  <2> QED BY <1>1, <2>1, <2>2
<1> QED BY <1>4, <1>5, <1>6

\* Where the calls that are left have been.
LEMMA LeftWas ==
    ASSUME NEW C, NEW calls \in Seq(C), NEW i \in DOMAIN calls,
           NEW j \in DOMAIN RemoveAt(calls, i)
    PROVE  \E m \in DOMAIN calls : m # i /\ calls[m] = RemoveAt(calls, i)[j]
                                   /\ m = IF j < i THEN j ELSE j + 1
<1>1. j \in 1..(Len(calls) - 1) /\ i \in 1..Len(calls) /\ Len(calls) \in Nat
  BY CallsLeft, CallIn
<1>2. RemoveAt(calls, i)[j] = IF j < i THEN calls[j] ELSE calls[j + 1]
  BY <1>1, CallsLeft
<1> QED BY <1>1, <1>2

\* Every other call is left, and in its order.
LEMMA OthersLeft ==
    ASSUME NEW C, NEW calls \in Seq(C), NEW i \in DOMAIN calls,
           NEW m \in DOMAIN calls, m # i
    PROVE  \E j \in DOMAIN RemoveAt(calls, i) :
               RemoveAt(calls, i)[j] = calls[m] /\ j = IF m < i THEN m ELSE m - 1
<1>1. m \in 1..Len(calls) /\ i \in 1..Len(calls) /\ Len(calls) \in Nat
  BY CallIn
<1> DEFINE j == IF m < i THEN m ELSE m - 1
<1>2. j \in 1..(Len(calls) - 1)
  BY <1>1
<1>3. RemoveAt(calls, i)[j] = IF j < i THEN calls[j] ELSE calls[j + 1]
  BY <1>2, CallsLeft
<1>4. RemoveAt(calls, i)[j] = calls[m]
  BY <1>1, <1>3
<1>5. j \in DOMAIN RemoveAt(calls, i)
  BY <1>2, CallsLeft
<1> QED BY <1>4, <1>5

LEMMA PendingLeft ==
    ASSUME NEW C, NEW calls \in Seq(C), NEW i \in DOMAIN calls, NEW kinds
    PROVE  /\ Pending(RemoveAt(calls, i), kinds) => Pending(calls, kinds)
           /\ Pending(calls, kinds) /\ calls[i].kind \notin kinds
                => Pending(RemoveAt(calls, i), kinds)
  BY LeftWas, OthersLeft DEF Pending

LEMMA SingleLeft ==
    ASSUME NEW C, NEW calls \in Seq(C), NEW i \in DOMAIN calls, NEW kind,
           Single(calls, kind)
    PROVE  /\ Single(RemoveAt(calls, i), kind)
           /\ calls[i].kind = kind => ~Pending(RemoveAt(calls, i), {kind})
<1> DEFINE rest == RemoveAt(calls, i)
<1>1. \A j \in DOMAIN rest : j \in Int
  BY CallsLeft
<1>2. i \in Int
  BY CallIn
<1>3. ASSUME NEW j \in DOMAIN rest, NEW k \in DOMAIN rest,
             rest[j].kind = kind, rest[k].kind = kind
      PROVE  j = k
  <2>1. PICK m \in DOMAIN calls : calls[m] = rest[j] /\ m = IF j < i THEN j ELSE j + 1
    BY LeftWas
  <2>2. PICK n \in DOMAIN calls : calls[n] = rest[k] /\ n = IF k < i THEN k ELSE k + 1
    BY LeftWas
  <2>3. m = n
    BY <1>3, <2>1, <2>2 DEF Single
  <2> QED BY <1>1, <1>2, <2>1, <2>2, <2>3
<1>4. ASSUME calls[i].kind = kind, NEW j \in DOMAIN rest, rest[j].kind = kind
      PROVE  FALSE
  BY <1>4, LeftWas DEF Single
<1> QED BY <1>3, <1>4 DEF Single, Pending

\* The newest call of a kind that is left has been the newest, unless an answer of its
\* kind overtook it.
LEMMA NewestLeft ==
    ASSUME NEW C, NEW calls \in Seq(C), NEW i \in DOMAIN calls,
           NEW j \in DOMAIN RemoveAt(calls, i), Newest(RemoveAt(calls, i), j),
           ~Overtakes(calls, i) \/ calls[i].kind # RemoveAt(calls, i)[j].kind
    PROVE  \E m \in DOMAIN calls : Newest(calls, m) /\ calls[m] = RemoveAt(calls, i)[j]
<1> DEFINE rest == RemoveAt(calls, i)
<1>1. PICK m \in DOMAIN calls : m # i /\ calls[m] = rest[j] /\ m = IF j < i THEN j ELSE j + 1
  BY LeftWas
<1>2. i \in Nat /\ m \in Nat /\ j \in Nat /\ m \in 1..Len(calls)
  BY CallIn, CallsLeft
<1>3. ASSUME NEW n \in DOMAIN calls, n > m PROVE calls[n].kind # calls[m].kind
  <2>1. CASE n = i
    <3>1. m \in 1..(i - 1)
      BY <1>2, <1>3, <2>1
    <3> QED BY <1>1, <2>1, <3>1 DEF Overtakes
  <2>2. CASE n # i
    <3>1. PICK k \in DOMAIN rest : rest[k] = calls[n] /\ k = IF n < i THEN n ELSE n - 1
      BY <2>2, OthersLeft
    <3>2. n \in Nat
      BY CallIn
    <3>3. k > j
      BY <1>1, <1>2, <1>3, <2>2, <3>1, <3>2
    <3> QED BY <1>1, <3>1, <3>3 DEF Newest
  <2> QED BY <2>1, <2>2
<1> QED BY <1>1, <1>3 DEF Newest

\* A call without an older one of its kind is the newest, if no other of its kind is left.
LEMMA LastIsNewest ==
    ASSUME NEW C, NEW calls \in Seq(C), NEW i \in DOMAIN calls,
           ~Pending(RemoveAt(calls, i), {calls[i].kind})
    PROVE  Newest(calls, i)
<1>1. ASSUME NEW m \in DOMAIN calls, m > i PROVE calls[m].kind # calls[i].kind
  <2>1. m # i
    BY <1>1, CallIn
  <2> QED BY <2>1, OthersLeft DEF Pending
<1> QED BY <1>1 DEF Newest

-------------------------------------------------------------------------------
(* Calls are sent *)

LEMMA OneMore ==
    ASSUME NEW C, NEW calls \in Seq(C), NEW c \in C
    PROVE  /\ <<c>> \in Seq(C) /\ Append(calls, c) = calls \o <<c>>
           /\ DOMAIN <<c>> = {1} /\ <<c>>[1] = c
  OBVIOUS

\* A call is one that was under way, at its place, or one of those that are sent.
LEMMA MoreWas ==
    ASSUME NEW C, NEW calls \in Seq(C), NEW more \in Seq(C),
           NEW k \in DOMAIN (calls \o more)
    PROVE  \/ k \in DOMAIN calls /\ (calls \o more)[k] = calls[k]
           \/ \E m \in DOMAIN more : k = Len(calls) + m /\ (calls \o more)[k] = more[m]
<1>1. k \in 1..(Len(calls) + Len(more)) /\ Len(calls) \in Nat /\ Len(more) \in Nat
  OBVIOUS
<1>2. (calls \o more)[k] = IF k <= Len(calls) THEN calls[k] ELSE more[k - Len(calls)]
  BY <1>1
<1>3. CASE k <= Len(calls)
  BY <1>1, <1>2, <1>3
<1>4. CASE ~(k <= Len(calls))
  <2>1. k - Len(calls) \in DOMAIN more /\ k = Len(calls) + (k - Len(calls))
    BY <1>1, <1>4
  <2> QED BY <1>2, <1>4, <2>1
<1> QED BY <1>3, <1>4

LEMMA AllThere ==
    ASSUME NEW C, NEW calls \in Seq(C), NEW more \in Seq(C)
    PROVE  /\ calls \o more \in Seq(C) /\ Len(calls) \in Nat
           /\ \A k \in DOMAIN calls : k \in DOMAIN (calls \o more) /\ (calls \o more)[k] = calls[k]
                                      /\ k \in Nat /\ k <= Len(calls)
           /\ \A m \in DOMAIN more : /\ Len(calls) + m \in DOMAIN (calls \o more)
                                     /\ (calls \o more)[Len(calls) + m] = more[m]
                                     /\ m \in Nat \ {0}
<1>1. /\ calls \o more \in Seq(C) /\ Len(calls) \in Nat /\ Len(more) \in Nat
      /\ DOMAIN calls = 1..Len(calls) /\ DOMAIN more = 1..Len(more)
      /\ DOMAIN (calls \o more) = 1..(Len(calls) + Len(more))
  OBVIOUS
<1>2. ASSUME NEW k \in 1..(Len(calls) + Len(more))
      PROVE  (calls \o more)[k] = IF k <= Len(calls) THEN calls[k] ELSE more[k - Len(calls)]
  OBVIOUS
<1>3. ASSUME NEW m \in DOMAIN more PROVE (calls \o more)[Len(calls) + m] = more[m]
  <2>1. Len(calls) + m \in 1..(Len(calls) + Len(more)) /\ ~(Len(calls) + m <= Len(calls))
    BY <1>1
  <2>2. (Len(calls) + m) - Len(calls) = m
    BY <1>1
  <2> QED BY <1>2, <2>1, <2>2
<1>4. ASSUME NEW k \in DOMAIN calls PROVE (calls \o more)[k] = calls[k]
  BY <1>1, <1>2
<1> QED BY <1>1, <1>3, <1>4

LEMMA PendingMore ==
    ASSUME NEW C, NEW calls \in Seq(C), NEW more \in Seq(C), NEW kinds
    PROVE  Pending(calls \o more, kinds) <=> Pending(calls, kinds) \/ Pending(more, kinds)
  BY MoreWas, AllThere DEF Pending

LEMMA SingleMore ==
    ASSUME NEW C, NEW calls \in Seq(C), NEW more \in Seq(C), NEW kind,
           Single(calls, kind), Single(more, kind),
           ~Pending(calls, {kind}) \/ ~Pending(more, {kind})
    PROVE  Single(calls \o more, kind)
<1> SUFFICES ASSUME NEW j \in DOMAIN (calls \o more), NEW k \in DOMAIN (calls \o more),
                    (calls \o more)[j].kind = kind, (calls \o more)[k].kind = kind
             PROVE  j = k
  BY DEF Single
<1>1. CASE Pending(calls, {kind})
  BY <1>1, MoreWas DEF Single, Pending
<1>2. CASE ~Pending(calls, {kind})
  <2>1. PICK m \in DOMAIN more : j = Len(calls) + m /\ more[m].kind = kind
    BY <1>2, MoreWas DEF Pending
  <2>2. PICK n \in DOMAIN more : k = Len(calls) + n /\ more[n].kind = kind
    BY <1>2, MoreWas DEF Pending
  <2> QED BY <2>1, <2>2 DEF Single
<1> QED BY <1>1, <1>2

\* Likewise for one call.
LEMMA OneSent ==
    ASSUME NEW C, NEW calls \in Seq(C), NEW c \in C
    PROVE  /\ calls \o <<c>> \in Seq(C)
           /\ \A kinds : Pending(calls \o <<c>>, kinds) <=> Pending(calls, kinds) \/ c.kind \in kinds
           /\ \A kind : Single(calls, kind) /\ (~Pending(calls, {kind}) \/ c.kind # kind)
                        => Single(calls \o <<c>>, kind)
<1>1. /\ <<c>> \in Seq(C) /\ \A kinds : Pending(<<c>>, kinds) <=> c.kind \in kinds
      /\ \A kind : Single(<<c>>, kind)
  BY OneMore DEF Pending, Single
<1> HIDE DEF Pending
<1> QED BY <1>1, AllThere, PendingMore, SingleMore

\* The newest call of a kind is the newest of those that are sent, if there is one.
LEMMA NewestMore ==
    ASSUME NEW C, NEW calls \in Seq(C), NEW more \in Seq(C),
           NEW k \in DOMAIN (calls \o more), Newest(calls \o more, k)
    PROVE  \/ /\ Newest(calls, k) /\ (calls \o more)[k] = calls[k]
              /\ ~Pending(more, {calls[k].kind})
           \/ \E m \in DOMAIN more : (calls \o more)[k] = more[m] /\ Newest(more, m)
<1>1. CASE k \in DOMAIN calls /\ (calls \o more)[k] = calls[k]
  <2>1. Newest(calls, k)
    BY <1>1, AllThere DEF Newest
  <2>2. ASSUME NEW m \in DOMAIN more, more[m].kind = calls[k].kind PROVE FALSE
    <3>1. Len(calls) + m > k
      BY <1>1, AllThere
    <3> QED BY <1>1, <2>2, <3>1, AllThere DEF Newest
  <2> QED BY <1>1, <2>1, <2>2 DEF Pending
<1>2. ASSUME NEW m \in DOMAIN more, k = Len(calls) + m, (calls \o more)[k] = more[m]
      PROVE  Newest(more, m)
  <2>1. ASSUME NEW n \in DOMAIN more, n > m PROVE more[n].kind # more[m].kind
    <3>1. Len(calls) + n > k
      BY <1>2, <2>1, AllThere
    <3>2. Len(calls) + n \in DOMAIN (calls \o more) /\ (calls \o more)[Len(calls) + n] = more[n]
      BY AllThere
    <3> QED BY <1>2, <3>1, <3>2 DEF Newest
  <2> QED BY <2>1 DEF Newest
<1> QED BY <1>1, <1>2, MoreWas

LEMMA Joined ==
    ASSUME NEW a, NEW b, NEW c
    PROVE  <<a>> \o <<b>> = <<a, b>> /\ <<a, b>> \o <<c>> = <<a, b, c>>
<1> DEFINE S == {a, b, c}
<1>1. /\ <<a>> \in Seq(S) /\ <<b>> \in Seq(S) /\ <<c>> \in Seq(S)
      /\ <<a, b>> \in Seq(S) /\ <<a, b, c>> \in Seq(S)
  OBVIOUS
<1>2. ASSUME NEW s \in Seq(S), NEW t \in Seq(S)
      PROVE  /\ s \o t \in Seq(S) /\ Len(s \o t) = Len(s) + Len(t)
             /\ \A i \in 1..(Len(s) + Len(t)) :
                  (s \o t)[i] = IF i <= Len(s) THEN s[i] ELSE t[i - Len(s)]
  OBVIOUS
<1>3. ASSUME NEW s \in Seq(S), NEW t \in Seq(S), Len(s) = Len(t),
             \A i \in 1..Len(s) : s[i] = t[i]
      PROVE  s = t
  BY <1>3
<1>4. /\ Len(<<a>>) = 1 /\ Len(<<b>>) = 1 /\ Len(<<c>>) = 1 /\ Len(<<a, b>>) = 2
      /\ Len(<<a, b, c>>) = 3
      /\ <<a>>[1] = a /\ <<b>>[1] = b /\ <<c>>[1] = c /\ <<a, b>>[1] = a /\ <<a, b>>[2] = b
      /\ <<a, b, c>>[1] = a /\ <<a, b, c>>[2] = b /\ <<a, b, c>>[3] = c
  OBVIOUS
<1>5. <<a>> \o <<b>> = <<a, b>>
  <2>1. Len(<<a>> \o <<b>>) = 2 /\ (<<a>> \o <<b>>)[1] = a /\ (<<a>> \o <<b>>)[2] = b
    BY <1>1, <1>2, <1>4
  <2>2. \A i \in 1..2 : (<<a>> \o <<b>>)[i] = <<a, b>>[i]
    BY <1>4, <2>1
  <2>3. <<a>> \o <<b>> \in Seq(S)
    BY <1>1, <1>2
  <2> QED BY <1>1, <1>3, <1>4, <2>1, <2>2, <2>3
<1>6. <<a, b>> \o <<c>> = <<a, b, c>>
  <2>1. /\ Len(<<a, b>> \o <<c>>) = 3 /\ (<<a, b>> \o <<c>>)[1] = a
        /\ (<<a, b>> \o <<c>>)[2] = b /\ (<<a, b>> \o <<c>>)[3] = c
    BY <1>1, <1>2, <1>4
  <2>2. \A i \in 1..3 : (<<a, b>> \o <<c>>)[i] = <<a, b, c>>[i]
    BY <1>4, <2>1
  <2>3. <<a, b>> \o <<c>> \in Seq(S)
    BY <1>1, <1>2
  <2> QED BY <1>1, <1>3, <1>4, <2>1, <2>2, <2>3
<1> QED BY <1>5, <1>6

-------------------------------------------------------------------------------
(* Calls change, but not their kinds *)

SameKinds(calls, others) ==
    /\ DOMAIN others = DOMAIN calls
    /\ \A i \in DOMAIN calls : others[i].kind = calls[i].kind

LEMMA OneReplaced ==
    ASSUME NEW C, NEW calls \in Seq(C), NEW i \in DOMAIN calls, NEW c \in C,
           c.kind = calls[i].kind
    PROVE  /\ [calls EXCEPT ![i] = c] \in Seq(C)
           /\ \A j \in DOMAIN calls :
                [calls EXCEPT ![i] = c][j] = IF j = i THEN c ELSE calls[j]
           /\ SameKinds(calls, [calls EXCEPT ![i] = c])
  BY DEF SameKinds

LEMMA KindsStay ==
    ASSUME NEW calls, NEW others, SameKinds(calls, others)
    PROVE  /\ \A kinds : Pending(others, kinds) <=> Pending(calls, kinds)
           /\ \A kind : Single(others, kind) <=> Single(calls, kind)
           /\ \A i : Newest(others, i) <=> Newest(calls, i)
<1>1. ASSUME NEW kinds PROVE Pending(others, kinds) <=> Pending(calls, kinds)
  BY DEF SameKinds, Pending
<1>2. ASSUME NEW kind PROVE Single(others, kind) <=> Single(calls, kind)
  BY DEF SameKinds, Single
<1>3. ASSUME NEW i PROVE Newest(others, i) <=> Newest(calls, i)
  BY Zenon DEF SameKinds, Newest
<1> QED BY <1>1, <1>2, <1>3
===============================================================================
