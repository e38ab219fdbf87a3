------------------------------ MODULE MCAdminPanel ------------------------------
(***************************************************************************)
(* AdminPanel for TLC: for the playground a chat that streams and a service  *)
(* of another type, data lines having a beginning and an end, so that a chunk *)
(* can cut them; for the other pages the least on which two answers or two     *)
(* objects can be mistaken for each other.                                  *)
(***************************************************************************)
EXTENDS AdminPanel

CONSTANTS chat, tool, nl, begin1, end1, begin2, end2, other,
          s1, s2, card1, group1, key1, slug1, day, week, unfiltered, errors, log1, log2,
          ann, bob, tab1, tab2, llm

TwoServices == {chat, tool}
OneChat == {chat}
Lines == {<<begin1, end1>>, <<begin2, end2>>}

\* Two pieces with a line to skip between them; and a last line without newline.
Streams == {<<begin1, end1, nl, other, nl, begin2, end2, nl>>,
            <<begin2, end2, nl, begin1, end1>>}

\* One service to edit, and one yet to be created.
DialogIds == {s1, s2}
StoredIds == {s1}

OneCard == {card1}
OneGroup == {group1}
OneKey == {key1}
OneSlug == {slug1}
TwoPeriods == {day, week}
TwoQueries == {unfiltered, errors}
TwoLogs == {log1, log2}
OneLlm == {llm}
TwoUsers == {ann, bob}
TwoTabs == {tab1, tab2}
===============================================================================
