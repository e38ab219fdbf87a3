-------------------------- MODULE MCFallbackRegistry --------------------------
(***************************************************************************)
(* FallbackRegistry for TLC: three rows are the least on which a chain has  *)
(* an inner hop to walk, and on which two updates can close a cycle.        *)
(***************************************************************************)
EXTENDS FallbackRegistry

CONSTANTS s1, s2, s3, llm, stt, u1, u2, c1, i1

ThreeServices == {s1, s2, s3}
TwoServices == {s1, s2}
OneType == {llm}
TwoTypes == {llm, stt}
OneUpdater == {u1}
TwoUpdaters == {u1, u2}
OneCreator == {c1}
OneImporter == {i1}
Nobody == {}
NoRow == {}
===============================================================================
