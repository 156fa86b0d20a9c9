---------------------------- MODULE MCEntryPlanning ----------------------------
(***************************************************************************)
(* The planning of entries for TLC: three markets, one of them with a      *)
(* larger smallest order, and amounts small enough that a third of the     *)
(* budget is rounded.                                                      *)
(***************************************************************************)
EXTENDS EntryPlanning, TLC

CONSTANTS m1, m2, m3

\* m1 and m2 differ in nothing: sound, as the runs check invariants only.
Alike == Permutations({m1, m2})

MCMinOrder == [m \in Markets |-> IF m = m3 THEN 2 ELSE 1]
================================================================================
