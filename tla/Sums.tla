---------------------------------- MODULE Sums ----------------------------------
(***************************************************************************)
(* Sums of amounts.  The sum is the size of a set, about which the         *)
(* theorems on finite sets say all that is needed.                         *)
(***************************************************************************)
EXTENDS Integers, FiniteSets

\* Each unit of each amount f[x] is counted once.
Sum(f) == Cardinality(UNION {{x} \X (1 .. f[x]) : x \in DOMAIN f})
================================================================================
