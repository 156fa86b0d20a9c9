---------------------------- MODULE MCExitCoverage ----------------------------
(***************************************************************************)
(* The exits for TLC.  exits: the reconcile loop and one entry, whose      *)
(* trades the user websocket reports up to twice, late or never.           *)
(* exits_unfunded: an entry that spends the balance.                       *)
(***************************************************************************)
EXTENDS ExitCoverage

================================================================================
