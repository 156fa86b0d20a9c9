------------------------------ MODULE MCEntryGate ------------------------------
(***************************************************************************)
(* The reconcile loop and one admin call over one market.                  *)
(***************************************************************************)
EXTENDS EntryGate

================================================================================
