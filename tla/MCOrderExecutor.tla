----------------------------- MODULE MCOrderExecutor -----------------------------
(* Two callers that compete for two keys. *)
EXTENDS OrderExecutor

================================================================================
