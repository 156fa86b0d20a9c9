----------------------------- MODULE MCPersistence -----------------------------
(***************************************************************************)
(* Model values for PersistenceWorker: a P0 order event, a P2 market event *)
(* that merges (its payload holds no snapshot), a P3 rejected market that  *)
(* names no market, and a P3 reconcile_applied, which names one.           *)
(***************************************************************************)
EXTENDS PersistenceWorker

MCPriorityOf ==
  [t \in Types |-> CASE t = "order" -> 0
                     [] t = "market" -> 2
                     [] OTHER -> 3]

MCIdentified == Types \ {"rejected"}

MCKindOf ==
  [t \in Types |-> CASE t = "order" -> "order"
                     [] OTHER -> "none"]
================================================================================
