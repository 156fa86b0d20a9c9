------------------------------- MODULE MCEventBus -------------------------------
(* Small capacities for EventBus. *)
EXTENDS EventBus

MCCapacity == [l \in Lanes |-> 1]
================================================================================
