--------------------------- MODULE MCAccountRecords ---------------------------
(***************************************************************************)
(* AccountRecords with one buy of one share, an outbox with room for every *)
(* event, one retry and batches of two.  The account's events and the      *)
(* market's, which share no row, do not occur in one behaviour.            *)
(***************************************************************************)
EXTENDS AccountRecords

CONSTANTS entry

MCSide == [o \in Orders |-> "buy"]
MCSize == [o \in Orders |-> 1]
MCPriority == [t \in Types |-> CASE t = "discovered"   -> 2
                                 [] t = "filtered_out" -> 3
                                 [] OTHER              -> 0]
MCMixes ==
  {{"order", "fill", "position"}, {"order", "balance"},
   {"discovered", "filtered_out", "resolved"}}
================================================================================
