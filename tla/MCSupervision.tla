----------------------------- MODULE MCSupervision -----------------------------
(***************************************************************************)
(* Supervision with two queries, of two pages and of one.                  *)
(***************************************************************************)
EXTENDS Supervision

MCQueries == <<"title", "tag">>
MCPagesOf == [q \in {"title", "tag"} |-> IF q = "title" THEN 2 ELSE 1]
================================================================================
