----------------------------- MODULE MCMarketBooks -----------------------------
(***************************************************************************)
(* MarketBooks with two price levels of at most one share; the messages    *)
(* carry sequence numbers, so that gaps are seen.                          *)
(***************************************************************************)
EXTENDS MarketBooks
================================================================================
