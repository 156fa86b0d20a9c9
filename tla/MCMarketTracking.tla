---------------------------- MODULE MCMarketTracking ----------------------------
(***************************************************************************)
(* Model values for MarketTracking: a market of two tokens and one of one  *)
(* token, both of one event, so that they share its slug.                  *)
(***************************************************************************)
EXTENDS MarketTracking

CONSTANTS m1, m2, yes, no, other, slug1, slug2, event

MCTokensOf == [m \in Markets |-> IF m = m1 THEN {yes, no} ELSE {other}]
MCMarketSlug == [m \in Markets |-> IF m = m1 THEN slug1 ELSE slug2]
MCEventSlug == [m \in Markets |-> event]
================================================================================
