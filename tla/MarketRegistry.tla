----------------------------- MODULE MarketRegistry -----------------------------
(***************************************************************************)
(* runtime/registry.py: the markets the process knows, by condition id,    *)
(* with an index from tokens and one from slugs.  A registry is a value    *)
(* [markets, tokens, slugs]; every write builds a new one and publishes it *)
(* whole, as the copy-on-write dictionaries of the code do, so readers     *)
(* never see half a write.                                                 *)
(*                                                                         *)
(* A copy of a market keeps its trading status, with the reason of a pause *)
(* where later code looks at it, its tick size, which stands for the       *)
(* trading terms that the exchange may change, and whether its texts match *)
(* the strategy's universe.                                                *)
(***************************************************************************)
EXTENDS Integers, FiniteSets

CONSTANTS
  Markets,      \* condition ids
  TokensOf,     \* the outcome tokens of each market
  MarketSlug,   \* the slug of each market
  EventSlug,    \* the slug of its event, which several markets may share
  MaxTick       \* bound of the model: tick sizes are 1 .. MaxTick

Tokens == UNION {TokensOf[m] : m \in Markets}
SlugsOf(m) == {MarketSlug[m], EventSlug[m]}
Slugs == UNION {SlugsOf(m) : m \in Markets}

\* Tokens belong to one market.  Only a market alone in its event shares its
\* own slug with the event: with two markets named alike the lookup by slug
\* finds the wrong one.
ASSUME RegistryAssumption ==
  /\ TokensOf \in [Markets -> SUBSET Tokens]
  /\ \A m, n \in Markets : m # n => TokensOf[m] \intersect TokensOf[n] = {}
  /\ MarketSlug \in [Markets -> Slugs] /\ EventSlug \in [Markets -> Slugs]
  /\ \A m, n \in Markets : m # n => MarketSlug[m] \notin SlugsOf(n)
  /\ MaxTick \in Nat \ {0}

\* TradingStatus; "filtered" is PAUSED with the reason market_out_of_universe,
\* "disabled" is PAUSED for an order book that is closed.
Statuses == {"eligible", "filtered", "disabled", "closed", "resolved"}
Copies == [status : Statuses, tick : 1 .. MaxTick, match : BOOLEAN]

CONSTANTS Absent, Nobody   \* no copy of a market; no entry in an index

ASSUME AbsentAssumption == Absent \notin Copies /\ Nobody \notin Markets

Registries ==
  [markets : [Markets -> Copies \union {Absent}],
   tokens : [Tokens -> Markets \union {Nobody}],
   slugs : [Slugs -> Markets \union {Nobody}]]

EmptyRegistry ==
  [markets |-> [m \in Markets |-> Absent],
   tokens |-> [t \in Tokens |-> Nobody],
   slugs |-> [s \in Slugs |-> Nobody]]

Registered(reg, m) == reg.markets[m] # Absent

\* _detach_indexes, for the markets M: an entry that another market has taken
\* over stays.
DetachedTokens(index, M) ==
  [t \in Tokens |-> IF index[t] \in M /\ t \in TokensOf[index[t]] THEN Nobody ELSE index[t]]
DetachedSlugs(index, M) ==
  [s \in Slugs |-> IF index[s] \in M /\ s \in SlugsOf(index[s]) THEN Nobody ELSE index[s]]

Attached(index, keys, m) ==
  [k \in DOMAIN index |-> IF k \in keys THEN m ELSE index[k]]

\* _upsert_locked: the entries of the previous copy go, then those of the new
\* one are written over whatever is there.
Upsert(reg, m, copy) ==
  [markets |-> [reg.markets EXCEPT ![m] = copy],
   tokens |-> Attached(DetachedTokens(reg.tokens, {m}), TokensOf[m], m),
   slugs |-> Attached(DetachedSlugs(reg.slugs, {m}), SlugsOf(m), m)]

\* _update_market_locked: like an upsert, for a market that is there.
Update(reg, m, copy) == IF Registered(reg, m) THEN Upsert(reg, m, copy) ELSE reg

\* change_tick_size and mark_resolved.
ChangeTickSize(reg, m, tick) ==
  Update(reg, m, [reg.markets[m] EXCEPT !.tick = tick])
MarkResolved(reg, m) ==
  Update(reg, m, [reg.markets[m] EXCEPT !.status = "resolved"])

\* Mutant: the slugs of a removed market stay in their index.
RemoveMarketsNotSlugs(reg, M) ==
  [markets |-> [m \in Markets |-> IF m \in M THEN Absent ELSE reg.markets[m]],
   tokens |-> DetachedTokens(reg.tokens, M),
   slugs |-> reg.slugs]

\* _remove_market_locked, for each market of M: a slug shared with the other
\* markets of the event is lost to them too when a market of M wrote it last.
RemoveMarkets(reg, M) ==
  [markets |-> [m \in Markets |-> IF m \in M THEN Absent ELSE reg.markets[m]],
   tokens |-> DetachedTokens(reg.tokens, M),
   slugs |-> DetachedSlugs(reg.slugs, M)]

\* Readers look up the slug and then the market.
GetBySlug(reg, s) == reg.slugs[s]
GetByTokenId(reg, t) == reg.tokens[t]

\* The indexes and the markets tell the same story: a token leads to its
\* market exactly while the market is registered, so does a market's own slug,
\* and the slug of an event leads to a registered market of that event or to
\* none.
IndexesAgree(reg) ==
  /\ \A m \in Markets : \A t \in TokensOf[m] :
       GetByTokenId(reg, t) = (IF Registered(reg, m) THEN m ELSE Nobody)
  /\ \A m \in Markets : Registered(reg, m) => GetBySlug(reg, MarketSlug[m]) = m
  /\ \A s \in Slugs : GetBySlug(reg, s) # Nobody =>
       /\ Registered(reg, GetBySlug(reg, s))
       /\ s \in SlugsOf(GetBySlug(reg, s))
=================================================================================
