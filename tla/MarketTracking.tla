----------------------------- MODULE MarketTracking -----------------------------
(***************************************************************************)
(* Which markets the process knows, and what it believes of them.  Four    *)
(* tasks write the registry and the websocket worker's own copies: the     *)
(* discovery scan, the market websocket loop, the reconcile run, which     *)
(* asks the exchange about every market and applies the answers later, and *)
(* the pruning at its end.  The exchange changes meanwhile, and entries    *)
(* are sent and answered.                                                  *)
(***************************************************************************)
EXTENDS MarketRegistry

CONSTANTS
  Active,     \* bound of the model: the markets that change and are entered
  Scopes,     \* the sets of markets a reconcile run may be asked to look at
  MaxEdits    \* bound of the model: changes the exchange makes

ASSUME EditsAssumption ==
  Active \subseteq Markets /\ Scopes \subseteq SUBSET Markets /\ MaxEdits \in Nat

VARIABLES
  gamma,      \* the exchange: [listed, clob, match, tick, resolved]
  edits,      \* changes it has made so far
  pushed,     \* websocket messages under way, <<kind, market>>
  reg,        \* MarketRegistry
  tracked,    \* MarketWsWorker._tracked_markets
  frozen,     \* tokens whose book takes no more messages, BookState.resolved
  page,       \* what the discovery scan has fetched and not ingested
  run,        \* the reconcile run: [asked, applied, snap, got]
  account,    \* exposure of each market: none, entering, held
  late        \* history: markets removed while an entry was on its way

known == <<reg, tracked, frozen, late>>
exchange == <<gamma, edits, pushed>>
vars == <<exchange, known, page, run, account>>

Listings == [listed : BOOLEAN, clob : BOOLEAN, match : BOOLEAN,
             tick : 1 .. MaxTick, resolved : BOOLEAN]
Kinds == {"market_resolved", "tick_size_change", "new_market"}
NothingGot == [m \in Markets |-> Absent]
Idle == [asked |-> Markets, applied |-> Markets, snap |-> NothingGot, got |-> NothingGot]

Init ==
  /\ gamma = [m \in Markets |-> [listed |-> TRUE, clob |-> TRUE, match |-> TRUE,
                                 tick |-> 1, resolved |-> FALSE]]
  /\ edits = 0
  /\ pushed = {}
  /\ reg = EmptyRegistry
  /\ tracked = [t \in Tokens |-> Absent]
  /\ frozen = {}
  /\ page = NothingGot
  /\ run = Idle
  /\ account = [m \in Markets |-> "none"]
  /\ late = {}

--------------------------------------------------------------------------------
\* The exchange.  A resolution, a new tick size and a listing are also pushed
\* on the websocket; a market that resolves stays listed for a while.
Edit(m, new, messages) ==
  /\ edits < MaxEdits
  /\ edits' = edits + 1
  /\ gamma' = [gamma EXCEPT ![m] = new]
  /\ pushed' = pushed \union messages
  /\ UNCHANGED <<known, page, run, account>>

Closes(m) == gamma[m].listed /\ Edit(m, [gamma[m] EXCEPT !.listed = FALSE], {})
Resolves(m) ==
  /\ ~gamma[m].resolved
  /\ Edit(m, [gamma[m] EXCEPT !.resolved = TRUE], {<<"market_resolved", m>>})
SwitchesBook(m) == Edit(m, [gamma[m] EXCEPT !.clob = ~@], {})
Retitled(m) == Edit(m, [gamma[m] EXCEPT !.match = ~@], {<<"new_market", m>>})
NewTick(m) ==
  \E tick \in 1 .. MaxTick \ {gamma[m].tick} :
    Edit(m, [gamma[m] EXCEPT !.tick = tick], {<<"tick_size_change", m>>})

\* No message need ever be taken: a message that stays is one that was lost, by
\* a connection that dropped or a queue that was drained.

--------------------------------------------------------------------------------
\* track_market and untrack_market: the worker keeps a copy for every token.
Copied(copies, m, copy) ==
  [t \in Tokens |-> IF t \in TokensOf[m] THEN copy ELSE copies[t]]

Track(m, copy) ==
  /\ reg' = Upsert(reg, m, copy)
  /\ tracked' = Copied(tracked, m, copy)
  /\ late' = late \ {m}
  /\ UNCHANGED frozen

Untrack(M) ==
  /\ reg' = RemoveMarkets(reg, M)
  /\ tracked' = [t \in Tokens |-> IF \E m \in M : t \in TokensOf[m] THEN Absent ELSE tracked[t]]
  /\ frozen' = {t \in frozen : \A m \in M : t \notin TokensOf[m]}
  /\ late' = late \union {m \in M : account[m] = "entering"}

\* Mutant: only what is being bought counts as exposure.
ExposedByBuys(m) == account[m] = "entering"

\* should_keep_tracking and _market_has_exposure: shares and open orders count,
\* a buy that has not been answered yet has left neither.
Exposed(m) == account[m] = "held"

\* build_filtered_tracking_market.
Retained(existing, candidate) ==
  [candidate EXCEPT !.status =
     IF existing.status \in {"closed", "resolved"} THEN existing.status ELSE "filtered"]

\* ingest_raw_market for a payload the parser accepts: a market the strategy
\* selects is tracked anew, whatever became of it; one it does not select is
\* kept, paused, while there is exposure, and forgotten otherwise.
Ingest(m, payload) ==
  LET candidate == [status |-> "eligible", tick |-> payload.tick, match |-> payload.match]
  IN  CASE candidate.match -> Track(m, candidate)
        [] ~candidate.match /\ ~Registered(reg, m) -> UNCHANGED known
        [] ~candidate.match /\ Registered(reg, m) /\ Exposed(m) ->
             Track(m, Retained(reg.markets[m], candidate))
        [] OTHER -> Untrack({m})

\* A page of listed markets arrives, and is ingested market by market.
PageFetched(m) ==
  /\ page[m] = Absent
  /\ gamma[m].listed
  /\ page' = [page EXCEPT ![m] = gamma[m]]
  /\ UNCHANGED <<exchange, known, run, account>>

PageIngested(m) ==
  /\ page[m] # Absent
  /\ Ingest(m, page[m])
  /\ page' = [page EXCEPT ![m] = Absent]
  /\ UNCHANGED <<exchange, run, account>>

--------------------------------------------------------------------------------
\* The market websocket loop, one message at a time.

\* Mutant: only the copy of the token named is renewed.
MessageResolvedOneCopy(m, t) ==
  /\ IF Registered(reg, m)
     THEN /\ reg' = MarkResolved(reg, m)
          /\ tracked' = [tracked EXCEPT ![t] = reg'.markets[m]]
          /\ frozen' = frozen \union TokensOf[m]
     ELSE /\ frozen' = frozen \union {t}
          /\ UNCHANGED <<reg, tracked>>
  /\ UNCHANGED late

\* _apply_market_resolved: the registry's copy is written to all its tokens,
\* whose books take no more messages.  The book of the token named is frozen
\* though the market be unknown.
MessageResolved(m, t) ==
  /\ IF Registered(reg, m)
     THEN /\ reg' = MarkResolved(reg, m)
          /\ tracked' = Copied(tracked, m, reg'.markets[m])
          /\ frozen' = frozen \union TokensOf[m]
     ELSE /\ frozen' = frozen \union {t}
          /\ UNCHANGED <<reg, tracked>>
  /\ UNCHANGED late

\* _apply_tick_size_change: only the copy of the token named is renewed.
MessageTick(m, t) ==
  /\ reg' = ChangeTickSize(reg, m, gamma[m].tick)
  /\ tracked' = [tracked EXCEPT ![t].tick = gamma[m].tick]
  /\ UNCHANGED <<frozen, late>>

\* _apply_market_metadata: a message that carries no new fee schedule writes
\* the worker's copy of this token back into the registry.
MessageMetadata(m, t) ==
  /\ reg' = Upsert(reg, m, tracked[t])
  /\ UNCHANGED <<tracked, frozen, late>>

Ignored(t) == t \in frozen \/ tracked[t] = Absent

\* handle_market_ws_message: a new market goes through discovery first, whose
\* parser refuses a payload without tick size or condition id, and then to the
\* worker like any message.  It carries what the exchange says when it is
\* handled, not when it was sent: old news comes in pages and answers only.
Message(m, t) ==
  /\ \/ /\ <<"market_resolved", m>> \in pushed
        /\ MessageResolved(m, t)
        /\ pushed' = pushed \ {<<"market_resolved", m>>}
     \/ /\ <<"tick_size_change", m>> \in pushed
        /\ IF Ignored(t) THEN UNCHANGED known ELSE MessageTick(m, t)
        /\ pushed' = pushed \ {<<"tick_size_change", m>>}
     \/ /\ <<"new_market", m>> \in pushed
        /\ \/ Ingest(m, gamma[m])
           \/ IF Ignored(t) THEN UNCHANGED known ELSE MessageMetadata(m, t)
        /\ pushed' = pushed \ {<<"new_market", m>>}
  /\ UNCHANGED <<gamma, edits, page, run, account>>

--------------------------------------------------------------------------------
\* The reconcile run.

\* Mutants: a resolved market is merged like any other; the old tick size is
\* kept.
MergedAnew(current, listing) ==
  [tick |-> listing.tick, match |-> listing.match,
   status |-> IF listing.listed THEN "eligible" ELSE "closed"]
MergedOldTick(current, listing) ==
  [tick |-> current.tick, match |-> listing.match,
   status |-> CASE current.status = "resolved" -> "resolved"
                [] current.status # "resolved" /\ ~listing.listed -> "closed"
                [] OTHER -> "eligible"]

\* _merge_gamma_market: what gamma says, over the copy the run started from.
Merged(current, listing) ==
  [tick |-> listing.tick,
   match |-> listing.match,
   status |-> CASE current.status = "resolved" -> "resolved"
                [] current.status # "resolved" /\ ~listing.listed -> "closed"
                [] current.status # "resolved" /\ listing.listed /\ ~listing.clob -> "disabled"
                [] OTHER -> "eligible"]

\* refresh: the markets are those of the registry now, or those of them the
\* trigger names.
RunStarts ==
  /\ run = Idle
  /\ \E scope \in Scopes :
       LET covered == {m \in scope : Registered(reg, m)}
       IN  /\ covered # {}
           /\ run' = [asked |-> Markets \ covered, applied |-> Markets \ covered,
                      snap |-> reg.markets, got |-> NothingGot]
  /\ UNCHANGED <<exchange, known, page, account>>

\* _refresh_market_authority, all markets at once: each is answered in its own
\* time, or not at all.  When gamma fails and the fee rate is read, the answer
\* is the copy the run started from.
RunAsks(m) ==
  /\ m \notin run.asked
  /\ \E answer \in {Absent, run.snap[m], Merged(run.snap[m], gamma[m])} :
       run' = [run EXCEPT !.asked = @ \union {m}, !.got[m] = answer]
  /\ UNCHANGED <<exchange, known, page, account>>

\* _apply_refreshed_market, after the slowest answer and market by market: the
\* books are published in between.
RunApplies(m) ==
  /\ run # Idle /\ run.asked = Markets /\ m \notin run.applied
  /\ IF run.got[m] # Absent THEN Track(m, run.got[m]) ELSE UNCHANGED known
  /\ run' = [run EXCEPT !.applied = @ \union {m}]
  /\ UNCHANGED <<exchange, page, account>>

\* Mutant: every market without exposure is pruned.
PrunedAny == {m \in Markets : Registered(reg, m) /\ ~Exposed(m)}

\* _prune_out_of_universe_markets, at the end of the run and with the account
\* as it is then.
Pruned == {m \in Markets : /\ Registered(reg, m)
                           /\ reg.markets[m].status = "filtered"
                           /\ ~Exposed(m)}

RunEnds ==
  /\ run # Idle /\ run.applied = Markets
  /\ Untrack(Pruned)
  /\ run' = Idle
  /\ UNCHANGED <<exchange, page, account>>

--------------------------------------------------------------------------------
\* Entries: sent for a market that is eligible and in the universe, answered
\* later, and sold some day.
Entered(m, before, after) ==
  /\ account[m] = before
  /\ account' = [account EXCEPT ![m] = after]
  /\ UNCHANGED <<exchange, known, page, run>>

EntrySent(m) ==
  /\ Registered(reg, m)
  /\ reg.markets[m].status = "eligible" /\ reg.markets[m].match
  /\ Entered(m, "none", "entering")
EntryFills(m) == Entered(m, "entering", "held")
EntryEmpty(m) == Entered(m, "entering", "none")
Sold(m) == Entered(m, "held", "none")

RunStep == RunStarts \/ RunEnds \/ \E m \in Markets : RunAsks(m) \/ RunApplies(m)
Scan(m) == PageFetched(m) \/ PageIngested(m)

Next ==
  \/ \E m \in Active :
       \/ Closes(m) \/ Resolves(m) \/ SwitchesBook(m) \/ Retitled(m) \/ NewTick(m)
       \/ EntrySent(m) \/ EntryFills(m) \/ EntryEmpty(m) \/ Sold(m)
  \/ \E m \in Markets : Scan(m) \/ \E t \in TokensOf[m] : Message(m, t)
  \/ RunStep

Spec == Init /\ [][Next]_vars

\* The scan is a periodic job of the scheduler, the reconcile run goes round
\* while its loop lives, which is assumed, and a call to gamma that is made
\* again and again is answered some time.
Answered(m) == RunAsks(m) /\ run'.got[m] = Merged(run.snap[m], gamma[m])
FairSpec ==
  /\ Spec
  /\ WF_vars(RunStep)
  /\ \A m \in Markets : WF_vars(Scan(m)) /\ SF_vars(Answered(m))
--------------------------------------------------------------------------------
Exposures == {"none", "entering", "held"}

\* The type invariant.
TypeOK ==
  /\ gamma \in [Markets -> Listings] /\ edits \in 0 .. MaxEdits
  /\ pushed \subseteq Kinds \X Markets
  /\ reg \in Registries
  /\ tracked \in [Tokens -> Copies \union {Absent}] /\ frozen \subseteq Tokens
  /\ page \in [Markets -> Listings \union {Absent}]
  /\ run \in [asked : SUBSET Markets, applied : SUBSET Markets,
              snap : [Markets -> Copies \union {Absent}],
              got : [Markets -> Copies \union {Absent}]]
  /\ account \in [Markets -> Exposures] /\ late \subseteq Markets

\* The registry's three dictionaries agree after every write, event slugs that
\* several markets share included.
IndexSound == IndexesAgree(reg)

\* The registry survives everything that is written to it: no token or slug
\* leads to a market that was removed, moved or never had it.
RegistrySound == TypeOK /\ IndexSound

\* The websocket worker keeps a copy for exactly the tokens of registered
\* markets, and every copy has the registry's status: writing one back, as a
\* new_market message does, never brings an old status back.
CopiesAgree ==
  \A m \in Markets : \A t \in TokensOf[m] :
    IF Registered(reg, m)
    THEN /\ tracked[t] # Absent
         /\ tracked[t].status = reg.markets[m].status
         /\ tracked[t].match = reg.markets[m].match
    ELSE tracked[t] = Absent

\* Exposure in a market nobody watches: only when the market was forgotten
\* while its buy was on its way, which leaves no trace in the account.
OrphanNeedsRace ==
  \A m \in Markets : account[m] = "held" /\ ~Registered(reg, m) => m \in late

\* The step is discovery at work on market m.
FromDiscovery(m) ==
  \/ page[m] # Absent /\ page'[m] = Absent
  \/ <<"new_market", m>> \in pushed \ pushed'

\* A resolved market trades again only because discovery finds it listed and
\* selects it, or because a reconcile run looked before it resolved.
ReopenedByOldNews ==
  [][\A m \in Markets :
       /\ Registered(reg, m) /\ reg.markets[m].status = "resolved"
       /\ Registered(reg', m) /\ reg'.markets[m].status # "resolved"
       => \/ FromDiscovery(m) /\ reg'.markets[m].match
          \/ m \in run'.applied \ run.applied /\ run.snap[m].status # "resolved"]_vars

\* A delisted market ends up closed or resolved, or forgotten.
ClosedStops ==
  \A m \in Markets :
    <>[](~gamma[m].listed /\ Registered(reg, m) =>
           reg.markets[m].status \in {"closed", "resolved"})

\* Registry and worker end up with the tick size; a copy left behind by a
\* message for the market's other token does not survive.
TermsConverge ==
  \A m \in Markets :
    <>[](Registered(reg, m) =>
           /\ reg.markets[m].tick = gamma[m].tick
           /\ \A t \in TokensOf[m] : tracked[t] # Absent => tracked[t].tick = gamma[m].tick)

\* Once the exchange is quiet, what the process believes of a market ends up
\* true for good, whatever old pages, answers and messages were under way.
BeliefsConverge == ClosedStops /\ TermsConverge

\* Once the exchange is quiet, a listed market of the universe is tracked.
UniverseTracked ==
  \A m \in Markets : <>[](gamma[m].listed /\ gamma[m].match => Registered(reg, m))
================================================================================
