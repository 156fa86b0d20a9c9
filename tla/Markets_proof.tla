----------------------------- MODULE Markets_proof -----------------------------
(***************************************************************************)
(* Proofs about MarketRegistry and MarketTracking, for any markets, tokens *)
(* and slugs that RegistryAssumption admits and any number of changes, and *)
(* about MarketBooks.                                                      *)
(***************************************************************************)
EXTENDS MarketTracking, MarketBooks, FiniteSetTheorems, SequenceTheorems,
        WellFoundedInduction, TLAPS

--------------------------------------------------------------------------------
\* The registry.

\* The fields of a registry, its indexes total.
LEMMA RegistryFields ==
  ASSUME NEW g \in Registries
  PROVE  /\ g.markets \in [Markets -> Copies \union {Absent}]
         /\ g.tokens \in [Tokens -> Markets \union {Nobody}]
         /\ g.slugs \in [Slugs -> Markets \union {Nobody}]
BY DEF Registries

LEMMA KeyFacts ==
  /\ \A m \in Markets : TokensOf[m] \subseteq Tokens /\ SlugsOf(m) \subseteq Slugs
  /\ \A m \in Markets : MarketSlug[m] \in SlugsOf(m)
  /\ \A t \in Tokens : \E m \in Markets : t \in TokensOf[m]
BY DEF Tokens, Slugs, SlugsOf

\* An upsert puts a copy in its place and keeps the indexes.
LEMMA UpsertFacts ==
  ASSUME NEW g \in Registries, IndexesAgree(g), NEW m \in Markets, NEW copy \in Copies
  PROVE  /\ Upsert(g, m, copy) \in Registries
         /\ IndexesAgree(Upsert(g, m, copy))
         /\ \A n \in Markets :
              Upsert(g, m, copy).markets[n] = IF n = m THEN copy ELSE g.markets[n]
<1> DEFINE u == Upsert(g, m, copy)
<1>1. /\ g.markets \in [Markets -> Copies \union {Absent}]
      /\ g.tokens \in [Tokens -> Markets \union {Nobody}]
      /\ g.slugs \in [Slugs -> Markets \union {Nobody}]
  BY RegistryFields
<1>2. /\ u.markets = [g.markets EXCEPT ![m] = copy]
      /\ u.tokens = [t \in Tokens |->
           IF t \in TokensOf[m] THEN m
           ELSE IF g.tokens[t] \in {m} /\ t \in TokensOf[g.tokens[t]] THEN Nobody ELSE g.tokens[t]]
      /\ u.slugs = [s \in Slugs |->
           IF s \in SlugsOf(m) THEN m
           ELSE IF g.slugs[s] \in {m} /\ s \in SlugsOf(g.slugs[s]) THEN Nobody ELSE g.slugs[s]]
      /\ u = [markets |-> u.markets, tokens |-> u.tokens, slugs |-> u.slugs]
  BY DEF Upsert, Attached, DetachedTokens, DetachedSlugs
<1> HIDE DEF u
<1>3. \A t \in Tokens : u.tokens[t] = IF t \in TokensOf[m] THEN m ELSE g.tokens[t]
  BY <1>2
<1>4. \A s \in Slugs : u.slugs[s] = IF s \in SlugsOf(m) THEN m ELSE g.slugs[s]
  BY <1>2
<1>5. \A n \in Markets : u.markets[n] = IF n = m THEN copy ELSE g.markets[n]
  BY <1>1, <1>2
<1>6. u \in Registries
  <2>1. u.markets \in [Markets -> Copies \union {Absent}]
    BY <1>1, <1>2
  <2>2. u.tokens \in [Tokens -> Markets \union {Nobody}]
    BY <1>1, <1>2
  <2>3. u.slugs \in [Slugs -> Markets \union {Nobody}]
    BY <1>1, <1>2
  <2>4. QED
    BY <1>2, <2>1, <2>2, <2>3 DEF Registries
<1>7. \A n \in Markets : Registered(u, n) <=> n = m \/ Registered(g, n)
  BY <1>5, AbsentAssumption DEF Registered
<1>8. ASSUME NEW n \in Markets, NEW t \in TokensOf[n]
      PROVE  u.tokens[t] = IF Registered(u, n) THEN n ELSE Nobody
  BY <1>3, <1>7, <1>8, KeyFacts, RegistryAssumption DEF IndexesAgree, GetByTokenId
<1>9. ASSUME NEW n \in Markets, Registered(u, n)
      PROVE  u.slugs[MarketSlug[n]] = n
  BY <1>4, <1>7, <1>9, KeyFacts, RegistryAssumption DEF IndexesAgree, GetBySlug
<1>10. ASSUME NEW s \in Slugs, u.slugs[s] # Nobody
       PROVE  Registered(u, u.slugs[s]) /\ s \in SlugsOf(u.slugs[s])
  <2>1. CASE s \in SlugsOf(m)
    BY <1>4, <1>7, <2>1
  <2>2. CASE s \notin SlugsOf(m)
    <3>1. u.slugs[s] = g.slugs[s] /\ g.slugs[s] \in Markets
      BY <1>1, <1>4, <1>10, <2>2
    <3>2. QED
      BY <1>7, <1>10, <3>1 DEF IndexesAgree, GetBySlug
  <2>3. QED
    BY <2>1, <2>2
<1>11. IndexesAgree(u)
  BY <1>8, <1>9, <1>10 DEF IndexesAgree, GetByTokenId, GetBySlug
<1>12. QED
  BY <1>5, <1>6, <1>11 DEF u

\* Removing markets leaves the entries of the others as they are.
LEMMA RemoveFacts ==
  ASSUME NEW g \in Registries, IndexesAgree(g), NEW M \in SUBSET Markets
  PROVE  /\ RemoveMarkets(g, M) \in Registries
         /\ IndexesAgree(RemoveMarkets(g, M))
         /\ \A n \in Markets :
              RemoveMarkets(g, M).markets[n] = IF n \in M THEN Absent ELSE g.markets[n]
<1> DEFINE u == RemoveMarkets(g, M)
<1>1. /\ g.markets \in [Markets -> Copies \union {Absent}]
      /\ g.tokens \in [Tokens -> Markets \union {Nobody}]
      /\ g.slugs \in [Slugs -> Markets \union {Nobody}]
  BY RegistryFields
<1>2. /\ u.markets = [n \in Markets |-> IF n \in M THEN Absent ELSE g.markets[n]]
      /\ u.tokens = [t \in Tokens |->
           IF g.tokens[t] \in M /\ t \in TokensOf[g.tokens[t]] THEN Nobody ELSE g.tokens[t]]
      /\ u.slugs = [s \in Slugs |->
           IF g.slugs[s] \in M /\ s \in SlugsOf(g.slugs[s]) THEN Nobody ELSE g.slugs[s]]
      /\ u = [markets |-> u.markets, tokens |-> u.tokens, slugs |-> u.slugs]
  BY DEF RemoveMarkets, DetachedTokens, DetachedSlugs
<1> HIDE DEF u
<1>3. u \in Registries
  <2>1. u.markets \in [Markets -> Copies \union {Absent}]
    BY <1>1, <1>2
  <2>2. u.tokens \in [Tokens -> Markets \union {Nobody}]
    BY <1>1, <1>2
  <2>3. u.slugs \in [Slugs -> Markets \union {Nobody}]
    BY <1>1, <1>2
  <2>4. QED
    BY <1>2, <2>1, <2>2, <2>3 DEF Registries
<1>4. \A n \in Markets : Registered(u, n) <=> n \notin M /\ Registered(g, n)
  BY <1>2 DEF Registered
<1>5. ASSUME NEW n \in Markets, NEW t \in TokensOf[n]
      PROVE  u.tokens[t] = IF Registered(u, n) THEN n ELSE Nobody
  <2>1. t \in Tokens /\ g.tokens[t] = IF Registered(g, n) THEN n ELSE Nobody
    BY <1>5, KeyFacts DEF IndexesAgree, GetByTokenId
  <2>2. Nobody \notin M
    BY AbsentAssumption
  <2>3. QED
    BY <1>2, <1>4, <2>1, <2>2
<1>6. ASSUME NEW n \in Markets, Registered(u, n)
      PROVE  u.slugs[MarketSlug[n]] = n
  <2>1. n \notin M /\ Registered(g, n) /\ MarketSlug[n] \in Slugs
    BY <1>4, <1>6, KeyFacts
  <2>2. g.slugs[MarketSlug[n]] = n
    BY <2>1 DEF IndexesAgree, GetBySlug
  <2>3. QED
    BY <1>2, <2>1, <2>2
<1>7. ASSUME NEW s \in Slugs, u.slugs[s] # Nobody
      PROVE  Registered(u, u.slugs[s]) /\ s \in SlugsOf(u.slugs[s])
  <2>1. u.slugs[s] = g.slugs[s] /\ g.slugs[s] \in Markets
    BY <1>1, <1>2, <1>7
  <2>2. Registered(g, g.slugs[s]) /\ s \in SlugsOf(g.slugs[s])
    BY <1>7, <2>1 DEF IndexesAgree, GetBySlug
  <2>3. g.slugs[s] \notin M
    BY <1>2, <1>7, <2>1, <2>2
  <2>4. QED
    BY <1>4, <2>1, <2>2, <2>3
<1>8. IndexesAgree(u)
  BY <1>5, <1>6, <1>7 DEF IndexesAgree, GetByTokenId, GetBySlug
<1>9. QED
  BY <1>2, <1>3, <1>8 DEF u

--------------------------------------------------------------------------------
\* The tasks that write the registry and the worker's copies.

RegistryKept == reg \in Registries /\ IndexSound

CopiesTyped ==
  tracked \in [Tokens -> Copies \union {Absent}] /\ frozen \subseteq Tokens /\ late \subseteq Markets

\* An entry under way counts as well: when it fills it is exposure.
WatchedOrLate ==
  \A m \in Markets : account[m] # "none" /\ ~Registered(reg, m) => m \in late

KnownInv == RegistryKept /\ CopiesTyped /\ CopiesAgree /\ WatchedOrLate

WorldTyped ==
  /\ gamma \in [Markets -> Listings] /\ edits \in 0 .. MaxEdits
  /\ pushed \subseteq Kinds \X Markets
  /\ page \in [Markets -> Listings \union {Absent}]
  /\ account \in [Markets -> Exposures]

RunTyped ==
  run \in [asked : SUBSET Markets, applied : SUBSET Markets,
           snap : [Markets -> Copies \union {Absent}],
           got : [Markets -> Copies \union {Absent}]]

\* An answer is merged with the copy the run started from, and what that copy
\* held as resolved stays so.
AnswersKeepResolved ==
  \A m \in Markets : run.got[m] # Absent /\ run.snap[m].status = "resolved" =>
                      run.got[m].status = "resolved"

IInv == KnownInv /\ WorldTyped /\ RunTyped /\ AnswersKeepResolved

LEMMA EmptyFacts == EmptyRegistry \in Registries /\ IndexesAgree(EmptyRegistry)
<1>1. EmptyRegistry \in Registries
  BY DEF EmptyRegistry, Registries
<1>2. \A m \in Markets : ~Registered(EmptyRegistry, m)
  BY DEF EmptyRegistry, Registered
<1>3. QED
  BY <1>1, <1>2, KeyFacts DEF IndexesAgree, EmptyRegistry, GetByTokenId, GetBySlug

LEMMA InitIInv == Init => IInv
<1> SUFFICES ASSUME Init PROVE IInv
  OBVIOUS
<1>1. RegistryKept
  BY EmptyFacts DEF Init, RegistryKept, IndexSound
<1>2. \A m \in Markets : ~Registered(reg, m)
  BY DEF Init, EmptyRegistry, Registered
<1>3. CopiesTyped
  BY DEF Init, CopiesTyped
<1>4. CopiesAgree
  BY <1>2, KeyFacts DEF Init, CopiesAgree
<1>5. WatchedOrLate
  BY DEF Init, WatchedOrLate
<1>6. WorldTyped
  BY RegistryAssumption, EditsAssumption DEF Init, WorldTyped, Listings, NothingGot, Exposures
<1>7. RunTyped /\ AnswersKeepResolved
  BY DEF Init, Idle, NothingGot, RunTyped, AnswersKeepResolved
<1>8. QED
  BY <1>1, <1>3, <1>4, <1>5, <1>6, <1>7 DEF IInv, KnownInv

\* What the exchange has listed makes a copy that is well typed.
LEMMA CandidateFacts ==
  ASSUME NEW listing \in Listings, NEW current
  PROVE  /\ [status |-> "eligible", tick |-> listing.tick, match |-> listing.match] \in Copies
         /\ Merged(current, listing) \in Copies
         /\ current.status = "resolved" => Merged(current, listing).status = "resolved"
BY DEF Listings, Copies, Statuses, Merged

\* Tokens of a market lead to no other.
LEMMA TokenOwner ==
  ASSUME NEW m \in Markets, NEW n \in Markets, NEW t \in TokensOf[m], t \in TokensOf[n]
  PROVE  m = n
BY RegistryAssumption

LEMMA TrackKeeps ==
  ASSUME KnownInv, NEW m \in Markets, NEW copy \in Copies, Track(m, copy), account' = account
  PROVE  /\ KnownInv'
         /\ \A n \in Markets : reg'.markets[n] = IF n = m THEN copy ELSE reg.markets[n]
<1>1. /\ RegistryKept'
      /\ \A n \in Markets : reg'.markets[n] = IF n = m THEN copy ELSE reg.markets[n]
  BY UpsertFacts DEF KnownInv, RegistryKept, IndexSound, Track
<1>2. \A n \in Markets : Registered(reg', n) <=> n = m \/ Registered(reg, n)
  BY <1>1, AbsentAssumption DEF Registered
<1>3. \A t \in Tokens : tracked'[t] = IF t \in TokensOf[m] THEN copy ELSE tracked[t]
  BY DEF Track, Copied
<1>4. CopiesTyped'
  BY DEF KnownInv, CopiesTyped, Track, Copied
<1>5. CopiesAgree'
  <2> SUFFICES ASSUME NEW n \in Markets, NEW t \in TokensOf[n]
               PROVE  IF Registered(reg', n)
                      THEN /\ tracked'[t] # Absent
                           /\ tracked'[t].status = reg'.markets[n].status
                           /\ tracked'[t].match = reg'.markets[n].match
                      ELSE tracked'[t] = Absent
    BY DEF CopiesAgree
  <2>1. t \in Tokens /\ (t \in TokensOf[m] <=> n = m)
    BY KeyFacts, TokenOwner
  <2>2. CASE n = m
    BY <1>1, <1>2, <1>3, <2>1, <2>2, AbsentAssumption
  <2>3. CASE n # m
    BY <1>1, <1>2, <1>3, <2>1, <2>3 DEF KnownInv, CopiesAgree
  <2>4. QED
    BY <2>2, <2>3
<1>6. WatchedOrLate'
  BY <1>2 DEF KnownInv, WatchedOrLate, Track
<1>7. QED
  BY <1>1, <1>4, <1>5, <1>6 DEF KnownInv

LEMMA UntrackKeeps ==
  ASSUME KnownInv, NEW M \in SUBSET Markets, \A m \in M : ~Exposed(m), Untrack(M),
         account \in [Markets -> Exposures], account' = account
  PROVE  /\ KnownInv'
         /\ \A n \in Markets : reg'.markets[n] = IF n \in M THEN Absent ELSE reg.markets[n]
<1>1. /\ RegistryKept'
      /\ \A n \in Markets : reg'.markets[n] = IF n \in M THEN Absent ELSE reg.markets[n]
  BY RemoveFacts DEF KnownInv, RegistryKept, IndexSound, Untrack
<1>2. \A n \in Markets : Registered(reg', n) <=> n \notin M /\ Registered(reg, n)
  BY <1>1 DEF Registered
<1>3. \A t \in Tokens :
        tracked'[t] = IF \E m \in M : t \in TokensOf[m] THEN Absent ELSE tracked[t]
  BY DEF Untrack
<1>4. CopiesTyped'
  BY DEF KnownInv, CopiesTyped, Untrack
<1>5. CopiesAgree'
  <2> SUFFICES ASSUME NEW n \in Markets, NEW t \in TokensOf[n]
               PROVE  IF Registered(reg', n)
                      THEN /\ tracked'[t] # Absent
                           /\ tracked'[t].status = reg'.markets[n].status
                           /\ tracked'[t].match = reg'.markets[n].match
                      ELSE tracked'[t] = Absent
    BY DEF CopiesAgree
  <2>1. t \in Tokens /\ ((\E m \in M : t \in TokensOf[m]) <=> n \in M)
    BY KeyFacts, TokenOwner
  <2>2. CASE n \in M
    BY <1>2, <1>3, <2>1, <2>2
  <2>3. CASE n \notin M
    BY <1>1, <1>2, <1>3, <2>1, <2>3 DEF KnownInv, CopiesAgree
  <2>4. QED
    BY <2>2, <2>3
<1>6. WatchedOrLate'
  <2> SUFFICES ASSUME NEW m \in Markets, account[m] # "none", ~Registered(reg', m)
               PROVE  m \in late'
    BY DEF WatchedOrLate
  <2>1. CASE m \in M
    <3>1. account[m] = "entering"
      BY <2>1 DEF Exposed, Exposures
    <3>2. QED
      BY <2>1, <3>1 DEF Untrack
  <2>2. CASE m \notin M
    BY <1>2, <2>2 DEF KnownInv, WatchedOrLate, Untrack
  <2>3. QED
    BY <2>1, <2>2
<1>7. QED
  BY <1>1, <1>4, <1>5, <1>6 DEF KnownInv

LEMMA UnchangedKeeps == ASSUME KnownInv, UNCHANGED known, account' = account PROVE KnownInv'
BY DEF KnownInv, known, RegistryKept, IndexSound, CopiesTyped, CopiesAgree, WatchedOrLate

\* A market stays as resolved as it was.
ResolvedStays ==
  \A n \in Markets :
    Registered(reg, n) /\ reg.markets[n].status = "resolved" /\ Registered(reg', n) =>
      reg'.markets[n].status = "resolved"

\* Ingesting a payload brings a resolved market back only when it matches.
LEMMA IngestKeeps ==
  ASSUME KnownInv, NEW m \in Markets, NEW payload \in Listings, Ingest(m, payload),
         account \in [Markets -> Exposures], account' = account
  PROVE  /\ KnownInv'
         /\ \A n \in Markets :
              Registered(reg, n) /\ reg.markets[n].status = "resolved" /\ Registered(reg', n) =>
                \/ reg'.markets[n].status = "resolved"
                \/ n = m /\ reg'.markets[n].match
<1> DEFINE candidate == [status |-> "eligible", tick |-> payload.tick, match |-> payload.match]
<1>1. candidate \in Copies
  BY CandidateFacts
<1> HIDE DEF candidate
<1>2. \/ candidate.match /\ Track(m, candidate)
      \/ UNCHANGED known
      \/ Registered(reg, m) /\ Track(m, Retained(reg.markets[m], candidate))
      \/ ~Exposed(m) /\ Untrack({m})
  BY DEF Ingest, candidate
<1>3. CASE candidate.match /\ Track(m, candidate)
  BY <1>1, <1>3, TrackKeeps
<1>4. CASE UNCHANGED known
  BY <1>4, UnchangedKeeps DEF known
<1>5. CASE Registered(reg, m) /\ Track(m, Retained(reg.markets[m], candidate))
  <2>1. reg.markets[m] \in Copies
    BY <1>5, RegistryFields DEF KnownInv, RegistryKept, Registered
  <2>2. /\ Retained(reg.markets[m], candidate) \in Copies
        /\ reg.markets[m].status = "resolved" =>
             Retained(reg.markets[m], candidate).status = "resolved"
    BY <1>1, <2>1 DEF Retained, Copies, Statuses
  <2>3. QED
    BY <1>5, <2>2, TrackKeeps
<1>6. CASE ~Exposed(m) /\ Untrack({m})
  <2>1. /\ KnownInv'
        /\ \A n \in Markets : reg'.markets[n] = IF n \in {m} THEN Absent ELSE reg.markets[n]
    BY <1>6, UntrackKeeps
  <2>2. QED
    BY <2>1 DEF Registered
<1>7. QED
  BY <1>2, <1>3, <1>4, <1>5, <1>6

\* The messages change a copy in its terms or make it resolved.
LEMMA MessageResolvedKeeps ==
  ASSUME KnownInv, NEW m \in Markets, NEW t \in TokensOf[m], MessageResolved(m, t),
         account' = account
  PROVE  KnownInv' /\ ResolvedStays
<1>1. CASE Registered(reg, m)
  <2> DEFINE copy == [reg.markets[m] EXCEPT !.status = "resolved"]
  <2>1. copy \in Copies /\ copy.status = "resolved"
    BY <1>1, RegistryFields DEF KnownInv, RegistryKept, Registered, Copies, Statuses
  <2>2. /\ reg' = Upsert(reg, m, copy)
        /\ frozen' = frozen \union TokensOf[m]
        /\ late' = late
    BY <1>1 DEF MessageResolved, MarkResolved, Update
  <2>3. /\ RegistryKept'
        /\ \A n \in Markets : reg'.markets[n] = IF n = m THEN copy ELSE reg.markets[n]
    BY <2>1, <2>2, UpsertFacts DEF KnownInv, RegistryKept, IndexSound
  <2>4. tracked' = Copied(tracked, m, copy)
    BY <1>1, <2>3 DEF MessageResolved
  <2> HIDE DEF copy
  <2>5. \A n \in Markets : Registered(reg', n) <=> Registered(reg, n)
    BY <1>1, <2>1, <2>3, AbsentAssumption DEF Registered
  <2>6. CopiesTyped'
    BY <2>1, <2>2, <2>4, KeyFacts DEF KnownInv, CopiesTyped, Copied
  <2>7. \A n \in Markets : \A k \in TokensOf[n] :
          tracked'[k] = IF n = m THEN copy ELSE tracked[k]
    BY <2>4, KeyFacts, TokenOwner DEF Copied
  <2>8. CopiesAgree'
    BY <1>1, <2>1, <2>3, <2>5, <2>7, AbsentAssumption DEF KnownInv, CopiesAgree
  <2>9. WatchedOrLate'
    BY <2>2, <2>5 DEF KnownInv, WatchedOrLate
  <2>10. QED
    BY <2>1, <2>3, <2>6, <2>8, <2>9 DEF KnownInv, ResolvedStays
<1>2. CASE ~Registered(reg, m)
  <2>1. frozen' = frozen \union {t} /\ UNCHANGED <<reg, tracked, late>>
    BY <1>2 DEF MessageResolved
  <2>2. QED
    BY <2>1, KeyFacts
       DEF KnownInv, RegistryKept, IndexSound, CopiesTyped, CopiesAgree, WatchedOrLate, ResolvedStays
<1>3. QED
  BY <1>1, <1>2

LEMMA MessageTickKeeps ==
  ASSUME KnownInv, NEW m \in Markets, NEW t \in TokensOf[m], tracked[t] # Absent,
         gamma \in [Markets -> Listings], MessageTick(m, t), account' = account
  PROVE  KnownInv' /\ ResolvedStays
<1> DEFINE copy == [reg.markets[m] EXCEPT !.tick = gamma[m].tick]
           mine == [tracked[t] EXCEPT !.tick = gamma[m].tick]
<1>1. Registered(reg, m) /\ reg.markets[m] \in Copies
  BY RegistryFields DEF KnownInv, RegistryKept, CopiesAgree, Registered
<1>2. gamma[m].tick \in 1 .. MaxTick
  BY DEF Listings
<1>3. t \in Tokens /\ tracked[t] \in Copies
  BY KeyFacts DEF KnownInv, CopiesTyped
<1>4. /\ copy \in Copies /\ copy.status = reg.markets[m].status
      /\ copy.match = reg.markets[m].match
  BY <1>1, <1>2 DEF Copies
<1>5. /\ mine \in Copies /\ mine.status = tracked[t].status /\ mine.match = tracked[t].match
  BY <1>2, <1>3 DEF Copies
<1>6. /\ reg' = Upsert(reg, m, copy)
      /\ tracked' = [tracked EXCEPT ![t] = mine]
      /\ UNCHANGED <<frozen, late>>
  BY <1>1 DEF MessageTick, ChangeTickSize, Update
<1> HIDE DEF copy, mine
<1>7. /\ RegistryKept'
      /\ \A n \in Markets : reg'.markets[n] = IF n = m THEN copy ELSE reg.markets[n]
  BY <1>4, <1>6, UpsertFacts DEF KnownInv, RegistryKept, IndexSound
<1>8. \A n \in Markets : Registered(reg', n) <=> Registered(reg, n)
  BY <1>1, <1>4, <1>7, AbsentAssumption DEF Registered
<1>9. CopiesTyped'
  BY <1>5, <1>6 DEF KnownInv, CopiesTyped
<1>10. \A k \in Tokens : tracked'[k] = IF k = t THEN mine ELSE tracked[k]
  BY <1>6 DEF KnownInv, CopiesTyped
<1>11. CopiesAgree'
  <2> SUFFICES ASSUME NEW n \in Markets, NEW k \in TokensOf[n]
               PROVE  IF Registered(reg', n)
                      THEN /\ tracked'[k] # Absent
                           /\ tracked'[k].status = reg'.markets[n].status
                           /\ tracked'[k].match = reg'.markets[n].match
                      ELSE tracked'[k] = Absent
    BY DEF CopiesAgree
  <2>1. k \in Tokens /\ (k = t => n = m)
    BY KeyFacts, TokenOwner
  <2>2. /\ Registered(reg, n) => /\ tracked[k] # Absent
                               /\ tracked[k].status = reg.markets[n].status
                               /\ tracked[k].match = reg.markets[n].match
        /\ ~Registered(reg, n) => tracked[k] = Absent
    BY DEF KnownInv, CopiesAgree
  <2>3. CASE k = t
    <3>1. n = m /\ tracked'[k] = mine /\ reg'.markets[n] = copy
      BY <1>7, <1>10, <2>1, <2>3
    <3>2. QED
      BY <1>1, <1>4, <1>5, <1>8, <2>2, <2>3, <3>1, AbsentAssumption
  <2>4. CASE k # t
    <3>1. tracked'[k] = tracked[k]
      BY <1>10, <2>1, <2>4
    <3>2. /\ reg'.markets[n].status = reg.markets[n].status
          /\ reg'.markets[n].match = reg.markets[n].match
      BY <1>4, <1>7
    <3>3. QED
      BY <1>8, <2>2, <3>1, <3>2
  <2>5. QED
    BY <2>3, <2>4
<1>12. WatchedOrLate'
  BY <1>6, <1>8 DEF KnownInv, WatchedOrLate
<1>13. ResolvedStays
  BY <1>4, <1>7 DEF ResolvedStays
<1>14. QED
  BY <1>7, <1>9, <1>11, <1>12, <1>13 DEF KnownInv

LEMMA MessageMetadataKeeps ==
  ASSUME KnownInv, NEW m \in Markets, NEW t \in TokensOf[m], tracked[t] # Absent,
         MessageMetadata(m, t), account' = account
  PROVE  KnownInv' /\ ResolvedStays
<1>1. /\ Registered(reg, m)
      /\ tracked[t].status = reg.markets[m].status
      /\ tracked[t].match = reg.markets[m].match
  BY DEF KnownInv, CopiesAgree
<1>2. tracked[t] \in Copies
  BY KeyFacts DEF KnownInv, CopiesTyped
<1>3. /\ RegistryKept'
      /\ \A n \in Markets : reg'.markets[n] = IF n = m THEN tracked[t] ELSE reg.markets[n]
  BY <1>2, UpsertFacts DEF KnownInv, RegistryKept, IndexSound, MessageMetadata
<1>4. \A n \in Markets :
        /\ Registered(reg', n) <=> Registered(reg, n)
        /\ reg'.markets[n].status = reg.markets[n].status
        /\ reg'.markets[n].match = reg.markets[n].match
  BY <1>1, <1>2, <1>3, AbsentAssumption DEF Registered
<1>5. CopiesTyped' /\ CopiesAgree' /\ WatchedOrLate'
  BY <1>4 DEF MessageMetadata, KnownInv, CopiesTyped, CopiesAgree, WatchedOrLate
<1>6. QED
  BY <1>3, <1>4, <1>5 DEF KnownInv, ResolvedStays

\* A message brings a resolved market back only as an announcement that matches.
LEMMA MessageKeeps ==
  ASSUME KnownInv, WorldTyped, NEW m \in Markets, NEW t \in TokensOf[m], Message(m, t)
  PROVE  /\ KnownInv'
         /\ \A n \in Markets :
              Registered(reg, n) /\ reg.markets[n].status = "resolved" /\ Registered(reg', n) =>
                \/ reg'.markets[n].status = "resolved"
                \/ FromDiscovery(n) /\ reg'.markets[n].match
<1>1. account' = account /\ gamma[m] \in Listings
  BY DEF Message, WorldTyped
<1>2. CASE MessageResolved(m, t)
  BY <1>1, <1>2, MessageResolvedKeeps DEF ResolvedStays
<1>3. CASE UNCHANGED known
  BY <1>1, <1>3, UnchangedKeeps DEF known
<1>4. CASE ~Ignored(t) /\ MessageTick(m, t)
  BY <1>1, <1>4, MessageTickKeeps DEF Ignored, WorldTyped, ResolvedStays
<1>5. CASE ~Ignored(t) /\ MessageMetadata(m, t)
  BY <1>1, <1>5, MessageMetadataKeeps DEF Ignored, ResolvedStays
<1>6. CASE Ingest(m, gamma[m]) /\ <<"new_market", m>> \in pushed \ pushed'
  BY <1>1, <1>6, IngestKeeps DEF FromDiscovery, WorldTyped
<1>7. QED
  <2>1. \/ MessageResolved(m, t)
        \/ UNCHANGED known
        \/ ~Ignored(t) /\ MessageTick(m, t)
        \/ ~Ignored(t) /\ MessageMetadata(m, t)
        \/ Ingest(m, gamma[m]) /\ <<"new_market", m>> \in pushed \ pushed'
    BY DEF Message
  <2>2. QED
    BY <1>2, <1>3, <1>4, <1>5, <1>6, <2>1

--------------------------------------------------------------------------------
\* Every step of the specification.

WorldStep == \E m \in Active : Closes(m) \/ Resolves(m) \/ SwitchesBook(m) \/ Retitled(m) \/ NewTick(m)
EntryStep == \E m \in Active : EntrySent(m) \/ EntryFills(m) \/ EntryEmpty(m) \/ Sold(m)

\* Only old news reopen a resolved market.
OldNewsOnly ==
  \A m \in Markets :
    /\ Registered(reg, m) /\ reg.markets[m].status = "resolved"
    /\ Registered(reg', m) /\ reg'.markets[m].status # "resolved"
    => \/ FromDiscovery(m) /\ reg'.markets[m].match
       \/ m \in run'.applied \ run.applied /\ run.snap[m].status # "resolved"

LEMMA KnownStep == ASSUME IInv, [Next]_vars PROVE KnownInv' /\ OldNewsOnly
<1>1. CASE WorldStep \/ (\E m \in Markets : PageFetched(m) \/ RunAsks(m)) \/ RunStarts
           \/ UNCHANGED vars
  <2>1. UNCHANGED <<known, account>>
    BY <1>1 DEF WorldStep, Closes, Resolves, SwitchesBook, Retitled, NewTick, Edit, PageFetched,
                RunAsks, RunStarts, vars
  <2>2. QED
    BY <2>1, UnchangedKeeps DEF IInv, known, OldNewsOnly
<1>2. CASE EntryStep
  <2>1. PICK m \in Active :
          /\ UNCHANGED known
          /\ \/ account[m] # "none"
             \/ Registered(reg, m)
          /\ account' = [account EXCEPT ![m] = account'[m]]
    BY <1>2 DEF EntryStep, EntrySent, EntryFills, EntryEmpty, Sold, Entered
  <2>2. \A n \in Markets : n # m => account'[n] = account[n]
    BY <2>1 DEF IInv, WorldTyped
  <2>3. WatchedOrLate'
    BY <2>1, <2>2 DEF known, IInv, KnownInv, WatchedOrLate
  <2>4. QED
    BY <2>1, <2>3
       DEF known, IInv, KnownInv, RegistryKept, IndexSound, CopiesTyped, CopiesAgree, OldNewsOnly
<1>3. ASSUME NEW m \in Markets, PageIngested(m) PROVE KnownInv' /\ OldNewsOnly
  <2>1. /\ page[m] \in Listings /\ Ingest(m, page[m]) /\ account' = account
        /\ page[m] # Absent /\ page'[m] = Absent
    BY <1>3 DEF PageIngested, IInv, WorldTyped
  <2>2. QED
    BY <2>1, IngestKeeps DEF IInv, WorldTyped, OldNewsOnly, FromDiscovery
<1>4. ASSUME NEW m \in Markets, NEW t \in TokensOf[m], Message(m, t)
      PROVE  KnownInv' /\ OldNewsOnly
  BY <1>4, MessageKeeps DEF IInv, OldNewsOnly
<1>5. ASSUME NEW m \in Markets, RunApplies(m) PROVE KnownInv' /\ OldNewsOnly
  <2>1. account' = account /\ m \in run'.applied \ run.applied
    BY <1>5 DEF RunApplies, IInv, RunTyped
  <2>2. CASE run.got[m] # Absent
    <3>1. run.got[m] \in Copies /\ Track(m, run.got[m])
      BY <1>5, <2>2 DEF RunApplies, IInv, RunTyped
    <3>2. /\ KnownInv'
          /\ \A n \in Markets : reg'.markets[n] = IF n = m THEN run.got[m] ELSE reg.markets[n]
      BY <2>1, <3>1, TrackKeeps DEF IInv
    <3>3. QED
      BY <2>1, <2>2, <3>2 DEF IInv, AnswersKeepResolved, OldNewsOnly
  <2>3. CASE run.got[m] = Absent
    BY <1>5, <2>1, <2>3, UnchangedKeeps DEF RunApplies, IInv, known, OldNewsOnly
  <2>4. QED
    BY <2>2, <2>3
<1>6. CASE RunEnds
  <2>1. Pruned \in SUBSET Markets /\ \A m \in Pruned : ~Exposed(m)
    BY DEF Pruned
  <2>2. /\ KnownInv'
        /\ \A n \in Markets : reg'.markets[n] = IF n \in Pruned THEN Absent ELSE reg.markets[n]
    BY <1>6, <2>1, UntrackKeeps DEF RunEnds, IInv, WorldTyped
  <2>3. QED
    BY <2>2 DEF Registered, OldNewsOnly
<1>7. QED
  BY <1>1, <1>2, <1>3, <1>4, <1>5, <1>6 DEF Next, Scan, RunStep, WorldStep, EntryStep

LEMMA WorldStepTyped == ASSUME IInv, [Next]_vars PROVE WorldTyped'
<1>1. CASE WorldStep
  <2>1. PICK m \in Active, new \in Listings, messages \in SUBSET (Kinds \X Markets) :
          Edit(m, new, messages)
    <3>1. PICK m \in Active : Closes(m) \/ Resolves(m) \/ SwitchesBook(m) \/ Retitled(m) \/ NewTick(m)
      BY <1>1 DEF WorldStep
    <3>2. m \in Markets /\ gamma[m] \in Listings
      BY EditsAssumption DEF IInv, WorldTyped
    <3>3. /\ [gamma[m] EXCEPT !.listed = FALSE] \in Listings
          /\ [gamma[m] EXCEPT !.resolved = TRUE] \in Listings
          /\ [gamma[m] EXCEPT !.clob = ~gamma[m].clob] \in Listings
          /\ [gamma[m] EXCEPT !.match = ~gamma[m].match] \in Listings
          /\ \A tick \in 1 .. MaxTick : [gamma[m] EXCEPT !.tick = tick] \in Listings
      BY <3>2 DEF Listings
    <3>4. /\ {} \in SUBSET (Kinds \X Markets)
          /\ \A kind \in Kinds : {<<kind, m>>} \in SUBSET (Kinds \X Markets)
      BY <3>2
    <3>5. CASE Closes(m)
      BY <3>3, <3>4, <3>5, Zenon DEF Closes
    <3>6. CASE Resolves(m)
      <4>1. {<<"market_resolved", m>>} \in SUBSET (Kinds \X Markets)
        BY <3>4 DEF Kinds
      <4>2. QED
        BY <3>3, <3>6, <4>1, Zenon DEF Resolves
    <3>7. CASE SwitchesBook(m)
      BY <3>3, <3>4, <3>7, Zenon DEF SwitchesBook
    <3>8. CASE Retitled(m)
      <4>1. {<<"new_market", m>>} \in SUBSET (Kinds \X Markets)
        BY <3>4 DEF Kinds
      <4>2. QED
        BY <3>3, <3>8, <4>1, Zenon DEF Retitled
    <3>9. CASE NewTick(m)
      <4>1. {<<"tick_size_change", m>>} \in SUBSET (Kinds \X Markets)
        BY <3>4 DEF Kinds
      <4>2. PICK tick \in 1 .. MaxTick :
              Edit(m, [gamma[m] EXCEPT !.tick = tick], {<<"tick_size_change", m>>})
        BY <3>9, Zenon DEF NewTick
      <4>3. [gamma[m] EXCEPT !.tick = tick] \in Listings
        BY <3>3
      <4>4. QED
        BY <4>1, <4>2, <4>3, Zenon
    <3>10. QED
      BY <3>1, <3>5, <3>6, <3>7, <3>8, <3>9
  <2>2. QED
    BY <2>1, EditsAssumption DEF Edit, IInv, WorldTyped
<1>2. CASE EntryStep
  BY <1>2, EditsAssumption
     DEF EntryStep, EntrySent, EntryFills, EntryEmpty, Sold, Entered, exchange, Exposures, IInv,
         WorldTyped
<1>3. CASE \E m \in Markets : PageFetched(m) \/ PageIngested(m)
  BY <1>3 DEF PageFetched, PageIngested, exchange, IInv, WorldTyped
<1>4. CASE \E m \in Markets : \E t \in TokensOf[m] : Message(m, t)
  BY <1>4 DEF Message, IInv, WorldTyped
<1>5. CASE RunStep \/ UNCHANGED vars
  BY <1>5 DEF RunStep, RunStarts, RunAsks, RunApplies, RunEnds, exchange, vars, IInv, WorldTyped
<1>6. QED
  BY <1>1, <1>2, <1>3, <1>4, <1>5 DEF Next, Scan, WorldStep, EntryStep

LEMMA RunStepTyped == ASSUME IInv, [Next]_vars PROVE RunTyped' /\ AnswersKeepResolved'
<1>1. CASE RunStarts
  <2>1. PICK covered \in SUBSET Markets :
          run' = [asked |-> Markets \ covered, applied |-> Markets \ covered,
                  snap |-> reg.markets, got |-> NothingGot]
    BY <1>1, EditsAssumption DEF RunStarts
  <2>2. reg.markets \in [Markets -> Copies \union {Absent}]
    BY RegistryFields DEF IInv, KnownInv, RegistryKept
  <2>3. QED
    BY <2>1, <2>2 DEF NothingGot, RunTyped, AnswersKeepResolved
<1>2. ASSUME NEW m \in Markets, RunAsks(m) PROVE RunTyped' /\ AnswersKeepResolved'
  <2>1. PICK answer \in {Absent, run.snap[m], Merged(run.snap[m], gamma[m])} :
          run' = [run EXCEPT !.asked = @ \union {m}, !.got[m] = answer]
    BY <1>2 DEF RunAsks
  <2>2. /\ answer \in Copies \union {Absent}
        /\ answer # Absent /\ run.snap[m].status = "resolved" => answer.status = "resolved"
    <3>1. gamma[m] \in Listings
      BY DEF IInv, WorldTyped
    <3>2. \A current :
            /\ Merged(current, gamma[m]) \in Copies
            /\ current.status = "resolved" => Merged(current, gamma[m]).status = "resolved"
      BY <3>1, CandidateFacts
    <3>3. run.snap[m] \in Copies \union {Absent}
      BY DEF IInv, RunTyped
    <3>4. QED
      BY <2>1, <3>2, <3>3, Zenon
  <2>3. /\ run'.asked = run.asked \union {m} /\ run'.applied = run.applied
        /\ run'.snap = run.snap /\ run'.got = [run.got EXCEPT ![m] = answer]
        /\ run' = [asked |-> run'.asked, applied |-> run'.applied, snap |-> run'.snap, got |-> run'.got]
    BY <2>1 DEF IInv, RunTyped
  <2>4. RunTyped'
    BY <2>2, <2>3 DEF IInv, RunTyped
  <2>5. AnswersKeepResolved'
    BY <2>2, <2>3 DEF IInv, RunTyped, AnswersKeepResolved
  <2>6. QED
    BY <2>4, <2>5
<1>3. ASSUME NEW m \in Markets, RunApplies(m) PROVE RunTyped' /\ AnswersKeepResolved'
  <2>1. run' = [run EXCEPT !.applied = @ \union {m}]
    BY <1>3 DEF RunApplies
  <2>2. RunTyped'
    BY <2>1 DEF IInv, RunTyped
  <2>3. run'.got = run.got /\ run'.snap = run.snap
    BY <2>1 DEF IInv, RunTyped
  <2>4. QED
    BY <2>2, <2>3 DEF IInv, AnswersKeepResolved
<1>4. CASE RunEnds
  BY <1>4 DEF RunEnds, Idle, NothingGot, RunTyped, AnswersKeepResolved
<1>5. CASE run' = run
  BY <1>5 DEF IInv, RunTyped, AnswersKeepResolved
<1>6. CASE WorldStep \/ EntryStep \/ UNCHANGED vars
           \/ \E m \in Markets : Scan(m) \/ \E t \in TokensOf[m] : Message(m, t)
  <2>1. run' = run
    BY <1>6 DEF WorldStep, Closes, Resolves, SwitchesBook, Retitled, NewTick, Edit, EntryStep,
                EntrySent, EntryFills, EntryEmpty, Sold, Entered, Scan, PageFetched, PageIngested,
                Message, vars
  <2>2. QED
    BY <1>5, <2>1
<1>7. QED
  BY <1>1, <1>2, <1>3, <1>4, <1>6 DEF Next, RunStep, WorldStep, EntryStep

LEMMA NextKeepsIInv == IInv /\ [Next]_vars => IInv'
BY KnownStep, WorldStepTyped, RunStepTyped DEF IInv

LEMMA IInvImplies == IInv => RegistrySound /\ CopiesAgree /\ OrphanNeedsRace
BY DEF IInv, KnownInv, RegistryKept, CopiesTyped, WorldTyped, RunTyped, WatchedOrLate, RegistrySound,
       TypeOK, OrphanNeedsRace

--------------------------------------------------------------------------------
\* However discovery, messages, reconcile and pruning interleave, the three
\* dictionaries of the registry agree.
THEOREM RegistryAgrees == Spec => []RegistrySound
<1>1. QED
  BY InitIInv, NextKeepsIInv, IInvImplies, PTL DEF Spec

\* The worker's copies have the status of the registry's, which is what makes
\* it harmless to write one back.
THEOREM CopiesFollow == Spec => []CopiesAgree
<1>1. QED
  BY InitIInv, NextKeepsIInv, IInvImplies, PTL DEF Spec

\* Exposure is lost from sight only by a market forgotten while its buy was on
\* its way.
THEOREM ExposureWatched == Spec => []OrphanNeedsRace
<1>1. QED
  BY InitIInv, NextKeepsIInv, IInvImplies, PTL DEF Spec

\* A resolved market trades again only by an announcement or page that
\* matches, or by an answer to a run that began before it was resolved.
THEOREM ResolvedUntilOldNews == Spec => ReopenedByOldNews
<1>1. IInv /\ [Next]_vars => OldNewsOnly
  BY KnownStep
<1>2. IInv /\ [Next]_vars => [OldNewsOnly]_vars
  BY <1>1
<1>3. QED
  BY <1>2, InitIInv, NextKeepsIInv, PTL DEF Spec, ReopenedByOldNews, OldNewsOnly

--------------------------------------------------------------------------------
(***************************************************************************)
(* The order book.                                                         *)
(*                                                                         *)
(* Whatever connections break and queues are drained, whichever messages   *)
(* the worker refuses and whatever snapshots of another age are put into   *)
(* the book behind its back: a settled book that no older snapshot has     *)
(* taken something from is the exchange's.  For every set of levels, every *)
(* bound, and messages with sequence numbers or without.                   *)
(*                                                                         *)
(* The argument counts messages.  A connection begins with the whole book  *)
(* and goes on with every change, so that after the last book in the queue *)
(* the queue ends with the newest changes, none left out (Streaming).  A   *)
(* worker with no book in front of it has therefore heard of all changes   *)
(* but as many as are queued, and the change it takes next is the one      *)
(* after those.  What it has heard of is in the book, or in the snapshot   *)
(* that was put over it, or is missing (Taken); a level shows its last     *)
(* change, unless that is one it has not heard of or that is missing       *)
(* (Shown).  With nothing queued and nothing missing this is the           *)
(* exchange's book.                                                        *)
(***************************************************************************)

\* Nothing is from a change that has not happened.
Bounds ==
  /\ \A i \in DOMAIN queue : queue[i].n <= Now
  /\ \A i \in DOMAIN queue : queue[i].type = "price_change" => queue[i].n >= 1
  /\ read <= Now /\ worker.n <= Now /\ newest <= Now
  /\ \A j \in missing : j <= Now

\* After the last book in the queue come the changes up to the newest, one by one.
Streaming ==
  conn = "up" =>
    \A i \in DOMAIN queue :
      (\A j \in DOMAIN queue : j > i => queue[j].type = "price_change") =>
        queue[i].n = Now - (Len(queue) - i)

\* A connected worker that has no book ahead of it has heard of every change up
\* to this one.
Heard == Now - Len(queue)

\* What is queued are changes only.
NoBookAhead == conn = "up" /\ \A i \in DOMAIN queue : queue[i].type = "price_change"

\* The worker takes one change after the other into the book.
Following == NoBookAhead /\ worker.at \in {"idle", "publishing"}

\* What the worker has heard of, h changes, is in the book or was overwritten by
\* a snapshot that did not have it.
Taken(h, new, lost) == \A j \in 1 .. h : j <= new \/ j \in lost

\* Change t is the last of the first n that touches level l.
LastTouch(c, n, l, t) ==
  /\ t \in 1 .. n /\ c[t].level = l
  /\ \A u \in (t + 1) .. n : c[u].level # l

\* A level shows the last change of it, unless that one is ahead or missing.
Shown(c, h, lost, asks) ==
  \A l \in Levels :
    /\ \A t \in 1 .. Len(c) :
         LastTouch(c, Len(c), l, t) /\ t <= h /\ t \notin lost => asks[l] = c[t].size
    /\ (\A u \in 1 .. Len(c) : c[u].level # l) => asks[l] = 0

\* The best price at the exchange.
Offered == BestOf(AsksAt(Now))

\* The book's best price is the exchange's, when nothing is ahead or missing.
BestShown(h, lost, best) ==
  h = Now /\ lost = {} /\ Offered # None => best = Offered

\* The inductive invariant.  A worker that has asked for a snapshot will have
\* one of all it has heard of; nothing else is claimed of a book that is waited
\* for.
BooksInv ==
  /\ BooksTyped
  /\ Bounds
  /\ Streaming
  /\ state.needsRest => worker.at \in {"rest", "asked", "dead"}
  /\ NoBookAhead /\ worker.at = "asked" => Heard <= worker.n
  /\ Following =>
       /\ Taken(Heard, newest, missing)
       /\ Shown(changes, Heard, missing, state.asks)
       /\ BestShown(Heard, missing, state.best)

--------------------------------------------------------------------------------
(* Orders on finite sets: Min and Max choose something. *)

\* R orders any two members of S.
Total(S, R) == \A x, y \in S : x # y => <<x, y>> \in R \/ <<y, x>> \in R

\* And is transitive on it.
Transitive(S, R) ==
  \A x, y, z \in S : <<x, y>> \in R /\ <<y, z>> \in R => <<x, z>> \in R

\* A family of subsets of a finite set has a minimal member.
LEMMA LeastFinite ==
  ASSUME NEW S, IsFiniteSet(S), NEW F, F \subseteq SUBSET S, F # {}
  PROVE  \E A \in F : \A B \in F : B \subseteq A => B = A
<1>1. F \subseteq FiniteSubsetsOf(S)
  BY FS_FiniteSubsetsOfFinite
<1> DEFINE R == StrictSubsetOrdering(S)
<1>2. PICK A \in F : \A B \in F : ~ (<<B, A>> \in R)
  <2>1. IsWellFoundedOn(R, FiniteSubsetsOf(S))
    BY FS_StrictSubsetOrderingWellFounded
  <2> HIDE DEF R
  <2>2. QED
    BY <1>1, <2>1, WFMin
<1>3. \A B \in F : B \subseteq A => B = A
  BY <1>2 DEF StrictSubsetOrdering
<1>4. QED
  BY <1>3

\* A total order on a finite set has a greatest element.
LEMMA Greatest ==
  ASSUME NEW S, IsFiniteSet(S), S # {}, NEW R, Total(S, R), Transitive(S, R)
  PROVE  \E m \in S : \A x \in S \ {m} : <<x, m>> \in R
<1> DEFINE Topped(T) == \E m \in T : \A x \in T \ {m} : <<x, m>> \in R
           Bad == {T \in SUBSET S : T # {} /\ ~Topped(T)}
<1>1. SUFFICES ASSUME Bad # {}  PROVE FALSE
  OBVIOUS
<1>2. PICK A \in Bad : \A B \in Bad : B \subseteq A => B = A
  <2>1. Bad \subseteq SUBSET S
    OBVIOUS
  <2> HIDE DEF Bad
  <2>2. QED
    BY <1>1, <2>1, LeastFinite
<1>3. PICK a \in A : TRUE
  OBVIOUS
<1>4. A \ {a} # {}
  OBVIOUS
<1>5. A \ {a} \notin Bad
  BY <1>2, <1>3
<1>6. PICK m \in A \ {a} : \A x \in (A \ {a}) \ {m} : <<x, m>> \in R
  BY <1>4, <1>5
<1>7. CASE <<a, m>> \in R
  <2>1. \A x \in A \ {m} : <<x, m>> \in R
    BY <1>6, <1>7
  <2>2. QED
    BY <1>2, <1>6, <2>1
<1>8. CASE <<m, a>> \in R
  <2>1. \A x \in A \ {a} : <<x, a>> \in R
    BY <1>2, <1>3, <1>6, <1>8 DEF Transitive
  <2>2. QED
    BY <1>2, <1>3, <2>1
<1>9. QED
  BY <1>2, <1>3, <1>6, <1>7, <1>8 DEF Total

\* So a finite set of integers has a least element, which Min chooses,
LEMMA MinIn ==
  ASSUME NEW S, IsFiniteSet(S), S # {}, \A x \in S : x \in Int
  PROVE  Min(S) \in S /\ \A y \in S : Min(S) <= y
<1> DEFINE R == {r \in S \X S : r[2] <= r[1]}
<1>1. Total(S, R) /\ Transitive(S, R)
  BY DEF Total, Transitive
<1>2. PICK m \in S : \A x \in S \ {m} : <<x, m>> \in R
  <2> HIDE DEF R
  <2>1. QED
    BY <1>1, Greatest
<1>3. ASSUME NEW x \in S
      PROVE  m <= x
  <2>1. CASE x = m
    BY <2>1
  <2>2. CASE x # m
    <3>1. <<x, m>> \in R
      BY <1>2, <2>2
    <3>2. QED
      BY <3>1
  <2>3. QED
    BY <2>1, <2>2
<1>4. QED
  BY <1>3 DEF Min

\* and a greatest one, which Max chooses.
LEMMA MaxIn ==
  ASSUME NEW S, IsFiniteSet(S), S # {}, \A x \in S : x \in Int
  PROVE  Max(S) \in S /\ \A y \in S : Max(S) >= y
<1> DEFINE R == {r \in S \X S : r[2] >= r[1]}
<1>1. Total(S, R) /\ Transitive(S, R)
  BY DEF Total, Transitive
<1>2. PICK m \in S : \A x \in S \ {m} : <<x, m>> \in R
  <2> HIDE DEF R
  <2>1. QED
    BY <1>1, Greatest
<1>3. ASSUME NEW x \in S
      PROVE  m >= x
  <2>1. CASE x = m
    BY <2>1
  <2>2. CASE x # m
    <3>1. <<x, m>> \in R
      BY <1>2, <2>2
    <3>2. QED
      BY <3>1
  <2>3. QED
    BY <2>1, <2>2
<1>4. QED
  BY <1>3 DEF Max

--------------------------------------------------------------------------------
(* The exchange's book. *)

\* What a level of it holds is what the last change of that level put there.
LEMMA AsksFacts ==
  ASSUME changes \in Seq([level : Levels, size : 0 .. MaxSize]), NEW n \in 0 .. Now
  PROVE  /\ AsksAt(n) \in [Levels -> 0 .. MaxSize]
         /\ \A l \in Levels, t \in 1 .. n : LastTouch(changes, n, l, t) => AsksAt(n)[l] = changes[t].size
         /\ \A l \in Levels : (\A u \in 1 .. n : changes[u].level # l) => AsksAt(n)[l] = 0
<1> DEFINE touched(l) == {i \in 1 .. n : changes[i].level = l}
<1>1. /\ n \in Nat /\ Now \in Nat
      /\ \A i \in 1 .. n : changes[i] \in [level : Levels, size : 0 .. MaxSize]
  <2> DEFINE C == [level : Levels, size : 0 .. MaxSize]
  <2>1. changes \in Seq(C) /\ Now = Len(changes) /\ n \in 0 .. Now
    BY DEF Now
  <2> HIDE DEF C
  <2>2. n \in Nat /\ Now \in Nat /\ \A i \in 1 .. n : changes[i] \in C
    BY <2>1
  <2>3. QED
    BY <2>2 DEF C
<1>2. /\ DOMAIN AsksAt(n) = Levels
      /\ AsksAt(n) = [l \in Levels |-> AsksAt(n)[l]]
      /\ \A l \in Levels :
           AsksAt(n)[l] = IF touched(l) = {} THEN 0 ELSE changes[Max(touched(l))].size
  BY DEF AsksAt
<1>3. ASSUME NEW l \in Levels, touched(l) # {}
      PROVE  /\ Max(touched(l)) \in touched(l)
             /\ \A y \in touched(l) : Max(touched(l)) >= y
  <2> DEFINE T == touched(l)
  <2>1. IsFiniteSet(T)
    <3>1. IsFiniteSet(1 .. n)
      BY <1>1, FS_Interval
    <3>2. QED
      BY <3>1, FS_Subset
  <2>2. T # {} /\ \A x \in T : x \in Int
    BY <1>1, <1>3
  <2> HIDE DEF T
  <2>3. Max(T) \in T /\ \A y \in T : Max(T) >= y
    BY <2>1, <2>2, MaxIn
  <2>4. QED
    BY <2>3 DEF T
<1>4. ASSUME NEW l \in Levels
      PROVE  AsksAt(n)[l] \in 0 .. MaxSize
  <2>1. CASE touched(l) = {}
    <3>1. AsksAt(n)[l] = 0
      BY <1>2, <2>1
    <3>2. QED
      BY <3>1, BooksAssumption
  <2>2. CASE touched(l) # {}
    <3>1. Max(touched(l)) \in 1 .. n
      BY <1>3, <2>2
    <3>2. changes[Max(touched(l))].size \in 0 .. MaxSize
      BY <1>1, <3>1
    <3>3. QED
      BY <1>2, <2>2, <3>2
  <2>3. QED
    BY <2>1, <2>2
<1>5. ASSUME NEW l \in Levels, NEW t \in 1 .. n, LastTouch(changes, n, l, t)
      PROVE  AsksAt(n)[l] = changes[t].size
  <2>1. t \in touched(l)
    BY <1>5 DEF LastTouch
  <2>2. Max(touched(l)) \in 1 .. n /\ changes[Max(touched(l))].level = l /\ Max(touched(l)) >= t
    BY <1>3, <2>1
  <2>3. Max(touched(l)) = t
    BY <1>1, <1>5, <2>2 DEF LastTouch
  <2>4. QED
    BY <1>2, <2>1, <2>3
<1>6. ASSUME NEW l \in Levels, \A u \in 1 .. n : changes[u].level # l
      PROVE  AsksAt(n)[l] = 0
  BY <1>2, <1>6
<1>7. QED
  BY <1>2, <1>4, <1>5, <1>6

\* The best ask, if there is one, is a level.
LEMMA BestIn ==
  ASSUME NEW asks
  PROVE  BestOf(asks) \in Levels \union {None}
<1> DEFINE offered == {l \in Levels : asks[l] > 0}
<1>1. IsFiniteSet(offered) /\ \A l \in offered : l \in Int
  <2>1. offered \subseteq Levels /\ IsFiniteSet(Levels)
    BY BooksAssumption
  <2>2. IsFiniteSet(offered)
    <3> HIDE DEF offered
    <3>1. QED
      BY <2>1, FS_Subset
  <2>3. QED
    BY <2>2, BooksAssumption
<1>2. offered # {} => Min(offered) \in offered
  <2> HIDE DEF offered
  <2>1. QED
    BY <1>1, MinIn
<1>3. QED
  BY <1>2 DEF BestOf

\* The state a snapshot leaves.
LEMMA SnapshotFacts ==
  ASSUME BooksTyped, NEW n \in 0 .. Now, NEW last \in 0 .. MaxChanges, NEW s, s = Snapshot(n, last)
  PROVE  /\ s \in [asks : [Levels -> 0 .. MaxSize], known : SUBSET Levels,
                   best : Levels \union {None}, last : 0 .. MaxChanges, needsRest : BOOLEAN]
         /\ s.asks = AsksAt(n) /\ s.best = BestOf(AsksAt(n)) /\ s.needsRest = FALSE
<1>1. AsksAt(n) \in [Levels -> 0 .. MaxSize]
  BY AsksFacts DEF BooksTyped
<1>2. BestOf(AsksAt(n)) \in Levels \union {None}
  BY BestIn
<1>3. QED
  BY <1>1, <1>2 DEF Snapshot

\* The lengths of the history and of the queue, and what is in them.
LEMMA QueueFacts ==
  ASSUME BooksTyped
  PROVE  /\ Now = Len(changes) /\ Now \in Nat /\ Now <= MaxChanges
         /\ queue \in Seq(Messages) /\ Len(queue) \in Nat /\ DOMAIN queue = 1 .. Len(queue)
         /\ \A i \in DOMAIN queue : queue[i].type \in {"book", "price_change"} /\ queue[i].n \in Nat
         /\ \A i \in DOMAIN queue : queue[i].n \in 0 .. MaxChanges
         /\ Heard \in Int /\ Heard <= Now
<1>1. Now = Len(changes) /\ Now \in Nat /\ Now <= MaxChanges
  BY DEF BooksTyped, Now
<1>2. queue \in Seq(Messages) /\ Len(queue) \in Nat /\ DOMAIN queue = 1 .. Len(queue)
  BY DEF BooksTyped
<1>3. \A i \in DOMAIN queue : queue[i] \in Messages
  BY <1>2
<1>4. \A i \in DOMAIN queue : queue[i].type \in {"book", "price_change"} /\ queue[i].n \in 0 .. MaxChanges
  BY <1>3 DEF Messages
<1>5. \A i \in DOMAIN queue : queue[i].n \in Nat
  BY <1>4, BooksAssumption
<1>6. Heard \in Int /\ Heard <= Now
  BY <1>1, <1>2 DEF Heard
<1>7. QED
  BY <1>1, <1>2, <1>4, <1>5, <1>6

\* The queue after one more message of the stream.
LEMMA StreamedFacts ==
  ASSUME BooksTyped, NEW type \in {"book", "price_change"}, NEW n \in 0 .. MaxChanges,
         NEW q, q = Streamed(type, n)
  PROVE  /\ q \in Seq(Messages) /\ Len(q) = Len(queue) + 1
         /\ DOMAIN q = 1 .. (Len(queue) + 1)
         /\ \A i \in DOMAIN queue : i \in DOMAIN q /\ q[i] = queue[i]
         /\ q[Len(queue) + 1].type = type /\ q[Len(queue) + 1].n = n
<1> DEFINE e == [type |-> type, n |-> n]
<1>1. e \in Messages /\ e.type = type /\ e.n = n
  BY DEF Messages
<1>2. queue \in Seq(Messages) /\ Len(queue) \in Nat /\ DOMAIN queue = 1 .. Len(queue)
  BY QueueFacts
<1>3. q = Append(queue, e)
  BY DEF Streamed
<1> HIDE DEF e
<1>4. /\ q \in Seq(Messages) /\ Len(q) = Len(queue) + 1
      /\ \A i \in 1 .. Len(queue) : q[i] = queue[i]
      /\ q[Len(queue) + 1] = e
  BY <1>1, <1>2, <1>3, AppendProperties
<1>5. DOMAIN q = 1 .. (Len(queue) + 1)
  BY <1>2, <1>4
<1>6. QED
  BY <1>1, <1>2, <1>4, <1>5

\* A step that leaves the exchange alone.
LEMMA SameExchange ==
  ASSUME UNCHANGED changes
  PROVE  Now' = Now /\ Offered' = Offered
<1>1. Now' = Now
  BY DEF Now
<1>2. AsksAt(Now)' = AsksAt(Now)
  BY <1>1 DEF AsksAt
<1>3. QED
  BY <1>1, <1>2 DEF Offered, BestOf

\* A snapshot of change n replaces the book of a worker that has heard of h
\* changes: those it does not have were in the book and are now missing.
LEMMA SnapshotHeard ==
  ASSUME BooksTyped, Bounds, NEW n \in 0 .. Now, NEW h \in Int, h <= Now,
         h <= n \/ Taken(h, newest, missing), Replaced(n)
  PROVE  /\ newest' \in 0 .. Now /\ missing' \subseteq 1 .. Now
         /\ Taken(h, newest', missing')
         /\ Shown(changes, h, missing', AsksAt(n))
         /\ BestShown(h, missing', BestOf(AsksAt(n)))
<1>1. Now = Len(changes) /\ Now \in Nat /\ newest \in Nat /\ newest <= Now /\ missing \subseteq 1 .. Now
  BY QueueFacts, BooksAssumption DEF BooksTyped, Bounds
<1>2. newest' = n /\ missing' = (missing \union (n + 1 .. newest)) \ (1 .. n)
  BY DEF Replaced
<1>3. newest' \in 0 .. Now /\ missing' \subseteq 1 .. Now
  BY <1>1, <1>2
<1>4. ASSUME NEW j \in 1 .. h
      PROVE  j <= n \/ j \in missing'
  BY <1>1, <1>2 DEF Taken
<1>5. ASSUME NEW l \in Levels, NEW t \in 1 .. Len(changes),
             LastTouch(changes, Len(changes), l, t), t <= h, t \notin missing'
      PROVE  AsksAt(n)[l] = changes[t].size
  <2>1. t <= n /\ t \in 1 .. n
    BY <1>1, <1>4, <1>5
  <2>2. LastTouch(changes, n, l, t)
    BY <1>1, <1>5, <2>1 DEF LastTouch
  <2>3. QED
    BY <2>1, <2>2, AsksFacts DEF BooksTyped
<1>6. ASSUME NEW l \in Levels, \A u \in 1 .. Len(changes) : changes[u].level # l
      PROVE  AsksAt(n)[l] = 0
  <2>1. \A u \in 1 .. n : changes[u].level # l
    BY <1>1, <1>6
  <2>2. QED
    BY <2>1, AsksFacts DEF BooksTyped
<1>7. h = Now /\ missing' = {} => n = Now
  BY <1>1, <1>4
<1>8. QED
  BY <1>2, <1>3, <1>4, <1>5, <1>6, <1>7 DEF Taken, Shown, BestShown, Offered

--------------------------------------------------------------------------------
(* The steps. *)

\* Nothing has happened, and there is no connection to have heard by.
LEMMA InitBooksInv ==
  BooksInit => BooksInv
<1> SUFFICES ASSUME BooksInit  PROVE BooksInv
  OBVIOUS
<1>1. /\ changes = <<>> /\ conn = "connecting" /\ breaks = 0 /\ queue = <<>>
      /\ state = InitialState /\ worker = IdleWorker /\ read = -1 /\ newest = 0 /\ missing = {}
  BY DEF BooksInit
<1>2. BooksTyped
  <2>1. state \in [asks : [Levels -> 0 .. MaxSize], known : SUBSET Levels,
                   best : Levels \union {None}, last : 0 .. MaxChanges, needsRest : BOOLEAN]
    BY <1>1, BooksAssumption DEF InitialState, None
  <2>2. worker \in [at : Waiting, n : 0 .. MaxChanges, on : BOOLEAN]
    BY <1>1, BooksAssumption DEF IdleWorker, Waiting
  <2>3. QED
    BY <1>1, <2>1, <2>2, BooksAssumption DEF BooksTyped, Now
<1>3. Bounds
  BY <1>1 DEF Bounds, Now, IdleWorker
<1>4. QED
  BY <1>1, <1>2, <1>3 DEF BooksInv, Streaming, NoBookAhead, Following, InitialState

\* A change of the exchange lengthens the history and, over a connection, the
\* queue: the worker has heard of no more, and the book shows what it did.
LEMMA ChangeStep ==
  ASSUME BooksInv, NEW l \in Levels, NEW size \in 0 .. MaxSize, Change(l, size)
  PROVE  BooksInv'
<1> DEFINE C == [level : Levels, size : 0 .. MaxSize]
           x == [level |-> l, size |-> size]
<1>1. /\ Now < MaxChanges /\ changes' = Append(changes, x)
      /\ queue' = IF conn = "up" THEN Streamed("price_change", Now + 1) ELSE queue
      /\ UNCHANGED <<conn, breaks, state, worker, read, newest, missing>>
      /\ BooksTyped /\ Bounds /\ Streaming
  BY DEF Change, BooksInv
<1>2. /\ Now \in Nat /\ Len(queue) \in Nat /\ queue \in Seq(Messages) /\ DOMAIN queue = 1 .. Len(queue)
      /\ Now = Len(changes)
      /\ \A i \in DOMAIN queue : queue[i].n \in Nat
  BY <1>1, QueueFacts
<1>3. /\ changes' \in Seq(C) /\ Now' = Now + 1 /\ Len(changes') = Now + 1
      /\ \A i \in 1 .. Now : changes'[i] = changes[i]
      /\ changes'[Now + 1].level = l
  <2>1. changes \in Seq(C) /\ x \in C /\ x.level = l
    BY <1>1 DEF BooksTyped
  <2> HIDE DEF C, x
  <2>2. /\ changes' \in Seq(C) /\ Len(changes') = Len(changes) + 1
        /\ \A i \in 1 .. Len(changes) : changes'[i] = changes[i]
        /\ changes'[Len(changes) + 1] = x
    BY <1>1, <2>1, AppendProperties
  <2>3. QED
    BY <1>2, <2>1, <2>2 DEF Now
<1>4. conn = "up" =>
        /\ queue' \in Seq(Messages) /\ Len(queue') = Len(queue) + 1
        /\ DOMAIN queue' = 1 .. (Len(queue) + 1)
        /\ \A i \in DOMAIN queue : i \in DOMAIN queue' /\ queue'[i] = queue[i]
        /\ queue'[Len(queue) + 1].type = "price_change" /\ queue'[Len(queue) + 1].n = Now + 1
  <2>1. Now + 1 \in 0 .. MaxChanges
    BY <1>1, <1>2, BooksAssumption
  <2>2. QED
    BY <1>1, <2>1, StreamedFacts
<1>5. conn # "up" => queue' = queue
  BY <1>1
<1>6. BooksTyped'
  <2>1. queue' \in Seq(Messages)
    BY <1>2, <1>4, <1>5
  <2>2. Now' <= MaxChanges
    BY <1>1, <1>2, <1>3, BooksAssumption
  <2>3. QED
    BY <1>1, <1>3, <2>1, <2>2 DEF BooksTyped
<1> HIDE DEF C, x
<1>7. Bounds'
  <2>1. \A i \in DOMAIN queue' : queue'[i].n <= Now + 1 /\ (queue'[i].type = "price_change" => queue'[i].n >= 1)
    <3>1. CASE conn = "up"
      <4>1. ASSUME NEW i \in DOMAIN queue'
            PROVE  queue'[i].n <= Now + 1 /\ (queue'[i].type = "price_change" => queue'[i].n >= 1)
        <5>1. CASE i \in DOMAIN queue
          BY <1>1, <1>2, <1>4, <3>1, <5>1 DEF Bounds
        <5>2. CASE i \notin DOMAIN queue
          <6>1. i = Len(queue) + 1
            BY <1>2, <1>4, <3>1, <5>2
          <6>2. QED
            BY <1>2, <1>4, <3>1, <6>1
        <5>3. QED
          BY <5>1, <5>2
      <4>2. QED
        BY <4>1
    <3>2. CASE conn # "up"
      BY <1>1, <1>2, <1>5, <3>2 DEF Bounds
    <3>3. QED
      BY <3>1, <3>2
  <2>2. /\ read \in Int /\ worker.n \in Int /\ newest \in Int /\ missing \subseteq Int
    BY <1>1, BooksAssumption DEF BooksTyped
  <2>3. read <= Now + 1 /\ worker.n <= Now + 1 /\ newest <= Now + 1 /\ \A j \in missing : j <= Now + 1
    BY <1>1, <1>2, <2>2 DEF Bounds
  <2>4. QED
    BY <1>1, <1>3, <2>1, <2>3 DEF Bounds
<1>8. Streaming'
  <2>1. SUFFICES ASSUME conn = "up", NEW i \in DOMAIN queue',
                        \A j \in DOMAIN queue' : j > i => queue'[j].type = "price_change"
                 PROVE  queue'[i].n = Now' - (Len(queue') - i)
    BY <1>1 DEF Streaming
  <2>2. CASE i \in DOMAIN queue
    <3>1. \A j \in DOMAIN queue : j > i => queue[j].type = "price_change"
      BY <1>4, <2>1
    <3>2. queue[i].n = Now - (Len(queue) - i)
      BY <1>1, <2>1, <2>2, <3>1 DEF Streaming
    <3>3. queue'[i].n = Now - (Len(queue) - i)
      BY <1>4, <2>1, <2>2, <3>2
    <3>4. Now' = Now + 1 /\ Len(queue') = Len(queue) + 1
      BY <1>3, <1>4, <2>1
    <3>5. i \in Int /\ Now \in Int /\ Len(queue) \in Int
      BY <1>2, <2>2
    <3>6. Now - (Len(queue) - i) = (Now + 1) - ((Len(queue) + 1) - i)
      BY <3>5
    <3>7. QED
      BY <3>3, <3>4, <3>6
  <2>3. CASE i \notin DOMAIN queue
    <3>1. i = Len(queue) + 1
      BY <1>2, <1>4, <2>1, <2>3
    <3>2. QED
      BY <1>2, <1>3, <1>4, <2>1, <3>1
  <2>4. QED
    BY <2>2, <2>3
<1>9. ASSUME NoBookAhead'
      PROVE  NoBookAhead /\ Heard' = Heard /\ Heard' < Now'
  <2>1. conn = "up" /\ \A i \in DOMAIN queue' : queue'[i].type = "price_change"
    BY <1>1, <1>9 DEF NoBookAhead
  <2>2. \A i \in DOMAIN queue : queue[i].type = "price_change"
    BY <1>4, <2>1
  <2>3. Len(queue') = Len(queue) + 1 /\ Now' = Now + 1
    BY <1>3, <1>4, <2>1
  <2>4. Heard' = Now' - Len(queue')
    BY DEF Heard
  <2>5. QED
    BY <1>2, <2>1, <2>2, <2>3, <2>4 DEF NoBookAhead, Heard
<1>10. Following' => Following
  BY <1>1, <1>9 DEF Following
<1>11. ASSUME Shown(changes, Heard, missing, state.asks)
       PROVE  Shown(changes', Heard, missing, state.asks)
  <2>1. Heard \in Int /\ Heard <= Now
    BY <1>1, QueueFacts
  <2>2. ASSUME NEW m \in Levels, NEW t \in 1 .. (Now + 1),
               LastTouch(changes', Now + 1, m, t), t <= Heard, t \notin missing
        PROVE  state.asks[m] = changes'[t].size
    <3>1. t \in 1 .. Now
      BY <1>2, <2>1, <2>2
    <3>2. LastTouch(changes, Now, m, t)
      BY <1>2, <1>3, <2>2, <3>1 DEF LastTouch
    <3>3. QED
      BY <1>2, <1>3, <1>11, <2>2, <3>1, <3>2 DEF Shown
  <2>3. ASSUME NEW m \in Levels, \A u \in 1 .. (Now + 1) : changes'[u].level # m
        PROVE  state.asks[m] = 0
    <3>1. \A u \in 1 .. Now : changes[u].level # m
      BY <1>2, <1>3, <2>3
    <3>2. QED
      BY <1>2, <1>11, <3>1 DEF Shown
  <2>4. QED
    BY <1>3, <2>2, <2>3 DEF Shown
<1>12. Following' => Heard' # Now'
  <2>1. Heard \in Int
    BY <1>1, QueueFacts
  <2>2. QED
    BY <1>2, <1>3, <1>9, <2>1 DEF Following
<1>13. BestShown(Heard, missing, state.best)' \/ ~Following'
  BY <1>12 DEF BestShown
<1>14. (state.needsRest => worker.at \in {"rest", "asked", "dead"})'
  BY <1>1 DEF BooksInv
<1>15. (NoBookAhead /\ worker.at = "asked" => Heard <= worker.n)'
  <2>1. SUFFICES ASSUME NoBookAhead', worker.at = "asked"  PROVE Heard' <= worker.n
    BY <1>1
  <2>2. QED
    BY <1>9, <2>1 DEF BooksInv
<1>16. ASSUME Following'
       PROVE  Taken(Heard, newest, missing)' /\ Shown(changes, Heard, missing, state.asks)'
  <2>1. Following /\ Heard' = Heard
    BY <1>9, <1>10, <1>16 DEF Following
  <2>2. Taken(Heard, newest, missing) /\ Shown(changes, Heard, missing, state.asks)
    BY <2>1 DEF BooksInv
  <2>3. Taken(Heard', newest, missing) /\ Shown(changes', Heard', missing, state.asks)
    BY <1>11, <2>1, <2>2
  <2>4. Taken(Heard', newest', missing') /\ Shown(changes', Heard', missing', state'.asks)
    BY <1>1, <2>3
  <2>5. QED
    BY <2>4 DEF Taken, Shown
<1>17. QED
  BY <1>6, <1>7, <1>8, <1>13, <1>14, <1>15, <1>16 DEF BooksInv

\* What a step that leaves the exchange, the connection and the queue alone
\* leaves alone with them.
LEMMA QueueKept ==
  ASSUME BooksTyped, Bounds, Streaming, UNCHANGED <<changes, conn, queue>>
  PROVE  /\ Now' = Now /\ Offered' = Offered /\ Heard' = Heard /\ NoBookAhead' = NoBookAhead
         /\ Streaming'
         /\ \A i \in DOMAIN queue' : queue'[i].n <= Now'
         /\ \A i \in DOMAIN queue' : queue'[i].type = "price_change" => queue'[i].n >= 1
<1>1. Now' = Now /\ Offered' = Offered
  BY SameExchange
<1>2. Heard' = Heard /\ NoBookAhead' = NoBookAhead
  BY <1>1 DEF Heard, NoBookAhead
<1>3. Streaming'
  BY <1>1 DEF Streaming
<1>4. QED
  BY <1>1, <1>2, <1>3 DEF Bounds

\* A step that leaves the book alone.
LEMMA BookKept ==
  ASSUME BooksInv, BooksTyped', UNCHANGED <<changes, conn, queue, newest, missing>>,
         state'.asks = state.asks, state'.best = state.best,
         worker'.n <= Now, read' <= Now,
         state'.needsRest => worker'.at \in {"rest", "asked", "dead"},
         worker'.at \in {"idle", "publishing"} => worker.at \in {"idle", "publishing"},
         NoBookAhead /\ worker'.at = "asked" => Heard <= worker'.n
  PROVE  BooksInv'
<1>1. BooksTyped /\ Bounds /\ Streaming
  BY DEF BooksInv
<1>2. /\ Now' = Now /\ Offered' = Offered /\ Heard' = Heard /\ NoBookAhead' = NoBookAhead
      /\ Streaming'
      /\ \A i \in DOMAIN queue' : queue'[i].n <= Now'
      /\ \A i \in DOMAIN queue' : queue'[i].type = "price_change" => queue'[i].n >= 1
  BY <1>1, QueueKept
<1>3. Bounds'
  BY <1>1, <1>2 DEF Bounds
<1>4. ASSUME Following'
      PROVE  /\ Taken(Heard, newest, missing)' /\ Shown(changes, Heard, missing, state.asks)'
             /\ BestShown(Heard, missing, state.best)'
  <2>1. Following
    BY <1>2, <1>4 DEF Following
  <2>2. /\ Taken(Heard, newest, missing) /\ Shown(changes, Heard, missing, state.asks)
        /\ BestShown(Heard, missing, state.best)
    BY <2>1 DEF BooksInv
  <2>3. /\ Taken(Heard', newest', missing') /\ Shown(changes', Heard', missing', state'.asks)
    BY <1>2, <2>2
  <2>4. Heard' = Now' /\ missing' = {} /\ Offered' # None => state'.best = Offered'
    BY <1>2, <2>2 DEF BestShown
  <2>5. QED
    BY <2>3, <2>4 DEF Taken, Shown, BestShown
<1>5. (NoBookAhead /\ worker.at = "asked" => Heard <= worker.n)'
  BY <1>2
<1>6. QED
  BY <1>2, <1>3, <1>4, <1>5 DEF BooksInv

\* A step that puts a snapshot of change n in the place of the book: what the
\* worker has heard of is in the snapshot, or in the book it replaces.
LEMMA BookReplaced ==
  ASSUME BooksInv, UNCHANGED <<changes, conn, queue>>, NEW n \in 0 .. Now,
         Replaced(n), state' = Snapshot(n, None), breaks' \in 0 .. MaxBreaks,
         worker' \in [at : Waiting, n : 0 .. MaxChanges, on : BOOLEAN], worker'.n <= Now,
         read' \in -1 .. MaxChanges, read' <= Now,
         worker'.at \in {"idle", "publishing"} /\ NoBookAhead =>
           Heard <= n \/ Taken(Heard, newest, missing),
         NoBookAhead /\ worker'.at = "asked" => Heard <= worker'.n
  PROVE  BooksInv'
<1>1. BooksTyped /\ Bounds /\ Streaming
  BY DEF BooksInv
<1>2. /\ Now' = Now /\ Offered' = Offered /\ Heard' = Heard /\ NoBookAhead' = NoBookAhead
      /\ Streaming'
      /\ \A i \in DOMAIN queue' : queue'[i].n <= Now'
      /\ \A i \in DOMAIN queue' : queue'[i].type = "price_change" => queue'[i].n >= 1
  BY <1>1, QueueKept
<1>3. /\ state' \in [asks : [Levels -> 0 .. MaxSize], known : SUBSET Levels,
                     best : Levels \union {None}, last : 0 .. MaxChanges, needsRest : BOOLEAN]
      /\ state'.asks = AsksAt(n) /\ state'.best = BestOf(AsksAt(n)) /\ state'.needsRest = FALSE
  <2>1. None \in 0 .. MaxChanges
    BY BooksAssumption DEF None
  <2>2. QED
    BY <1>1, <2>1, SnapshotFacts
<1>4. newest' \in 0 .. Now /\ missing' \subseteq 1 .. Now
  <2>1. /\ Now \in Nat /\ newest \in Nat /\ newest <= Now /\ missing \subseteq 1 .. Now
    <3>1. \A j \in missing : j \in Nat /\ j >= 1 /\ j <= Now
      BY <1>1, BooksAssumption DEF BooksTyped, Bounds
    <3>2. QED
      BY <1>1, <3>1, QueueFacts, BooksAssumption DEF BooksTyped, Bounds
  <2>2. QED
    BY <2>1 DEF Replaced
<1>5. BooksTyped'
  <2>1. Now \in Nat /\ Now <= MaxChanges
    BY <1>1, QueueFacts
  <2>2. newest' \in 0 .. MaxChanges /\ missing' \subseteq 1 .. MaxChanges
    BY <1>4, <2>1, BooksAssumption
  <2>3. Now' <= MaxChanges
    BY <1>2, <2>1
  <2>4. changes' \in Seq([level : Levels, size : 0 .. MaxSize]) /\ conn' \in {"connecting", "up"}
        /\ queue' \in Seq(Messages)
    BY <1>1 DEF BooksTyped
  <2>5. QED
    BY <1>3, <2>2, <2>3, <2>4 DEF BooksTyped
<1>6. Bounds'
  <2>1. newest' <= Now' /\ \A j \in missing' : j <= Now'
    BY <1>1, <1>2, <1>4, QueueFacts
  <2>2. QED
    BY <1>2, <2>1 DEF Bounds
<1>7. ASSUME Following'
      PROVE  /\ Taken(Heard, newest, missing)' /\ Shown(changes, Heard, missing, state.asks)'
             /\ BestShown(Heard, missing, state.best)'
  <2>1. Heard <= n \/ Taken(Heard, newest, missing)
    BY <1>2, <1>7 DEF Following
  <2>2. Heard \in Int /\ Heard <= Now
    BY <1>1, QueueFacts
  <2> DEFINE h == Heard
  <2> HIDE DEF h
  <2>3. h \in Int /\ h <= Now /\ (h <= n \/ Taken(h, newest, missing))
    BY <2>1, <2>2 DEF h
  <2>4. /\ Taken(h, newest', missing') /\ Shown(changes, h, missing', AsksAt(n))
        /\ BestShown(h, missing', BestOf(AsksAt(n)))
    BY <1>1, <2>3, SnapshotHeard
  <2>5. h = Heard'
    BY <1>2 DEF h
  <2>6. /\ Taken(Heard', newest', missing') /\ Shown(changes', Heard', missing', state'.asks)
    BY <1>3, <2>4, <2>5
  <2>7. Heard' = Now' /\ missing' = {} /\ Offered' # None => state'.best = Offered'
    BY <1>2, <1>3, <2>4, <2>5 DEF BestShown
  <2>8. QED
    BY <2>6, <2>7 DEF Taken, Shown, BestShown
<1>8. (NoBookAhead /\ worker.at = "asked" => Heard <= worker.n)'
  BY <1>2
<1>9. QED
  BY <1>2, <1>3, <1>5, <1>6, <1>7, <1>8 DEF BooksInv

\* A new connection puts a book ahead of the worker, after what is left of the
\* old one.
LEMMA ConnectStep ==
  ASSUME BooksInv, Connect
  PROVE  BooksInv'
<1>1. /\ conn' = "up" /\ queue' = Streamed("book", Now)
      /\ UNCHANGED <<changes, breaks, state, worker, read, newest, missing>>
      /\ BooksTyped /\ Bounds
  BY DEF Connect, BooksInv
<1>2. /\ Now \in 0 .. MaxChanges /\ Now \in Nat /\ Len(queue) \in Nat /\ DOMAIN queue = 1 .. Len(queue)
      /\ \A i \in DOMAIN queue : queue[i].n \in Nat
  BY <1>1, QueueFacts, BooksAssumption
<1>3. /\ queue' \in Seq(Messages) /\ Len(queue') = Len(queue) + 1
      /\ DOMAIN queue' = 1 .. (Len(queue) + 1)
      /\ \A i \in DOMAIN queue : i \in DOMAIN queue' /\ queue'[i] = queue[i]
      /\ queue'[Len(queue) + 1].type = "book" /\ queue'[Len(queue) + 1].n = Now
  BY <1>1, <1>2, StreamedFacts
<1>4. Now' = Now
  BY <1>1, SameExchange
<1>5. BooksTyped'
  BY <1>1, <1>3, <1>4 DEF BooksTyped
<1>6. Len(queue) + 1 \in DOMAIN queue'
  BY <1>2, <1>3
<1>7. ~NoBookAhead'
  BY <1>3, <1>6 DEF NoBookAhead
<1>8. ASSUME NEW i \in DOMAIN queue', i # Len(queue) + 1
      PROVE  i \in DOMAIN queue /\ i < Len(queue) + 1
  BY <1>2, <1>3, <1>8
<1>9. Bounds'
  <2>1. \A i \in DOMAIN queue' : queue'[i].n <= Now /\ (queue'[i].type = "price_change" => queue'[i].n >= 1)
    <3>1. ASSUME NEW i \in DOMAIN queue'
          PROVE  queue'[i].n <= Now /\ (queue'[i].type = "price_change" => queue'[i].n >= 1)
      <4>1. CASE i = Len(queue) + 1
        BY <1>2, <1>3, <4>1
      <4>2. CASE i # Len(queue) + 1
        BY <1>1, <1>3, <1>8, <4>2 DEF Bounds
      <4>3. QED
        BY <4>1, <4>2
    <3>2. QED
      BY <3>1
  <2>2. QED
    BY <1>1, <1>4, <2>1 DEF Bounds
<1>10. Streaming'
  <2>1. SUFFICES ASSUME NEW i \in DOMAIN queue',
                        \A j \in DOMAIN queue' : j > i => queue'[j].type = "price_change"
                 PROVE  queue'[i].n = Now' - (Len(queue') - i)
    BY DEF Streaming
  <2>2. i = Len(queue) + 1
    BY <1>3, <1>6, <1>8, <2>1
  <2>3. QED
    BY <1>2, <1>3, <1>4, <2>2
<1>11. (state.needsRest => worker.at \in {"rest", "asked", "dead"})'
  BY <1>1 DEF BooksInv
<1>12. QED
  BY <1>5, <1>7, <1>9, <1>10, <1>11 DEF BooksInv, Following

\* Without a connection nothing is claimed of the book.
LEMMA BreakStep ==
  ASSUME BooksInv, Break
  PROVE  BooksInv'
<1>1. /\ conn' = "connecting" /\ breaks < MaxBreaks /\ breaks' = breaks + 1
      /\ UNCHANGED <<changes, queue, state, worker, read, newest, missing>>
      /\ BooksTyped /\ Bounds
  BY DEF Break, BooksInv
<1>2. Now' = Now
  BY <1>1, SameExchange
<1>3. BooksTyped'
  BY <1>1, <1>2, BooksAssumption DEF BooksTyped
<1>4. Bounds'
  BY <1>1, <1>2 DEF Bounds
<1>5. Streaming' /\ ~NoBookAhead'
  BY <1>1 DEF Streaming, NoBookAhead
<1>6. (state.needsRest => worker.at \in {"rest", "asked", "dead"})'
  BY <1>1 DEF BooksInv
<1>7. QED
  BY <1>3, <1>4, <1>5, <1>6 DEF BooksInv, Following

\* Nor when the subscription is renewed.
LEMMA ResubscribeStep ==
  ASSUME BooksInv, Resubscribe
  PROVE  BooksInv'
<1>1. /\ conn' = "connecting" /\ breaks < MaxBreaks /\ breaks' = breaks + 1 /\ queue' = <<>>
      /\ UNCHANGED <<changes, state, worker, read, newest, missing>>
      /\ BooksTyped /\ Bounds
  BY DEF Resubscribe, BooksInv
<1>2. Now' = Now
  BY <1>1, SameExchange
<1>3. BooksTyped'
  BY <1>1, <1>2, BooksAssumption DEF BooksTyped
<1>4. Bounds'
  BY <1>1, <1>2 DEF Bounds
<1>5. Streaming' /\ ~NoBookAhead'
  BY <1>1 DEF Streaming, NoBookAhead
<1>6. (state.needsRest => worker.at \in {"rest", "asked", "dead"})'
  BY <1>1 DEF BooksInv
<1>7. QED
  BY <1>3, <1>4, <1>5, <1>6 DEF BooksInv, Following

\* The types of the book's state and of the worker, as BooksTyped has them.
BookStates ==
  [asks : [Levels -> 0 .. MaxSize], known : SUBSET Levels,
   best : Levels \union {None}, last : 0 .. MaxChanges, needsRest : BOOLEAN]

Workers == [at : Waiting, n : 0 .. MaxChanges, on : BOOLEAN]

\* What the types and the bounds say of the numbers of a state.
LEMMA NumberFacts ==
  ASSUME BooksTyped, Bounds
  PROVE  /\ state \in BookStates /\ worker \in Workers
         /\ worker.n \in Nat /\ worker.n <= Now /\ worker.n \in 0 .. MaxChanges
         /\ read \in Int /\ read <= Now /\ newest \in Nat /\ newest <= Now
         /\ missing \subseteq 1 .. Now
<1>1. state \in BookStates /\ worker \in Workers /\ worker.n <= Now /\ read <= Now /\ newest <= Now
  BY DEF BooksTyped, Bounds, BookStates, Workers
<1>2. worker.n \in 0 .. MaxChanges
  BY <1>1 DEF Workers
<1>3. worker.n \in Nat /\ read \in Int /\ newest \in Nat
  BY <1>2, BooksAssumption DEF BooksTyped
<1>4. \A j \in missing : j \in Nat /\ j >= 1 /\ j <= Now
  BY BooksAssumption DEF BooksTyped, Bounds
<1>5. missing \subseteq 1 .. Now
  BY <1>4, QueueFacts
<1>6. QED
  BY <1>1, <1>2, <1>3, <1>5

\* The sequence number of a message is recorded after it is published.
LEMMA PublishedStep ==
  ASSUME BooksInv, Published
  PROVE  BooksInv'
<1>1. /\ worker.at = "publishing" /\ worker' = IdleWorker
      /\ state' = IF worker.on /\ Sequenced THEN [state EXCEPT !.last = worker.n] ELSE state
      /\ UNCHANGED <<changes, conn, breaks, queue, read, newest, missing>>
      /\ BooksTyped /\ Bounds
  BY DEF Published, BooksInv
<1>2. /\ state \in BookStates /\ worker.n \in 0 .. MaxChanges /\ read <= Now /\ Now \in Nat
  BY <1>1, NumberFacts, QueueFacts
<1>3. state' \in BookStates /\ state'.asks = state.asks /\ state'.best = state.best
      /\ state'.needsRest = state.needsRest
  BY <1>1, <1>2 DEF BookStates
<1>4. worker' \in Workers /\ worker'.n = 0 /\ worker'.at = "idle"
  BY <1>1, BooksAssumption DEF IdleWorker, Workers, Waiting
<1>5. BooksTyped'
  <2>1. Now' = Now
    BY <1>1, SameExchange
  <2>2. QED
    BY <1>1, <1>3, <1>4, <2>1 DEF BooksTyped, BookStates, Workers
<1>6. ~state.needsRest
  BY <1>1 DEF BooksInv
<1>7. QED
  BY <1>1, <1>2, <1>3, <1>4, <1>5, <1>6, BookKept

\* The snapshot of a gap is read: it has all that was ever queued.
LEMMA RestReadStep ==
  ASSUME BooksInv, RestRead
  PROVE  BooksInv'
<1>1. /\ worker.at = "rest" /\ worker' = [worker EXCEPT !.at = "asked", !.n = Now]
      /\ UNCHANGED <<changes, conn, breaks, queue, state, read, newest, missing>>
      /\ BooksTyped /\ Bounds
  BY DEF RestRead, BooksInv
<1>2. /\ worker \in Workers /\ read <= Now /\ Now \in Nat /\ Now <= MaxChanges /\ Heard <= Now
  BY <1>1, NumberFacts, QueueFacts
<1>3. worker' \in Workers /\ worker'.n = Now /\ worker'.at = "asked"
  <2>1. Now \in 0 .. MaxChanges
    BY <1>2, BooksAssumption
  <2>2. worker' = [at |-> "asked", n |-> Now, on |-> worker.on] /\ worker.on \in BOOLEAN
    BY <1>1, <1>2 DEF Workers
  <2>3. QED
    BY <2>1, <2>2 DEF Workers, Waiting
<1>4. BooksTyped'
  <2>1. Now' = Now
    BY <1>1, SameExchange
  <2>2. QED
    BY <1>1, <1>3, <2>1 DEF BooksTyped, Workers
<1>5. QED
  BY <1>1, <1>2, <1>3, <1>4, BookKept

\* The loop dies of a REST call: its book is followed no longer.
LEMMA RestFailsStep ==
  ASSUME BooksInv, RestFails
  PROVE  BooksInv'
<1>1. /\ worker.at = "rest" /\ worker' = [worker EXCEPT !.at = "dead"]
      /\ UNCHANGED <<changes, conn, breaks, queue, state, read, newest, missing>>
      /\ BooksTyped /\ Bounds
  BY DEF RestFails, BooksInv
<1>2. /\ worker \in Workers /\ worker.n <= Now /\ read <= Now
  BY <1>1, NumberFacts
<1>3. worker' \in Workers /\ worker'.n = worker.n /\ worker'.at = "dead"
  BY <1>1, <1>2 DEF Workers, Waiting
<1>4. BooksTyped'
  <2>1. Now' = Now
    BY <1>1, SameExchange
  <2>2. QED
    BY <1>1, <1>3, <2>1 DEF BooksTyped, Workers
<1>5. QED
  BY <1>1, <1>2, <1>3, <1>4, BookKept

\* The reconcile run takes its snapshot along.
LEMMA ReconcileReadsStep ==
  ASSUME BooksInv, ReconcileReads
  PROVE  BooksInv'
<1>1. /\ read' = Now
      /\ UNCHANGED <<changes, conn, breaks, queue, state, worker, newest, missing>>
      /\ BooksTyped /\ Bounds
  BY DEF ReconcileReads, BooksInv
<1>2. /\ worker.n <= Now /\ Now \in Nat /\ Now <= MaxChanges
  BY <1>1, NumberFacts, QueueFacts
<1>3. BooksTyped'
  <2>1. Now' = Now /\ read' \in -1 .. MaxChanges
    BY <1>1, <1>2, SameExchange, BooksAssumption
  <2>2. QED
    BY <1>1, <2>1 DEF BooksTyped
<1>4. state'.needsRest => worker'.at \in {"rest", "asked", "dead"}
  BY <1>1 DEF BooksInv
<1>5. NoBookAhead /\ worker'.at = "asked" => Heard <= worker'.n
  BY <1>1 DEF BooksInv
<1>6. QED
  BY <1>1, <1>2, <1>3, <1>4, <1>5, BookKept

\* The snapshot of a gap is applied: the worker took no message since it was
\* read, so what it has heard of by then was in the snapshot.
LEMMA RestAppliedStep ==
  ASSUME BooksInv, RestApplied
  PROVE  BooksInv'
<1>1. /\ worker.at = "asked" /\ state' = Snapshot(worker.n, None) /\ Replaced(worker.n)
      /\ worker' = IdleWorker
      /\ UNCHANGED <<changes, conn, breaks, queue, read>>
      /\ BooksTyped /\ Bounds
  BY DEF RestApplied, BooksInv
<1>2. /\ worker.n \in 0 .. Now /\ read <= Now /\ Now \in Nat
  BY <1>1, NumberFacts, QueueFacts
<1>3. worker' \in Workers /\ worker'.n = 0 /\ worker'.at = "idle"
  BY <1>1, BooksAssumption DEF IdleWorker, Workers, Waiting
<1>4. NoBookAhead => Heard <= worker.n
  BY <1>1 DEF BooksInv
<1>5. breaks' \in 0 .. MaxBreaks /\ read' \in -1 .. MaxChanges /\ read' <= Now
  BY <1>1, <1>2 DEF BooksTyped
<1>6. QED
  BY <1>1, <1>2, <1>3, <1>4, <1>5, BookReplaced DEF Workers

\* Both that put a snapshot into the book behind the worker's back leave the
\* message it is at alone.
LEMMA UnawareWorker ==
  ASSUME BooksTyped, Bounds, worker' = [worker EXCEPT !.on = FALSE]
  PROVE  worker' \in Workers /\ worker'.n <= Now /\ worker'.n = worker.n /\ worker'.at = worker.at
<1>1. worker \in Workers /\ worker.n <= Now
  BY NumberFacts
<1>2. QED
  BY <1>1 DEF Workers

\* The reconcile run puts its snapshot, however old, in the place of the book.
LEMMA ReconcileAppliesStep ==
  ASSUME BooksInv, ReconcileApplies
  PROVE  BooksInv'
<1>1. /\ read # -1 /\ state' = Snapshot(read, None) /\ Replaced(read)
      /\ worker' = [worker EXCEPT !.on = FALSE] /\ read' = -1
      /\ UNCHANGED <<changes, conn, breaks, queue>>
      /\ BooksTyped /\ Bounds
  BY DEF ReconcileApplies, BooksInv
<1>2. read \in 0 .. Now /\ Now \in Nat
  <2>1. read >= 0
    BY <1>1, BooksAssumption DEF BooksTyped
  <2>2. QED
    BY <1>1, <2>1, NumberFacts, QueueFacts
<1>3. worker' \in Workers /\ worker'.n <= Now /\ worker'.n = worker.n /\ worker'.at = worker.at
  BY <1>1, UnawareWorker
<1>4. NoBookAhead /\ worker.at \in {"idle", "publishing"} => Taken(Heard, newest, missing)
  BY DEF BooksInv, Following
<1>5. NoBookAhead /\ worker.at = "asked" => Heard <= worker.n
  BY DEF BooksInv
<1>6. breaks' \in 0 .. MaxBreaks /\ read' \in -1 .. MaxChanges /\ read' <= Now
  BY <1>1, <1>2, BooksAssumption DEF BooksTyped
<1>7. QED
  BY <1>1, <1>2, <1>3, <1>4, <1>5, <1>6, BookReplaced DEF Workers

\* An empty book is the exchange's before its first change.
LEMMA EmptyBook ==
  ASSUME BooksTyped
  PROVE  InitialState = Snapshot(0, None)
<1>1. 0 \in 0 .. Now
  BY QueueFacts
<1>2. AsksAt(0) \in [Levels -> 0 .. MaxSize] /\ \A l \in Levels : AsksAt(0)[l] = 0
  BY <1>1, AsksFacts DEF BooksTyped
<1>3. AsksAt(0) = [l \in Levels |-> 0]
  BY <1>2
<1>4. {l \in Levels : AsksAt(0)[l] > 0} = {}
  BY <1>2
<1>5. BestOf(AsksAt(0)) = None
  BY <1>4 DEF BestOf
<1>6. QED
  BY <1>3, <1>4, <1>5 DEF InitialState, Snapshot

\* The market is tracked anew: all that the book had taken in is missing.
LEMMA RetrackedStep ==
  ASSUME BooksInv, Retracked
  PROVE  BooksInv'
<1>1. /\ breaks < MaxBreaks /\ breaks' = breaks + 1 /\ state' = InitialState /\ Replaced(0)
      /\ worker' = [worker EXCEPT !.on = FALSE]
      /\ UNCHANGED <<changes, conn, queue, read>>
      /\ BooksTyped /\ Bounds
  BY DEF Retracked, BooksInv
<1>2. 0 \in 0 .. Now /\ read <= Now
  BY <1>1, NumberFacts, QueueFacts
<1>3. worker' \in Workers /\ worker'.n <= Now /\ worker'.n = worker.n /\ worker'.at = worker.at
  BY <1>1, UnawareWorker
<1>4. NoBookAhead /\ worker.at \in {"idle", "publishing"} => Taken(Heard, newest, missing)
  BY DEF BooksInv, Following
<1>5. NoBookAhead /\ worker.at = "asked" => Heard <= worker.n
  BY DEF BooksInv
<1>6. breaks' \in 0 .. MaxBreaks /\ read' \in -1 .. MaxChanges /\ read' <= Now
  BY <1>1, <1>2, BooksAssumption DEF BooksTyped
<1>7. state' = Snapshot(0, None)
  BY <1>1, EmptyBook
<1>8. QED
  BY <1>1, <1>2, <1>3, <1>4, <1>5, <1>6, <1>7, BookReplaced DEF Workers

\* What is left of the queue when its first message has been taken.
LEMMA TailFacts ==
  ASSUME BooksTyped, queue # <<>>, NEW q, q = Tail(queue)
  PROVE  /\ q \in Seq(Messages) /\ Len(q) = Len(queue) - 1
         /\ Len(queue) \in Nat /\ Len(queue) >= 1 /\ 1 \in DOMAIN queue
         /\ DOMAIN q = 1 .. (Len(queue) - 1)
         /\ Head(queue) = queue[1]
         /\ \A i \in DOMAIN q : i \in Nat /\ i + 1 \in DOMAIN queue /\ q[i] = queue[i + 1]
         /\ \A i \in DOMAIN queue : i # 1 => i - 1 \in DOMAIN q /\ q[i - 1] = queue[i]
<1>1. queue \in Seq(Messages)
  BY DEF BooksTyped
<1>2. Len(queue) \in Nat /\ Len(queue) >= 1 /\ DOMAIN queue = 1 .. Len(queue)
  BY <1>1, EmptySeq
<1>3. q \in Seq(Messages) /\ Len(q) = Len(queue) - 1 /\ \A i \in 1 .. Len(q) : q[i] = queue[i + 1]
  BY <1>1, HeadTailProperties
<1>4. DOMAIN q = 1 .. (Len(queue) - 1)
  BY <1>2, <1>3
<1>5. Head(queue) = queue[1] /\ 1 \in DOMAIN queue
  BY <1>1, <1>2
<1>6. \A i \in DOMAIN q : i \in Nat /\ i + 1 \in DOMAIN queue /\ q[i] = queue[i + 1]
  BY <1>2, <1>3, <1>4
<1>7. ASSUME NEW i \in DOMAIN queue, i # 1
      PROVE  i - 1 \in DOMAIN q /\ q[i - 1] = queue[i]
  <2>1. i - 1 \in 1 .. (Len(queue) - 1) /\ (i - 1) + 1 = i
    BY <1>2, <1>7
  <2>2. QED
    BY <1>3, <1>4, <2>1
<1>8. \A i \in DOMAIN queue : i # 1 => i - 1 \in DOMAIN q /\ q[i - 1] = queue[i]
  BY <1>7
<1>9. /\ q \in Seq(Messages) /\ Len(q) = Len(queue) - 1
      /\ Len(queue) \in Nat /\ Len(queue) >= 1 /\ 1 \in DOMAIN queue
      /\ Head(queue) = queue[1]
  BY <1>2, <1>3, <1>5
<1>10. QED
  BY <1>4, <1>6, <1>8, <1>9

\* What the worker has heard of when it takes a message, and what the message
\* is when there is no book behind it.
LEMMA HeardFacts ==
  ASSUME BooksTyped, Bounds, Streaming, queue # <<>>, queue' = Tail(queue), UNCHANGED <<changes, conn>>
  PROVE  /\ Now' = Now /\ Offered' = Offered /\ Heard' = Heard + 1 /\ Heard' <= Now
         /\ Streaming' /\ queue' \in Seq(Messages)
         /\ \A i \in DOMAIN queue' : queue'[i].n <= Now
         /\ \A i \in DOMAIN queue' : queue'[i].type = "price_change" => queue'[i].n >= 1
         /\ Head(queue).n \in 0 .. Now
         /\ Head(queue).type \in {"book", "price_change"}
         /\ Head(queue).type = "price_change" => Head(queue).n \in 1 .. Now
         /\ NoBookAhead' => Head(queue).n = Heard'
         /\ NoBookAhead' /\ Head(queue).type = "price_change" => NoBookAhead
<1>1. Now' = Now /\ Offered' = Offered
  BY SameExchange
<1> DEFINE q == queue'
<1>2. /\ q \in Seq(Messages) /\ Len(q) = Len(queue) - 1
      /\ Len(queue) \in Nat /\ Len(queue) >= 1 /\ 1 \in DOMAIN queue
      /\ DOMAIN q = 1 .. (Len(queue) - 1)
      /\ Head(queue) = queue[1]
      /\ \A i \in DOMAIN q : i \in Nat /\ i + 1 \in DOMAIN queue /\ q[i] = queue[i + 1]
      /\ \A i \in DOMAIN queue : i # 1 => i - 1 \in DOMAIN q /\ q[i - 1] = queue[i]
  <2>1. q = Tail(queue)
    OBVIOUS
  <2> HIDE DEF q
  <2>2. QED
    BY <2>1, TailFacts
<1>3. /\ Now \in Nat /\ DOMAIN queue = 1 .. Len(queue)
      /\ \A i \in DOMAIN queue : queue[i].type \in {"book", "price_change"} /\ queue[i].n \in Nat
  BY QueueFacts
<1>4. Heard' = Heard + 1 /\ Heard' <= Now
  BY <1>1, <1>2, <1>3 DEF Heard
<1>5. Streaming'
  <2>1. SUFFICES ASSUME conn = "up", NEW i \in DOMAIN q,
                        \A j \in DOMAIN q : j > i => q[j].type = "price_change"
                 PROVE  q[i].n = Now' - (Len(q) - i)
    BY DEF Streaming
  <2>2. i \in Nat /\ i + 1 \in DOMAIN queue /\ q[i] = queue[i + 1]
    BY <1>2
  <2>3. ASSUME NEW j \in DOMAIN queue, j > i + 1
        PROVE  queue[j].type = "price_change"
    <3>1. j # 1 /\ j - 1 > i
      BY <1>3, <2>2, <2>3
    <3>2. j - 1 \in DOMAIN q /\ q[j - 1] = queue[j]
      BY <1>2, <3>1
    <3>3. QED
      BY <2>1, <3>1, <3>2
  <2>4. queue[i + 1].n = Now - (Len(queue) - (i + 1))
    BY <2>1, <2>2, <2>3 DEF Streaming
  <2>5. QED
    BY <1>1, <1>2, <1>3, <2>2, <2>4
<1>6. \A i \in DOMAIN q : q[i].n <= Now /\ (q[i].type = "price_change" => q[i].n >= 1)
  BY <1>2 DEF Bounds
<1>7. /\ Head(queue).n \in 0 .. Now /\ Head(queue).type \in {"book", "price_change"}
      /\ Head(queue).type = "price_change" => Head(queue).n \in 1 .. Now
  <2>1. Head(queue).n \in Nat /\ Head(queue).n <= Now /\ Head(queue).type \in {"book", "price_change"}
        /\ (Head(queue).type = "price_change" => Head(queue).n >= 1)
    BY <1>2, <1>3 DEF Bounds
  <2>2. QED
    BY <1>3, <2>1
<1>8. ASSUME NoBookAhead'
      PROVE  conn = "up" /\ \A j \in DOMAIN queue : j > 1 => queue[j].type = "price_change"
  <2>1. conn = "up" /\ \A i \in DOMAIN q : q[i].type = "price_change"
    BY <1>8 DEF NoBookAhead
  <2>2. ASSUME NEW j \in DOMAIN queue, j > 1
        PROVE  queue[j].type = "price_change"
    <3>1. j - 1 \in DOMAIN q /\ q[j - 1] = queue[j]
      BY <1>2, <1>3, <2>2
    <3>2. QED
      BY <2>1, <3>1
  <2>3. QED
    BY <2>1, <2>2
<1>9. NoBookAhead' => Head(queue).n = Heard'
  <2>1. NoBookAhead' => queue[1].n = Now - (Len(queue) - 1)
    BY <1>2, <1>8 DEF Streaming
  <2>2. QED
    BY <1>2, <1>3, <1>4, <2>1 DEF Heard
<1>10. NoBookAhead' /\ Head(queue).type = "price_change" => NoBookAhead
  <2>1. ASSUME NEW j \in DOMAIN queue
        PROVE  j = 1 \/ j > 1
    BY <1>3
  <2>2. QED
    BY <1>2, <1>8, <2>1 DEF NoBookAhead
<1>11. QED
  BY <1>1, <1>2, <1>4, <1>5, <1>6, <1>7, <1>9, <1>10

\* What handling a message has to establish, whatever was done with it.
LEMMA Handled ==
  ASSUME BooksInv, queue # <<>>, queue' = Tail(queue), UNCHANGED <<changes, conn, breaks, read>>,
         state' \in BookStates, worker' \in Workers, worker'.n <= Now, worker'.at # "asked",
         newest' \in 0 .. Now, missing' \subseteq 1 .. Now,
         state'.needsRest => worker'.at \in {"rest", "asked", "dead"},
         NoBookAhead' /\ worker'.at = "publishing" =>
           /\ Taken(Heard', newest', missing')
           /\ Shown(changes, Heard', missing', state'.asks)
           /\ (Heard' = Now /\ missing' = {} /\ Offered # None => state'.best = Offered),
         worker'.at # "idle"
  PROVE  BooksInv'
<1>1. BooksTyped /\ Bounds /\ Streaming
  BY DEF BooksInv
<1>2. /\ Now' = Now /\ Offered' = Offered /\ Streaming' /\ queue' \in Seq(Messages)
      /\ \A i \in DOMAIN queue' : queue'[i].n <= Now
      /\ \A i \in DOMAIN queue' : queue'[i].type = "price_change" => queue'[i].n >= 1
  BY <1>1, HeardFacts
<1>3. Now \in Nat /\ Now <= MaxChanges /\ read <= Now
  BY <1>1, QueueFacts, NumberFacts
<1>4. BooksTyped'
  <2>1. newest' \in 0 .. MaxChanges /\ missing' \subseteq 1 .. MaxChanges
    BY <1>3, BooksAssumption
  <2>2. QED
    BY <1>1, <1>2, <2>1 DEF BooksTyped, BookStates, Workers
<1>5. Bounds'
  <2>1. newest' <= Now /\ \A j \in missing' : j <= Now
    BY <1>3
  <2>2. QED
    BY <1>2, <1>3, <2>1 DEF Bounds
<1>6. ASSUME Following'
      PROVE  /\ Taken(Heard, newest, missing)' /\ Shown(changes, Heard, missing, state.asks)'
             /\ BestShown(Heard, missing, state.best)'
  <2>1. NoBookAhead' /\ worker'.at = "publishing"
    BY <1>6 DEF Following
  <2>2. Taken(Heard', newest', missing') /\ Shown(changes', Heard', missing', state'.asks)
    BY <2>1
  <2>3. Heard' = Now' /\ missing' = {} /\ Offered' # None => state'.best = Offered'
    BY <1>2, <2>1
  <2>4. QED
    BY <2>2, <2>3 DEF Taken, Shown, BestShown
<1>7. (NoBookAhead /\ worker.at = "asked" => Heard <= worker.n)'
  OBVIOUS
<1>8. QED
  BY <1>2, <1>4, <1>5, <1>6, <1>7 DEF BooksInv

\* A single change goes into the book.
LEMMA PricedFacts ==
  ASSUME BooksTyped, NEW n \in 1 .. Now, NEW s, s = Priced(state, n)
  PROVE  /\ s \in BookStates /\ s.needsRest = state.needsRest
         /\ changes[n].level \in Levels
         /\ s.asks = [state.asks EXCEPT ![changes[n].level] = changes[n].size]
         /\ BestOf(AsksAt(n)) # None => s.best = BestOf(AsksAt(n))
<1>1. state \in BookStates
  BY DEF BooksTyped, BookStates
<1>2. changes[n].level \in Levels /\ changes[n].size \in 0 .. MaxSize
  <2>1. changes[n] \in [level : Levels, size : 0 .. MaxSize]
    <3> DEFINE C == [level : Levels, size : 0 .. MaxSize]
    <3>1. changes \in Seq(C) /\ n \in 1 .. Len(changes)
      BY DEF BooksTyped, Now
    <3> HIDE DEF C
    <3>2. changes[n] \in C
      BY <3>1
    <3>3. QED
      BY <3>2 DEF C
  <2>2. QED
    BY <2>1
<1> DEFINE asks == [state.asks EXCEPT ![changes[n].level] = changes[n].size]
           heard == state.known \union {changes[n].level}
           told == BestOf(AsksAt(n))
           best == IF told # None THEN told ELSE Min(heard)
<1>3. asks \in [Levels -> 0 .. MaxSize] /\ heard \subseteq Levels
  BY <1>1, <1>2 DEF BookStates
<1>4. Min(heard) \in Levels
  <2>1. heard # {} /\ heard \subseteq Levels
    BY <1>3
  <2> HIDE DEF heard
  <2>2. IsFiniteSet(heard) /\ \A x \in heard : x \in Int
    <3>1. IsFiniteSet(Levels) /\ \A x \in Levels : x \in Int
      BY BooksAssumption
    <3>2. IsFiniteSet(heard)
      BY <2>1, <3>1, FS_Subset
    <3>3. QED
      BY <2>1, <3>1, <3>2
  <2>3. Min(heard) \in heard
    BY <2>1, <2>2, MinIn
  <2>4. QED
    BY <2>1, <2>3
<1>5. told \in Levels \union {None}
  BY BestIn
<1>6. best \in Levels \union {None}
  BY <1>4, <1>5
<1>7. s = [state EXCEPT !.asks = asks, !.known = heard, !.best = best]
  BY DEF Priced
<1> HIDE DEF asks, heard, told, best
<1>8. s \in BookStates /\ s.needsRest = state.needsRest /\ s.asks = asks /\ s.best = best
  BY <1>1, <1>3, <1>6, <1>7 DEF BookStates
<1>9. QED
  BY <1>2, <1>8 DEF asks, best, told

\* The next change goes into a book that shows all before it.
LEMMA NextShown ==
  ASSUME BooksTyped, Bounds, NEW n \in 1 .. Now,
         Taken(n - 1, newest, missing), Shown(changes, n - 1, missing, state.asks), TakenIn(n),
         changes[n].level \in Levels,
         NEW asks, asks = [state.asks EXCEPT ![changes[n].level] = changes[n].size]
  PROVE  Taken(n, newest', missing') /\ Shown(changes, n, missing', asks)
<1>1. newest' = (IF n > newest THEN n ELSE newest) /\ missing' = missing \ {n}
      /\ Now \in Nat /\ newest \in Nat /\ Now = Len(changes)
  BY NumberFacts, QueueFacts DEF TakenIn
<1>2. Taken(n, newest', missing')
  <2>1. SUFFICES ASSUME NEW j \in 1 .. n  PROVE j <= newest' \/ j \in missing'
    BY DEF Taken
  <2>2. CASE j = n
    BY <1>1, <2>2
  <2>3. CASE j # n
    <3>1. j \in 1 .. (n - 1)
      BY <1>1, <2>1, <2>3
    <3>2. j <= newest \/ j \in missing
      BY <3>1 DEF Taken
    <3>3. QED
      BY <1>1, <2>3, <3>1, <3>2
  <2>4. QED
    BY <2>2, <2>3
<1>3. state.asks \in [Levels -> 0 .. MaxSize]
  BY DEF BooksTyped
<1>4. \A l \in Levels : asks[l] = IF l = changes[n].level THEN changes[n].size ELSE state.asks[l]
  BY <1>3
<1>5. ASSUME NEW l \in Levels, NEW t \in 1 .. Len(changes),
             LastTouch(changes, Len(changes), l, t), t <= n, t \notin missing'
      PROVE  asks[l] = changes[t].size
  <2>1. CASE t = n
    BY <1>4, <1>5, <2>1 DEF LastTouch
  <2>2. CASE t # n
    <3>1. t <= n - 1 /\ t \notin missing
      BY <1>1, <1>5, <2>2
    <3>2. n \in (t + 1) .. Len(changes)
      BY <1>1, <3>1
    <3>3. l # changes[n].level
      BY <1>5, <3>2 DEF LastTouch
    <3>4. state.asks[l] = changes[t].size
      BY <1>5, <3>1 DEF Shown
    <3>5. QED
      BY <1>4, <3>3, <3>4
  <2>3. QED
    BY <2>1, <2>2
<1>6. ASSUME NEW l \in Levels, \A u \in 1 .. Len(changes) : changes[u].level # l
      PROVE  asks[l] = 0
  <2>1. l # changes[n].level
    BY <1>1, <1>6
  <2>2. state.asks[l] = 0
    BY <1>6 DEF Shown
  <2>3. QED
    BY <1>4, <2>1, <2>2
<1>7. QED
  BY <1>2, <1>5, <1>6 DEF Shown

\* The histories name changes that have happened.
LEMMA ReplacedFacts ==
  ASSUME Now \in Nat, newest \in 0 .. Now, missing \subseteq 1 .. Now, NEW n \in 0 .. Now, Replaced(n)
  PROVE  newest' \in 0 .. Now /\ missing' \subseteq 1 .. Now
  BY DEF Replaced

\* The same for a single change.
LEMMA TakenInFacts ==
  ASSUME Now \in Nat, newest \in 0 .. Now, missing \subseteq 1 .. Now, NEW n \in 1 .. Now, TakenIn(n)
  PROVE  newest' \in 0 .. Now /\ missing' \subseteq 1 .. Now
  BY DEF TakenIn

\* The worker takes the next message: it refuses one that shows a gap, puts in
\* a book, or puts in the change that comes next.
LEMMA HandleStep ==
  ASSUME BooksInv, Handle
  PROVE  BooksInv'
<1> DEFINE message == Head(queue)
<1>1. /\ worker.at = "idle" /\ queue # <<>> /\ queue' = Tail(queue)
      /\ UNCHANGED <<changes, conn, breaks, read>>
      /\ BooksTyped /\ Bounds /\ Streaming
  BY DEF Handle, BooksInv
<1>2. /\ Now' = Now /\ Heard' = Heard + 1 /\ Heard' <= Now
      /\ message.n \in 0 .. Now
      /\ message.type \in {"book", "price_change"}
      /\ message.type = "price_change" => message.n \in 1 .. Now
      /\ NoBookAhead' => message.n = Heard'
      /\ NoBookAhead' /\ message.type = "price_change" => NoBookAhead
  BY <1>1, HeardFacts
<1>3. /\ state \in BookStates /\ worker \in Workers /\ worker.n <= Now /\ newest \in 0 .. Now
      /\ missing \subseteq 1 .. Now /\ Now \in Nat /\ Now <= MaxChanges /\ Heard \in Int
  BY <1>1, NumberFacts, QueueFacts
<1>4. ~state.needsRest
  BY <1>1 DEF BooksInv
<1>5. Publishing(message.n) \in Workers /\ Publishing(message.n).n = message.n
      /\ Publishing(message.n).at = "publishing"
  <2>1. message.n \in 0 .. MaxChanges
    BY <1>2, <1>3, BooksAssumption
  <2> HIDE DEF message
  <2>2. QED
    BY <2>1 DEF Publishing, Workers, Waiting
<1>6. CASE Gap(message.n)
  <2>1. /\ state' = [state EXCEPT !.needsRest = TRUE] /\ worker' = [worker EXCEPT !.at = "rest"]
        /\ UNCHANGED <<newest, missing>>
    BY <1>6 DEF Handle
  <2>2. state' \in BookStates /\ worker' \in Workers /\ worker'.n = worker.n /\ worker'.at = "rest"
    BY <1>3, <2>1 DEF BookStates, Workers, Waiting
  <2>3. QED
    BY <1>1, <1>3, <2>1, <2>2, Handled
<1>7. CASE ~Gap(message.n) /\ message.type = "book"
  <2>1. /\ state' = Snapshot(message.n, state.last) /\ Replaced(message.n)
        /\ worker' = Publishing(message.n)
    BY <1>7 DEF Handle
  <2> HIDE DEF message
  <2>2. state.last \in 0 .. MaxChanges
    BY <1>3 DEF BookStates
  <2>3. /\ state' \in BookStates /\ state'.asks = AsksAt(message.n)
        /\ state'.best = BestOf(AsksAt(message.n)) /\ state'.needsRest = FALSE
    BY <1>1, <1>2, <2>1, <2>2, SnapshotFacts DEF BookStates
  <2>4. newest' \in 0 .. Now /\ missing' \subseteq 1 .. Now
    BY <1>2, <1>3, <2>1, ReplacedFacts
  <2> DEFINE h == Heard'
  <2>5. h \in Int /\ h <= Now
    BY <1>2, <1>3
  <2> HIDE DEF h
  <2>6. NoBookAhead' => /\ Taken(h, newest', missing')
                        /\ Shown(changes, h, missing', state'.asks)
                        /\ BestShown(h, missing', state'.best)
    <3>1. NoBookAhead' => h <= message.n
      BY <1>2, <2>5 DEF h
    <3>2. QED
      BY <1>1, <1>2, <2>1, <2>3, <2>5, <3>1, SnapshotHeard
  <2>7. NoBookAhead' => /\ Taken(Heard', newest', missing')
                        /\ Shown(changes, Heard', missing', state'.asks)
                        /\ (Heard' = Now /\ missing' = {} /\ Offered # None => state'.best = Offered)
    BY <2>6 DEF h, BestShown
  <2>8. worker' \in Workers /\ worker'.n <= Now /\ worker'.at = "publishing"
    BY <1>2, <1>3, <1>5, <2>1
  <2>9. QED
    BY <1>1, <2>3, <2>4, <2>7, <2>8, Handled
<1>8. CASE ~Gap(message.n) /\ message.type # "book"
  <2>1. message.type = "price_change" /\ message.n \in 1 .. Now
    BY <1>2, <1>8
  <2>2. state' = Priced(state, message.n) /\ TakenIn(message.n) /\ worker' = Publishing(message.n)
    BY <1>4, <1>8 DEF Handle
  <2> HIDE DEF message
  <2>3. /\ state' \in BookStates /\ state'.needsRest = state.needsRest
        /\ changes[message.n].level \in Levels
        /\ state'.asks = [state.asks EXCEPT ![changes[message.n].level] = changes[message.n].size]
        /\ BestOf(AsksAt(message.n)) # None => state'.best = BestOf(AsksAt(message.n))
    BY <1>1, <2>1, <2>2, PricedFacts
  <2>4. newest' \in 0 .. Now /\ missing' \subseteq 1 .. Now
    BY <1>3, <2>1, <2>2, TakenInFacts
  <2>5. worker' \in Workers /\ worker'.n <= Now /\ worker'.at = "publishing"
    BY <1>2, <1>3, <1>5, <2>2
  <2>6. ASSUME NoBookAhead'
        PROVE  /\ Taken(Heard', newest', missing')
               /\ Shown(changes, Heard', missing', state'.asks)
               /\ (Heard' = Now /\ missing' = {} /\ Offered # None => state'.best = Offered)
    <3>1. Following /\ message.n = Heard' /\ Heard = message.n - 1
      BY <1>1, <1>2, <1>3, <2>1, <2>6 DEF Following
    <3>2. Taken(message.n - 1, newest, missing) /\ Shown(changes, message.n - 1, missing, state.asks)
      BY <3>1 DEF BooksInv
    <3>3. Taken(message.n, newest', missing') /\ Shown(changes, message.n, missing', state'.asks)
      BY <1>1, <2>1, <2>2, <2>3, <3>2, NextShown
    <3>4. message.n = Now /\ Offered # None => state'.best = Offered
      BY <2>3 DEF Offered
    <3>5. QED
      BY <3>1, <3>3, <3>4
  <2>7. QED
    BY <1>1, <1>4, <2>3, <2>4, <2>5, <2>6, Handled
<1>9. QED
  BY <1>6, <1>7, <1>8

--------------------------------------------------------------------------------
\* Every step preserves the invariant.
LEMMA NextBooksInv ==
  ASSUME BooksInv, [BooksNext]_booksVars
  PROVE  BooksInv'
<1>1. ASSUME NEW l \in Levels, NEW size \in 0 .. MaxSize, Change(l, size)
      PROVE  BooksInv'
  BY <1>1, ChangeStep
<1>2. CASE Connect
  BY <1>2, ConnectStep
<1>3. CASE Break
  BY <1>3, BreakStep
<1>4. CASE Resubscribe
  BY <1>4, ResubscribeStep
<1>5. CASE Worker
  BY <1>5, HandleStep, PublishedStep, RestReadStep, RestAppliedStep DEF Worker
<1>6. CASE RestFails
  BY <1>6, RestFailsStep
<1>7. CASE Reconcile
  BY <1>7, ReconcileReadsStep, ReconcileAppliesStep DEF Reconcile
<1>8. CASE Retracked
  BY <1>8, RetrackedStep
<1>9. CASE UNCHANGED booksVars
  <2>1. /\ UNCHANGED <<changes, conn, breaks, queue, state, worker, read, newest, missing>>
        /\ BooksTyped /\ Bounds
    BY <1>9 DEF booksVars, BooksInv
  <2>2. BooksTyped'
    <3>1. Now' = Now
      BY <2>1, SameExchange
    <3>2. QED
      BY <2>1, <3>1 DEF BooksTyped
  <2>3. worker.n <= Now /\ read <= Now
    BY <2>1 DEF Bounds
  <2>4. /\ state.needsRest => worker.at \in {"rest", "asked", "dead"}
        /\ NoBookAhead /\ worker.at = "asked" => Heard <= worker.n
    BY DEF BooksInv
  <2>5. QED
    BY <2>1, <2>2, <2>3, <2>4, BookKept
<1>10. QED
  BY <1>1, <1>2, <1>3, <1>4, <1>5, <1>6, <1>7, <1>8, <1>9 DEF BooksNext

\* So it holds in every reachable state.
THEOREM BooksInvInvariant ==
  BooksSpec => []BooksInv
<1>1. BooksInit => BooksInv
  BY InitBooksInv
<1>2. BooksInv /\ [BooksNext]_booksVars => BooksInv'
  BY NextBooksInv
<1>3. QED
  BY <1>1, <1>2, PTL DEF BooksSpec

\* A level that was ever touched has a last touch.
LEMMA LastTouchOf ==
  ASSUME BooksTyped, NEW l \in Levels, NEW u \in 1 .. Now, changes[u].level = l
  PROVE  \E t \in 1 .. Now : LastTouch(changes, Now, l, t)
<1> DEFINE T == {i \in 1 .. Now : changes[i].level = l}
<1>1. Now \in Nat
  BY QueueFacts
<1>2. IsFiniteSet(1 .. Now)
  BY <1>1, FS_Interval
<1>3. T \subseteq 1 .. Now /\ T # {} /\ \A x \in T : x \in Int
  OBVIOUS
<1>4. Max(T) \in T /\ \A y \in T : Max(T) >= y
  <2> HIDE DEF T
  <2>1. QED
    BY <1>2, <1>3, FS_Subset, MaxIn
<1> DEFINE t == Max(T)
<1>5. t \in 1 .. Now /\ changes[t].level = l
  BY <1>4
<1>6. \A y \in (t + 1) .. Now : changes[y].level # l
  <2>1. SUFFICES ASSUME NEW y \in (t + 1) .. Now, changes[y].level = l  PROVE FALSE
    OBVIOUS
  <2>2. y \in T /\ ~(t >= y)
    <3>1. t \in Nat /\ t >= 1
      BY <1>5
    <3> HIDE DEF t
    <3>2. y \in 1 .. Now /\ ~(t >= y)
      BY <1>1, <2>1, <3>1
    <3>3. QED
      BY <2>1, <3>2
  <2>3. QED
    BY <1>4, <2>2
<1>7. QED
  BY <1>5, <1>6 DEF LastTouch

\* The invariant says of a settled book that it is the exchange's.
LEMMA SettledTrue ==
  BooksInv => BookSound
<1> SUFFICES ASSUME BooksInv, Settled, missing = {}
             PROVE  /\ state.asks = AsksAt(Now)
                    /\ BestOf(AsksAt(Now)) # None => state.best = BestOf(AsksAt(Now))
                    /\ ~state.needsRest
  BY DEF BookSound, SettledBookTrue, BooksInv
<1>1. BooksTyped /\ conn = "up" /\ queue = <<>> /\ worker.at \in {"idle", "publishing"}
  BY DEF BooksInv, Settled
<1>2. Now \in Nat /\ Now = Len(changes) /\ Heard = Now
  BY <1>1, QueueFacts DEF Heard
<1>3. Following
  BY <1>1 DEF Following, NoBookAhead
<1>4. Shown(changes, Now, missing, state.asks) /\ BestShown(Now, missing, state.best)
  BY <1>2, <1>3 DEF BooksInv
<1>5. ~state.needsRest
  BY <1>1 DEF BooksInv
<1>6. state.best = BestOf(AsksAt(Now)) \/ BestOf(AsksAt(Now)) = None
  BY <1>4 DEF BestShown, Offered
<1>7. /\ AsksAt(Now) \in [Levels -> 0 .. MaxSize]
      /\ \A l \in Levels, t \in 1 .. Now : LastTouch(changes, Now, l, t) => AsksAt(Now)[l] = changes[t].size
      /\ \A l \in Levels : (\A u \in 1 .. Now : changes[u].level # l) => AsksAt(Now)[l] = 0
  BY <1>1, <1>2, AsksFacts DEF BooksTyped
<1>8. ASSUME NEW l \in Levels
      PROVE  state.asks[l] = AsksAt(Now)[l]
  <2>1. CASE \A u \in 1 .. Now : changes[u].level # l
    BY <1>2, <1>4, <1>7, <2>1 DEF Shown
  <2>2. CASE ~ \A u \in 1 .. Now : changes[u].level # l
    <3>1. PICK t \in 1 .. Now : LastTouch(changes, Now, l, t)
      BY <1>1, <2>2, LastTouchOf
    <3>2. state.asks[l] = changes[t].size
      BY <1>2, <1>4, <3>1 DEF Shown
    <3>3. QED
      BY <1>7, <3>1, <3>2
  <2>3. QED
    BY <2>1, <2>2
<1>9. state.asks \in [Levels -> 0 .. MaxSize]
  BY <1>1 DEF BooksTyped
<1>10. state.asks = AsksAt(Now)
  BY <1>7, <1>8, <1>9
<1>11. QED
  BY <1>5, <1>6, <1>10

\* A settled book that an older snapshot has taken nothing from holds what the
\* exchange offers and its best price, and needs no snapshot (market_ws_worker,
\* market_book_projector, ws_loops and reconcile_service together).
THEOREM SettledBooksAreTrue ==
  BooksSpec => []BookSound
<1>1. BooksInv => BookSound
  BY SettledTrue
<1>2. QED
  BY <1>1, BooksInvInvariant, PTL

================================================================================
