SPECIFICATION FairSpec
CONSTANTS
  m1 = m1
  m2 = m2
  yes = yes
  no = no
  other = other
  slug1 = slug1
  slug2 = slug2
  event = event
  Absent = Absent
  Nobody = Nobody
  Markets = {m1, m2}
  TokensOf <- MCTokensOf
  MarketSlug <- MCMarketSlug
  EventSlug <- MCEventSlug
  MaxTick = 2
  Active = {m1}
  Scopes = {{m1}}
  MaxEdits = 2
INVARIANTS RegistrySound CopiesAgree OrphanNeedsRace
PROPERTIES ReopenedByOldNews BeliefsConverge UniverseTracked
CHECK_DEADLOCK FALSE
