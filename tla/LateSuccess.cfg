SPECIFICATION Spec
CONSTANTS
  r1 = r1  r2 = r2  r3 = r3  k1 = k1  k2 = k2
  a1 = a1  a2 = a2  p1 = p1  p2 = p2  m1 = m1  m2 = m2
  NoModel = NoModel  NoPool = NoPool  NoKey = NoKey  NoAuth = NoAuth
  NotGiven = NotGiven  NoLabel = "none"
  Requests = {r1, r2, r3}
  Keys = {k1, k2}
  Auths = {a1, a2}
  Pools = {p1, p2}
  Models = {m1, m2}
  Labels <- Words
  FamilyOf <- Family
  TiersIn <- Tiers
  ProviderOf <- Provider
  OfferedAs <- Offered
  NameOf <- NoNames
  UsageLimitCooldown = 2
  RateLimitCooldown = 2
  NetworkCooldown = 1
  ModelCooldown = 2
  MaxCooldown = 3
  MaxPriority = 9
  Scenarios <- OnlyLate
  PoolChoices <- PoolEdits
  SyncChoices <- Syncs
  PriorityChoices <- PriorityEdits
  ProxyKeyChoices <- ProxyKeyEdits
  PickBudget = 1
  MaxTime = 2
SYMMETRY RequestSymmetry
PROPERTIES SkippedUntilReset
\* Every request may have ended.
CHECK_DEADLOCK FALSE
