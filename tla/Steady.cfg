SPECIFICATION FairSpec
CONSTANTS
  r1 = r1  r2 = r2  r3 = r3  k1 = k1  k2 = k2
  a1 = a1  a2 = a2  p1 = p1  p2 = p2  m1 = m1
  NoModel = NoModel  NoPool = NoPool  NoKey = NoKey  NoAuth = NoAuth
  Requests = {r1, r2, r3}
  Keys = {k1, k2}
  Auths = {a1, a2}
  Pools = {p1, p2}
  Models = {m1}
  Tiers = {"plus", "default"}  DefaultTier = "default"  NoTier = "none"
  TierIn <- AllPlus
  Offers <- RankedAndShared
  ReportedAs <- SameModel
  InitialPools <- OneLimited
  ConfigChoices = {}
  InitialBindings <- OwnPool
  InitialLimits <- FallbackTwo
  LimitChoices = {}
  SlotTTL = 3
  PendingCapacity = 3
  PendingTTL = 3
  CursorCapacity = 2
  CursorWrap = 3
  PickBudget = 0
  Deadline = 1
  LastPick = 1
  MaxTime = 4
INVARIANTS AttributionSound ReleasesOwnPool
PROPERTIES AdmitsWithinPoolMax PicksEnd LeaksHeal
\* The host may stop sending requests and every request ends.
CHECK_DEADLOCK FALSE
