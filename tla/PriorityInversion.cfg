SPECIFICATION SteadySpec
CONSTANTS
  r1 = r1  r2 = r2  r3 = r3  k1 = k1  k2 = k2
  a1 = a1  a2 = a2  p1 = p1  p2 = p2  m1 = m1
  NoModel = NoModel  NoPool = NoPool  NoKey = NoKey  NoAuth = NoAuth
  Requests = {r1, r2}
  Keys = {k1}
  Auths = {a1, a2}
  Pools = {p1}
  Models = {m1}
  Tiers = {"plus", "default"}  DefaultTier = "default"  NoTier = "none"
  TierIn <- AllPlus
  Offers <- RankedOnly
  ReportedAs <- SameModel
  InitialPools <- OneAtATime
  ConfigChoices = {}
  InitialBindings <- AllToP1
  InitialLimits <- NoLimits
  LimitChoices = {}
  SlotTTL = 3
  PendingCapacity = 3
  PendingTTL = 3
  CursorCapacity = 2
  CursorWrap = 3
  PickBudget = 1
  Deadline = 1
  LastPick = 3
  MaxTime = 4
INVARIANTS PreferredFirst
SYMMETRY RequestSymmetry
\* The host may stop sending requests and every request ends.
CHECK_DEADLOCK FALSE
