SPECIFICATION Spec
CONSTANTS
  r1 = r1  r2 = r2  r3 = r3  k1 = k1  k2 = k2
  a1 = a1  a2 = a2  p1 = p1  p2 = p2  m1 = m1
  NoModel = NoModel  NoPool = NoPool  NoKey = NoKey  NoAuth = NoAuth
  Requests = {r1, r2}
  Keys = {k1}
  Auths = {a1}
  Pools = {p1, p2}
  Models = {m1}
  Tiers = {"plus", "default"}  DefaultTier = "default"  NoTier = "none"
  TierIn <- AllPlus
  Offers <- SingleOrNone
  ReportedAs <- SameModel
  InitialPools <- OneLimited
  ConfigChoices <- TwoAtATime
  InitialBindings <- AllToP1
  InitialLimits <- LimitOne
  LimitChoices = {}
  SlotTTL = 1
  PendingCapacity = 1
  PendingTTL = 1
  CursorCapacity = 2
  CursorWrap = 3
  PickBudget = 1
  Deadline = 2
  LastPick = 1
  MaxTime = 2
INVARIANTS TypeOK NoPhantomLoad NoPhantomPoolLoad LinkedOnce
SYMMETRY RequestSymmetry
\* The host may stop sending requests and every request ends.
CHECK_DEADLOCK FALSE
