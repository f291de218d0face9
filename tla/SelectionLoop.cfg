SPECIFICATION Spec
CONSTANTS
  a1 = a1  a2 = a2  a3 = a3  p1 = p1
  Auths = {a1, a2, a3}
  Pools = {p1}
  Tiers = {"plus", "default"}  DefaultTier = "default"  NoTier = "none"
  SlotTTL = 5
  Calls <- MCCalls
  Ledgers <- MCLedgers
  PoolLedgers <- MCPoolLedgers
  LimitChoices <- MCLimits
INVARIANTS TypeOK BusyIsBlocked
PROPERTIES IsAtomicSelect CallReturns
\* The call returns.
CHECK_DEADLOCK FALSE
