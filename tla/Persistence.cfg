SPECIFICATION FairSpec
CONSTANTS
  w1 = w1  w2 = w2  e1 = e1  p1 = p1  p2 = p2
  Writers = {w1, w2}
  Editors = {e1}
  Plain = {"limits"}
  Priorities = {"types", "overrides"}
  Field <- OneFieldEach
  Loader = loader
  Nobody = nobody
  Paths = {p1, p2}
  Default = p1
  NoPath = nopath
  Legacy <- NoLegacy
  Beside <- BesideDefault
  NoFile = nofile
  Torn = torn
  MaxConfigures = 3
  MaxCrashes = 1
INVARIANTS TypeOK AckedIsDurable PrioritiesFileFirst AckedIsInMemory LegacyIsKept
PROPERTIES FileNeverGoesBack Answered
\* Every request may have been answered.
CHECK_DEADLOCK FALSE
