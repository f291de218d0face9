SPECIFICATION Spec
CONSTANTS
  Capacity = 4
  DefaultLimit = 3
  MaxEvents = 24
INVARIANTS TypeOK SnapshotIsNewest
PROPERTIES KeepsTheLast
\* MaxEvents bounds the run.
CHECK_DEADLOCK FALSE
