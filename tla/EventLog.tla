------------------------------ MODULE EventLog ------------------------------
(***************************************************************************)
(* The in-memory event log (events.go), a slice used as a ring buffer and  *)
(* guarded by App.eventsMu: it grows to Capacity, then each new event      *)
(* replaces the one at eventStart, the oldest.  Handlers record events,    *)
(* management reads the newest ones and clears the log.                    *)
(***************************************************************************)
EXTENDS Integers, Sequences

CONSTANTS
  Capacity,      \* pluginEventCapacity
  DefaultLimit,  \* pluginEventDefaultLimit
  MaxEvents      \* bound on the number of events recorded

ASSUME EventLogAssumption ==
  /\ Capacity \in Nat \ {0}
  /\ DefaultLimit \in 1..Capacity
  /\ MaxEvents \in Nat

VARIABLES
  events,       \* a sequence; position i is index i - 1 of the slice
  eventStart,
  nextEventID   \* the id given last

vars == <<events, eventStart, nextEventID>>

\* The slice never outgrows its capacity and eventStart is always an index of it.
TypeOK ==
  /\ events \in Seq(Nat) /\ Len(events) <= Capacity
  /\ eventStart \in 0..Capacity - 1
  /\ nextEventID \in Nat

Init == events = <<>> /\ eventStart = 0 /\ nextEventID = 0

\* Fault: the start runs off the end of the ring.
RecordWithoutWrap ==
  /\ nextEventID < MaxEvents
  /\ nextEventID' = nextEventID + 1
  /\ IF Len(events) >= Capacity
     THEN /\ events' = [events EXCEPT ![eventStart + 1] = nextEventID + 1]
          /\ eventStart' = eventStart + 1
     ELSE /\ events' = Append(events, nextEventID + 1)
          /\ UNCHANGED eventStart

RecordEvent ==
  /\ nextEventID < MaxEvents
  /\ nextEventID' = nextEventID + 1
  /\ IF Len(events) >= Capacity
     THEN /\ events' = [events EXCEPT ![eventStart + 1] = nextEventID + 1]
          /\ eventStart' = (eventStart + 1) % Capacity
     ELSE /\ events' = Append(events, nextEventID + 1)
          /\ UNCHANGED eventStart

\* Fault: a cleared log starts where the old one did.
ClearKeepingStart == events' = <<>> /\ UNCHANGED <<eventStart, nextEventID>>

ClearEvents ==
  /\ events' = <<>>
  /\ eventStart' = 0
  /\ UNCHANGED nextEventID

Next == RecordEvent \/ ClearEvents

Spec == Init /\ [][Next]_vars

\* Fault: the slice is read as if its last element were the newest.
SnapshotFromEnd(limit) ==
  LET count == Len(events)
      asked == IF limit <= 0 THEN DefaultLimit ELSE limit
      size  == IF asked > count THEN count ELSE asked
  IN  [n \in 1..size |-> events[count - (n - 1)]]

\* The answer to a read: the newest events first.  No limit, or a negative
\* one, is the default; a limit above the capacity is the capacity.
Snapshot(limit) ==
  LET count  == Len(events)
      asked  == IF limit <= 0 THEN DefaultLimit
                ELSE IF limit > Capacity THEN Capacity ELSE limit
      size   == IF asked > count THEN count ELSE asked
  IN  [n \in 1..size |-> events[((eventStart + count - 1 - (n - 1)) % count) + 1]]

-----------------------------------------------------------------------------
\* A read returns the newest events in order without a gap, and as many as
\* there are up to the limit, wherever the ring buffer starts.
SnapshotIsNewest ==
  \A limit \in -1..Capacity + 1 :
    /\ \A n \in DOMAIN Snapshot(limit) : Snapshot(limit)[n] = nextEventID - (n - 1)
    /\ limit \in 1..Len(events) => Len(Snapshot(limit)) = limit
    /\ limit <= 0 => Len(Snapshot(limit)) = Len(Snapshot(DefaultLimit))
    /\ limit > Capacity => Len(Snapshot(limit)) = Len(events)

Bounded == INSTANCE BoundedLog WITH
  lastID <- nextEventID,
  log    <- [i \in 1..Len(events) |-> events[((eventStart + i - 1) % Len(events)) + 1]]

\* The ring buffer holds, in order, the last Capacity events since the clear.
KeepsTheLast == Bounded!Spec
=============================================================================
