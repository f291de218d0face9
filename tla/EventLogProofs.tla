--------------------------- MODULE EventLogProofs ---------------------------
(***************************************************************************)
(* The ring buffer of the event log is a bounded log: for every capacity,  *)
(* what it holds from eventStart on is the last events recorded since the  *)
(* clear, in order, and a read returns the newest of them.                 *)
(***************************************************************************)
EXTENDS EventLog, SequenceTheorems, TLAPS

\* An index that is past the end by less than one round.
LEMMA WrapOnce ==
  ASSUME NEW n \in Nat \ {0}, NEW x \in 0..2 * n - 1
  PROVE  x % n = IF x < n THEN x ELSE x - n
<1>1. CASE x < n
  <2>1. x \in 0..n - 1
    BY <1>1
  <2>2. QED
    BY <1>1, <2>1
<1>2. CASE ~(x < n)
  <2>1. x \in n..2 * n - 1
    BY <1>2
  <2>2. QED
    BY <1>2, <2>1
<1>3. QED
  BY <1>1, <1>2

\* The id at a position of the slice: past eventStart the oldest ids, before
\* it those that have replaced the ones that were there.
IdAt(i) ==
  IF i > eventStart THEN nextEventID - Len(events) + i - eventStart
                    ELSE nextEventID - eventStart + i

\* The inductive invariant: the ids are consecutive from eventStart on, and the
\* ring turns only once it is full.
RingInv ==
  /\ TypeOK
  /\ Len(events) <= nextEventID
  /\ eventStart # 0 => Len(events) = Capacity
  /\ \A i \in 1..Len(events) : events[i] = IdAt(i)

\* The numbers of a ring.
LEMMA RingNumbers ==
  ASSUME TypeOK
  PROVE  /\ Len(events) \in 0..Capacity
         /\ Capacity \in Nat \ {0} /\ DefaultLimit \in 1..Capacity
         /\ eventStart \in 0..Capacity - 1
         /\ nextEventID \in Nat
BY EventLogAssumption, LenProperties DEF TypeOK

LEMMA InitRing == Init => RingInv
<1> SUFFICES ASSUME Init PROVE RingInv
  OBVIOUS
<1>1. events = <<>> /\ eventStart = 0 /\ nextEventID = 0
  BY DEF Init
<1>2. Len(events) = 0 /\ events \in Seq(Nat)
  BY <1>1, EmptySeq
<1>3. QED
  BY <1>1, <1>2, EventLogAssumption DEF RingInv, TypeOK

\* While the log is short, an event is added at its end.
LEMMA RecordGrows ==
  ASSUME RingInv, RecordEvent, Len(events) < Capacity
  PROVE  RingInv' /\ events' = Append(events, nextEventID + 1) /\ eventStart = 0 /\ eventStart' = 0
<1>1. /\ events' = Append(events, nextEventID + 1)
      /\ eventStart' = eventStart /\ nextEventID' = nextEventID + 1
  BY RingNumbers DEF RecordEvent, RingInv
<1>2. eventStart = 0
  BY RingNumbers DEF RingInv
<1>3. /\ events' \in Seq(Nat) /\ Len(events') = Len(events) + 1
      /\ \A i \in 1..Len(events) : events'[i] = events[i]
      /\ events'[Len(events) + 1] = nextEventID + 1
  BY <1>1, RingNumbers, AppendProperties DEF RingInv, TypeOK
<1>4. \A i \in 1..Len(events) : events[i] = nextEventID - Len(events) + i
  BY <1>2, RingNumbers DEF RingInv, IdAt
<1>5. ASSUME NEW i \in 1..Len(events') PROVE events'[i] = IdAt(i)'
  <2>1. Len(events) \in Nat /\ nextEventID \in Nat
    BY RingNumbers DEF RingInv
  <2>2. i \in 1..Len(events) + 1
    BY <1>3
  <2>3. events'[i] = nextEventID - Len(events) + i
    BY <1>3, <1>4, <2>1, <2>2
  <2>4. i > 0
    BY <2>1, <2>2
  <2>5. IdAt(i)' = nextEventID' - Len(events') + i - 0
    BY <1>1, <1>2, <2>4 DEF IdAt
  <2>6. QED
    BY <1>1, <1>3, <2>1, <2>2, <2>3, <2>5
<1>6. QED
  BY <1>1, <1>2, <1>3, <1>5, RingNumbers DEF RingInv, TypeOK

\* Once it is full, an event takes the place of the oldest.
LEMMA RecordTurns ==
  ASSUME RingInv, RecordEvent, ~(Len(events) < Capacity)
  PROVE  /\ RingInv'
         /\ Len(events) = Capacity /\ Len(events') = Capacity
         /\ eventStart' = IF eventStart = Capacity - 1 THEN 0 ELSE eventStart + 1
<1>1. /\ Len(events) = Capacity
      /\ events' = [events EXCEPT ![eventStart + 1] = nextEventID + 1]
      /\ eventStart' = (eventStart + 1) % Capacity /\ nextEventID' = nextEventID + 1
  BY RingNumbers DEF RecordEvent, RingInv
<1>2. eventStart' = IF eventStart = Capacity - 1 THEN 0 ELSE eventStart + 1
  <2>1. Capacity \in Nat \ {0} /\ eventStart \in 0..Capacity - 1
    BY RingNumbers DEF RingInv
  <2>2. PICK x \in 0..2 * Capacity - 1 : x = eventStart + 1
    BY <2>1
  <2>3. x % Capacity = IF x < Capacity THEN x ELSE x - Capacity
    BY <2>1, WrapOnce
  <2>4. eventStart' = x % Capacity
    BY <1>1, <2>2
  <2>5. QED
    BY <2>1, <2>2, <2>3, <2>4
<1>3. /\ events' \in Seq(Nat) /\ Len(events') = Capacity
      /\ \A i \in 1..Capacity : events'[i] = IF i = eventStart + 1 THEN nextEventID + 1 ELSE events[i]
  BY <1>1, RingNumbers, ExceptSeq, LenProperties DEF RingInv, TypeOK
<1>4. \A i \in 1..Capacity : events[i] = IF i > eventStart THEN nextEventID - Capacity + i - eventStart
                                                           ELSE nextEventID - eventStart + i
  BY <1>1 DEF RingInv, IdAt
<1>5. ASSUME NEW i \in 1..Len(events') PROVE events'[i] = IdAt(i)'
  <2>1. i \in 1..Capacity
    BY <1>3, <1>5
  <2>2. events'[i] = IF i > eventStart' THEN nextEventID + 1 - Capacity + i - eventStart'
                                        ELSE nextEventID + 1 - eventStart' + i
    <3>1. Capacity \in Nat \ {0} /\ eventStart \in 0..Capacity - 1 /\ nextEventID \in Nat
      BY RingNumbers DEF RingInv
    <3>2. events'[i] = IF i = eventStart + 1 THEN nextEventID + 1
                       ELSE IF i > eventStart THEN nextEventID - Capacity + i - eventStart
                                              ELSE nextEventID - eventStart + i
      BY <1>3, <1>4, <2>1
    <3>3. CASE eventStart = Capacity - 1
      BY <1>2, <2>1, <3>1, <3>2, <3>3
    <3>4. CASE eventStart # Capacity - 1
      BY <1>2, <2>1, <3>1, <3>2, <3>4
    <3>5. QED
      BY <3>3, <3>4
  <2>3. IdAt(i)' = IF i > eventStart' THEN nextEventID' - Len(events') + i - eventStart'
                                      ELSE nextEventID' - eventStart' + i
    BY DEF IdAt
  <2>4. nextEventID' = nextEventID + 1 /\ Len(events') = Capacity
    BY <1>1, <1>3, LenProperties
  <2>5. IdAt(i)' = IF i > eventStart' THEN nextEventID + 1 - Capacity + i - eventStart'
                                      ELSE nextEventID + 1 - eventStart' + i
    BY <1>2, <2>1, <2>3, <2>4, RingNumbers DEF RingInv
  <2>6. QED
    BY <2>2, <2>5
<1>6. QED
  BY <1>1, <1>2, <1>3, <1>5, RingNumbers DEF RingInv, TypeOK

\* Every step keeps the ring in order.
LEMMA NextRing == RingInv /\ [Next]_vars => RingInv'
<1> SUFFICES ASSUME RingInv, [Next]_vars PROVE RingInv'
  OBVIOUS
<1>1. CASE RecordEvent
  BY <1>1, RecordGrows, RecordTurns
<1>2. CASE ClearEvents
  <2>1. events' = <<>> /\ eventStart' = 0 /\ nextEventID' = nextEventID
    BY <1>2 DEF ClearEvents
  <2>2. Len(events') = 0 /\ events' \in Seq(Nat)
    BY <2>1, EmptySeq
  <2>3. QED
    BY <2>1, <2>2, RingNumbers DEF RingInv, TypeOK
<1>3. CASE UNCHANGED vars
  BY <1>3 DEF vars, RingInv, TypeOK, IdAt
<1>4. QED
  BY <1>1, <1>2, <1>3 DEF Next

LEMMA RingInvariant == Spec => []RingInv
BY InitRing, NextRing, PTL DEF Spec

\* The slice never outgrows its capacity and eventStart never leaves it, for
\* every capacity and however recording and clearing alternate.
THEOREM TypeCorrect == Spec => []TypeOK
<1>1. RingInv => TypeOK
  BY DEF RingInv
<1>2. QED
  BY <1>1, RingInvariant, PTL

\* Reading the ring from eventStart gives the ids in order.
LEMMA RingInOrder ==
  ASSUME RingInv, NEW i \in 1..Len(events)
  PROVE  events[((eventStart + i - 1) % Len(events)) + 1] = nextEventID - Len(events) + i
<1> DEFINE n == Len(events)
<1>1. n \in Nat \ {0} /\ n <= Capacity /\ eventStart \in 0..n - 1 /\ nextEventID \in Nat
  BY RingNumbers DEF RingInv
<1>2. \A j \in 1..n : events[j] = IF j > eventStart THEN nextEventID - n + j - eventStart
                                                    ELSE nextEventID - eventStart + j
  BY DEF RingInv, IdAt
<1> HIDE DEF n
<1>3. eventStart + i - 1 \in 0..2 * n - 1 /\ i \in 1..n
  BY <1>1 DEF n
<1>4. (eventStart + i - 1) % n = IF eventStart + i - 1 < n THEN eventStart + i - 1
                                                           ELSE eventStart + i - 1 - n
  <2>1. PICK x \in 0..2 * n - 1 : x = eventStart + i - 1
    BY <1>3
  <2>2. x % n = IF x < n THEN x ELSE x - n
    BY <1>1, WrapOnce
  <2>3. QED
    BY <1>1, <1>3, <2>1, <2>2
<1>5. QED
  BY <1>1, <1>2, <1>3, <1>4 DEF n

\* A read goes backwards from the newest event.
LEMMA SnapshotValue ==
  ASSUME RingInv, NEW limit \in Int
  PROVE  LET asked == IF limit <= 0 THEN DefaultLimit
                      ELSE IF limit > Capacity THEN Capacity ELSE limit
             size  == IF asked > Len(events) THEN Len(events) ELSE asked
         IN  /\ Snapshot(limit) = [n \in 1..size |-> nextEventID - (n - 1)]
             /\ Len(Snapshot(limit)) = size
<1> DEFINE count == Len(events)
           asked == IF limit <= 0 THEN DefaultLimit
                    ELSE IF limit > Capacity THEN Capacity ELSE limit
           size  == IF asked > count THEN count ELSE asked
<1>1. /\ count \in Nat /\ nextEventID \in Nat /\ eventStart \in Nat
      /\ size \in Nat /\ size <= count
  BY RingNumbers DEF RingInv
<1>2. Snapshot(limit) = [n \in 1..size |-> events[((eventStart + count - 1 - (n - 1)) % count) + 1]]
  BY DEF Snapshot
<1> HIDE DEF size
<1>3. ASSUME NEW n \in 1..size
      PROVE  events[((eventStart + count - 1 - (n - 1)) % count) + 1] = nextEventID - (n - 1)
  <2>1. count - (n - 1) \in 1..Len(events)
    BY <1>1
  <2>2. eventStart + count - 1 - (n - 1) = eventStart + (count - (n - 1)) - 1
    BY <1>1
  <2>3. events[((eventStart + (count - (n - 1)) - 1) % Len(events)) + 1]
          = nextEventID - Len(events) + (count - (n - 1))
    BY <2>1, RingInOrder
  <2>4. nextEventID - Len(events) + (count - (n - 1)) = nextEventID - (n - 1)
    BY <1>1
  <2>5. QED
    BY <2>2, <2>3, <2>4
<1>4. Snapshot(limit) = [n \in 1..size |-> nextEventID - (n - 1)]
  BY <1>2, <1>3
<1>5. Len(Snapshot(limit)) = size
  BY <1>1, <1>4
<1>6. QED
  BY <1>4, <1>5 DEF size

\* A read returns the newest events in order without a gap, as many as asked
\* for or as there are: for every capacity and default, and wherever the ring
\* starts (eventsSnapshot, which walks backwards over the wrap).
THEOREM ReadsAreNewest == Spec => []SnapshotIsNewest
<1>1. ASSUME RingInv PROVE SnapshotIsNewest
  <2> SUFFICES ASSUME NEW limit \in -1..Capacity + 1
      PROVE  /\ \A n \in DOMAIN Snapshot(limit) : Snapshot(limit)[n] = nextEventID - (n - 1)
             /\ limit \in 1..Len(events) => Len(Snapshot(limit)) = limit
             /\ limit <= 0 => Len(Snapshot(limit)) = Len(Snapshot(DefaultLimit))
             /\ limit > Capacity => Len(Snapshot(limit)) = Len(events)
    BY <1>1 DEF SnapshotIsNewest
  <2>1. /\ limit \in Int /\ DefaultLimit \in Int
        /\ Len(events) \in 0..Capacity /\ Capacity \in Nat \ {0} /\ DefaultLimit \in 1..Capacity
    BY <1>1, RingNumbers DEF RingInv
  <2>2. \A n \in DOMAIN Snapshot(limit) : Snapshot(limit)[n] = nextEventID - (n - 1)
    BY <1>1, <2>1, SnapshotValue
  <2>3. /\ limit \in 1..Len(events) => Len(Snapshot(limit)) = limit
        /\ limit > Capacity => Len(Snapshot(limit)) = Len(events)
    BY <1>1, <2>1, SnapshotValue
  <2>4. limit <= 0 => Len(Snapshot(limit)) = Len(Snapshot(DefaultLimit))
    <3>1. Len(Snapshot(DefaultLimit)) =
            IF DefaultLimit > Len(events) THEN Len(events) ELSE DefaultLimit
      BY <1>1, <2>1, SnapshotValue
    <3>2. limit <= 0 =>
            Len(Snapshot(limit)) = IF DefaultLimit > Len(events) THEN Len(events) ELSE DefaultLimit
      BY <1>1, <2>1, SnapshotValue
    <3>3. QED
      BY <3>1, <3>2
  <2>5. QED
    BY <2>2, <2>3, <2>4
<1>2. QED
  BY <1>1, RingInvariant, PTL

-----------------------------------------------------------------------------
(* The refinement.                                                         *)

\* The abstract log, as Bounded substitutes it.
TheLog == [i \in 1..Len(events) |-> events[((eventStart + i - 1) % Len(events)) + 1]]

LogHoldsLast == TheLog = [i \in 1..Len(events) |-> nextEventID - Len(events) + i]

\* It holds the last ids.
LEMMA LogValue == RingInv => LogHoldsLast
BY RingInOrder DEF TheLog, LogHoldsLast

\* A recorded event is recorded in the abstract log.
LEMMA RecordSimulates ==
  ASSUME RingInv, RingInv', RecordEvent
  PROVE  /\ nextEventID' = nextEventID + 1
         /\ TheLog' = Append(IF Len(TheLog) = Capacity THEN Tail(TheLog) ELSE TheLog, nextEventID + 1)
<1> DEFINE n == Len(events)
<1>1. n \in 0..Capacity /\ Capacity \in Nat \ {0} /\ nextEventID \in Nat
  BY RingNumbers DEF RingInv
<1>2. nextEventID' = nextEventID + 1
  BY DEF RecordEvent
<1>3. /\ TheLog = [i \in 1..n |-> nextEventID - n + i] /\ Len(TheLog) = n
      /\ TheLog \in Seq(Int)
  <2>1. TheLog = [i \in 1..n |-> nextEventID - n + i] /\ Len(TheLog) = n
    BY <1>1, LogValue DEF LogHoldsLast
  <2>2. \A i \in 1..n : nextEventID - n + i \in Int
    BY <1>1
  <2> HIDE DEF n
  <2>3. [i \in 1..n |-> nextEventID - n + i] \in Seq(Int)
    BY <1>1, <2>2, IsASeq
  <2>4. QED
    BY <2>1, <2>3
<1>4. TheLog' = [i \in 1..Len(events') |-> nextEventID + 1 - Len(events') + i]
  <2>1. RingInv' => LogHoldsLast'
    BY LogValue, PTL
  <2>2. QED
    BY <1>1, <1>2, <2>1 DEF LogHoldsLast
<1>5. CASE n < Capacity
  <2>1. Len(events') = n + 1
    BY <1>1, <1>5, RecordGrows, AppendProperties DEF RingInv, TypeOK
  <2>2. /\ Append(TheLog, nextEventID + 1) \in Seq(Int)
        /\ Len(Append(TheLog, nextEventID + 1)) = n + 1
        /\ \A i \in 1..n : Append(TheLog, nextEventID + 1)[i] = TheLog[i]
        /\ Append(TheLog, nextEventID + 1)[n + 1] = nextEventID + 1
    BY <1>1, <1>3, AppendProperties
  <2> HIDE DEF n
  <2>3. TheLog' = [i \in 1..n + 1 |-> nextEventID + 1 - (n + 1) + i]
    BY <1>4, <2>1
  <2>4. TheLog' \in Seq(Int) /\ Len(TheLog') = n + 1
    BY <1>1, <2>3
  <2>5. \A i \in 1..n + 1 : TheLog'[i] = Append(TheLog, nextEventID + 1)[i]
    BY <1>1, <1>3, <2>2, <2>3
  <2>6. TheLog' = Append(TheLog, nextEventID + 1)
    BY <2>2, <2>4, <2>5, SeqEqual
  <2>7. QED
    BY <1>1, <1>2, <1>3, <1>5, <2>6
<1>6. CASE n = Capacity
  <2> DEFINE kept == Tail(TheLog)
  <2>1. Len(events') = n
    BY <1>1, <1>6, RecordTurns
  <2>2. /\ kept \in Seq(Int) /\ Len(kept) = n - 1
        /\ \A i \in 1..n - 1 : kept[i] = TheLog[i + 1]
    <3>1. TheLog # <<>>
      BY <1>1, <1>3, <1>6, EmptySeq
    <3>2. QED
      BY <1>1, <1>3, <3>1, HeadTailProperties
  <2> HIDE DEF n, kept
  <2>3. /\ Append(kept, nextEventID + 1) \in Seq(Int)
        /\ Len(Append(kept, nextEventID + 1)) = n
        /\ \A i \in 1..n - 1 : Append(kept, nextEventID + 1)[i] = kept[i]
        /\ Append(kept, nextEventID + 1)[n] = nextEventID + 1
    BY <1>1, <1>6, <2>2, AppendProperties
  <2>4. TheLog' = [i \in 1..n |-> nextEventID + 1 - n + i]
    BY <1>4, <2>1
  <2>5. TheLog' \in Seq(Int) /\ Len(TheLog') = n
    BY <1>1, <2>4
  <2>6. \A i \in 1..n : TheLog'[i] = Append(kept, nextEventID + 1)[i]
    BY <1>1, <1>3, <2>2, <2>3, <2>4
  <2>7. TheLog' = Append(kept, nextEventID + 1)
    BY <2>3, <2>5, <2>6, SeqEqual
  <2>8. QED
    BY <1>2, <1>3, <1>6, <2>7 DEF kept
<1>7. QED
  BY <1>1, <1>5, <1>6

\* The ring buffer is a bounded log: for every capacity, what is read from
\* eventStart on is what a queue of that capacity would hold, which drops its
\* oldest event for a new one (recordPluginEvent, clearPluginEvents).
THEOREM RingIsBoundedLog == Spec => KeepsTheLast
<1>1. Init => Bounded!Init
  <2> SUFFICES ASSUME Init PROVE Bounded!Init
    OBVIOUS
  <2>1. events = <<>> /\ nextEventID = 0 /\ Len(events) = 0
    BY DEF Init
  <2>2. \A F : [i \in 1..0 |-> F] = <<>>
    OBVIOUS
  <2>3. TheLog = <<>>
    BY <2>1 DEF TheLog
  <2>4. QED
    BY <2>1, <2>3 DEF Bounded!Init, TheLog
<1>2. ASSUME RingInv, RingInv', [Next]_vars
      PROVE  [Bounded!Next]_<<TheLog, nextEventID>>
  <2>1. CASE RecordEvent
    BY <1>2, <2>1, RecordSimulates DEF Bounded!Next, Bounded!Record, TheLog
  <2>2. CASE ClearEvents
    <3>1. events' = <<>> /\ nextEventID' = nextEventID
      BY <2>2 DEF ClearEvents
    <3>2. Len(events') = 0
      BY <3>1
    <3>3. TheLog' = <<>>
      BY <3>1, <3>2 DEF TheLog
    <3>4. QED
      BY <3>1, <3>3 DEF Bounded!Next, Bounded!Clear, TheLog
  <2>3. CASE UNCHANGED vars
    BY <2>3 DEF vars, TheLog
  <2>4. QED
    BY <1>2, <2>1, <2>2, <2>3 DEF Next
<1>3. RingInv /\ RingInv' /\ [Next]_vars => [Bounded!Next]_<<TheLog, nextEventID>>
  BY <1>2
<1>4. QED
  BY <1>1, <1>3, RingInvariant, PTL DEF Spec, KeepsTheLast, Bounded!Spec, TheLog
=============================================================================
