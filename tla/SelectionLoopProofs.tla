------------------------ MODULE SelectionLoopProofs ------------------------
(***************************************************************************)
(* The candidate loop implements the selection in one step, for every      *)
(* group, ledger, limit, strategy and offset: AuthPool may take a call of  *)
(* selectAndReserve as one step.                                           *)
(***************************************************************************)
EXTENDS SelectionLoop, SequenceTheorems, TLAPS

-----------------------------------------------------------------------------
(* The order in which the loop visits a group.                             *)

\* A number below two rounds.
LEMMA BelowTwoRounds ==
  ASSUME NEW n \in Nat \ {0}, NEW x \in 0..2 * n - 1
  PROVE  x % n = IF x < n THEN x ELSE x - n
<1>1. CASE x < n
  <2>1. x \in 0..n - 1
    BY <1>1
  <2>2. QED
    BY <1>1, <2>1
<1>2. CASE ~(x < n)
  <2>1. x \in n..2 * n - 1
    BY <1>2
  <2>2. QED
    BY <1>2, <2>1
<1>3. QED
  BY <1>1, <1>2

\* Going on by less than a round from any offset.
LEMMA OffsetPlus ==
  ASSUME NEW n \in Nat \ {0}, NEW x \in Nat, NEW y \in 0..n - 1
  PROVE  /\ x % n \in 0..n - 1
         /\ (x + y) % n = IF (x % n) + y < n THEN (x % n) + y ELSE (x % n) + y - n
<1>1. PICK q \in Nat, m \in 0..n - 1 : x = n * q + m /\ x % n = m
  <2>1. x = n * (x \div n) + (x % n) /\ x \div n \in Nat /\ x % n \in 0..n - 1
    OBVIOUS
  <2>2. QED
    BY <2>1
<1>2. CASE m + y < n
  <2>1. PICK k \in 0..n - 1 : k = m + y
    BY <1>2
  <2>2. (n * q + k) % n = k
    OBVIOUS
  <2>3. x + y = n * q + k
    BY <1>1, <2>1
  <2>4. QED
    BY <1>1, <1>2, <2>1, <2>2, <2>3
<1>3. CASE ~(m + y < n)
  <2>1. PICK k \in 0..n - 1 : k = m + y - n
    BY <1>3
  <2>2. PICK p \in Nat : p = q + 1
    OBVIOUS
  <2>3. (n * p + k) % n = k
    OBVIOUS
  <2>4. x + y = n * p + k
    BY <1>1, <2>1, <2>2
  <2>5. QED
    BY <1>1, <1>3, <2>1, <2>3, <2>4
<1>4. QED
  BY <1>1, <1>2, <1>3

\* The position of a turn.
IndexAt(order, offset, turn) == ((offset + turn) % Len(order)) + 1

\* Every position has its turn, and the loop looks at it in that turn.
LEMMA TurnOfIndex ==
  ASSUME NEW order, NEW n \in Nat \ {0}, Len(order) = n, NEW offset \in Nat, NEW at \in 0..n - 1
  PROVE  /\ IndexAt(order, offset, at) \in 1..n
         /\ \A i \in 1..n : /\ Turn(i, offset, order) \in 0..n - 1
                            /\ Turn(i, offset, order) = at <=> i = IndexAt(order, offset, at)
<1>1. PICK m \in 0..n - 1 : m = offset % n
  BY OffsetPlus
<1>2. (offset + at) % n = IF m + at < n THEN m + at ELSE m + at - n
  BY <1>1, OffsetPlus
<1>3. ASSUME NEW i \in 1..n
      PROVE  Turn(i, offset, order) = IF i - 1 < m THEN i - 1 + n - m ELSE i - 1 - m
  <2>1. Turn(i, offset, order) = (i - 1 + n - m) % n
    BY <1>1 DEF Turn
  <2>2. PICK x \in 0..2 * n - 1 : x = i - 1 + n - m
    BY <1>1
  <2>3. x % n = IF x < n THEN x ELSE x - n
    BY BelowTwoRounds
  <2>4. QED
    BY <1>1, <2>1, <2>2, <2>3
<1>4. PICK k \in 0..n - 1 : /\ k = IF m + at < n THEN m + at ELSE m + at - n
                           /\ k = (offset + at) % n
  <2>1. (IF m + at < n THEN m + at ELSE m + at - n) \in 0..n - 1
    OBVIOUS
  <2>2. QED
    BY <1>2, <2>1
<1>5. ASSUME NEW i \in 1..n
      PROVE  Turn(i, offset, order) \in 0..n - 1 /\ (Turn(i, offset, order) = at <=> i = k + 1)
  <2>1. Turn(i, offset, order) = IF i - 1 < m THEN i - 1 + n - m ELSE i - 1 - m
    BY <1>3
  <2>2. QED
    BY <1>4, <2>1
<1>6. k + 1 \in 1..n
  OBVIOUS
<1>7. k + 1 = IndexAt(order, offset, at)
  BY <1>4 DEF IndexAt
<1>8. QED
  BY <1>5, <1>6, <1>7

\* The turns of a call.
LEMMA TurnsOfCall ==
  ASSUME NEW order, Len(order) \in Nat \ {0}, NEW offset \in Nat
  PROVE  /\ \A i \in 1..Len(order) : Turn(i, offset, order) \in 0..Len(order) - 1
         /\ \A at \in 0..Len(order) - 1 :
              /\ IndexAt(order, offset, at) \in 1..Len(order)
              /\ \A i \in 1..Len(order) :
                   Turn(i, offset, order) = at <=> i = IndexAt(order, offset, at)
<1>1. PICK n \in Nat \ {0} : Len(order) = n
  OBVIOUS
<1>2. \A at \in 0..n - 1 :
        /\ IndexAt(order, offset, at) \in 1..n
        /\ \A i \in 1..n : /\ Turn(i, offset, order) \in 0..n - 1
                           /\ Turn(i, offset, order) = at <=> i = IndexAt(order, offset, at)
  BY <1>1, TurnOfIndex
<1>3. 0 \in 0..n - 1
  OBVIOUS
<1>4. QED
  BY <1>1, <1>2, <1>3

-----------------------------------------------------------------------------
(* The inductive invariant.                                                *)

Seen == {i \in DOMAIN call.order : Turn(i, call.offset, call.order) < step}

SeenAuths == {call.order[i] : i \in Seen}

\* Whether an account was at its limit, and its weight, when the lock was taken.
WasOpen(i) == i \in Atomic!Open(call.order, call.tiers, call.now)
Weighed(i) == Atomic!Weight(call.order[i], call.tiers[call.order[i]], call.now)

OpenSeen == {i \in Seen : WasOpen(i)}

\* The variables have their types, the ledger that was found included.
LoopTyped ==
  /\ TypeOK
  /\ before \in [slots : [Auths -> Slot], pools : [Pools -> Slot]]

\* Nothing was done before the pool check.
AtPool ==
  pc = "pool" =>
    /\ slots = before.slots /\ poolSlots = before.pools
    /\ step = 0 /\ selectedIndex = 0

\* The pool had room and has lost its expired slot; of the accounts, those
\* that the loop has seen have.
LedgerSwept ==
  pc \in {"loop", "reserve"} =>
    /\ ~Atomic!PoolAtLimit(call.pool, call.max, call.now)
    /\ poolSlots = [before.pools EXCEPT ![call.pool] = Atomic!SweptPool(call.pool, call.now)]
    /\ slots = Atomic!Swept(SeenAuths, call.tiers, call.now)

\* The selection is the first of the lightest positions seen with room, or
\* under fill-first the only one.
BestSoFar ==
  pc \in {"loop", "reserve"} =>
    /\ selectedIndex = 0 <=> OpenSeen = {}
    /\ selectedIndex # 0 => /\ selectedIndex \in OpenSeen
                            /\ selectedCount = Weighed(selectedIndex)
    /\ \A j \in OpenSeen \ {selectedIndex} :
         /\ ~FillFirst
         /\ \/ Weighed(selectedIndex) < Weighed(j)
            \/ /\ Weighed(selectedIndex) = Weighed(j)
               /\ ~(Turn(j, call.offset, call.order) < Turn(selectedIndex, call.offset, call.order))

\* The loop is left with the last candidate, or with the first under fill-first.
Progress ==
  /\ pc = "loop" => (FillFirst => selectedIndex = 0)
  /\ pc = "reserve" =>
       /\ selectedIndex # 0
       /\ IF FillFirst THEN step = Turn(selectedIndex, call.offset, call.order) + 1
                       ELSE step = Len(call.order)

\* A candidate that was seen and not selected was at its limit.
BlockedSeen ==
  /\ pc = "loop" /\ step > 0 /\ selectedIndex = 0 => blocked
  /\ BusyIsBlocked

LoopInv == LoopTyped /\ AtPool /\ LedgerSwept /\ BestSoFar /\ Progress /\ BlockedSeen

\* The arguments of the call and the ledger it found have their types.
LEMMA CallTyped ==
  ASSUME LoopTyped
  PROVE  /\ call.order \in Seq(Auths) /\ Len(call.order) \in Nat \ {0}
         /\ DOMAIN call.order = 1..Len(call.order)
         /\ \A i \in DOMAIN call.order :
              call.order[i] \in Auths /\ call.tiers[call.order[i]] \in Tiers \cup {NoTier}
         /\ call.tiers \in [Auths -> Tiers \cup {NoTier}]
         /\ call.pool \in Pools /\ call.max \in Nat /\ call.strategy \in Strategies
         /\ call.offset \in Nat /\ call.now \in Nat
         /\ slots \in [Auths -> Slot] /\ poolSlots \in [Pools -> Slot]
         /\ before.slots \in [Auths -> Slot] /\ before.pools \in [Pools -> Slot]
         /\ limits \in [Tiers -> Nat]
         /\ step \in 0..Len(call.order)
<1>1. call \in Call
  BY CallsAssumption DEF LoopTyped, TypeOK
<1>2. call.order \in Seq(Auths) /\ call.order # <<>>
  BY <1>1 DEF Call
<1>3. Len(call.order) \in Nat \ {0} /\ DOMAIN call.order = 1..Len(call.order)
  BY <1>2, EmptySeq, LenProperties
<1>4. \A i \in DOMAIN call.order : call.order[i] \in Auths
  BY <1>2, <1>3, ElementOfSeq
<1>5. QED
  BY <1>1, <1>2, <1>3, <1>4 DEF Call, LoopTyped, TypeOK, SlotsTypeOK

\* While the call runs, its promise is about the ledger that it found.
LEMMA PromiseAboutBefore ==
  ASSUME pc # "done"
  PROVE  /\ SlotsSeen = before.slots /\ PoolsSeen = before.pools
BY DEF SlotsSeen, PoolsSeen

\* A slot that is not live weighs nothing, dropped or not.
LEMMA SweepKeepsLoad ==
  ASSUME NEW slot \in Slot, NEW t \in Nat
  PROVE  /\ Load(slot, t) \in Nat
         /\ ~Live(slot, t) => Load(slot, t) = 0
         /\ Load(NoSlot, t) = 0 /\ NoSlot \in Slot
BY DEF Load, Live, NoSlot, Slot

\* Two states of one call promise the same about it.
LEMMA SameCall ==
  ASSUME UNCHANGED <<call, before, limits>>, pc # "done", pc' # "done"
  PROVE  /\ SlotsSeen' = SlotsSeen /\ PoolsSeen' = PoolsSeen
         /\ \A i : WasOpen(i)' <=> WasOpen(i)
         /\ \A i : Weighed(i)' = Weighed(i)
         /\ Atomic!PoolAtLimit(call.pool, call.max, call.now)' <=>
              Atomic!PoolAtLimit(call.pool, call.max, call.now)
         /\ Atomic!SweptPool(call.pool, call.now)' = Atomic!SweptPool(call.pool, call.now)
         /\ FillFirst' = FillFirst
<1>1. SlotsSeen' = SlotsSeen /\ PoolsSeen' = PoolsSeen
  BY DEF SlotsSeen, PoolsSeen
<1>2. call' = call /\ limits' = limits
  OBVIOUS
<1>3. \A i : WasOpen(i)' <=> WasOpen(i)
  BY <1>1, <1>2 DEF WasOpen, Atomic!Open, Atomic!AtLimit, Atomic!LimitOf
<1>4. \A i : Weighed(i)' = Weighed(i)
  BY <1>1, <1>2 DEF Weighed, Atomic!Weight
<1>5. /\ Atomic!PoolAtLimit(call.pool, call.max, call.now)' <=>
           Atomic!PoolAtLimit(call.pool, call.max, call.now)
      /\ Atomic!SweptPool(call.pool, call.now)' = Atomic!SweptPool(call.pool, call.now)
  BY <1>1, <1>2 DEF Atomic!PoolAtLimit, Atomic!SweptPool
<1>6. QED
  BY <1>1, <1>2, <1>3, <1>4, <1>5 DEF FillFirst

\* What the loop reads of an account is what the call promised about it.
LEMMA LookedAt ==
  ASSUME LoopTyped, LedgerSwept, pc = "loop", NEW i \in DOMAIN call.order
  PROVE  /\ WasOpen(i) <=> ~AtLimit(call.order[i], call.tiers[call.order[i]], call.now)
         /\ Weighed(i) = IF call.tiers[call.order[i]] = NoTier THEN 0
                         ELSE Load(slots[call.order[i]], call.now)
         /\ Weighed(i) \in Nat
<1> DEFINE a == call.order[i]
<1>1. a \in Auths /\ before.slots[a] \in Slot /\ slots[a] \in Slot /\ call.now \in Nat
  BY CallTyped
<1>2. SlotsSeen = before.slots
  BY PromiseAboutBefore
<1>3. call.tiers[a] # NoTier => Load(slots[a], call.now) = Load(before.slots[a], call.now)
  <2>1. \/ slots[a] = before.slots[a]
        \/ slots[a] = NoSlot /\ ~Live(before.slots[a], call.now)
    BY <1>1, <1>2 DEF LedgerSwept, Atomic!Swept, Atomic!Live, Live, Atomic!NoSlot, NoSlot
  <2>2. QED
    BY <1>1, <2>1, SweepKeepsLoad
<1>4. \A s, t : Atomic!Load(s, t) = Load(s, t)
  BY DEF Atomic!Load, Load, Atomic!Live, Live
<1>5. WasOpen(i) <=> ~AtLimit(a, call.tiers[a], call.now)
  BY <1>2, <1>3, <1>4 DEF WasOpen, Atomic!Open, Atomic!AtLimit, AtLimit, Atomic!LimitOf, LimitOf
<1>6. Weighed(i) = IF call.tiers[a] = NoTier THEN 0 ELSE Load(slots[a], call.now)
  BY <1>2, <1>3, <1>4 DEF Weighed, Atomic!Weight
<1>7. Weighed(i) \in Nat
  BY <1>1, <1>6, SweepKeepsLoad
<1>8. QED
  BY <1>5, <1>6, <1>7
-----------------------------------------------------------------------------
(* The steps.                                                              *)

LEMMA InitLoop == Init => LoopInv
<1> SUFFICES ASSUME Init PROVE LoopInv
  OBVIOUS
<1>1. call \in Calls /\ call \in Call
  BY CallsAssumption DEF Init
<1>2. Len(call.order) \in Nat
  BY <1>1, LenProperties DEF Call
<1>3. /\ slots \in [Auths -> Slot] /\ poolSlots \in [Pools -> Slot] /\ limits \in [Tiers -> Nat]
      /\ before = [slots |-> slots, pools |-> poolSlots]
      /\ pc = "pool" /\ step = 0 /\ selectedIndex = 0 /\ selectedCount = 0 /\ blocked = FALSE
  BY CallsAssumption DEF Init
<1>4. LoopTyped
  <2>1. 0 \in 0..Len(call.order)
    BY <1>2
  <2>2. TypeOK
    BY <1>1, <1>3, <2>1 DEF TypeOK, SlotsTypeOK
  <2>3. before \in [slots : [Auths -> Slot], pools : [Pools -> Slot]]
    BY <1>3
  <2>4. QED
    BY <2>2, <2>3 DEF LoopTyped
<1>5. QED
  BY <1>3, <1>4
     DEF LoopInv, AtPool, LedgerSwept, BestSoFar, Progress, BlockedSeen, BusyIsBlocked

\* No position has been seen before the first turn.
LEMMA NoneSeen ==
  ASSUME LoopTyped, step = 0
  PROVE  Seen = {} /\ SeenAuths = {} /\ OpenSeen = {}
<1>1. ASSUME NEW i \in DOMAIN call.order PROVE ~(Turn(i, call.offset, call.order) < step)
  <2>1. /\ Len(call.order) \in Nat \ {0} /\ call.offset \in Nat
        /\ i \in 1..Len(call.order)
    BY CallTyped
  <2>2. Turn(i, call.offset, call.order) \in 0..Len(call.order) - 1
    BY <2>1, TurnsOfCall
  <2>3. QED
    BY <2>1, <2>2
<1>2. QED
  BY <1>1 DEF Seen, SeenAuths, OpenSeen

\* The pool check reads the pool's slot as the call found it.
LEMMA PoolLookedAt ==
  ASSUME LoopInv, pc = "pool"
  PROVE  /\ PoolAtLimit(call.pool, call.max, call.now) <=>
              Atomic!PoolAtLimit(call.pool, call.max, call.now)
         /\ SweptPool(call.pool, call.now) = Atomic!SweptPool(call.pool, call.now)
         /\ SweptPool(call.pool, call.now) \in Slot
<1>1. PoolsSeen = poolSlots
  BY PromiseAboutBefore DEF LoopInv, AtPool
<1>2. \A s, t : Atomic!Load(s, t) = Load(s, t) /\ Atomic!Live(s, t) = Live(s, t)
  BY DEF Atomic!Load, Load, Atomic!Live, Live
<1>3. call.pool \in Pools /\ poolSlots \in [Pools -> Slot]
  BY CallTyped DEF LoopInv
<1>4. QED
  BY <1>1, <1>2, <1>3
     DEF PoolAtLimit, Atomic!PoolAtLimit, SweptPool, Atomic!SweptPool, NoSlot, Atomic!NoSlot, Slot

\* A pool with room: its expired slot is dropped and the loop starts.
LEMMA RoomStep ==
  ASSUME LoopInv, CheckPool, ~PoolAtLimit(call.pool, call.max, call.now)
  PROVE  LoopInv' /\ Outcome' = Outcome /\ SlotsSeen' = SlotsSeen /\ PoolsSeen' = PoolsSeen
<1>1. /\ pc = "pool" /\ pc' = "loop"
      /\ poolSlots' = [poolSlots EXCEPT ![call.pool] = SweptPool(call.pool, call.now)]
      /\ UNCHANGED <<slots, limits, call, before, step, selectedIndex, selectedCount>>
      /\ blocked' = FALSE
  BY DEF CheckPool
<1>2. /\ slots = before.slots /\ poolSlots = before.pools /\ step = 0 /\ selectedIndex = 0
  BY <1>1 DEF LoopInv, AtPool
<1>3. /\ SlotsSeen' = SlotsSeen /\ PoolsSeen' = PoolsSeen
      /\ Atomic!PoolAtLimit(call.pool, call.max, call.now)' <=>
              Atomic!PoolAtLimit(call.pool, call.max, call.now)
      /\ Atomic!SweptPool(call.pool, call.now)' = Atomic!SweptPool(call.pool, call.now)
  BY <1>1, SameCall
<1>4. poolSlots' \in [Pools -> Slot]
  BY <1>1, PoolLookedAt, CallTyped DEF LoopInv
<1>5. LoopTyped'
  BY <1>1, <1>4 DEF LoopInv, LoopTyped, TypeOK, SlotsTypeOK
<1>6. Seen' = {} /\ SeenAuths' = {} /\ OpenSeen' = {}
  <2>1. LoopTyped' /\ (step = 0)' => (Seen = {} /\ SeenAuths = {} /\ OpenSeen = {})'
    BY NoneSeen, PTL
  <2>2. QED
    BY <1>1, <1>2, <1>5, <2>1
<1>7. LedgerSwept'
  <2>1. Atomic!Swept({}, call.tiers, call.now)' = slots'
    <3>1. SlotsSeen' = before.slots /\ before.slots \in [Auths -> Slot]
      BY <1>1, <1>3, PromiseAboutBefore, CallTyped DEF LoopInv
    <3>2. Atomic!Swept({}, call.tiers, call.now)' = [a \in Auths |-> before.slots[a]]
      BY <3>1 DEF Atomic!Swept
    <3>3. QED
      BY <1>1, <1>2, <3>1, <3>2
  <2>2. ~Atomic!PoolAtLimit(call.pool, call.max, call.now)'
    BY <1>1, <1>3, PoolLookedAt
  <2>3. poolSlots' = [before'.pools EXCEPT ![call'.pool] = Atomic!SweptPool(call.pool, call.now)']
    BY <1>1, <1>2, <1>3, PoolLookedAt
  <2>4. Atomic!Swept(SeenAuths, call.tiers, call.now)' = slots'
    BY <1>6, <2>1 DEF Atomic!Swept
  <2>5. QED
    BY <2>2, <2>3, <2>4 DEF LedgerSwept
<1>8. BestSoFar' /\ AtPool' /\ Progress' /\ BlockedSeen'
  BY <1>1, <1>2, <1>6 DEF BestSoFar, AtPool, Progress, BlockedSeen, BusyIsBlocked
<1>9. Outcome' = Outcome
  BY <1>1 DEF Outcome
<1>10. QED
  BY <1>3, <1>5, <1>7, <1>8, <1>9 DEF LoopInv

\* A full pool ends the call, which says so and leaves the ledger alone.
LEMMA FullStep ==
  ASSUME LoopInv, CheckPool, PoolAtLimit(call.pool, call.max, call.now)
  PROVE  LoopInv' /\ Atomic!Next
<1>1. /\ pc = "pool" /\ pc' = "done"
      /\ poolSlots' = [poolSlots EXCEPT ![call.pool] = SweptPool(call.pool, call.now)]
      /\ UNCHANGED <<slots, limits, call, before, step, selectedIndex, selectedCount>>
      /\ blocked' = TRUE
  BY DEF CheckPool
<1>2. /\ slots = before.slots /\ poolSlots = before.pools /\ step = 0 /\ selectedIndex = 0
  BY <1>1 DEF LoopInv, AtPool
<1>3. poolSlots' = poolSlots
  <2>1. call.pool \in Pools /\ poolSlots \in [Pools -> Slot] /\ call.max \in Nat
    BY CallTyped DEF LoopInv
  <2>2. Live(poolSlots[call.pool], call.now)
    BY <2>1 DEF PoolAtLimit, Load
  <2>3. QED
    BY <1>1, <2>1, <2>2 DEF SweptPool
<1>4. SlotsSeen' = SlotsSeen /\ PoolsSeen' = PoolsSeen
  BY <1>1, <1>2, <1>3 DEF SlotsSeen, PoolsSeen
<1>5. Outcome = <<"open">> /\ Outcome' = <<"pool_full">>
  BY <1>1, <1>2 DEF Outcome
<1>6. Atomic!BouncePoolFull(call.pool, call.max, call.now)
  BY <1>1, <1>4, PoolLookedAt DEF Atomic!BouncePoolFull, Atomic!slotVars
<1>7. Atomic!Next
  BY <1>1, <1>5, <1>6 DEF Atomic!Next, Atomic!SelectPoolIsFull
<1>8. LoopInv'
  BY <1>1, <1>3 DEF LoopInv, LoopTyped, TypeOK, SlotsTypeOK,
                    AtPool, LedgerSwept, BestSoFar, Progress, BlockedSeen, BusyIsBlocked
<1>9. QED
  BY <1>7, <1>8
\* A turn adds the position it looks at to those that have been seen.
LEMMA SeenGrows ==
  ASSUME LoopTyped, Looking, call' = call, step' = step + 1
  PROVE  /\ Index \in DOMAIN call.order /\ Index \notin Seen /\ Index # 0
         /\ Turn(Index, call.offset, call.order) = step
         /\ Seen' = Seen \cup {Index}
         /\ SeenAuths' = SeenAuths \cup {Candidate}
<1> DEFINE turn(i) == Turn(i, call.offset, call.order)
<1>1. /\ Index \in DOMAIN call.order
      /\ \A i \in DOMAIN call.order : turn(i) \in Nat /\ (turn(i) = step <=> i = Index)
  <2>1. /\ Len(call.order) \in Nat \ {0} /\ call.offset \in Nat
        /\ step \in 0..Len(call.order) - 1
    BY CallTyped DEF Looking
  <2>2. Index = IndexAt(call.order, call.offset, step)
    BY DEF Index, IndexAt
  <2>3. /\ Index \in 1..Len(call.order)
        /\ \A i \in 1..Len(call.order) : turn(i) \in 0..Len(call.order) - 1 /\ (turn(i) = step <=> i = Index)
    BY <2>1, <2>2, TurnsOfCall
  <2>4. DOMAIN call.order = 1..Len(call.order)
    BY CallTyped
  <2> HIDE DEF turn
  <2>5. QED
    BY <2>1, <2>3, <2>4
<1> HIDE DEF turn
<1>2. step \in Nat
  BY CallTyped
<1>3. Seen = {i \in DOMAIN call.order : turn(i) < step}
  BY DEF Seen, turn
<1>4. Seen' = {i \in DOMAIN call.order : turn(i) < step + 1}
  BY DEF Seen, turn
<1>5. Seen' = Seen \cup {Index} /\ Index \notin Seen
  BY <1>1, <1>2, <1>3, <1>4
<1>6. SeenAuths' = SeenAuths \cup {Candidate}
  <2>1. SeenAuths' = {call.order[i] : i \in Seen'}
    BY DEF SeenAuths
  <2>2. Candidate = call.order[Index]
    BY DEF Candidate
  <2>3. QED
    BY <1>5, <2>1, <2>2 DEF SeenAuths
<1>7. Index # 0
  BY <1>1, CallTyped
<1>8. QED
  BY <1>1, <1>5, <1>6, <1>7 DEF turn

\* One turn, with a tier or without: an account at its limit is skipped, and
\* one with room is taken if there is none yet or it is lighter.
LEMMA TurnEffect ==
  ASSUME LoopInv, LookUnmetered \/ LookMetered
  PROVE  /\ Looking /\ step' = step + 1
         /\ slots' = Swept({Candidate}, call.tiers, call.now)
         /\ UNCHANGED <<poolSlots, limits, call, before>>
         /\ \/ /\ ~WasOpen(Index)
               /\ pc' = "loop" /\ blocked' = TRUE
               /\ UNCHANGED <<selectedIndex, selectedCount>>
            \/ /\ WasOpen(Index)
               /\ pc' = IF FillFirst THEN "reserve" ELSE "loop"
               /\ IF FillFirst \/ selectedIndex = 0 \/ Weighed(Index) < selectedCount
                  THEN selectedIndex' = Index /\ selectedCount' = Weighed(Index)
                  ELSE UNCHANGED <<selectedIndex, selectedCount>>
               /\ blocked' = blocked
<1>1. Looking /\ step' = step + 1 /\ UNCHANGED <<poolSlots, limits, call, before>>
  BY DEF LookUnmetered, LookMetered, Continue, slotVars
<1>2. pc = "loop"
  BY <1>1 DEF Looking
<1>3. Index \in DOMAIN call.order /\ Candidate = call.order[Index] /\ CandTier = call.tiers[Candidate]
  BY <1>1, SeenGrows DEF LoopInv, Candidate, CandTier
<1>4. /\ WasOpen(Index) <=> ~AtLimit(Candidate, CandTier, call.now)
      /\ Weighed(Index) = IF CandTier = NoTier THEN 0 ELSE Load(slots[Candidate], call.now)
      /\ Weighed(Index) \in Nat
  BY <1>2, <1>3, LookedAt DEF LoopInv
<1>5. selectedCount \in Nat
  BY DEF LoopInv, LoopTyped, TypeOK
<1>6. CASE LookUnmetered
  <2>1. /\ CandTier = NoTier /\ slots' = slots /\ blocked' = blocked
        /\ pc' = IF FillFirst THEN "reserve" ELSE "loop"
        /\ IF FillFirst \/ selectedIndex = 0 \/ selectedCount > 0
           THEN selectedIndex' = Index /\ selectedCount' = 0
           ELSE UNCHANGED <<selectedIndex, selectedCount>>
    BY <1>6 DEF LookUnmetered, Continue, Take, slotVars
  <2>2. slots = Swept({Candidate}, call.tiers, call.now)
    <3>1. slots \in [Auths -> Slot]
      BY CallTyped DEF LoopInv
    <3>2. \A a \in Auths : ~(a \in {Candidate} /\ call.tiers[a] # NoTier)
      BY <1>3, <2>1
    <3>3. QED
      BY <3>1, <3>2 DEF Swept
  <2>3. WasOpen(Index) /\ Weighed(Index) = 0
    BY <1>4, <2>1 DEF AtLimit
  <2>4. selectedCount > 0 <=> Weighed(Index) < selectedCount
    BY <1>5, <2>3
  <2>5. QED
    BY <1>1, <2>1, <2>2, <2>3, <2>4
<1>7. CASE LookMetered
  <2>1. /\ CandTier # NoTier /\ slots' = Swept({Candidate}, call.tiers, call.now)
        /\ \/ /\ AtLimit(Candidate, CandTier, call.now)
              /\ blocked' = TRUE /\ pc' = pc
              /\ UNCHANGED <<selectedIndex, selectedCount>>
           \/ /\ ~AtLimit(Candidate, CandTier, call.now)
              /\ IF FillFirst \/ selectedIndex = 0 \/ Load(slots[Candidate], call.now) < selectedCount
                 THEN selectedIndex' = Index /\ selectedCount' = Load(slots[Candidate], call.now)
                 ELSE UNCHANGED <<selectedIndex, selectedCount>>
              /\ pc' = IF FillFirst THEN "reserve" ELSE "loop"
              /\ blocked' = blocked
    BY <1>7 DEF LookMetered, Continue, Take
  <2>2. Weighed(Index) = Load(slots[Candidate], call.now)
    BY <1>4, <2>1
  <2>3. QED
    BY <1>1, <1>2, <1>4, <2>1, <2>2
<1>8. QED
  BY <1>6, <1>7

\* After a turn the ledger has lost the expired slot of the position, too.
LEMMA TurnSweeps ==
  ASSUME LoopInv, Looking, NEW a \in Auths
  PROVE  Swept({Candidate}, call.tiers, call.now)[a] =
           IF a \in SeenAuths \cup {Candidate} /\ call.tiers[a] # NoTier
                /\ ~Live(before.slots[a], call.now)
           THEN NoSlot ELSE before.slots[a]
<1>1. slots[a] = IF a \in SeenAuths /\ call.tiers[a] # NoTier /\ ~Live(before.slots[a], call.now)
                 THEN NoSlot ELSE before.slots[a]
  BY PromiseAboutBefore
     DEF LoopInv, Looking, LedgerSwept, Atomic!Swept, Atomic!Live, Live, Atomic!NoSlot, NoSlot
<1>2. QED
  BY <1>1 DEF Swept

LEMMA TurnStep ==
  ASSUME LoopInv, LookUnmetered \/ LookMetered
  PROVE  LoopInv' /\ Outcome' = Outcome /\ SlotsSeen' = SlotsSeen /\ PoolsSeen' = PoolsSeen
<1>1. /\ pc = "loop" /\ pc' \in {"loop", "reserve"} /\ step' = step + 1
      /\ UNCHANGED <<poolSlots, limits, call, before>>
      /\ Looking
  BY TurnEffect DEF Looking
<1>2. /\ SlotsSeen' = SlotsSeen /\ PoolsSeen' = PoolsSeen /\ FillFirst' = FillFirst
      /\ \A i : WasOpen(i)' <=> WasOpen(i)
      /\ \A i : Weighed(i)' = Weighed(i)
      /\ Atomic!PoolAtLimit(call.pool, call.max, call.now)' <=>
              Atomic!PoolAtLimit(call.pool, call.max, call.now)
      /\ Atomic!SweptPool(call.pool, call.now)' = Atomic!SweptPool(call.pool, call.now)
  BY <1>1, SameCall
<1>3. /\ Index \in DOMAIN call.order /\ Index \notin Seen /\ Index # 0
      /\ Turn(Index, call.offset, call.order) = step
      /\ Seen' = Seen \cup {Index}
      /\ SeenAuths' = SeenAuths \cup {Candidate}
  BY <1>1, SeenGrows DEF LoopInv
<1>4. Weighed(Index) \in Nat
  BY <1>1, <1>3, LookedAt DEF LoopInv
<1>5. OpenSeen' = OpenSeen \cup (IF WasOpen(Index) THEN {Index} ELSE {})
  BY <1>2, <1>3 DEF OpenSeen
<1> DEFINE n == Len(call.order)
<1>6. /\ n \in Nat \ {0} /\ DOMAIN call.order = 1..n /\ step \in 0..n - 1
      /\ slots \in [Auths -> Slot] /\ call.now \in Nat
  BY <1>1, CallTyped DEF LoopInv, Looking
<1>7. LoopTyped'
  <2>1. slots' \in [Auths -> Slot]
    BY <1>6, TurnEffect, SweepKeepsLoad DEF Swept
  <2>2. selectedIndex' \in 0..n /\ selectedCount' \in Nat /\ blocked' \in BOOLEAN /\ step' \in 0..n
    <3>1. selectedIndex \in 0..n /\ selectedCount \in Nat /\ blocked \in BOOLEAN
      BY DEF LoopInv, LoopTyped, TypeOK
    <3>2. Index \in 0..n /\ step + 1 \in 0..n
      BY <1>3, <1>6
    <3>3. QED
      BY <1>1, <1>4, <3>1, <3>2, TurnEffect
  <2>3. QED
    BY <1>1, <2>1, <2>2 DEF LoopInv, LoopTyped, TypeOK, SlotsTypeOK
<1>8. LedgerSwept'
  <2>1. slots' = Atomic!Swept(SeenAuths, call.tiers, call.now)'
    <3>1. SlotsSeen' = before.slots
      BY <1>1, <1>2, PromiseAboutBefore
    <3>2. Atomic!Swept(SeenAuths, call.tiers, call.now)' =
            [a \in Auths |-> IF a \in SeenAuths' /\ call.tiers[a] # NoTier
                                  /\ ~Live(before.slots[a], call.now)
                             THEN NoSlot ELSE before.slots[a]]
      BY <1>1, <3>1 DEF Atomic!Swept, Atomic!Live, Live, Atomic!NoSlot, NoSlot
    <3>3. Swept({Candidate}, call.tiers, call.now) =
            [a \in Auths |-> Swept({Candidate}, call.tiers, call.now)[a]]
      BY DEF Swept
    <3>4. QED
      BY <1>1, <1>3, <3>2, <3>3, TurnEffect, TurnSweeps
  <2>2. QED
    BY <1>1, <1>2, <2>1 DEF LoopInv, LedgerSwept
<1>9. BestSoFar'
  <2> DEFINE turn(i) == Turn(i, call.offset, call.order)
  <2>1. \A i \in Seen : turn(i) \in Nat /\ turn(i) < step
    <3>1. \A i \in 1..n : turn(i) \in 0..n - 1
      BY <1>6, CallTyped, TurnsOfCall DEF LoopInv
    <3>2. QED
      BY <1>6, <3>1 DEF Seen
  <2>2. /\ selectedIndex = 0 <=> OpenSeen = {}
        /\ selectedIndex # 0 => selectedIndex \in OpenSeen /\ selectedCount = Weighed(selectedIndex)
        /\ FillFirst => selectedIndex = 0
        /\ \A j \in OpenSeen \ {selectedIndex} :
             \/ Weighed(selectedIndex) < Weighed(j)
             \/ Weighed(selectedIndex) = Weighed(j) /\ ~(turn(j) < turn(selectedIndex))
    BY <1>1 DEF LoopInv, BestSoFar, Progress
  <2>3. \A j \in OpenSeen : j \in Seen /\ Weighed(j) \in Nat
    BY <1>1, LookedAt DEF OpenSeen, Seen, LoopInv
  <2>4. \A i : turn(i)' = turn(i)
    BY <1>1
  <2> HIDE DEF turn
  <2>5. /\ selectedIndex' = 0 <=> OpenSeen' = {}
        /\ selectedIndex' # 0 => /\ selectedIndex' \in OpenSeen'
                                 /\ selectedCount' = Weighed(selectedIndex')
        /\ \A j \in OpenSeen' \ {selectedIndex'} :
             /\ ~FillFirst
             /\ \/ Weighed(selectedIndex') < Weighed(j)
                \/ Weighed(selectedIndex') = Weighed(j) /\ ~(turn(j) < turn(selectedIndex'))
    <3>1. CASE ~WasOpen(Index)
      BY <1>5, <2>2, <3>1, TurnEffect
    <3>2. CASE WasOpen(Index) /\ (FillFirst \/ selectedIndex = 0 \/ Weighed(Index) < selectedCount)
      <4>1. selectedIndex' = Index /\ selectedCount' = Weighed(Index) /\ OpenSeen' = OpenSeen \cup {Index}
        BY <1>5, <3>2, TurnEffect
      <4>2. ASSUME NEW j \in OpenSeen PROVE ~FillFirst /\ Weighed(Index) < Weighed(j)
        BY <1>4, <2>2, <2>3, <3>2
      <4>3. QED
        BY <1>3, <4>1, <4>2
    <3>3. CASE WasOpen(Index) /\ ~(FillFirst \/ selectedIndex = 0 \/ Weighed(Index) < selectedCount)
      <4>1. selectedIndex' = selectedIndex /\ selectedCount' = selectedCount
            /\ OpenSeen' = OpenSeen \cup {Index}
        BY <1>5, <3>3, TurnEffect
      <4>2. selectedIndex \in Seen /\ Weighed(selectedIndex) \in Nat
            /\ ~(Weighed(Index) < Weighed(selectedIndex))
        BY <2>2, <2>3, <3>3
      <4>3. turn(Index) = step
        BY <1>3 DEF turn
      <4>4. /\ ~(turn(Index) < turn(selectedIndex))
            /\ \/ Weighed(selectedIndex) < Weighed(Index)
               \/ Weighed(selectedIndex) = Weighed(Index)
        BY <1>4, <1>6, <2>1, <4>2, <4>3
      <4>5. QED
        BY <2>2, <3>3, <4>1, <4>4
    <3>4. QED
      BY <3>1, <3>2, <3>3
  <2>6. Weighed(selectedIndex)' = Weighed(selectedIndex')
    BY <1>1, <1>2 DEF Weighed, Atomic!Weight
  <2>7. QED
    BY <1>1, <1>2, <2>4, <2>5, <2>6 DEF BestSoFar, turn
<1>10. AtPool' /\ Progress' /\ BlockedSeen'
  <2>1. Progress'
    <3>1. pc' = "reserve" => selectedIndex' = Index /\ FillFirst
      BY <1>1, TurnEffect
    <3>2. pc' = "loop" => (FillFirst => selectedIndex' = 0)
      BY <1>1, TurnEffect DEF LoopInv, Progress
    <3>3. QED
      BY <1>1, <1>2, <1>3, <3>1, <3>2 DEF Progress
  <2>2. BlockedSeen'
    <3>1. pc' = "loop" /\ selectedIndex' = 0 => blocked'
      <4>1. CASE ~WasOpen(Index)
        BY <4>1, TurnEffect
      <4>2. CASE WasOpen(Index)
        BY <1>3, <4>2, TurnEffect
      <4>3. QED
        BY <4>1, <4>2
    <3>2. QED
      BY <1>1, <3>1 DEF BlockedSeen, BusyIsBlocked
  <2>3. QED
    BY <1>1, <2>1, <2>2 DEF AtPool
<1>11. Outcome' = Outcome
  BY <1>1 DEF Outcome
<1>12. QED
  BY <1>2, <1>7, <1>8, <1>9, <1>10, <1>11 DEF LoopInv
\* The turns of this call, as numbers.
LEMMA SeenAll ==
  ASSUME LoopTyped
  PROVE  /\ \A i \in DOMAIN call.order : Turn(i, call.offset, call.order) \in 0..Len(call.order) - 1
         /\ step = Len(call.order) => Seen = DOMAIN call.order
<1>1. \A i \in DOMAIN call.order : Turn(i, call.offset, call.order) \in 0..Len(call.order) - 1
  BY CallTyped, TurnsOfCall
<1>2. QED
  BY <1>1, CallTyped DEF Seen

\* The end of the loop with a selection, which is reserved next.
LEMMA FoundStep ==
  ASSUME LoopInv, LoopEnds, selectedIndex # 0
  PROVE  LoopInv' /\ Outcome' = Outcome /\ SlotsSeen' = SlotsSeen /\ PoolsSeen' = PoolsSeen
<1>1. /\ pc = "loop" /\ pc' = "reserve" /\ step = Len(call.order)
      /\ UNCHANGED <<slotVars, call, before, step, selectedIndex, selectedCount, blocked>>
  BY DEF LoopEnds
<1>2. /\ SlotsSeen' = SlotsSeen /\ PoolsSeen' = PoolsSeen /\ FillFirst' = FillFirst
      /\ \A i : WasOpen(i)' <=> WasOpen(i)
      /\ \A i : Weighed(i)' = Weighed(i)
      /\ Atomic!PoolAtLimit(call.pool, call.max, call.now)' <=>
              Atomic!PoolAtLimit(call.pool, call.max, call.now)
      /\ Atomic!SweptPool(call.pool, call.now)' = Atomic!SweptPool(call.pool, call.now)
  BY <1>1, SameCall DEF slotVars
<1>3. Seen' = Seen /\ SeenAuths' = SeenAuths
  BY <1>1 DEF Seen, SeenAuths
<1>4. OpenSeen' = OpenSeen
  BY <1>2, <1>3 DEF OpenSeen
<1>5. LoopTyped'
  BY <1>1 DEF LoopInv, LoopTyped, TypeOK, SlotsTypeOK, slotVars
<1>6. LedgerSwept'
  <2>1. Atomic!Swept(SeenAuths, call.tiers, call.now)' = Atomic!Swept(SeenAuths, call.tiers, call.now)
    BY <1>1, <1>2, <1>3 DEF Atomic!Swept
  <2>2. QED
    BY <1>1, <1>2, <2>1 DEF LoopInv, LedgerSwept, slotVars
<1>7. BestSoFar'
  <2>1. Weighed(selectedIndex)' = Weighed(selectedIndex)
    BY <1>1, <1>2 DEF Weighed, Atomic!Weight
  <2>2. QED
    BY <1>1, <1>2, <1>4, <2>1 DEF LoopInv, BestSoFar
<1>8. AtPool' /\ Progress' /\ BlockedSeen'
  BY <1>1, <1>2 DEF LoopInv, AtPool, Progress, BlockedSeen, BusyIsBlocked
<1>9. Outcome' = Outcome
  BY <1>1 DEF Outcome
<1>10. QED
  BY <1>2, <1>5, <1>6, <1>7, <1>8, <1>9 DEF LoopInv

\* The end of the loop without one: every account is at its limit, so that
\* every slot is live and none was dropped.
LEMMA NothingFoundStep ==
  ASSUME LoopInv, LoopEnds, selectedIndex = 0
  PROVE  LoopInv' /\ Atomic!Next
<1>1. /\ pc = "loop" /\ pc' = "done" /\ step = Len(call.order)
      /\ UNCHANGED <<slotVars, call, before, step, selectedIndex, selectedCount, blocked>>
  BY DEF LoopEnds
<1>2. Seen = DOMAIN call.order /\ OpenSeen = {}
  BY <1>1, SeenAll DEF LoopInv, BestSoFar
<1>3. Atomic!Open(call.order, call.tiers, call.now) = {}
  BY <1>2 DEF OpenSeen, WasOpen, Atomic!Open
<1>4. SlotsSeen = before.slots /\ PoolsSeen = before.pools
  BY <1>1, PromiseAboutBefore
<1>5. slots = before.slots
  <2>1. ASSUME NEW i \in DOMAIN call.order
        PROVE  Atomic!Live(before.slots[call.order[i]], call.now)
    <3>1. Atomic!AtLimit(call.order[i], call.tiers[call.order[i]], call.now)
      BY <1>3 DEF Atomic!Open
    <3>2. call.order[i] \in Auths /\ call.tiers[call.order[i]] \in Tiers \cup {NoTier}
          /\ limits \in [Tiers -> Nat]
      BY CallTyped DEF LoopInv
    <3>3. Atomic!LimitOf(call.tiers[call.order[i]]) \in Nat
      BY <3>1, <3>2, SlotsAssumption DEF Atomic!AtLimit, Atomic!LimitOf
    <3>4. QED
      BY <1>4, <3>1, <3>3 DEF Atomic!AtLimit, Atomic!Load
  <2>2. \A a \in SeenAuths : Atomic!Live(before.slots[a], call.now)
    BY <1>2, <2>1 DEF SeenAuths
  <2>3. before.slots \in [Auths -> Slot]
    BY CallTyped DEF LoopInv
  <2>4. QED
    BY <1>1, <1>4, <2>2, <2>3 DEF LoopInv, LedgerSwept, Atomic!Swept
<1>6. SlotsSeen' = SlotsSeen /\ PoolsSeen' = poolSlots
  BY <1>1, <1>4, <1>5 DEF SlotsSeen, PoolsSeen, slotVars
<1>7. Outcome = <<"open">> /\ Outcome' = <<"group_full">>
  BY <1>1, CallTyped DEF Outcome, LoopInv
<1>8. Atomic!BounceGroupFull(call.order, call.tiers, call.pool, call.max, call.now)
  BY <1>1, <1>3, <1>4, <1>6 DEF LoopInv, LedgerSwept, Atomic!BounceGroupFull, slotVars
<1>9. Atomic!Next
  BY <1>1, <1>7, <1>8 DEF Atomic!Next, Atomic!SelectGroupIsFull
<1>10. LoopInv'
  <2>1. blocked'
    BY <1>1, CallTyped DEF LoopInv, BlockedSeen
  <2>2. LoopTyped'
    BY <1>1 DEF LoopInv, LoopTyped, TypeOK, SlotsTypeOK, slotVars
  <2>3. QED
    BY <1>1, <2>1, <2>2
       DEF LoopInv, AtPool, LedgerSwept, BestSoFar, Progress, BlockedSeen, BusyIsBlocked
<1>11. QED
  BY <1>9, <1>10

\* The selected position is the one that the promise names, and the loop has
\* read the slots of the accounts that the promise sweeps.
LEMMA SelectedIsChosen ==
  ASSUME LoopInv, pc = "reserve"
  PROVE  /\ selectedIndex \in DOMAIN call.order
         /\ Atomic!Chosen(selectedIndex, call.order, call.tiers, call.strategy, call.offset, call.now)
         /\ Atomic!Visited(selectedIndex, call.order, call.strategy, call.offset) = SeenAuths
<1> DEFINE turn(i) == Turn(i, call.offset, call.order)
<1>1. /\ selectedIndex \in OpenSeen /\ selectedIndex \in DOMAIN call.order
      /\ \A j \in OpenSeen \ {selectedIndex} :
           /\ ~FillFirst
           /\ \/ Weighed(selectedIndex) < Weighed(j)
              \/ Weighed(selectedIndex) = Weighed(j) /\ ~(turn(j) < turn(selectedIndex))
  BY DEF LoopInv, BestSoFar, Progress, OpenSeen, Seen
<1>2. /\ \A i \in DOMAIN call.order : turn(i) \in Nat
      /\ step \in Nat
  BY SeenAll, CallTyped DEF LoopInv
<1>3. Seen = {k \in DOMAIN call.order : call.strategy = "fill-first" => turn(k) <= turn(selectedIndex)}
  <2>1. CASE FillFirst
    <3>1. step = turn(selectedIndex) + 1
      BY <2>1 DEF LoopInv, Progress
    <3>2. Seen = {k \in DOMAIN call.order : turn(k) < step}
      BY DEF Seen
    <3> HIDE DEF turn
    <3>3. QED
      BY <1>1, <1>2, <2>1, <3>1, <3>2 DEF FillFirst
  <2>2. CASE ~FillFirst
    BY <2>2, SeenAll DEF LoopInv, Progress, FillFirst
  <2>3. QED
    BY <2>1, <2>2
<1>4. Atomic!Visited(selectedIndex, call.order, call.strategy, call.offset) = SeenAuths
  BY <1>3 DEF Atomic!Visited, SeenAuths, Atomic!Turn, Turn
<1>5. ASSUME NEW j \in Atomic!Open(call.order, call.tiers, call.now) \ {selectedIndex}
      PROVE  IF call.strategy = "fill-first" THEN ~(turn(j) < turn(selectedIndex))
             ELSE \/ Weighed(selectedIndex) < Weighed(j)
                  \/ Weighed(selectedIndex) = Weighed(j) /\ ~(turn(j) < turn(selectedIndex))
  <2>1. j \in DOMAIN call.order /\ WasOpen(j)
    BY <1>5 DEF WasOpen, Atomic!Open
  <2> HIDE DEF turn
  <2>2. CASE FillFirst
    <3>1. turn(j) < turn(selectedIndex) => j \in Seen
      BY <1>1, <1>2, <1>3, <2>1
    <3>2. QED
      BY <1>1, <1>5, <2>1, <2>2, <3>1 DEF OpenSeen, FillFirst
  <2>3. CASE ~FillFirst
    BY <1>1, <1>3, <1>5, <2>1, <2>3 DEF OpenSeen, FillFirst
  <2>4. QED
    BY <2>2, <2>3
<1>6. Atomic!Chosen(selectedIndex, call.order, call.tiers, call.strategy, call.offset, call.now)
  <2>1. selectedIndex \in Atomic!Open(call.order, call.tiers, call.now)
    BY <1>1 DEF OpenSeen, WasOpen
  <2>2. QED
    BY <1>5, <2>1 DEF Atomic!Chosen, Weighed, Atomic!Turn, Turn
<1>7. QED
  BY <1>1, <1>4, <1>6

\* The reservation ends the call as promised.
LEMMA ReserveStep ==
  ASSUME LoopInv, ReserveSelected
  PROVE  LoopInv' /\ Atomic!Next
<1> DEFINE auth  == call.order[selectedIndex]
           swept == Atomic!Swept(SeenAuths, call.tiers, call.now)
<1>1. /\ pc = "reserve" /\ pc' = "done"
      /\ slots' = IF call.tiers[auth] = NoTier THEN slots
                  ELSE [slots EXCEPT ![auth] = Reserved(@, call.now)]
      /\ poolSlots' = [poolSlots EXCEPT ![call.pool] = Reserved(@, call.now)]
      /\ UNCHANGED <<limits, call, before, step, selectedIndex, selectedCount, blocked>>
  BY DEF ReserveSelected
<1>2. /\ selectedIndex \in DOMAIN call.order
      /\ Atomic!Chosen(selectedIndex, call.order, call.tiers, call.strategy, call.offset, call.now)
      /\ Atomic!Visited(selectedIndex, call.order, call.strategy, call.offset) = SeenAuths
  BY <1>1, SelectedIsChosen
<1>3. /\ ~Atomic!PoolAtLimit(call.pool, call.max, call.now)
      /\ poolSlots = [before.pools EXCEPT ![call.pool] = Atomic!SweptPool(call.pool, call.now)]
      /\ slots = swept
  BY <1>1 DEF LoopInv, LedgerSwept
<1>4. PoolsSeen = before.pools /\ SlotsSeen' = slots' /\ PoolsSeen' = poolSlots'
  BY <1>1, PromiseAboutBefore DEF SlotsSeen, PoolsSeen
<1>5. \A s, t : Atomic!Reserved(s, t) = Reserved(s, t)
  BY DEF Atomic!Reserved, Reserved
<1>6. /\ before.pools \in [Pools -> Slot] /\ call.pool \in Pools /\ auth \in Auths
      /\ slots \in [Auths -> Slot] /\ poolSlots \in [Pools -> Slot] /\ call.now \in Nat
  BY <1>2, CallTyped DEF LoopInv
<1>7. SlotsSeen' = IF call.tiers[auth] = NoTier THEN swept
                   ELSE [swept EXCEPT ![auth] = Atomic!Reserved(@, call.now)]
  BY <1>1, <1>3, <1>4, <1>5
<1>8. PoolsSeen' = [PoolsSeen EXCEPT ![call.pool] =
                      Atomic!Reserved(Atomic!SweptPool(call.pool, call.now), call.now)]
  <2>1. poolSlots[call.pool] = Atomic!SweptPool(call.pool, call.now)
    BY <1>3, <1>6
  <2>2. poolSlots' = [before.pools EXCEPT ![call.pool] = Reserved(poolSlots[call.pool], call.now)]
    BY <1>1, <1>3, <1>6
  <2>3. QED
    BY <1>4, <1>5, <2>1, <2>2
<1>9. Atomic!Reserve(selectedIndex, call.order, call.tiers, call.pool, call.max, call.strategy,
                     call.offset, call.now)
  BY <1>1, <1>2, <1>3, <1>7, <1>8 DEF Atomic!Reserve
<1>10. Outcome = <<"open">> /\ Outcome' = <<"selected", selectedIndex>>
  BY <1>1, <1>2, CallTyped DEF Outcome, LoopInv
<1>11. Atomic!Next
  BY <1>1, <1>2, <1>9, <1>10 DEF Atomic!Next, Atomic!SelectReserves
<1>12. LoopInv'
  <2>1. \A s \in Slot : Reserved(s, call.now) \in Slot
    BY <1>6, SlotsAssumption DEF Reserved, Slot
  <2>2. slots' \in [Auths -> Slot] /\ poolSlots' \in [Pools -> Slot]
    BY <1>1, <1>6, <2>1
  <2>3. LoopTyped'
    BY <1>1, <2>2 DEF LoopInv, LoopTyped, TypeOK, SlotsTypeOK
  <2>4. selectedIndex # 0
    BY <1>1 DEF LoopInv, Progress
  <2>5. QED
    BY <1>1, <2>3, <2>4
       DEF LoopInv, AtPool, LedgerSwept, BestSoFar, Progress, BlockedSeen, BusyIsBlocked
<1>13. QED
  BY <1>11, <1>12

\* Every step of the loop keeps the invariant, and is the one step that was
\* promised or none.
LEMMA StepSimulates ==
  LoopInv /\ [Next]_vars => LoopInv' /\ [Atomic!Next]_(Atomic!vars)
<1> SUFFICES ASSUME LoopInv, [Next]_vars
    PROVE  LoopInv' /\ [Atomic!Next]_(Atomic!vars)
  OBVIOUS
<1>1. ASSUME Outcome' = Outcome, SlotsSeen' = SlotsSeen, PoolsSeen' = PoolsSeen,
             limits' = limits, call' = call
      PROVE  UNCHANGED Atomic!vars
  BY <1>1 DEF Atomic!vars, Atomic!slotVars
<1>2. CASE CheckPool
  <2>1. limits' = limits /\ call' = call
    BY <1>2 DEF CheckPool
  <2>2. QED
    BY <1>1, <1>2, <2>1, RoomStep, FullStep
<1>3. CASE LookUnmetered \/ LookMetered
  <2>1. limits' = limits /\ call' = call
    BY <1>3, TurnEffect
  <2>2. QED
    BY <1>1, <1>3, <2>1, TurnStep
<1>4. CASE LoopEnds
  <2>1. limits' = limits /\ call' = call
    BY <1>4 DEF LoopEnds, slotVars
  <2>2. QED
    BY <1>1, <1>4, <2>1, FoundStep, NothingFoundStep
<1>5. CASE ReserveSelected
  BY <1>5, ReserveStep
<1>6. CASE UNCHANGED vars
  <2>1. /\ UNCHANGED <<slots, poolSlots, limits, call, before, pc, step, selectedIndex,
                       selectedCount, blocked>>
    BY <1>6 DEF vars, locals, slotVars
  <2>2. Outcome' = Outcome /\ SlotsSeen' = SlotsSeen /\ PoolsSeen' = PoolsSeen
    BY <2>1 DEF Outcome, SlotsSeen, PoolsSeen
  <2>3. LoopInv'
    BY <2>1, <2>2 DEF LoopInv, LoopTyped, TypeOK, SlotsTypeOK, AtPool, LedgerSwept, BestSoFar,
       Progress, BlockedSeen, BusyIsBlocked, OpenSeen, Seen, SeenAuths, WasOpen, Weighed, FillFirst,
       Atomic!PoolAtLimit, Atomic!SweptPool, Atomic!Swept, Atomic!Open, Atomic!AtLimit,
       Atomic!LimitOf, Atomic!Weight
  <2>4. QED
    BY <1>1, <2>1, <2>2, <2>3
<1>7. QED
  BY <1>2, <1>3, <1>4, <1>5, <1>6 DEF Next

LEMMA LoopInvariant == Spec => []LoopInv
BY InitLoop, StepSimulates, PTL DEF Spec

\* The loop keeps the types of its counters and of the ledger, for every group.
THEOREM TypeCorrect == Spec => []TypeOK
<1>1. LoopInv => TypeOK
  BY DEF LoopInv, LoopTyped
<1>2. QED
  BY <1>1, LoopInvariant, PTL

\* A call that selects nothing has met a limit, for every group: the answer
\* "no_available_candidates" after the loop is never given.
THEOREM BusyHasReason == Spec => []BusyIsBlocked
<1>1. LoopInv => BusyIsBlocked
  BY DEF LoopInv, BlockedSeen
<1>2. QED
  BY <1>1, LoopInvariant, PTL

\* The loop is the selection in one step: for every group, ledger, limits,
\* strategy and offset it reserves the account that Chosen describes and leaves
\* the ledger that Reserve describes, or reserves nothing for the reason it gives.
THEOREM LoopIsAtomic == Spec => IsAtomicSelect
<1>1. Init => Atomic!Init
  BY DEF Init, Atomic!Init, Outcome
<1>2. QED
  BY <1>1, LoopInvariant, StepSimulates, PTL DEF Spec, IsAtomicSelect, Atomic!Spec
=============================================================================
