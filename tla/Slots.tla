------------------------------- MODULE Slots -------------------------------
(***************************************************************************)
(* The concurrency ledger of the scheduler (concurrency.go): one slot per  *)
(* auth account, one per pool, and the per-tier limits, all guarded by     *)
(* App.mu.  A slot is a counter with one expiry for all of its units:      *)
(* every reservation moves the expiry of the whole slot.                   *)
(*                                                                         *)
(* A map entry the code would find missing is NoSlot, the Go zero value.   *)
(***************************************************************************)
EXTENDS Naturals, Sequences

CONSTANTS
  Auths,        \* auth account ids
  Pools,        \* pool ids
  Tiers,        \* account tiers that a limit can be set for
  DefaultTier,  \* the tier whose limit is the fallback of the others
  NoTier,       \* a candidate that consumes no account slot
  SlotTTL       \* defaultConcurrencySlotTTL

ASSUME SlotsAssumption ==
  /\ DefaultTier \in Tiers
  /\ NoTier \notin Tiers
  /\ SlotTTL \in Nat \ {0}

VARIABLES
  slots,        \* state.ConcurrencySlots
  poolSlots,    \* state.PoolConcurrencySlots
  limits        \* state.CodexConcurrencyLimits; 0 is a missing or zero limit

slotVars == <<slots, poolSlots, limits>>

Slot   == [count : Nat, expires : Nat]
NoSlot == [count |-> 0, expires |-> 0]

Strategies == {"round-robin", "fill-first"}

SlotsTypeOK ==
  /\ slots \in [Auths -> Slot]
  /\ poolSlots \in [Pools -> Slot]
  /\ limits \in [Tiers -> Nat]

-----------------------------------------------------------------------------
(* Reading the ledger at time t.                                           *)

\* Fault: only the slot's absence frees it, never its expiry.
LiveForEver(slot, t) == slot.expires > 0

Live(slot, t) == t < slot.expires

\* A live slot of count 0 comes from an old state file and counts as one.
Load(slot, t) ==
  IF ~Live(slot, t) THEN 0 ELSE IF slot.count = 0 THEN 1 ELSE slot.count

LimitOf(tier) == IF limits[tier] > 0 THEN limits[tier] ELSE limits[DefaultTier]

\* Fault: one request too many.
AtLimitLate(auth, tier, t) ==
  tier # NoTier /\ LimitOf(tier) > 0 /\ Load(slots[auth], t) > LimitOf(tier)

\* The account is at its own limit, seen under the given tier.
AtLimit(auth, tier, t) ==
  /\ tier # NoTier
  /\ LimitOf(tier) > 0
  /\ Load(slots[auth], t) >= LimitOf(tier)

\* Fault: one request too many.
PoolAtLimitLate(pool, max, t) == max > 0 /\ Load(poolSlots[pool], t) > max

PoolAtLimit(pool, max, t) == max > 0 /\ Load(poolSlots[pool], t) >= max

\* What round-robin minimises: accounts without a tier always weigh nothing.
Weight(auth, tier, t) == IF tier = NoTier THEN 0 ELSE Load(slots[auth], t)

-----------------------------------------------------------------------------
(* Selection from one priority group: order is the sequence of its         *)
(* accounts, tiers the tier of each account, offset the round-robin cursor.*)

\* The step of the loop at which position i is looked at.
Turn(i, offset, order) == (i - 1 + Len(order) - (offset % Len(order))) % Len(order)

Open(order, tiers, t) ==
  {i \in DOMAIN order : ~AtLimit(order[i], tiers[order[i]], t)}

\* Fill-first takes the first open position, round-robin the first of the
\* lightest open ones, both counted from the offset.
Chosen(i, order, tiers, strategy, offset, t) ==
  LET weight(j) == Weight(order[j], tiers[order[j]], t)
      before(j) == Turn(j, offset, order) < Turn(i, offset, order)
  IN  /\ i \in Open(order, tiers, t)
      /\ \A j \in Open(order, tiers, t) \ {i} :
           IF strategy = "fill-first"
           THEN ~before(j)
           ELSE weight(i) < weight(j) \/ (weight(i) = weight(j) /\ ~before(j))

\* The accounts whose slot the loop reads: all, or those up to the fill-first choice.
Visited(i, order, strategy, offset) ==
  {order[j] : j \in {k \in DOMAIN order :
     strategy = "fill-first" => Turn(k, offset, order) <= Turn(i, offset, order)}}

\* Reading an expired slot deletes it.
Swept(visited, tiers, t) ==
  [a \in Auths |->
     IF a \in visited /\ tiers[a] # NoTier /\ ~Live(slots[a], t)
     THEN NoSlot ELSE slots[a]]

SweptPool(pool, t) == IF Live(poolSlots[pool], t) THEN poolSlots[pool] ELSE NoSlot

\* Fault: a slot in use keeps the expiry of its first request.
ReservedKeepingExpiry(slot, t) ==
  [count |-> slot.count + 1,
   expires |-> IF slot.count = 0 THEN t + SlotTTL ELSE slot.expires]

Reserved(slot, t) == [count |-> slot.count + 1, expires |-> t + SlotTTL]

\* Fault: a release of nothing counts below zero.
ReleasedBelowZero(slot) == [slot EXCEPT !.count = @ - 1]

Released(slot) == IF slot.count <= 1 THEN NoSlot ELSE [slot EXCEPT !.count = @ - 1]

-----------------------------------------------------------------------------
(* Operations; each is one critical section of App.mu.                     *)

SlotsInit(initialLimits) ==
  /\ slots = [a \in Auths |-> NoSlot]
  /\ poolSlots = [p \in Pools |-> NoSlot]
  /\ limits = initialLimits

\* selectAndReserve finds room and takes one unit of account and pool.
Reserve(i, order, tiers, pool, max, strategy, offset, t) ==
  LET auth  == order[i]
      swept == Swept(Visited(i, order, strategy, offset), tiers, t)
  IN  /\ ~PoolAtLimit(pool, max, t)
      /\ Chosen(i, order, tiers, strategy, offset, t)
      /\ slots' = IF tiers[auth] = NoTier THEN swept
                  ELSE [swept EXCEPT ![auth] = Reserved(@, t)]
      /\ poolSlots' = [poolSlots EXCEPT ![pool] = Reserved(SweptPool(pool, t), t)]
      /\ UNCHANGED limits

\* selectAndReserve stops at the pool's own limit, before any account is read.
BouncePoolFull(pool, max, t) ==
  /\ PoolAtLimit(pool, max, t)
  /\ UNCHANGED slotVars

\* selectAndReserve finds every account of the group at its limit.  Their
\* slots are live, so only the pool's expired slot can be deleted.
BounceGroupFull(order, tiers, pool, max, t) ==
  /\ ~PoolAtLimit(pool, max, t)
  /\ Open(order, tiers, t) = {}
  /\ poolSlots' = [poolSlots EXCEPT ![pool] = SweptPool(pool, t)]
  /\ UNCHANGED <<slots, limits>>

\* Fault: an attributed completion releases the pool and forgets the account.
ReleasePoolOnly(auth, pool) ==
  /\ IF pool \in Pools
     THEN /\ poolSlots' = [poolSlots EXCEPT ![pool] = Released(@)]
          /\ UNCHANGED slots
     ELSE /\ slots' = [slots EXCEPT ![auth] = Released(@)]
          /\ UNCHANGED poolSlots
  /\ UNCHANGED limits

\* Fault: the pool is never released.
ReleaseAccountOnly(auth, pool) ==
  /\ slots' = [slots EXCEPT ![auth] = Released(@)]
  /\ UNCHANGED <<poolSlots, limits>>

\* The account is released by id alone; the pool only when attribution named it.
ReleaseSlot(auth, pool) ==
  /\ slots' = [slots EXCEPT ![auth] = Released(@)]
  /\ poolSlots' = [p \in Pools |-> IF p = pool THEN Released(poolSlots[p]) ELSE poolSlots[p]]
  /\ UNCHANGED limits

\* A status request first deletes every expired slot.
SweepExpired(t) ==
  /\ slots' = [a \in Auths |-> IF Live(slots[a], t) THEN slots[a] ELSE NoSlot]
  /\ poolSlots' = [p \in Pools |-> SweptPool(p, t)]
  /\ UNCHANGED limits

\* The management route that resets the slot of one account, or every slot.
ResetSlot(auth) ==
  /\ slots' = [slots EXCEPT ![auth] = NoSlot]
  /\ UNCHANGED <<poolSlots, limits>>

ResetAllSlots ==
  /\ slots' = [a \in Auths |-> NoSlot]
  /\ poolSlots' = [p \in Pools |-> NoSlot]
  /\ UNCHANGED limits

DropPoolSlot(pool) ==
  /\ poolSlots' = [poolSlots EXCEPT ![pool] = NoSlot]
  /\ UNCHANGED <<slots, limits>>

SetLimits(next) ==
  /\ limits' = next
  /\ UNCHANGED <<slots, poolSlots>>
=============================================================================
