--------------------------- MODULE AuthPoolLedger ---------------------------
(***************************************************************************)
(* What the ledger charges is what is in use: the counters of accounts and *)
(* pools against the requests that hold a unit of them; and when the       *)
(* concurrency limits of the accounts hold.  Three conditions are assumed  *)
(* for the limits, and the model has counterexamples without any of them:  *)
(*   - nobody but bound requests uses the accounts, and no slot is reset   *)
(*     by hand (MeteredSpec);                                              *)
(*   - an account has a tier in all pools or in none (UniformTiers);       *)
(*   - a request ends before the slot of its pick expires, by a margin of  *)
(*     the time a pick may take, since a slow pick moves the expiry of a   *)
(*     slot back to what its own, older reading of the clock says (Timely).*)
(***************************************************************************)
EXTENDS AuthPoolProofs

\* A request with one of these pcs holds a unit of its account, if metered.
Charged == Holding \cup {"lost"}

\* The two bounds hold together, over a well typed state.
LedgerInv == Typed /\ NoPhantomLoad /\ NoPhantomPoolLoad

\* The sets of requests that hold a unit, in one form.
LEMMA ChargedSets ==
  /\ \A a : Unreleased(a) = {r \in Requests : req[r].pc \in Charged /\ req[r].auth = a /\ Metered(r)}
  /\ \A p : PoolUnreleased(p) =
       {r \in Requests : /\ req[r].pool = p
                         /\ \/ req[r].pc \in Charged
                            \/ req[r].pc = "done" /\ req[r].usage.pool # p}
BY DEF Unreleased, PoolUnreleased, InFlight, PoolInFlight, Charged

\* Requests are finite in number: their sets can be counted and compared.
LEMMA RequestSets ==
  ASSUME NEW S \in SUBSET Requests, NEW T \in SUBSET S
  PROVE  /\ Cardinality(S) \in Nat /\ Cardinality(T) \in Nat
         /\ Cardinality(T) <= Cardinality(S)
         /\ \A x \in S : Cardinality(S \ {x}) = Cardinality(S) - 1
         /\ \A x \in Requests \ S : Cardinality(S \cup {x}) = Cardinality(S) + 1
<1>1. IsFiniteSet(S) /\ IsFiniteSet(T)
  BY ConstantsAssumption, FS_Subset
<1>2. QED
  BY <1>1, FS_Subset, FS_CardinalityType, FS_AddElement, FS_RemoveElement

\* What is counted are sets of requests, before and after a step.
LEMMA ChargedRequests ==
  /\ \A a : Unreleased(a) \in SUBSET Requests /\ Unreleased(a)' \in SUBSET Requests
  /\ \A p : PoolUnreleased(p) \in SUBSET Requests /\ PoolUnreleased(p)' \in SUBSET Requests
BY DEF Unreleased, PoolUnreleased, InFlight, PoolInFlight

\* The counters of a well typed ledger are natural numbers.
LEMMA CountsAreNumbers ==
  ASSUME SlotsTypeOK
  PROVE  /\ \A a \in Auths : slots[a].count \in Nat
         /\ \A p \in Pools : poolSlots[p].count \in Nat
BY DEF SlotsTypeOK, Slot

\* Whatever the step, as long as no request gives up its charge and no counter
\* grows, the counters stay covered.
LEMMA CountersCovered ==
  ASSUME LedgerInv, Typed',
         \A a \in Auths : slots'[a].count <= slots[a].count,
         \A p \in Pools : poolSlots'[p].count <= poolSlots[p].count,
         \A a \in Auths : Unreleased(a) \subseteq Unreleased(a)',
         \A p \in Pools : PoolUnreleased(p) \subseteq PoolUnreleased(p)'
  PROVE  LedgerInv'
<1>1. SlotsTypeOK /\ SlotsTypeOK'
  BY DEF LedgerInv, Typed, TypeOK
<1>2. /\ \A a \in Auths : slots[a].count \in Nat /\ slots'[a].count \in Nat
      /\ \A p \in Pools : poolSlots[p].count \in Nat /\ poolSlots'[p].count \in Nat
  BY <1>1, CountsAreNumbers DEF SlotsTypeOK, Slot
<1>3. NoPhantomLoad'
  <2> SUFFICES ASSUME NEW a \in Auths PROVE slots'[a].count <= Cardinality(Unreleased(a)')
    BY DEF NoPhantomLoad
  <2>1. slots[a].count <= Cardinality(Unreleased(a))
    BY DEF LedgerInv, NoPhantomLoad
  <2>2. /\ Cardinality(Unreleased(a)) \in Nat /\ Cardinality(Unreleased(a)') \in Nat
        /\ Cardinality(Unreleased(a)) <= Cardinality(Unreleased(a)')
    BY ChargedRequests, RequestSets
  <2>3. QED
    BY <1>2, <2>1, <2>2
<1>4. NoPhantomPoolLoad'
  <2> SUFFICES ASSUME NEW p \in Pools PROVE poolSlots'[p].count <= Cardinality(PoolUnreleased(p)')
    BY DEF NoPhantomPoolLoad
  <2>1. poolSlots[p].count <= Cardinality(PoolUnreleased(p))
    BY DEF LedgerInv, NoPhantomPoolLoad
  <2>2. /\ Cardinality(PoolUnreleased(p)) \in Nat /\ Cardinality(PoolUnreleased(p)') \in Nat
        /\ Cardinality(PoolUnreleased(p)) <= Cardinality(PoolUnreleased(p)')
    BY ChargedRequests, RequestSets
  <2>3. QED
    BY <1>2, <2>1, <2>2
<1>5. QED
  BY <1>3, <1>4 DEF LedgerInv

\* A step of one request that keeps what it holds.
LEMMA ChargesKept ==
  ASSUME NEW r \in Requests,
         \A s \in Requests \ {r} : req'[s] = req[s],
         req[r].pc # "done",
         req[r].pc \in Charged =>
           /\ req'[r].pc \in Charged
           /\ req'[r].auth = req[r].auth
           /\ req'[r].pool = req[r].pool
  PROVE  /\ \A a \in Auths : Unreleased(a) \subseteq Unreleased(a)'
         /\ \A p \in Pools : PoolUnreleased(p) \subseteq PoolUnreleased(p)'
BY ChargedSets DEF Unreleased, PoolUnreleased, InFlight, PoolInFlight, Charged, Metered

\* No charge moves while the requests stay as they are.
LEMMA ChargesUnchanged ==
  ASSUME UNCHANGED req
  PROVE  /\ \A a \in Auths : Unreleased(a)' = Unreleased(a)
         /\ \A p \in Pools : PoolUnreleased(p)' = PoolUnreleased(p)
BY DEF Unreleased, PoolUnreleased, InFlight, PoolInFlight, Metered

\* Deleting a slot, whether expired or reset by hand, raises no counter.
LEMMA SweptCounts ==
  ASSUME SlotsTypeOK
  PROVE  /\ \A a \in Auths : slots[a].count <= slots[a].count /\ NoSlot.count <= slots[a].count
         /\ \A p \in Pools : poolSlots[p].count <= poolSlots[p].count /\ NoSlot.count <= poolSlots[p].count
         /\ \A visited, tiers, t : \A a \in Auths : Swept(visited, tiers, t)[a] \in {slots[a], NoSlot}
         /\ \A p, t : SweptPool(p, t) \in {poolSlots[p], NoSlot}
<1>1. NoSlot.count = 0
  BY DEF NoSlot
<1>2. QED
  BY <1>1, CountsAreNumbers DEF Swept, SweptPool

\* No management operation raises a counter.
LEMMA ManagementCounts ==
  ASSUME SlotsTypeOK,
         \/ UNCHANGED slotVars
         \/ \E t \in Nat : SweepExpired(t)
         \/ \E a \in Auths : ResetSlot(a)
         \/ ResetAllSlots
         \/ \E p \in Pools : DropPoolSlot(p)
         \/ \E next : SetLimits(next)
         \/ \E order, tiers, max, t : \E p \in Pools : BounceGroupFull(order, tiers, p, max, t)
  PROVE  /\ \A a \in Auths : slots'[a].count <= slots[a].count
         /\ \A p \in Pools : poolSlots'[p].count <= poolSlots[p].count
<1>1. CASE \E t \in Nat : SweepExpired(t)
  BY <1>1, SweptCounts DEF SweepExpired, SlotsTypeOK
<1>2. CASE \E a \in Auths : ResetSlot(a)
  BY <1>2, SweptCounts DEF ResetSlot, SlotsTypeOK
<1>3. CASE ResetAllSlots
  BY <1>3, SweptCounts DEF ResetAllSlots, SlotsTypeOK
<1>4. CASE \E p \in Pools : DropPoolSlot(p)
  BY <1>4, SweptCounts DEF DropPoolSlot, SlotsTypeOK
<1>5. CASE UNCHANGED slotVars \/ \E next : SetLimits(next)
  BY <1>5, SweptCounts DEF SetLimits, slotVars
<1>6. CASE \E order, tiers, max, t : \E p \in Pools : BounceGroupFull(order, tiers, p, max, t)
  BY <1>6, SweptCounts DEF BounceGroupFull, SlotsTypeOK
<1>7. QED
  BY <1>1, <1>2, <1>3, <1>4, <1>5, <1>6

-----------------------------------------------------------------------------
(* The steps.                                                              *)

\* The steps of a request that neither reserve nor release.
LEMMA RequestStepsCovered ==
  ASSUME LedgerInv, Typed', NEW r \in Requests,
         \/ PickUnbound(r) \/ PickRefused(r) \/ PickBound(r) \/ TakeOffset(r)
         \/ SelectPoolFull(r) \/ SelectGroupFull(r) \/ RememberSelection(r)
         \/ Complete(r) \/ Abandon(r)
  PROVE  LedgerInv'
<1>1. SlotsTypeOK /\ req \in [Requests -> Request] /\ req' \in [Requests -> Request]
  BY DEF LedgerInv, Typed, TypeOK
<1>2. req[r].pool \in Pools \cup {NoPool}
  BY <1>1 DEF Request
<1>3. req[r].pc \in Picking => req[r].pool \in Pools
  BY DEF LedgerInv, Typed, WellFormed
<1>4. /\ \A a \in Auths : slots'[a].count <= slots[a].count
      /\ \A p \in Pools : poolSlots'[p].count <= poolSlots[p].count
  <2>1. CASE SelectGroupFull(r)
    BY <1>1, <1>3, <2>1, ManagementCounts DEF SelectGroupFull, Picking
  <2>2. CASE ~SelectGroupFull(r)
    BY <1>1, <2>2, ManagementCounts
    DEF PickUnbound, PickRefused, PickBound, TakeOffset, SelectPoolFull, BouncePoolFull,
        RememberSelection, Complete, Abandon
  <2>3. QED
    BY <2>1, <2>2
<1>5. /\ \A s \in Requests \ {r} : req'[s] = req[s]
      /\ req[r].pc # "done"
  BY <1>1 DEF PickUnbound, PickRefused, PickBound, TakeOffset, SelectPoolFull, SelectGroupFull,
              NextGroup, RememberSelection, Complete, Abandon
<1>6. req[r].pc \in Charged =>
        /\ req'[r].pc \in Charged
        /\ req'[r].auth = req[r].auth
        /\ req'[r].pool = req[r].pool
  <2>1. CASE RememberSelection(r) \/ Abandon(r)
    BY <1>1, <2>1 DEF RememberSelection, Abandon, Charged, Holding, Request
  <2>2. CASE Complete(r)
    <3>1. PICK u : req' = [req EXCEPT ![r].pc = "usage", ![r].usage = u]
      BY <2>2 DEF Complete
    <3>2. r \in DOMAIN req /\ req[r] \in Request
      BY <1>1
    <3>3. /\ req'[r].pc = "usage"
          /\ req'[r].auth = req[r].auth
          /\ req'[r].pool = req[r].pool
      BY <3>1, <3>2 DEF Request
    <3>4. QED
      BY <3>3 DEF Charged, Holding
  <2>3. CASE ~(RememberSelection(r) \/ Complete(r) \/ Abandon(r))
    BY <2>3 DEF PickUnbound, PickRefused, PickBound, TakeOffset, SelectPoolFull, SelectGroupFull,
                Charged, Holding
  <2>4. QED
    BY <2>1, <2>2, <2>3
<1>7. QED
  BY <1>4, <1>5, <1>6, ChargesKept, CountersCovered

\* The management handlers and the clock.
LEMMA ManagementCovered ==
  ASSUME LedgerInv, Typed',
         \/ ClearEvents \/ DeleteConcurrencySlot \/ UpdateLimits \/ StatusSweep
         \/ Configure \/ Tick \/ UNCHANGED vars
  PROVE  LedgerInv'
<1>1. SlotsTypeOK /\ now \in Nat
  BY DEF LedgerInv, Typed, TypeOK
<1>2. UNCHANGED req
  BY DEF ClearEvents, DeleteConcurrencySlot, UpdateLimits, StatusSweep, Tick, vars,
         Configure, UpsertPool, DeletePool, UpsertBinding, DeleteBinding, requestVars
<1>3. /\ \A a \in Auths : slots'[a].count <= slots[a].count
      /\ \A p \in Pools : poolSlots'[p].count <= poolSlots[p].count
  BY <1>1, ManagementCounts
  DEF ClearEvents, DeleteConcurrencySlot, UpdateLimits, StatusSweep, Tick, vars, slotVars,
      Configure, UpsertPool, DeletePool, UpsertBinding, DeleteBinding
<1>4. QED
  BY <1>2, <1>3, ChargesUnchanged, CountersCovered

\* The unit a pick takes is charged to the request that takes it.
LEMMA ReserveCovered ==
  ASSUME LedgerInv, Typed', NEW r \in Requests, SelectReserve(r)
  PROVE  LedgerInv'
<1>1. /\ SlotsTypeOK /\ SlotsTypeOK'
      /\ req \in [Requests -> Request] /\ req' \in [Requests -> Request]
  BY DEF LedgerInv, Typed, TypeOK
<1>2. req[r].pc = "select" /\ req[r].pool \in Pools
  BY DEF SelectReserve, LedgerInv, Typed, WellFormed, Picking
<1>3. PICK i \in DOMAIN GroupOf(r).order :
        /\ Reserve(i, GroupOf(r).order, TiersOf(r), req[r].pool, req[r].config.max,
                   req[r].config.strategy, req[r].offset, req[r].started)
        /\ req' = [req EXCEPT ![r].pc = "selected", ![r].auth = GroupOf(r).order[i]]
  BY DEF SelectReserve
<1> DEFINE auth  == GroupOf(r).order[i]
           pool  == req[r].pool
           t     == req[r].started
           swept == Swept(Visited(i, GroupOf(r).order, req[r].config.strategy, req[r].offset),
                          TiersOf(r), t)
<1>4. auth \in Auths
  BY <1>1, <1>2, GroupTyped, ElementOfSeq, LenProperties DEF LedgerInv, Typed, TypeOK, ReqTyped, Picking
<1>5. /\ \A s \in Requests \ {r} : req'[s] = req[s]
      /\ req'[r].pc = "selected" /\ req'[r].auth = auth /\ req'[r].pool = pool
  BY <1>1, <1>3 DEF Request
<1>6. /\ \A a \in Auths : Unreleased(a) \subseteq Unreleased(a)'
      /\ \A p \in Pools : PoolUnreleased(p) \subseteq PoolUnreleased(p)'
  BY <1>2, <1>5, ChargesKept DEF Charged, Holding
<1>7. r \notin Unreleased(auth) /\ r \notin PoolUnreleased(pool)
  BY <1>2, ChargedSets DEF Charged, Holding
<1>8. /\ \A p \in Pools : p = pool => r \in PoolUnreleased(p)'
      /\ \A a \in Auths : a = auth /\ TiersOf(r)[a] # NoTier => r \in Unreleased(a)'
  BY <1>2, <1>5, ConstantsAssumption
  DEF PoolUnreleased, PoolInFlight, Unreleased, InFlight, Metered, Holding, TiersOf
<1>9. \A a \in Auths : swept[a].count <= slots[a].count /\ swept[a].count \in Nat
  BY <1>1, SweptCounts, CountsAreNumbers DEF NoSlot
<1>10. SweptPool(pool, t).count <= poolSlots[pool].count /\ SweptPool(pool, t).count \in Nat
  BY <1>1, <1>2, SweptCounts, CountsAreNumbers DEF NoSlot
<1>11. /\ swept = [a \in Auths |-> swept[a]]
       /\ slots' = IF TiersOf(r)[auth] = NoTier THEN swept
                   ELSE [swept EXCEPT ![auth] = Reserved(swept[auth], t)]
       /\ poolSlots' = [poolSlots EXCEPT ![pool] = Reserved(SweptPool(pool, t), t)]
  BY <1>3, <1>4 DEF Reserve, Swept
<1> HIDE DEF swept, auth, pool, t
<1>12. NoPhantomLoad'
  <2> SUFFICES ASSUME NEW a \in Auths PROVE slots'[a].count <= Cardinality(Unreleased(a)')
    BY DEF NoPhantomLoad
  <2>1. slots[a].count <= Cardinality(Unreleased(a)) /\ slots[a].count \in Nat
    BY <1>1, CountsAreNumbers DEF LedgerInv, NoPhantomLoad
  <2>2. /\ Cardinality(Unreleased(a)) \in Nat /\ Cardinality(Unreleased(a)') \in Nat
        /\ Cardinality(Unreleased(a)) <= Cardinality(Unreleased(a)')
    BY <1>6, ChargedRequests, RequestSets
  <2>3. CASE TiersOf(r)[auth] # NoTier /\ a = auth
    <3>1. Unreleased(a) \cup {r} \subseteq Unreleased(a)'
      BY <1>6, <1>8, <2>3
    <3>2. Cardinality(Unreleased(a) \cup {r}) = Cardinality(Unreleased(a)) + 1
      BY <1>7, <2>3, ChargedRequests, RequestSets
    <3>3. Cardinality(Unreleased(a) \cup {r}) <= Cardinality(Unreleased(a)')
      BY <3>1, ChargedRequests, RequestSets
    <3>4. slots'[a].count = swept[a].count + 1
      BY <1>4, <1>11, <2>3 DEF Reserved
    <3>5. QED
      BY <1>9, <2>1, <2>2, <3>2, <3>3, <3>4
  <2>4. CASE ~(TiersOf(r)[auth] # NoTier /\ a = auth)
    <3>1. slots'[a] = swept[a]
      BY <1>11, <2>4
    <3>2. QED
      BY <1>9, <2>1, <2>2, <3>1
  <2>5. QED
    BY <2>3, <2>4
<1>13. NoPhantomPoolLoad'
  <2> SUFFICES ASSUME NEW p \in Pools PROVE poolSlots'[p].count <= Cardinality(PoolUnreleased(p)')
    BY DEF NoPhantomPoolLoad
  <2>1. poolSlots[p].count <= Cardinality(PoolUnreleased(p)) /\ poolSlots[p].count \in Nat
    BY <1>1, CountsAreNumbers DEF LedgerInv, NoPhantomPoolLoad
  <2>2. /\ Cardinality(PoolUnreleased(p)) \in Nat /\ Cardinality(PoolUnreleased(p)') \in Nat
        /\ Cardinality(PoolUnreleased(p)) <= Cardinality(PoolUnreleased(p)')
    BY <1>6, ChargedRequests, RequestSets
  <2>3. CASE p = pool
    <3>1. PoolUnreleased(p) \cup {r} \subseteq PoolUnreleased(p)'
      BY <1>6, <1>8, <2>3
    <3>2. Cardinality(PoolUnreleased(p) \cup {r}) = Cardinality(PoolUnreleased(p)) + 1
      BY <1>7, <2>3, ChargedRequests, RequestSets
    <3>3. Cardinality(PoolUnreleased(p) \cup {r}) <= Cardinality(PoolUnreleased(p)')
      BY <3>1, ChargedRequests, RequestSets
    <3>4. poolSlots'[p].count = SweptPool(pool, t).count + 1
      BY <1>1, <1>11, <2>3 DEF Reserved, SlotsTypeOK
    <3>5. QED
      BY <1>10, <2>1, <2>2, <2>3, <3>2, <3>3, <3>4
  <2>4. CASE p # pool
    <3>1. poolSlots'[p] = poolSlots[p]
      BY <1>1, <1>11, <2>4 DEF SlotsTypeOK
    <3>2. QED
      BY <2>1, <2>2, <3>1
  <2>5. QED
    BY <2>3, <2>4
<1>14. QED
  BY <1>12, <1>13 DEF LedgerInv

\* What a release takes off a counter.
LEMMA ReleasedCount ==
  ASSUME NEW s \in Slot
  PROVE  Released(s).count = IF s.count = 0 THEN 0 ELSE s.count - 1
BY DEF Released, NoSlot, Slot

\* A completion gives up at most what the ledger takes back: its own unit.
LEMMA ReleaseCovered ==
  ASSUME LedgerInv, Typed', NEW r \in Requests, Release(r)
  PROVE  LedgerInv'
<1> DEFINE auth == req[r].auth
           pool == req[r].usage.pool
<1>1. SlotsTypeOK /\ req \in [Requests -> Request]
  BY DEF LedgerInv, Typed, TypeOK
<1>2. /\ \A s \in Requests \ {r} : req'[s] = req[s]
      /\ req[r].pc = "usage" /\ req'[r].pc = "done"
      /\ req'[r].pool = req[r].pool /\ req'[r].usage = req[r].usage
  BY <1>1 DEF Release, Request
<1>3. auth \in Auths
  BY <1>2 DEF LedgerInv, Typed, WellFormed, Holding
<1>4. /\ slots' = [slots EXCEPT ![auth] = Released(slots[auth])]
      /\ poolSlots' = [p \in Pools |-> IF p = pool THEN Released(poolSlots[p]) ELSE poolSlots[p]]
  BY DEF Release, ReleaseSlot
<1> HIDE DEF auth, pool
<1>5. \A a \in Auths : Unreleased(a) \ {r} \subseteq Unreleased(a)'
  BY <1>2, ChargedSets DEF Unreleased, InFlight, Charged, Metered
<1>6. \A a \in Auths : a # auth => Unreleased(a) \subseteq Unreleased(a)'
  BY <1>2, <1>5, ChargedSets DEF auth
<1>7. \A p \in Pools : PoolUnreleased(p) \ {r} \subseteq PoolUnreleased(p)'
  BY <1>2, ChargedSets DEF PoolUnreleased, PoolInFlight, Charged
<1>8. \A p \in Pools : p # pool => PoolUnreleased(p) \subseteq PoolUnreleased(p)'
  BY <1>2, <1>7, ChargedSets DEF PoolUnreleased, pool
<1>9. NoPhantomLoad'
  <2> SUFFICES ASSUME NEW a \in Auths PROVE slots'[a].count <= Cardinality(Unreleased(a)')
    BY DEF NoPhantomLoad
  <2>1. slots[a].count <= Cardinality(Unreleased(a)) /\ slots[a].count \in Nat /\ slots[a] \in Slot
    BY <1>1, CountsAreNumbers DEF LedgerInv, NoPhantomLoad, SlotsTypeOK
  <2>2. Cardinality(Unreleased(a)) \in Nat /\ Cardinality(Unreleased(a)') \in Nat
    BY ChargedRequests, RequestSets
  <2>3. CASE a = auth
    <3>1. slots'[a].count = IF slots[a].count = 0 THEN 0 ELSE slots[a].count - 1
      BY <1>1, <1>3, <1>4, <2>1, <2>3, ReleasedCount DEF SlotsTypeOK
    <3>2. Cardinality(Unreleased(a) \ {r}) >= Cardinality(Unreleased(a)) - 1
      <4>1. CASE r \in Unreleased(a)
        BY <2>2, <4>1, ChargedRequests, RequestSets
      <4>2. CASE r \notin Unreleased(a)
        <5>1. Unreleased(a) \ {r} = Unreleased(a)
          BY <4>2
        <5>2. QED
          BY <2>2, <5>1
      <4>3. QED
        BY <4>1, <4>2
    <3>3. /\ Cardinality(Unreleased(a) \ {r}) \in Nat
          /\ Cardinality(Unreleased(a) \ {r}) <= Cardinality(Unreleased(a)')
      BY <1>5, ChargedRequests, RequestSets
    <3>4. QED
      BY <2>1, <2>2, <3>1, <3>2, <3>3
  <2>4. CASE a # auth
    <3>1. slots'[a] = slots[a]
      BY <1>1, <1>4, <2>4 DEF SlotsTypeOK
    <3>2. Cardinality(Unreleased(a)) <= Cardinality(Unreleased(a)')
      BY <1>6, <2>4, ChargedRequests, RequestSets
    <3>3. QED
      BY <2>1, <2>2, <3>1, <3>2
  <2>5. QED
    BY <2>3, <2>4
<1>10. NoPhantomPoolLoad'
  <2> SUFFICES ASSUME NEW p \in Pools PROVE poolSlots'[p].count <= Cardinality(PoolUnreleased(p)')
    BY DEF NoPhantomPoolLoad
  <2>1. /\ poolSlots[p].count <= Cardinality(PoolUnreleased(p))
        /\ poolSlots[p].count \in Nat /\ poolSlots[p] \in Slot
    BY <1>1, CountsAreNumbers DEF LedgerInv, NoPhantomPoolLoad, SlotsTypeOK
  <2>2. Cardinality(PoolUnreleased(p)) \in Nat /\ Cardinality(PoolUnreleased(p)') \in Nat
    BY ChargedRequests, RequestSets
  <2>3. CASE p = pool
    <3>1. poolSlots'[p].count = IF poolSlots[p].count = 0 THEN 0 ELSE poolSlots[p].count - 1
      BY <1>4, <2>1, <2>3, ReleasedCount
    <3>2. Cardinality(PoolUnreleased(p) \ {r}) >= Cardinality(PoolUnreleased(p)) - 1
      <4>1. CASE r \in PoolUnreleased(p)
        BY <2>2, <4>1, ChargedRequests, RequestSets
      <4>2. CASE r \notin PoolUnreleased(p)
        <5>1. PoolUnreleased(p) \ {r} = PoolUnreleased(p)
          BY <4>2
        <5>2. QED
          BY <2>2, <5>1
      <4>3. QED
        BY <4>1, <4>2
    <3>3. /\ Cardinality(PoolUnreleased(p) \ {r}) \in Nat
          /\ Cardinality(PoolUnreleased(p) \ {r}) <= Cardinality(PoolUnreleased(p)')
      BY <1>7, ChargedRequests, RequestSets
    <3>4. QED
      BY <2>1, <2>2, <3>1, <3>2, <3>3
  <2>4. CASE p # pool
    <3>1. poolSlots'[p] = poolSlots[p]
      BY <1>4, <2>4
    <3>2. Cardinality(PoolUnreleased(p)) <= Cardinality(PoolUnreleased(p)')
      BY <1>8, <2>4, ChargedRequests, RequestSets
    <3>3. QED
      BY <2>1, <2>2, <3>1, <3>2
  <2>5. QED
    BY <2>3, <2>4
<1>11. QED
  BY <1>9, <1>10 DEF LedgerInv

\* An empty ledger charges nobody.
LEMMA InitCovered == Init => LedgerInv
<1> SUFFICES ASSUME Init PROVE LedgerInv
  OBVIOUS
<1>1. Typed
  BY InitTyped
<1>2. /\ \A a \in Auths : slots[a].count = 0
      /\ \A p \in Pools : poolSlots[p].count = 0
  BY DEF Init, SlotsInit, NoSlot
<1>3. /\ \A a \in Auths : Cardinality(Unreleased(a)) \in Nat
      /\ \A p \in Pools : Cardinality(PoolUnreleased(p)) \in Nat
  BY ChargedRequests, RequestSets
<1>4. \A n \in Nat : 0 <= n
  OBVIOUS
<1>5. QED
  BY <1>1, <1>2, <1>3, <1>4 DEF LedgerInv, NoPhantomLoad, NoPhantomPoolLoad

\* The strengthened invariant holds in every reachable state.
LEMMA LedgerInvariant == Spec => []LedgerInv
<1>1. LedgerInv /\ [Next]_vars => LedgerInv'
  <2> SUFFICES ASSUME LedgerInv, [Next]_vars PROVE LedgerInv'
    OBVIOUS
  <2>1. Typed'
    BY NextTyped DEF LedgerInv
  <2>2. CASE \E r \in Requests : Traffic(r) \/ PickUnbound(r)
    BY <2>1, <2>2, RequestStepsCovered, ReserveCovered, ReleaseCovered DEF Traffic, Handle
  <2>3. CASE ~(\E r \in Requests : Traffic(r) \/ PickUnbound(r))
    BY <2>1, <2>3, ManagementCovered DEF Next
  <2>4. QED
    BY <2>2, <2>3
<1>2. QED
  BY <1>1, InitCovered, PTL DEF Spec

\* No account is charged for more requests than have reserved it and not
\* released it: under every interleaving of picks, completions, expiries,
\* resets and unbound completions, which release an account they never
\* reserved (releaseConcurrencySlot), the ledger errs on the low side only.
THEOREM AccountsNotOvercharged == Spec => []NoPhantomLoad
<1>1. LedgerInv => NoPhantomLoad
  BY DEF LedgerInv
<1>2. QED
  BY <1>1, LedgerInvariant, PTL

\* The same for the pools, whose slot only an attributed completion releases:
\* every unit on a pool's slot is that of a request that reserved it and whose
\* completion, if it came, did not name the pool.
THEOREM PoolsNotOvercharged == Spec => []NoPhantomPoolLoad
<1>1. LedgerInv => NoPhantomPoolLoad
  BY DEF LedgerInv
<1>2. QED
  BY <1>1, LedgerInvariant, PTL

-----------------------------------------------------------------------------
(* The limits of the accounts.                                             *)
\* What makes an account count in one pool makes it count in every pool.
UniformTiers ==
  \A p, q \in Pools, a \in Auths : TierIn[p][a] = NoTier => TierIn[q][a] = NoTier

\* No request in flight outlives its slot.
Timely == PickBudget <= Deadline /\ Deadline + PickBudget < SlotTTL

-----------------------------------------------------------------------------
(* The inductive invariant of the limits.                                  *)

\* No request is older than the clock lets it be.
InTime ==
  \A r \in Requests :
    /\ req[r].pc \in Picking => req[r].started <= now /\ now <= req[r].started + PickBudget
    /\ req[r].pc \in Holding => req[r].started <= now /\ now <= req[r].started + Deadline

\* Every holder went through a pool.
HoldersBound == \A r \in Requests : req[r].pc \in Holding => req[r].pool \in Pools

\* A slot in use lasts as long as the pick of each request on it wanted it to,
\* but for what a slower pick has taken back.
SlotLasts(r) ==
  (req[r].pc \in Holding /\ Metered(r)) =>
    req[r].started + SlotTTL <= slots[req[r].auth].expires + PickBudget

\* The counter of an account covers its requests in flight.
Counted(a) == Cardinality(InFlight(a)) <= slots[a].count

\* The inductive invariant: the two halves of LedgerCovers, made inductive.
CoverInv ==
  /\ Typed
  /\ InTime
  /\ HoldersBound
  /\ \A r \in Requests : SlotLasts(r)
  /\ \A a \in Auths : Counted(a)

\* Times, expiries and counters are natural numbers.
LEMMA Numbers ==
  ASSUME Typed
  PROVE  /\ now \in Nat
         /\ \A r \in Requests : req[r].started \in Nat
         /\ \A a \in Auths : slots[a].expires \in Nat /\ slots[a].count \in Nat
         /\ PickBudget \in Nat /\ Deadline \in Nat /\ SlotTTL \in Nat
BY ConstantsAssumption, SlotsAssumption DEF Typed, TypeOK, Request, SlotsTypeOK, Slot

\* The invariant covers what LedgerCovers asks for.
LEMMA HoldersAreLive ==
  ASSUME Timely, CoverInv, NEW r \in Requests, req[r].pc \in Holding, Metered(r)
  PROVE  /\ req[r].auth \in Auths
         /\ \A t \in Nat : t <= now => Live(slots[req[r].auth], t)
<1>1. req[r].auth \in Auths
  BY DEF CoverInv, Typed, WellFormed
<1>2. /\ now <= req[r].started + Deadline
      /\ req[r].started + SlotTTL <= slots[req[r].auth].expires + PickBudget
  BY DEF CoverInv, InTime, SlotLasts
<1>3. /\ now \in Nat /\ req[r].started \in Nat /\ slots[req[r].auth].expires \in Nat
      /\ PickBudget \in Nat /\ Deadline \in Nat /\ SlotTTL \in Nat
  BY <1>1, Numbers DEF CoverInv
<1>4. QED
  BY <1>1, <1>2, <1>3 DEF Timely, Live

\* Under the timing assumption the inductive invariant gives LedgerCovers.
LEMMA CoverInvCovers == ASSUME Timely, CoverInv PROVE LedgerCovers
<1>1. \A r \in Requests : req[r].pc \in Holding /\ Metered(r) => Live(slots[req[r].auth], now)
  BY HoldersAreLive, Numbers DEF CoverInv
<1>2. QED
  BY <1>1 DEF LedgerCovers, CoverInv, Counted

\* The requests in flight on an account are a set of requests.
LEMMA InFlightSets ==
  \A a : InFlight(a) \in SUBSET Requests /\ InFlight(a)' \in SUBSET Requests
BY DEF InFlight

\* A slot is deleted only when no request in flight needs it.
LEMMA SweptKeepsHolders ==
  ASSUME Timely, CoverInv, NEW t \in Nat, t <= now, NEW a \in Auths, ~Live(slots[a], t)
  PROVE  InFlight(a) = {}
BY HoldersAreLive DEF InFlight

-----------------------------------------------------------------------------
(* Steps that reserve and release nothing.                                 *)

\* No new holder, and no account slot changes but by expiring.
LEMMA QuietCovered ==
  ASSUME Timely, CoverInv, Typed', InTime', HoldersBound',
         \A r \in Requests :
           (req'[r].pc \in Holding /\ Metered(r)') =>
             /\ req[r].pc \in Holding /\ Metered(r)
             /\ req'[r].auth = req[r].auth /\ req'[r].started = req[r].started,
         \A a \in Auths : slots'[a] = slots[a] \/ InFlight(a) = {}
  PROVE  CoverInv'
<1>1. \A a \in Auths : InFlight(a)' \subseteq InFlight(a)
  BY DEF InFlight
<1>2. ASSUME NEW r \in Requests PROVE SlotLasts(r)'
  <2> SUFFICES ASSUME req'[r].pc \in Holding, Metered(r)'
      PROVE req'[r].started + SlotTTL <= slots'[req'[r].auth].expires + PickBudget
    BY DEF SlotLasts
  <2>1. req[r].auth \in Auths /\ r \in InFlight(req[r].auth)
    BY DEF CoverInv, Typed, WellFormed, InFlight
  <2>2. slots'[req[r].auth] = slots[req[r].auth]
    BY <2>1
  <2>3. QED
    BY <2>2 DEF CoverInv, SlotLasts
<1>3. ASSUME NEW a \in Auths PROVE Counted(a)'
  <2>1. /\ Cardinality(InFlight(a)) \in Nat /\ Cardinality(InFlight(a)') \in Nat
        /\ Cardinality(InFlight(a)') <= Cardinality(InFlight(a))
    BY <1>1, InFlightSets, RequestSets
  <2>2. slots[a].count \in Nat /\ slots'[a].count \in Nat
    BY DEF CoverInv, Typed, TypeOK, SlotsTypeOK, Slot
  <2>3. CASE slots'[a] = slots[a]
    BY <2>1, <2>2, <2>3 DEF CoverInv, Counted
  <2>4. CASE InFlight(a) = {}
    <3>1. Cardinality(InFlight(a)) = 0
      BY <2>4, FS_EmptySet
    <3>2. QED
      BY <2>1, <2>2, <3>1 DEF Counted
  <2>5. QED
    BY <2>3, <2>4
<1>4. QED
  BY <1>2, <1>3 DEF CoverInv

-----------------------------------------------------------------------------
(* Time: every step keeps every request in time.                           *)

\* A handler's step is no later than the state it starts from.
LEMMA StepInTime ==
  ASSUME PickBudget <= Deadline, Typed, InTime, UNCHANGED now, NEW r \in Requests,
         \A s \in Requests \ {r} : req'[s] = req[s],
         \/ req'[r].pc \notin Picking \cup Holding
         \/ /\ req'[r].started = req[r].started
            /\ req[r].pc \in Picking
         \/ /\ req'[r].started = req[r].started
            /\ req[r].pc \in Holding
            /\ req'[r].pc \notin Picking
         \/ /\ req'[r].pc = "offset"
            /\ req'[r].started <= now /\ now <= req'[r].started + PickBudget
  PROVE  InTime'
<1>1. /\ now \in Nat /\ PickBudget \in Nat /\ Deadline \in Nat /\ req[r].started \in Nat
  BY Numbers
<1>2. /\ req'[r].pc \in Picking => req'[r].started <= now /\ now <= req'[r].started + PickBudget
      /\ req'[r].pc \in Holding => req'[r].started <= now /\ now <= req'[r].started + Deadline
  <2>1. CASE req'[r].pc \notin Picking \cup Holding
    BY <2>1
  <2>2. CASE req'[r].started = req[r].started /\ req[r].pc \in Picking
    BY <1>1, <2>2 DEF InTime
  <2>3. CASE req'[r].started = req[r].started /\ req[r].pc \in Holding /\ req'[r].pc \notin Picking
    BY <2>3 DEF InTime
  <2>4. CASE /\ req'[r].pc = "offset"
             /\ req'[r].started <= now /\ now <= req'[r].started + PickBudget
    BY <2>4 DEF Holding
  <2>5. QED
    BY <2>1, <2>2, <2>3, <2>4
<1>3. QED
  BY <1>2 DEF InTime

\* The clock waits for the requests it would leave too far behind.
LEMMA TickInTime ==
  ASSUME PickBudget <= Deadline, Typed, InTime, Tick
  PROVE  InTime'
<1>1. now \in Nat /\ PickBudget \in Nat /\ Deadline \in Nat
      /\ \A r \in Requests : req[r].started \in Nat
  BY Numbers
<1>2. now' = now + 1 /\ req' = req
  BY DEF Tick
<1>3. \A r \in Requests :
        /\ req[r].pc \in Picking => now < req[r].started + PickBudget
        /\ req[r].pc \in {"inflight", "usage"} => now < req[r].started + Deadline
  BY DEF Tick
<1>4. ASSUME NEW r \in Requests
      PROVE  /\ req[r].pc \in Picking => req[r].started <= now + 1 /\ now + 1 <= req[r].started + PickBudget
             /\ req[r].pc \in Holding => req[r].started <= now + 1 /\ now + 1 <= req[r].started + Deadline
  BY <1>1, <1>3 DEF InTime, Picking, Holding
<1>5. QED
  BY <1>2, <1>4 DEF InTime

-----------------------------------------------------------------------------
(* The steps.                                                              *)

\* The steps of a request that neither reserve nor release.
LEMMA QuietStepsCovered ==
  ASSUME Timely, CoverInv, Typed', NEW r \in Requests,
         \/ PickRefused(r) \/ PickBound(r) \/ TakeOffset(r)
         \/ SelectPoolFull(r) \/ SelectGroupFull(r) \/ RememberSelection(r)
         \/ Complete(r) \/ Abandon(r)
  PROVE  CoverInv'
<1>1. req \in [Requests -> Request]
  BY DEF CoverInv, Typed, TypeOK
<1>2. UNCHANGED <<now, slots>>
  BY DEF PickRefused, PickBound, TakeOffset, SelectPoolFull, SelectGroupFull, BouncePoolFull,
         BounceGroupFull, RememberSelection, Complete, Abandon, slotVars
<1>3. \A s \in Requests \ {r} : req'[s] = req[s]
  BY <1>1 DEF PickRefused, PickBound, TakeOffset, SelectPoolFull, SelectGroupFull,
              NextGroup, RememberSelection, Complete, Abandon
<1>4. \/ req'[r].pc \notin Picking \cup Holding
      \/ req'[r].started = req[r].started /\ req[r].pc \in Picking /\ req'[r].pc \notin Holding
      \/ /\ req'[r].started = req[r].started
         /\ req[r].pc \in Holding /\ req'[r].pc \notin Picking
         /\ req'[r].auth = req[r].auth /\ req'[r].pool = req[r].pool
      \/ /\ req'[r].pc = "offset"
         /\ req'[r].started <= now /\ now <= req'[r].started + PickBudget
  <2>1. CASE PickRefused(r) \/ Abandon(r)
    BY <1>1, <2>1 DEF PickRefused, Abandon, Picking, Holding, Request
  <2>2. CASE PickBound(r)
    <3>1. PICK k \in Keys, m \in Models, t \in 0..now :
            /\ Started(t)
            /\ bindings[k] \in DOMAIN pools
            /\ \E offer \in Offers[bindings[k]] \ {<<>>} :
                 req' = [req EXCEPT ![r] = [Idle EXCEPT
                   !.pc = "offset", !.key = k, !.model = m, !.started = t, !.pool = bindings[k],
                   !.config = pools[bindings[k]], !.groups = offer]]
      BY <2>2, Zenon DEF PickBound
    <3>2. PICK offer : req' = [req EXCEPT ![r] = [Idle EXCEPT
                   !.pc = "offset", !.key = k, !.model = m, !.started = t, !.pool = bindings[k],
                   !.config = pools[bindings[k]], !.groups = offer]]
      BY <3>1, Zenon
    <3> DEFINE next == [Idle EXCEPT
                   !.pc = "offset", !.key = k, !.model = m, !.started = t, !.pool = bindings[k],
                   !.config = pools[bindings[k]], !.groups = offer]
    <3>3. next.pc = "offset" /\ next.started = t
      BY DEF Idle
    <3>4. req'[r] = next
      BY <1>1, <3>2, Zenon
    <3>5. QED
      BY <3>1, <3>3, <3>4 DEF Started
  <2>3. CASE TakeOffset(r) \/ SelectPoolFull(r) \/ SelectGroupFull(r)
    BY <1>1, <2>3 DEF TakeOffset, SelectPoolFull, SelectGroupFull, NextGroup, Picking, Holding, Request
  <2>4. CASE RememberSelection(r)
    BY <1>1, <2>4 DEF RememberSelection, Picking, Holding, Request
  <2>5. CASE Complete(r)
    <3>1. PICK m, t, usage : /\ TakeOwner(req[r].auth, m, t)
                           /\ req' = [req EXCEPT ![r].pc = "usage", ![r].usage = usage]
      BY <2>5, Zenon DEF Complete
    <3>2. /\ req'[r].pc = "usage"
          /\ req'[r].started = req[r].started
          /\ req'[r].auth = req[r].auth /\ req'[r].pool = req[r].pool
      BY <1>1, <3>1 DEF Request
    <3>3. req[r].pc = "inflight"
      BY <2>5 DEF Complete
    <3>4. QED
      BY <3>2, <3>3 DEF Picking, Holding
  <2>6. QED
    BY <2>1, <2>2, <2>3, <2>4, <2>5
<1>5. InTime'
  BY <1>2, <1>3, <1>4, StepInTime DEF Timely, CoverInv
<1>6. \A s \in Requests :
        (req'[s].pc \in Holding /\ Metered(s)') =>
          /\ req[s].pc \in Holding /\ Metered(s)
          /\ req'[s].auth = req[s].auth /\ req'[s].started = req[s].started
  BY <1>3, <1>4 DEF Metered, Holding
<1>7. HoldersBound'
  BY <1>3, <1>4 DEF CoverInv, HoldersBound, Holding
<1>8. QED
  BY <1>2, <1>5, <1>6, <1>7, QuietCovered

\* Management and the clock reset no slot that is in use.
LEMMA BackgroundCovered ==
  ASSUME Timely, CoverInv, Typed',
         Configure \/ UpdateLimits \/ ClearEvents \/ StatusSweep \/ Tick \/ UNCHANGED vars
  PROVE  CoverInv'
<1>1. UNCHANGED req
  BY DEF ClearEvents, UpdateLimits, StatusSweep, Tick, vars,
         Configure, UpsertPool, DeletePool, UpsertBinding, DeleteBinding, requestVars
<1>2. \A a \in Auths : slots'[a] = slots[a] \/ InFlight(a) = {}
  <2>1. CASE StatusSweep
    <3>1. now \in Nat /\ now <= now
      BY Numbers DEF CoverInv
    <3>2. QED
      BY <2>1, <3>1, SweptKeepsHolders DEF StatusSweep, SweepExpired
  <2>2. CASE ~StatusSweep
    BY <2>2 DEF ClearEvents, UpdateLimits, SetLimits, Tick, vars, slotVars,
         Configure, UpsertPool, DeletePool, DropPoolSlot, UpsertBinding, DeleteBinding
  <2>3. QED
    BY <2>1, <2>2
<1>3. InTime'
  <2>1. CASE Tick
    BY <2>1, TickInTime DEF Timely, CoverInv
  <2>2. CASE ~Tick
    <3>1. UNCHANGED now
      BY <2>2 DEF ClearEvents, UpdateLimits, StatusSweep, vars,
         Configure, UpsertPool, DeletePool, UpsertBinding, DeleteBinding, requestVars
    <3>2. QED
      BY <1>1, <3>1 DEF CoverInv, InTime
  <2>3. QED
    BY <2>1, <2>2
<1>4. HoldersBound'
  BY <1>1 DEF CoverInv, HoldersBound
<1>5. QED
  BY <1>1, <1>2, <1>3, <1>4, QuietCovered DEF Metered

\* What a reservation changes.
LEMMA ReserveEffect ==
  ASSUME CoverInv, NEW r \in Requests, SelectReserve(r)
  PROVE  \E auth \in Auths :
           /\ req[r].pc = "select" /\ req[r].pool \in Pools
           /\ \A s \in Requests \ {r} : req'[s] = req[s]
           /\ req'[r].pc = "selected" /\ req'[r].auth = auth
           /\ req'[r].pool = req[r].pool /\ req'[r].started = req[r].started
           /\ ~AtLimit(auth, TiersOf(r)[auth], req[r].started)
           /\ \A a \in Auths :
                IF a = auth /\ TiersOf(r)[a] # NoTier
                THEN \E s \in Slot : /\ s = slots[a] \/ ~Live(slots[a], req[r].started)
                                     /\ slots'[a] = Reserved(s, req[r].started)
                ELSE slots'[a] = slots[a] \/ ~Live(slots[a], req[r].started)
           /\ UNCHANGED now
<1>1. /\ SlotsTypeOK /\ req \in [Requests -> Request]
  BY DEF CoverInv, Typed, TypeOK
<1>2. req[r].pc = "select" /\ req[r].pool \in Pools
  BY DEF SelectReserve, CoverInv, Typed, WellFormed, Picking
<1>3. PICK i \in DOMAIN GroupOf(r).order :
        /\ Reserve(i, GroupOf(r).order, TiersOf(r), req[r].pool, req[r].config.max,
                   req[r].config.strategy, req[r].offset, req[r].started)
        /\ req' = [req EXCEPT ![r].pc = "selected", ![r].auth = GroupOf(r).order[i]]
        /\ UNCHANGED now
  BY DEF SelectReserve
<1> DEFINE auth  == GroupOf(r).order[i]
           t     == req[r].started
           swept == Swept(Visited(i, GroupOf(r).order, req[r].config.strategy, req[r].offset),
                          TiersOf(r), t)
<1>4. auth \in Auths
  BY <1>1, <1>2, GroupTyped, ElementOfSeq, LenProperties DEF CoverInv, Typed, TypeOK, ReqTyped, Picking
<1>5. /\ \A s \in Requests \ {r} : req'[s] = req[s]
      /\ req'[r].pc = "selected" /\ req'[r].auth = auth
      /\ req'[r].pool = req[r].pool /\ req'[r].started = req[r].started
  BY <1>1, <1>3 DEF Request
<1>6. ~AtLimit(auth, TiersOf(r)[auth], t)
  BY <1>3 DEF Reserve, Chosen, Open
<1>7. /\ swept = [a \in Auths |-> swept[a]]
      /\ \A a \in Auths : swept[a] \in Slot /\ (swept[a] = slots[a] \/ ~Live(slots[a], t))
  BY <1>1, SlotsAssumption DEF Swept, NoSlot, Slot, SlotsTypeOK
<1>8. slots' = IF TiersOf(r)[auth] = NoTier THEN swept
               ELSE [swept EXCEPT ![auth] = Reserved(swept[auth], t)]
  BY <1>3, <1>4, <1>7 DEF Reserve
<1> HIDE DEF swept, auth, t
<1>9. ASSUME NEW a \in Auths
      PROVE  IF a = auth /\ TiersOf(r)[a] # NoTier
             THEN \E s \in Slot : /\ s = slots[a] \/ ~Live(slots[a], t)
                                  /\ slots'[a] = Reserved(s, t)
             ELSE slots'[a] = slots[a] \/ ~Live(slots[a], t)
  <2>1. CASE a = auth /\ TiersOf(r)[a] # NoTier
    <3>1. slots'[a] = Reserved(swept[a], t)
      BY <1>7, <1>8, <2>1
    <3>2. QED
      BY <1>7, <2>1, <3>1
  <2>2. CASE ~(a = auth /\ TiersOf(r)[a] # NoTier)
    <3>1. slots'[a] = swept[a]
      BY <1>7, <1>8, <2>2
    <3>2. QED
      BY <1>7, <2>2, <3>1
  <2>3. QED
    BY <2>1, <2>2
<1>10. QED
  BY <1>2, <1>3, <1>4, <1>5, <1>6, <1>9 DEF t

\* A reservation counts the new holder, and takes back at most PickBudget from the others.
LEMMA ReserveKeepsCover ==
  ASSUME Timely, CoverInv, Typed', NEW r \in Requests, SelectReserve(r)
  PROVE  CoverInv'
<1> DEFINE t == req[r].started
<1>1. PICK auth \in Auths :
           /\ req[r].pc = "select" /\ req[r].pool \in Pools
           /\ \A s \in Requests \ {r} : req'[s] = req[s]
           /\ req'[r].pc = "selected" /\ req'[r].auth = auth
           /\ req'[r].pool = req[r].pool /\ req'[r].started = req[r].started
           /\ ~AtLimit(auth, TiersOf(r)[auth], t)
           /\ \A a \in Auths :
                IF a = auth /\ TiersOf(r)[a] # NoTier
                THEN \E s \in Slot : /\ s = slots[a] \/ ~Live(slots[a], t)
                                     /\ slots'[a] = Reserved(s, t)
                ELSE slots'[a] = slots[a] \/ ~Live(slots[a], t)
           /\ UNCHANGED now
  BY ReserveEffect
<1>2. t \in Nat /\ t <= now /\ now <= t + PickBudget
  BY <1>1, Numbers DEF CoverInv, InTime, Picking
<1>3. /\ PickBudget \in Nat /\ Deadline \in Nat /\ SlotTTL \in Nat /\ now \in Nat
      /\ \A s \in Requests : req[s].started \in Nat
  BY Numbers DEF CoverInv
<1>4. InTime'
  BY <1>1, StepInTime DEF Picking, Timely, CoverInv
<1>5. HoldersBound'
  BY <1>1 DEF CoverInv, HoldersBound
<1>6. \A a \in Auths : ~Live(slots[a], t) => InFlight(a) = {}
  BY <1>2, SweptKeepsHolders
<1> HIDE DEF t
<1>7. Metered(r)' <=> TiersOf(r)[auth] # NoTier
  BY <1>1, ConstantsAssumption DEF Metered, TiersOf
<1>8. ASSUME NEW s \in Requests \ {r}
      PROVE  (req'[s].pc \in Holding /\ Metered(s)') =>
                /\ req[s].pc \in Holding /\ Metered(s)
                /\ req'[s].auth = req[s].auth /\ req'[s].started = req[s].started
                /\ req[s].auth \in Auths /\ s \in InFlight(req[s].auth)
  BY <1>1 DEF Metered, CoverInv, Typed, WellFormed, InFlight
<1>9. TiersOf(r)[auth] # NoTier => slots'[auth].expires = t + SlotTTL
  <2> SUFFICES ASSUME TiersOf(r)[auth] # NoTier PROVE slots'[auth].expires = t + SlotTTL
    OBVIOUS
  <2>1. PICK u \in Slot : slots'[auth] = Reserved(u, t)
    BY <1>1
  <2>2. QED
    BY <2>1 DEF Reserved
<1>10. ASSUME NEW s \in Requests PROVE SlotLasts(s)'
  <2> SUFFICES ASSUME req'[s].pc \in Holding, Metered(s)'
      PROVE req'[s].started + SlotTTL <= slots'[req'[s].auth].expires + PickBudget
    BY DEF SlotLasts
  <2>1. CASE s = r
    <3>1. slots'[auth].expires = t + SlotTTL
      BY <1>7, <1>9, <2>1
    <3>2. QED
      BY <1>1, <1>2, <1>3, <2>1, <3>1 DEF t
  <2>2. CASE s # r
    <3>1. /\ req[s].pc \in Holding /\ Metered(s) /\ req[s].auth \in Auths
          /\ req'[s].auth = req[s].auth /\ req'[s].started = req[s].started
          /\ InFlight(req[s].auth) # {}
      BY <1>8, <2>2
    <3>2. CASE req[s].auth = auth /\ TiersOf(r)[auth] # NoTier
      <4>1. slots'[auth].expires = t + SlotTTL
        BY <1>9, <3>2
      <4>2. req[s].started <= now
        BY <3>1 DEF CoverInv, InTime
      <4>3. QED
        BY <1>2, <1>3, <3>1, <3>2, <4>1, <4>2
    <3>3. CASE ~(req[s].auth = auth /\ TiersOf(r)[auth] # NoTier)
      <4>1. slots'[req[s].auth] = slots[req[s].auth]
        BY <1>1, <1>6, <3>1, <3>3
      <4>2. QED
        BY <3>1, <4>1 DEF CoverInv, SlotLasts
    <3>4. QED
      BY <3>2, <3>3
  <2>3. QED
    BY <2>1, <2>2
<1>11. ASSUME NEW a \in Auths PROVE Counted(a)'
  <2>1. /\ slots[a].count \in Nat /\ slots'[a].count \in Nat
        /\ Cardinality(InFlight(a)) <= slots[a].count
    BY DEF CoverInv, Typed, TypeOK, SlotsTypeOK, Slot, Counted
  <2>2. Cardinality(InFlight(a)) \in Nat /\ Cardinality(InFlight(a)') \in Nat
    BY InFlightSets, RequestSets
  <2>3. InFlight(a) = {} => Cardinality(InFlight(a)) = 0
    BY FS_EmptySet
  <2>4. r \notin InFlight(a)
    BY <1>1 DEF InFlight, Holding
  <2>5. CASE a = auth /\ TiersOf(r)[a] # NoTier
    <3>1. InFlight(a)' \subseteq InFlight(a) \cup {r}
      BY <1>1, <1>8 DEF InFlight
    <3>2. Cardinality(InFlight(a)') <= Cardinality(InFlight(a)) + 1
      <4>1. Cardinality(InFlight(a) \cup {r}) = Cardinality(InFlight(a)) + 1
        BY <2>4, InFlightSets, RequestSets
      <4>2. Cardinality(InFlight(a)') <= Cardinality(InFlight(a) \cup {r})
        BY <3>1, InFlightSets, RequestSets
      <4>3. QED
        BY <4>1, <4>2
    <3>3. PICK s \in Slot : /\ s = slots[a] \/ ~Live(slots[a], t)
                            /\ slots'[a] = Reserved(s, t)
      BY <1>1, <2>5
    <3>4. slots'[a].count = s.count + 1 /\ s.count \in Nat
      BY <3>3 DEF Reserved, Slot
    <3>5. Cardinality(InFlight(a)) <= s.count
      BY <1>6, <2>1, <2>3, <3>3, <3>4
    <3>6. QED
      BY <2>1, <2>2, <3>2, <3>4, <3>5 DEF Counted
  <2>6. CASE ~(a = auth /\ TiersOf(r)[a] # NoTier)
    <3>1. InFlight(a)' \subseteq InFlight(a)
      BY <1>1, <1>7, <1>8, <2>6 DEF InFlight
    <3>2. Cardinality(InFlight(a)') <= Cardinality(InFlight(a))
      BY <3>1, InFlightSets, RequestSets
    <3>3. slots'[a] = slots[a] \/ InFlight(a) = {}
      BY <1>1, <1>6, <2>6
    <3>4. QED
      BY <2>1, <2>2, <2>3, <3>2, <3>3 DEF Counted
  <2>7. QED
    BY <2>5, <2>6
<1>12. QED
  BY <1>4, <1>5, <1>10, <1>11 DEF CoverInv

\* A completion takes its own unit off the account and leaves the others their
\* slot: a slot is deleted with its last unit only.
LEMMA ReleaseKeepsCover ==
  ASSUME Timely, UniformTiers, CoverInv, Typed', NEW r \in Requests, Release(r)
  PROVE  CoverInv'
<1> DEFINE auth == req[r].auth
<1>1. SlotsTypeOK /\ req \in [Requests -> Request]
  BY DEF CoverInv, Typed, TypeOK
<1>2. /\ \A s \in Requests \ {r} : req'[s] = req[s]
      /\ req[r].pc = "usage" /\ req'[r].pc = "done"
      /\ UNCHANGED now
  BY <1>1 DEF Release
<1>3. auth \in Auths /\ req[r].pool \in Pools
  BY <1>2 DEF CoverInv, Typed, WellFormed, HoldersBound, Holding
<1>4. /\ slots'[auth] = Released(slots[auth])
      /\ \A a \in Auths : a # auth => slots'[a] = slots[a]
  BY <1>1, <1>3 DEF Release, ReleaseSlot, SlotsTypeOK
<1>5. InTime'
  BY <1>2, StepInTime DEF Picking, Holding, Timely, CoverInv
<1>6. HoldersBound'
  BY <1>2 DEF CoverInv, HoldersBound, Holding
<1>7. ASSUME NEW s \in Requests, req'[s].pc \in Holding, Metered(s)'
      PROVE  s # r /\ req'[s] = req[s] /\ s \in InFlight(req[s].auth) /\ req[s].auth \in Auths
  <2>1. s # r
    BY <1>2, <1>7 DEF Holding
  <2>2. req'[s] = req[s]
    BY <1>2, <2>1
  <2>3. req[s].pc \in Holding /\ Metered(s)
    BY <1>7, <2>2 DEF Metered
  <2>4. QED
    BY <2>1, <2>2, <2>3 DEF InFlight, CoverInv, Typed, WellFormed
<1>8. \A a \in Auths : InFlight(a)' \subseteq InFlight(a) \ {r}
  BY <1>7 DEF InFlight
\* If the request has no tier, nobody on its account has one.
<1>9. r \in InFlight(auth) \/ InFlight(auth) = {}
  <2>1. CASE TierIn[req[r].pool][auth] = NoTier
    <3>1. \A s \in Requests : Metered(s) => req[s].pool \in Pools
      BY <1>1 DEF Metered, Request
    <3>2. \A s \in Requests : req[s].auth = auth => ~Metered(s)
      BY <1>3, <2>1, <3>1 DEF Metered, UniformTiers
    <3>3. QED
      BY <3>2 DEF InFlight
  <2>2. CASE TierIn[req[r].pool][auth] # NoTier
    BY <1>2, <1>3, <2>2, ConstantsAssumption DEF InFlight, Metered, Holding
  <2>3. QED
    BY <2>1, <2>2
<1>10. /\ slots[auth].count \in Nat /\ slots'[auth].count \in Nat
       /\ Cardinality(InFlight(auth)) <= slots[auth].count
  BY <1>1, <1>3 DEF CoverInv, Counted, SlotsTypeOK, Slot, Typed, TypeOK
<1> HIDE DEF auth
<1>11. slots[auth].count <= 1 => InFlight(auth) \ {r} = {}
  <2> SUFFICES ASSUME slots[auth].count <= 1, r \in InFlight(auth) PROVE InFlight(auth) \ {r} = {}
    BY <1>9
  <2>1. /\ Cardinality(InFlight(auth)) \in Nat
        /\ Cardinality(InFlight(auth) \ {r}) = Cardinality(InFlight(auth)) - 1
        /\ Cardinality(InFlight(auth) \ {r}) \in Nat
    BY InFlightSets, RequestSets
  <2>2. Cardinality(InFlight(auth) \ {r}) = 0
    BY <1>10, <2>1
  <2>3. IsFiniteSet(InFlight(auth) \ {r})
    BY InFlightSets, ConstantsAssumption, FS_Subset
  <2>4. QED
    BY <2>2, <2>3, FS_EmptySet
<1>12. ASSUME NEW s \in Requests PROVE SlotLasts(s)'
  <2> SUFFICES ASSUME req'[s].pc \in Holding, Metered(s)'
      PROVE req'[s].started + SlotTTL <= slots'[req'[s].auth].expires + PickBudget
    BY DEF SlotLasts
  <2>1. /\ s \in InFlight(req[s].auth) \ {r} /\ req[s].auth \in Auths
        /\ req'[s].auth = req[s].auth /\ req'[s].started = req[s].started
    BY <1>7
  <2>2. slots'[req[s].auth].expires = slots[req[s].auth].expires
    <3>1. CASE req[s].auth = auth
      <4>1. ~(slots[auth].count <= 1)
        BY <1>11, <2>1, <3>1
      <4>2. slots'[auth] = [slots[auth] EXCEPT !.count = slots[auth].count - 1]
        BY <1>4, <4>1 DEF Released
      <4>3. slots[auth] \in Slot
        BY <1>1, <1>3 DEF SlotsTypeOK
      <4>4. QED
        BY <3>1, <4>2, <4>3 DEF Slot
    <3>2. CASE req[s].auth # auth
      BY <1>4, <2>1, <3>2
    <3>3. QED
      BY <3>1, <3>2
  <2>3. req[s].pc \in Holding /\ Metered(s)
    BY <2>1 DEF InFlight
  <2>4. QED
    BY <2>1, <2>2, <2>3 DEF CoverInv, SlotLasts
<1>13. ASSUME NEW a \in Auths PROVE Counted(a)'
  <2>1. /\ Cardinality(InFlight(a)) \in Nat /\ Cardinality(InFlight(a)') \in Nat
        /\ Cardinality(InFlight(a) \ {r}) \in Nat
        /\ Cardinality(InFlight(a)') <= Cardinality(InFlight(a) \ {r})
        /\ Cardinality(InFlight(a) \ {r}) <= Cardinality(InFlight(a))
    BY <1>8, InFlightSets, RequestSets
  <2>2. CASE a # auth
    BY <1>4, <2>1, <2>2, Numbers DEF CoverInv, Counted
  <2>3. CASE a = auth /\ r \in InFlight(a)
    <3>1. Cardinality(InFlight(a) \ {r}) = Cardinality(InFlight(a)) - 1
      BY <2>3, InFlightSets, RequestSets
    <3>2. slots[auth] \in Slot
      BY <1>1, <1>3 DEF SlotsTypeOK
    <3>3. slots'[a].count = IF slots[a].count = 0 THEN 0 ELSE slots[a].count - 1
      BY <1>4, <2>3, <3>2, ReleasedCount
    <3>4. QED
      BY <1>10, <2>1, <2>3, <3>1, <3>3 DEF Counted
  <2>4. CASE a = auth /\ InFlight(a) = {}
    <3>1. Cardinality(InFlight(a)) = 0
      BY <2>4, FS_EmptySet
    <3>2. QED
      BY <1>10, <2>1, <2>4, <3>1 DEF Counted
  <2>5. QED
    BY <1>9, <2>2, <2>3, <2>4
<1>14. QED
  BY <1>5, <1>6, <1>12, <1>13 DEF CoverInv

-----------------------------------------------------------------------------
(* The theorems on the limits.                                             *)

\* At first nobody holds anything.
LEMMA InitCover == Init => CoverInv
<1> SUFFICES ASSUME Init PROVE CoverInv
  OBVIOUS
<1>1. Typed
  BY InitTyped
<1>2. \A r \in Requests : req[r].pc = "idle"
  BY DEF Init, Idle
<1>3. \A a \in Auths : InFlight(a) = {}
  BY <1>2 DEF InFlight, Holding
<1>4. \A a \in Auths : Counted(a)
  <2> SUFFICES ASSUME NEW a \in Auths PROVE Cardinality(InFlight(a)) <= slots[a].count
    BY DEF Counted
  <2>1. Cardinality(InFlight(a)) = 0 /\ slots[a].count \in Nat
    BY <1>1, <1>3, Numbers, FS_EmptySet
  <2>2. QED
    BY <2>1
<1>5. InTime /\ HoldersBound /\ \A r \in Requests : SlotLasts(r)
  BY <1>2 DEF InTime, HoldersBound, SlotLasts, Picking, Holding
<1>6. QED
  BY <1>1, <1>4, <1>5 DEF CoverInv

\* Every step of MeteredSpec keeps the invariant.
LEMMA MeteredStepCovered ==
  ASSUME Timely, UniformTiers, CoverInv, [MeteredNext]_vars
  PROVE  CoverInv'
<1>1. Typed'
  <2>1. MeteredNext => Next
    BY DEF MeteredNext, Next
  <2>2. QED
    BY <2>1, NextTyped DEF CoverInv
<1>2. CASE \E r \in Requests : Traffic(r)
  BY <1>1, <1>2, QuietStepsCovered, ReserveKeepsCover, ReleaseKeepsCover DEF Traffic, Handle
<1>3. CASE ~(\E r \in Requests : Traffic(r))
  BY <1>1, <1>3, BackgroundCovered DEF MeteredNext
<1>4. QED
  BY <1>2, <1>3

\* A request that has reserved an account is on that account's slot, and the
\* slot is live, until the request's completion releases it: no expiry, sweep
\* or completion of another request, of this pool or another, takes it away.
\* It is what selectAndReserve relies on when it trusts the counter.
THEOREM RequestsAreCovered ==
  ASSUME Timely, UniformTiers
  PROVE  MeteredSpec => []LedgerCovers
<1>1. Init => CoverInv
  BY InitCover
<1>2. CoverInv /\ [MeteredNext]_vars => CoverInv'
  BY MeteredStepCovered
<1>3. CoverInv => LedgerCovers
  BY CoverInvCovers
<1>4. QED
  BY <1>1, <1>2, <1>3, PTL DEF MeteredSpec

\* What an admission sees of the account it chooses.
LEMMA AdmissionWithinLimit ==
  ASSUME Timely, CoverInv, NEW r \in Requests, SelectReserve(r),
         NEW a \in Auths, req'[r].auth = a, TiersOf(r)[a] # NoTier, LimitOf(TiersOf(r)[a]) # 0
  PROVE  Cardinality(InFlight(a)') <= LimitOf(TiersOf(r)[a])
<1> DEFINE t     == req[r].started
           limit == LimitOf(TiersOf(r)[a])
<1>1. /\ req[r].pc = "select" /\ req[r].pool \in Pools
      /\ \A s \in Requests \ {r} : req'[s] = req[s]
      /\ ~AtLimit(a, TiersOf(r)[a], t)
  BY ReserveEffect
<1>2. t \in Nat /\ t <= now
  BY <1>1, Numbers DEF CoverInv, InTime, Picking
<1>3. limit \in Nat \ {0}
  BY <1>1, SlotsAssumption, ConstantsAssumption
  DEF LimitOf, TiersOf, CoverInv, Typed, TypeOK, SlotsTypeOK
<1>4. ~(Load(slots[a], t) >= limit)
  BY <1>1, <1>3 DEF AtLimit
<1>5. Cardinality(InFlight(a)) < limit
  <2>1. Cardinality(InFlight(a)) <= slots[a].count /\ slots[a].count \in Nat
    BY Numbers DEF CoverInv, Counted
  <2>2. Cardinality(InFlight(a)) \in Nat
    BY InFlightSets, RequestSets
  <2>3. CASE Live(slots[a], t)
    BY <1>3, <1>4, <2>1, <2>2, <2>3 DEF Load
  <2>4. CASE ~Live(slots[a], t)
    <3>1. Cardinality(InFlight(a)) = 0
      BY <1>2, <2>4, SweptKeepsHolders, FS_EmptySet
    <3>2. QED
      BY <1>3, <3>1
  <2>5. QED
    BY <2>3, <2>4
<1>6. Cardinality(InFlight(a)') <= Cardinality(InFlight(a)) + 1
  <2>1. InFlight(a)' \subseteq InFlight(a) \cup {r}
    BY <1>1 DEF InFlight, Metered
  <2>2. r \notin InFlight(a)
    BY <1>1 DEF InFlight, Holding
  <2>3. Cardinality(InFlight(a) \cup {r}) = Cardinality(InFlight(a)) + 1
    BY <2>2, InFlightSets, RequestSets
  <2>4. Cardinality(InFlight(a)') <= Cardinality(InFlight(a) \cup {r})
    BY <2>1, InFlightSets, RequestSets
  <2>5. QED
    BY <2>3, <2>4
<1>7. Cardinality(InFlight(a)) \in Nat /\ Cardinality(InFlight(a)') \in Nat
  BY InFlightSets, RequestSets
<1> HIDE DEF limit
<1>8. QED
  BY <1>3, <1>5, <1>6, <1>7 DEF limit

\* Only a reservation takes a request from select to selected.
LEMMA OnlyReserveSelects ==
  ASSUME Typed, [MeteredNext]_vars, NEW r \in Requests,
         req[r].pc = "select", req'[r].pc = "selected"
  PROVE  SelectReserve(r)
<1>1. req \in [Requests -> Request]
  BY DEF Typed, TypeOK
<1>2. req' # req
  OBVIOUS
<1>3. PICK s \in Requests : Traffic(s)
  BY <1>2 DEF MeteredNext, vars, Tick, Configure, UpsertPool, DeletePool, UpsertBinding,
              DeleteBinding, UpdateLimits, ClearEvents, StatusSweep, requestVars
<1>4. \A u \in Requests \ {s} : req'[u] = req[u]
  BY <1>1, <1>3 DEF Traffic, Handle, PickRefused, PickBound, TakeOffset, SelectPoolFull,
       SelectGroupFull, NextGroup, SelectReserve, RememberSelection, Complete, Release, Abandon
<1>5. s = r
  BY <1>4
<1>6. CASE SelectPoolFull(r) \/ SelectGroupFull(r)
  BY <1>1, <1>6 DEF SelectPoolFull, SelectGroupFull, NextGroup, Request
<1>7. CASE ~(SelectPoolFull(r) \/ SelectGroupFull(r) \/ SelectReserve(r))
  BY <1>3, <1>5, <1>7 DEF Traffic, Handle, PickRefused, PickBound, TakeOffset,
       RememberSelection, Complete, Release, Abandon
<1>8. QED
  BY <1>6, <1>7

\* The concurrency limits hold: whenever a pick is admitted to an account, the
\* requests in flight on the account, this one and those of every other pool
\* included, are within the limit of its tier at that moment (selectAndReserve
\* against concurrent picks, completions, limit changes and slow handlers).
THEOREM LimitsHold ==
  ASSUME Timely, UniformTiers
  PROVE  MeteredSpec => AdmitsWithinLimit
<1> DEFINE Admitted ==
      \A r \in Requests, a \in Auths :
        LET tier == TiersOf(r)[a]
        IN  (req[r].pc = "select" /\ req'[r].pc = "selected" /\ req'[r].auth = a) =>
              \/ tier = NoTier
              \/ LimitOf(tier) = 0
              \/ Cardinality(InFlight(a)') <= LimitOf(tier)
<1>1. Init => CoverInv
  BY InitCover
<1>2. CoverInv /\ [MeteredNext]_vars => CoverInv'
  BY MeteredStepCovered
<1>3. CoverInv /\ [MeteredNext]_vars => Admitted
  BY OnlyReserveSelects, AdmissionWithinLimit DEF CoverInv
<1>4. QED
  BY <1>1, <1>2, <1>3, PTL DEF MeteredSpec, AdmitsWithinLimit
=============================================================================
