--------------------------- MODULE AuthPoolProofs ---------------------------
(***************************************************************************)
(* Theorems about AuthPool, for every value of its constants.              *)
(***************************************************************************)
EXTENDS AuthPool, FiniteSetTheorems, SequenceTheorems, WellFoundedInduction, TLAPS

-----------------------------------------------------------------------------
(* Type correctness                                                        *)

\* A pick in progress has a key, a pool and a group to work on, and a request
\* that has left the loop over the groups has an account.
WellFormed ==
  \A r \in Requests :
    /\ req[r].pc \in Picking =>
         /\ req[r].key \in Keys
         /\ req[r].pool \in Pools
         /\ req[r].at \in 1..Len(req[r].groups)
         /\ \A i \in 1..Len(req[r].groups) : req[r].groups[i].order # <<>>
    /\ req[r].pc \in Holding => req[r].auth \in Auths

\* The type invariant, made inductive.
Typed == TypeOK /\ WellFormed

\* The part of it about requests.
ReqTyped == req \in [Requests -> Request] /\ WellFormed

\* Every nonempty set of natural numbers has a least element.
LEMMA LeastNat ==
  ASSUME NEW S \in SUBSET Nat, S # {}
  PROVE  \E n \in S : \A m \in S : n <= m
<1> DEFINE R == {ss \in Nat \X Nat : ss[1] < ss[2]}
<1>1. IsWellFoundedOn(R, Nat)
  BY NatLessThanWellFounded DEF OpToRel
<1> HIDE DEF R
<1>2. PICK n \in S : \A m \in S : ~(<<m, n>> \in R)
  BY <1>1, WFMin
<1>3. \A m \in S : <<m, n>> \in R <=> m < n
  BY DEF R
<1>4. \A m \in S : ~(m < n)
  BY <1>2, <1>3
<1>5. QED
  BY <1>4

\* The head of a nonempty list of selections is one of them.
LEMMA OldestIsEntry ==
  ASSUME NEW E, E # {}, \A e \in E : e.id \in Nat
  PROVE  /\ Oldest(E) \in E
         /\ \A f \in E : Oldest(E).id <= f.id
<1>1. PICK n \in {e.id : e \in E} : \A m \in {e.id : e \in E} : n <= m
  BY LeastNat
<1>2. \E e \in E : \A f \in E : e.id <= f.id
  BY <1>1
<1>3. QED
  BY <1>2 DEF Oldest

\* A request that has not begun is a request.
LEMMA IdleTyped == Idle \in Request
<1>1. (CHOOSE m \in Models : TRUE) \in Models
  BY ConstantsAssumption
<1>2. <<>> \in Seq(Group)
  BY EmptySeq
<1>3. QED
  BY <1>1, <1>2 DEF Idle, Request, PCs, NoConfig, PoolConfig, Strategies, Usage, Unattributed

\* The plugin starts well typed.
LEMMA InitTyped == Init => Typed
<1> SUFFICES ASSUME Init PROVE Typed
  OBVIOUS
<1>1. SlotsTypeOK
  BY SlotsAssumption, ConstantsAssumption DEF Init, SlotsInit, SlotsTypeOK, NoSlot, Slot
<1>2. PendingTypeOK(Auths, Pools)
  BY DEF Init, PendingInit, PendingTypeOK
<1>3. CursorsTypeOK(CursorKeys)
  BY DEF Init, CursorsInit, CursorsTypeOK
<1>4. req \in [Requests -> Request] /\ WellFormed
  BY IdleTyped DEF Init, Idle, WellFormed, Picking, Holding
<1>5. QED
  BY <1>1, <1>2, <1>3, <1>4, ConstantsAssumption DEF Init, Typed, TypeOK

-----------------------------------------------------------------------------
(* The ledger stays typed under each of its operations.                    *)

\* Reserving and releasing a slot gives a slot again, and never counts below zero.
LEMMA SlotHelpersTyped ==
  ASSUME NEW s \in Slot, NEW t \in Nat
  PROVE  /\ NoSlot \in Slot
         /\ Reserved(s, t) \in Slot
         /\ Released(s) \in Slot
<1>1. s.count \in Nat /\ s.expires \in Nat
  BY DEF Slot
<1>2. NoSlot \in Slot /\ Reserved(s, t) \in Slot
  BY <1>1, SlotsAssumption DEF Slot, NoSlot, Reserved
<1>3. Released(s) \in Slot
  <2>1. CASE s.count <= 1
    BY <2>1, <1>2 DEF Released
  <2>2. CASE ~(s.count <= 1)
    BY <2>2, <1>1 DEF Released, Slot
  <2>3. QED
    BY <2>1, <2>2
<1>4. QED
  BY <1>2, <1>3

\* A reservation leaves every slot well typed, the swept ones included.
LEMMA ReserveTyped ==
  ASSUME SlotsTypeOK, NEW order \in Seq(Auths), NEW i \in DOMAIN order, NEW tiers,
         NEW p \in Pools, NEW max, NEW strategy, NEW offset, NEW t \in Nat,
         Reserve(i, order, tiers, p, max, strategy, offset, t)
  PROVE  SlotsTypeOK'
<1> DEFINE visited == Visited(i, order, strategy, offset)
           swept   == Swept(visited, tiers, t)
<1>1. swept \in [Auths -> Slot]
  BY SlotHelpersTyped DEF Swept, SlotsTypeOK
<1>2. order[i] \in Auths
  BY ElementOfSeq, LenProperties
<1>3. Reserved(swept[order[i]], t) \in Slot
  BY <1>1, <1>2, SlotHelpersTyped
<1>4. slots' = swept \/ slots' = [swept EXCEPT ![order[i]] = Reserved(swept[order[i]], t)]
  BY <1>1, <1>2 DEF Reserve
<1> HIDE DEF swept
<1>5. slots' \in [Auths -> Slot]
  BY <1>1, <1>2, <1>3, <1>4
<1>6. SweptPool(p, t) \in Slot
  BY SlotHelpersTyped DEF SweptPool, SlotsTypeOK
<1>7. Reserved(SweptPool(p, t), t) \in Slot
  BY <1>6, SlotHelpersTyped
<1>8. poolSlots' \in [Pools -> Slot]
  BY <1>7 DEF Reserve, SlotsTypeOK
<1>9. QED
  BY <1>5, <1>8 DEF Reserve, SlotsTypeOK

\* So does a release, whether or not a pool is named.
LEMMA ReleaseTyped ==
  ASSUME SlotsTypeOK, NEW a \in Auths, NEW p, ReleaseSlot(a, p)
  PROVE  SlotsTypeOK'
<1>1. \A b \in Auths : Released(slots[b]) \in Slot
  BY SlotHelpersTyped, SlotsAssumption DEF SlotsTypeOK
<1>2. \A q \in Pools : Released(poolSlots[q]) \in Slot
  BY SlotHelpersTyped, SlotsAssumption DEF SlotsTypeOK
<1>3. QED
  BY <1>1, <1>2 DEF ReleaseSlot, SlotsTypeOK

\* So does every management operation on the ledger.
LEMMA ResetsTyped ==
  ASSUME SlotsTypeOK,
         \/ \E t \in Nat : SweepExpired(t)
         \/ \E a \in Auths : ResetSlot(a)
         \/ ResetAllSlots
         \/ \E p \in Pools : DropPoolSlot(p)
         \/ \E next \in [Tiers -> Nat] : SetLimits(next)
  PROVE  SlotsTypeOK'
<1>1. NoSlot \in Slot
  BY DEF NoSlot, Slot
<1>2. \A p \in Pools, t \in Nat : SweptPool(p, t) \in Slot
  BY <1>1 DEF SweptPool, SlotsTypeOK
<1>3. CASE \E t \in Nat : SweepExpired(t)
  BY <1>1, <1>2, <1>3 DEF SweepExpired, SlotsTypeOK
<1>4. CASE \E a \in Auths : ResetSlot(a)
  BY <1>1, <1>4 DEF ResetSlot, SlotsTypeOK
<1>5. CASE ResetAllSlots
  BY <1>1, <1>5 DEF ResetAllSlots, SlotsTypeOK
<1>6. CASE \E p \in Pools : DropPoolSlot(p)
  BY <1>1, <1>6 DEF DropPoolSlot, SlotsTypeOK
<1>7. CASE \E next \in [Tiers -> Nat] : SetLimits(next)
  BY <1>7 DEF SetLimits, SlotsTypeOK
<1>8. QED
  BY <1>3, <1>4, <1>5, <1>6, <1>7

\* And so does a pick that finds the pool or the group full.
LEMMA BounceTyped ==
  ASSUME SlotsTypeOK, NEW order, NEW tiers, NEW p \in Pools, NEW max, NEW t \in Nat,
         BouncePoolFull(p, max, t) \/ BounceGroupFull(order, tiers, p, max, t)
  PROVE  SlotsTypeOK'
<1>1. SweptPool(p, t) \in Slot
  BY SlotHelpersTyped DEF SweptPool, SlotsTypeOK
<1>2. QED
  BY <1>1 DEF BouncePoolFull, BounceGroupFull, SlotsTypeOK, slotVars

\* A step that leaves the ledger alone leaves it well typed.
LEMMA SlotsUnchangedTyped == SlotsTypeOK /\ UNCHANGED slotVars => SlotsTypeOK'
BY DEF SlotsTypeOK, slotVars

-----------------------------------------------------------------------------
(* The pending list and the cursors stay typed.                            *)

\* The owner that attribution finds is an entry of the pending list.
LEMMA MatchingTyped ==
  ASSUME PendingTypeOK(Auths, Pools), NEW a, NEW m, NEW t, OneOwner(Matching(a, m, t))
  PROVE  /\ Oldest(Matching(a, m, t)) \in pending
         /\ AttributedID(Matching(a, m, t)) \in Nat
<1>1. Matching(a, m, t) \subseteq pending
  BY DEF Matching, Unexpired
<1>2. \A e \in Matching(a, m, t) : e.id \in Nat
  BY <1>1 DEF PendingTypeOK, Selection
<1>3. Matching(a, m, t) # {}
  BY DEF OneOwner
<1>4. Oldest(Matching(a, m, t)) \in Matching(a, m, t)
  BY <1>2, <1>3, OldestIsEntry
<1>5. QED
  BY <1>1, <1>2, <1>4 DEF AttributedID

\* The list stays a list of selections of real accounts and pools.
LEMMA PendingOpsTyped ==
  ASSUME PendingTypeOK(Auths, Pools),
         \/ \E k \in Keys, p \in Pools, a \in Auths, m \in Models, t \in Nat : Remember(k, p, a, m, t)
         \/ \E a, m, t : TakeOwner(a, m, t)
         \/ ForgetAll
         \/ UNCHANGED pendingVars
  PROVE  PendingTypeOK(Auths, Pools)'
<1>1. \A t : Unexpired(t) \subseteq pending
  BY DEF Unexpired
<1>2. CASE \E k \in Keys, p \in Pools, a \in Auths, m \in Models, t \in Nat : Remember(k, p, a, m, t)
  <2>1. PICK k \in Keys, p \in Pools, a \in Auths, m \in Models, t \in Nat : Remember(k, p, a, m, t)
    BY <1>2
  <2> DEFINE new == [id |-> nextAttributionID + 1, at |-> t, key |-> k,
                     pool |-> p, auth |-> a, model |-> m]
  <2>2. new \in Selection(Auths, Pools)
    BY DEF Selection, PendingTypeOK
  <2>3. pending' \subseteq Unexpired(t) \cup {new}
    BY <2>1 DEF Remember
  <2>4. nextAttributionID' \in Nat
    BY <2>1 DEF Remember, PendingTypeOK
  <2>5. QED
    BY <1>1, <2>2, <2>3, <2>4 DEF PendingTypeOK
<1>3. CASE \E a, m, t : TakeOwner(a, m, t)
  BY <1>1, <1>3 DEF TakeOwner, PendingTypeOK
<1>4. CASE ForgetAll
  BY <1>4 DEF ForgetAll, PendingTypeOK
<1>5. CASE UNCHANGED pendingVars
  BY <1>5 DEF PendingTypeOK, pendingVars
<1>6. QED
  BY <1>2, <1>3, <1>4, <1>5

\* A cursor stays within 1..CursorWrap, whether it wraps or its table is emptied.
LEMMA AdvanceCursorTyped ==
  ASSUME NEW keys, CursorsTypeOK(keys), NEW key \in keys, NEW size \in Nat, AdvanceCursor(key, size)
  PROVE  CursorsTypeOK(keys)'
<1>1. CASE size <= 1
  BY <1>1 DEF AdvanceCursor, CursorsTypeOK
<1>2. CASE ~(size <= 1)
  <2> DEFINE kept == IF Overflows(key) THEN {} ELSE DOMAIN cursors
  <2>1. cursors' = [k \in kept \cup {key} |-> IF k = key THEN CursorOf(key) + 1 ELSE cursors[k]]
    BY <1>2 DEF AdvanceCursor
  <2>2. CursorOf(key) + 1 \in 1..CursorWrap
    BY CursorsAssumption DEF CursorOf, CursorsTypeOK
  <2>3. \A k \in kept : cursors[k] \in 1..CursorWrap
    BY DEF CursorsTypeOK
  <2>4. kept \subseteq keys
    BY DEF CursorsTypeOK
  <2> HIDE DEF kept
  <2>5. QED
    BY <2>1, <2>2, <2>3, <2>4 DEF CursorsTypeOK
<1>3. QED
  BY <1>1, <1>2

-----------------------------------------------------------------------------
(* Every action keeps the types.                                           *)

\* One request changes to a record that is a request again.
LEMMA StepOfOne ==
  ASSUME ReqTyped, NEW r \in Requests, NEW next \in Request,
         req' = [req EXCEPT ![r] = next],
         next.pc \in Picking =>
           /\ next.key \in Keys
           /\ next.pool \in Pools
           /\ next.at \in 1..Len(next.groups)
           /\ \A i \in 1..Len(next.groups) : next.groups[i].order # <<>>,
         next.pc \in Holding => next.auth \in Auths
  PROVE  ReqTyped'
BY DEF ReqTyped, WellFormed

\* The group a pick works on is a nonempty sequence of accounts.
LEMMA GroupTyped ==
  ASSUME ReqTyped, NEW r \in Requests, req[r].pc \in Picking
  PROVE  /\ GroupOf(r) \in Group
         /\ GroupOf(r).order \in Seq(Auths)
         /\ Len(GroupOf(r).order) \in Nat \ {0}
<1>1. req[r].groups \in Seq(Group) /\ req[r].at \in 1..Len(req[r].groups)
  BY DEF ReqTyped, WellFormed, Request
<1>2. GroupOf(r) \in Group
  BY <1>1, ElementOfSeq DEF GroupOf
<1>3. GroupOf(r).order \in Seq(Auths)
  BY <1>2 DEF Group
<1>4. GroupOf(r).order # <<>>
  BY DEF ReqTyped, WellFormed, GroupOf
<1>5. QED
  BY <1>2, <1>3, <1>4, EmptySeq

\* The start of a pick, in each of its outcomes.
LEMMA PickTyped ==
  ASSUME Typed, NEW r \in Requests, PickUnbound(r) \/ PickRefused(r) \/ PickBound(r)
  PROVE  Typed'
<1>1. ReqTyped /\ req[r] \in Request
  BY DEF Typed, TypeOK, ReqTyped
<1>2. ReqTyped'
  <2>1. CASE PickUnbound(r)
    <3>1. PICK k \in Keys, m \in Models, a \in Auths :
            req' = [req EXCEPT ![r] = [Idle EXCEPT
              !.pc = "inflight", !.key = k, !.model = m, !.started = now, !.auth = a]]
      BY <2>1 DEF PickUnbound
    <3>2. [Idle EXCEPT !.pc = "inflight", !.key = k, !.model = m, !.started = now, !.auth = a]
            \in Request
      BY IdleTyped DEF Request, PCs, Typed, TypeOK
    <3>3. QED
      BY <1>1, <3>1, <3>2, IdleTyped, StepOfOne DEF Request, Picking
  <2>2. CASE PickRefused(r)
    <3>1. PICK k \in Keys : req' = [req EXCEPT ![r] = [req[r] EXCEPT !.pc = "blocked", !.key = k]]
      BY <2>2, <1>1 DEF PickRefused, Request, ReqTyped
    <3>2. [req[r] EXCEPT !.pc = "blocked", !.key = k] \in Request
      BY <1>1 DEF Request, PCs
    <3>3. QED
      BY <1>1, <3>1, <3>2, StepOfOne DEF Request, Picking, Holding
  <2>3. CASE PickBound(r)
    <3>1. PICK k \in Keys, m \in Models, t \in 0..now :
            /\ Started(t)
            /\ bindings[k] \in DOMAIN pools
            /\ \E offer \in Offers[bindings[k]] \ {<<>>} :
                 req' = [req EXCEPT ![r] = [Idle EXCEPT
                   !.pc = "offset", !.key = k, !.model = m, !.started = t, !.pool = bindings[k],
                   !.config = pools[bindings[k]], !.groups = offer]]
      BY <2>3, Zenon DEF PickBound
    <3>2. bindings[k] \in Pools /\ pools[bindings[k]] \in PoolConfig
      BY <3>1 DEF Typed, TypeOK
    <3>3. PICK offer \in Offers[bindings[k]] \ {<<>>} :
            req' = [req EXCEPT ![r] = [Idle EXCEPT
              !.pc = "offset", !.key = k, !.model = m, !.started = t, !.pool = bindings[k],
              !.config = pools[bindings[k]], !.groups = offer]]
      BY <3>1
    <3> DEFINE next == [Idle EXCEPT
              !.pc = "offset", !.key = k, !.model = m, !.started = t, !.pool = bindings[k],
              !.config = pools[bindings[k]], !.groups = offer]
    <3>4. offer \in Seq(Group) /\ offer # <<>>
      BY <3>2, ConstantsAssumption
    <3>5. \A i \in DOMAIN offer : offer[i].order # <<>>
      BY <3>2, ConstantsAssumption
    <3>6. next \in Request
      <4>1. t \in Nat
        BY DEF Typed, TypeOK
      <4>2. "offset" \in PCs
        BY DEF PCs, Picking
      <4>3. QED
        BY <3>2, <3>4, <4>1, <4>2, IdleTyped DEF Request
    <3>7. next.key \in Keys /\ next.pool \in Pools /\ next.groups = offer /\ next.at = 1 /\ next.pc = "offset"
      BY <3>2, IdleTyped DEF Request, Idle
    <3>8. 1 \in 1..Len(offer) /\ DOMAIN offer = 1..Len(offer)
      BY <3>4, EmptySeq, LenProperties
    <3> HIDE DEF next
    <3>9. QED
      BY <1>1, <3>3, <3>5, <3>6, <3>7, <3>8, StepOfOne DEF next, Picking, Holding
  <2>4. QED
    BY <2>1, <2>2, <2>3
<1>3. UNCHANGED <<now, slotVars, pendingVars, cursors, confVars>>
  BY DEF PickUnbound, PickRefused, PickBound
<1>4. SlotsTypeOK' /\ PendingTypeOK(Auths, Pools)' /\ CursorsTypeOK(CursorKeys)'
  BY <1>3, SlotsUnchangedTyped, PendingOpsTyped DEF Typed, TypeOK, CursorsTypeOK
<1>5. QED
  BY <1>2, <1>3, <1>4 DEF Typed, TypeOK, ReqTyped, confVars

\* Taking the offset of a group.
LEMMA OffsetTyped ==
  ASSUME Typed, NEW r \in Requests, TakeOffset(r)
  PROVE  Typed'
<1> DEFINE size == Len(GroupOf(r).order)
           rr   == req[r].config.strategy = "round-robin"
           off  == IF rr THEN NextOffset(CursorKey(r), size) ELSE 0
           next == [req[r] EXCEPT !.pc = "select", !.offset = off]
<1>1. ReqTyped /\ req[r] \in Request /\ req[r].pc = "offset"
  BY DEF Typed, TypeOK, ReqTyped, TakeOffset
<1>2. req[r].pool \in Pools /\ GroupOf(r) \in Group /\ size \in Nat \ {0}
  BY <1>1, GroupTyped DEF ReqTyped, WellFormed, Picking
<1>3. CursorKey(r) \in CursorKeys
  BY <1>1, <1>2 DEF CursorKey, CursorKeys, Request, Group
<1>4. CursorOf(CursorKey(r)) \in Nat
  BY DEF Typed, TypeOK, CursorsTypeOK, CursorOf
<1>5. off \in Nat
  BY <1>2, <1>4 DEF NextOffset
<1>6. next \in Request
  BY <1>1, <1>5 DEF Request, PCs, Picking
<1>7. req' = [req EXCEPT ![r] = next]
  BY <1>1 DEF TakeOffset, ReqTyped
<1>8. /\ next.key = req[r].key /\ next.pool = req[r].pool
      /\ next.at = req[r].at
      /\ next.groups = req[r].groups
      /\ next.pc = "select"
  BY <1>1 DEF Request
<1> HIDE DEF next
<1>9. ReqTyped'
  BY <1>1, <1>6, <1>7, <1>8, StepOfOne DEF ReqTyped, WellFormed, Picking, Holding
<1>10. CursorsTypeOK(CursorKeys)'
  <2>1. CASE AdvanceCursor(CursorKey(r), size)
    BY <1>2, <1>3, <2>1, AdvanceCursorTyped DEF Typed, TypeOK
  <2>2. CASE UNCHANGED cursors
    BY <2>2 DEF Typed, TypeOK, CursorsTypeOK
  <2>3. QED
    BY <2>1, <2>2 DEF TakeOffset
<1>11. UNCHANGED <<now, slotVars, pendingVars, confVars>>
  BY DEF TakeOffset
<1>12. QED
  BY <1>9, <1>10, <1>11, SlotsUnchangedTyped, PendingOpsTyped DEF Typed, TypeOK, ReqTyped, confVars

\* Moving on to the next group, or out of the loop.
LEMMA NextGroupTyped ==
  ASSUME ReqTyped, NEW r \in Requests, req[r].pc = "select",
         NEW hadRoom \in BOOLEAN, NextGroup(r, hadRoom)
  PROVE  ReqTyped'
<1> DEFINE more == req[r].at < Len(req[r].groups)
           next == [req[r] EXCEPT !.pc = IF more THEN "offset" ELSE "busy",
                                  !.at = IF more THEN req[r].at + 1 ELSE req[r].at,
                                  !.passedOver = req[r].passedOver \/ hadRoom]
<1>1. req[r] \in Request
  BY DEF ReqTyped
<1>2. req' = [req EXCEPT ![r] = next]
  BY <1>1 DEF NextGroup, ReqTyped, Request
<1>3. next \in Request
  <2>1. (req[r].passedOver \/ hadRoom) \in BOOLEAN
    BY Zenon
  <2>2. (IF more THEN "offset" ELSE "busy") \in PCs
    BY DEF PCs, Picking
  <2>3. (IF more THEN req[r].at + 1 ELSE req[r].at) \in Nat \ {0}
    BY <1>1 DEF Request
  <2>4. QED
    BY <1>1, <2>1, <2>2, <2>3 DEF Request
<1>4. req[r].key \in Keys /\ req[r].pool \in Pools /\ req[r].at \in 1..Len(req[r].groups)
      /\ \A i \in 1..Len(req[r].groups) : req[r].groups[i].order # <<>>
  BY DEF ReqTyped, WellFormed, Picking
<1>5. /\ next.key = req[r].key /\ next.pool = req[r].pool
      /\ next.groups = req[r].groups
      /\ next.pc \in {"offset", "busy"}
      /\ next.at = IF more THEN req[r].at + 1 ELSE req[r].at
  BY <1>1 DEF Request
<1>6. Len(req[r].groups) \in Nat
  BY <1>1, LenProperties DEF Request
<1>7. next.at \in 1..Len(next.groups)
  BY <1>4, <1>5, <1>6
<1> HIDE DEF next
<1>8. QED
  BY <1>2, <1>3, <1>4, <1>5, <1>7, StepOfOne DEF Holding, Picking

\* The call of selectAndReserve, in each of its outcomes.
LEMMA SelectTyped ==
  ASSUME Typed, NEW r \in Requests,
         SelectPoolFull(r) \/ SelectGroupFull(r) \/ SelectReserve(r)
  PROVE  Typed'
<1>1. ReqTyped /\ req[r] \in Request /\ req[r].pc = "select"
  BY DEF Typed, TypeOK, ReqTyped, SelectPoolFull, SelectGroupFull, SelectReserve
<1>2. req[r].pool \in Pools /\ req[r].started \in Nat /\ GroupOf(r).order \in Seq(Auths)
  BY <1>1, GroupTyped DEF ReqTyped, WellFormed, Picking, Request
<1>3. SlotsTypeOK
  BY DEF Typed, TypeOK
<1>4. SlotsTypeOK' /\ ReqTyped'
  <2>1. CASE SelectPoolFull(r)
    <3>1. SlotsTypeOK'
      BY <1>2, <1>3, <2>1, BounceTyped DEF SelectPoolFull
    <3>2. PICK b \in BOOLEAN : NextGroup(r, b)
      BY <2>1, Zenon DEF SelectPoolFull
    <3>3. ReqTyped'
      BY <1>1, <3>2, NextGroupTyped
    <3>4. QED
      BY <3>1, <3>3
  <2>2. CASE SelectGroupFull(r)
    <3>1. SlotsTypeOK'
      BY <1>2, <1>3, <2>2, BounceTyped DEF SelectGroupFull
    <3>2. PICK b \in BOOLEAN : NextGroup(r, b)
      BY <2>2, Zenon DEF SelectGroupFull
    <3>3. ReqTyped'
      BY <1>1, <3>2, NextGroupTyped
    <3>4. QED
      BY <3>1, <3>3
  <2>3. CASE SelectReserve(r)
    <3>1. PICK i \in DOMAIN GroupOf(r).order :
            /\ Reserve(i, GroupOf(r).order, TiersOf(r), req[r].pool, req[r].config.max,
                       req[r].config.strategy, req[r].offset, req[r].started)
            /\ req' = [req EXCEPT ![r].pc = "selected", ![r].auth = GroupOf(r).order[i]]
      BY <2>3 DEF SelectReserve
    <3>2. SlotsTypeOK'
      BY <1>2, <1>3, <3>1, ReserveTyped
    <3> DEFINE next == [req[r] EXCEPT !.pc = "selected", !.auth = GroupOf(r).order[i]]
    <3>3. GroupOf(r).order[i] \in Auths
      BY <1>2, ElementOfSeq, LenProperties
    <3>4. next \in Request
      BY <1>1, <3>3 DEF Request, PCs, Picking
    <3>5. req' = [req EXCEPT ![r] = next]
      BY <1>1, <3>1 DEF ReqTyped
    <3>6. /\ next.key = req[r].key /\ next.pool = req[r].pool
          /\ next.at = req[r].at
          /\ next.groups = req[r].groups
          /\ next.pc = "selected"
          /\ next.auth \in Auths
      BY <1>1, <3>3 DEF Request
    <3> HIDE DEF next
    <3>7. ReqTyped'
      BY <1>1, <3>4, <3>5, <3>6, StepOfOne DEF ReqTyped, WellFormed, Picking
    <3>8. QED
      BY <3>2, <3>7
  <2>4. QED
    BY <2>1, <2>2, <2>3
<1>5. UNCHANGED <<now, pendingVars, cursors, confVars>>
  BY DEF SelectPoolFull, SelectGroupFull, SelectReserve
<1>6. QED
  BY <1>4, <1>5, PendingOpsTyped DEF Typed, TypeOK, ReqTyped, confVars, CursorsTypeOK

\* From the reservation to the end of the request.
LEMMA EndTyped ==
  ASSUME Typed, NEW r \in Requests,
         RememberSelection(r) \/ Complete(r) \/ Release(r) \/ Abandon(r)
  PROVE  Typed'
<1>1. ReqTyped /\ req[r] \in Request /\ req[r].pc \in Holding
  BY DEF Typed, TypeOK, ReqTyped, RememberSelection, Complete, Release, Abandon, Holding
<1>2. req[r].auth \in Auths
  BY <1>1 DEF ReqTyped, WellFormed
<1>3. PendingTypeOK(Auths, Pools) /\ nextAttributionID \in Nat
  BY DEF Typed, TypeOK, PendingTypeOK
<1>4. CASE RememberSelection(r)
  <2> DEFINE next == [req[r] EXCEPT !.pc = "inflight", !.id = nextAttributionID + 1]
  <2>1. req[r].key \in Keys /\ req[r].pool \in Pools /\ req[r].model \in Models /\ now \in Nat
    BY <1>1, <1>4 DEF ReqTyped, WellFormed, Picking, RememberSelection, Request, Typed, TypeOK
  <2>2. PendingTypeOK(Auths, Pools)'
    <3>1. PICK t \in req[r].started..now :
            Remember(req[r].key, req[r].pool, req[r].auth, req[r].model, t)
      BY <1>4 DEF RememberSelection
    <3>2. req[r].started \in Nat /\ t \in Nat
      BY <1>1, <2>1, <3>1 DEF Request
    <3>3. QED
      BY <1>2, <1>3, <2>1, <3>1, <3>2, PendingOpsTyped
  <2>3. next \in Request
    <3>1. nextAttributionID + 1 \in Nat /\ "inflight" \in PCs
      BY <1>3 DEF PCs
    <3>2. QED
      BY <1>1, <3>1 DEF Request
  <2>4. req' = [req EXCEPT ![r] = next]
    BY <1>1, <1>4 DEF RememberSelection, ReqTyped
  <2>5. next.pc = "inflight" /\ next.auth = req[r].auth
    BY <1>1 DEF Request
  <2> HIDE DEF next
  <2>6. ReqTyped'
    BY <1>1, <1>2, <2>3, <2>4, <2>5, StepOfOne DEF Picking
  <2>7. UNCHANGED <<now, slotVars, cursors, confVars>>
    BY <1>4 DEF RememberSelection
  <2>8. QED
    BY <2>2, <2>6, <2>7, SlotsUnchangedTyped DEF Typed, TypeOK, ReqTyped, confVars, CursorsTypeOK
<1>5. CASE Complete(r)
  <2>1. PICK m \in ReportedAs[req[r].model], t \in req[r].started..now :
          LET matching == Matching(req[r].auth, m, t)
              owner    == Oldest(matching)
          IN  /\ TakeOwner(req[r].auth, m, t)
              /\ req' = [req EXCEPT ![r].pc = "usage", ![r].usage =
                   IF OneOwner(matching)
                   THEN [key |-> owner.key, pool |-> owner.pool, id |-> AttributedID(matching)]
                   ELSE Unattributed]
    BY <1>5 DEF Complete
  <2> DEFINE matching == Matching(req[r].auth, m, t)
             owner    == Oldest(matching)
             usage    == IF OneOwner(matching)
                         THEN [key |-> owner.key, pool |-> owner.pool, id |-> AttributedID(matching)]
                         ELSE Unattributed
             next     == [req[r] EXCEPT !.pc = "usage", !.usage = usage]
  <2>2. usage \in Usage
    <3>1. CASE OneOwner(matching)
      <4>1. owner \in pending /\ AttributedID(matching) \in Nat
        BY <1>3, <3>1, MatchingTyped
      <4>2. owner.key \in Keys /\ owner.pool \in Pools
        BY <4>1, <1>3 DEF PendingTypeOK, Selection
      <4>3. QED
        BY <3>1, <4>1, <4>2 DEF Usage
    <3>2. CASE ~OneOwner(matching)
      BY <3>2 DEF Usage, Unattributed
    <3>3. QED
      BY <3>1, <3>2
  <2>3. req' = [req EXCEPT ![r].pc = "usage", ![r].usage = usage]
    BY <2>1
  <2>4. PendingTypeOK(Auths, Pools)'
    BY <1>3, <2>1, PendingOpsTyped
  <2> HIDE DEF usage
  <2>5. next \in Request
    BY <1>1, <2>2 DEF Request, PCs
  <2>6. req' = [req EXCEPT ![r] = next]
    BY <1>1, <2>3 DEF ReqTyped
  <2>7. next.pc = "usage" /\ next.auth = req[r].auth
    BY <1>1 DEF Request
  <2> HIDE DEF next
  <2>8. ReqTyped'
    BY <1>1, <1>2, <2>5, <2>6, <2>7, StepOfOne DEF Picking
  <2>9. UNCHANGED <<now, slotVars, cursors, confVars>>
    BY <1>5 DEF Complete
  <2>10. QED
    BY <2>4, <2>8, <2>9, SlotsUnchangedTyped DEF Typed, TypeOK, ReqTyped, confVars, CursorsTypeOK
<1>6. CASE Release(r) \/ Abandon(r)
  <2> DEFINE next == [req[r] EXCEPT !.pc = IF Release(r) THEN "done" ELSE "lost"]
  <2>1. SlotsTypeOK'
    BY <1>2, <1>6, ReleaseTyped, SlotsUnchangedTyped DEF Release, Abandon, Typed, TypeOK
  <2>2. next \in Request
    BY <1>1 DEF Request, PCs
  <2>3. req' = [req EXCEPT ![r] = next]
    BY <1>1, <1>6 DEF Release, Abandon, ReqTyped
  <2>4. next.pc \in {"done", "lost"}
    BY <1>1 DEF Request
  <2> HIDE DEF next
  <2>5. ReqTyped'
    BY <1>1, <2>2, <2>3, <2>4, StepOfOne DEF Picking, Holding
  <2>6. UNCHANGED <<now, pendingVars, cursors, confVars>>
    BY <1>6 DEF Release, Abandon
  <2>7. QED
    BY <2>1, <2>5, <2>6, PendingOpsTyped DEF Typed, TypeOK, ReqTyped, confVars, CursorsTypeOK
<1>7. QED
  BY <1>4, <1>5, <1>6

\* The management handlers and the clock.
LEMMA ManagementTyped ==
  ASSUME Typed, \/ ClearEvents \/ DeleteConcurrencySlot \/ UpdateLimits \/ StatusSweep
                \/ Configure \/ Tick
  PROVE  Typed'
<1>1. now \in Nat /\ SlotsTypeOK /\ PendingTypeOK(Auths, Pools) /\ ReqTyped
  BY DEF Typed, TypeOK, ReqTyped
<1>2. SlotsTypeOK'
  <2>1. CASE DeleteConcurrencySlot
    BY <1>1, <2>1, ResetsTyped DEF DeleteConcurrencySlot
  <2>2. CASE UpdateLimits
    BY <1>1, <2>2, ResetsTyped, ConstantsAssumption DEF UpdateLimits
  <2>3. CASE StatusSweep
    BY <1>1, <2>3, ResetsTyped DEF StatusSweep
  <2>4. CASE DeletePool
    BY <1>1, <2>4, ResetsTyped DEF DeletePool
  <2>5. CASE ClearEvents \/ UpsertPool \/ UpsertBinding \/ DeleteBinding \/ Tick
    BY <1>1, <2>5, SlotsUnchangedTyped
    DEF ClearEvents, UpsertPool, UpsertBinding, DeleteBinding, Tick
  <2>6. QED
    BY <2>1, <2>2, <2>3, <2>4, <2>5 DEF Configure
<1>3. PendingTypeOK(Auths, Pools)'
  BY <1>1, PendingOpsTyped
  DEF ClearEvents, DeleteConcurrencySlot, UpdateLimits, StatusSweep, Tick,
      Configure, UpsertPool, DeletePool, UpsertBinding, DeleteBinding
<1>4. UNCHANGED <<cursors, req>> /\ now' \in Nat
  BY <1>1 DEF ClearEvents, DeleteConcurrencySlot, UpdateLimits, StatusSweep, Tick,
      Configure, UpsertPool, DeletePool, UpsertBinding, DeleteBinding, requestVars
<1>5. /\ DOMAIN pools' \subseteq Pools /\ pools' \in [DOMAIN pools' -> PoolConfig]
      /\ bindings' \in [Keys -> Pools \cup {NoPool}]
  <2>1. CASE UpsertPool
    BY <2>1, ConstantsAssumption DEF UpsertPool, Typed, TypeOK
  <2>2. CASE DeletePool
    BY <2>2 DEF DeletePool, Typed, TypeOK
  <2>3. CASE UpsertBinding
    BY <2>3 DEF UpsertBinding, Typed, TypeOK
  <2>4. CASE DeleteBinding
    BY <2>4 DEF DeleteBinding, Typed, TypeOK
  <2>5. CASE UNCHANGED confVars
    BY <2>5 DEF confVars, Typed, TypeOK
  <2>6. QED
    BY <2>1, <2>2, <2>3, <2>4, <2>5
    DEF ClearEvents, DeleteConcurrencySlot, UpdateLimits, StatusSweep, Tick, Configure
<1>6. QED
  BY <1>1, <1>2, <1>3, <1>4, <1>5 DEF Typed, TypeOK, ReqTyped, WellFormed, CursorsTypeOK

\* Every step keeps the plugin well typed.
LEMMA NextTyped == Typed /\ [Next]_vars => Typed'
<1> SUFFICES ASSUME Typed, [Next]_vars PROVE Typed'
  OBVIOUS
<1>1. CASE \E r \in Requests : Traffic(r) \/ PickUnbound(r)
  BY <1>1, PickTyped, OffsetTyped, SelectTyped, EndTyped DEF Traffic, Handle
<1>2. CASE Configure \/ UpdateLimits \/ DeleteConcurrencySlot \/ ClearEvents \/ StatusSweep \/ Tick
  BY <1>2, ManagementTyped
<1>3. CASE UNCHANGED vars
  BY <1>3 DEF vars, Typed, TypeOK, WellFormed, SlotsTypeOK, PendingTypeOK, CursorsTypeOK
<1>4. QED
  BY <1>1, <1>2, <1>3 DEF Next

\* Type correctness: whatever the host and the managers do, in whatever order
\* the handlers' critical sections run, every count, expiry, cursor and
\* pending selection stays a value of its type; a counter, in particular,
\* never goes below zero.
THEOREM TypeCorrect == Spec => []TypeOK
<1>1. Spec => []Typed
  BY InitTyped, NextTyped, PTL DEF Spec
<1>2. Typed => TypeOK
  BY DEF Typed
<1>3. QED
  BY <1>1, <1>2, PTL
=============================================================================
