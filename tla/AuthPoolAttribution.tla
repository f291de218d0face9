------------------------ MODULE AuthPoolAttribution ------------------------
(***************************************************************************)
(* What a completion is attributed to.  It names an account and a model;   *)
(* the key that made the request, the pool it went through and the id that *)
(* links it to its selection come from the list of pending selections.     *)
(*                                                                         *)
(* An id links one completion at most, whatever happens (LinksAreUnique).  *)
(* Owner and pool are right only while the list holds an entry for every   *)
(* request in flight; what that takes is said with the theorems.           *)
(***************************************************************************)
EXTENDS AuthPoolLedger

-----------------------------------------------------------------------------
(* What the steps of a request do.                                         *)

\* A step that leaves what a request is about, and what its completion learnt.
SameRequest(r) ==
  /\ req'[r].key = req[r].key /\ req'[r].pool = req[r].pool
  /\ req'[r].model = req[r].model /\ req'[r].started = req[r].started

\* A pick begins.
Begins(r) ==
  /\ req[r].pc = "idle" /\ req'[r].pc = "offset"
  /\ req'[r].usage = Unattributed
  /\ req'[r].pool = bindings[req'[r].key] /\ req'[r].pool \in Pools
  /\ req'[r].started <= now /\ now <= req'[r].started + PickBudget

\* A pick is refused.
Refuses(r) == req[r].pc = "idle" /\ req'[r].pc = "blocked" /\ req'[r].usage = req[r].usage

\* A pick goes on, a request is lost or a completion ends.
Continues(r) ==
  /\ SameRequest(r) /\ req'[r].usage = req[r].usage
  /\ \/ req[r].pc \in {"offset", "select"} /\ req'[r].pc \in {"offset", "select", "busy"}
     \/ req[r].pc = "select" /\ req'[r].pc = "selected" /\ SelectReserve(r)
     \/ req[r].pc = "inflight" /\ req'[r].pc = "lost" /\ req'[r].auth = req[r].auth
     \/ req[r].pc = "usage" /\ req'[r].pc = "done" /\ Release(r)

\* A step of the loop over the groups.
LEMMA GroupEffect ==
  ASSUME Typed, NEW r \in Requests, SelectPoolFull(r) \/ SelectGroupFull(r)
  PROVE  Continues(r)
<1>1. req \in [Requests -> Request]
  BY DEF Typed, TypeOK
<1>2. PICK b \in BOOLEAN : NextGroup(r, b)
  BY Zenon DEF SelectPoolFull, SelectGroupFull
<1> DEFINE more == req[r].at < Len(req[r].groups)
           next == [req[r] EXCEPT !.pc = IF more THEN "offset" ELSE "busy",
                                  !.at = IF more THEN req[r].at + 1 ELSE req[r].at,
                                  !.passedOver = req[r].passedOver \/ b]
<1>3. req' = [req EXCEPT ![r] = next]
  BY <1>1, <1>2 DEF NextGroup, Request
<1>4. /\ next.key = req[r].key /\ next.pool = req[r].pool /\ next.model = req[r].model
      /\ next.started = req[r].started /\ next.usage = req[r].usage
      /\ next.pc \in {"offset", "busy"}
  BY <1>1 DEF Request
<1> HIDE DEF next
<1>5. req'[r] = next
  BY <1>1, <1>3
<1>6. req[r].pc = "select"
  BY DEF SelectPoolFull, SelectGroupFull
<1>7. QED
  BY <1>4, <1>5, <1>6 DEF Continues, SameRequest

\* The first step of a pick.
LEMMA BeginEffect ==
  ASSUME Typed, NEW r \in Requests, PickBound(r)
  PROVE  Begins(r)
<1>1. req \in [Requests -> Request] /\ bindings \in [Keys -> Pools \cup {NoPool}]
      /\ DOMAIN pools \subseteq Pools
  BY DEF Typed, TypeOK
<1>2. PICK k \in Keys, m \in Models, t \in 0..now :
        /\ Started(t)
        /\ bindings[k] \in DOMAIN pools
        /\ \E offer \in Offers[bindings[k]] \ {<<>>} :
             req' = [req EXCEPT ![r] = [Idle EXCEPT
               !.pc = "offset", !.key = k, !.model = m, !.started = t, !.pool = bindings[k],
               !.config = pools[bindings[k]], !.groups = offer]]
  BY Zenon DEF PickBound
<1>3. PICK offer : req' = [req EXCEPT ![r] = [Idle EXCEPT
               !.pc = "offset", !.key = k, !.model = m, !.started = t, !.pool = bindings[k],
               !.config = pools[bindings[k]], !.groups = offer]]
  BY <1>2, Zenon
<1> DEFINE next == [Idle EXCEPT
               !.pc = "offset", !.key = k, !.model = m, !.started = t, !.pool = bindings[k],
               !.config = pools[bindings[k]], !.groups = offer]
<1>4. /\ next.pc = "offset" /\ next.key = k /\ next.started = t
      /\ next.pool = bindings[k] /\ next.usage = Unattributed
  BY DEF Idle
<1>5. req'[r] = next
  BY <1>1, <1>3, Zenon
<1> HIDE DEF next
<1>6. req[r].pc = "idle"
  BY DEF PickBound
<1>7. QED
  BY <1>1, <1>2, <1>4, <1>5, <1>6 DEF Begins, Started

\* Whatever a bound request does, it does to itself, and but for remembering
\* and completing it leaves the list alone.
LEMMA TrafficEffect ==
  ASSUME Typed, NEW r \in Requests, Traffic(r)
  PROVE  /\ UNCHANGED <<now, bindings>>
         /\ \A s \in Requests \ {r} : req'[s] = req[s]
         /\ \/ RememberSelection(r)
            \/ Complete(r)
            \/ UNCHANGED pendingVars /\ (Begins(r) \/ Refuses(r) \/ Continues(r))
<1>1. req \in [Requests -> Request]
  BY DEF Typed, TypeOK
<1>2. UNCHANGED <<now, bindings>>
  BY DEF Traffic, Handle, PickRefused, PickBound, TakeOffset, SelectPoolFull, SelectGroupFull,
         SelectReserve, RememberSelection, Complete, Release, Abandon, confVars
<1>3. \A s \in Requests \ {r} : req'[s] = req[s]
  BY <1>1 DEF Traffic, Handle, PickRefused, PickBound, TakeOffset, SelectPoolFull, SelectGroupFull,
         SelectReserve, RememberSelection, Complete, Release, Abandon, NextGroup
<1>4. CASE PickRefused(r)
  <2>1. PICK k : req' = [req EXCEPT ![r].pc = "blocked", ![r].key = k]
    BY <1>4 DEF PickRefused
  <2>2. Refuses(r) /\ UNCHANGED pendingVars
    BY <1>1, <1>4, <2>1 DEF PickRefused, Refuses, Request
  <2>3. QED
    BY <1>2, <1>3, <2>2
<1>5. CASE PickBound(r)
  BY <1>2, <1>3, <1>5, BeginEffect DEF PickBound
<1>6. CASE TakeOffset(r)
  <2>1. PICK o : req' = [req EXCEPT ![r].pc = "select", ![r].offset = o]
    BY <1>6 DEF TakeOffset
  <2>2. Continues(r) /\ UNCHANGED pendingVars
    BY <1>1, <1>6, <2>1 DEF TakeOffset, Continues, SameRequest, Request
  <2>3. QED
    BY <1>2, <1>3, <2>2
<1>7. CASE SelectPoolFull(r) \/ SelectGroupFull(r)
  BY <1>2, <1>3, <1>7, GroupEffect DEF SelectPoolFull, SelectGroupFull
<1>8. CASE SelectReserve(r)
  <2>1. PICK a : req' = [req EXCEPT ![r].pc = "selected", ![r].auth = a]
    BY <1>8 DEF SelectReserve
  <2>2. req[r].pc = "select" /\ UNCHANGED pendingVars
    BY <1>8 DEF SelectReserve
  <2>3. Continues(r)
    BY <1>1, <1>8, <2>1, <2>2 DEF Continues, SameRequest, Request
  <2>4. QED
    BY <1>2, <1>3, <2>2, <2>3
<1>9. CASE Release(r) \/ Abandon(r)
  <2>1. Continues(r) /\ UNCHANGED pendingVars
    BY <1>1, <1>9 DEF Release, Abandon, Continues, SameRequest, Request
  <2>2. QED
    BY <1>2, <1>3, <2>1
<1>10. QED
  BY <1>2, <1>3, <1>4, <1>5, <1>6, <1>7, <1>8, <1>9 DEF Traffic, Handle

-----------------------------------------------------------------------------
(* Why an id links one completion at most: the ids in the list are fresh   *)
(* and distinct, and one that was given out is gone.                       *)

\* The ids of the pending selections are distinct and were handed out.
DistinctIds ==
  /\ \A e \in pending : e.id \in 1..nextAttributionID
  /\ \A e, f \in pending : e.id = f.id => e = f

\* An id that a completion carries was handed out and is pending no more.
Spent(r) ==
  req[r].usage.id # 0 =>
    /\ req[r].usage.id <= nextAttributionID
    /\ \A e \in pending : e.id # req[r].usage.id

\* The inductive invariant: LinkedOnce alone says nothing of the ids that the
\* list may still give away.
LinkInv ==
  /\ Typed
  /\ DistinctIds
  /\ \A r \in Requests : Spent(r)
  /\ LinkedOnce

\* Ids are natural numbers.
LEMMA IdNumbers ==
  ASSUME Typed
  PROVE  /\ nextAttributionID \in Nat
         /\ \A e \in pending : e.id \in Nat
         /\ \A r \in Requests : req[r].usage.id \in Nat
BY DEF Typed, TypeOK, PendingTypeOK, Selection, Request, Usage

LEMMA InitLinks == Init => LinkInv
<1> SUFFICES ASSUME Init PROVE LinkInv
  OBVIOUS
<1>1. Typed
  BY InitTyped
<1>2. \A r \in Requests : req[r].usage.id = 0
  BY DEF Init, Idle, Unattributed
<1>3. pending = {}
  BY DEF Init, PendingInit
<1>4. QED
  BY <1>1, <1>2, <1>3 DEF LinkInv, DistinctIds, Spent, LinkedOnce

\* A step that gives no id to a completion and adds no entry.
LEMMA LinksKept ==
  ASSUME LinkInv, Typed',
         \A r \in Requests : req'[r].usage.id \in {0, req[r].usage.id},
         pending' \subseteq pending, nextAttributionID' = nextAttributionID
  PROVE  LinkInv'
<1>1. DistinctIds'
  BY DEF LinkInv, DistinctIds
<1>2. \A r \in Requests : Spent(r)'
  BY DEF LinkInv, Spent
<1>3. LinkedOnce'
  BY DEF LinkInv, LinkedOnce
<1>4. QED
  BY <1>1, <1>2, <1>3 DEF LinkInv

\* A new selection gets an id that no entry and no completion has.
LEMMA RememberLinks ==
  ASSUME LinkInv, Typed', NEW r \in Requests, RememberSelection(r)
  PROVE  LinkInv'
<1>1. PICK new :
        /\ new.id = nextAttributionID + 1
        /\ pending' \subseteq pending \cup {new}
        /\ nextAttributionID' = nextAttributionID + 1
  <2>1. PICK t : Remember(req[r].key, req[r].pool, req[r].auth, req[r].model, t)
    BY DEF RememberSelection
  <2> DEFINE new == [id |-> nextAttributionID + 1, at |-> t, key |-> req[r].key,
                     pool |-> req[r].pool, auth |-> req[r].auth, model |-> req[r].model]
  <2>2. /\ new.id = nextAttributionID + 1
        /\ pending' \subseteq pending \cup {new}
        /\ nextAttributionID' = nextAttributionID + 1
    BY <2>1 DEF Remember, Unexpired
  <2>3. QED
    BY <2>2
<1>2. \A s \in Requests : req'[s].usage = req[s].usage
  BY DEF RememberSelection, LinkInv, Typed, TypeOK, Request
<1>3. /\ nextAttributionID \in Nat
      /\ \A e \in pending : e.id \in 1..nextAttributionID
      /\ \A e, f \in pending : e.id = f.id => e = f
  BY IdNumbers DEF LinkInv, DistinctIds
<1>4. DistinctIds'
  <2>1. \A e \in pending' : e = new \/ e \in pending
    BY <1>1
  <2>2. \A e \in pending : e.id # new.id /\ e.id \in 1..(nextAttributionID + 1)
    BY <1>1, <1>3
  <2>3. new.id \in 1..(nextAttributionID + 1)
    BY <1>1, <1>3
  <2>4. QED
    BY <1>1, <1>3, <2>1, <2>2, <2>3 DEF DistinctIds
<1>5. ASSUME NEW s \in Requests, req[s].usage.id # 0
      PROVE  /\ req[s].usage.id <= nextAttributionID + 1
             /\ \A e \in pending' : e.id # req[s].usage.id
  <2>1. /\ req[s].usage.id \in Nat /\ req[s].usage.id <= nextAttributionID
        /\ \A e \in pending : e.id # req[s].usage.id
    BY <1>5, IdNumbers DEF LinkInv, Spent
  <2>2. QED
    BY <1>1, <1>3, <2>1
<1>6. \A s \in Requests : Spent(s)'
  BY <1>1, <1>2, <1>5 DEF Spent
<1>7. LinkedOnce'
  BY <1>2 DEF LinkInv, LinkedOnce
<1>8. QED
  BY <1>4, <1>6, <1>7 DEF LinkInv

\* A completion that is linked takes the id out of the list.
LEMMA CompleteLinks ==
  ASSUME LinkInv, Typed', NEW r \in Requests, Complete(r)
  PROVE  LinkInv'
<1>1. PICK m \in ReportedAs[req[r].model], t \in req[r].started..now :
        LET matching == Matching(req[r].auth, m, t)
            owner    == Oldest(matching)
        IN  /\ TakeOwner(req[r].auth, m, t)
            /\ req' = [req EXCEPT ![r].pc = "usage", ![r].usage =
                 IF OneOwner(matching)
                 THEN [key |-> owner.key, pool |-> owner.pool, id |-> AttributedID(matching)]
                 ELSE Unattributed]
  BY DEF Complete
<1> DEFINE matching == Matching(req[r].auth, m, t)
           owner    == Oldest(matching)
           given    == IF OneOwner(matching) THEN AttributedID(matching) ELSE 0
<1>2. req \in [Requests -> Request] /\ PendingTypeOK(Auths, Pools)
  BY DEF LinkInv, Typed, TypeOK
<1>3. /\ req'[r].usage.id = given
      /\ \A s \in Requests \ {r} : req'[s] = req[s]
  <2>1. req'[r].usage =
          IF OneOwner(matching)
          THEN [key |-> owner.key, pool |-> owner.pool, id |-> AttributedID(matching)]
          ELSE Unattributed
    BY <1>1, <1>2 DEF Request
  <2>2. QED
    BY <1>1, <1>2, <2>1 DEF Unattributed
<1>4. /\ pending' \subseteq pending
      /\ nextAttributionID' = nextAttributionID
      /\ OneOwner(matching) => pending' \subseteq pending \ {owner}
  BY <1>1 DEF TakeOwner, Unexpired
<1>5. CASE given = 0
  BY <1>3, <1>4, <1>5, LinksKept
<1>6. CASE given # 0
  <2>1. OneOwner(matching) /\ given = owner.id /\ owner \in pending
    BY <1>2, <1>6, MatchingTyped DEF AttributedID
  <2> HIDE DEF given, owner, matching
  <2>2. /\ given \in 1..nextAttributionID
        /\ \A e \in pending' : e.id # given
    BY <1>4, <2>1 DEF LinkInv, DistinctIds
  <2>3. \A s \in Requests : req[s].usage.id # given
    BY <1>6, <2>1 DEF LinkInv, Spent
  <2>4. nextAttributionID \in Nat
    BY IdNumbers DEF LinkInv
  <2>5. DistinctIds'
    BY <1>4 DEF LinkInv, DistinctIds
  <2>6. ASSUME NEW s \in Requests PROVE Spent(s)'
    <3>1. CASE s = r
      BY <1>3, <1>4, <2>2, <2>4, <3>1 DEF Spent
    <3>2. CASE s # r
      BY <1>3, <1>4, <3>2 DEF LinkInv, Spent
    <3>3. QED
      BY <3>1, <3>2
  <2>7. LinkedOnce'
    BY <1>3, <2>3 DEF LinkInv, LinkedOnce
  <2>8. QED
    BY <2>5, <2>6, <2>7 DEF LinkInv
<1>7. QED
  BY <1>5, <1>6

\* Picks begin with no id, and no other step of a request touches one.
LEMMA OtherRequestStepsLink ==
  ASSUME LinkInv, Typed', NEW r \in Requests, Traffic(r) \/ PickUnbound(r),
         ~RememberSelection(r), ~Complete(r)
  PROVE  LinkInv'
<1>1. req \in [Requests -> Request]
  BY DEF LinkInv, Typed, TypeOK
<1>2. UNCHANGED pendingVars /\ \A s \in Requests : req'[s].usage.id \in {0, req[s].usage.id}
  <2>1. CASE Traffic(r)
    BY <2>1, TrafficEffect DEF LinkInv, Begins, Refuses, Continues, Unattributed
  <2>2. CASE PickUnbound(r)
    <3>1. PICK k \in Keys, a \in Auths, m \in Models :
            req' = [req EXCEPT ![r] = [Idle EXCEPT
              !.pc = "inflight", !.key = k, !.model = m, !.started = now, !.auth = a]]
      BY <2>2, Zenon DEF PickUnbound
    <3> DEFINE next == [Idle EXCEPT
              !.pc = "inflight", !.key = k, !.model = m, !.started = now, !.auth = a]
    <3>2. next.usage.id = 0
      BY DEF Idle, Unattributed
    <3>3. req'[r] = next /\ \A s \in Requests \ {r} : req'[s] = req[s]
      BY <1>1, <3>1, Zenon
    <3> HIDE DEF next
    <3>4. QED
      BY <2>2, <3>2, <3>3 DEF PickUnbound
  <2>3. QED
    BY <2>1, <2>2
<1>3. QED
  BY <1>2, LinksKept DEF pendingVars

\* Management empties the list or leaves it; it touches no request.
LEMMA ManagementLinks ==
  ASSUME LinkInv, Typed',
         \/ ClearEvents \/ DeleteConcurrencySlot \/ UpdateLimits \/ StatusSweep
         \/ Configure \/ Tick \/ UNCHANGED vars
  PROVE  LinkInv'
<1>1. /\ UNCHANGED req
      /\ pending' \subseteq pending /\ UNCHANGED nextAttributionID
  BY DEF ClearEvents, ForgetAll, DeleteConcurrencySlot, UpdateLimits, StatusSweep, Tick, vars,
         Configure, UpsertPool, DeletePool, UpsertBinding, DeleteBinding, requestVars, pendingVars
<1>2. QED
  BY <1>1, LinksKept

LEMMA NextLinks == LinkInv /\ [Next]_vars => LinkInv'
<1> SUFFICES ASSUME LinkInv, [Next]_vars PROVE LinkInv'
  OBVIOUS
<1>1. Typed'
  BY NextTyped DEF LinkInv
<1>2. CASE \E r \in Requests : Traffic(r) \/ PickUnbound(r)
  BY <1>1, <1>2, RememberLinks, CompleteLinks, OtherRequestStepsLink
<1>3. CASE Configure \/ UpdateLimits \/ DeleteConcurrencySlot \/ ClearEvents \/ StatusSweep \/ Tick
  BY <1>1, <1>3, ManagementLinks
<1>4. CASE UNCHANGED vars
  BY <1>1, <1>4, ManagementLinks
<1>5. QED
  BY <1>2, <1>3, <1>4 DEF Next

\* A pending selection is linked to one completion at most: whatever the order
\* in which completions race for the list, and whatever is evicted, expires or
\* is cleared in between, no two completions carry the same attribution id.
THEOREM LinksAreUnique == Spec => []LinkedOnce
<1>1. Spec => []LinkInv
  BY InitLinks, NextLinks, PTL DEF Spec
<1>2. LinkInv => LinkedOnce
  BY DEF LinkInv
<1>3. QED
  BY <1>1, <1>2, PTL

-----------------------------------------------------------------------------
(* When a completion is attributed to its owner.  Counterexamples exist    *)
(* without any of these conditions:                                        *)
(*   - nobody but bound requests uses the accounts, and the list is not    *)
(*     cleared (AttributedNext);                                           *)
(*   - a selection outlives its request in the list, though its time may   *)
(*     be that of a pick as slow as may be (RemembersLongEnough), and is   *)
(*     not pushed out of it (BelowCapacity);                               *)
(*   - completions report the model that was picked for (ExactModels).     *)
(* Pools, bindings, limits and slots may change at any time.               *)

\* Everything but requests of unbound keys and ClearEvents.
AttributedNext ==
  \/ \E r \in Requests : Traffic(r)
  \/ Configure \/ UpdateLimits \/ DeleteConcurrencySlot \/ StatusSweep
  \/ Tick

\* There is room in the list for every selection that is to be remembered.
BelowCapacity ==
  \A r \in Requests : req[r].pc = "selected" =>
    \A t \in req[r].started..now : Cardinality(Unexpired(t)) < PendingCapacity

\* A completion names the model of its request, and no name stands for any model.
ExactModels == NoModel \notin Models /\ \A m \in Models : ReportedAs[m] \subseteq {m}

\* A selection stays in the list for as long as any request that was in flight
\* when it was made may be.
RemembersLongEnough == PickBudget <= Deadline /\ Deadline + PickBudget <= PendingTTL

\* The requests in flight that look alike, from the i-th to be remembered on,
\* and the selections their completions may find.
Flying(k, a, m, i) ==
  {r \in Requests : /\ req[r].pc = "inflight"
                    /\ req[r].key = k /\ req[r].auth = a /\ req[r].model = m
                    /\ req[r].id >= i}

Waiting(k, a, m, i) ==
  {e \in pending : e.key = k /\ e.auth = a /\ e.model = m /\ e.id >= i}

\* For the requests in flight from any of them on, enough selections are left.
\* Not one for each: a completion takes the oldest selection of its key, not
\* the one of its request.
Paired ==
  \A k \in Keys \cup {NoKey}, a \in Auths, m \in Models, i \in Nat :
    Cardinality(Flying(k, a, m, i)) <= Cardinality(Waiting(k, a, m, i))

\* The list is in the order of ids, but not of times.  Still, a selection that
\* was made later than a request in flight was remembered, is no older than that
\* request by more than a pick may take.
Listed ==
  /\ IsFiniteSet(pending)
  /\ \A e \in pending : e.id <= nextAttributionID
  /\ \A r \in Requests, e \in pending :
       req[r].pc = "inflight" /\ req[r].id <= e.id => req[r].started <= e.at + PickBudget

\* A request learns its owner when it completes.
Unclaimed == \A r \in Requests : req[r].pc \notin {"usage", "done"} => req[r].usage = Unattributed

\* The inductive invariant.
OwnerInv ==
  /\ Typed
  /\ InTime
  /\ Listed
  /\ Unclaimed
  /\ AttributionSound
  /\ Paired

\* Selections are finite in number.
LEMMA EntrySets ==
  ASSUME NEW S, IsFiniteSet(S), NEW T \in SUBSET S
  PROVE  /\ IsFiniteSet(T) /\ Cardinality(S) \in Nat /\ Cardinality(T) \in Nat
         /\ Cardinality(T) <= Cardinality(S)
         /\ \A x \in S : Cardinality(S \ {x}) = Cardinality(S) - 1
         /\ \A x : x \notin S => Cardinality(S \cup {x}) = Cardinality(S) + 1
<1>1. IsFiniteSet(T)
  BY FS_Subset
<1>2. QED
  BY <1>1, FS_Subset, FS_CardinalityType, FS_AddElement, FS_RemoveElement

\* The fields of selections and requests have their types.
LEMMA EntriesTyped ==
  ASSUME Typed
  PROVE  /\ \A e \in pending : e \in Selection(Auths, Pools) /\ e.id \in Nat /\ e.at \in Nat
         /\ nextAttributionID \in Nat
         /\ req \in [Requests -> Request] /\ \A r \in Requests : req[r].id \in Nat
         /\ PendingTTL \in Nat
BY PendingAssumption DEF Typed, TypeOK, PendingTypeOK, Selection, Request

\* Requests that look alike are requests, their selections are in the list.
LEMMA PairedSets ==
  ASSUME NEW k, NEW a, NEW m, NEW i
  PROVE  /\ Flying(k, a, m, i) \in SUBSET Requests
         /\ Waiting(k, a, m, i) \in SUBSET pending
BY DEF Flying, Waiting

\* A selection made no earlier than that of a request in flight has not expired.
LEMMA FlyingUnexpired ==
  ASSUME RemembersLongEnough, OwnerInv, NEW r \in Requests, req[r].pc = "inflight",
         NEW e \in pending, req[r].id <= e.id, NEW t \in Nat, t <= now
  PROVE  e \in Unexpired(t)
<1>1. /\ now \in Nat /\ req[r].started \in Nat /\ Deadline \in Nat /\ PickBudget \in Nat
      /\ PendingTTL \in Nat /\ e.at \in Nat
  BY Numbers, EntriesTyped, ConstantsAssumption DEF OwnerInv
<1>2. now <= req[r].started + Deadline
  BY DEF OwnerInv, InTime, Holding
<1>3. req[r].started <= e.at + PickBudget
  BY DEF OwnerInv, Listed
<1>4. e.at + PendingTTL >= t
  BY <1>1, <1>2, <1>3 DEF RemembersLongEnough
<1>5. QED
  BY <1>4 DEF Unexpired

\* Expiry leaves enough selections: all from that of the first request in flight
\* on are kept.
LEMMA KeptCovers ==
  ASSUME RemembersLongEnough, OwnerInv, NEW t \in Nat, t <= now,
         NEW k \in Keys \cup {NoKey}, NEW a \in Auths, NEW m \in Models, NEW i \in Nat
  PROVE  Cardinality(Flying(k, a, m, i)) <= Cardinality(Waiting(k, a, m, i) \cap Unexpired(t))
<1> DEFINE kept == Waiting(k, a, m, i) \cap Unexpired(t)
<1>1. \A r \in Requests : req[r].id \in Nat
  BY EntriesTyped DEF OwnerInv
<1>2. IsFiniteSet(kept) /\ Cardinality(kept) \in Nat
  BY PairedSets, EntrySets DEF OwnerInv, Listed
<1>3. CASE Flying(k, a, m, i) = {}
  BY <1>2, <1>3, FS_EmptySet
<1>4. CASE Flying(k, a, m, i) # {}
  <2> DEFINE ids == {req[r].id : r \in Flying(k, a, m, i)}
  <2>1. ids \in SUBSET Nat /\ ids # {}
    BY <1>1, <1>4 DEF Flying
  <2>2. PICK first \in ids : \A n \in ids : first <= n
    BY <2>1, LeastNat
  <2>3. first \in Nat /\ first >= i
    BY <1>1, <2>2 DEF Flying
  <2>4. Flying(k, a, m, i) \subseteq Flying(k, a, m, first)
    BY <1>1, <2>2, <2>3 DEF Flying
  <2>5. Waiting(k, a, m, first) \subseteq kept
    <3>1. PICK r \in Flying(k, a, m, i) : req[r].id = first
      BY <2>2
    <3>2. ASSUME NEW e \in Waiting(k, a, m, first) PROVE e \in Unexpired(t)
      <4>1. r \in Requests /\ req[r].pc = "inflight"
        BY <3>1 DEF Flying
      <4>2. e \in pending /\ e.id \in Nat /\ req[r].id <= e.id
        BY <2>3, <3>1, EntriesTyped DEF OwnerInv, Waiting
      <4>3. QED
        BY <4>1, <4>2, FlyingUnexpired
    <3>3. Waiting(k, a, m, first) \subseteq Waiting(k, a, m, i)
      BY <2>3, EntriesTyped DEF OwnerInv, Waiting
    <3>4. QED
      BY <3>2, <3>3
  <2>6. Cardinality(Flying(k, a, m, first)) <= Cardinality(Waiting(k, a, m, first))
    BY <2>3 DEF OwnerInv, Paired
  <2> HIDE DEF kept
  <2>7. Cardinality(Waiting(k, a, m, first)) <= Cardinality(kept)
        /\ Cardinality(Waiting(k, a, m, first)) \in Nat
    BY <1>2, <2>5, EntrySets
  <2>8. /\ Cardinality(Flying(k, a, m, i)) <= Cardinality(Flying(k, a, m, first))
        /\ Cardinality(Flying(k, a, m, i)) \in Nat /\ Cardinality(Flying(k, a, m, first)) \in Nat
    BY <2>4, PairedSets, RequestSets
  <2>9. Cardinality(Flying(k, a, m, i)) <= Cardinality(kept)
    BY <1>2, <2>6, <2>7, <2>8
  <2>10. QED
    BY <2>9 DEF kept
<1>5. QED
  BY <1>3, <1>4

\* At first the list is empty and nobody is in flight.
LEMMA InitOwner == Init => OwnerInv
<1> SUFFICES ASSUME Init PROVE OwnerInv
  OBVIOUS
<1>1. Typed
  BY InitTyped
<1>2. \A r \in Requests : req[r].pc = "idle" /\ req[r].usage = Unattributed
  BY DEF Init, Idle
<1>3. pending = {}
  BY DEF Init, PendingInit
<1>4. InTime /\ Unclaimed /\ AttributionSound
  BY <1>2 DEF InTime, Picking, Holding, Unclaimed, AttributionSound, Unattributed
<1>5. Listed
  BY <1>3, FS_EmptySet DEF Listed
<1>6. Paired
  <2> SUFFICES ASSUME NEW k, NEW a, NEW m, NEW i
               PROVE  Cardinality(Flying(k, a, m, i)) <= Cardinality(Waiting(k, a, m, i))
    BY DEF Paired
  <2>1. Flying(k, a, m, i) = {} /\ Waiting(k, a, m, i) = {}
    BY <1>2, <1>3 DEF Flying, Waiting
  <2>2. QED
    BY <2>1, FS_EmptySet
<1>7. QED
  BY <1>1, <1>4, <1>5, <1>6 DEF OwnerInv

\* A step that leaves the list alone, and puts nobody in flight.
LEMMA OwnersKept ==
  ASSUME OwnerInv, Typed', InTime', UNCHANGED pendingVars,
         \A r \in Requests :
           \/ req'[r] = req[r]
           \/ /\ req'[r].pc # "inflight"
              /\ \/ req'[r].usage = Unattributed
                 \/ req'[r].pc = "done" /\ req'[r].usage = req[r].usage /\ req'[r].key = req[r].key
  PROVE  OwnerInv'
<1>1. \A r \in Requests : req'[r].pc = "inflight" => req'[r] = req[r]
  OBVIOUS
<1>2. Listed'
  BY <1>1 DEF OwnerInv, Listed, pendingVars
<1>3. Unclaimed'
  BY DEF OwnerInv, Unclaimed
<1>4. AttributionSound'
  BY DEF OwnerInv, AttributionSound, Unattributed
<1>5. ASSUME NEW k \in Keys \cup {NoKey}, NEW a \in Auths, NEW m \in Models, NEW i \in Nat
      PROVE  Cardinality(Flying(k, a, m, i)') <= Cardinality(Waiting(k, a, m, i)')
  <2>1. Waiting(k, a, m, i)' = Waiting(k, a, m, i)
    BY DEF Waiting, pendingVars
  <2>2. Flying(k, a, m, i)' \subseteq Flying(k, a, m, i)
    BY DEF Flying
  <2>3. Cardinality(Flying(k, a, m, i)) <= Cardinality(Waiting(k, a, m, i))
    BY DEF OwnerInv, Paired
  <2>4. /\ Cardinality(Flying(k, a, m, i)') <= Cardinality(Flying(k, a, m, i))
        /\ Cardinality(Flying(k, a, m, i)') \in Nat /\ Cardinality(Flying(k, a, m, i)) \in Nat
    BY <2>2, PairedSets, RequestSets
  <2>5. Cardinality(Waiting(k, a, m, i)) \in Nat
    BY PairedSets, EntrySets DEF OwnerInv, Listed
  <2>6. QED
    BY <2>1, <2>3, <2>4, <2>5
<1>6. Paired'
  BY <1>5 DEF Paired
<1>7. QED
  BY <1>2, <1>3, <1>4, <1>6 DEF OwnerInv

\* The selection that a request adds to the list with the time it has read.
NewEntry(r, t) ==
  [id |-> nextAttributionID + 1, at |-> t, key |-> req[r].key,
   pool |-> req[r].pool, auth |-> req[r].auth, model |-> req[r].model]

\* What remembering a selection changes, when the list has room for it.
LEMMA RememberEffect ==
  ASSUME Typed, IsFiniteSet(pending), BelowCapacity, NEW r \in Requests, RememberSelection(r)
  PROVE  /\ req[r].pc = "selected" /\ req'[r].pc = "inflight"
         /\ SameRequest(r) /\ req'[r].auth = req[r].auth /\ req'[r].usage = req[r].usage
         /\ req'[r].id = nextAttributionID + 1
         /\ \A s \in Requests \ {r} : req'[s] = req[s]
         /\ now' = now /\ nextAttributionID' = nextAttributionID + 1
         /\ \E t \in Nat : /\ req[r].started <= t /\ t <= now
                          /\ pending' = Unexpired(t) \cup {NewEntry(r, t)}
<1>1. req \in [Requests -> Request] /\ req[r].started \in Nat /\ now \in Nat
  BY DEF Typed, TypeOK, Request
<1>2. PICK t \in req[r].started..now :
        Remember(req[r].key, req[r].pool, req[r].auth, req[r].model, t)
  BY DEF RememberSelection
<1>3. /\ req[r].pc = "selected" /\ now' = now
      /\ req' = [req EXCEPT ![r].pc = "inflight", ![r].id = nextAttributionID + 1]
  BY DEF RememberSelection
<1>4. /\ req'[r].pc = "inflight" /\ SameRequest(r) /\ req'[r].id = nextAttributionID + 1
      /\ req'[r].auth = req[r].auth /\ req'[r].usage = req[r].usage
      /\ \A s \in Requests \ {r} : req'[s] = req[s]
  BY <1>1, <1>3 DEF Request, SameRequest
<1>5. ~(Cardinality(Unexpired(t)) >= PendingCapacity)
  <2>1. Cardinality(Unexpired(t)) < PendingCapacity
    BY <1>2, <1>3 DEF BelowCapacity
  <2>2. PendingCapacity \in Nat /\ Cardinality(Unexpired(t)) \in Nat
    BY PendingAssumption, EntrySets DEF Unexpired
  <2>3. QED
    BY <2>1, <2>2
<1>6. /\ pending' = Unexpired(t) \cup {NewEntry(r, t)}
      /\ nextAttributionID' = nextAttributionID + 1
  BY <1>2, <1>5 DEF Remember, NewEntry
<1>7. t \in Nat /\ req[r].started <= t /\ t <= now
  BY <1>1, <1>2
<1>8. QED
  BY <1>3, <1>4, <1>6, <1>7

\* A new selection is there for the request that goes in flight with it.
LEMMA RememberKeepsOwners ==
  ASSUME RemembersLongEnough, OwnerInv, BelowCapacity, Typed', InTime',
         NEW r \in Requests, RememberSelection(r)
  PROVE  OwnerInv'
<1>1. /\ req[r].pc = "selected" /\ req'[r].pc = "inflight"
      /\ SameRequest(r) /\ req'[r].auth = req[r].auth /\ req'[r].usage = req[r].usage
      /\ req'[r].id = nextAttributionID + 1
      /\ \A s \in Requests \ {r} : req'[s] = req[s]
      /\ now' = now /\ nextAttributionID' = nextAttributionID + 1
  BY RememberEffect DEF OwnerInv, Listed
<1>2. PICK t \in Nat : /\ req[r].started <= t /\ t <= now
                      /\ pending' = Unexpired(t) \cup {NewEntry(r, t)}
  BY RememberEffect DEF OwnerInv, Listed
<1> DEFINE new == NewEntry(r, t)
<1>3. /\ new.id = nextAttributionID + 1 /\ new.at = t /\ new.key = req[r].key
      /\ new.auth = req[r].auth /\ new.model = req[r].model
      /\ pending' = Unexpired(t) \cup {new}
  BY <1>2 DEF NewEntry
<1> HIDE DEF new
<1>4. /\ now \in Nat /\ nextAttributionID \in Nat /\ req[r].started \in Nat
      /\ PickBudget \in Nat
      /\ \A s \in Requests : req[s].started \in Nat /\ req[s].id \in Nat
      /\ \A e \in pending : e.id \in Nat /\ e.at \in Nat
      /\ \A e \in pending : e.id <= nextAttributionID
      /\ Unexpired(t) \subseteq pending
  BY Numbers, EntriesTyped, ConstantsAssumption DEF OwnerInv, Listed, Unexpired
<1>5. new \notin pending
  BY <1>3, <1>4
<1>6. Listed'
  <2>1. IsFiniteSet(pending')
    BY <1>3, FS_Subset, FS_AddElement DEF OwnerInv, Listed, Unexpired
  <2>2. \A e \in pending' : e.id <= nextAttributionID + 1
    BY <1>3, <1>4
  <2>3. ASSUME NEW s \in Requests, NEW e \in pending', req'[s].pc = "inflight", req'[s].id <= e.id
        PROVE  req'[s].started <= e.at + PickBudget
    <3>1. CASE e = new
      <4>1. req'[s].started \in Nat /\ req'[s].started <= now
        BY <1>1, <1>4, <2>3 DEF OwnerInv, InTime, Picking, Holding, SameRequest
      <4>2. now <= req[r].started + PickBudget
        BY <1>1 DEF OwnerInv, InTime, Picking
      <4>3. QED
        BY <1>2, <1>3, <1>4, <3>1, <4>1, <4>2
    <3>2. CASE e # new
      <4>1. e \in pending /\ e.id <= nextAttributionID /\ e.id \in Nat
        BY <1>3, <1>4, <3>2
      <4>2. s # r
        BY <1>1, <1>4, <2>3, <4>1
      <4>3. QED
        BY <1>1, <2>3, <4>1, <4>2 DEF OwnerInv, Listed
    <3>3. QED
      BY <3>1, <3>2
  <2>4. QED
    BY <1>1, <2>1, <2>2, <2>3 DEF Listed
<1>7. Unclaimed' /\ AttributionSound'
  BY <1>1 DEF OwnerInv, Unclaimed, AttributionSound, SameRequest, Unattributed
<1>8. ASSUME NEW k \in Keys \cup {NoKey}, NEW a \in Auths, NEW m \in Models, NEW i \in Nat
      PROVE  Cardinality(Flying(k, a, m, i)') <= Cardinality(Waiting(k, a, m, i)')
  <2> DEFINE before == Flying(k, a, m, i)
             after  == Flying(k, a, m, i)'
             kept   == Waiting(k, a, m, i) \cap Unexpired(t)
             left   == Waiting(k, a, m, i)'
  <2>1. Cardinality(before) <= Cardinality(kept)
    BY <1>2, KeptCovers
  <2>2. /\ IsFiniteSet(kept) /\ Cardinality(kept) \in Nat /\ new \notin kept
        /\ Cardinality(kept \cup {new}) = Cardinality(kept) + 1
    BY <1>4, <1>5, EntrySets DEF OwnerInv, Listed
  <2>3. /\ before \in SUBSET Requests /\ after \in SUBSET Requests
        /\ r \notin before
    BY <1>1, PairedSets DEF Flying
  <2>4. /\ Cardinality(before) \in Nat
        /\ Cardinality(before \cup {r}) = Cardinality(before) + 1
    BY <2>3, RequestSets
  <2>5. CASE r \in after
    <3>1. after = before \cup {r}
      BY <1>1, <2>5 DEF Flying
    <3>2. left = kept \cup {new}
      <4>1. req[r].key = k /\ req[r].auth = a /\ req[r].model = m /\ nextAttributionID + 1 >= i
        BY <1>1, <2>5 DEF Flying, SameRequest
      <4>2. QED
        BY <1>3, <1>4, <4>1 DEF Waiting
    <3> HIDE DEF before, after, kept, left
    <3>3. Cardinality(after) <= Cardinality(left)
      BY <2>1, <2>2, <2>4, <3>1, <3>2
    <3>4. QED
      BY <3>3 DEF after, left
  <2>6. CASE r \notin after
    <3>1. after = before
      BY <1>1, <2>3, <2>6 DEF Flying
    <3>2. left = kept \/ left = kept \cup {new}
      BY <1>3, <1>4 DEF Waiting
    <3> HIDE DEF before, after, kept, left
    <3>3. Cardinality(after) <= Cardinality(left)
      BY <2>1, <2>2, <2>4, <3>1, <3>2
    <3>4. QED
      BY <3>3 DEF after, left
  <2>7. QED
    BY <2>5, <2>6
<1>9. Paired'
  BY <1>8 DEF Paired
<1>10. QED
  BY <1>6, <1>7, <1>9 DEF OwnerInv

\* What a completion that has read the time t finds and takes.
Found(r, t) == Matching(req[r].auth, req[r].model, t)

Takes(r, t) ==
  \/ /\ OneOwner(Found(r, t))
     /\ pending' = Unexpired(t) \ {Oldest(Found(r, t))}
     /\ req'[r].usage.key = Oldest(Found(r, t)).key
     /\ req'[r].usage.pool = Oldest(Found(r, t)).pool
  \/ /\ ~OneOwner(Found(r, t))
     /\ pending' = Unexpired(t)
     /\ req'[r].usage = Unattributed

\* What a completion changes.
LEMMA CompleteEffect ==
  ASSUME Typed, ExactModels, NEW r \in Requests, Complete(r)
  PROVE  /\ req[r].pc = "inflight" /\ req'[r].pc = "usage"
         /\ SameRequest(r) /\ req'[r].auth = req[r].auth
         /\ \A s \in Requests \ {r} : req'[s] = req[s]
         /\ UNCHANGED <<now, nextAttributionID, bindings>>
         /\ \E t \in Nat : t <= now /\ Takes(r, t)
<1>1. /\ req \in [Requests -> Request] /\ req[r].model \in Models
      /\ req[r].started \in Nat /\ now \in Nat
  BY DEF Typed, TypeOK, Request
<1>2. PICK m \in ReportedAs[req[r].model], t \in req[r].started..now :
        /\ TakeOwner(req[r].auth, m, t)
        /\ req' = [req EXCEPT ![r].pc = "usage", ![r].usage =
             IF OneOwner(Matching(req[r].auth, m, t))
             THEN [key |-> Oldest(Matching(req[r].auth, m, t)).key,
                   pool |-> Oldest(Matching(req[r].auth, m, t)).pool,
                   id |-> AttributedID(Matching(req[r].auth, m, t))]
             ELSE Unattributed]
  BY DEF Complete
<1> DEFINE matching == Matching(req[r].auth, req[r].model, t)
           owner    == Oldest(matching)
           usage    == IF OneOwner(matching)
                       THEN [key |-> owner.key, pool |-> owner.pool, id |-> AttributedID(matching)]
                       ELSE Unattributed
<1>3. m = req[r].model
  BY <1>1, <1>2 DEF ExactModels
<1>4. /\ TakeOwner(req[r].auth, req[r].model, t)
      /\ req' = [req EXCEPT ![r].pc = "usage", ![r].usage = usage]
  BY <1>2, <1>3
<1>5. /\ nextAttributionID' = nextAttributionID
      /\ pending' = IF OneOwner(matching) THEN Unexpired(t) \ {owner} ELSE Unexpired(t)
  BY <1>4 DEF TakeOwner
<1>6. OneOwner(matching) => usage.key = owner.key /\ usage.pool = owner.pool
  OBVIOUS
<1>7. ~OneOwner(matching) => usage = Unattributed
  OBVIOUS
<1>8. now' = now /\ bindings' = bindings /\ req[r].pc = "inflight"
  BY DEF Complete, confVars
<1>9. matching = Found(r, t)
  BY DEF Found
<1> HIDE DEF usage, matching, owner
<1>10. /\ req'[r].pc = "usage" /\ req'[r].usage = usage
       /\ SameRequest(r) /\ req'[r].auth = req[r].auth
       /\ \A s \in Requests \ {r} : req'[s] = req[s]
  BY <1>1, <1>4 DEF Request, SameRequest
<1>11. Takes(r, t)
  BY <1>5, <1>6, <1>7, <1>9, <1>10 DEF Takes, owner
<1>12. t \in Nat /\ t <= now
  BY <1>1, <1>2
<1>13. QED
  BY <1>5, <1>8, <1>10, <1>11, <1>12

\* A completion finds a selection of its own key, and if it takes one, it is
\* the oldest of that key.
LEMMA OwnerIsOwn ==
  ASSUME RemembersLongEnough, ExactModels, OwnerInv, NEW r \in Requests, req[r].pc = "inflight",
         NEW t \in Nat, t <= now, OneOwner(Found(r, t))
  PROVE  LET owner == Oldest(Found(r, t))
         IN  /\ owner \in Found(r, t) /\ Found(r, t) \subseteq Unexpired(t)
             /\ owner.key = req[r].key /\ owner.auth = req[r].auth /\ owner.model = req[r].model
             /\ \A e \in Found(r, t) : owner.id <= e.id
             /\ \A e \in Unexpired(t) :
                  e \in Found(r, t) <=> /\ e.key = req[r].key /\ e.auth = req[r].auth
                                        /\ e.model = req[r].model
<1> DEFINE matching == Found(r, t)
           owner    == Oldest(matching)
           own      == Waiting(req[r].key, req[r].auth, req[r].model, req[r].id) \cap Unexpired(t)
<1>1. /\ req[r].key \in Keys \cup {NoKey} /\ req[r].model \in Models /\ req[r].id \in Nat
      /\ req[r].auth \in Auths
  BY DEF OwnerInv, Typed, TypeOK, Request, WellFormed, Holding
<1>2. \A e \in pending : e.id \in Nat /\ e.model \in Models
  BY EntriesTyped DEF OwnerInv, Selection
<1>3. \A e \in matching : e \in pending /\ e \in Unexpired(t)
                          /\ e.auth = req[r].auth /\ e.model = req[r].model
  BY <1>1, <1>2 DEF Found, Matching, Unexpired, ModelMatches, ExactModels
<1>4. matching # {} /\ \A e, f \in matching : e.key = f.key
  BY DEF OneOwner
<1>5. owner \in matching /\ \A e \in matching : owner.id <= e.id
  BY <1>2, <1>3, <1>4, OldestIsEntry
<1>6. own # {}
  <2>1. r \in Flying(req[r].key, req[r].auth, req[r].model, req[r].id)
    BY <1>1 DEF Flying
  <2>2. Cardinality(Flying(req[r].key, req[r].auth, req[r].model, req[r].id)) <= Cardinality(own)
    BY <1>1, KeptCovers
  <2>3. Cardinality(Flying(req[r].key, req[r].auth, req[r].model, req[r].id)) \in Nat \ {0}
    <3>1. IsFiniteSet(Flying(req[r].key, req[r].auth, req[r].model, req[r].id))
      BY PairedSets, ConstantsAssumption, FS_Subset
    <3>2. QED
      BY <2>1, <3>1, FS_EmptySet, FS_CardinalityType
  <2>4. Cardinality(own) # 0
    <3>1. Cardinality(own) \in Nat
      BY PairedSets, EntrySets DEF OwnerInv, Listed
    <3>2. QED
      BY <2>2, <2>3, <3>1
  <2>5. QED
    BY <2>4, FS_EmptySet
<1>7. own \subseteq matching /\ \A e \in own : e.key = req[r].key
  BY DEF Waiting, Found, Matching, ModelMatches
<1>8. \A e \in matching : e.key = req[r].key
  BY <1>4, <1>6, <1>7
<1>9. \A e \in Unexpired(t) :
         e.auth = req[r].auth /\ e.model = req[r].model => e \in matching
  BY DEF Found, Matching, ModelMatches
<1>10. QED
  BY <1>3, <1>5, <1>8, <1>9

\* A completion takes a selection of its own key, or none, and leaves enough
\* for the requests still in flight: when the selection it takes is younger
\* than its own, all of its key's are, and one is spare.
LEMMA CompleteKeepsOwners ==
  ASSUME RemembersLongEnough, ExactModels, OwnerInv, Typed', InTime',
         NEW r \in Requests, Complete(r)
  PROVE  OwnerInv'
<1>1. /\ req[r].pc = "inflight" /\ req'[r].pc = "usage"
      /\ SameRequest(r) /\ req'[r].auth = req[r].auth
      /\ \A s \in Requests \ {r} : req'[s] = req[s]
      /\ now' = now /\ nextAttributionID' = nextAttributionID
  BY CompleteEffect DEF OwnerInv
<1>2. PICK t \in Nat : t <= now /\ Takes(r, t)
  BY CompleteEffect DEF OwnerInv
<1> DEFINE matching == Found(r, t)
           owner    == Oldest(matching)
           taken    == OneOwner(matching)
<1>3. \/ /\ taken
         /\ pending' = Unexpired(t) \ {owner}
         /\ req'[r].usage.key = owner.key
      \/ /\ ~taken
         /\ pending' = Unexpired(t)
         /\ req'[r].usage = Unattributed
  BY <1>2 DEF Takes
<1>4. taken =>
        /\ owner \in matching /\ matching \subseteq Unexpired(t)
        /\ owner.key = req[r].key /\ owner.auth = req[r].auth /\ owner.model = req[r].model
        /\ \A e \in matching : owner.id <= e.id
        /\ \A e \in Unexpired(t) :
             e \in matching <=> /\ e.key = req[r].key /\ e.auth = req[r].auth
                                /\ e.model = req[r].model
  BY <1>1, <1>2, OwnerIsOwn
<1> HIDE DEF matching, owner, taken
<1>5. /\ Unexpired(t) \subseteq pending /\ pending' \subseteq pending
      /\ IsFiniteSet(pending)
      /\ \A e \in pending : e.id \in Nat
      /\ \A s \in Requests : req[s].id \in Nat
  BY <1>3, EntriesTyped DEF OwnerInv, Listed, Unexpired
<1>6. Listed'
  <2>1. \A s \in Requests : req'[s].pc = "inflight" => req'[s] = req[s]
    BY <1>1
  <2>2. IsFiniteSet(pending')
    BY <1>5, FS_Subset
  <2>3. QED
    BY <1>1, <1>5, <2>1, <2>2 DEF OwnerInv, Listed
<1>7. Unclaimed'
  BY <1>1 DEF OwnerInv, Unclaimed
<1>8. AttributionSound'
  BY <1>1, <1>3, <1>4 DEF OwnerInv, AttributionSound, SameRequest, Unattributed
<1>9. ASSUME NEW k \in Keys \cup {NoKey}, NEW a \in Auths, NEW m \in Models, NEW i \in Nat
      PROVE  Cardinality(Flying(k, a, m, i)') <= Cardinality(Waiting(k, a, m, i)')
  <2> DEFINE before == Flying(k, a, m, i)
             after  == Flying(k, a, m, i)'
             kept   == Waiting(k, a, m, i) \cap Unexpired(t)
             left   == Waiting(k, a, m, i)'
  <2>1. Cardinality(before) <= Cardinality(kept)
    BY <1>2, KeptCovers
  <2>2. /\ IsFiniteSet(kept) /\ Cardinality(kept) \in Nat
        /\ owner \in kept => Cardinality(kept \ {owner}) = Cardinality(kept) - 1
    BY <1>5, EntrySets
  <2>3. before \in SUBSET Requests /\ after = before \ {r}
    BY <1>1, PairedSets DEF Flying
  <2>4. /\ Cardinality(before) \in Nat /\ Cardinality(after) \in Nat
        /\ Cardinality(after) <= Cardinality(before)
        /\ r \in before => Cardinality(after) = Cardinality(before) - 1
    BY <2>3, RequestSets
  <2>5. CASE ~(taken /\ owner \in kept)
    <3>1. left = kept
      BY <1>3, <1>5, <2>5 DEF Waiting
    <3> HIDE DEF before, after, kept, left
    <3>2. Cardinality(after) <= Cardinality(left)
      BY <2>1, <2>2, <2>4, <3>1
    <3>3. QED
      BY <3>2 DEF after, left
  <2>6. CASE taken /\ owner \in kept
    <3>1. left = kept \ {owner}
      BY <1>3, <1>5, <2>6 DEF Waiting
    <3>2. /\ k = req[r].key /\ a = req[r].auth /\ m = req[r].model
          /\ owner.id >= i
      BY <1>4, <2>6 DEF Waiting
    <3>3. CASE r \in before
      <4> HIDE DEF before, after, kept, left
      <4>1. Cardinality(after) <= Cardinality(left)
        BY <2>1, <2>2, <2>4, <2>6, <3>1, <3>3
      <4>2. QED
        BY <4>1 DEF after, left
    <3>4. CASE r \notin before
      <4> DEFINE since == Flying(k, a, m, req[r].id)
                 own   == Waiting(k, a, m, req[r].id) \cap Unexpired(t)
      <4>1. req[r].id < i
        BY <1>1, <1>5, <3>2, <3>4 DEF Flying
      <4>2. before \cup {r} \subseteq since /\ since \in SUBSET Requests
        <5>1. r \in since
          BY <1>1, <1>5, <3>2 DEF Flying
        <5>2. before \subseteq since
          BY <1>5, <4>1 DEF Flying
        <5>3. QED
          BY <5>1, <5>2, PairedSets
      <4>3. own \subseteq kept
        <5>1. ASSUME NEW e \in own PROVE e \in kept
          <6>1. e \in matching /\ e \in pending
            BY <1>4, <1>5, <2>6, <3>2 DEF Waiting
          <6>2. owner.id <= e.id /\ owner \in pending
            BY <1>4, <1>5, <2>6, <6>1
          <6>3. e.id >= i
            BY <1>5, <3>2, <6>1, <6>2
          <6>4. QED
            BY <6>3 DEF Waiting
        <5>2. QED
          BY <5>1
      <4>4. Cardinality(since) <= Cardinality(own)
        BY <1>2, <1>5, KeptCovers
      <4>5. Cardinality(own) \in Nat /\ Cardinality(own) <= Cardinality(kept)
        BY <2>2, <4>3, EntrySets
      <4>6. /\ Cardinality(since) \in Nat
            /\ Cardinality(before \cup {r}) <= Cardinality(since)
            /\ Cardinality(before \cup {r}) = Cardinality(before) + 1
        <5>1. Cardinality(before \cup {r}) = Cardinality(before) + 1
          BY <2>3, <3>4, RequestSets
        <5>2. Cardinality(since) \in Nat /\ Cardinality(before \cup {r}) <= Cardinality(since)
          BY <4>2, RequestSets
        <5>3. QED
          BY <5>1, <5>2
      <4> HIDE DEF before, after, kept, left, since, own
      <4>7. Cardinality(after) <= Cardinality(left)
        BY <2>2, <2>4, <2>6, <3>1, <4>4, <4>5, <4>6
      <4>8. QED
        BY <4>7 DEF after, left
    <3>5. QED
      BY <3>3, <3>4
  <2>7. QED
    BY <2>5, <2>6
<1>10. Paired'
  BY <1>9 DEF Paired
<1>11. QED
  BY <1>6, <1>7, <1>8, <1>10 DEF OwnerInv

\* A step of a bound request is in time.
LEMMA TrafficInTime ==
  ASSUME PickBudget <= Deadline, Typed, InTime, NEW r \in Requests, Traffic(r)
  PROVE  InTime'
<1>1. UNCHANGED now /\ \A s \in Requests \ {r} : req'[s] = req[s]
  BY TrafficEffect
<1>2. \/ req'[r].pc \notin Picking \cup Holding
      \/ req'[r].started = req[r].started /\ req[r].pc \in Picking
      \/ /\ req'[r].started = req[r].started
         /\ req[r].pc \in Holding /\ req'[r].pc \notin Picking
      \/ /\ req'[r].pc = "offset"
         /\ req'[r].started <= now /\ now <= req'[r].started + PickBudget
  <2>1. CASE RememberSelection(r)
    <3>1. req[r].pc = "selected" /\ req' = [req EXCEPT ![r].pc = "inflight",
                                              ![r].id = nextAttributionID + 1]
      BY <2>1 DEF RememberSelection
    <3>2. req'[r].started = req[r].started
      BY <3>1 DEF Typed, TypeOK, Request
    <3>3. QED
      BY <3>1, <3>2 DEF Picking
  <2>2. CASE Complete(r)
    <3>1. PICK u : req' = [req EXCEPT ![r].pc = "usage", ![r].usage = u]
      BY <2>2, Zenon DEF Complete
    <3>2. req'[r].started = req[r].started /\ req'[r].pc = "usage" /\ req[r].pc = "inflight"
      BY <2>2, <3>1 DEF Complete, Typed, TypeOK, Request
    <3>3. QED
      BY <3>2 DEF Picking, Holding
  <2>3. CASE Begins(r) \/ Refuses(r) \/ Continues(r)
    BY <2>3 DEF Begins, Refuses, Continues, SameRequest, Picking, Holding
  <2>4. QED
    BY <2>1, <2>2, <2>3, TrafficEffect
<1>3. QED
  BY <1>1, <1>2, StepInTime

\* Every step keeps the invariant.
LEMMA OwnerStep ==
  ASSUME RemembersLongEnough, ExactModels, OwnerInv, BelowCapacity, [AttributedNext]_vars
  PROVE  OwnerInv'
<1>1. Typed'
  <2>1. [Next]_vars
    BY DEF AttributedNext, Next
  <2>2. QED
    BY <2>1, NextTyped DEF OwnerInv
<1>2. PickBudget <= Deadline /\ Typed /\ InTime
  BY DEF RemembersLongEnough, OwnerInv
<1>3. ASSUME NEW r \in Requests, Traffic(r)
      PROVE  OwnerInv'
  <2>1. InTime'
    BY <1>2, <1>3, TrafficInTime
  <2>2. CASE RememberSelection(r)
    BY <1>1, <2>1, <2>2, RememberKeepsOwners
  <2>3. CASE Complete(r)
    BY <1>1, <2>1, <2>3, CompleteKeepsOwners
  <2>4. CASE UNCHANGED pendingVars /\ (Begins(r) \/ Refuses(r) \/ Continues(r))
    <3>1. \/ req'[r] = req[r]
          \/ /\ req'[r].pc # "inflight"
             /\ \/ req'[r].usage = Unattributed
                \/ req'[r].pc = "done" /\ req'[r].usage = req[r].usage /\ req'[r].key = req[r].key
      BY <2>4 DEF Begins, Refuses, Continues, SameRequest, OwnerInv, Unclaimed
    <3>2. now' = now /\ \A s \in Requests \ {r} : req'[s] = req[s]
      BY <1>2, <1>3, TrafficEffect
    <3>3. QED
      BY <1>1, <2>1, <2>4, <3>1, <3>2, OwnersKept
  <2>5. QED
    BY <1>2, <1>3, <2>2, <2>3, <2>4, TrafficEffect
<1>4. CASE Configure \/ UpdateLimits \/ DeleteConcurrencySlot \/ StatusSweep \/ UNCHANGED vars
  <2>1. UNCHANGED <<req, pendingVars, now>>
    BY <1>4 DEF DeleteConcurrencySlot, UpdateLimits, StatusSweep, vars, Configure, UpsertPool,
                DeletePool, UpsertBinding, DeleteBinding, requestVars, pendingVars
  <2>2. InTime'
    BY <1>2, <2>1 DEF InTime
  <2>3. QED
    BY <1>1, <2>1, <2>2, OwnersKept
<1>5. CASE Tick
  <2>1. UNCHANGED <<req, pendingVars>> /\ now' = now + 1
    BY <1>5 DEF Tick
  <2>2. InTime'
    BY <1>2, <1>5, TickInTime
  <2>3. QED
    BY <1>1, <2>1, <2>2, OwnersKept
<1>6. QED
  BY <1>3, <1>4, <1>5 DEF AttributedNext

\* The invariant, as long as the list has room.
LEMMA OwnerInvariant ==
  ASSUME RemembersLongEnough, ExactModels
  PROVE  Init /\ [][AttributedNext]_vars /\ []BelowCapacity => []OwnerInv
<1>1. OwnerInv /\ BelowCapacity /\ [AttributedNext]_vars => OwnerInv'
  BY OwnerStep
<1>2. QED
  BY <1>1, InitOwner, PTL

\* A completion that is attributed is attributed to the key that made the
\* request (pendingSelectionAttribution): with requests of many keys on one
\* account, completing in any order or never, while pools, bindings and slots
\* change, no key is charged for another's request.
THEOREM OwnersAreRight ==
  ASSUME RemembersLongEnough, ExactModels
  PROVE  Init /\ [][AttributedNext]_vars /\ []BelowCapacity => []AttributionSound
<1>1. OwnerInv => AttributionSound
  BY DEF OwnerInv
<1>2. QED
  BY <1>1, OwnerInvariant, PTL

-----------------------------------------------------------------------------
(* When a completion releases the pool of its request: if, besides, a key  *)
(* is never moved from one pool to another.                                *)

\* A binding is the one the plugin started with, or gone for a time.
NoRebinding == \A k \in Keys : bindings'[k] \in {InitialBindings[k], NoPool}

\* Requests and selections of a key are all of one pool.
OnePool ==
  /\ \A k \in Keys : bindings[k] \in {InitialBindings[k], NoPool}
  /\ \A r \in Requests :
       req[r].pc \in Picking \cup Holding => req[r].pool = InitialBindings[req[r].key]
  /\ \A e \in pending : e.pool = InitialBindings[e.key]

\* The inductive invariant, given that the owners are right.
OwnPoolInv == OnePool /\ ReleasesOwnPool

\* At first there are no selections.
LEMMA InitOwnPool == Init => OwnPoolInv
<1> SUFFICES ASSUME Init PROVE OwnPoolInv
  OBVIOUS
<1>1. \A r \in Requests : req[r].pc = "idle" /\ req[r].usage = Unattributed
  BY DEF Init, Idle
<1>2. pending = {} /\ bindings = InitialBindings
  BY DEF Init, PendingInit
<1>3. OnePool
  BY <1>1, <1>2 DEF OnePool, Picking, Holding
<1>4. ReleasesOwnPool
  BY <1>1 DEF ReleasesOwnPool, Unattributed
<1>5. QED
  BY <1>3, <1>4 DEF OwnPoolInv

\* A step that adds no selection.
LEMMA OwnPoolKept ==
  ASSUME OwnPoolInv, NoRebinding, pending' \subseteq pending,
         \A r \in Requests :
           \/ req'[r] = req[r]
           \/ /\ req'[r].pc \in Picking \cup Holding => req'[r].pool = InitialBindings[req'[r].key]
              /\ req'[r].usage.pool \in {NoPool, req'[r].pool}
  PROVE  OwnPoolInv'
<1>1. OnePool'
  BY DEF OwnPoolInv, OnePool, NoRebinding
<1>2. ReleasesOwnPool'
  BY DEF OwnPoolInv, ReleasesOwnPool
<1>3. QED
  BY <1>1, <1>2 DEF OwnPoolInv

\* Every step keeps a key's requests and selections in its pool.
LEMMA OwnPoolStep ==
  ASSUME RemembersLongEnough, ExactModels, OwnerInv, BelowCapacity, OwnPoolInv,
         [AttributedNext /\ NoRebinding]_vars
  PROVE  OwnPoolInv'
<1>1. Typed /\ IsFiniteSet(pending)
  BY DEF OwnerInv, Listed
<1>2. ASSUME NEW r \in Requests, Traffic(r), NoRebinding
      PROVE  OwnPoolInv'
  <2>1. \A s \in Requests \ {r} : req'[s] = req[s]
    BY <1>1, <1>2, TrafficEffect
  <2>2. CASE RememberSelection(r)
    <3>1. PICK t :
            /\ req[r].pc = "selected" /\ req'[r].pc = "inflight"
            /\ SameRequest(r) /\ req'[r].usage = req[r].usage
            /\ pending' = Unexpired(t) \cup {NewEntry(r, t)}
      BY <1>1, <2>2, RememberEffect
    <3>2. NewEntry(r, t).pool = req[r].pool /\ NewEntry(r, t).key = req[r].key
      BY DEF NewEntry
    <3>3. req[r].pool = InitialBindings[req[r].key]
      BY <3>1 DEF OwnPoolInv, OnePool, Picking
    <3>4. \A e \in pending' : e.pool = InitialBindings[e.key]
      BY <3>1, <3>2, <3>3 DEF OwnPoolInv, OnePool, Unexpired
    <3>5. /\ req'[r].pool = InitialBindings[req'[r].key]
          /\ req'[r].usage.pool \in {NoPool, req'[r].pool}
      BY <3>1, <3>3 DEF SameRequest, OwnPoolInv, ReleasesOwnPool
    <3>6. OnePool'
      BY <1>2, <2>1, <3>4, <3>5 DEF OwnPoolInv, OnePool, NoRebinding
    <3>7. ReleasesOwnPool'
      BY <2>1, <3>5 DEF OwnPoolInv, ReleasesOwnPool
    <3>8. QED
      BY <3>6, <3>7 DEF OwnPoolInv
  <2>3. CASE Complete(r)
    <3>1. PICK t \in Nat :
            /\ req[r].pc = "inflight" /\ req'[r].pc = "usage" /\ SameRequest(r)
            /\ t <= now /\ Takes(r, t)
      BY <1>1, <2>3, CompleteEffect
    <3> DEFINE matching == Found(r, t)
               owner    == Oldest(matching)
    <3>2. /\ OneOwner(matching) =>
               /\ owner \in matching /\ matching \subseteq Unexpired(t)
               /\ owner.key = req[r].key
               /\ req'[r].usage.pool = owner.pool
          /\ ~OneOwner(matching) => req'[r].usage = Unattributed
      BY <3>1, OwnerIsOwn DEF Takes
    <3>3. pending' \subseteq pending /\ Unexpired(t) \subseteq pending
      BY <3>1 DEF Unexpired, Takes
    <3> HIDE DEF matching, owner
    <3>4. req[r].pool = InitialBindings[req[r].key]
      BY <3>1 DEF OwnPoolInv, OnePool, Holding
    <3>5. req'[r].usage.pool \in {NoPool, req'[r].pool}
      BY <3>1, <3>2, <3>3, <3>4 DEF OwnPoolInv, OnePool, SameRequest, Unattributed
    <3>6. req'[r].pool = InitialBindings[req'[r].key]
      BY <3>1, <3>4 DEF SameRequest
    <3>7. QED
      BY <1>2, <2>1, <3>3, <3>5, <3>6, OwnPoolKept
  <2>4. CASE UNCHANGED pendingVars /\ (Begins(r) \/ Refuses(r) \/ Continues(r))
    <3>1. CASE Begins(r)
      <4>1. req'[r].key \in Keys
        <5>1. Typed'
          <6>1. [Next]_vars
            BY <1>2 DEF Next
          <6>2. QED
            BY <1>1, <6>1, NextTyped
        <5>2. QED
          BY <3>1, <5>1 DEF Typed, WellFormed, Begins, Picking
      <4>2. /\ req'[r].pool = InitialBindings[req'[r].key]
            /\ req'[r].usage.pool = NoPool
        BY <3>1, <4>1, ConstantsAssumption DEF Begins, OwnPoolInv, OnePool, Unattributed
      <4>3. QED
        BY <1>2, <2>1, <2>4, <4>2, OwnPoolKept DEF pendingVars
    <3>2. CASE Refuses(r)
      <4>1. req'[r].pc \notin Picking \cup Holding /\ req'[r].usage.pool = NoPool
        BY <3>2 DEF Refuses, OwnerInv, Unclaimed, Unattributed, Picking, Holding
      <4>2. QED
        BY <1>2, <2>1, <2>4, <4>1, OwnPoolKept DEF pendingVars
    <3>3. CASE Continues(r)
      <4>1. /\ req[r].pc \in Picking \cup Holding
            /\ SameRequest(r) /\ req'[r].usage = req[r].usage
        BY <3>3 DEF Continues, Picking, Holding
      <4>2. /\ req'[r].pool = InitialBindings[req'[r].key]
            /\ req'[r].usage.pool \in {NoPool, req'[r].pool}
        BY <4>1 DEF SameRequest, OwnPoolInv, OnePool, ReleasesOwnPool
      <4>3. QED
        BY <1>2, <2>1, <2>4, <4>2, OwnPoolKept DEF pendingVars
    <3>4. QED
      BY <2>4, <3>1, <3>2, <3>3
  <2>5. QED
    BY <1>1, <1>2, <2>2, <2>3, <2>4, TrafficEffect
<1>3. CASE /\ Configure \/ UpdateLimits \/ DeleteConcurrencySlot \/ StatusSweep \/ Tick
           /\ NoRebinding
  <2>1. UNCHANGED <<req, pendingVars>>
    BY <1>3 DEF DeleteConcurrencySlot, UpdateLimits, StatusSweep, Tick, Configure, UpsertPool,
                DeletePool, UpsertBinding, DeleteBinding, requestVars, pendingVars
  <2>2. QED
    BY <1>3, <2>1, OwnPoolKept DEF pendingVars
<1>4. CASE UNCHANGED vars
  <2>1. UNCHANGED <<req, pendingVars, bindings>>
    BY <1>4 DEF vars, pendingVars
  <2>2. NoRebinding
    BY <2>1 DEF NoRebinding, OwnPoolInv, OnePool
  <2>3. QED
    BY <2>1, <2>2, OwnPoolKept DEF pendingVars
<1>5. QED
  BY <1>2, <1>3, <1>4 DEF AttributedNext

\* The invariant, as long as the list has room.
LEMMA OwnPoolInvariant ==
  ASSUME RemembersLongEnough, ExactModels
  PROVE  Init /\ [][AttributedNext /\ NoRebinding]_vars /\ []BelowCapacity
           => [](OwnerInv /\ OwnPoolInv)
<1>1. Init /\ [][AttributedNext]_vars /\ []BelowCapacity => []OwnerInv
  BY OwnerInvariant
<1>2. [AttributedNext /\ NoRebinding]_vars => [AttributedNext]_vars
  OBVIOUS
<1>3. OwnerInv /\ BelowCapacity /\ OwnPoolInv /\ [AttributedNext /\ NoRebinding]_vars => OwnPoolInv'
  BY OwnPoolStep
<1>4. QED
  BY <1>1, <1>2, <1>3, InitOwnPool, PTL

\* A completion releases the slot of the pool that its request reserved, or of
\* none (handleUsage, releaseConcurrencySlot), while pools come and go
\* but keys stay with theirs.
THEOREM PoolsAreOwn ==
  ASSUME RemembersLongEnough, ExactModels
  PROVE  Init /\ [][AttributedNext /\ NoRebinding]_vars /\ []BelowCapacity
           => []ReleasesOwnPool
<1>1. OwnPoolInv => ReleasesOwnPool
  BY DEF OwnPoolInv
<1>2. QED
  BY <1>1, OwnPoolInvariant, PTL

-----------------------------------------------------------------------------
(* When the concurrency limits of the pools hold: if a slot outlives the   *)
(* requests on it (Timely), as for the accounts, if every completion       *)
(* releases its own pool or none, and if no pool is deleted and no slot    *)
(* reset under its requests (PooledNext).  No tiers are needed.            *)

PooledNext ==
  \/ \E r \in Requests : Traffic(r)
  \/ UpsertPool \/ UpsertBinding \/ DeleteBinding \/ UpdateLimits \/ StatusSweep
  \/ Tick

\* A pool's slot in use lasts as long as the pick of each request on it wanted
\* it to, but for what a slower pick has taken back.
PoolSlotLasts(r) ==
  req[r].pc \in Holding => req[r].started + SlotTTL <= poolSlots[req[r].pool].expires + PickBudget

\* The counter of a pool covers its requests in flight.
PoolCounted(p) == Cardinality(PoolInFlight(p)) <= poolSlots[p].count

\* The inductive invariant of the pools' limits.
PoolCoverInv ==
  /\ Typed
  /\ InTime
  /\ HoldersBound
  /\ \A r \in Requests : PoolSlotLasts(r)
  /\ \A p \in Pools : PoolCounted(p)

\* Expiries and counters of the pools are natural numbers.
LEMMA PoolNumbers ==
  ASSUME Typed
  PROVE  \A p \in Pools : /\ poolSlots[p] \in Slot
                          /\ poolSlots[p].expires \in Nat /\ poolSlots[p].count \in Nat
BY DEF Typed, TypeOK, SlotsTypeOK, Slot

\* The requests in flight in a pool are a set of requests.
LEMMA PoolInFlightSets ==
  \A p : PoolInFlight(p) \in SUBSET Requests /\ PoolInFlight(p)' \in SUBSET Requests
BY DEF PoolInFlight

\* A pool's slot is deleted only when no request in flight needs it.
LEMMA SweptKeepsPool ==
  ASSUME Timely, PoolCoverInv, NEW t \in Nat, t <= now, NEW p \in Pools, ~Live(poolSlots[p], t)
  PROVE  PoolInFlight(p) = {}
<1> SUFFICES ASSUME NEW r \in PoolInFlight(p) PROVE FALSE
  OBVIOUS
<1>1. r \in Requests /\ req[r].pc \in Holding /\ req[r].pool = p
  BY DEF PoolInFlight
<1>2. /\ now <= req[r].started + Deadline
      /\ req[r].started + SlotTTL <= poolSlots[p].expires + PickBudget
  BY <1>1 DEF PoolCoverInv, InTime, PoolSlotLasts
<1>3. /\ now \in Nat /\ req[r].started \in Nat /\ poolSlots[p].expires \in Nat
      /\ PickBudget \in Nat /\ Deadline \in Nat /\ SlotTTL \in Nat
  BY <1>1, Numbers, PoolNumbers DEF PoolCoverInv
<1>4. QED
  BY <1>2, <1>3 DEF Timely, Live

\* No new holder, and no pool slot changes but one that nobody needs.
LEMMA QuietPool ==
  ASSUME PoolCoverInv, Typed', InTime',
         \A r \in Requests :
           req'[r].pc \in Holding =>
             /\ req[r].pc \in Holding
             /\ req'[r].pool = req[r].pool /\ req'[r].started = req[r].started,
         \A p \in Pools : poolSlots'[p] = poolSlots[p] \/ PoolInFlight(p) = {}
  PROVE  PoolCoverInv'
<1>1. \A p \in Pools : PoolInFlight(p)' \subseteq PoolInFlight(p)
  BY DEF PoolInFlight
<1>2. HoldersBound'
  BY DEF PoolCoverInv, HoldersBound
<1>3. ASSUME NEW r \in Requests PROVE PoolSlotLasts(r)'
  <2> SUFFICES ASSUME req'[r].pc \in Holding
      PROVE req'[r].started + SlotTTL <= poolSlots'[req'[r].pool].expires + PickBudget
    BY DEF PoolSlotLasts
  <2>1. req[r].pool \in Pools /\ r \in PoolInFlight(req[r].pool)
    BY DEF PoolCoverInv, HoldersBound, PoolInFlight
  <2>2. poolSlots'[req[r].pool] = poolSlots[req[r].pool]
    BY <2>1
  <2>3. QED
    BY <2>2 DEF PoolCoverInv, PoolSlotLasts
<1>4. ASSUME NEW p \in Pools PROVE PoolCounted(p)'
  <2>1. /\ Cardinality(PoolInFlight(p)) \in Nat /\ Cardinality(PoolInFlight(p)') \in Nat
        /\ Cardinality(PoolInFlight(p)') <= Cardinality(PoolInFlight(p))
    BY <1>1, PoolInFlightSets, RequestSets
  <2>2. poolSlots[p].count \in Nat /\ poolSlots'[p].count \in Nat
    BY DEF PoolCoverInv, Typed, TypeOK, SlotsTypeOK, Slot
  <2>3. CASE poolSlots'[p] = poolSlots[p]
    BY <2>1, <2>2, <2>3 DEF PoolCoverInv, PoolCounted
  <2>4. CASE PoolInFlight(p) = {}
    <3>1. Cardinality(PoolInFlight(p)) = 0
      BY <2>4, FS_EmptySet
    <3>2. QED
      BY <2>1, <2>2, <3>1 DEF PoolCounted
  <2>5. QED
    BY <2>3, <2>4
<1>5. QED
  BY <1>2, <1>3, <1>4 DEF PoolCoverInv

\* The steps of a request that neither reserve nor release.
LEMMA QuietTrafficPool ==
  ASSUME Timely, ExactModels, IsFiniteSet(pending), BelowCapacity, PoolCoverInv, Typed', InTime',
         NEW r \in Requests, Traffic(r), ~SelectReserve(r), ~Release(r)
  PROVE  PoolCoverInv'
<1>1. Typed
  BY DEF PoolCoverInv
<1>2. \A s \in Requests \ {r} : req'[s] = req[s]
  BY <1>1, TrafficEffect
<1>3. req'[r].pc \in Holding =>
        /\ req[r].pc \in Holding
        /\ req'[r].pool = req[r].pool /\ req'[r].started = req[r].started
  <2>1. CASE RememberSelection(r)
    BY <1>1, <2>1, RememberEffect DEF SameRequest, Holding
  <2>2. CASE Complete(r)
    BY <1>1, <2>2, CompleteEffect DEF SameRequest, Holding
  <2>3. CASE Begins(r) \/ Refuses(r) \/ Continues(r)
    BY <2>3 DEF Begins, Refuses, Continues, Holding
  <2>4. QED
    BY <1>1, <2>1, <2>2, <2>3, TrafficEffect
<1>4. \A p \in Pools : poolSlots'[p] = poolSlots[p] \/ PoolInFlight(p) = {}
  <2>1. CASE SelectGroupFull(r)
    <3>1. poolSlots' = [poolSlots EXCEPT ![req[r].pool] = SweptPool(req[r].pool, req[r].started)]
          /\ req[r].pc = "select"
      BY <2>1 DEF SelectGroupFull, BounceGroupFull
    <3>2. req[r].started \in Nat /\ req[r].started <= now
      BY <1>1, <3>1, Numbers DEF PoolCoverInv, InTime, Picking
    <3>3. ASSUME NEW p \in Pools
          PROVE  poolSlots'[p] = poolSlots[p] \/ ~Live(poolSlots[p], req[r].started)
      BY <1>1, <3>1 DEF SweptPool, Typed, TypeOK, SlotsTypeOK
    <3>4. QED
      BY <3>2, <3>3, SweptKeepsPool
  <2>2. CASE ~SelectGroupFull(r)
    BY <2>2 DEF Traffic, Handle, PickRefused, PickBound, TakeOffset, SelectPoolFull,
                BouncePoolFull, RememberSelection, Complete, Abandon, slotVars
  <2>3. QED
    BY <2>1, <2>2
<1>5. QED
  BY <1>2, <1>3, <1>4, QuietPool

\* What a reservation changes, as a pool sees it.
LEMMA ReservePoolEffect ==
  ASSUME PoolCoverInv, NEW r \in Requests, SelectReserve(r)
  PROVE  /\ req[r].pc = "select" /\ req[r].pool \in Pools
         /\ \A s \in Requests \ {r} : req'[s] = req[s]
         /\ req'[r].pc = "selected"
         /\ req'[r].pool = req[r].pool /\ req'[r].started = req[r].started
         /\ ~PoolAtLimit(req[r].pool, req[r].config.max, req[r].started)
         /\ poolSlots'[req[r].pool] = Reserved(SweptPool(req[r].pool, req[r].started), req[r].started)
         /\ \A p \in Pools \ {req[r].pool} : poolSlots'[p] = poolSlots[p]
<1>1. SlotsTypeOK /\ req \in [Requests -> Request]
  BY DEF PoolCoverInv, Typed, TypeOK
<1>2. req[r].pc = "select" /\ req[r].pool \in Pools
  BY DEF SelectReserve, PoolCoverInv, Typed, WellFormed, Picking
<1>3. PICK i \in DOMAIN GroupOf(r).order :
        /\ Reserve(i, GroupOf(r).order, TiersOf(r), req[r].pool, req[r].config.max,
                   req[r].config.strategy, req[r].offset, req[r].started)
        /\ req' = [req EXCEPT ![r].pc = "selected", ![r].auth = GroupOf(r).order[i]]
  BY DEF SelectReserve
<1>4. /\ ~PoolAtLimit(req[r].pool, req[r].config.max, req[r].started)
      /\ poolSlots' = [poolSlots EXCEPT ![req[r].pool] =
                         Reserved(SweptPool(req[r].pool, req[r].started), req[r].started)]
  BY <1>3 DEF Reserve
<1>5. /\ \A s \in Requests \ {r} : req'[s] = req[s]
      /\ req'[r].pc = "selected"
      /\ req'[r].pool = req[r].pool /\ req'[r].started = req[r].started
  BY <1>1, <1>3 DEF Request
<1>6. /\ poolSlots'[req[r].pool] = Reserved(SweptPool(req[r].pool, req[r].started), req[r].started)
      /\ \A p \in Pools \ {req[r].pool} : poolSlots'[p] = poolSlots[p]
  BY <1>1, <1>2, <1>4 DEF SlotsTypeOK
<1>7. QED
  BY <1>2, <1>4, <1>5, <1>6

\* A reservation counts the new holder, and takes back at most PickBudget from the others.
LEMMA ReserveKeepsPool ==
  ASSUME Timely, PoolCoverInv, Typed', InTime', NEW r \in Requests, SelectReserve(r)
  PROVE  PoolCoverInv'
<1> DEFINE t    == req[r].started
           pool == req[r].pool
           swept == SweptPool(pool, t)
<1>1. /\ req[r].pc = "select" /\ pool \in Pools
      /\ \A s \in Requests \ {r} : req'[s] = req[s]
      /\ req'[r].pc = "selected" /\ req'[r].pool = pool /\ req'[r].started = t
      /\ poolSlots'[pool] = Reserved(swept, t)
      /\ \A p \in Pools \ {pool} : poolSlots'[p] = poolSlots[p]
  BY ReservePoolEffect
<1>2. t \in Nat /\ t <= now /\ now <= t + PickBudget
  BY <1>1, Numbers DEF PoolCoverInv, InTime, Picking
<1>3. /\ PickBudget \in Nat /\ SlotTTL \in Nat /\ now \in Nat
      /\ \A s \in Requests : req[s].started \in Nat
  BY Numbers DEF PoolCoverInv
<1>4. /\ swept.count \in Nat
      /\ swept = poolSlots[pool] \/ PoolInFlight(pool) = {}
  <2>1. CASE Live(poolSlots[pool], t)
    BY <1>1, <2>1, PoolNumbers DEF SweptPool, PoolCoverInv
  <2>2. CASE ~Live(poolSlots[pool], t)
    BY <1>1, <1>2, <2>2, SweptKeepsPool DEF SweptPool, NoSlot
  <2>3. QED
    BY <2>1, <2>2
<1>5. poolSlots'[pool].count = swept.count + 1 /\ poolSlots'[pool].expires = t + SlotTTL
  BY <1>1 DEF Reserved
<1> HIDE DEF t, pool, swept
<1>6. HoldersBound'
  BY <1>1 DEF PoolCoverInv, HoldersBound, pool
<1>7. ASSUME NEW s \in Requests PROVE PoolSlotLasts(s)'
  <2> SUFFICES ASSUME req'[s].pc \in Holding
      PROVE req'[s].started + SlotTTL <= poolSlots'[req'[s].pool].expires + PickBudget
    BY DEF PoolSlotLasts
  <2>1. CASE s = r
    BY <1>1, <1>2, <1>3, <1>5, <2>1
  <2>2. CASE s # r /\ req[s].pool = pool
    <3>1. req'[s] = req[s] /\ req[s].started <= now
      BY <1>1, <2>2 DEF PoolCoverInv, InTime
    <3>2. QED
      BY <1>2, <1>3, <1>5, <2>2, <3>1
  <2>3. CASE s # r /\ req[s].pool # pool
    <3>1. req'[s] = req[s] /\ req[s].pool \in Pools
      BY <1>1, <2>3 DEF PoolCoverInv, HoldersBound
    <3>2. QED
      BY <1>1, <2>3, <3>1 DEF PoolCoverInv, PoolSlotLasts
  <2>4. QED
    BY <2>1, <2>2, <2>3
<1>8. ASSUME NEW p \in Pools PROVE PoolCounted(p)'
  <2>1. /\ poolSlots[p].count \in Nat /\ poolSlots'[p].count \in Nat
        /\ Cardinality(PoolInFlight(p)) <= poolSlots[p].count
    BY DEF PoolCoverInv, Typed, TypeOK, SlotsTypeOK, Slot, PoolCounted
  <2>2. CASE p = pool
    <3>1. PoolInFlight(p)' = PoolInFlight(p) \cup {r} /\ r \notin PoolInFlight(p)
      BY <1>1, <2>2 DEF PoolInFlight, Holding
    <3>2. /\ Cardinality(PoolInFlight(p)) \in Nat
          /\ Cardinality(PoolInFlight(p)') = Cardinality(PoolInFlight(p)) + 1
      BY <3>1, PoolInFlightSets, RequestSets
    <3>3. Cardinality(PoolInFlight(p)) <= swept.count
      BY <1>4, <2>1, <2>2, FS_EmptySet
    <3>4. QED
      BY <1>4, <1>5, <2>2, <3>2, <3>3 DEF PoolCounted
  <2>3. CASE p # pool
    <3>1. PoolInFlight(p)' = PoolInFlight(p)
      BY <1>1, <2>3 DEF PoolInFlight, pool
    <3>2. QED
      BY <1>1, <2>1, <2>3, <3>1 DEF PoolCounted
  <2>4. QED
    BY <2>2, <2>3
<1>9. QED
  BY <1>6, <1>7, <1>8 DEF PoolCoverInv

\* A completion takes its own unit off the pool, or none, and leaves the others
\* their slot: a slot is deleted with its last unit only.
LEMMA ReleaseKeepsPool ==
  ASSUME PoolCoverInv, ReleasesOwnPool, Typed', InTime', NEW r \in Requests, Release(r)
  PROVE  PoolCoverInv'
<1> DEFINE pool == req[r].pool
<1>1. SlotsTypeOK /\ req \in [Requests -> Request]
  BY DEF PoolCoverInv, Typed, TypeOK
<1>2. /\ \A s \in Requests \ {r} : req'[s] = req[s]
      /\ req[r].pc = "usage" /\ req'[r].pc = "done"
  BY <1>1 DEF Release
<1>3. pool \in Pools /\ r \in PoolInFlight(pool)
  BY <1>2 DEF PoolCoverInv, HoldersBound, Holding, PoolInFlight
<1>4. /\ \A p \in Pools \ {pool} : poolSlots'[p] = poolSlots[p]
      /\ poolSlots'[pool] = poolSlots[pool] \/ poolSlots'[pool] = Released(poolSlots[pool])
  <2>1. req[r].usage.pool \in {NoPool, pool}
    BY DEF ReleasesOwnPool
  <2>2. poolSlots' = [p \in Pools |-> IF p = req[r].usage.pool
                                      THEN Released(poolSlots[p]) ELSE poolSlots[p]]
    BY DEF Release, ReleaseSlot
  <2>3. NoPool \notin Pools
    BY ConstantsAssumption
  <2>4. QED
    BY <1>3, <2>1, <2>2, <2>3
<1>5. \A p \in Pools : PoolInFlight(p)' \subseteq PoolInFlight(p) \ {r}
  BY <1>2 DEF PoolInFlight, Holding
<1> HIDE DEF pool
<1>6. /\ Cardinality(PoolInFlight(pool)) \in Nat
      /\ Cardinality(PoolInFlight(pool) \ {r}) = Cardinality(PoolInFlight(pool)) - 1
      /\ Cardinality(PoolInFlight(pool) \ {r}) \in Nat
      /\ Cardinality(PoolInFlight(pool)) <= poolSlots[pool].count
      /\ poolSlots[pool] \in Slot /\ poolSlots[pool].count \in Nat
  BY <1>3, PoolInFlightSets, RequestSets, PoolNumbers DEF PoolCoverInv, PoolCounted
<1>7. \/ PoolInFlight(pool) \ {r} = {}
      \/ poolSlots'[pool].expires = poolSlots[pool].expires
  <2>1. CASE poolSlots[pool].count <= 1
    <3>1. Cardinality(PoolInFlight(pool) \ {r}) = 0
      BY <1>6, <2>1
    <3>2. IsFiniteSet(PoolInFlight(pool) \ {r})
      BY PoolInFlightSets, ConstantsAssumption, FS_Subset
    <3>3. QED
      BY <3>1, <3>2, FS_EmptySet
  <2>2. CASE ~(poolSlots[pool].count <= 1)
    <3>1. Released(poolSlots[pool]).expires = poolSlots[pool].expires
      BY <1>6, <2>2 DEF Released, Slot
    <3>2. QED
      BY <1>4, <3>1
  <2>3. QED
    BY <2>1, <2>2
<1>8. HoldersBound'
  BY <1>2 DEF PoolCoverInv, HoldersBound, Holding
<1>9. ASSUME NEW s \in Requests PROVE PoolSlotLasts(s)'
  <2> SUFFICES ASSUME req'[s].pc \in Holding
      PROVE req'[s].started + SlotTTL <= poolSlots'[req'[s].pool].expires + PickBudget
    BY DEF PoolSlotLasts
  <2>1. s # r
    BY <1>2 DEF Holding
  <2>2. /\ req'[s] = req[s] /\ req[s].pc \in Holding /\ req[s].pool \in Pools
        /\ s \in PoolInFlight(req[s].pool)
    BY <1>2, <2>1 DEF PoolCoverInv, HoldersBound, PoolInFlight
  <2>3. poolSlots'[req[s].pool].expires = poolSlots[req[s].pool].expires
    <3>1. CASE req[s].pool = pool
      BY <1>7, <2>1, <2>2, <3>1
    <3>2. CASE req[s].pool # pool
      BY <1>4, <2>2, <3>2
    <3>3. QED
      BY <3>1, <3>2
  <2>4. QED
    BY <2>2, <2>3 DEF PoolCoverInv, PoolSlotLasts
<1>10. ASSUME NEW p \in Pools PROVE PoolCounted(p)'
  <2>1. /\ Cardinality(PoolInFlight(p)) \in Nat /\ Cardinality(PoolInFlight(p)') \in Nat
        /\ Cardinality(PoolInFlight(p)') <= Cardinality(PoolInFlight(p) \ {r})
        /\ Cardinality(PoolInFlight(p) \ {r}) \in Nat
        /\ Cardinality(PoolInFlight(p) \ {r}) <= Cardinality(PoolInFlight(p))
    BY <1>5, PoolInFlightSets, RequestSets
  <2>2. CASE p # pool
    BY <1>4, <2>1, <2>2, PoolNumbers DEF PoolCoverInv, PoolCounted
  <2>3. CASE p = pool
    <3>1. \/ poolSlots'[p].count = poolSlots[p].count
          \/ poolSlots'[p].count = IF poolSlots[p].count = 0 THEN 0 ELSE poolSlots[p].count - 1
      BY <1>4, <1>6, <2>3, ReleasedCount
    <3>2. QED
      BY <1>6, <2>1, <2>3, <3>1 DEF PoolCounted
  <2>4. QED
    BY <2>2, <2>3
<1>11. QED
  BY <1>8, <1>9, <1>10 DEF PoolCoverInv

\* At first nobody holds anything.
LEMMA InitPoolCover == Init => PoolCoverInv
<1> SUFFICES ASSUME Init PROVE PoolCoverInv
  OBVIOUS
<1>1. Typed
  BY InitTyped
<1>2. \A r \in Requests : req[r].pc = "idle"
  BY DEF Init, Idle
<1>3. ASSUME NEW p \in Pools PROVE PoolCounted(p)
  <2>1. PoolInFlight(p) = {}
    BY <1>2 DEF PoolInFlight, Holding
  <2>2. Cardinality(PoolInFlight(p)) = 0 /\ poolSlots[p].count \in Nat
    BY <1>1, <2>1, PoolNumbers, FS_EmptySet
  <2>3. QED
    BY <2>2 DEF PoolCounted
<1>4. InTime /\ HoldersBound /\ \A r \in Requests : PoolSlotLasts(r)
  BY <1>2 DEF InTime, HoldersBound, PoolSlotLasts, Picking, Holding
<1>5. QED
  BY <1>1, <1>3, <1>4 DEF PoolCoverInv

\* Every step keeps the invariant.
LEMMA PooledStep ==
  ASSUME Timely, ExactModels, IsFiniteSet(pending), BelowCapacity, ReleasesOwnPool, PoolCoverInv,
         [PooledNext]_vars
  PROVE  PoolCoverInv'
<1>1. Typed'
  <2>1. [Next]_vars
    BY DEF PooledNext, Next, Configure
  <2>2. QED
    BY <2>1, NextTyped DEF PoolCoverInv
<1>2. PickBudget <= Deadline /\ Typed /\ InTime
  BY DEF Timely, PoolCoverInv
<1>3. ASSUME NEW r \in Requests, Traffic(r)
      PROVE  PoolCoverInv'
  <2>1. InTime'
    BY <1>2, <1>3, TrafficInTime
  <2>2. QED
    BY <1>1, <1>3, <2>1, QuietTrafficPool, ReserveKeepsPool, ReleaseKeepsPool
<1>4. CASE UpsertPool \/ UpsertBinding \/ DeleteBinding \/ UpdateLimits \/ StatusSweep \/ Tick
           \/ UNCHANGED vars
  <2>1. UNCHANGED req
    BY <1>4 DEF UpsertPool, UpsertBinding, DeleteBinding, UpdateLimits, StatusSweep, Tick,
                vars, requestVars
  <2>2. InTime'
    <3>1. CASE Tick
      BY <1>2, <3>1, TickInTime
    <3>2. CASE ~Tick
      <4>1. UNCHANGED now
        BY <1>4, <3>2 DEF UpsertPool, UpsertBinding, DeleteBinding, UpdateLimits, StatusSweep,
                          vars, requestVars
      <4>2. QED
        BY <1>2, <2>1, <4>1 DEF InTime
    <3>3. QED
      BY <3>1, <3>2
  <2>3. \A p \in Pools : poolSlots'[p] = poolSlots[p] \/ PoolInFlight(p) = {}
    <3>1. CASE StatusSweep
      <4>1. now \in Nat /\ now <= now
        BY Numbers DEF PoolCoverInv
      <4>2. \A p \in Pools : poolSlots'[p] = poolSlots[p] \/ ~Live(poolSlots[p], now)
        BY <3>1 DEF StatusSweep, SweepExpired, SweptPool
      <4>3. QED
        BY <4>1, <4>2, SweptKeepsPool
    <3>2. CASE ~StatusSweep
      BY <1>4, <3>2 DEF UpsertPool, UpsertBinding, DeleteBinding, UpdateLimits, SetLimits, Tick,
                        vars, slotVars
    <3>3. QED
      BY <3>1, <3>2
  <2>4. QED
    BY <1>1, <2>1, <2>2, <2>3, QuietPool
<1>5. QED
  BY <1>3, <1>4 DEF PooledNext

\* What an admission sees of its pool.
LEMMA AdmissionWithinMax ==
  ASSUME Timely, PoolCoverInv, NEW r \in Requests, SelectReserve(r),
         NEW p \in Pools, req[r].pool = p, req[r].config.max # 0
  PROVE  Cardinality(PoolInFlight(p)') <= req[r].config.max
<1> DEFINE t   == req[r].started
           max == req[r].config.max
<1>1. /\ req[r].pc = "select"
      /\ \A s \in Requests \ {r} : req'[s] = req[s]
      /\ req'[r].pc = "selected" /\ req'[r].pool = p
      /\ ~PoolAtLimit(p, max, t)
  BY ReservePoolEffect
<1>2. t \in Nat /\ t <= now
  BY <1>1, Numbers DEF PoolCoverInv, InTime, Picking
<1>3. max \in Nat \ {0}
  BY DEF PoolCoverInv, Typed, TypeOK, Request, PoolConfig
<1>4. ~(Load(poolSlots[p], t) >= max)
  BY <1>1, <1>3 DEF PoolAtLimit
<1>5. /\ PoolInFlight(p)' = PoolInFlight(p) \cup {r}
      /\ r \notin PoolInFlight(p)
  BY <1>1 DEF PoolInFlight, Holding
<1> HIDE DEF t, max
<1>6. /\ Cardinality(PoolInFlight(p)) \in Nat
      /\ Cardinality(PoolInFlight(p)') = Cardinality(PoolInFlight(p)) + 1
  BY <1>5, PoolInFlightSets, RequestSets
<1>7. Cardinality(PoolInFlight(p)) < max
  <2>1. Cardinality(PoolInFlight(p)) <= poolSlots[p].count /\ poolSlots[p].count \in Nat
    BY <1>1, PoolNumbers DEF PoolCoverInv, PoolCounted
  <2>2. CASE Live(poolSlots[p], t)
    BY <1>3, <1>4, <1>6, <2>1, <2>2 DEF Load
  <2>3. CASE ~Live(poolSlots[p], t)
    <3>1. Cardinality(PoolInFlight(p)) = 0
      BY <1>1, <1>2, <2>3, SweptKeepsPool, FS_EmptySet
    <3>2. QED
      BY <1>3, <3>1
  <2>4. QED
    BY <2>2, <2>3
<1>8. Cardinality(PoolInFlight(p)') <= max
  BY <1>3, <1>6, <1>7
<1>9. QED
  BY <1>8 DEF max

\* The concurrency limits of the pools hold: whenever a pick is admitted, the
\* requests in flight in its pool, this one included, are within the
\* max_concurrency that the pick read (selectAndReserve against concurrent
\* picks and completions, changes of max_concurrency and slow handlers).
THEOREM PoolMaxHolds ==
  ASSUME Timely, RemembersLongEnough, ExactModels
  PROVE  Init /\ [][PooledNext /\ NoRebinding]_vars /\ []BelowCapacity
           => AdmitsWithinPoolMax
<1> DEFINE Admitted ==
      \A r \in Requests, p \in Pools :
        LET max == req[r].config.max
        IN  (req[r].pc = "select" /\ req'[r].pc = "selected" /\ req[r].pool = p) =>
              max = 0 \/ Cardinality(PoolInFlight(p)') <= max
<1>1. [PooledNext /\ NoRebinding]_vars => [AttributedNext /\ NoRebinding]_vars
  BY DEF PooledNext, AttributedNext, Configure
<1>2. Init /\ [][AttributedNext /\ NoRebinding]_vars /\ []BelowCapacity
        => [](OwnerInv /\ OwnPoolInv)
  BY OwnPoolInvariant
<1>3. OwnerInv /\ OwnPoolInv /\ BelowCapacity /\ PoolCoverInv /\ [PooledNext /\ NoRebinding]_vars
        => PoolCoverInv'
  <2> SUFFICES ASSUME OwnerInv, OwnPoolInv, BelowCapacity, PoolCoverInv,
                      [PooledNext /\ NoRebinding]_vars
               PROVE  PoolCoverInv'
    OBVIOUS
  <2>1. [PooledNext]_vars
    OBVIOUS
  <2>2. IsFiniteSet(pending) /\ ReleasesOwnPool
    BY DEF OwnerInv, Listed, OwnPoolInv
  <2>3. QED
    BY <2>1, <2>2, PooledStep
<1>4. PoolCoverInv /\ [PooledNext /\ NoRebinding]_vars => Admitted
  <2> SUFFICES ASSUME PoolCoverInv, [PooledNext /\ NoRebinding]_vars,
                      NEW r \in Requests, NEW p \in Pools,
                      req[r].pc = "select", req'[r].pc = "selected", req[r].pool = p
               PROVE  req[r].config.max = 0 \/ Cardinality(PoolInFlight(p)') <= req[r].config.max
    OBVIOUS
  <2>1. [MeteredNext]_vars
    BY DEF PooledNext, MeteredNext, Configure
  <2>2. SelectReserve(r)
    BY <2>1, OnlyReserveSelects DEF PoolCoverInv
  <2>3. QED
    BY <2>2, AdmissionWithinMax
<1>5. QED
  BY <1>1, <1>2, <1>3, <1>4, InitPoolCover, PTL DEF AdmitsWithinPoolMax

-----------------------------------------------------------------------------
(* The conditions are met when nothing is configured and the list has      *)
(* room for every request there ever is.                                   *)

\* Requests that have been remembered, if they were bound.
Answered == {r \in Requests : req[r].pc \in {"inflight", "usage", "done", "lost"}}

\* No request is remembered twice.
RoomInv ==
  /\ Typed
  /\ IsFiniteSet(pending)
  /\ Cardinality(pending) <= Cardinality(Answered)

\* Every step keeps it: each selection that is added is of another request.
LEMMA RoomStep ==
  ASSUME RoomInv, [SteadyNext]_vars
  PROVE  RoomInv'
<1>1. Typed'
  <2>1. [Next]_vars
    BY DEF SteadyNext, Next
  <2>2. QED
    BY <2>1, NextTyped DEF RoomInv
<1>2. /\ Answered \in SUBSET Requests /\ Answered' \in SUBSET Requests
      /\ IsFiniteSet(pending) /\ Cardinality(pending) \in Nat
      /\ Cardinality(Answered) \in Nat /\ Cardinality(Answered') \in Nat
  BY RequestSets, EntrySets DEF Answered, RoomInv
<1>3. ASSUME pending' \subseteq pending, Answered \subseteq Answered'
      PROVE  RoomInv'
  <2>1. /\ IsFiniteSet(pending') /\ Cardinality(pending') \in Nat
        /\ Cardinality(pending') <= Cardinality(pending)
    BY <1>2, <1>3, EntrySets
  <2>2. Cardinality(Answered) <= Cardinality(Answered')
    BY <1>2, <1>3, RequestSets
  <2>3. Cardinality(pending') <= Cardinality(Answered')
    BY <1>2, <2>1, <2>2 DEF RoomInv
  <2>4. QED
    BY <1>1, <2>1, <2>3 DEF RoomInv
<1>4. ASSUME NEW r \in Requests, Traffic(r)
      PROVE  RoomInv'
  <2>1. Typed /\ req \in [Requests -> Request] /\ \A s \in Requests \ {r} : req'[s] = req[s]
    BY <1>4, TrafficEffect DEF RoomInv, Typed, TypeOK
  <2>2. CASE RememberSelection(r)
    <3>1. PICK new : pending' \subseteq pending \cup {new}
      BY <2>2 DEF RememberSelection, Remember, Unexpired
    <3>2. req[r].pc = "selected" /\ req'[r].pc = "inflight"
      BY <2>1, <2>2 DEF RememberSelection, Request
    <3>3. Answered' = Answered \cup {r} /\ r \notin Answered
      BY <2>1, <3>2 DEF Answered
    <3>4. Cardinality(Answered') = Cardinality(Answered) + 1
      BY <1>2, <3>3, RequestSets
    <3>5. /\ IsFiniteSet(pending \cup {new})
          /\ Cardinality(pending \cup {new}) \in Nat
          /\ Cardinality(pending \cup {new}) <= Cardinality(pending) + 1
      <4>1. CASE new \in pending
        <5>1. pending \cup {new} = pending
          BY <4>1
        <5>2. QED
          BY <1>2, <5>1
      <4>2. CASE new \notin pending
        <5>1. /\ IsFiniteSet(pending \cup {new})
              /\ Cardinality(pending \cup {new}) = Cardinality(pending) + 1
          BY <1>2, <4>2, FS_AddElement
        <5>2. QED
          BY <1>2, <5>1
      <4>3. QED
        BY <4>1, <4>2
    <3>6. /\ IsFiniteSet(pending') /\ Cardinality(pending') \in Nat
          /\ Cardinality(pending') <= Cardinality(pending \cup {new})
      BY <3>1, <3>5, EntrySets
    <3>7. Cardinality(pending') <= Cardinality(Answered')
      BY <1>2, <3>4, <3>5, <3>6 DEF RoomInv
    <3>8. QED
      BY <1>1, <3>6, <3>7 DEF RoomInv
  <2>3. CASE Complete(r)
    <3>1. PICK u : req' = [req EXCEPT ![r].pc = "usage", ![r].usage = u]
      BY <2>3, Zenon DEF Complete
    <3>2. req'[r].pc = "usage"
      BY <2>1, <3>1 DEF Request
    <3>3. pending' \subseteq pending
      BY <2>3 DEF Complete, TakeOwner, Unexpired
    <3>4. Answered \subseteq Answered'
      BY <2>1, <3>2 DEF Answered
    <3>5. QED
      BY <1>3, <3>3, <3>4
  <2>4. CASE UNCHANGED pendingVars /\ (Begins(r) \/ Refuses(r) \/ Continues(r))
    <3>1. Answered \subseteq Answered'
      BY <2>1, <2>4 DEF Answered, Begins, Refuses, Continues
    <3>2. QED
      BY <1>3, <2>4, <3>1 DEF pendingVars
  <2>5. QED
    BY <1>4, <2>1, <2>2, <2>3, <2>4, TrafficEffect
<1>5. CASE StatusSweep \/ Tick \/ UNCHANGED vars
  <2>1. UNCHANGED <<req, pendingVars>>
    BY <1>5 DEF StatusSweep, Tick, vars, requestVars, pendingVars
  <2>2. QED
    BY <1>3, <2>1 DEF Answered, pendingVars
<1>6. QED
  BY <1>4, <1>5 DEF SteadyNext

\* The list has room for a request that is not in it yet.
LEMMA HasRoom ==
  ASSUME Cardinality(Requests) <= PendingCapacity, RoomInv
  PROVE  BelowCapacity
<1> SUFFICES ASSUME NEW r \in Requests, req[r].pc = "selected", NEW t \in req[r].started..now
             PROVE  Cardinality(Unexpired(t)) < PendingCapacity
  BY DEF BelowCapacity
<1>1. /\ Cardinality(Unexpired(t)) \in Nat /\ Cardinality(pending) \in Nat
      /\ Cardinality(Unexpired(t)) <= Cardinality(pending)
  BY EntrySets DEF RoomInv, Unexpired
<1>2. Answered \in SUBSET Requests /\ r \notin Answered
  BY DEF Answered
<1>3. /\ Cardinality(Answered) \in Nat /\ Cardinality(Answered \cup {r}) = Cardinality(Answered) + 1
      /\ Cardinality(Answered \cup {r}) <= Cardinality(Requests)
      /\ Cardinality(Requests) \in Nat
  BY <1>2, RequestSets
<1>4. PendingCapacity \in Nat
  BY PendingAssumption
<1>5. QED
  BY <1>1, <1>3, <1>4 DEF RoomInv

\* With no management call, and a list with room for all requests, owners and
\* pools are right and the pools' limits hold, whatever the order in which the
\* handlers of all requests interleave (the environment of the run Steady).
THEOREM SteadyIsAttributed ==
  ASSUME Timely, RemembersLongEnough, ExactModels, Cardinality(Requests) <= PendingCapacity
  PROVE  SteadySpec => [](AttributionSound /\ ReleasesOwnPool) /\ AdmitsWithinPoolMax
<1>1. Init => RoomInv
  <2> SUFFICES ASSUME Init PROVE RoomInv
    OBVIOUS
  <2>1. pending = {} /\ Typed
    BY InitTyped DEF Init, PendingInit
  <2>2. Cardinality(Answered) \in Nat
    BY RequestSets DEF Answered
  <2>3. QED
    BY <2>1, <2>2, FS_EmptySet DEF RoomInv
<1> DEFINE Settled == RoomInv /\ \A k \in Keys : bindings[k] \in {InitialBindings[k], NoPool}
<1>2. Init => Settled
  BY <1>1 DEF Init
<1>3. Settled /\ [SteadyNext]_vars => Settled' /\ [PooledNext /\ NoRebinding]_vars
  <2> SUFFICES ASSUME Settled, [SteadyNext]_vars
               PROVE  Settled' /\ [PooledNext /\ NoRebinding]_vars
    OBVIOUS
  <2>1. RoomInv'
    BY RoomStep
  <2>2. UNCHANGED bindings
    BY TrafficEffect DEF SteadyNext, StatusSweep, Tick, vars, confVars, RoomInv
  <2>3. [PooledNext]_vars
    BY DEF SteadyNext, PooledNext
  <2>4. QED
    BY <2>1, <2>2, <2>3 DEF NoRebinding
<1>4. Settled => BelowCapacity
  BY HasRoom
<1>5. [PooledNext /\ NoRebinding]_vars => [AttributedNext]_vars
  BY DEF PooledNext, AttributedNext, Configure
<1>6. [PooledNext /\ NoRebinding]_vars => [AttributedNext /\ NoRebinding]_vars
  BY DEF PooledNext, AttributedNext, Configure
<1> HIDE DEF Settled
<1>7. SteadySpec => [][PooledNext /\ NoRebinding]_vars /\ []BelowCapacity /\ Init
  BY <1>2, <1>3, <1>4, PTL DEF SteadySpec
<1>8. QED
  BY <1>5, <1>6, <1>7, OwnersAreRight, PoolsAreOwn, PoolMaxHolds, PTL
=============================================================================
