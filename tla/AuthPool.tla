------------------------------ MODULE AuthPool ------------------------------
(***************************************************************************)
(* The life of a request in the plugin, composed from the concurrency      *)
(* ledger (Slots), the pending selections (Pending) and the round-robin    *)
(* cursors (Cursors).  The host calls scheduler.pick and, when the request *)
(* is over, usage.handle, from as many threads as it likes; each handler   *)
(* takes App.mu, App.schedulerMu and App.pendingMu one after the other, so *)
(* one action below is one critical section, and the handlers interleave   *)
(* between them.  Management handlers change the same state at any time.   *)
(*                                                                         *)
(* The rest of pickScheduler's filter (membership, status, cooldowns,      *)
(* priorities) is abstracted by Offers: for a pool, the outcomes the       *)
(* filter may have, each a sequence of priority groups, best first, each   *)
(* group a sequence of accounts in the order of their ids.                 *)
(***************************************************************************)
EXTENDS Slots, Pending, Cursors

CONSTANTS
  Requests,         \* requests of the host, each made once
  NoPool, NoKey, NoAuth,
  TierIn,           \* the tier of each account as each pool sees it
  Offers,           \* the outcomes of the filter, for each pool
  ReportedAs,       \* the model names a completion may report for each model
  InitialPools,     \* the pools at first: a function on their ids
  ConfigChoices,    \* what upsertPool may write
  InitialBindings,
  InitialLimits, LimitChoices,
  PickBudget,       \* how long a pick may run
  Deadline,         \* how long after its pick a request may be in flight
  LastPick,         \* no pick starts after it
  MaxTime           \* the clock stops here

VARIABLES
  now,
  pools,            \* state.Pools: a function on the ids of the existing pools
  bindings,         \* state.KeyBindings
  req               \* the requests, with the locals of their handlers

confVars == <<pools, bindings>>
vars == <<now, slots, poolSlots, limits, pending, nextAttributionID, cursors,
          pools, bindings, req>>

PoolConfig == [max : Nat, strategy : Strategies]
NoConfig   == [max |-> 0, strategy |-> "round-robin"]
Group      == [priority : Nat, order : Seq(Auths)]
CursorKeys == Pools \X Models \X Nat

\* What the completion handler learnt: the owner, the pool and the linked id.
Usage        == [key : Keys \cup {NoKey}, pool : Pools \cup {NoPool}, id : Nat]
Unattributed == [key |-> NoKey, pool |-> NoPool, id |-> 0]

\* pc: the section the request's handler is about to enter, or how it ended.
\*   offset, select   picking, in the loop over the groups
\*   selected         reserved, not yet remembered as pending
\*   inflight         upstream       usage   completed, not yet released
Picking == {"offset", "select", "selected"}
Holding == {"selected", "inflight", "usage"}
PCs     == {"idle", "inflight", "usage", "done", "lost", "blocked", "busy"} \cup Picking

Request ==
  [pc : PCs, key : Keys \cup {NoKey}, model : Models, started : Nat,
   pool : Pools \cup {NoPool}, config : PoolConfig,
   groups : Seq(Group), at : Nat \ {0}, offset : Nat, passedOver : BOOLEAN,
   auth : Auths \cup {NoAuth}, id : Nat, usage : Usage]

\* Every part of the state has its type: counters never fall below zero, ids of
\* pools and accounts are known, cursors stay below their wrap.
TypeOK ==
  /\ now \in Nat
  /\ SlotsTypeOK
  /\ PendingTypeOK(Auths, Pools)
  /\ CursorsTypeOK(CursorKeys)
  /\ DOMAIN pools \subseteq Pools /\ pools \in [DOMAIN pools -> PoolConfig]
  /\ bindings \in [Keys -> Pools \cup {NoPool}]
  /\ req \in [Requests -> Request]

ASSUME ConstantsAssumption ==
  /\ IsFiniteSet(Requests)
  /\ NoPool \notin Pools /\ NoKey \notin Keys /\ NoAuth \notin Auths
  /\ Pools # {} /\ Models # {}
  /\ TierIn \in [Pools -> [Auths -> Tiers \cup {NoTier}]]
  /\ \A p \in DOMAIN Offers : Offers[p] \subseteq Seq(Group)
  /\ DOMAIN Offers = Pools
  /\ \A p \in Pools : \A offer \in Offers[p] : \A i \in DOMAIN offer : offer[i].order # <<>>
  /\ ReportedAs \in [Models -> SUBSET Models]
  /\ DOMAIN InitialPools \subseteq Pools
  /\ InitialPools \in [DOMAIN InitialPools -> PoolConfig]
  /\ ConfigChoices \subseteq PoolConfig
  /\ InitialBindings \in [Keys -> Pools \cup {NoPool}]
  /\ InitialLimits \in [Tiers -> Nat] /\ LimitChoices \subseteq [Tiers -> Nat]
  /\ PickBudget \in Nat /\ Deadline \in Nat /\ LastPick \in Nat /\ MaxTime \in Nat

Idle ==
  [pc |-> "idle", key |-> NoKey, model |-> CHOOSE m \in Models : TRUE, started |-> 0,
   pool |-> NoPool, config |-> NoConfig, groups |-> <<>>, at |-> 1, offset |-> 0,
   passedOver |-> FALSE, auth |-> NoAuth, id |-> 0, usage |-> Unattributed]

Init ==
  /\ now = 0
  /\ SlotsInit(InitialLimits)
  /\ PendingInit
  /\ CursorsInit
  /\ pools = InitialPools
  /\ bindings = InitialBindings
  /\ req = [r \in Requests |-> Idle]

-----------------------------------------------------------------------------
(* scheduler.pick                                                          *)

\* The time a pick works with was read when it started: by the time it takes
\* its snapshot, that may be up to PickBudget ago.
Started(t) == t <= now /\ now <= t + PickBudget

\* A key without binding is left to the host, which may use any account.  The
\* plugin reserves nothing, but will see the completion.
PickUnbound(r) ==
  /\ req[r].pc = "idle" /\ now <= LastPick
  /\ \E k \in Keys, m \in Models, a \in Auths :
       /\ bindings[k] = NoPool
       /\ req' = [req EXCEPT ![r] = [Idle EXCEPT
            !.pc = "inflight", !.key = k, !.model = m, !.started = now, !.auth = a]]
  /\ UNCHANGED <<now, slotVars, pendingVars, cursors, confVars>>

\* A trusted request of an unbound key, a key whose pool is gone, and a pool
\* with no eligible account for the model are refused.
PickRefused(r) ==
  /\ req[r].pc = "idle" /\ now <= LastPick
  /\ \E k \in Keys :
       /\ bindings[k] \in DOMAIN pools => <<>> \in Offers[bindings[k]]
       /\ req' = [req EXCEPT ![r].pc = "blocked", ![r].key = k]
  /\ UNCHANGED <<now, slotVars, pendingVars, cursors, confVars>>

\* Binding and pool are copied under one read lock; the loop works on the copy.
PickBound(r) ==
  /\ req[r].pc = "idle" /\ now <= LastPick
  /\ \E k \in Keys, m \in Models, t \in 0..now :
       /\ Started(t)
       /\ bindings[k] \in DOMAIN pools
       /\ \E offer \in Offers[bindings[k]] \ {<<>>} :
            req' = [req EXCEPT ![r] = [Idle EXCEPT
              !.pc = "offset", !.key = k, !.model = m, !.started = t, !.pool = bindings[k],
              !.config = pools[bindings[k]], !.groups = offer]]
  /\ UNCHANGED <<now, slotVars, pendingVars, cursors, confVars>>

GroupOf(r)    == req[r].groups[req[r].at]
TiersOf(r)    == TierIn[req[r].pool]
CursorKey(r)  == <<req[r].pool, req[r].model, GroupOf(r).priority>>

TakeOffset(r) ==
  LET size == Len(GroupOf(r).order)
      rr   == req[r].config.strategy = "round-robin"
  IN  /\ req[r].pc = "offset"
      /\ IF rr THEN AdvanceCursor(CursorKey(r), size) ELSE UNCHANGED cursors
      /\ req' = [req EXCEPT ![r].pc = "select",
                   ![r].offset = IF rr THEN NextOffset(CursorKey(r), size) ELSE 0]
      /\ UNCHANGED <<now, slotVars, pendingVars, confVars>>

\* Fault: a full group is tried again.
SameGroup(r, hadRoom) == req' = [req EXCEPT ![r].pc = "offset"]

\* The group gave no account: the next one is tried, or the pool is busy.
\* passedOver is a history variable: some group had an account with room.
NextGroup(r, hadRoom) ==
  req' = [req EXCEPT
    ![r].pc = IF req[r].at < Len(req[r].groups) THEN "offset" ELSE "busy",
    ![r].at = IF @ < Len(req[r].groups) THEN @ + 1 ELSE @,
    ![r].passedOver = @ \/ hadRoom]

SelectPoolFull(r) ==
  /\ req[r].pc = "select"
  /\ BouncePoolFull(req[r].pool, req[r].config.max, req[r].started)
  /\ NextGroup(r, Open(GroupOf(r).order, TiersOf(r), req[r].started) # {})
  /\ UNCHANGED <<now, pendingVars, cursors, confVars>>

SelectGroupFull(r) ==
  /\ req[r].pc = "select"
  /\ BounceGroupFull(GroupOf(r).order, TiersOf(r), req[r].pool, req[r].config.max, req[r].started)
  /\ NextGroup(r, FALSE)
  /\ UNCHANGED <<now, pendingVars, cursors, confVars>>

SelectReserve(r) ==
  /\ req[r].pc = "select"
  /\ \E i \in DOMAIN GroupOf(r).order :
       /\ Reserve(i, GroupOf(r).order, TiersOf(r), req[r].pool, req[r].config.max,
                  req[r].config.strategy, req[r].offset, req[r].started)
       /\ req' = [req EXCEPT ![r].pc = "selected", ![r].auth = GroupOf(r).order[i]]
  /\ UNCHANGED <<now, pendingVars, cursors, confVars>>

\* The selection becomes pending before the host is answered.  Its time was read
\* before the mutex was waited for, somewhere in the course of the pick.
RememberSelection(r) ==
  /\ req[r].pc = "selected"
  /\ \E t \in req[r].started..now :
       Remember(req[r].key, req[r].pool, req[r].auth, req[r].model, t)
  /\ req' = [req EXCEPT ![r].pc = "inflight", ![r].id = nextAttributionID + 1]
  /\ UNCHANGED <<now, slotVars, cursors, confVars>>

-----------------------------------------------------------------------------
(* usage.handle                                                            *)

\* The completion carries the account and a model, but nothing that names the
\* request; the owner is looked up among the pending selections that have not
\* expired by the time that was read before the mutex was waited for.
Complete(r) ==
  /\ req[r].pc = "inflight"
  /\ \E m \in ReportedAs[req[r].model], t \in req[r].started..now :
       LET matching == Matching(req[r].auth, m, t)
           owner    == Oldest(matching)
       IN  /\ TakeOwner(req[r].auth, m, t)
           /\ req' = [req EXCEPT ![r].pc = "usage", ![r].usage =
                IF OneOwner(matching)
                THEN [key |-> owner.key, pool |-> owner.pool, id |-> AttributedID(matching)]
                ELSE Unattributed]
  /\ UNCHANGED <<now, slotVars, cursors, confVars>>

Release(r) ==
  /\ req[r].pc = "usage"
  /\ ReleaseSlot(req[r].auth, req[r].usage.pool)
  /\ req' = [req EXCEPT ![r].pc = "done"]
  /\ UNCHANGED <<now, pendingVars, cursors, confVars>>

\* The host never reports this request.
Abandon(r) ==
  /\ req[r].pc = "inflight"
  /\ req' = [req EXCEPT ![r].pc = "lost"]
  /\ UNCHANGED <<now, slotVars, pendingVars, cursors, confVars>>

-----------------------------------------------------------------------------
(* Management.  Routes that answer with the status end with StatusSweep, a *)
(* critical section of its own that a failed save skips.                   *)

requestVars == <<now, cursors, req>>

ClearEvents ==
  /\ ForgetAll
  /\ UNCHANGED <<slotVars, confVars, requestVars>>

DeleteConcurrencySlot ==
  /\ ResetAllSlots \/ \E a \in Auths : ResetSlot(a)
  /\ UNCHANGED <<pendingVars, confVars, requestVars>>

UpdateLimits ==
  /\ \E next \in LimitChoices : SetLimits(next)
  /\ UNCHANGED <<pendingVars, confVars, requestVars>>

StatusSweep ==
  /\ SweepExpired(now)
  /\ UNCHANGED <<pendingVars, confVars, requestVars>>

UpsertPool ==
  /\ \E p \in Pools, c \in ConfigChoices :
       pools' = [q \in DOMAIN pools \cup {p} |-> IF q = p THEN c ELSE pools[q]]
  /\ UNCHANGED <<bindings, slotVars, pendingVars, requestVars>>

\* The pool goes with its slot and with every binding to it.
DeletePool ==
  /\ \E p \in Pools :
       /\ pools' = [q \in DOMAIN pools \ {p} |-> pools[q]]
       /\ bindings' = [k \in Keys |-> IF bindings[k] = p THEN NoPool ELSE bindings[k]]
       /\ DropPoolSlot(p)
  /\ UNCHANGED <<pendingVars, requestVars>>

\* A key may be bound to a pool that does not exist.
UpsertBinding ==
  /\ \E k \in Keys, p \in Pools : bindings' = [bindings EXCEPT ![k] = p]
  /\ UNCHANGED <<pools, slotVars, pendingVars, requestVars>>

DeleteBinding ==
  /\ \E k \in Keys : bindings' = [bindings EXCEPT ![k] = NoPool]
  /\ UNCHANGED <<pools, slotVars, pendingVars, requestVars>>

-----------------------------------------------------------------------------
\* The clock does not leave a pick behind by more than PickBudget, nor a
\* request in flight by more than Deadline.
Tick ==
  /\ now < MaxTime
  /\ \A r \in Requests :
       /\ req[r].pc \in Picking => now < req[r].started + PickBudget
       /\ req[r].pc \in {"inflight", "usage"} => now < req[r].started + Deadline
  /\ now' = now + 1
  /\ UNCHANGED <<slotVars, pendingVars, cursors, confVars, req>>

\* What the plugin does for a bound request once it is called.
Handle(r) ==
  \/ TakeOffset(r) \/ SelectPoolFull(r) \/ SelectGroupFull(r) \/ SelectReserve(r)
  \/ RememberSelection(r) \/ Release(r)

Traffic(r) == PickRefused(r) \/ PickBound(r) \/ Handle(r) \/ Complete(r) \/ Abandon(r)

Configure == UpsertPool \/ DeletePool \/ UpsertBinding \/ DeleteBinding

Next ==
  \/ \E r \in Requests : Traffic(r) \/ PickUnbound(r)
  \/ Configure \/ UpdateLimits \/ DeleteConcurrencySlot \/ ClearEvents \/ StatusSweep
  \/ Tick

Spec == Init /\ [][Next]_vars

\* Nobody but bound requests uses the accounts, and no slot is reset by hand.
MeteredNext ==
  \/ \E r \in Requests : Traffic(r)
  \/ Configure \/ UpdateLimits \/ ClearEvents \/ StatusSweep
  \/ Tick

MeteredSpec == Init /\ [][MeteredNext]_vars

\* And no management call changes anything.
SteadyNext == (\E r \in Requests : Traffic(r)) \/ StatusSweep \/ Tick

SteadySpec == Init /\ [][SteadyNext]_vars

\* A handler that was called runs to its end, and the host's request ends one
\* way or the other; nothing says that there will be another request.
Fairness ==
  /\ \A r \in Requests : WF_vars(Handle(r)) /\ WF_vars(Complete(r) \/ Abandon(r))
  /\ WF_vars(Tick)

FairSpec == SteadySpec /\ Fairness
-----------------------------------------------------------------------------
(* Who holds what.                                                         *)

Metered(r) == req[r].pool # NoPool /\ TierIn[req[r].pool][req[r].auth] # NoTier

\* Requests that use the account, or the pool, and have not been released.
InFlight(a)     == {r \in Requests : req[r].pc \in Holding /\ req[r].auth = a /\ Metered(r)}
PoolInFlight(p) == {r \in Requests : req[r].pc \in Holding /\ req[r].pool = p}

\* And those that never will be, because the host lost them or because their
\* completion did not name the pool.
Unreleased(a) ==
  InFlight(a) \cup {r \in Requests : req[r].pc = "lost" /\ req[r].auth = a /\ Metered(r)}

PoolUnreleased(p) ==
  PoolInFlight(p) \cup
  {r \in Requests : /\ req[r].pool = p
                    /\ \/ req[r].pc = "lost"
                       \/ req[r].pc = "done" /\ req[r].usage.pool # p}

-----------------------------------------------------------------------------
(* Properties                                                              *)

\* The ledger never charges an account for more requests than have reserved it
\* and not released it, whatever completes, expires or is reset in between
\* (selectAndReserve, releaseConcurrencySlot).
NoPhantomLoad == \A a \in Auths : slots[a].count <= Cardinality(Unreleased(a))

\* The same for a pool: every unit on its slot is one request's.
NoPhantomPoolLoad == \A p \in Pools : poolSlots[p].count <= Cardinality(PoolUnreleased(p))

\* A pending selection is linked to one completion at most: two completions
\* never carry the same attribution id (pendingSelectionAttribution).
LinkedOnce ==
  \A r, s \in Requests :
    r # s /\ req[r].usage.id # 0 => req[r].usage.id # req[s].usage.id

\* The ledger sees every metered request in flight, and its slot outlives it:
\* only so can the limit check of a later pick be trusted.
LedgerCovers ==
  /\ \A a \in Auths : Cardinality(InFlight(a)) <= slots[a].count
  /\ \A r \in Requests : req[r].pc \in Holding /\ Metered(r) => Live(slots[req[r].auth], now)

\* A pick admits a request to an account only while the account's requests in
\* flight, of all pools together, stay within the limit then in force.
AdmitsWithinLimit ==
  [][\A r \in Requests, a \in Auths :
       LET tier == TiersOf(r)[a]
       IN  (req[r].pc = "select" /\ req'[r].pc = "selected" /\ req'[r].auth = a) =>
             \/ tier = NoTier
             \/ LimitOf(tier) = 0
             \/ Cardinality(InFlight(a)') <= LimitOf(tier)]_vars

\* A pick admits a request to its pool only while the pool's requests in flight
\* stay within max_concurrency.
AdmitsWithinPoolMax ==
  [][\A r \in Requests, p \in Pools :
       LET max == req[r].config.max
       IN  (req[r].pc = "select" /\ req'[r].pc = "selected" /\ req[r].pool = p) =>
             max = 0 \/ Cardinality(PoolInFlight(p)') <= max]_vars

\* A completion that is attributed is attributed to the key that made the request.
AttributionSound ==
  \A r \in Requests : req[r].usage.key \in {NoKey, req[r].key}

\* A completion releases the slot of the pool that its request reserved, or none.
ReleasesOwnPool ==
  \A r \in Requests : req[r].usage.pool \in {NoPool, req[r].pool}

\* A request moves on to a lower priority group only because every account of
\* the better group was full, not because its pool was full for a moment.
PreferredFirst ==
  \A r \in Requests : req[r].pc \in Holding => ~req[r].passedOver

\* A pool's slot counts a request for its time in flight or for SlotTTL after
\* its pick, never longer: what an unattributed completion leaks is bounded.
PoolLeakBounded ==
  \A p \in Pools :
    Load(poolSlots[p], now) <=
      Cardinality({r \in PoolUnreleased(p) :
                     req[r].pc \in Holding \/ now < req[r].started + SlotTTL})

\* Every pick that has begun is answered: the loop over the groups ends.
PicksEnd == \A r \in Requests : req[r].pc \in Picking ~> req[r].pc \notin Picking

\* Once the traffic stops, no account and no pool stays charged for ever: what
\* lost and unattributed requests left behind goes with the expiry of the slot.
LeaksHeal ==
  <>[](/\ \A a \in Auths : Load(slots[a], now) = 0
       /\ \A p \in Pools : Load(poolSlots[p], now) = 0)
=============================================================================
