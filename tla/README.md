# CPA-Auth-Pool-Plugin in TLA+

The plugin is a Go library that a proxy ("the host") loads. For each request the host calls
`scheduler.pick` to have an upstream account chosen from the pool that the request's API key is
bound to, and `usage.handle` when the request is over. Administrators change pools, bindings,
limits and priorities through management routes at any time. The host calls from several threads;
the plugin guards its state with five mutexes, and a handler takes them one after the other, for
one section each; only saving holds one (`saveMu`) while it takes another (`mu`).

This directory holds a model of that behaviour, model-checked with TLC on small instances, and
theorems about it, proved with TLAPS for all values of the constants.

## 1. Inventory

| component | state | operations | what makes it correct |
|---|---|---|---|
| Concurrency ledger (`concurrency.go`) | a slot per account, a slot per pool, limits per tier (`App.mu`) | reserve, release, sweep, reset, set limits | limits hold for what is in flight; nothing is charged that was not reserved; what is lost heals |
| Scheduler pick (`app.go`) | none of its own; locals between critical sections | snapshot, group loop, reserve, remember | every pick is answered; preferred group first; pool maximum |
| Round-robin cursors (`app.go`) | table of at most 4096 cursors (`schedulerMu`) | next cursor | stays in range across reset and wrap |
| Pending selections (`events.go`) | list of at most 500 entries, 30 minutes (`pendingMu`) | remember, attribute, clear | the right key and pool, one completion per selection |
| Usage completion (`concurrency.go`) | none of its own | attribute, release, cooldowns | releases exactly what its request reserved |
| Event log (`events.go`) | ring buffer of 500 (`eventsMu`) | record, read, clear | the newest events, in order |
| Persistence (`app.go`, `management.go`) | the state file (`saveMu`) | save, load, edit-then-apply | acknowledged is durable; no lost update; no stale overwrite |
| Management API (`management.go`) | the policy: pools, bindings, proxy keys, auth models, account types, priorities (`App.mu`) | one route for each of the above | partial payloads keep what they leave out; every request is answered |
| Cooldowns (`concurrency.go`) | failure cooldown per account, model cooldown per account and model (`App.mu`) | set, delete on success, sweep | a cooling account is not picked; a cooldown neither ends early nor lasts without bound |
| Candidate filter, priorities (`app.go`) | none | membership, tiers, eligibility, rank, reason | pools do not mix tiers; one rank per type; fail closed |
| Router (`router.go`), model catalogue (`models.go`) | none | answer for a key and model | they agree with the scheduler |
| Failure classification (`events.go`) | none | error body to code | 429 and network failures cool the account, unsupported models the pair |
| C ABI (`main.go`, `types.go`) | none | marshalling | |

How they meet: a pick reads binding and pool under `App.mu` and then works on the copy. For each
priority group it takes an offset under `schedulerMu` and calls
`selectAndReserveConcurrencyCandidate` under `App.mu`; after a reservation it adds the selection to
the pending list under `pendingMu`. A completion first looks up its owner under `pendingMu`, then
releases the account's slot and, if attribution named one, the pool's slot under `App.mu`. The
completion carries an account and a model but no request id, so everything it does depends on
guessing the request it belongs to. Clearing the events also clears the pending list. Deleting a
pool deletes its slot. Any route that changes state saves all of it.

Before that, `model.route` has answered for the same request, from its own reading of keys and
policy, and the catalogue filter has shown the user which models there are. A pick first sweeps
each of the two cooldown tables with the time it read, reads the keys from the headers anew, checks
whether a proxy key vouches for a helper's header, and then copies binding, pool, models, types,
priorities and cooldowns under one read lock. A completion, after its release, updates the account's
cooldown and the cooldown of the model that upstream reports, each in a section of its own. Requests
that the plugin leaves to the host are completed in the same way.

What is hard: the interleaving of these sections, the missing request id, the single expiry that
all units of a slot share, clocks that are read long before they are used, late successes that
meet newer failures, three entry points that decide the same question apart, the two orders in
which memory and file are changed, a state file that is named before it is read, and crashes
between any two of these steps. The list, with
lines, is under "hazards" in `PROJECT.json`.

## 2. Modules

```
Slots    Pending    Cursors
     \      |      /
        AuthPool ----------- MCAuthPool
            |
      AuthPoolProofs - AuthPoolLedger - AuthPoolAttribution (theorems)

Slots - SelectOnce <= SelectionLoop - MCSelectionLoop       (<= : is implemented by)
                           |
                 SelectionLoopProofs                        (theorems)

BoundedLog <= EventLog - EventLogProofs                     (theorems)

Candidates   Cooldowns
         \    /
         Policy
           |
       Admission ----------- MCAdmission
           |
     AdmissionTypes - AdmissionProofs                       (theorems)

Persistence ---------------- MCPersistence
      |
PersistenceProofs                                           (theorems)
```

* **Slots** - the ledger. A missing map entry is `NoSlot`, the Go zero value. Each operation is one
  critical section of `App.mu`. The choice of the account is stated as what it means (`Chosen`:
  the first open account from the offset, or the first of the least loaded), not as the loop.
* **SelectionLoop** - the loop of `selectAndReserveConcurrencyCandidate` as written, step by step.
  **SelectOnce** is the one-step promise, built from `Slots`; `IsAtomicSelect` says the loop
  implements it. This is what entitles `AuthPool` to take the call as one step.
* **Pending** - the list is a set of entries ordered by id; its head is the oldest. One model value
  stands for model and provider; the empty model matches everything, and the prefix rule of
  `pluginEventModelMatches` is left out.
* **Cursors** - the table is a function on the keys it holds.
* **AuthPool** - requests. Each has a `pc` and the locals of its handler. `PickUnbound`,
  `PickRefused` and `PickBound` are the outcomes of the first part of `pickScheduler`;
  `TakeOffset`, `SelectPoolFull`, `SelectGroupFull`, `SelectReserve` and `RememberSelection` the
  loop; `Complete` and `Release` the two sections of `handleUsage`; `Abandon` a request whose usage
  the host never reports. Selections and completions read the time before they wait for `pendingMu`:
  the time is any since the request's pick began, so the list need not be in the order of time.
  The management actions are one section each; the sweep that ends most status answers is
  `StatusSweep`, apart, because it runs after the handler's lock is released and is skipped when the
  save fails. The filter of candidates is the constant `Offers`: for each pool
  the sequences of priority groups it may come to. `passedOver` is a history variable.
* **EventLog**, **BoundedLog** - the ring buffer and the list it implements.
* **Candidates** - pure operators: what is known of an account (`CandidateTypes`, `OwnTiers`), whether
  a pool takes it (`Matched`, `Conflicts`), and its `Rank`. Words are labels; that one contains a
  family's name or a tier is given by the constants `FamilyOf` and `TiersIn`. `TiersIn` is a constant
  instead of a definition because the code finds tiers by splitting strings.
* **Cooldowns** - both tables, with the time at which each entry ends; a missing entry is one that
  ended at 0. `Outcome` is what a usage record reports and `Code` the classification, with one value
  for all network codes.
* **Policy** - the administrator's state, one action per route, and what the three entry points make
  of it: `RouteAnswers`, `CatalogueShows`, `PickStops`. The router's preferences keep the order of
  its rules; the order within one rule is left open.
* **Admission** - a request from `model.route` (`RouteTrust`, `Route`) through the first half of
  `scheduler.pick` (`PickStart`, which reads the clock, `PickSweepFailures`, `PickSweepModels`,
  `PickTrust`, `PickFilter`; the second half, which AuthPool has, is the single step `PickReserve`
  with any accounts full) to `usage.handle` (`Complete`, `CompleteFailure`, `CompleteModel`).
  `HostServes` is the host serving what it was left with any account: its completion updates the
  cooldowns like others. Keys stand for their hashes. A request may carry several key headers, one
  of them empty (`NoKey` among `sent`); which of them is read is a choice at each reading
  (`Presented`), as the code ranges over a map and an empty `X-API-Key` or `api-key` header ends the
  search. A usage record names a model of upstream's choice, or none (`reportedAs`). `told`, `quota`,
  `avoid`, `owed` and `picked` are history: what reports said of an account, which of it a pick
  should have heard, and the policy it began with.
* **Persistence** - memory, the files and `saveMu`. A field of the state is the number of the update
  it shows. `UpdateMemory`/`Save`/`PersistOK` are the routes that change memory first,
  `SaveRuntimeState` the saves of picks, completions and `Shutdown`, `EditClone`/`PersistOK`/`Apply`
  `updateAuthPriorities`. Register and reconfigure are `Configure`, which names a file, and the load:
  `Load`, or `Migrate`/`Migrated` when another file is copied first, then `Replace`, or `LoadFails`.
  What is copied is the `Candidate`: the legacy file in the working directory, or else the file of
  the legacy name beside the new one, which in `plugins/` is the default state file as it is then.
  `PersistFails` may happen at any save; `Crash` between any two steps, also while a copy is torn.
  `base` is the file that memory came from. A file that is saved from another file's memory is in
  `takenOver`: this happens between `Configure` and the load, and after a register that failed.
  `inherited` is what each file was copied from.

Definitions marked `Fault:` are not part of the model. Each is a plausible bug in the definition
that follows it, kept to show that the properties would notice it (`PROJECT.json`, "mutants").

## 3. Runs

`tlc -config <name>.cfg <module>`; all end within about two minutes on two workers.

| run | module | question |
|---|---|---|
| Ledger | MCAuthPool | everything may happen at once, also what breaks limits: is the ledger still bounded by what was reserved (`NoPhantomLoad`, `NoPhantomPoolLoad`), is a selection linked once (`LinkedOnce`)? |
| Metered | MCAuthPool | do account limits hold (`AdmitsWithinLimit`, `LedgerCovers`) when only bound requests use the accounts and end in time? |
| Steady | MCAuthPool | without management: right key (`AttributionSound`), right pool (`ReleasesOwnPool`), pool maximum (`AdmitsWithinPoolMax`), every pick ends (`PicksEnd`), leaks heal (`LeaksHeal`)? |
| SelectionLoop | MCSelectionLoop | is the loop the atomic selection (`IsAtomicSelect`), does it say when a limit is the reason (`BusyIsBlocked`), does it return (`CallReturns`)? |
| EventLog | EventLog | is the ring buffer the list of the last events (`KeepsTheLast`), are reads newest first (`SnapshotIsNewest`)? |
| Persistence | MCPersistence | is what was acknowledged in the file and in memory (`AckedIsDurable`, `AckedIsInMemory`), do files only go forward (`FileNeverGoesBack`), are priorities written before they are used (`PrioritiesFileFirst`), is what was copied from another file never lost (`LegacyIsKept`), is everyone answered (`Answered`)? |
| Admission | MCAdmission | who is served: `ServedInStanding`, `FailsClosed`, `TierIsolation`, `SameTypeSameRank`; do the entry points agree (`EntryPointsAgree`, `RoutedIsServed`); are cooldowns honoured, kept and bounded (`CoolingHonoured`, `CooldownsLast`, `CooldownsBounded`)? |

Five runs end in a counterexample, each to a sentence of the README or the release notes
("findings" in `PROJECT.json`). Each uses an environment with exactly the disturbance it is about:

| run | what happens |
|---|---|
| ClearedEvents | clearing the log while two keys have requests on one account makes the later selection look unambiguous; the earlier request's completion is attributed to the other key |
| LateSuccess | a success that was in flight when its account answered 429 deletes the cooldown; the account is picked before its reported reset |
| UnboundTraffic | the completion of an unbound request releases a bound request's unit; the limit is then exceeded |
| PoolLeak | a unit leaked by an unattributed completion is renewed by every later pick of the pool |
| PriorityInversion | a pool full at the preferred group and free at the next sends the request to the fallback account |

### Bounds

Requests: three where a limit, an attribution or a leak needs two in flight and one more event
(Metered, Steady, PoolLeak, UnboundTraffic), two in Ledger, whose environment is the largest. Keys,
accounts and pools: two of each where keys or pools are confused or accounts compared, one
elsewhere. `MaxTime` and `LastPick` bound the clock so that slots and pending entries do expire
(`SlotTTL` and `PendingTTL` are 1 in Ledger, 3 in Steady). `PickBudget = 1` lets a pick be slower
than a later one, and its selection be dated before that of a request that came later; Steady, whose
liveness costs more, does without, and has limits of two so that the keys do meet on one account.
That attribution survives slow picks is therefore what a theorem says, `OwnersAreRight`, and not
this run. `PendingCapacity = 1` in Ledger and Metered makes every second selection evict the first;
`CursorWrap = 3` is where a cursor starts over. SelectionLoop starts from every ledger of three
accounts with no slot, an expired slot, one of count 0, 1 or 2. EventLog records 24 events into 4
places. Persistence has two writers of the same field, one editor, two paths, three configure calls
and one crash: enough to switch to a file and back, and to come up again after a torn migration.
There is no legacy file in the working directory; the first path is the default state file, and the
second, beside it, starts as a copy of what it holds by then.

Admission runs four scenarios. In "policies" one request meets a policy that changes twice, from a
choice of pools (of types, of listed accounts, of two tiers with a provider, disabled), syncs (full
and partial) and priorities; the request has one or two key headers or none, an empty one beside a
bound key among them, a vouched and an unvouched helper's header. In "reports" three requests share
two accounts whose completions report a success, a 429 with its reset, a 429 whose body blames the
model and exaggerates its reset, or a network failure. In "blamed" they ask for two models of one
account. In "hosted" two requests ask for them, one of which may be a request that the host serves,
and upstream may report another model than the one asked for, or none. `MaxTime = 2` with cooldowns
of 1 to 3 lets some expire and some not, and `PickBudget = 1` lets a sweep act on a time that has
passed. Symmetry among requests is used in runs without liveness, where requests appear in no
constant.

The production values (10 minutes, 30 minutes, 500 and 4096 entries, limits up to 4096 per pool)
differ only in size; the theorems hold for all of them.

### Fairness

* AuthPool: a handler that was called runs to its end (`WF` of `Handle(r)`: the Go scheduler; no
  mutex is held while waiting for the host, and the only nesting is `saveMu` before `mu`); the host
  ends each request, with a usage record or without (`WF` of `Complete(r) \/ Abandon(r)`); the clock
  goes on. No request need ever start.
* Persistence: `WF` of each handler's next step and of the end of a load. Weak fairness is enough
  although handlers compete for `saveMu`: there are finitely many of them, and each gives the mutex
  back. Nothing is assumed about crashes, reloads or write errors.
* SelectionLoop: the call goes on; it holds the mutex all the while.

## 4. Proofs

`tlapm <module>`; all obligations are proved from the named assumptions of the modules
(`SlotsAssumption`, `PendingAssumption`, `CursorsAssumption`, `ConstantsAssumption`,
`CandidatesAssumption`, `CooldownsAssumption`, `PolicyAssumption`, `AdmissionAssumption`,
`PersistenceAssumption`, `BesideAssumption`, `CallsAssumption`, `EventLogAssumption`), which say no
more than the types of the constants, that the set of requests is finite, and how words behave: a
tier names itself only, a family and the word "supported" name none.

| theorem | statement |
|---|---|
| AuthPoolProofs!TypeCorrect | `Spec => []TypeOK` |
| AuthPoolLedger!AccountsNotOvercharged | `Spec => []NoPhantomLoad` |
| AuthPoolLedger!PoolsNotOvercharged | `Spec => []NoPhantomPoolLoad` |
| AuthPoolLedger!RequestsAreCovered | `Timely /\ UniformTiers`: `MeteredSpec => []LedgerCovers` |
| AuthPoolLedger!LimitsHold | `Timely /\ UniformTiers`: `MeteredSpec => AdmitsWithinLimit` |
| AuthPoolAttribution!LinksAreUnique | `Spec => []LinkedOnce` |
| AuthPoolAttribution!OwnersAreRight | `RemembersLongEnough`, `ExactModels`: `Init /\ [][AttributedNext]_vars /\ []BelowCapacity => []AttributionSound` |
| AuthPoolAttribution!PoolsAreOwn | the same with `NoRebinding` in every step, no key is ever bound to another pool than its first: `[]ReleasesOwnPool` |
| AuthPoolAttribution!PoolMaxHolds | `Timely` as well, and no pool is deleted, no slot reset (`PooledNext`): `Init /\ [][PooledNext /\ NoRebinding]_vars /\ []BelowCapacity => AdmitsWithinPoolMax` |
| AuthPoolAttribution!SteadyIsAttributed | the same conditions, and no more requests than `PendingCapacity`: `SteadySpec => [](AttributionSound /\ ReleasesOwnPool) /\ AdmitsWithinPoolMax` |
| SelectionLoopProofs!TypeCorrect, BusyHasReason, LoopIsAtomic | `Spec => []TypeOK`, `Spec => []BusyIsBlocked`, `Spec => IsAtomicSelect` |
| EventLogProofs!TypeCorrect, ReadsAreNewest, RingIsBoundedLog | `Spec => []TypeOK`, `Spec => []SnapshotIsNewest`, `Spec => KeepsTheLast` |
| AdmissionTypes!TypeCorrect | `Spec => []TypeOK` |
| AdmissionProofs!BoundedCooldowns, PromiseKept, EntryPoints, RanksAlike | `Spec => []P` for `CooldownsBounded`, `RoutedIsServed`, `EntryPointsAgree`, `SameTypeSameRank` |
| AdmissionProofs!ReportsHonoured, LastingCooldowns, InStanding, FailingClosed, TiersIsolated | `Spec => P` for the action properties `CoolingHonoured`, `CooldownsLast`, `ServedInStanding`, `FailsClosed`, `TierIsolation` |
| PersistenceProofs!TypeCorrect, Acknowledged, Remembered, PrioritiesFirst, LegacyMigrated | `Spec => []P` for `TypeOK`, `AckedIsDurable`, `AckedIsInMemory`, `PrioritiesFileFirst`, `LegacyIsKept` |
| PersistenceProofs!FilesGoForward | `Spec => FileNeverGoesBack` |

*Type correctness* is not inductive alone: a pick indexes its groups with `at` and the cursor takes
a value modulo the size of a group. `Typed` adds that a pick in the loop has a pool and an index
within its groups, none of them empty, and that a request that has reserved has an account.

*The ledger.* `LedgerInv` is `Typed` with both bounds. Steps that neither reserve nor release are
disposed of together (`CountersCovered`: no counter grows and no request gives up its charge).
A reservation adds one to the counter and one request to the set. A release takes one from a counter
that may belong to another request; the bound survives because the request that leaves the set
is one that held a unit of this account, or held none, and in the latter case the counter only
falls. For pools, a completion that names another pool than its own stays in the set of its own.

*Attribution ids.* `LinkedOnce` says nothing of the ids still in the list. `LinkInv` adds that
pending ids are distinct and were handed out, and that the id a completion carries is `Spent`:
handed out, and in the list no more. A new selection gets an id that neither list nor completion
has; a completion that is linked removes the entry whose id it takes. Eviction, expiry and clearing
only shrink the list.

*To whom a completion is attributed.* A completion has no request id and takes the oldest selection
of its account and model, provided that all of those are of one key. One would like to show that its
own selection is still in the list; that is false, for a sibling request of the same key may have
taken it. What is inductive is a count (`Paired`), by the ids that the list is ordered by: for every
key, account, model and id i there are no more requests in flight with ids from i on than selections
with ids from i on. A completion keeps this: up to the id of the request that ends, requests and
selections lose one each at most; for a later i only the selections may lose one, but then the one
taken, which has the least id, is no older than i, so all are counted, and with the completing
request they were one more than the others need. Times do not follow the ids: each is any time since
its request's pick began. `Listed` therefore says that a selection entered no earlier than a request
in flight is dated no more than `PickBudget` before that request's pick; so nothing from the id of
the first request in flight on expires, as long as requests end in time. With the id of the
completing request itself the count says that at least one selection of its key is in the list: so
if all that match are of one key, it is the request's. `Unclaimed` completes `OwnerInv`. Each
condition is one that the code does not ensure itself, and has a counterexample:

* `AttributedNext` leaves out `ClearEvents` (the run ClearedEvents) and requests of unbound keys, whose
  completions take selections of others. Pools, bindings, limits and slots may change at any time.
* `RemembersLongEnough`: a request ends, and the time its pick may take is over, within the lifetime
  of a selection: `PickBudget <= Deadline`, `Deadline + PickBudget <= PendingTTL` (30 minutes). The
  budget counts because a slow pick may date its selection, or a completion its sweep, differently
  from what its place in the list suggests. One unit less, and a late time drops the selection of a
  request in flight.
* `BelowCapacity`: no selection is pushed out (500 entries).
* `ExactModels`: a completion reports the model that was picked for. An empty model matches every
  selection of the account, and then takes one that a request for another model needs.

*Pools.* Equality of keys is not equality of pools; `OnePool` adds that requests and selections of a
key are all of the pool it was first bound to, which needs `NoRebinding`: a binding may be deleted
and come back, but never name another pool. It would not be enough to exclude moves while the key
has requests in flight: the selection of a lost request outlives it, and the key's next request, in
its new pool, takes it. With that a completion releases its own pool or none. The pool maximum then
follows as the account limits do below: `PoolCoverInv` says that a pool's slot outlives the requests
on it and counts at least these, and a completion that releases nothing leaves the count too high,
never too low. `PooledNext` has no pool deletions and no slot resets, either of which forgets the
count of requests that are still in flight. `SteadyIsAttributed` is the case with no management
calls. There `BelowCapacity` is no condition but a consequence: `RoomInv` bounds the list by the
number of requests that were remembered.

*The limits.* The account counter covers the requests in flight (`Counted`) only while no slot in
use is swept, and a slot is swept by its expiry. A slot's expiry may move back: a pick reserves with
the time it read at its start, so the inductive part is `SlotLasts`: the slot lasts until the pick
of each holder plus `SlotTTL`, less `PickBudget`. With `InTime` (requests end within `Deadline` of their
pick) and `Timely` (`Deadline + PickBudget < SlotTTL`) every slot in use is live at any time a pick
may have read. `UniformTiers` is needed because the tier of an account is decided per pool
(`poolFallbackConcurrencyTier`): a request that entered through a pool where the account has no tier
reserves no unit of it, but its completion releases one. `MeteredSpec` excludes unbound traffic for
the same reason (UnboundTraffic shows it) and manual slot resets. `LimitsHold` then follows: a
reservation is the only step to "selected", and its check sees a counter that covers everyone.

In production terms: account limits hold if every request ends within ten minutes of its pick, less
the time a pick may take, and accounts are used by bound keys only.

*Admission.* Every property that the run checks is proved. What makes them inductive is what a
request in the middle of its handlers may rely on. `Clocked`: no handler goes by a time to come, so
neither sweep ends anything that still runs. `Told`: what the last report said of an account, or of
an account and a model, is what the table holds for as long as it lasts; `Avoided` adds that a pick
which has made its snapshot has none of those accounts among its eligible ones. `Standing`: a pick
past the trust check goes by a key that it was sent, or by the helper's with a proxy key beside it,
and, as long as the policy has not changed since the pick began (`picked`), past the filter by a
pool that is available and has the model. `Promised`: a request that was routed to a provider, whose
key headers do not differ and whose policy is unchanged, has a key for which the scheduler has no
reason to stop. Where they differ, the promise fails in the code: the router may read a bound key
and the scheduler the empty header beside it, and the request is left to the host's default accounts
(app.go:1030-1046, 200). For the same reason `FailsClosed` speaks of the key that was read, and
protects a bound user only in requests all of whose key headers hold bound keys. The step lemmas go
action by action; those that only touch one of policy, cooldowns and requests share a lemma for what
they leave alone. `EntryPoints`, `RanksAlike` and `TiersIsolated` hold of every well-typed policy
and need type correctness alone: they relate definitions that the code keeps in three files.

*Persistence.* `IInv` has the mutual exclusion of `saveMu` (`Locking`), which files may be torn and
when (`Whole`), that what is copied is never torn (`Sourced`), how a clone compares with memory and
with the file it goes to (`Fresh`), that memory follows its file (`Following`), where an update that
is not yet acknowledged is (`Underway`, `Durable`), and that whatever replaced a legacy state, or
was copied from another state file, has all of it (`Migrates`). All are conditional on the two
exceptions of the model, requests whose update a reload took from memory and files taken over; these
are the code's, and the hazards name their lines.

*The selection loop.* `LoopIsAtomic` is a step simulation: every step but the last of a call is a
stutter of `SelectOnce`, since nobody sees the ledger until the mutex is released. The work is in
the last step, which must know all that the loop has done. `LedgerSwept`: the ledger is the one that
was found, with the expired slots of the accounts looked at, and of the pool, gone. `BestSoFar`:
what is selected is the first of the least loaded among the open accounts looked at; `Progress`:
under fill-first the loop goes on only while it has found none. After a full turn, or an early exit,
this is `Chosen`, since the positions from the offset on reach every account of the group once
(`Turn`, the inverse of `Index`). Slots of old state files, with an expiry and no count, are among
the ledgers.

*The event log.* `RingInv` states the event at each place of the buffer by its distance from `eventStart`
(`IdAt`); a ring that has never wrapped starts at 0. Recording into a full ring replaces the oldest event
and moves the start, which is `Append` and `Tail` on the list.

Only model-checked: liveness (`PicksEnd`, `LeaksHeal`, `Answered`, `CallReturns`), which the prover does
not reach. Every other property of the passing runs is stated by a theorem.

## 5. Not modelled

* Slots that a restart or a reload brings back from the state file: AuthPool has no restart. The
  loop is checked on such slots (SelectionLoop), and they expire like others.
* The parsing of upstream error bodies, their redaction, and the normalization of names: functions
  on strings. What depends on them is taken at the level of labels and codes.
* The endpoint test and the JSON shapes of the catalogue filter; the C interface; payload validation.
* Usage records marked additional change nothing and are stutters; in AuthPool, a pick for a
  request without a key is not distinguished from one with an unbound key.
* A key that moves to another pool, in the properties of attribution: attribution compares key hashes
  only, so a completion may then release the slot of another request's pool, or of the pool of a request
  that was lost, until that slot expires. Ledger has such moves and shows that nothing is overcharged;
  `ReleasesOwnPool` is checked and proved without them.
* How long a selection or a completion waits for `pendingMu`: its time may be any since the
  request's pick began, also where the code would have read a later one.

## 6. Plan

Done, in this order: Slots, Pending, Cursors and AuthPool with Ledger, Metered and Steady; the loop;
the event log; persistence; the typing, ledger and limit theorems; cooldowns, candidates, policy and
admission with their theorems; state file paths and migration, and the theorems on persistence;
attribution and the pool maximum; the refinements of the loop and of the event log. What is left:

1. AuthPool's `Offers` as an instance of what `Admission` leaves after `PickFilter`.
2. A restart in AuthPool, with the slots of the state file.
