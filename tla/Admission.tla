----------------------------- MODULE Admission ------------------------------
(***************************************************************************)
(* Which account a request gets, and whether it gets one at all: the       *)
(* composition of the administrator's policy (Policy) with the cooldowns   *)
(* that completions leave behind (Cooldowns).  A request passes the        *)
(* router, the scheduler and, when it is over, the completion handler.     *)
(* Each reads or writes the shared state in several critical sections of   *)
(* App.mu, one action each; other requests, the administrator and the      *)
(* clock move in between.                                                  *)
(*                                                                         *)
(* How many requests an account takes is AuthPool's matter: here any       *)
(* account may be full at any time.                                        *)
(***************************************************************************)
EXTENDS Policy, FiniteSets

CONSTANTS
  Requests, NoKey, NoAuth,
  Scenarios,        \* what the host and the administrator may do, by name
  PoolChoices, SyncChoices, PriorityChoices, ProxyKeyChoices,
  PickBudget,       \* how long a pick may run
  MaxTime           \* the clock stops here

VARIABLES
  now,
  scenario,         \* the name of the scenario that this behaviour follows
  changes,          \* policy changes so far
  req,              \* the requests, with the locals of their handlers
  told,             \* history: until when the last report keeps an account out, for
                    \* one model or (NoModel) for all
  quota             \* history: the latest quota reset reported for an account

historyVars == <<told, quota>>
vars == <<now, scenario, changes, req, policyVars, cooldownVars, historyVars>>

\* sent: what the request's key headers hold, possibly several and possibly none;
\* NoKey is an empty X-API-Key or api-key header.  helper: the user that the
\* helper's hash header names, or NoKey.
Call == [sent : SUBSET (Keys \cup {NoKey}), helper : Keys \cup {NoKey},
         model : Models \cup {NoModel}]

Scenario(s) ==
  /\ s.calls \subseteq Call
  /\ s.maxRequests \in Nat
  /\ s.lists \subseteq SUBSET Candidate(Auths)
  /\ s.offered \subseteq SUBSET Labels
  /\ s.outcomes \subseteq Outcome
  /\ s.reportedAs \in [Models \cup {NoModel} -> SUBSET (Models \cup {NoModel})]
  /\ s.maxChanges \in Nat
  /\ s.pools \in [DOMAIN s.pools -> Rules(Auths, Models)] /\ DOMAIN s.pools \subseteq Pools
  /\ s.bindings \in [Keys -> Pools \cup {NoPool}]
  /\ s.proxyKeys \subseteq Keys
  /\ s.cooling \subseteq [Auths -> 0..MaxCooldown]

ASSUME AdmissionAssumption ==
  /\ NoKey \notin Keys /\ NoAuth \notin Auths
  /\ {"", "host", "refused"} \cap Labels = {}
  /\ \A n \in DOMAIN Scenarios : Scenario(Scenarios[n])
  /\ \A c \in PoolChoices : /\ c.rules \in Rules(Auths, Models)
                            /\ c.kept \subseteq {"models", "resolved"}
  /\ \A c \in SyncChoices : /\ c.models \in ModelTables \cup {NotGiven}
                            /\ \/ c.poolModels = NotGiven
                               \/ c.poolModels \in [DOMAIN c.poolModels -> SUBSET Models]
                            /\ c.resolved \in [DOMAIN c.resolved -> SUBSET Auths]
  /\ \A c \in PriorityChoices :
       /\ c.types \in TypeTables \cup {NotGiven}
       /\ c.priorities \in PriorityTables \cup {NotGiven}
       /\ c.overrides \in OverrideTables /\ c.replace \in BOOLEAN /\ c.removed \subseteq Auths
  /\ ProxyKeyChoices \subseteq SUBSET Keys
  /\ PickBudget \in Nat /\ MaxTime \in Nat

\* pc: the section the request's handler is about to enter, or how it ended.
\*   route                 at the router, trust checked
\*   routed                at the host, to be scheduled
\*   sweep, sweepModels    picking, about to drop cooldowns that have run out
\*   trust, filter         picking, up to the snapshot of policy and cooldowns
\*   reserve               picking, with the eligible candidates at hand
\*   host                  left to the host's default accounts
\*   cool, coolModel       completed, not yet in the two tables
Scopes == Auths \X (Models \cup {NoModel})

Picking == {"sweep", "sweepModels", "trust", "filter", "reserve"}
PCs == {"idle", "route", "routed", "inflight", "cool", "coolModel",
        "done", "host", "refused", "busy"} \cup Picking

Request ==
  [pc : PCs,
   call    : Call,
   seen    : Nat,                       \* history: policy changes before it began,
   picked  : Nat,                       \* and before its pick did
   key     : Keys \cup {NoKey},         \* the key that the current handler goes by
   trusted : BOOLEAN,                   \* it came with the helper's hash header
   answer  : Labels \cup {"", "host", "refused"},   \* the router's
   started : Nat,                       \* the time its pick or completion read
   avoid   : SUBSET Scopes,             \* history: kept out by the last report when its
                                        \* pick began, and no report since
   owed    : SUBSET Auths,              \* history: out of quota by any report until then
   eligible : SUBSET [id : Auths, rank : Int],
   auth    : Auths \cup {NoAuth},
   reason  : Reasons,                   \* why it was not served
   outcome : Outcome,
   reported : Models \cup {NoModel}]   \* the model that the usage record names

\* Every part of the state has its type; times of cooldowns are never negative.
TypeOK ==
  /\ now \in Nat /\ changes \in Nat
  /\ scenario \in DOMAIN Scenarios
  /\ PolicyTypeOK
  /\ CooldownsTypeOK
  /\ req \in [Requests -> Request]
  /\ told \in [Scopes -> Nat] /\ quota \in [Auths -> Nat]

NoOutcome ==
  [failed |-> FALSE, status |-> 0, type |-> "", themes |-> {}, resetsAt |-> 0, resetsIn |-> 0]

NoCall == [sent |-> {}, helper |-> NoKey, model |-> NoModel]

Idle ==
  [pc |-> "idle", call |-> NoCall, seen |-> 0, picked |-> 0, key |-> NoKey, trusted |-> FALSE,
   answer |-> "", started |-> 0, avoid |-> {}, owed |-> {}, eligible |-> {}, auth |-> NoAuth,
   reason |-> "", outcome |-> NoOutcome, reported |-> NoModel]

Chosen == Scenarios[scenario]

\* Policy and account cooldowns are what a state file may hold.
Init ==
  /\ now = 0 /\ changes = 0
  /\ scenario \in DOMAIN Scenarios
  /\ pools = Chosen.pools
  /\ bindings = Chosen.bindings
  /\ proxyKeys = Chosen.proxyKeys
  /\ authTypes = [a \in Auths |-> NoLabel]
  /\ authModels = [a \in Auths |-> {}]
  /\ typePriorities = [l \in Labels |-> NoPriority]
  /\ overrides = [a \in Auths |-> NoPriority]
  /\ failureCooldowns \in Chosen.cooling
  /\ modelCooldowns = [am \in Auths \X Models |-> 0]
  /\ req = [r \in Requests |-> Idle]
  /\ told = [s \in Scopes |-> 0] /\ quota = [a \in Auths |-> 0]

-----------------------------------------------------------------------------
(* Who is asking.                                                          *)

\* extractAPIKey ranges over a Go map: of several key headers it may return any,
\* an empty one included.
Presented(call) == IF call.sent = {} THEN {NoKey} ELSE call.sent

Helped(call) == call.helper # NoKey

\* Fault: any key vouches for the helper's header.
VouchedByAny(key) == key # NoKey

\* isTrustedProxyAPIKey
Vouched(key) == key \in proxyKeys

\* The key that decides: the one the helper names, else the presented one.
KeyFor(call, presented) == IF Helped(call) THEN call.helper ELSE presented

ModelOf(r) == req[r].call.model

-----------------------------------------------------------------------------
(* model.route                                                             *)

\* Without a key, or with a helper's header that no proxy key vouches for, the
\* router leaves the request to the host.
RouteTrust(r) ==
  /\ req[r].pc = "idle"
  /\ Cardinality({q \in Requests : req[q].pc # "idle"}) < Chosen.maxRequests
  /\ \E call \in Chosen.calls : \E presented \in Presented(call) :
       LET key   == KeyFor(call, presented)
           known == key # NoKey /\ (Helped(call) => Vouched(presented))
       IN  req' = [req EXCEPT ![r] = [Idle EXCEPT
             !.pc = IF known THEN "route" ELSE "routed",
             !.answer = IF known THEN "" ELSE "host",
             !.call = call, !.seen = changes, !.key = key, !.trusted = Helped(call)]]
  /\ UNCHANGED <<now, scenario, changes, policyVars, cooldownVars, historyVars>>

Route(r) ==
  /\ req[r].pc = "route"
  /\ \E offered \in Chosen.offered :
       \E answer \in RouteAnswers(req[r].key, ModelOf(r), offered) :
         req' = [req EXCEPT ![r].pc = IF answer = "refused" THEN "refused" ELSE "routed",
                            ![r].answer = answer]
  /\ UNCHANGED <<now, scenario, changes, policyVars, cooldownVars, historyVars>>

-----------------------------------------------------------------------------
(* scheduler.pick                                                          *)

\* A pick reads the clock once, before it waits for the mutex to sweep both
\* tables with what it read.
PickStart(r) ==
  /\ req[r].pc = "routed"
  /\ req' = [req EXCEPT ![r].pc = "sweep", ![r].started = now, ![r].picked = changes,
                        ![r].avoid = {s \in Auths \X {NoModel, ModelOf(r)} : told[s] > now},
                        ![r].owed  = {a \in Auths : quota[a] > now}]
  /\ UNCHANGED <<now, scenario, changes, policyVars, cooldownVars, historyVars>>

PickSweepFailures(r) ==
  /\ req[r].pc = "sweep"
  /\ ClearExpiredFailureCooldowns(req[r].started)
  /\ req' = [req EXCEPT ![r].pc = "sweepModels"]
  /\ UNCHANGED <<now, scenario, changes, policyVars, historyVars>>

PickSweepModels(r) ==
  /\ req[r].pc = "sweepModels"
  /\ ClearExpiredModelCooldowns(req[r].started)
  /\ req' = [req EXCEPT ![r].pc = "trust"]
  /\ UNCHANGED <<now, scenario, changes, policyVars, historyVars>>

\* The keys are read from the headers anew.  An unvouched header is refused
\* here, and a request that is read as having no key is left to the host.
PickTrust(r) ==
  /\ req[r].pc = "trust"
  /\ \E presented \in Presented(req[r].call) :
       LET key == KeyFor(req[r].call, presented)
           reason == IF req[r].trusted /\ ~Vouched(presented) THEN "untrusted_proxy_key"
                     ELSE IF key = NoKey THEN "host" ELSE ""
       IN  req' = [req EXCEPT ![r].key = key, ![r].reason = reason,
             ![r].pc = CASE reason = "" -> "filter" [] reason = "host" -> "host" [] OTHER -> "refused"]
  /\ UNCHANGED <<now, scenario, changes, policyVars, cooldownVars, historyVars>>

\* One read lock covers binding, pool, models, types, priorities and cooldowns;
\* what follows works on the copies.
PickFilter(r) ==
  LET key  == req[r].key
      stop == PickStops(key, ModelOf(r), req[r].trusted)
      t    == req[r].started
  IN  /\ req[r].pc = "filter"
      /\ \/ /\ stop # ""
            /\ req' = [req EXCEPT ![r].reason = stop,
                                  ![r].pc = IF stop = "host" THEN "host" ELSE "refused"]
         \/ /\ stop = ""
            /\ \E list \in Chosen.lists :
                 LET eligible == EligibleOf(list, PoolOf(key), ModelOf(r), t)
                 IN  req' = [req EXCEPT
                       ![r].eligible = {[id |-> c.id, rank |-> RankOf(c)] : c \in eligible},
                       ![r].reason = IF eligible = {} THEN Refusal(list, PoolOf(key), ModelOf(r), t)
                                     ELSE "",
                       ![r].pc = IF eligible = {} THEN "refused" ELSE "reserve"]
      /\ UNCHANGED <<now, scenario, changes, policyVars, cooldownVars, historyVars>>

\* One of the best candidates with room is selected, or none has room.
PickReserve(r) ==
  /\ req[r].pc = "reserve"
  /\ \E full \in SUBSET req[r].eligible :
       LET open == req[r].eligible \ full
       IN  \/ /\ open = {}
              /\ req' = [req EXCEPT ![r].pc = "busy", ![r].reason = "auth_pool_busy"]
           \/ \E c \in open :
                /\ \A d \in open : d.rank <= c.rank
                /\ req' = [req EXCEPT ![r].pc = "inflight", ![r].auth = c.id]
  /\ UNCHANGED <<now, scenario, changes, policyVars, cooldownVars, historyVars>>

-----------------------------------------------------------------------------
(* usage.handle                                                            *)

\* The host serves what it was left with any account, and reports it like the rest.
HostServes(r) ==
  /\ req[r].pc = "host"
  /\ \E a \in Auths : req' = [req EXCEPT ![r].pc = "inflight", ![r].auth = a]
  /\ UNCHANGED <<now, scenario, changes, policyVars, cooldownVars, historyVars>>

\* The completion handler has released the slots and reads the clock.  The
\* record names the model that upstream reports, if any.
Complete(r) ==
  /\ req[r].pc = "inflight"
  /\ \E f \in Chosen.outcomes, m \in Chosen.reportedAs[ModelOf(r)] :
       req' = [req EXCEPT ![r].pc = "cool", ![r].started = now, ![r].outcome = f, ![r].reported = m]
  /\ UNCHANGED <<now, scenario, changes, policyVars, cooldownVars, historyVars>>

\* A quota reset that upstream reported and the plugin finds plausible.
ResetIn(f, t) ==
  IF f.failed /\ f.status = 429 /\ t < f.resetsAt /\ f.resetsAt <= t + MaxCooldown
  THEN f.resetsAt ELSE 0

\* Whether a report has a word on its account: a success, a 429, another error
\* that says what it is, or a network failure.
Speaks(f) == ~f.failed \/ f.status = 429 \/ f.type # "" \/ f.themes \cap {"network", "proxy"} # {}

\* Whether a failure says that the account does not support the model.
Blames(f) ==
  \/ "model" \in f.themes
  \/ f.type = "model_not_supported" /\ "network" \notin f.themes

\* History: a report replaces what was told before, and picks that run already
\* need not have heard of it.
Report(r, scope, until, next) ==
  /\ told' = [told EXCEPT ![scope] = until]
  /\ req'  = [s \in Requests |-> [req[s] EXCEPT
        !.pc = IF s = r THEN next ELSE @,
        !.avoid = @ \ {scope}]]

CompleteFailure(r) ==
  LET a == req[r].auth
      f == req[r].outcome
      t == req[r].started
  IN  /\ req[r].pc = "cool"
      /\ UpdateFailureCooldown(a, f, t)
      /\ IF Speaks(f) THEN Report(r, <<a, NoModel>>, ResetIn(f, t), "coolModel")
         ELSE req' = [req EXCEPT ![r].pc = "coolModel"] /\ UNCHANGED told
      /\ quota' = [quota EXCEPT ![a] = IF @ > ResetIn(f, t) THEN @ ELSE ResetIn(f, t)]
      /\ UNCHANGED <<now, scenario, changes, policyVars>>

\* A failure that does not blame the model says nothing of it.
CompleteModel(r) ==
  LET a == req[r].auth
      f == req[r].outcome
      t == req[r].started
      m == req[r].reported
  IN  /\ req[r].pc = "coolModel"
      /\ UpdateModelCooldown(a, m, f, t)
      /\ IF m # NoModel /\ (f.failed => Blames(f))
         THEN Report(r, <<a, m>>, IF f.failed THEN t + ModelCooldown ELSE 0, "done")
         ELSE req' = [req EXCEPT ![r].pc = "done"] /\ UNCHANGED told
      /\ UNCHANGED <<now, scenario, changes, policyVars, quota>>

-----------------------------------------------------------------------------
(* The administrator and the clock.                                        *)

PolicyChange ==
  \/ \E p \in Pools, c \in PoolChoices : UpsertPool(p, c.rules, c.kept)
  \/ \E p \in Pools : DeletePool(p)
  \/ \E k \in Keys, p \in Pools : UpsertBinding(k, p)
  \/ \E k \in Keys : DeleteBinding(k)
  \/ \E keys \in ProxyKeyChoices : UpsertProxyKeys(keys)
  \/ \E c \in SyncChoices : SyncAuthModels(c.models, c.poolModels, c.resolved)
  \/ \E c \in PriorityChoices :
       UpdateAuthPriorities(c.types, c.priorities, c.overrides, c.replace, c.removed)

Manage ==
  /\ changes < Chosen.maxChanges
  /\ PolicyChange
  /\ changes' = changes + 1
  /\ UNCHANGED <<now, scenario, req, cooldownVars, historyVars>>

\* No pick is left behind by more than PickBudget.
Tick ==
  /\ now < MaxTime
  /\ \A r \in Requests : req[r].pc \in Picking => now < req[r].started + PickBudget
  /\ now' = now + 1
  /\ UNCHANGED <<scenario, changes, req, policyVars, cooldownVars, historyVars>>

Handle(r) ==
  \/ RouteTrust(r) \/ Route(r)
  \/ PickStart(r) \/ PickSweepFailures(r) \/ PickSweepModels(r)
  \/ PickTrust(r) \/ PickFilter(r) \/ PickReserve(r)
  \/ HostServes(r) \/ Complete(r) \/ CompleteFailure(r) \/ CompleteModel(r)

Next == (\E r \in Requests : Handle(r)) \/ Manage \/ Tick

Spec == Init /\ [][Next]_vars
-----------------------------------------------------------------------------
(* Properties                                                              *)

Selects(r, a) == req[r].pc = "reserve" /\ req'[r].pc = "inflight" /\ req'[r].auth = a

\* No policy change since the request reached the router, or since its pick began.
Undisturbed(r) == req[r].seen = changes
PickUndisturbed(r) == req[r].picked = changes

\* A pick does not take an account whose last report, made before the pick began,
\* was a 429 with a reset that is still to come, or one that its model does not
\* support, whatever sweeps and reports on other accounts and models come in
\* between (updateFailureCooldown, updateModelCooldown, the sweeps and the
\* snapshot of pickScheduler).
CoolingHonoured ==
  [][\A r \in Requests, a \in Auths : Selects(r, a) =>
       \A n \in {NoModel, ModelOf(r)} : told[<<a, n>>] > now => <<a, n>> \notin req[r].avoid]_vars

\* Until the reset that upstream reported with a 429 no later pick takes the
\* account (README: skipped until their reported quota reset).
SkippedUntilReset == [][\A r \in Requests, a \in Auths : Selects(r, a) /\ quota[a] > now => a \notin req[r].owed]_vars

\* A cooldown that has not run out is changed by nothing but a completion on
\* its own account, and of its own model as upstream reports it: no sweep of
\* either table, however late it comes to act on the time it read, and no other
\* model's success ends it.
CooldownsLast ==
  [][/\ \A a \in Auths :
          failureCooldowns[a] > now /\ failureCooldowns'[a] # failureCooldowns[a] =>
            \E r \in Requests : req[r].auth = a /\ req[r].pc = "cool" /\ req'[r].pc = "coolModel"
     /\ \A a \in Auths, m \in Models :
          modelCooldowns[<<a, m>>] > now /\ modelCooldowns'[<<a, m>>] # modelCooldowns[<<a, m>>] =>
            \E r \in Requests : /\ req[r].auth = a /\ req[r].reported = m
                                /\ req[r].pc = "coolModel" /\ req'[r].pc = "done"]_vars

\* No report, however wrong its reset times are, keeps an account out for more
\* than MaxCooldown, or a model for more than ModelCooldown (failureCooldownUntil).
CooldownsBounded ==
  /\ \A a \in Auths : failureCooldowns[a] <= now + MaxCooldown
  /\ \A am \in Auths \X Models : modelCooldowns[am] <= now + ModelCooldown

\* What the router sends to a provider, the scheduler neither refuses for its
\* keys, its pool or its model nor leaves to the host, unless the policy changed
\* in between or the request has several key headers that differ: of those,
\* an empty one included, routeModel and pickScheduler each read one anew.
RoutedIsServed ==
  \A r \in Requests :
    /\ req[r].pc \in {"host", "refused"} /\ req[r].answer \in Labels
    /\ Undisturbed(r) /\ (\A k, l \in req[r].call.sent : k = l)
    => req[r].reason \notin BadStanding

\* The three entry points judge a key alike: the catalogue shows a model if and
\* only if a pick for it gets to the candidates, the router refuses what the
\* scheduler refuses, and both leave the same keys to the host.
EntryPointsAgree ==
  \A k \in Keys, m \in Models :
    LET stops  == PickStops(k, m, FALSE)
        routes == RouteAnswers(k, m, {})
    IN  /\ m \in CatalogueShows(k, Models) <=> stops \in {"", "host"}
        /\ routes = {"host"} <=> stops = "host"
        /\ routes \cap Labels # {} => stops = ""

\* Whatever changed between the router and the pick, a pick during which the
\* policy does not change serves a request only by the rules of the pool that
\* its user is bound to, for a model of the pool, and on a helper's word only
\* with a proxy key beside it.
ServedInStanding ==
  [][\A r \in Requests, a \in Auths :
       Selects(r, a) /\ PickUndisturbed(r) =>
         LET k == req[r].key
         IN  /\ k # NoKey /\ Bound(k) /\ Available(k)
             /\ ModelOf(r) \in PoolModels(PoolOf(k)) \cup {NoModel}
             /\ IF req[r].trusted THEN k = req[r].call.helper /\ req[r].call.sent \cap proxyKeys # {}
                ELSE k \in req[r].call.sent]_vars

\* Bound pools fail closed, and so do users whom the helper names: the scheduler
\* leaves a request to the host's default accounts only if it has no helper's
\* header and was read as having no key or an unbound one.  A request all of
\* whose key headers hold bound keys is never left; one with an empty header or
\* an unbound key beside a bound one may be (extractAPIKey).
FailsClosed ==
  [][\A r \in Requests :
       req[r].pc \in Picking /\ req'[r].pc = "host" =>
         LET k == req'[r].key
         IN  /\ ~req[r].trusted /\ k \in Presented(req[r].call)
             /\ k = NoKey \/ ~Bound(k)]_vars

\* A pool whose account types are all tiers gives no request an account all of
\* whose known tiers are others, unless the pool names the account's provider,
\* or lists the account and nothing but its synced type tells its tier, or the
\* account's type was synced and a word that is not a type of its own, its
\* provider, id or service, is one of the pool's.
TierIsolation ==
  [][\A r \in Requests, list \in Chosen.lists : \A c \in list :
       /\ req[r].pc = "filter" /\ req'[r].pc = "reserve"
       /\ \E e \in req'[r].eligible : e.id = c.id
       /\ c \in MatchedOf(list, PoolOf(req[r].key))
       => KeepsTier(c, PoolOf(req[r].key), authTypes[c.id])]_vars

\* Accounts of one synced type that has a priority, and without overrides, are
\* ranked alike, whatever the host says of them (RELEASE_NOTES: override, then
\* type rule, then host).
SameTypeSameRank ==
  \A list \in Chosen.lists : \A c, d \in list :
    /\ authTypes[c.id] = authTypes[d.id] /\ authTypes[c.id] # NoLabel
    /\ typePriorities[authTypes[c.id]] # NoPriority
    /\ overrides[c.id] = NoPriority /\ overrides[d.id] = NoPriority
    => RankOf(c) = RankOf(d)
=============================================================================
