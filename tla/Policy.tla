------------------------------- MODULE Policy -------------------------------
(***************************************************************************)
(* What the administrator tells the plugin, and what its three entry       *)
(* points make of it for a key: the router (router.go), the filter of the  *)
(* model catalogue (models.go) and the first half of a pick (app.go).      *)
(* Everything here is guarded by App.mu; each action is one critical       *)
(* section of a management handler (management.go).                        *)
(***************************************************************************)
EXTENDS Candidates, Cooldowns

CONSTANTS
  Keys, Pools, NoPool, NotGiven,
  NameOf,       \* the label that the id of an account contains, or NoLabel
  ProviderOf,   \* the provider that the router sends a type to, or NoLabel
  OfferedAs     \* the names under which a host may offer a provider

ASSUME PolicyAssumption ==
  /\ NoPool \notin Pools
  /\ NameOf \in [Auths -> Labels \cup {NoLabel}]
  /\ ProviderOf \in [Labels -> Labels \cup {NoLabel}]
  /\ OfferedAs \in [Labels -> SUBSET Labels]

VARIABLES
  pools,            \* state.Pools: the rules of the pools that exist
  bindings,         \* state.KeyBindings
  proxyKeys,        \* state.ProxyKeyHashes
  authModels,       \* state.AuthModels
  authTypes,        \* state.AuthTypes
  typePriorities,   \* state.TypePriorities
  overrides         \* state.AuthPriorityOverrides

policyVars == <<pools, bindings, proxyKeys, authModels, authTypes, typePriorities, overrides>>

ModelTables    == [Auths -> SUBSET Models]
TypeTables     == [Auths -> Labels \cup {NoLabel}]
PriorityTables == [Labels -> Priorities \cup {NoPriority}]
OverrideTables == [Auths -> Priorities \cup {NoPriority}]

PolicyTypeOK ==
  /\ DOMAIN pools \subseteq Pools /\ pools \in [DOMAIN pools -> Rules(Auths, Models)]
  /\ bindings \in [Keys -> Pools \cup {NoPool}]
  /\ proxyKeys \subseteq Keys
  /\ authModels \in ModelTables
  /\ authTypes \in TypeTables
  /\ typePriorities \in PriorityTables
  /\ overrides \in OverrideTables

-----------------------------------------------------------------------------
(* Management.                                                             *)

\* Models and resolved ids that the request leaves out are kept, and a pool
\* that was disabled is enabled.
UpsertPool(p, rules, kept) ==
  LET old == IF p \in DOMAIN pools THEN pools[p] ELSE [rules EXCEPT !.models = {}, !.resolved = {}]
      new == [rules EXCEPT
               !.enabled  = TRUE,
               !.models   = IF "models" \in kept THEN old.models ELSE @,
               !.resolved = IF "resolved" \in kept THEN old.resolved ELSE @]
  IN  /\ pools' = [q \in DOMAIN pools \cup {p} |-> IF q = p THEN new ELSE pools[q]]
      /\ UNCHANGED <<bindings, proxyKeys, authModels, authTypes, typePriorities, overrides>>

\* Fault: the deleted pool leaves an empty entry behind.
DeletePoolRules(p) ==
  /\ pools' = [q \in DOMAIN pools |-> IF q = p THEN NoPool ELSE pools[q]]
  /\ bindings' = [k \in Keys |-> IF bindings[k] = p THEN NoPool ELSE bindings[k]]
  /\ UNCHANGED <<proxyKeys, authModels, authTypes, typePriorities, overrides>>

DeletePool(p) ==
  /\ pools' = [q \in DOMAIN pools \ {p} |-> pools[q]]
  /\ bindings' = [k \in Keys |-> IF bindings[k] = p THEN NoPool ELSE bindings[k]]
  /\ UNCHANGED <<proxyKeys, authModels, authTypes, typePriorities, overrides>>

\* The pool need not exist.
UpsertBinding(k, p) ==
  /\ bindings' = [bindings EXCEPT ![k] = p]
  /\ UNCHANGED <<pools, proxyKeys, authModels, authTypes, typePriorities, overrides>>

DeleteBinding(k) ==
  /\ bindings' = [bindings EXCEPT ![k] = NoPool]
  /\ UNCHANGED <<pools, proxyKeys, authModels, authTypes, typePriorities, overrides>>

UpsertProxyKeys(keys) ==
  /\ proxyKeys' = keys
  /\ UNCHANGED <<pools, bindings, authModels, authTypes, typePriorities, overrides>>

\* models: the new table or NotGiven.  poolModels and resolved: functions on the
\* pools that the request names; poolModels may be NotGiven.  When it is given,
\* the models of a pool that it does not name are computed from the table of
\* this request, which is empty when the request has none.
SyncAuthModels(models, poolModels, resolved) ==
  LET table   == IF models = NotGiven THEN [a \in Auths |-> {}] ELSE models
      Resolved(p) == [pools[p] EXCEPT !.resolved = IF p \in DOMAIN resolved THEN resolved[p] ELSE @]
      Listing(p)  == IF p \in DOMAIN poolModels THEN poolModels[p]
                     ELSE UNION {table[a] : a \in Members(Resolved(p))}
  IN  /\ authModels' = IF models = NotGiven THEN authModels ELSE models
      /\ pools' = [p \in DOMAIN pools |->
           IF poolModels = NotGiven THEN Resolved(p)
           ELSE [Resolved(p) EXCEPT !.models = Listing(p)]]
      /\ UNCHANGED <<bindings, proxyKeys, authTypes, typePriorities, overrides>>

\* Types and type priorities replace the tables when given; overrides are
\* merged or replace them, and removals come last.
UpdateAuthPriorities(types, priorities, given, replace, removed) ==
  /\ authTypes' = IF types = NotGiven THEN authTypes ELSE types
  /\ typePriorities' = IF priorities = NotGiven THEN typePriorities ELSE priorities
  /\ overrides' = [a \in Auths |->
       IF a \in removed THEN NoPriority
       ELSE IF given[a] # NoPriority \/ replace THEN given[a] ELSE overrides[a]]
  /\ UNCHANGED <<pools, bindings, proxyKeys, authModels>>

-----------------------------------------------------------------------------
(* What a key may do.                                                      *)

Bound(k)     == bindings[k] # NoPool
Available(k) == bindings[k] \in DOMAIN pools /\ pools[bindings[k]].enabled
PoolOf(k)    == pools[bindings[k]]

\* poolModelsLocked: the pool's own list and what its accounts offer.
PoolModels(pool) == pool.models \cup UNION {authModels[a] : a \in Members(pool)}

\* Fault: without a pool that is available there is nothing to filter by.
CatalogueShowsUnavailable(k, listing) ==
  IF ~Bound(k) \/ ~Available(k) THEN listing ELSE listing \cap PoolModels(PoolOf(k))

\* What interceptResponse leaves of a listing of models.
CatalogueShows(k, listing) ==
  IF ~Bound(k) THEN listing
  ELSE IF ~Available(k) THEN {}
  ELSE listing \cap PoolModels(PoolOf(k))

\* Where the router may send a pool's requests, rule by rule; within one rule
\* the code goes by the order of the list.
Preferences(pool) ==
  LET implied(labels) == {ProviderOf[l] : l \in labels} \ {NoLabel}
  IN  << pool.providers,
         implied(UNION {Aliases(t) : t \in pool.types}),
         implied(UNION {Aliases(NameOf[a]) : a \in pool.ids} \ {"supported"}) >>

\* resolveAvailableProvider: without a list of the host, the provider itself.
Served(providers, offered) ==
  IF offered = {} THEN providers ELSE offered \cap UNION {OfferedAs[p] : p \in providers}

RouteTargets(pool, offered) ==
  LET served == [i \in 1..3 |-> Served(Preferences(pool)[i], offered)]
  IN  IF served[1] # {} THEN served[1] ELSE IF served[2] # {} THEN served[2] ELSE served[3]

\* Fault: only a missing pool is unavailable.
RouteAnswersDisabled(k, m, offered) ==
  IF ~Bound(k) THEN {"host"}
  ELSE IF bindings[k] \notin DOMAIN pools THEN {"refused"}
  ELSE IF m = NoModel THEN {"host"}
  ELSE IF m \notin PoolModels(PoolOf(k)) \/ RouteTargets(PoolOf(k), offered) = {} THEN {"refused"}
  ELSE RouteTargets(PoolOf(k), offered)

\* What routeModel may answer for a key: leave the request to the host, refuse
\* it, or name a provider.
RouteAnswers(k, m, offered) ==
  IF ~Bound(k) THEN {"host"}
  ELSE IF ~Available(k) THEN {"refused"}
  ELSE IF m = NoModel THEN {"host"}
  ELSE IF m \notin PoolModels(PoolOf(k)) \/ RouteTargets(PoolOf(k), offered) = {} THEN {"refused"}
  ELSE RouteTargets(PoolOf(k), offered)

\* Why a request is refused before, and after, its candidates are looked at.
BadStanding == {"untrusted_proxy_key", "auth_pool_required", "host", "auth_pool_unavailable",
                "model_not_allowed"}
NoCandidate == {"no_input_candidates", "plugin_rules_excluded", "account_metadata_not_synced",
                "pool_no_matching_candidates", "pool_candidates_cooling_down",
                "model_unsupported_by_pool_candidates", "all_candidates_quota_exhausted",
                "pool_candidates_unavailable"}
Reasons == {"", "auth_pool_busy"} \cup BadStanding \cup NoCandidate

\* Fault: whoever has no pool is left to the host.
PickStopsUntrusting(k, m, trusted) ==
  IF ~Bound(k) THEN "host"
  ELSE IF ~Available(k) THEN "auth_pool_unavailable"
  ELSE IF m # NoModel /\ m \notin PoolModels(PoolOf(k)) THEN "model_not_allowed"
  ELSE ""

\* Why pickScheduler does not go on to the candidates, or "" when it does.
PickStops(k, m, trusted) ==
  IF ~Bound(k) THEN (IF trusted THEN "auth_pool_required" ELSE "host")
  ELSE IF ~Available(k) THEN "auth_pool_unavailable"
  ELSE IF m # NoModel /\ m \notin PoolModels(PoolOf(k)) THEN "model_not_allowed"
  ELSE ""

-----------------------------------------------------------------------------
(* The candidates of a pick at time t.                                     *)

MatchedOf(list, pool) == {c \in list : Matched(c, pool, authTypes[c.id])}

EligibleOf(list, pool, m, t) ==
  {c \in MatchedOf(list, pool) :
     Usable(c) /\ ~FailureCooldownActive(c.id, t) /\ ~ModelCooldownActive(c.id, m, t)}

RankOf(c) == Rank(c, authTypes[c.id], typePriorities, overrides[c.id])

\* The reason a pick gives when no candidate is eligible.
Refusal(list, pool, m, t) ==
  LET matched == MatchedOf(list, pool)
      Cooling(c) == Usable(c) /\ FailureCooldownActive(c.id, t)
  IN  IF matched = {} THEN
        IF list = {} THEN "no_input_candidates"
        ELSE IF \E c \in list : RuledOut(c, pool, authTypes[c.id]) THEN "plugin_rules_excluded"
        ELSE IF /\ Members(pool) = {} /\ pool.providers = {} /\ pool.types # {}
                /\ \A a \in Auths : authTypes[a] = NoLabel
             THEN "account_metadata_not_synced"
        ELSE "pool_no_matching_candidates"
      ELSE IF \A c \in matched : Cooling(c) THEN "pool_candidates_cooling_down"
      ELSE IF \A c \in matched : Usable(c) /\ ~Cooling(c) /\ ModelCooldownActive(c.id, m, t)
           THEN "model_unsupported_by_pool_candidates"
      ELSE IF \A c \in matched : c.priority < 0 THEN "all_candidates_quota_exhausted"
      ELSE "pool_candidates_unavailable"
=============================================================================
