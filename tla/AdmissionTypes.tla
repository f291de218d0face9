--------------------------- MODULE AdmissionTypes ---------------------------
(***************************************************************************)
(* The state of Admission keeps its types, for any accounts, models, keys, *)
(* pools, labels, requests and scenarios: every lookup of a handler finds  *)
(* what it looks for, and every rank is a number.                          *)
(***************************************************************************)
EXTENDS Admission, WellFoundedInduction, TLAPS

-----------------------------------------------------------------------------
(* Ranks.                                                                  *)

\* A set of priorities has a highest one.
LEMMA HighestPriority ==
  ASSUME NEW S, S \subseteq Priorities, S # {}
  PROVE  Max(S) \in Priorities
<1> DEFINE T == {MaxPriority - x : x \in S}
<1>1. MaxPriority \in Nat /\ T \subseteq Nat /\ T # {}
  <2>1. MaxPriority \in Nat /\ \A x \in S : x \in Int /\ 0 <= x /\ x <= MaxPriority
      BY CandidatesAssumption DEF Priorities
  <2>2. \A x \in S : MaxPriority - x \in Nat
      BY <2>1
  <2>3. PICK x \in S : TRUE
      OBVIOUS
  <2>4. QED
      BY <2>1, <2>2, <2>3
<1>2. PICK t \in T : \A u \in T : ~ (<<u, t>> \in OpToRel(<, Nat))
    BY <1>1, NatLessThanWellFounded, WFMin
<1>3. PICK x \in S : t = MaxPriority - x
    BY <1>2
<1>4. ASSUME NEW y \in S PROVE x >= y
  <2>1. MaxPriority - y \in T /\ MaxPriority - y \in Nat /\ t \in Nat
      BY <1>1, <1>2, <1>4
  <2>2. ~(MaxPriority - y < t)
      BY <1>2, <2>1 DEF OpToRel
  <2>3. x \in Int /\ y \in Int
      BY <1>3, <1>4, CandidatesAssumption DEF Priorities
  <2>4. QED
      BY <1>1, <1>3, <2>1, <2>2, <2>3
<1>5. Max(S) \in S
    BY <1>3, <1>4 DEF Max
<1>6. QED
    BY <1>5

\* A rank is a number (schedulerPriorityForCandidate).
LEMMA RankType ==
  ASSUME NEW c \in Candidate(Auths), NEW synced \in Labels \cup {NoLabel},
         NEW table \in PriorityTables, NEW override \in Priorities \cup {NoPriority}
  PROVE  Rank(c, synced, table, override) \in Int
<1> DEFINE given == {table[t] : t \in CandidateTypes(c) \cap Labels} \ {NoPriority}
<1>1. given \subseteq Priorities
    BY DEF PriorityTables
<1>2. given # {} => Max(given) \in Priorities
    BY <1>1, HighestPriority
<1>3. Priorities \subseteq Int
    BY CandidatesAssumption DEF Priorities
<1>4. c.priority \in Int
    BY DEF Candidate
<1>5. synced # NoLabel => table[synced] \in Priorities \cup {NoPriority}
    BY DEF PriorityTables
<1> HIDE DEF given
<1>6. QED
    BY <1>2, <1>3, <1>4, <1>5 DEF Rank, given

-----------------------------------------------------------------------------
(* The policy.                                                             *)

\* Every change of the policy leaves a policy.
LEMMA PolicyStep == PolicyTypeOK /\ PolicyChange => PolicyTypeOK'
<1> SUFFICES ASSUME PolicyTypeOK, PolicyChange PROVE PolicyTypeOK'
    OBVIOUS
<1>1. ASSUME NEW p \in Pools, NEW c \in PoolChoices, UpsertPool(p, c.rules, c.kept)
      PROVE  PolicyTypeOK'
  <2> DEFINE old == IF p \in DOMAIN pools THEN pools[p]
                    ELSE [c.rules EXCEPT !.models = {}, !.resolved = {}]
  <2> DEFINE new == [c.rules EXCEPT
                      !.enabled  = TRUE,
                      !.models   = IF "models" \in c.kept THEN old.models ELSE @,
                      !.resolved = IF "resolved" \in c.kept THEN old.resolved ELSE @]
  <2>1. c.rules \in Rules(Auths, Models)
      BY AdmissionAssumption
  <2>2. old \in Rules(Auths, Models)
      BY <2>1 DEF PolicyTypeOK, Rules
  <2>3. new \in Rules(Auths, Models)
    <3> HIDE DEF old
    <3>1. QED
        BY <2>1, <2>2 DEF Rules
  <2>4. pools' = [q \in DOMAIN pools \cup {p} |-> IF q = p THEN new ELSE pools[q]]
      BY <1>1 DEF UpsertPool
  <2>5. UNCHANGED <<bindings, proxyKeys, authModels, authTypes, typePriorities, overrides>>
      BY <1>1 DEF UpsertPool
  <2> HIDE DEF new
  <2>6. QED
      BY <2>3, <2>4, <2>5 DEF PolicyTypeOK
<1>2. ASSUME NEW p \in Pools, DeletePool(p) PROVE PolicyTypeOK'
    BY <1>2 DEF DeletePool, PolicyTypeOK
<1>3. ASSUME NEW k \in Keys, NEW p \in Pools, UpsertBinding(k, p) PROVE PolicyTypeOK'
    BY <1>3 DEF UpsertBinding, PolicyTypeOK
<1>4. ASSUME NEW k \in Keys, DeleteBinding(k) PROVE PolicyTypeOK'
    BY <1>4 DEF DeleteBinding, PolicyTypeOK
<1>5. ASSUME NEW keys \in ProxyKeyChoices, UpsertProxyKeys(keys) PROVE PolicyTypeOK'
    BY <1>5, AdmissionAssumption DEF UpsertProxyKeys, PolicyTypeOK
<1>6. ASSUME NEW c \in SyncChoices, SyncAuthModels(c.models, c.poolModels, c.resolved)
      PROVE  PolicyTypeOK'
  <2> DEFINE table == IF c.models = NotGiven THEN [a \in Auths |-> {}] ELSE c.models
  <2> DEFINE Resolved(p) == [pools[p] EXCEPT !.resolved =
                               IF p \in DOMAIN c.resolved THEN c.resolved[p] ELSE @]
  <2> DEFINE Listing(p) == IF p \in DOMAIN c.poolModels THEN c.poolModels[p]
                           ELSE UNION {table[a] : a \in Members(Resolved(p))}
  <2>1. /\ c.models \in ModelTables \cup {NotGiven}
        /\ c.poolModels # NotGiven => c.poolModels \in [DOMAIN c.poolModels -> SUBSET Models]
        /\ c.resolved \in [DOMAIN c.resolved -> SUBSET Auths]
      BY AdmissionAssumption
  <2>2. table \in ModelTables
      BY <2>1 DEF ModelTables
  <2>3. ASSUME NEW p \in DOMAIN pools PROVE Resolved(p) \in Rules(Auths, Models)
    <3>1. pools[p] \in Rules(Auths, Models)
        BY DEF PolicyTypeOK
    <3>2. p \in DOMAIN c.resolved => c.resolved[p] \in SUBSET Auths
        BY <2>1
    <3>3. QED
        BY <3>1, <3>2 DEF Rules
  <2>4. ASSUME NEW p \in DOMAIN pools, c.poolModels # NotGiven
        PROVE  Listing(p) \in SUBSET Models
    <3>1. p \in DOMAIN c.poolModels => c.poolModels[p] \in SUBSET Models
        BY <2>1, <2>4
    <3>2. Members(Resolved(p)) \subseteq Auths
        BY <2>3 DEF Members, Rules
    <3>3. \A a \in Auths : table[a] \in SUBSET Models
        BY <2>2 DEF ModelTables
    <3> HIDE DEF Resolved, table
    <3>4. UNION {table[a] : a \in Members(Resolved(p))} \in SUBSET Models
        BY <3>2, <3>3
    <3>5. QED
        BY <3>1, <3>4
  <2> HIDE DEF Resolved, Listing, table
  <2>5. ASSUME NEW p \in DOMAIN pools, c.poolModels # NotGiven
        PROVE  [Resolved(p) EXCEPT !.models = Listing(p)] \in Rules(Auths, Models)
      BY <2>3, <2>4, <2>5 DEF Rules
  <2>6. /\ authModels' = IF c.models = NotGiven THEN authModels ELSE c.models
        /\ pools' = [p \in DOMAIN pools |->
             IF c.poolModels = NotGiven THEN Resolved(p)
             ELSE [Resolved(p) EXCEPT !.models = Listing(p)]]
        /\ UNCHANGED <<bindings, proxyKeys, authTypes, typePriorities, overrides>>
      BY <1>6 DEF SyncAuthModels, Resolved, Listing, table
  <2>7. \A p \in DOMAIN pools' : pools'[p] \in Rules(Auths, Models)
      BY <2>3, <2>5, <2>6
  <2>8. pools' \in [DOMAIN pools' -> Rules(Auths, Models)] /\ DOMAIN pools' = DOMAIN pools
      BY <2>6, <2>7
  <2>9. authModels' \in ModelTables
      BY <2>1, <2>6 DEF PolicyTypeOK
  <2>10. QED
      BY <2>6, <2>8, <2>9 DEF PolicyTypeOK
<1>7. ASSUME NEW c \in PriorityChoices,
             UpdateAuthPriorities(c.types, c.priorities, c.overrides, c.replace, c.removed)
      PROVE  PolicyTypeOK'
  <2>1. /\ c.types \in TypeTables \cup {NotGiven}
        /\ c.priorities \in PriorityTables \cup {NotGiven}
        /\ c.overrides \in OverrideTables
      BY AdmissionAssumption
  <2>2. authTypes' \in TypeTables /\ typePriorities' \in PriorityTables
      BY <1>7, <2>1 DEF UpdateAuthPriorities, PolicyTypeOK
  <2>3. overrides' \in OverrideTables
      BY <1>7, <2>1 DEF UpdateAuthPriorities, PolicyTypeOK, OverrideTables
  <2>4. QED
      BY <1>7, <2>2, <2>3 DEF UpdateAuthPriorities, PolicyTypeOK
<1>8. QED
    BY <1>1, <1>2, <1>3, <1>4, <1>5, <1>6, <1>7 DEF PolicyChange

-----------------------------------------------------------------------------
(* The cooldowns.                                                          *)

\* A cooldown ends at a time (failureCooldownUntil).
LEMMA UntilType ==
  ASSUME NEW f \in Outcome, NEW t \in Nat
  PROVE  /\ CooldownUntil(f, t) \in Nat
         /\ CooldownUntil(f, t) <= t + MaxCooldown
         /\ ModelCooldown \in Nat
    BY CooldownsAssumption DEF CooldownUntil, Outcome

\* The completion and both sweeps leave tables of times.
LEMMA CooldownsStep ==
  ASSUME CooldownsTypeOK, NEW t \in Nat
  PROVE  /\ ClearExpiredFailureCooldowns(t) => CooldownsTypeOK'
         /\ ClearExpiredModelCooldowns(t) => CooldownsTypeOK'
         /\ \A a \in Auths \cup {NoAuth}, f \in Outcome :
              UpdateFailureCooldown(a, f, t) => CooldownsTypeOK'
         /\ \A a \in Auths \cup {NoAuth}, f \in Outcome, m \in Models \cup {NoModel} :
              UpdateModelCooldown(a, m, f, t) => CooldownsTypeOK'
<1> USE DEF CooldownsTypeOK
<1>1. ClearExpiredFailureCooldowns(t) => CooldownsTypeOK'
    BY DEF ClearExpiredFailureCooldowns
<1>2. ClearExpiredModelCooldowns(t) => CooldownsTypeOK'
    BY DEF ClearExpiredModelCooldowns
<1>3. ASSUME NEW a \in Auths \cup {NoAuth}, NEW f \in Outcome, UpdateFailureCooldown(a, f, t)
      PROVE  CooldownsTypeOK'
    BY <1>3, UntilType DEF UpdateFailureCooldown, Cooled
<1>4. ASSUME NEW a \in Auths \cup {NoAuth}, NEW f \in Outcome, NEW m \in Models \cup {NoModel},
             UpdateModelCooldown(a, m, f, t)
      PROVE  CooldownsTypeOK'
    BY <1>4, UntilType DEF UpdateModelCooldown, ModelCooled
<1>5. QED
    BY <1>1, <1>2, <1>3, <1>4

-----------------------------------------------------------------------------
(* The requests.                                                           *)

\* What a scenario offers is typed.
LEMMA ChosenType ==
  ASSUME scenario \in DOMAIN Scenarios
  PROVE  /\ Chosen.calls \subseteq Call
         /\ Chosen.lists \subseteq SUBSET Candidate(Auths)
         /\ Chosen.outcomes \subseteq Outcome
         /\ Chosen.reportedAs \in [Models \cup {NoModel} -> SUBSET (Models \cup {NoModel})]
         /\ DOMAIN Chosen.pools \subseteq Pools
         /\ Chosen.pools \in [DOMAIN Chosen.pools -> Rules(Auths, Models)]
         /\ Chosen.bindings \in [Keys -> Pools \cup {NoPool}]
         /\ Chosen.proxyKeys \subseteq Keys
         /\ Chosen.cooling \subseteq [Auths -> 0..MaxCooldown]
    BY AdmissionAssumption DEF Chosen, Scenario

\* A request presents keys that it sent, or none.
LEMMA PresentedType ==
  ASSUME NEW call \in Call, NEW presented \in Presented(call)
  PROVE  /\ presented \in Keys \cup {NoKey}
         /\ KeyFor(call, presented) \in Keys \cup {NoKey}
         /\ Helped(call) \in BOOLEAN
    BY DEF Call, Presented, KeyFor, Helped

\* The eligible candidates of a pick have an account and a rank.
LEMMA EligibleType ==
  ASSUME PolicyTypeOK, NEW list \in SUBSET Candidate(Auths), NEW pool, NEW m, NEW t
  PROVE  {[id |-> c.id, rank |-> RankOf(c)] : c \in EligibleOf(list, pool, m, t)}
           \in SUBSET [id : Auths, rank : Int]
<1>1. ASSUME NEW c \in EligibleOf(list, pool, m, t)
      PROVE  [id |-> c.id, rank |-> RankOf(c)] \in [id : Auths, rank : Int]
  <2>1. c \in Candidate(Auths)
      BY <1>1 DEF EligibleOf, MatchedOf
  <2>2. c.id \in Auths
      BY <2>1 DEF Candidate
  <2>3. /\ authTypes[c.id] \in Labels \cup {NoLabel}
        /\ overrides[c.id] \in Priorities \cup {NoPriority}
        /\ typePriorities \in PriorityTables
      BY <2>2 DEF PolicyTypeOK, TypeTables, OverrideTables
  <2>4. RankOf(c) \in Int
      BY <2>1, <2>3, RankType DEF RankOf
  <2>5. QED
      BY <2>2, <2>4
<1>2. QED
    BY <1>1

\* The reasons that a pick gives when no candidate is eligible.
LEMMA RefusalType ==
  \A list, pool, m, t : Refusal(list, pool, m, t) \in NoCandidate
    BY DEF Refusal, NoCandidate

\* The reasons that a pick gives before it looks at the candidates.
LEMMA StopsType ==
  \A k, m, trusted : PickStops(k, m, trusted) \in {""} \cup BadStanding
    BY DEF PickStops, BadStanding

\* A request that has not begun.
LEMMA IdleType == Idle \in Request
<1>1. NoOutcome \in Outcome /\ NoCall \in Call
    BY DEF NoOutcome, Outcome, NoCall, Call, Themes, ErrorTypes
<1>2. QED
    BY <1>1 DEF Idle, Request, PCs, Reasons

\* The first state.
LEMMA InitType == Init => TypeOK
<1> SUFFICES ASSUME Init PROVE TypeOK
    OBVIOUS
<1>1. scenario \in DOMAIN Scenarios /\ now \in Nat /\ changes \in Nat
    BY DEF Init
<1>2. PolicyTypeOK
  <2>1. /\ DOMAIN pools \subseteq Pools /\ pools \in [DOMAIN pools -> Rules(Auths, Models)]
        /\ bindings \in [Keys -> Pools \cup {NoPool}]
        /\ proxyKeys \subseteq Keys
      BY <1>1, ChosenType DEF Init
  <2>2. authModels \in ModelTables /\ authTypes \in TypeTables
      BY DEF Init, ModelTables, TypeTables
  <2>3. typePriorities \in PriorityTables /\ overrides \in OverrideTables
      BY DEF Init, PriorityTables, OverrideTables
  <2>4. QED
      BY <2>1, <2>2, <2>3 DEF PolicyTypeOK
<1>3. CooldownsTypeOK
  <2>1. failureCooldowns \in [Auths -> 0..MaxCooldown]
      BY <1>1, ChosenType DEF Init
  <2>2. 0..MaxCooldown \subseteq Nat
      BY CooldownsAssumption
  <2>3. QED
      BY <2>1, <2>2 DEF Init, CooldownsTypeOK
<1>4. req \in [Requests -> Request]
    BY IdleType DEF Init
<1>5. told \in [Scopes -> Nat] /\ quota \in [Auths -> Nat]
    BY DEF Init
<1>6. QED
    BY <1>1, <1>2, <1>3, <1>4, <1>5 DEF TypeOK

\* The router's targets are the labels of providers.
LEMMA TargetsType ==
  ASSUME PolicyTypeOK, NEW k, Available(k), NEW offered \in SUBSET Labels
  PROVE  RouteTargets(PoolOf(k), offered) \subseteq Labels
<1>1. PoolOf(k) \in Rules(Auths, Models)
    BY DEF Available, PoolOf, PolicyTypeOK
<1>2. \A i \in 1..3 : Preferences(PoolOf(k))[i] \subseteq Labels
  <2>1. PoolOf(k).providers \subseteq Labels
      BY <1>1 DEF Rules
  <2>2. \A S : {ProviderOf[l] : l \in S \cap Labels} \ {NoLabel} \subseteq Labels
      BY PolicyAssumption
  <2>3. \A l \in Labels \cup {NoLabel} : Aliases(l) \subseteq Labels
      BY CandidatesAssumption DEF Aliases
  <2>4. /\ UNION {Aliases(t) : t \in PoolOf(k).types} \subseteq Labels
        /\ UNION {Aliases(NameOf[a]) : a \in PoolOf(k).ids} \subseteq Labels
      BY <1>1, <2>3, PolicyAssumption DEF Rules
  <2>5. /\ Preferences(PoolOf(k))[1] = PoolOf(k).providers
        /\ Preferences(PoolOf(k))[2] =
             {ProviderOf[l] : l \in UNION {Aliases(t) : t \in PoolOf(k).types}} \ {NoLabel}
        /\ Preferences(PoolOf(k))[3] =
             {ProviderOf[l] : l \in UNION {Aliases(NameOf[a]) : a \in PoolOf(k).ids}
                                      \ {"supported"}} \ {NoLabel}
      BY DEF Preferences
  <2>6. QED
      BY <2>1, <2>4, <2>5, PolicyAssumption
<1>3. \A i \in 1..3 : Served(Preferences(PoolOf(k))[i], offered) \subseteq Labels
    BY <1>2 DEF Served
<1>4. QED
    BY <1>3 DEF RouteTargets

\* The router's answers are its own two words and the labels of providers.
LEMMA AnswerType ==
  ASSUME PolicyTypeOK, NEW k, NEW m, NEW offered \in SUBSET Labels
  PROVE  RouteAnswers(k, m, offered) \subseteq Labels \cup {"host", "refused"}
    BY TargetsType DEF RouteAnswers

\* A step that leaves policy, cooldowns and histories alone, and one record a record.
LEMMA RecordStep ==
  ASSUME TypeOK, NEW r \in Requests, req' = [req EXCEPT ![r] = req'[r]], req'[r] \in Request,
         UNCHANGED <<now, scenario, changes, policyVars, cooldownVars, historyVars>>
  PROVE  TypeOK'
<1>1. req' \in [Requests -> Request]
    BY DEF TypeOK
<1>2. PolicyTypeOK' /\ CooldownsTypeOK'
    BY DEF TypeOK, PolicyTypeOK, CooldownsTypeOK, policyVars, cooldownVars
<1>3. QED
    BY <1>1, <1>2 DEF TypeOK, historyVars

\* The router.
LEMMA RouteType ==
  ASSUME TypeOK, NEW r \in Requests, RouteTrust(r) \/ Route(r)
  PROVE  TypeOK'
<1>1. req[r] \in Request /\ PolicyTypeOK /\ changes \in Nat
    BY DEF TypeOK
<1>2. CASE RouteTrust(r)
  <2> DEFINE Known(call, presented) ==
               KeyFor(call, presented) # NoKey /\ (Helped(call) => Vouched(presented))
             Begun(call, presented) == [Idle EXCEPT
               !.pc = IF Known(call, presented) THEN "route" ELSE "routed",
               !.answer = IF Known(call, presented) THEN "" ELSE "host",
               !.call = call, !.seen = changes, !.key = KeyFor(call, presented),
               !.trusted = Helped(call)]
  <2>0. PICK call \in Chosen.calls :
          \E presented \in Presented(call) : req' = [req EXCEPT ![r] = Begun(call, presented)]
      BY <1>2 DEF RouteTrust
  <2>1. PICK presented \in Presented(call) : req' = [req EXCEPT ![r] = Begun(call, presented)]
      BY <2>0
  <2>2. call \in Call
      BY ChosenType DEF TypeOK
  <2>3. KeyFor(call, presented) \in Keys \cup {NoKey} /\ Helped(call) \in BOOLEAN
      BY <2>2, PresentedType
  <2>4. Begun(call, presented) \in Request
    <3>1. ASSUME NEW key \in Keys \cup {NoKey}, NEW trusted \in BOOLEAN,
                 NEW pc \in PCs, NEW answer \in {"", "host"}
          PROVE  [Idle EXCEPT !.pc = pc, !.answer = answer, !.call = call, !.seen = changes,
                              !.key = key, !.trusted = trusted] \in Request
      <4> HIDE DEF Idle, PCs, NoCall, Call
      <4>1. QED
          BY <1>1, <2>2, <3>1, IdleType DEF Request
    <3>2. {"route", "routed"} \subseteq PCs
        BY DEF PCs
    <3>3. QED
        BY <2>3, <3>1, <3>2
  <2>5. QED
    <3>1. req'[r] = Begun(call, presented)
        BY <2>1 DEF TypeOK
    <3> HIDE DEF Begun
    <3>2. QED
        BY <1>2, <2>1, <2>4, <3>1, RecordStep DEF RouteTrust
<1>3. CASE Route(r)
  <2>0. PICK offered \in Chosen.offered :
          \E answer \in RouteAnswers(req[r].key, ModelOf(r), offered) :
            req' = [req EXCEPT ![r].pc = IF answer = "refused" THEN "refused" ELSE "routed",
                               ![r].answer = answer]
      BY <1>3 DEF Route
  <2>1. PICK answer \in RouteAnswers(req[r].key, ModelOf(r), offered) :
          req' = [req EXCEPT ![r].pc = IF answer = "refused" THEN "refused" ELSE "routed",
                             ![r].answer = answer]
      BY <2>0
  <2>2. offered \in SUBSET Labels
      BY AdmissionAssumption DEF TypeOK, Chosen, Scenario
  <2>3. answer \in Labels \cup {"host", "refused"}
      BY <1>1, <2>2, AnswerType DEF Request
  <2>4. req'[r] \in Request /\ req' = [req EXCEPT ![r] = req'[r]]
      BY <1>1, <2>1, <2>3 DEF Request, PCs, TypeOK
  <2>5. QED
      BY <1>3, <2>4, RecordStep DEF Route
<1>4. QED
    BY <1>2, <1>3

\* The scheduler, up to its snapshot.
LEMMA SweepType ==
  ASSUME TypeOK, NEW r \in Requests,
         PickStart(r) \/ PickSweepFailures(r) \/ PickSweepModels(r) \/ PickTrust(r)
  PROVE  TypeOK'
<1>1. req[r] \in Request /\ PolicyTypeOK /\ now \in Nat /\ changes \in Nat /\ CooldownsTypeOK
    BY DEF TypeOK
<1>2. CASE PickStart(r)
  <2>1. ModelOf(r) \in Models \cup {NoModel}
      BY <1>1 DEF ModelOf, Request, Call
  <2>2. {s \in Auths \X {NoModel, ModelOf(r)} : told[s] > now} \subseteq Scopes
      BY <2>1 DEF Scopes
  <2>3. {a \in Auths : quota[a] > now} \subseteq Auths
      OBVIOUS
  <2>4. req'[r] \in Request /\ req' = [req EXCEPT ![r] = req'[r]]
      BY <1>1, <1>2, <2>2, <2>3 DEF PickStart, Request, PCs, Picking, TypeOK
  <2>5. QED
      BY <1>2, <2>4, RecordStep DEF PickStart
<1>3. CASE PickSweepFailures(r) \/ PickSweepModels(r)
  <2>1. CooldownsTypeOK'
      BY <1>1, <1>3, CooldownsStep DEF PickSweepFailures, PickSweepModels, Request
  <2>2. req' \in [Requests -> Request]
    <3>1. PICK pc \in {"sweepModels", "trust"} : req' = [req EXCEPT ![r].pc = pc]
        BY <1>3 DEF PickSweepFailures, PickSweepModels
    <3>2. pc \in PCs
        BY DEF PCs, Picking
    <3>3. QED
        BY <1>1, <3>1, <3>2 DEF Request, TypeOK
  <2>3. QED
      BY <1>1, <1>3, <2>1, <2>2
         DEF PickSweepFailures, PickSweepModels, TypeOK, PolicyTypeOK, policyVars, historyVars
<1>4. CASE PickTrust(r)
  <2>1. PICK presented \in Presented(req[r].call) :
          LET key == KeyFor(req[r].call, presented)
              reason == IF req[r].trusted /\ ~Vouched(presented) THEN "untrusted_proxy_key"
                        ELSE IF key = NoKey THEN "host" ELSE ""
          IN  req' = [req EXCEPT ![r].key = key, ![r].reason = reason,
                ![r].pc = CASE reason = "" -> "filter" [] reason = "host" -> "host"
                            [] OTHER -> "refused"]
      BY <1>4 DEF PickTrust
  <2>2. KeyFor(req[r].call, presented) \in Keys \cup {NoKey}
      BY <1>1, PresentedType DEF Request
  <2>3. PICK reason \in {"", "host", "untrusted_proxy_key"}, pc \in {"filter", "host", "refused"} :
          req' = [req EXCEPT ![r].key = KeyFor(req[r].call, presented),
                             ![r].reason = reason, ![r].pc = pc]
      BY <2>1
  <2>4. req'[r] \in Request /\ req' = [req EXCEPT ![r] = req'[r]]
    <3>1. ASSUME NEW key \in Keys \cup {NoKey}, NEW why \in Reasons, NEW next \in PCs,
                 req' = [req EXCEPT ![r].key = key, ![r].reason = why, ![r].pc = next]
          PROVE  req'[r] \in Request /\ req' = [req EXCEPT ![r] = req'[r]]
        BY <1>1, <3>1 DEF Request, TypeOK
    <3>2. reason \in Reasons /\ pc \in PCs
        BY <2>3 DEF PCs, Picking, Reasons, BadStanding
    <3>3. QED
        BY <2>2, <2>3, <3>1, <3>2
  <2>5. QED
      BY <1>4, <2>4, RecordStep DEF PickTrust
<1>5. QED
    BY <1>2, <1>3, <1>4

\* The scheduler, from its snapshot on.
LEMMA SelectType ==
  ASSUME TypeOK, NEW r \in Requests, PickFilter(r) \/ PickReserve(r)
  PROVE  TypeOK'
<1>1. req[r] \in Request /\ PolicyTypeOK
    BY DEF TypeOK
<1>2. CASE PickFilter(r)
  <2> DEFINE key  == req[r].key
             pool == PoolOf(key)
             stop == PickStops(key, ModelOf(r), req[r].trusted)
             t    == req[r].started
             Of(list) == EligibleOf(list, pool, ModelOf(r), t)
             Ranks(list) == {[id |-> c.id, rank |-> RankOf(c)] : c \in Of(list)}
  <2>1. CASE /\ stop # ""
             /\ req' = [req EXCEPT ![r].reason = stop,
                                   ![r].pc = IF stop = "host" THEN "host" ELSE "refused"]
    <3>1. stop \in Reasons
        BY StopsType DEF Reasons
    <3> HIDE DEF stop
    <3>2. req'[r] \in Request /\ req' = [req EXCEPT ![r] = req'[r]]
        BY <1>1, <2>1, <3>1 DEF Request, PCs, TypeOK
    <3>3. QED
        BY <1>2, <3>2, RecordStep DEF PickFilter
  <2>2. CASE \E list \in Chosen.lists :
               req' = [req EXCEPT
                 ![r].eligible = Ranks(list),
                 ![r].reason = IF Of(list) = {} THEN Refusal(list, pool, ModelOf(r), t) ELSE "",
                 ![r].pc = IF Of(list) = {} THEN "refused" ELSE "reserve"]
    <3>1. PICK list \in Chosen.lists :
               req' = [req EXCEPT
                 ![r].eligible = Ranks(list),
                 ![r].reason = IF Of(list) = {} THEN Refusal(list, pool, ModelOf(r), t) ELSE "",
                 ![r].pc = IF Of(list) = {} THEN "refused" ELSE "reserve"]
        BY <2>2
    <3>2. list \in SUBSET Candidate(Auths)
        BY ChosenType DEF TypeOK
    <3>3. Ranks(list) \in SUBSET [id : Auths, rank : Int]
        BY <1>1, <3>2, EligibleType
    <3>4. Refusal(list, pool, ModelOf(r), t) \in Reasons /\ "" \in Reasons
        BY RefusalType DEF Reasons
    <3> HIDE DEF Ranks, Of, pool, t
    <3>5. req'[r] \in Request /\ req' = [req EXCEPT ![r] = req'[r]]
        BY <1>1, <3>1, <3>3, <3>4 DEF Request, PCs, Picking, TypeOK
    <3>6. QED
        BY <1>2, <3>5, RecordStep DEF PickFilter
  <2>3. QED
      BY <1>2, <2>1, <2>2 DEF PickFilter
<1>3. CASE PickReserve(r)
  <2>1. PICK full \in SUBSET req[r].eligible :
          \/ req' = [req EXCEPT ![r].pc = "busy", ![r].reason = "auth_pool_busy"]
          \/ \E c \in req[r].eligible \ full :
               req' = [req EXCEPT ![r].pc = "inflight", ![r].auth = c.id]
      BY <1>3 DEF PickReserve
  <2>2. \A c \in req[r].eligible : c.id \in Auths
      BY <1>1 DEF Request
  <2>3. req'[r] \in Request /\ req' = [req EXCEPT ![r] = req'[r]]
    <3>1. CASE req' = [req EXCEPT ![r].pc = "busy", ![r].reason = "auth_pool_busy"]
        BY <1>1, <3>1 DEF Request, PCs, Reasons, TypeOK
    <3>2. ASSUME NEW a \in Auths, req' = [req EXCEPT ![r].pc = "inflight", ![r].auth = a]
          PROVE  req'[r] \in Request /\ req' = [req EXCEPT ![r] = req'[r]]
        BY <1>1, <3>2 DEF Request, PCs, TypeOK
    <3>3. QED
        BY <2>1, <2>2, <3>1, <3>2
  <2>4. QED
      BY <1>3, <2>3, RecordStep DEF PickReserve
<1>4. QED
    BY <1>2, <1>3

\* A report is told of its account, and no longer promised to the picks.
LEMMA ReportType ==
  ASSUME req \in [Requests -> Request], told \in [Scopes -> Nat],
         NEW r \in Requests, NEW scope \in Scopes \cup {NoAuth} \X (Models \cup {NoModel}),
         NEW until \in Nat, NEW next \in PCs, Report(r, scope, until, next)
  PROVE  req' \in [Requests -> Request] /\ told' \in [Scopes -> Nat]
<1>1. told' \in [Scopes -> Nat]
    BY DEF Report
<1>2. ASSUME NEW q \in Requests PROVE req'[q] \in Request
  <2>1. req[q] \in Request /\ req[q].avoid \ {scope} \in SUBSET Scopes
      BY DEF Request
  <2>2. req'[q] = [req[q] EXCEPT !.pc = IF q = r THEN next ELSE @, !.avoid = @ \ {scope}]
      BY DEF Report
  <2>3. QED
      BY <2>1, <2>2 DEF Request
<1>3. QED
    BY <1>1, <1>2 DEF Report

\* The completion handler.
LEMMA CompleteType ==
  ASSUME TypeOK, NEW r \in Requests,
         HostServes(r) \/ Complete(r) \/ CompleteFailure(r) \/ CompleteModel(r)
  PROVE  TypeOK'
<1> DEFINE a == req[r].auth
           f == req[r].outcome
           t == req[r].started
           m == req[r].reported
<1>1. /\ req[r] \in Request /\ req \in [Requests -> Request] /\ told \in [Scopes -> Nat]
      /\ PolicyTypeOK /\ CooldownsTypeOK /\ now \in Nat /\ quota \in [Auths -> Nat]
    BY DEF TypeOK
<1>2. /\ a \in Auths \cup {NoAuth} /\ f \in Outcome /\ t \in Nat /\ m \in Models \cup {NoModel}
      /\ ResetIn(f, t) \in Nat /\ t + ModelCooldown \in Nat
      /\ <<a, m>> \in Scopes \cup {NoAuth} \X (Models \cup {NoModel})
      /\ <<a, NoModel>> \in Scopes \cup {NoAuth} \X (Models \cup {NoModel})
  <2>1. a \in Auths \cup {NoAuth} /\ f \in Outcome /\ t \in Nat /\ m \in Models \cup {NoModel}
      BY <1>1 DEF Request
  <2> HIDE DEF a, f, t, m
  <2>2. ResetIn(f, t) \in Nat /\ t + ModelCooldown \in Nat
      BY <2>1, UntilType DEF ResetIn, Outcome
  <2>3. QED
      BY <2>1, <2>2 DEF Scopes
<1>3. CASE Complete(r)
  <2>1. PICK g \in Chosen.outcomes, n \in Chosen.reportedAs[ModelOf(r)] :
          req' = [req EXCEPT ![r].pc = "cool", ![r].started = now, ![r].outcome = g,
                             ![r].reported = n]
      BY <1>3 DEF Complete
  <2>2. g \in Outcome /\ n \in Models \cup {NoModel}
    <3>1. ModelOf(r) \in Models \cup {NoModel}
        BY <1>1 DEF ModelOf, Request, Call
    <3>2. QED
        BY <3>1, ChosenType DEF TypeOK
  <2>3. req'[r] \in Request /\ req' = [req EXCEPT ![r] = req'[r]]
      BY <1>1, <2>1, <2>2 DEF Request, PCs
  <2>4. QED
      BY <1>3, <2>3, RecordStep DEF Complete
<1>4. CASE CompleteFailure(r)
  <2>1. CooldownsTypeOK'
    <3>1. UpdateFailureCooldown(a, f, t)
        BY <1>4 DEF CompleteFailure
    <3> HIDE DEF a, f, t
    <3>2. QED
        BY <1>1, <1>2, <3>1, CooldownsStep
  <2>2. req' \in [Requests -> Request] /\ told' \in [Scopes -> Nat]
    <3>1. CASE Report(r, <<a, NoModel>>, ResetIn(f, t), "coolModel")
        BY <1>1, <1>2, <3>1, ReportType DEF PCs
    <3>2. CASE req' = [req EXCEPT ![r].pc = "coolModel"] /\ UNCHANGED told
        BY <1>1, <3>2 DEF Request, PCs
    <3>3. QED
        BY <1>4, <3>1, <3>2 DEF CompleteFailure
  <2>3. quota' \in [Auths -> Nat]
    <3>1. quota' = [quota EXCEPT ![a] = IF @ > ResetIn(f, t) THEN @ ELSE ResetIn(f, t)]
        BY <1>4 DEF CompleteFailure
    <3> HIDE DEF a, f, t
    <3>2. QED
        BY <1>1, <1>2, <3>1
  <2>4. QED
      BY <1>1, <1>4, <2>1, <2>2, <2>3 DEF CompleteFailure, TypeOK, PolicyTypeOK, policyVars
<1>5. CASE CompleteModel(r)
  <2>1. CooldownsTypeOK'
    <3>1. UpdateModelCooldown(a, m, f, t)
        BY <1>5 DEF CompleteModel
    <3> HIDE DEF a, f, t, m
    <3>2. QED
        BY <1>1, <1>2, <3>1, CooldownsStep
  <2>2. req' \in [Requests -> Request] /\ told' \in [Scopes -> Nat]
    <3>1. CASE Report(r, <<a, m>>, IF f.failed THEN t + ModelCooldown ELSE 0, "done")
        BY <1>1, <1>2, <3>1, ReportType DEF PCs
    <3>2. CASE req' = [req EXCEPT ![r].pc = "done"] /\ UNCHANGED told
        BY <1>1, <3>2 DEF Request, PCs
    <3>3. QED
        BY <1>5, <3>1, <3>2 DEF CompleteModel
  <2>3. QED
      BY <1>1, <1>5, <2>1, <2>2 DEF CompleteModel, TypeOK, PolicyTypeOK, policyVars
<1>6. CASE HostServes(r)
  <2>1. PICK b \in Auths : req' = [req EXCEPT ![r].pc = "inflight", ![r].auth = b]
      BY <1>6 DEF HostServes
  <2>2. req'[r] \in Request /\ req' = [req EXCEPT ![r] = req'[r]]
      BY <1>1, <2>1 DEF Request, PCs
  <2>3. QED
      BY <1>6, <2>2, RecordStep DEF HostServes
<1>7. QED
    BY <1>3, <1>4, <1>5, <1>6

\* Every step.
LEMMA StepType == TypeOK /\ [Next]_vars => TypeOK'
<1> SUFFICES ASSUME TypeOK, [Next]_vars PROVE TypeOK'
    OBVIOUS
<1>1. ASSUME NEW r \in Requests, Handle(r) PROVE TypeOK'
    BY <1>1, RouteType, SweepType, SelectType, CompleteType DEF Handle
<1>2. CASE Manage
  <2>1. PolicyTypeOK'
      BY <1>2, PolicyStep DEF Manage, TypeOK
  <2>2. QED
      BY <1>2, <2>1 DEF Manage, TypeOK, CooldownsTypeOK, cooldownVars, historyVars
<1>3. CASE Tick
    BY <1>3 DEF Tick, TypeOK, PolicyTypeOK, CooldownsTypeOK, policyVars, cooldownVars,
                historyVars
<1>4. CASE UNCHANGED vars
    BY <1>4 DEF vars, TypeOK, PolicyTypeOK, CooldownsTypeOK, policyVars, cooldownVars,
                historyVars
<1>5. QED
    BY <1>1, <1>2, <1>3, <1>4 DEF Next

\* Policy, cooldowns, requests and histories keep their types in every state
\* of every scenario.
THEOREM TypeCorrect == Spec => []TypeOK
    BY InitType, StepType, PTL DEF Spec
=============================================================================
