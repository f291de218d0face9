---------------------------- MODULE MCAdmission -----------------------------
(***************************************************************************)
(* Scenarios for Admission.  In Policies one request meets a policy that   *)
(* the administrator changes twice; in Reports three requests of one key   *)
(* share two accounts whose completions report all sorts of failures; in   *)
(* Blamed they ask for two models of one account; in Hosted the host       *)
(* serves one of two requests with it.                                     *)
(***************************************************************************)
EXTENDS Admission, TLC

CONSTANTS r1, r2, r3, k1, k2, a1, a2, p1, p2, m1, m2

Words == {"codex", "plus", "free", "plus_free", "google", "supported"}

Family   == [l \in Words |-> IF l \in {"plus", "free"} THEN "codex" ELSE NoLabel]
Tiers    == [l \in Words |-> CASE l = "plus" -> {"plus"} [] l = "free" -> {"free"}
                               [] l = "plus_free" -> {"plus", "free"} [] OTHER -> {}]
Provider == [l \in Words |-> CASE l = "google" -> "google" [] l = "plus_free" -> NoLabel
                               [] OTHER -> "codex"]
Offered  == [l \in Words |-> {l}]
NoNames  == [a \in Auths |-> NoLabel]

-----------------------------------------------------------------------------
(* The pieces.                                                             *)

Cand(a, declared, priority) ==
  [id |-> a, provider |-> "codex", name |-> NoLabel, declared |-> declared, other |-> {},
   priority |-> priority, usable |-> TRUE]

TypePool(types, models) ==
  [ids |-> {}, resolved |-> {}, types |-> types, providers |-> {}, models |-> models, enabled |-> TRUE]

PlusPool   == TypePool({"plus"}, {m1, m2})
ListedPool == [TypePool({"plus"}, {}) EXCEPT !.ids = {a2}]
MixedPool  == [TypePool({"plus_free"}, {m1}) EXCEPT !.providers = {"google"}, !.resolved = {a2}]
OffPool    == [TypePool({"codex"}, {m1}) EXCEPT !.enabled = FALSE]

SyncedAs(t) == [a \in Auths |-> t]

Ask(sent, helper, model) == [sent |-> sent, helper |-> helper, model |-> model]

Fail(status, type, themes, resetsAt, resetsIn) ==
  [failed |-> TRUE, status |-> status, type |-> type, themes |-> themes,
   resetsAt |-> resetsAt, resetsIn |-> resetsIn]

NotCooling == [a \in Auths |-> 0]
TwoOfAKind == {Cand(a1, {"plus"}, 0), Cand(a2, {"plus"}, 1)}

-----------------------------------------------------------------------------
(* The scenarios.                                                          *)

Calls == {Ask({k1}, NoKey, m1), Ask({k2}, k1, m1), Ask({k1}, k2, m1), Ask({k1, k2}, NoKey, m1),
          Ask({}, NoKey, m1), Ask({k1}, NoKey, NoModel), Ask({k2}, NoKey, m1),
          Ask({k1, NoKey}, NoKey, m1), Ask({k2, NoKey}, k1, m1)}

Lists == {TwoOfAKind, {Cand(a1, {"plus"}, -1)}, {Cand(a1, {}, 0), [Cand(a2, {"free"}, 0) EXCEPT !.other = {"plus"}]}, {}}

\* A success, a 429 with its reset, one that blames the model and exaggerates,
\* a network failure.
Outcomes ==
  {NoOutcome, Fail(429, "other", {}, 2, 0), Fail(429, "", {"model"}, 9, 9),
   Fail(500, "", {"network"}, 0, 0)}

AsAsked    == [m \in Models \cup {NoModel} |-> {m}]
AsUpstream == [m \in Models \cup {NoModel} |-> {m, m2, NoModel}]

Scenery(calls, requests, changing, lists, offered, outcomes, reportedAs, cooling) ==
  [calls |-> calls, maxRequests |-> requests, maxChanges |-> changing, lists |-> lists,
   offered |-> offered, outcomes |-> outcomes, reportedAs |-> reportedAs, cooling |-> cooling,
   pools |-> p1 :> PlusPool @@ p2 :> OffPool, bindings |-> k1 :> p1 @@ k2 :> NoPool,
   proxyKeys |-> {k2}]

\* What becomes of a request that is served is the other scenarios' matter.
Policies == Scenery(Calls, 1, 2, Lists, {{}, {"google"}}, {}, AsAsked,
                    {[a \in Auths |-> 1]})
Reports  == Scenery({Ask({k1}, NoKey, m1)}, 3, 0, {TwoOfAKind}, {{}}, Outcomes, AsAsked,
                    {NotCooling})

OneAccount == {Cand(a1, {"plus"}, 0)}
ModelFails == {NoOutcome, Fail(400, "", {"model"}, 0, 0)}

\* Two models on one account, one of which it may not support.
Blamed == Scenery({Ask({k1}, NoKey, m1), Ask({k1}, NoKey, m2)}, 3, 0, {OneAccount}, {{}}, ModelFails,
                  AsAsked, {NotCooling})

\* The host serves k2 with the same account, and upstream may report another
\* model than the one asked for, or none.
Hosted == Scenery({Ask({k1}, NoKey, m1), Ask({k1}, NoKey, m2), Ask({k2}, NoKey, m1)}, 2, 0,
                  {OneAccount}, {{}}, ModelFails, AsUpstream, {NotCooling})

PoliciesAndReports == "policies" :> Policies @@ "reports" :> Reports @@ "blamed" :> Blamed
                      @@ "hosted" :> Hosted

\* The counterexample to the README: some of the completions are successes.
Late == Scenery({Ask({k1}, NoKey, m1)}, 3, 0, {OneAccount}, {{}},
                {NoOutcome, Fail(429, "usage_limit_reached", {}, 2, 0)}, AsAsked, {NotCooling})

OnlyLate == "late" :> Late

RequestSymmetry == Permutations(Requests)

-----------------------------------------------------------------------------
(* What the administrator may send.                                        *)

PoolEdits ==
  {[rules |-> ListedPool, kept |-> {"models", "resolved"}],
   [rules |-> MixedPool, kept |-> {}],
   [rules |-> TypePool({"codex"}, {}), kept |-> {"resolved"}]}

Offer(a) == [b \in Auths |-> IF b = a THEN {m1} ELSE {}]

Syncs ==
  {[models |-> Offer(a2), poolModels |-> NotGiven, resolved |-> p1 :> {a2}],
   [models |-> NotGiven, poolModels |-> p2 :> {m1}, resolved |-> <<>>],
   [models |-> Offer(a1), poolModels |-> <<>>, resolved |-> p1 :> {a1}]}

NoOverrides == [a \in Auths |-> NoPriority]
Ranked(f, g) == [l \in Words |-> CASE l = "plus" -> f [] l = "free" -> g [] OTHER -> NoPriority]

PriorityEdits ==
  {[types |-> SyncedAs("plus"), priorities |-> Ranked(3, 5), overrides |-> NoOverrides,
    replace |-> FALSE, removed |-> {}],
   [types |-> SyncedAs("free"), priorities |-> Ranked(3, 2), overrides |-> [NoOverrides EXCEPT ![a1] = 9],
    replace |-> FALSE, removed |-> {}],
   [types |-> NotGiven, priorities |-> NotGiven, overrides |-> [NoOverrides EXCEPT ![a2] = 0],
    replace |-> TRUE, removed |-> {a1}]}

ProxyKeyEdits == {{k1}, {k1, k2}}
=============================================================================
