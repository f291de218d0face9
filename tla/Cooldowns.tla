----------------------------- MODULE Cooldowns -----------------------------
(***************************************************************************)
(* What the plugin keeps of upstream failures: until when an account is    *)
(* skipped, and until when an account is skipped for one model             *)
(* (concurrency.go), decided from the failure that a completion reports    *)
(* (classifyPluginUsageFailure, events.go).  App.mu guards both tables.    *)
(*                                                                         *)
(* Accounts are named by their normalized ids, which is what the tables    *)
(* and their readers go by.  A missing entry is one that ended at time 0.  *)
(***************************************************************************)
EXTENDS Naturals

CONSTANTS
  Auths, Models,
  NoModel,            \* a request or a record that names no model
  UsageLimitCooldown, RateLimitCooldown, NetworkCooldown, ModelCooldown,
  MaxCooldown         \* maximumFailureCooldown

ASSUME CooldownsAssumption ==
  /\ NoModel \notin Models
  /\ {UsageLimitCooldown, RateLimitCooldown, NetworkCooldown, ModelCooldown} \subseteq 1..MaxCooldown
  /\ MaxCooldown \in Nat

VARIABLES
  failureCooldowns,   \* state.FailureCooldowns: the Until of each account
  modelCooldowns      \* state.ModelCooldowns: the Until of each account and model

cooldownVars == <<failureCooldowns, modelCooldowns>>

CooldownsTypeOK ==
  /\ failureCooldowns \in [Auths -> Nat]
  /\ modelCooldowns \in [Auths \X Models -> Nat]

-----------------------------------------------------------------------------
(* The classification of a failure.                                        *)

\* The outcome that a usage record reports: of a failure, the status, the type
\* and the reset times of the error in its body (empty and 0 when absent), and
\* what the text of the body speaks of.  "proxy" is the bare "socks connect";
\* with a network error beside it, it is one of the proxy_ codes, which are
\* network codes like the others.
Themes == {"model", "proxy", "network"}

\* The error types that the code knows as codes, and "other" for the rest.
ErrorTypes ==
  {"", "usage_limit_reached", "rate_limited", "network", "model_not_supported", "other"}

Outcome ==
  [failed : BOOLEAN, status : Nat, type : ErrorTypes, themes : SUBSET Themes,
   resetsAt : Nat, resetsIn : Nat]

\* "network" stands for every code of isNetworkFailureCode, and "" for the
\* codes that cool nothing down.
Code(f) ==
  IF "model" \in f.themes THEN "model_not_supported"
  ELSE IF "network" \in f.themes \/ ("proxy" \in f.themes /\ f.type = "") THEN "network"
  ELSE IF f.type # "" THEN f.type
  ELSE IF f.status = 429 THEN "rate_limited" ELSE ""

\* Fault: the code of the error alone decides.
CoolsAccountByCode(f) == Code(f) \in {"usage_limit_reached", "rate_limited", "network"}

\* A 429 cools its account whatever its body says.
CoolsAccount(f) ==
  f.status = 429 \/ Code(f) \in {"usage_limit_reached", "rate_limited", "network"}

CoolsModel(f) == Code(f) = "model_not_supported"

\* Fault: a reset in the past, or too far ahead, is believed.
CooldownUntilUnchecked(f, t) ==
  IF f.resetsAt > 0 THEN f.resetsAt
  ELSE IF f.resetsIn > 0 THEN t + f.resetsIn
  ELSE t + RateLimitCooldown

\* failureCooldownUntil: the reported reset when it is plausible, else the
\* reported delay, capped, else a default for the kind of failure.
CooldownUntil(f, t) ==
  IF t < f.resetsAt /\ f.resetsAt <= t + MaxCooldown THEN f.resetsAt
  ELSE t + (IF f.resetsIn > MaxCooldown THEN MaxCooldown
            ELSE IF f.resetsIn > 0 THEN f.resetsIn
            ELSE IF Code(f) = "usage_limit_reached" THEN UsageLimitCooldown
            ELSE IF Code(f) = "network" THEN NetworkCooldown
            ELSE RateLimitCooldown)

-----------------------------------------------------------------------------
(* The two tables.                                                         *)

\* What an outcome seen at time t makes of an account's cooldown: a success
\* deletes it, and a failure that cools replaces it, whatever it was.
Cooled(old, f, t) ==
  IF ~f.failed THEN 0 ELSE IF CoolsAccount(f) THEN CooldownUntil(f, t) ELSE old

ModelCooled(old, f, t) ==
  IF ~f.failed THEN 0 ELSE IF CoolsModel(f) THEN t + ModelCooldown ELSE old

UpdateFailureCooldown(a, f, t) ==
  /\ failureCooldowns' = [failureCooldowns EXCEPT ![a] = Cooled(@, f, t)]
  /\ UNCHANGED modelCooldowns

\* Fault: a success of any model clears the account for all of them.
UpdateModelCooldownCoarse(a, m, f, t) ==
  /\ modelCooldowns' = [am \in Auths \X Models |->
       IF am[1] = a /\ (~f.failed \/ am[2] = m)
       THEN ModelCooled(modelCooldowns[am], f, t) ELSE modelCooldowns[am]]
  /\ UNCHANGED failureCooldowns

\* A record that names no model changes nothing.
UpdateModelCooldown(a, m, f, t) ==
  /\ modelCooldowns' = [am \in Auths \X Models |->
       IF am = <<a, m>> THEN ModelCooled(modelCooldowns[am], f, t) ELSE modelCooldowns[am]]
  /\ UNCHANGED failureCooldowns

ClearExpiredFailureCooldowns(t) ==
  /\ failureCooldowns' = [a \in Auths |->
       IF failureCooldowns[a] > t THEN failureCooldowns[a] ELSE 0]
  /\ UNCHANGED modelCooldowns

ClearExpiredModelCooldowns(t) ==
  /\ modelCooldowns' = [am \in Auths \X Models |->
       IF modelCooldowns[am] > t THEN modelCooldowns[am] ELSE 0]
  /\ UNCHANGED failureCooldowns

FailureCooldownActive(a, t) == failureCooldowns[a] > t

\* No model is cooling for a request that names none.
ModelCooldownActive(a, m, t) == m # NoModel /\ modelCooldowns[<<a, m>>] > t
=============================================================================
