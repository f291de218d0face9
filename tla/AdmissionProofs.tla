-------------------------- MODULE AdmissionProofs ---------------------------
(***************************************************************************)
(* What a pick may count on, for any accounts, models, keys, pools,        *)
(* requests and scenarios: cooldowns that were reported before it began    *)
(* (IInv's Told and Avoided), and the user's standing, decided anew at     *)
(* each of its sections and by the router before (Standing and Promised).  *)
(***************************************************************************)
EXTENDS AdmissionTypes

-----------------------------------------------------------------------------
(* The inductive invariant.                                                *)

\* No handler goes by a time to come.
Clocked == \A r \in Requests : req[r].started <= now

\* What was last told of an account, or of an account and a model, is what the
\* table holds, as long as it lasts.
Told ==
  \A a \in Auths :
    /\ told[<<a, NoModel>>] > now => failureCooldowns[a] = told[<<a, NoModel>>]
    /\ \A m \in Models :
         told[<<a, m>>] > now => modelCooldowns[<<a, m>>] = told[<<a, m>>]

\* No eligible candidate was told to be avoided.
Avoided ==
  \A r \in Requests : req[r].pc = "reserve" =>
    \A e \in req[r].eligible, n \in {NoModel, ModelOf(r)} :
      <<e.id, n>> \in req[r].avoid => told[<<e.id, n>>] <= now

\* Past its trust check a pick goes by a key of the request, and if nothing
\* changed since it began, a proxy key vouches for the helper's and, past the
\* filter, the key's pool is open to it.
Standing(r) ==
  /\ req[r].seen <= changes /\ req[r].picked <= changes
  /\ req[r].trusted = Helped(req[r].call)
  /\ req[r].pc \in {"filter", "reserve"} =>
       /\ req[r].key # NoKey
       /\ IF req[r].trusted THEN req[r].key = req[r].call.helper
          ELSE req[r].key \in req[r].call.sent
       /\ req[r].trusted /\ PickUndisturbed(r) => req[r].call.sent \cap proxyKeys # {}
  /\ req[r].pc = "reserve" /\ PickUndisturbed(r) =>
       PickStops(req[r].key, ModelOf(r), req[r].trusted) = ""

\* The request has one key header, or none, or all of them alike, so that the
\* router and the scheduler read the same.
Sole(r) == \A k, l \in req[r].call.sent : k = l

\* Whichever key of the request is presented, it passes the checks.
Passes(r, k) == req[r].trusted => Vouched(k)

\* What the router found of a request that it sent to a provider, the pick
\* finds again.
Promised(r) ==
  Undisturbed(r) /\ Sole(r) =>
    /\ req[r].pc = "route" => \A k \in Presented(req[r].call) :
         Passes(r, k) /\ KeyFor(req[r].call, k) = req[r].key /\ req[r].key # NoKey
    /\ req[r].pc \in {"routed", "sweep", "sweepModels", "trust"} /\ req[r].answer \in Labels =>
         \A k \in Presented(req[r].call) :
           /\ Passes(r, k)
           /\ KeyFor(req[r].call, k) # NoKey
           /\ PickStops(KeyFor(req[r].call, k), ModelOf(r), req[r].trusted) = ""
    /\ req[r].pc = "filter" /\ req[r].answer \in Labels =>
         PickStops(req[r].key, ModelOf(r), req[r].trusted) = ""
    /\ req[r].pc \in {"host", "refused"} /\ req[r].answer \in Labels =>
         req[r].reason \notin BadStanding

\* The inductive invariant.
IInv ==
  /\ TypeOK
  /\ Clocked /\ CooldownsBounded /\ Told /\ Avoided
  /\ \A r \in Requests : Standing(r) /\ Promised(r)

-----------------------------------------------------------------------------
(* Which part of the state a handler moves.                                *)

\* The record of a request that another one's step leaves alone, but for what
\* it was told to avoid.
Untouched(r) ==
  /\ req'[r].pc = req[r].pc /\ req'[r].call = req[r].call /\ req'[r].seen = req[r].seen
  /\ req'[r].picked = req[r].picked
  /\ req'[r].key = req[r].key /\ req'[r].trusted = req[r].trusted
  /\ req'[r].answer = req[r].answer /\ req'[r].started = req[r].started
  /\ req'[r].eligible = req[r].eligible /\ req'[r].reason = req[r].reason
  /\ req'[r].auth = req[r].auth
  /\ req'[r].avoid \subseteq req[r].avoid

\* What a step of r does to the others' records.
LEMMA OthersUntouched ==
  ASSUME TypeOK, NEW r \in Requests, Handle(r), NEW q \in Requests, q # r
  PROVE  Untouched(q)
<1>1. req \in [Requests -> Request] /\ req[q] \in Request
    BY DEF TypeOK
<1>2. CASE RouteTrust(r) \/ Route(r)
    BY <1>1, <1>2 DEF RouteTrust, Route, Untouched
<1>3. CASE PickStart(r) \/ PickSweepFailures(r) \/ PickSweepModels(r) \/ PickTrust(r)
    BY <1>1, <1>3 DEF PickStart, PickSweepFailures, PickSweepModels, PickTrust, Untouched
<1>4. CASE PickFilter(r)
    BY <1>1, <1>4 DEF PickFilter, Untouched
<1>5. CASE PickReserve(r) \/ HostServes(r) \/ Complete(r)
    BY <1>1, <1>5 DEF PickReserve, HostServes, Complete, Untouched
<1>6. ASSUME NEW scope, NEW until, NEW next, Report(r, scope, until, next)
      PROVE  Untouched(q)
  <2>1. req'[q] = [req[q] EXCEPT !.pc = IF q = r THEN next ELSE @, !.avoid = @ \ {scope}]
      BY <1>6 DEF Report
  <2>2. QED
      BY <1>1, <2>1 DEF Untouched, Request
<1>7. CASE CompleteFailure(r) \/ CompleteModel(r)
    BY <1>1, <1>6, <1>7 DEF CompleteFailure, CompleteModel, Untouched
<1>8. QED
    BY <1>2, <1>3, <1>4, <1>5, <1>7 DEF Handle

\* A step that is no handler's moves no request.
LEMMA IdleSteps ==
  ASSUME TypeOK, [Next]_vars, NEW q \in Requests, \A r \in Requests : ~Handle(r)
  PROVE  req' = req /\ Untouched(q) /\ UNCHANGED <<cooldownVars, historyVars>>
<1>1. req' = req /\ UNCHANGED <<cooldownVars, historyVars>>
    BY DEF Next, Manage, Tick, vars
<1>2. QED
    BY <1>1 DEF Untouched

\* The policy changes by the administrator's steps only, which are counted, and
\* time passes by the clock's.
LEMMA PolicySteps ==
  ASSUME TypeOK, [Next]_vars
  PROVE  /\ now' \in Nat /\ now <= now' /\ changes' \in Nat
         /\ scenario' = scenario
         /\ \/ UNCHANGED <<changes, policyVars>>
            \/ changes' = changes + 1 /\ req' = req
<1>1. now \in Nat /\ changes \in Nat
    BY DEF TypeOK
<1>2. ASSUME NEW r \in Requests, Handle(r)
      PROVE  UNCHANGED <<now, scenario, changes, policyVars>>
    BY <1>2 DEF Handle, RouteTrust, Route, PickStart, PickSweepFailures, PickSweepModels,
                PickTrust, PickFilter, PickReserve, HostServes, Complete, CompleteFailure,
                CompleteModel
<1>3. QED
    BY <1>1, <1>2 DEF Next, Manage, Tick, vars

-----------------------------------------------------------------------------
(* What a handler's step makes of its own request.                         *)

\* A record's fields.
LEMMA Fields ==
  ASSUME TypeOK, NEW r \in Requests
  PROVE  /\ req \in [Requests -> Request]
         /\ "pc" \in DOMAIN req[r] /\ "call" \in DOMAIN req[r] /\ "seen" \in DOMAIN req[r]
         /\ "picked" \in DOMAIN req[r] /\ "reported" \in DOMAIN req[r]
         /\ "key" \in DOMAIN req[r] /\ "trusted" \in DOMAIN req[r] /\ "answer" \in DOMAIN req[r]
         /\ "started" \in DOMAIN req[r] /\ "avoid" \in DOMAIN req[r]
         /\ "eligible" \in DOMAIN req[r] /\ "auth" \in DOMAIN req[r]
         /\ "reason" \in DOMAIN req[r] /\ "outcome" \in DOMAIN req[r]
    BY DEF TypeOK, Request

\* What the router and the scheduler were asked, and what the router said.
SameRequest(r) ==
  /\ req'[r].call = req[r].call /\ req'[r].seen = req[r].seen
  /\ req'[r].trusted = req[r].trusted /\ req'[r].answer = req[r].answer
  /\ req'[r].picked \in {req[r].picked, changes}

\* A request begins (routeModel).
LEMMA RouteTrustMoves ==
  ASSUME TypeOK, NEW r \in Requests, RouteTrust(r)
  PROVE  /\ req[r].pc = "idle" /\ req'[r].started = 0 /\ req'[r].seen = changes
         /\ req'[r].picked = 0
         /\ req'[r].trusted = Helped(req'[r].call)
         /\ \/ req'[r].pc = "routed" /\ req'[r].answer = "host"
            \/ /\ req'[r].pc = "route" /\ req'[r].answer = ""
               /\ \E k \in Presented(req'[r].call) :
                    /\ req'[r].key = KeyFor(req'[r].call, k) /\ req'[r].key # NoKey
                    /\ req'[r].trusted => Vouched(k)
<1> DEFINE Known(call, presented) ==
             KeyFor(call, presented) # NoKey /\ (Helped(call) => Vouched(presented))
           Begun(call, presented) == [Idle EXCEPT
             !.pc = IF Known(call, presented) THEN "route" ELSE "routed",
             !.answer = IF Known(call, presented) THEN "" ELSE "host",
             !.call = call, !.seen = changes, !.key = KeyFor(call, presented),
             !.trusted = Helped(call)]
<1>1. PICK call \in Chosen.calls :
        \E presented \in Presented(call) : req' = [req EXCEPT ![r] = Begun(call, presented)]
    BY DEF RouteTrust
<1>2. PICK presented \in Presented(call) : req' = [req EXCEPT ![r] = Begun(call, presented)]
    BY <1>1
<1>3. req'[r] = Begun(call, presented)
    BY <1>2, Fields
<1>4. /\ req'[r].started = 0 /\ req'[r].seen = changes /\ req'[r].picked = 0 /\ req'[r].call = call
      /\ req'[r].trusted = Helped(call) /\ req'[r].key = KeyFor(call, presented)
    BY <1>3 DEF Idle
<1>5. /\ req'[r].pc = IF Known(call, presented) THEN "route" ELSE "routed"
      /\ req'[r].answer = IF Known(call, presented) THEN "" ELSE "host"
    BY <1>3 DEF Idle
<1> HIDE DEF Begun
<1>6. QED
    BY <1>4, <1>5 DEF RouteTrust

\* The router answers.
LEMMA RouteMoves ==
  ASSUME TypeOK, NEW r \in Requests, Route(r)
  PROVE  /\ req[r].pc = "route"
         /\ req'[r].call = req[r].call /\ req'[r].seen = req[r].seen
         /\ req'[r].trusted = req[r].trusted /\ req'[r].started = req[r].started
         /\ req'[r].picked = req[r].picked
         /\ \E offered \in SUBSET Labels :
              req'[r].answer \in RouteAnswers(req[r].key, ModelOf(r), offered)
         /\ req'[r].pc = IF req'[r].answer = "refused" THEN "refused" ELSE "routed"
<1>1. PICK offered \in Chosen.offered :
        \E answer \in RouteAnswers(req[r].key, ModelOf(r), offered) :
          req' = [req EXCEPT ![r].pc = IF answer = "refused" THEN "refused" ELSE "routed",
                             ![r].answer = answer]
    BY DEF Route
<1>2. PICK answer \in RouteAnswers(req[r].key, ModelOf(r), offered) :
        req' = [req EXCEPT ![r].pc = IF answer = "refused" THEN "refused" ELSE "routed",
                           ![r].answer = answer]
    BY <1>1
<1>3. offered \in SUBSET Labels
    BY AdmissionAssumption DEF TypeOK, Chosen, Scenario
<1>4. QED
    BY <1>2, <1>3, Fields DEF Route

\* The sweeps, with which a pick begins.
LEMMA SweepMoves ==
  ASSUME TypeOK, NEW r \in Requests, PickStart(r) \/ PickSweepFailures(r) \/ PickSweepModels(r)
  PROVE  /\ SameRequest(r) /\ req'[r].started \in {req[r].started, now}
         /\ \/ req[r].pc = "routed" /\ req'[r].pc = "sweep"
            \/ req[r].pc = "sweep" /\ req'[r].pc = "sweepModels"
            \/ req[r].pc = "sweepModels" /\ req'[r].pc = "trust"
<1>1. CASE PickStart(r)
    BY <1>1, Fields DEF PickStart, SameRequest
<1>2. CASE PickSweepFailures(r)
    BY <1>2, Fields DEF PickSweepFailures, SameRequest
<1>3. CASE PickSweepModels(r)
    BY <1>3, Fields DEF PickSweepModels, SameRequest
<1>4. QED
    BY <1>1, <1>2, <1>3

\* The keys are read anew.
LEMMA TrustMoves ==
  ASSUME TypeOK, NEW r \in Requests, PickTrust(r)
  PROVE  /\ req[r].pc = "trust" /\ SameRequest(r) /\ req'[r].started = req[r].started
         /\ req'[r].picked = req[r].picked
         /\ \E k \in Presented(req[r].call) :
              LET refused == req[r].trusted /\ ~Vouched(k)
              IN  /\ req'[r].key = KeyFor(req[r].call, k)
                  /\ req'[r].pc = IF refused THEN "refused"
                                  ELSE IF req'[r].key = NoKey THEN "host" ELSE "filter"
                  /\ req'[r].pc = "host" => req'[r].reason = "host"
<1> DEFINE Reason(k, key) == IF req[r].trusted /\ ~Vouched(k) THEN "untrusted_proxy_key"
                             ELSE IF key = NoKey THEN "host" ELSE ""
           Next_(reason) == CASE reason = "" -> "filter" [] reason = "host" -> "host"
                              [] OTHER -> "refused"
<1>1. PICK k \in Presented(req[r].call) :
        req' = [req EXCEPT ![r].key = KeyFor(req[r].call, k),
                           ![r].reason = Reason(k, KeyFor(req[r].call, k)),
                           ![r].pc = Next_(Reason(k, KeyFor(req[r].call, k)))]
    BY DEF PickTrust
<1> DEFINE reason == Reason(k, KeyFor(req[r].call, k))
           next   == Next_(reason)
<1>2. /\ next = IF req[r].trusted /\ ~Vouched(k) THEN "refused"
                ELSE IF KeyFor(req[r].call, k) = NoKey THEN "host" ELSE "filter"
      /\ next = "host" => reason = "host"
    OBVIOUS
<1>3. req' = [req EXCEPT ![r].key = KeyFor(req[r].call, k), ![r].reason = reason, ![r].pc = next]
    BY <1>1
<1> HIDE DEF reason, next
<1>4. /\ SameRequest(r) /\ req'[r].started = req[r].started /\ req'[r].picked = req[r].picked
      /\ req'[r].key = KeyFor(req[r].call, k) /\ req'[r].reason = reason /\ req'[r].pc = next
    BY <1>3, Fields DEF SameRequest
<1>5. QED
    BY <1>2, <1>4 DEF PickTrust

\* The snapshot decides.
LEMMA FilterMoves ==
  ASSUME TypeOK, NEW r \in Requests, PickFilter(r)
  PROVE  LET key  == req[r].key
             stop == PickStops(key, ModelOf(r), req[r].trusted)
         IN  /\ req[r].pc = "filter" /\ SameRequest(r) /\ req'[r].started = req[r].started
             /\ req'[r].key = key /\ req'[r].avoid = req[r].avoid
             /\ req'[r].picked = req[r].picked
             /\ \/ /\ stop # "" /\ req'[r].reason = stop
                   /\ req'[r].pc = IF stop = "host" THEN "host" ELSE "refused"
                \/ /\ stop = "" /\ req'[r].reason \in NoCandidate \cup {""}
                   /\ req'[r].pc \in {"refused", "reserve"}
                   /\ \E list \in Chosen.lists :
                        req'[r].eligible =
                          {[id |-> c.id, rank |-> RankOf(c)] :
                             c \in EligibleOf(list, PoolOf(key), ModelOf(r), req[r].started)}
<1> DEFINE key  == req[r].key
           stop == PickStops(key, ModelOf(r), req[r].trusted)
           Of(list) == EligibleOf(list, PoolOf(key), ModelOf(r), req[r].started)
           Ranks(list) == {[id |-> c.id, rank |-> RankOf(c)] : c \in Of(list)}
           Why(list) == Refusal(list, PoolOf(key), ModelOf(r), req[r].started)
<1>1. CASE /\ stop # ""
           /\ req' = [req EXCEPT ![r].reason = stop,
                                 ![r].pc = IF stop = "host" THEN "host" ELSE "refused"]
  <2> HIDE DEF stop
  <2>1. /\ SameRequest(r) /\ req'[r].started = req[r].started
        /\ req'[r].key = key /\ req'[r].avoid = req[r].avoid /\ req'[r].picked = req[r].picked
        /\ req'[r].reason = stop /\ req'[r].pc = IF stop = "host" THEN "host" ELSE "refused"
      BY <1>1, Fields DEF SameRequest
  <2>2. QED
      BY <1>1, <2>1 DEF PickFilter, stop
<1>2. CASE /\ stop = ""
           /\ \E list \in Chosen.lists : req' = [req EXCEPT
                ![r].eligible = Ranks(list),
                ![r].reason = IF Of(list) = {} THEN Why(list) ELSE "",
                ![r].pc = IF Of(list) = {} THEN "refused" ELSE "reserve"]
  <2>1. PICK list \in Chosen.lists : req' = [req EXCEPT
                ![r].eligible = Ranks(list),
                ![r].reason = IF Of(list) = {} THEN Why(list) ELSE "",
                ![r].pc = IF Of(list) = {} THEN "refused" ELSE "reserve"]
      BY <1>2
  <2>2. Why(list) \in NoCandidate
      BY RefusalType
  <2> HIDE DEF Of, Ranks, Why, stop
  <2>3. /\ SameRequest(r) /\ req'[r].started = req[r].started
        /\ req'[r].key = key /\ req'[r].avoid = req[r].avoid /\ req'[r].picked = req[r].picked
        /\ req'[r].eligible = Ranks(list)
        /\ req'[r].reason = IF Of(list) = {} THEN Why(list) ELSE ""
        /\ req'[r].pc = IF Of(list) = {} THEN "refused" ELSE "reserve"
      BY <2>1, Fields DEF SameRequest
  <2>4. QED
      BY <1>2, <2>2, <2>3 DEF PickFilter, stop, Ranks, Of
<1>3. QED
    BY <1>1, <1>2 DEF PickFilter

\* The reservation.
LEMMA ReserveMoves ==
  ASSUME TypeOK, NEW r \in Requests, PickReserve(r)
  PROVE  /\ req[r].pc = "reserve" /\ SameRequest(r) /\ req'[r].started = req[r].started
         /\ \/ req'[r].pc = "busy"
            \/ /\ req'[r].pc = "inflight"
               /\ \E e \in req[r].eligible : req'[r].auth = e.id
<1>1. PICK full \in SUBSET req[r].eligible :
        \/ req' = [req EXCEPT ![r].pc = "busy", ![r].reason = "auth_pool_busy"]
        \/ \E c \in req[r].eligible \ full :
             req' = [req EXCEPT ![r].pc = "inflight", ![r].auth = c.id]
    BY DEF PickReserve
<1>2. CASE req' = [req EXCEPT ![r].pc = "busy", ![r].reason = "auth_pool_busy"]
    BY <1>2, Fields DEF PickReserve, SameRequest
<1>3. ASSUME NEW e \in req[r].eligible, req' = [req EXCEPT ![r].pc = "inflight", ![r].auth = e.id]
      PROVE  /\ SameRequest(r) /\ req'[r].started = req[r].started
             /\ req'[r].pc = "inflight" /\ req'[r].auth = e.id
    BY <1>3, Fields DEF SameRequest
<1>4. QED
    BY <1>1, <1>2, <1>3 DEF PickReserve

\* The host's choice and the completion.
LEMMA CompleteMoves ==
  ASSUME TypeOK, NEW r \in Requests,
         HostServes(r) \/ Complete(r) \/ CompleteFailure(r) \/ CompleteModel(r)
  PROVE  /\ SameRequest(r) /\ req'[r].started \in {req[r].started, now}
         /\ \/ req[r].pc = "host" /\ req'[r].pc = "inflight"
            \/ req[r].pc = "inflight" /\ req'[r].pc = "cool"
            \/ CompleteFailure(r) /\ req[r].pc = "cool" /\ req'[r].pc = "coolModel"
               /\ req'[r].auth = req[r].auth
            \/ CompleteModel(r) /\ req[r].pc = "coolModel" /\ req'[r].pc = "done"
               /\ req'[r].auth = req[r].auth
<1>0. CASE HostServes(r)
    BY <1>0, Fields DEF HostServes, SameRequest
<1>1. CASE Complete(r)
  <2>1. PICK f \in Chosen.outcomes, m \in Chosen.reportedAs[ModelOf(r)] :
          req' = [req EXCEPT ![r].pc = "cool", ![r].started = now, ![r].outcome = f,
                             ![r].reported = m]
      BY <1>1 DEF Complete
  <2>2. req[r].pc = "inflight"
      BY <1>1 DEF Complete
  <2>3. QED
      BY <2>1, <2>2, Fields DEF SameRequest
<1>2. ASSUME NEW scope, NEW until, NEW next, Report(r, scope, until, next)
      PROVE  /\ SameRequest(r) /\ req'[r].started = req[r].started
             /\ req'[r].pc = next /\ req'[r].auth = req[r].auth
  <2>1. req'[r] = [req[r] EXCEPT !.pc = next, !.avoid = @ \ {scope}]
      BY <1>2 DEF Report
  <2>2. QED
      BY <2>1, Fields DEF SameRequest
<1>3. CASE CompleteFailure(r)
  <2>1. CASE req' = [req EXCEPT ![r].pc = "coolModel"]
      BY <1>3, <2>1, Fields DEF CompleteFailure, SameRequest
  <2>2. QED
      BY <1>2, <1>3, <2>1 DEF CompleteFailure
<1>4. CASE CompleteModel(r)
  <2>1. CASE req' = [req EXCEPT ![r].pc = "done"]
      BY <1>4, <2>1, Fields DEF CompleteModel, SameRequest
  <2>2. QED
      BY <1>2, <1>4, <2>1 DEF CompleteModel
<1>5. QED
    BY <1>0, <1>1, <1>3, <1>4

-----------------------------------------------------------------------------
(* The cooldowns.                                                          *)

\* What a step does to the tables of cooldowns: a sweep by a time that has
\* come, a completion, or nothing.
LEMMA TableSteps ==
  ASSUME TypeOK, Clocked, [Next]_vars
  PROVE  \/ UNCHANGED <<cooldownVars, historyVars>>
         \/ /\ UNCHANGED <<historyVars, now>>
            /\ \E t \in Nat : /\ t <= now
                              /\ ClearExpiredFailureCooldowns(t) \/ ClearExpiredModelCooldowns(t)
         \/ UNCHANGED now /\ \E r \in Requests : CompleteFailure(r) \/ CompleteModel(r)
<1>1. now \in Nat /\ \A r \in Requests : req[r].started \in Nat
    BY DEF TypeOK, Request
<1>2. ASSUME NEW r \in Requests, PickSweepFailures(r) \/ PickSweepModels(r)
      PROVE  /\ UNCHANGED <<historyVars, now>>
             /\ \E t \in Nat : /\ t <= now
                               /\ ClearExpiredFailureCooldowns(t) \/ ClearExpiredModelCooldowns(t)
    BY <1>1, <1>2 DEF PickSweepFailures, PickSweepModels, Clocked
<1>3. ASSUME NEW r \in Requests,
             \/ RouteTrust(r) \/ Route(r) \/ PickStart(r) \/ PickTrust(r) \/ PickFilter(r)
             \/ PickReserve(r) \/ HostServes(r) \/ Complete(r)
      PROVE  UNCHANGED <<cooldownVars, historyVars>>
    BY <1>3 DEF RouteTrust, Route, PickStart, PickTrust, PickFilter, PickReserve, HostServes,
                Complete
<1>4. ASSUME NEW r \in Requests, CompleteFailure(r) \/ CompleteModel(r)
      PROVE  UNCHANGED now
    BY <1>4 DEF CompleteFailure, CompleteModel
<1>5. QED
    BY <1>2, <1>3, <1>4 DEF Next, Handle, Manage, Tick, vars

\* Every handler's time is one that has come.
LEMMA ClockedStep == TypeOK /\ Clocked /\ [Next]_vars => Clocked'
<1> SUFFICES ASSUME TypeOK, Clocked, [Next]_vars, NEW q \in Requests
             PROVE  req'[q].started <= now'
    BY DEF Clocked
<1>1. /\ req \in [Requests -> Request] /\ req[q] \in Request /\ req[q].started \in Nat /\ now \in Nat
      /\ req[q].started <= now /\ now <= now' /\ now' \in Nat
    BY PolicySteps DEF TypeOK, Request, Clocked
<1>2. CASE \A r \in Requests : ~Handle(r)
    BY <1>1, <1>2, IdleSteps
<1>3. ASSUME NEW r \in Requests, Handle(r), r # q PROVE req'[q].started <= now'
    BY <1>1, <1>3, OthersUntouched DEF Untouched
<1>4. CASE Handle(q)
  <2>1. CASE RouteTrust(q)
    <3>1. req'[q].started = 0
        BY <2>1, RouteTrustMoves
    <3>2. QED
        BY <1>1, <3>1
  <2>2. CASE Route(q)
      BY <1>1, <2>2, RouteMoves
  <2>3. CASE PickStart(q) \/ PickSweepFailures(q) \/ PickSweepModels(q)
      BY <1>1, <2>3, SweepMoves
  <2>4. CASE PickTrust(q)
    <3>1. req'[q].started = req[q].started
        BY <2>4, TrustMoves
    <3>2. QED
        BY <1>1, <3>1
  <2>5. CASE PickFilter(q)
    <3>1. req'[q].started = req[q].started
        BY <2>5, FilterMoves
    <3>2. QED
        BY <1>1, <3>1
  <2>6. CASE PickReserve(q)
      BY <1>1, <2>6, ReserveMoves
  <2>7. CASE HostServes(q) \/ Complete(q) \/ CompleteFailure(q) \/ CompleteModel(q)
      BY <1>1, <2>7, CompleteMoves
  <2>8. QED
      BY <1>4, <2>1, <2>2, <2>3, <2>4, <2>5, <2>6, <2>7 DEF Handle
<1>5. QED
    BY <1>2, <1>3, <1>4

\* No cooldown ends later than the longest from now.
LEMMA BoundedStep == TypeOK /\ Clocked /\ CooldownsBounded /\ [Next]_vars => CooldownsBounded'
<1> SUFFICES ASSUME TypeOK, Clocked, CooldownsBounded, [Next]_vars PROVE CooldownsBounded'
    OBVIOUS
<1>1. /\ now \in Nat /\ now' \in Nat /\ now <= now'
      /\ MaxCooldown \in Nat /\ ModelCooldown \in Nat
      /\ failureCooldowns \in [Auths -> Nat] /\ modelCooldowns \in [Auths \X Models -> Nat]
      /\ \A a \in Auths : failureCooldowns[a] <= now + MaxCooldown
      /\ \A am \in Auths \X Models : modelCooldowns[am] <= now + ModelCooldown
    BY PolicySteps, CooldownsAssumption DEF TypeOK, CooldownsTypeOK, CooldownsBounded
<1>2. CASE UNCHANGED <<cooldownVars, historyVars>>
    BY <1>1, <1>2 DEF CooldownsBounded, cooldownVars
<1>3. ASSUME NEW t \in Nat, ClearExpiredFailureCooldowns(t) \/ ClearExpiredModelCooldowns(t)
      PROVE  CooldownsBounded'
    BY <1>1, <1>3 DEF ClearExpiredFailureCooldowns, ClearExpiredModelCooldowns, CooldownsBounded
<1>4. ASSUME NEW r \in Requests, CompleteFailure(r) PROVE CooldownsBounded'
  <2> DEFINE f == req[r].outcome
             t == req[r].started
  <2>1. f \in Outcome /\ t \in Nat /\ t <= now
      BY DEF TypeOK, Request, Clocked
  <2>2. UpdateFailureCooldown(req[r].auth, f, t)
      BY <1>4 DEF CompleteFailure
  <2> HIDE DEF f, t
  <2>3. CooldownUntil(f, t) \in Nat /\ CooldownUntil(f, t) <= t + MaxCooldown
      BY <2>1, UntilType
  <2>4. QED
      BY <1>1, <2>1, <2>2, <2>3 DEF UpdateFailureCooldown, Cooled, CooldownsBounded
<1>5. ASSUME NEW r \in Requests, CompleteModel(r) PROVE CooldownsBounded'
  <2> DEFINE f == req[r].outcome
             t == req[r].started
  <2>1. f \in Outcome /\ t \in Nat /\ t <= now
      BY DEF TypeOK, Request, Clocked
  <2>2. UpdateModelCooldown(req[r].auth, req[r].reported, f, t)
      BY <1>5 DEF CompleteModel
  <2> HIDE DEF f, t
  <2>3. QED
      BY <1>1, <2>1, <2>2 DEF UpdateModelCooldown, ModelCooled, CooldownsBounded
<1>6. QED
    BY <1>2, <1>3, <1>4, <1>5, TableSteps

\* A report of an account leaves in its table what it told, if that is to last
\* (classifyPluginUsageFailure, updateFailureCooldown).
LEMMA ToldByFailure ==
  ASSUME TypeOK, Clocked, Told, NEW r \in Requests, CompleteFailure(r)
  PROVE  Told'
<1> DEFINE a == req[r].auth
           f == req[r].outcome
           t == req[r].started
<1>1. /\ f \in Outcome /\ t \in Nat /\ t <= now /\ now \in Nat /\ now' = now
      /\ failureCooldowns \in [Auths -> Nat] /\ told \in [Scopes -> Nat]
    BY DEF TypeOK, CooldownsTypeOK, Request, Clocked, CompleteFailure
<1>2. /\ failureCooldowns' = [failureCooldowns EXCEPT ![a] = Cooled(@, f, t)]
      /\ modelCooldowns' = modelCooldowns
      /\ IF Speaks(f) THEN told' = [told EXCEPT ![<<a, NoModel>>] = ResetIn(f, t)]
         ELSE told' = told
    BY DEF CompleteFailure, UpdateFailureCooldown, Report
<1> HIDE DEF a, f, t
<1>3. ASSUME NEW old \in Nat, Speaks(f), ResetIn(f, t) > now PROVE Cooled(old, f, t) = ResetIn(f, t)
    BY <1>1, <1>3, CooldownsAssumption DEF ResetIn, Cooled, CoolsAccount, CooldownUntil, Outcome
<1>4. ASSUME NEW old \in Nat, ~Speaks(f) PROVE Cooled(old, f, t) = old
    BY <1>1, <1>4 DEF Speaks, Cooled, CoolsAccount, Code, Outcome
<1>5. ASSUME NEW b \in Auths, told'[<<b, NoModel>>] > now
      PROVE  failureCooldowns'[b] = told'[<<b, NoModel>>]
  <2>1. <<b, NoModel>> \in Scopes
      BY DEF Scopes
  <2>2. CASE b # a
      BY <1>1, <1>2, <1>5, <2>1, <2>2 DEF Told
  <2>3. CASE b = a
      BY <1>1, <1>2, <1>3, <1>4, <1>5, <2>1, <2>3 DEF Told
  <2>4. QED
      BY <2>2, <2>3
<1>6. ASSUME NEW b \in Auths, NEW m \in Models, told'[<<b, m>>] > now
      PROVE  modelCooldowns'[<<b, m>>] = told'[<<b, m>>]
  <2>1. <<b, m>> # <<a, NoModel>> /\ <<b, m>> \in Scopes
      BY CooldownsAssumption DEF Scopes
  <2>2. told'[<<b, m>>] = told[<<b, m>>]
      BY <1>1, <1>2, <2>1
  <2>3. QED
      BY <1>2, <1>6, <2>2 DEF Told
<1>7. QED
    BY <1>1, <1>5, <1>6 DEF Told

\* A report of an account and a model leaves in its table what it told.
LEMMA ToldByModel ==
  ASSUME TypeOK, Clocked, Told, NEW r \in Requests, CompleteModel(r)
  PROVE  Told'
<1> DEFINE a == req[r].auth
           f == req[r].outcome
           t == req[r].started
           m == req[r].reported
           until == IF f.failed THEN t + ModelCooldown ELSE 0
<1>1. /\ f \in Outcome /\ t \in Nat /\ t <= now /\ now \in Nat /\ now' = now
      /\ modelCooldowns \in [Auths \X Models -> Nat] /\ told \in [Scopes -> Nat]
      /\ m \in Models \cup {NoModel}
    BY DEF TypeOK, CooldownsTypeOK, Request, Clocked, CompleteModel
<1>2. /\ modelCooldowns' = [am \in Auths \X Models |->
           IF am = <<a, m>> THEN ModelCooled(modelCooldowns[am], f, t) ELSE modelCooldowns[am]]
      /\ failureCooldowns' = failureCooldowns
      /\ IF m # NoModel /\ (f.failed => Blames(f)) THEN told' = [told EXCEPT ![<<a, m>>] = until]
         ELSE told' = told
    BY DEF CompleteModel, UpdateModelCooldown, Report
<1> HIDE DEF a, f, t, m
<1>3. ASSUME f.failed PROVE Blames(f) <=> CoolsModel(f)
    BY <1>1 DEF Blames, CoolsModel, Code, Outcome
<1>4. ASSUME NEW b \in Auths, told'[<<b, NoModel>>] > now
      PROVE  failureCooldowns'[b] = told'[<<b, NoModel>>]
  <2>1. told'[<<b, NoModel>>] = told[<<b, NoModel>>]
      BY <1>1, <1>2 DEF Scopes
  <2>2. QED
      BY <1>2, <1>4, <2>1 DEF Told
<1>5. ASSUME NEW b \in Auths, NEW n \in Models, told'[<<b, n>>] > now
      PROVE  modelCooldowns'[<<b, n>>] = told'[<<b, n>>]
  <2>1. n # NoModel /\ <<b, n>> \in Scopes /\ <<b, n>> \in Auths \X Models
      BY CooldownsAssumption DEF Scopes
  <2>2. CASE <<b, n>> # <<a, m>>
    <3>1. told'[<<b, n>>] = told[<<b, n>>] /\ modelCooldowns'[<<b, n>>] = modelCooldowns[<<b, n>>]
        BY <1>1, <1>2, <2>1, <2>2
    <3>2. QED
        BY <1>5, <3>1 DEF Told
  <2>3. CASE <<b, n>> = <<a, m>>
    <3>1. m # NoModel /\ modelCooldowns'[<<b, n>>] = ModelCooled(modelCooldowns[<<b, n>>], f, t)
        BY <1>2, <2>1, <2>3
    <3>2. CASE f.failed => Blames(f)
      <4>1. told'[<<b, n>>] = until
          BY <1>1, <1>2, <2>1, <2>3, <3>1, <3>2
      <4>2. f.failed
          BY <1>1, <1>5, <4>1
      <4>3. QED
          BY <1>3, <3>1, <3>2, <4>1, <4>2 DEF ModelCooled
    <3>3. CASE f.failed /\ ~Blames(f)
      <4>1. told'[<<b, n>>] = told[<<b, n>>]
          BY <1>2, <3>3
      <4>2. QED
          BY <1>3, <1>5, <3>1, <3>3, <4>1 DEF ModelCooled, Told
    <3>4. QED
        BY <3>2, <3>3
  <2>4. QED
      BY <2>2, <2>3
<1>6. QED
    BY <1>1, <1>4, <1>5 DEF Told

\* What was told is kept by the sweeps, however late they come, and by time.
LEMMA ToldStep == TypeOK /\ Clocked /\ Told /\ [Next]_vars => Told'
<1> SUFFICES ASSUME TypeOK, Clocked, Told, [Next]_vars PROVE Told'
    OBVIOUS
<1>1. /\ now \in Nat /\ now' \in Nat /\ now <= now'
      /\ failureCooldowns \in [Auths -> Nat] /\ modelCooldowns \in [Auths \X Models -> Nat]
      /\ told \in [Scopes -> Nat]
      /\ \A a \in Auths : <<a, NoModel>> \in Scopes /\ \A m \in Models : <<a, m>> \in Scopes
    BY PolicySteps DEF TypeOK, CooldownsTypeOK, Scopes
<1>2. CASE UNCHANGED <<cooldownVars, historyVars>>
    BY <1>1, <1>2 DEF Told, cooldownVars, historyVars
<1>3. ASSUME NEW t \in Nat, t <= now, UNCHANGED <<historyVars, now>>,
             ClearExpiredFailureCooldowns(t) \/ ClearExpiredModelCooldowns(t)
      PROVE  Told'
  <2>1. told' = told /\ now' = now
      BY <1>3 DEF historyVars
  <2>2. CASE ClearExpiredFailureCooldowns(t)
      BY <1>1, <1>3, <2>1, <2>2 DEF ClearExpiredFailureCooldowns, Told
  <2>3. CASE ClearExpiredModelCooldowns(t)
      BY <1>1, <1>3, <2>1, <2>3 DEF ClearExpiredModelCooldowns, Told
  <2>4. QED
      BY <1>3, <2>2, <2>3
<1>4. QED
    BY <1>2, <1>3, ToldByFailure, ToldByModel, TableSteps

\* A pick that reads the tables takes nobody who was told to be avoided, and
\* what is told later it need not have heard of.
LEMMA AvoidedStep == TypeOK /\ Clocked /\ Told /\ Avoided /\ [Next]_vars => Avoided'
<1> SUFFICES ASSUME TypeOK, Clocked, Told, Avoided, [Next]_vars,
                    NEW r \in Requests, req'[r].pc = "reserve",
                    NEW e \in req'[r].eligible, NEW n \in {NoModel, ModelOf(r)'},
                    <<e.id, n>> \in req'[r].avoid
             PROVE  told'[<<e.id, n>>] <= now'
    BY DEF Avoided
<1>1. /\ now \in Nat /\ now' \in Nat /\ now <= now' /\ told \in [Scopes -> Nat]
      /\ req \in [Requests -> Request] /\ req[r] \in Request
    BY PolicySteps DEF TypeOK
<1>2. ASSUME req[r].pc = "reserve", e \in req[r].eligible, n \in {NoModel, ModelOf(r)},
             <<e.id, n>> \in req[r].avoid, told' = told
      PROVE  told'[<<e.id, n>>] <= now'
  <2>1. told[<<e.id, n>>] <= now
      BY <1>2 DEF Avoided
  <2>2. <<e.id, n>> \in Scopes
      BY <1>1, <1>2 DEF Request
  <2>3. QED
      BY <1>1, <1>2, <2>1, <2>2
<1>3. CASE \A q \in Requests : ~Handle(q)
  <2>1. req' = req /\ told' = told
      BY <1>3, IdleSteps DEF historyVars
  <2>2. QED
      BY <1>2, <2>1 DEF ModelOf
<1>4. ASSUME NEW q \in Requests, Handle(q), q # r
      PROVE  told'[<<e.id, n>>] <= now'
  <2>1. /\ req[r].pc = "reserve" /\ e \in req[r].eligible /\ n \in {NoModel, ModelOf(r)}
        /\ <<e.id, n>> \in req[r].avoid
      BY <1>4, OthersUntouched DEF Untouched, ModelOf
  <2>2. CASE told' = told
      BY <1>2, <2>1, <2>2
  <2>3. ASSUME NEW scope, NEW until, NEW next, Report(q, scope, until, next)
        PROVE  told'[<<e.id, n>>] <= now'
    <3>1. req'[r] = [req[r] EXCEPT !.pc = IF r = q THEN next ELSE @, !.avoid = @ \ {scope}]
        BY <2>3 DEF Report
    <3>2. <<e.id, n>> # scope
        BY <3>1, Fields
    <3>3. <<e.id, n>> \in Scopes /\ told' = [told EXCEPT ![scope] = until]
        BY <1>1, <2>1, <2>3 DEF Request, Report
    <3>4. told'[<<e.id, n>>] = told[<<e.id, n>>] /\ told[<<e.id, n>>] <= now
        BY <1>1, <2>1, <3>2, <3>3 DEF Avoided
    <3>5. QED
        BY <1>1, <3>3, <3>4
  <2>4. CASE CompleteFailure(q) \/ CompleteModel(q)
      BY <2>2, <2>3, <2>4 DEF CompleteFailure, CompleteModel
  <2>5. CASE RouteTrust(q) \/ Route(q) \/ PickStart(q) \/ PickSweepFailures(q) \/ PickSweepModels(q)
             \/ PickTrust(q) \/ PickFilter(q) \/ PickReserve(q) \/ HostServes(q) \/ Complete(q)
    <3>1. told' = told
        BY <2>5 DEF RouteTrust, Route, PickStart, PickSweepFailures, PickSweepModels, PickTrust,
                    PickFilter, PickReserve, HostServes, Complete, historyVars
    <3>2. QED
        BY <2>2, <3>1
  <2>6. QED
      BY <1>4, <2>4, <2>5 DEF Handle
<1>5. CASE Handle(r)
  <2>1. PickFilter(r)
    <3>1. ~RouteTrust(r)
        BY RouteTrustMoves
    <3>2. ~Route(r)
        BY RouteMoves
    <3>3. ~PickStart(r) /\ ~PickSweepFailures(r) /\ ~PickSweepModels(r)
        BY SweepMoves
    <3>4. ~PickTrust(r)
        BY TrustMoves
    <3>5. ~PickReserve(r)
        BY ReserveMoves
    <3>6. ~HostServes(r) /\ ~Complete(r) /\ ~CompleteFailure(r) /\ ~CompleteModel(r)
        BY CompleteMoves
    <3>7. QED
        BY <1>5, <3>1, <3>2, <3>3, <3>4, <3>5, <3>6 DEF Handle
  <2>2. PICK list \in Chosen.lists :
          req'[r].eligible =
            {[id |-> c.id, rank |-> RankOf(c)] :
               c \in EligibleOf(list, PoolOf(req[r].key), ModelOf(r), req[r].started)}
    <3>1. req'[r].pc \notin {"host", "refused"}
        OBVIOUS
    <3>2. QED
        BY <2>1, <3>1, FilterMoves
  <2>3. PICK c \in EligibleOf(list, PoolOf(req[r].key), ModelOf(r), req[r].started) : e.id = c.id
      BY <2>2
  <2>4. /\ ~FailureCooldownActive(c.id, req[r].started)
        /\ ~ModelCooldownActive(c.id, ModelOf(r), req[r].started)
        /\ c \in Candidate(Auths)
      BY <2>3, ChosenType DEF EligibleOf, MatchedOf, TypeOK
  <2>5. told' = told /\ now' = now /\ n \in {NoModel, ModelOf(r)}
      BY <2>1, FilterMoves DEF PickFilter, historyVars, SameRequest, ModelOf
  <2>6. /\ c.id \in Auths /\ n \in Models \cup {NoModel} /\ req[r].started \in Nat
        /\ req[r].started <= now
        /\ failureCooldowns[c.id] \in Nat
        /\ n # NoModel => modelCooldowns[<<c.id, n>>] \in Nat
        /\ told[<<c.id, n>>] \in Nat
      BY <1>1, <2>4, <2>5
         DEF Candidate, Request, Call, ModelOf, TypeOK, CooldownsTypeOK, Clocked, Scopes
  <2>7. CASE n = NoModel
    <3>1. ~(failureCooldowns[c.id] > req[r].started)
        BY <2>4 DEF FailureCooldownActive
    <3>2. QED
        BY <1>1, <2>3, <2>5, <2>6, <2>7, <3>1 DEF Told
  <2>8. CASE n # NoModel
    <3>1. ~(modelCooldowns[<<c.id, n>>] > req[r].started)
        BY <2>4, <2>5, <2>8 DEF ModelCooldownActive
    <3>2. told[<<c.id, n>>] > now => modelCooldowns[<<c.id, n>>] = told[<<c.id, n>>]
        BY <2>6, <2>8 DEF Told
    <3>3. told[<<c.id, n>>] <= now
        BY <1>1, <2>6, <2>8, <3>1, <3>2
    <3>4. QED
        BY <2>3, <2>5, <3>3
  <2>9. QED
      BY <2>7, <2>8
<1>6. QED
    BY <1>3, <1>4, <1>5

-----------------------------------------------------------------------------
(* The user's standing.                                                    *)

\* A request's standing is looked up anew, and kept until the policy changes.
LEMMA StandingStep ==
  ASSUME TypeOK, NEW r \in Requests, Standing(r), [Next]_vars
  PROVE  Standing(r)'
<1>1. /\ changes \in Nat /\ changes' \in Nat /\ req[r].seen \in Nat /\ req[r].seen <= changes
      /\ req[r].picked \in Nat /\ req[r].picked <= changes
      /\ req[r].trusted = Helped(req[r].call) /\ req[r].trusted \in BOOLEAN
      /\ proxyKeys \subseteq Keys /\ req[r].call \in Call
    BY PolicySteps DEF TypeOK, PolicyTypeOK, Request, Standing
<1>2. CASE changes' = changes + 1 /\ req' = req
  <2>1. ~PickUndisturbed(r)'
      BY <1>1, <1>2 DEF PickUndisturbed
  <2>2. req'[r].seen <= changes' /\ req'[r].picked <= changes'
      BY <1>1, <1>2
  <2>3. QED
      BY <1>2, <2>1, <2>2 DEF Standing, Helped
<1>3. CASE UNCHANGED <<changes, policyVars>>
  <2>1. ASSUME Untouched(r) PROVE Standing(r)'
    <3>1. ModelOf(r)' = ModelOf(r) /\ (PickUndisturbed(r)' <=> PickUndisturbed(r))
        BY <1>3, <2>1 DEF Untouched, ModelOf, PickUndisturbed
    <3>2. proxyKeys' = proxyKeys
        BY <1>3 DEF policyVars
    <3>3. PickStops(req[r].key, ModelOf(r), req[r].trusted)' = PickStops(req[r].key, ModelOf(r), req[r].trusted)
      <4>1. /\ pools' = pools /\ bindings' = bindings /\ authModels' = authModels
            /\ req'[r].key = req[r].key /\ req'[r].trusted = req[r].trusted
          BY <1>3, <2>1 DEF policyVars, Untouched
      <4>2. QED
          BY <3>1, <4>1 DEF PickStops, Bound, Available, PoolOf, PoolModels, Members
    <3>4. QED
        BY <1>3, <2>1, <3>1, <3>2, <3>3 DEF Standing, Untouched, Helped
  <2>2. CASE \A q \in Requests : ~Handle(q)
      BY <2>1, <2>2, IdleSteps
  <2>3. ASSUME NEW q \in Requests, Handle(q), q # r PROVE Standing(r)'
      BY <2>1, <2>3, OthersUntouched
  <2>4. ASSUME /\ req'[r].seen <= changes /\ req'[r].picked <= changes
               /\ req'[r].trusted = Helped(req'[r].call)
               /\ req'[r].pc \notin {"filter", "reserve"}
        PROVE  Standing(r)'
      BY <1>3, <2>4 DEF Standing, Helped
  <2>5. ASSUME SameRequest(r), req'[r].pc \notin {"filter", "reserve"} PROVE Standing(r)'
      BY <1>1, <2>4, <2>5 DEF SameRequest
  <2>6. CASE RouteTrust(r)
    <3>1. /\ req'[r].seen = changes /\ req'[r].picked = 0
          /\ req'[r].trusted = Helped(req'[r].call)
          /\ req'[r].pc \in {"routed", "route"}
        BY <2>6, RouteTrustMoves
    <3>2. QED
        BY <1>1, <2>4, <3>1
  <2>7. CASE Route(r)
    <3>1. /\ req'[r].seen = req[r].seen /\ req'[r].picked = req[r].picked
          /\ req'[r].trusted = req[r].trusted /\ req'[r].call = req[r].call
          /\ req'[r].pc = IF req'[r].answer = "refused" THEN "refused" ELSE "routed"
        BY <2>7, RouteMoves
    <3>2. QED
        BY <1>1, <2>4, <3>1
  <2>8. CASE PickStart(r) \/ PickSweepFailures(r) \/ PickSweepModels(r)
      BY <2>5, <2>8, SweepMoves
  <2>9. CASE PickTrust(r)
    <3>1. SameRequest(r) /\ req'[r].picked = req[r].picked
        BY <2>9, TrustMoves
    <3>2. PICK k \in Presented(req[r].call) :
            /\ req'[r].key = KeyFor(req[r].call, k)
            /\ req'[r].pc = IF req[r].trusted /\ ~Vouched(k) THEN "refused"
                            ELSE IF req'[r].key = NoKey THEN "host" ELSE "filter"
        BY <2>9, TrustMoves
    <3>3. CASE req'[r].pc # "filter"
        BY <2>5, <3>1, <3>2, <3>3
    <3>4. CASE req'[r].pc = "filter"
      <4>1. req'[r].key # NoKey /\ (req[r].trusted => Vouched(k))
          BY <3>2, <3>4
      <4>2. IF req[r].trusted THEN req'[r].key = req[r].call.helper
            ELSE req'[r].key \in req[r].call.sent
          BY <1>1, <3>2, <4>1 DEF KeyFor, Presented
      <4>3. req[r].trusted => req[r].call.sent \cap proxyKeys # {}
          BY <1>1, <4>1, AdmissionAssumption DEF Vouched, Presented
      <4>4. QED
          BY <1>1, <1>3, <3>1, <3>4, <4>1, <4>2, <4>3
             DEF Standing, SameRequest, PickUndisturbed, Helped, policyVars
    <3>5. QED
        BY <3>3, <3>4
  <2>10. CASE PickFilter(r)
    <3>1. /\ req[r].pc = "filter" /\ SameRequest(r) /\ req'[r].key = req[r].key
          /\ req'[r].picked = req[r].picked
          /\ req'[r].pc \in {"host", "refused", "reserve"}
          /\ req'[r].pc = "reserve" => PickStops(req[r].key, ModelOf(r), req[r].trusted) = ""
        BY <2>10, FilterMoves
    <3>2. CASE req'[r].pc # "reserve"
        BY <2>5, <3>1, <3>2
    <3>3. CASE req'[r].pc = "reserve"
      <4>1. /\ pools' = pools /\ bindings' = bindings /\ authModels' = authModels
            /\ proxyKeys' = proxyKeys
            /\ req'[r].key = req[r].key /\ req'[r].trusted = req[r].trusted
            /\ ModelOf(r)' = ModelOf(r)
          BY <1>3, <3>1 DEF policyVars, SameRequest, ModelOf
      <4>2. PickStops(req[r].key, ModelOf(r), req[r].trusted)' = ""
          BY <3>1, <3>3, <4>1 DEF PickStops, Bound, Available, PoolOf, PoolModels, Members
      <4>3. QED
          BY <1>1, <1>3, <3>1, <4>1, <4>2
             DEF Standing, SameRequest, PickUndisturbed, Helped, ModelOf
    <3>4. QED
        BY <3>2, <3>3
  <2>11. CASE PickReserve(r)
      BY <2>5, <2>11, ReserveMoves
  <2>12. CASE HostServes(r) \/ Complete(r) \/ CompleteFailure(r) \/ CompleteModel(r)
      BY <2>5, <2>12, CompleteMoves
  <2>13. QED
      BY <2>2, <2>3, <2>6, <2>7, <2>8, <2>9, <2>10, <2>11, <2>12 DEF Handle
<1>4. QED
    BY <1>2, <1>3, PolicySteps

\* The router and the pick look the same things up (routeModel, pickScheduler).
LEMMA RoutedPasses ==
  ASSUME NEW k, NEW m, NEW trusted, NEW offered, NEW answer \in RouteAnswers(k, m, offered),
         answer \in Labels
  PROVE  PickStops(k, m, trusted) = ""
<1>1. answer # "host" /\ answer # "refused"
    BY AdmissionAssumption
<1>2. QED
    BY <1>1 DEF RouteAnswers, PickStops

\* The router's promise is kept by every later section, until the policy changes.
LEMMA PromisedStep ==
  ASSUME TypeOK, NEW r \in Requests, Standing(r), Promised(r), [Next]_vars
  PROVE  Promised(r)'
<1>1. /\ changes \in Nat /\ changes' \in Nat /\ req[r].seen \in Nat /\ req[r].seen <= changes
      /\ proxyKeys \subseteq Keys /\ req[r].call \in Call
      /\ "host" \notin Labels /\ "" \notin Labels /\ "refused" \notin Labels
    BY PolicySteps, AdmissionAssumption DEF TypeOK, PolicyTypeOK, Request, Standing
<1>2. CASE changes' = changes + 1 /\ req' = req
  <2>0. changes \in Nat /\ req[r].seen \in Nat /\ req[r].seen <= changes
      BY <1>1
  <2>1. ~Undisturbed(r)'
      BY <1>2, <2>0 DEF Undisturbed
  <2>2. QED
      BY <2>1 DEF Promised
<1>3. CASE UNCHANGED <<changes, policyVars>>
  <2>0. /\ pools' = pools /\ bindings' = bindings /\ authModels' = authModels
        /\ proxyKeys' = proxyKeys /\ changes' = changes
      BY <1>3 DEF policyVars
  <2>1. ASSUME SameRequest(r)
        PROVE  /\ Undisturbed(r)' <=> Undisturbed(r)
               /\ Sole(r)' <=> Sole(r)
               /\ ModelOf(r)' = ModelOf(r)
               /\ Presented(req[r].call)' = Presented(req[r].call)
               /\ \A k : (Passes(r, k)' <=> Passes(r, k))
               /\ \A k : KeyFor(req[r].call, k)' = KeyFor(req[r].call, k)
      BY <2>0, <2>1 DEF SameRequest, Undisturbed, Sole, ModelOf, Presented, Passes, Vouched,
                        KeyFor, Helped
  <2>2. ASSUME NEW k, SameRequest(r)
        PROVE  PickStops(k, ModelOf(r), req[r].trusted)' = PickStops(k, ModelOf(r), req[r].trusted)
    <3>1. ModelOf(r)' = ModelOf(r) /\ req'[r].trusted = req[r].trusted
        BY <2>2 DEF SameRequest, ModelOf
    <3>2. QED
        BY <2>0, <3>1 DEF PickStops, Bound, Available, PoolOf, PoolModels, Members
  <2>2a. ASSUME NEW k, SameRequest(r)
         PROVE  PickStops(KeyFor(req[r].call, k), ModelOf(r), req[r].trusted)'
                  = PickStops(KeyFor(req[r].call, k), ModelOf(r), req[r].trusted)
    <3>1. /\ ModelOf(r)' = ModelOf(r) /\ req'[r].trusted = req[r].trusted
          /\ KeyFor(req[r].call, k)' = KeyFor(req[r].call, k)
        BY <2>1, <2>2a DEF SameRequest
    <3> HIDE DEF KeyFor
    <3>2. QED
        BY <2>0, <3>1 DEF PickStops, Bound, Available, PoolOf, PoolModels, Members
  <2>3. ASSUME Untouched(r) PROVE Promised(r)'
    <3>1. SameRequest(r)
        BY <2>3 DEF Untouched, SameRequest
    <3>2. req'[r].pc = req[r].pc /\ req'[r].key = req[r].key /\ req'[r].reason = req[r].reason
          /\ req'[r].answer = req[r].answer
        BY <2>3 DEF Untouched
    <3>3. PickStops(req[r].key, ModelOf(r), req[r].trusted)'
            = PickStops(req[r].key, ModelOf(r), req[r].trusted)
      <4>1. ModelOf(r)' = ModelOf(r) /\ req'[r].trusted = req[r].trusted /\ req'[r].key = req[r].key
          BY <2>1, <3>1, <3>2 DEF SameRequest
      <4>2. QED
          BY <2>0, <4>1 DEF PickStops, Bound, Available, PoolOf, PoolModels, Members
    <3>4. QED
        BY <2>1, <2>2a, <3>1, <3>2, <3>3 DEF Promised
  <2>4. CASE \A q \in Requests : ~Handle(q)
      BY <2>3, <2>4, IdleSteps
  <2>5. ASSUME NEW q \in Requests, Handle(q), q # r PROVE Promised(r)'
      BY <2>3, <2>5, OthersUntouched
  <2>6. CASE RouteTrust(r)
    <3>1. /\ \/ req'[r].pc = "routed" /\ req'[r].answer = "host"
             \/ /\ req'[r].pc = "route" /\ req'[r].answer = ""
                /\ \E k \in Presented(req'[r].call) :
                    /\ req'[r].key = KeyFor(req'[r].call, k) /\ req'[r].key # NoKey
                    /\ req'[r].trusted => Vouched(k)
        BY <2>6, RouteTrustMoves
    <3>2. CASE req'[r].pc = "routed" /\ req'[r].answer = "host"
        BY <1>1, <3>2 DEF Promised
    <3>3. CASE req'[r].pc = "route"
      <4>1. PICK k \in Presented(req'[r].call) :
              /\ req'[r].key = KeyFor(req'[r].call, k) /\ req'[r].key # NoKey
              /\ req'[r].trusted => Vouched(k)
          BY <3>1, <3>3
      <4>2. ASSUME Sole(r)', NEW l \in Presented(req'[r].call) PROVE l = k
          BY <4>1, <4>2 DEF Sole, Presented
      <4>3. QED
          BY <2>0, <3>3, <4>1, <4>2 DEF Promised, Passes, Vouched, KeyFor, Helped, Presented
    <3>4. QED
        BY <3>1, <3>2, <3>3
  <2>7. CASE Route(r)
    <3>1. /\ req[r].pc = "route"
          /\ req'[r].call = req[r].call /\ req'[r].seen = req[r].seen
          /\ req'[r].trusted = req[r].trusted
          /\ req'[r].pc = IF req'[r].answer = "refused" THEN "refused" ELSE "routed"
        BY <2>7, RouteMoves
    <3>2. PICK offered \in SUBSET Labels :
            req'[r].answer \in RouteAnswers(req[r].key, ModelOf(r), offered)
        BY <2>7, RouteMoves
    <3>3. CASE req'[r].answer \notin Labels
        BY <3>1, <3>3 DEF Promised
    <3>4. CASE req'[r].answer \in Labels
      <4>1. req'[r].pc = "routed"
          BY <1>1, <3>1, <3>4
      <4>2. PickStops(req[r].key, ModelOf(r), req[r].trusted) = ""
          BY <3>2, <3>4, RoutedPasses
      <4>3. SUFFICES ASSUME Undisturbed(r)', Sole(r)', NEW k \in Presented(req'[r].call)
                     PROVE  /\ Passes(r, k)'
                            /\ KeyFor(req'[r].call, k) # NoKey
                            /\ PickStops(KeyFor(req[r].call, k), ModelOf(r), req[r].trusted)' = ""
          BY <4>1 DEF Promised, KeyFor, Helped, Presented
      <4>4. Undisturbed(r) /\ Sole(r) /\ k \in Presented(req[r].call)
          BY <2>0, <3>1, <4>3 DEF Undisturbed, Sole, Presented
      <4>5. Passes(r, k) /\ KeyFor(req[r].call, k) = req[r].key /\ req[r].key # NoKey
          BY <3>1, <4>4 DEF Promised
      <4>6. /\ KeyFor(req[r].call, k)' = req[r].key /\ ModelOf(r)' = ModelOf(r)
            /\ req'[r].trusted = req[r].trusted
          BY <3>1, <4>5 DEF KeyFor, Helped, ModelOf
      <4>7. PickStops(KeyFor(req[r].call, k), ModelOf(r), req[r].trusted)' = ""
          BY <2>0, <4>2, <4>6 DEF PickStops, Bound, Available, PoolOf, PoolModels, Members
      <4>8. QED
          BY <2>0, <3>1, <4>5, <4>6, <4>7 DEF Passes, Vouched
    <3>5. QED
        BY <3>3, <3>4
  <2>8. CASE PickStart(r) \/ PickSweepFailures(r) \/ PickSweepModels(r)
    <3>1. /\ SameRequest(r) /\ req[r].pc \in {"routed", "sweep", "sweepModels"}
          /\ req'[r].pc \in {"sweep", "sweepModels", "trust"}
        BY <2>8, SweepMoves
    <3>2. req'[r].answer = req[r].answer
        BY <3>1 DEF SameRequest
    <3>3. QED
        BY <2>1, <2>2a, <3>1, <3>2 DEF Promised
  <2>9. CASE PickTrust(r)
    <3>1. SameRequest(r) /\ req[r].pc = "trust" /\ req'[r].answer = req[r].answer
        BY <2>9, TrustMoves DEF SameRequest
    <3>2. PICK k \in Presented(req[r].call) :
            /\ req'[r].key = KeyFor(req[r].call, k)
            /\ req'[r].pc = IF req[r].trusted /\ ~Vouched(k) THEN "refused"
                            ELSE IF req'[r].key = NoKey THEN "host" ELSE "filter"
        BY <2>9, TrustMoves
    <3>3. SUFFICES ASSUME Undisturbed(r), Sole(r), req[r].answer \in Labels
                   PROVE  /\ req'[r].pc = "filter"
                          /\ PickStops(req[r].key, ModelOf(r), req[r].trusted)' = ""
        BY <2>1, <3>1, <3>2 DEF Promised
    <3>4. /\ Passes(r, k) /\ KeyFor(req[r].call, k) # NoKey
          /\ PickStops(KeyFor(req[r].call, k), ModelOf(r), req[r].trusted) = ""
        BY <3>1, <3>3 DEF Promised
    <3>5. req'[r].pc = "filter"
        BY <3>2, <3>4 DEF Passes
    <3>6. /\ req'[r].key = KeyFor(req[r].call, k) /\ ModelOf(r)' = ModelOf(r)
          /\ req'[r].trusted = req[r].trusted
        BY <3>1, <3>2 DEF SameRequest, ModelOf
    <3>7. QED
        BY <2>0, <3>4, <3>5, <3>6 DEF PickStops, Bound, Available, PoolOf, PoolModels, Members
  <2>10. CASE PickFilter(r)
    <3>1. /\ SameRequest(r) /\ req[r].pc = "filter" /\ req'[r].answer = req[r].answer
          /\ req'[r].pc \in {"host", "refused", "reserve"}
          /\ PickStops(req[r].key, ModelOf(r), req[r].trusted) = "" =>
               req'[r].reason \in NoCandidate \cup {""}
        BY <2>10, FilterMoves DEF SameRequest
    <3>2. (NoCandidate \cup {""}) \cap BadStanding = {}
        BY DEF NoCandidate, BadStanding
    <3>3. Undisturbed(r) /\ Sole(r) /\ req[r].answer \in Labels => req'[r].reason \notin BadStanding
        BY <3>1, <3>2 DEF Promised
    <3>4. QED
        BY <2>1, <3>1, <3>3 DEF Promised
  <2>11. CASE PickReserve(r)
    <3>1. req'[r].pc \in {"busy", "inflight"}
        BY <2>11, ReserveMoves
    <3>2. QED
        BY <3>1 DEF Promised
  <2>12. CASE HostServes(r) \/ Complete(r) \/ CompleteFailure(r) \/ CompleteModel(r)
    <3>1. req'[r].pc \in {"inflight", "cool", "coolModel", "done"}
        BY <2>12, CompleteMoves
    <3>2. QED
        BY <3>1 DEF Promised
  <2>13. QED
      BY <2>4, <2>5, <2>6, <2>7, <2>8, <2>9, <2>10, <2>11, <2>12 DEF Handle
<1>4. QED
    BY <1>2, <1>3, PolicySteps

-----------------------------------------------------------------------------
(* The invariant.                                                          *)

\* The first state.
LEMMA InitIInv == Init => IInv
<1> SUFFICES ASSUME Init PROVE IInv
    OBVIOUS
<1>1. TypeOK
    BY InitType
<1>2. \A r \in Requests : req[r] = Idle
    BY DEF Init
<1>3. /\ Idle.pc = "idle" /\ Idle.started = 0 /\ Idle.seen = 0 /\ Idle.picked = 0 /\ Idle.trusted = FALSE
      /\ Idle.call = NoCall
    BY DEF Idle
<1>4. now = 0 /\ changes = 0 /\ told = [s \in Scopes |-> 0]
    BY DEF Init
<1>5. Clocked
    BY <1>2, <1>3, <1>4 DEF Clocked
<1>6. Told
    BY <1>4 DEF Told, Scopes
<1>7. Avoided
    BY <1>2, <1>3 DEF Avoided
<1>8. CooldownsBounded
  <2>1. failureCooldowns \in [Auths -> 0..MaxCooldown]
      BY <1>1, ChosenType DEF Init, TypeOK
  <2>2. modelCooldowns = [am \in Auths \X Models |-> 0]
      BY DEF Init
  <2>3. QED
      BY <1>4, <2>1, <2>2, CooldownsAssumption DEF CooldownsBounded
<1>9. ASSUME NEW r \in Requests PROVE Standing(r) /\ Promised(r)
  <2>1. Helped(NoCall) = FALSE
      BY DEF Helped, NoCall
  <2>2. Standing(r)
    <3>1. /\ req[r].pc = "idle" /\ req[r].seen = 0 /\ req[r].picked = 0 /\ req[r].trusted = FALSE
          /\ req[r].call = NoCall
        BY <1>2, <1>3
    <3>2. req[r].seen <= changes /\ req[r].picked <= changes
        BY <1>4, <3>1
    <3>3. req[r].trusted = Helped(req[r].call)
        BY <2>1, <3>1
    <3>4. req[r].pc \notin {"filter", "reserve"} /\ req[r].pc # "reserve"
        BY <3>1
    <3>5. QED
        BY <3>2, <3>3, <3>4 DEF Standing
  <2>3. Promised(r)
      BY <1>2, <1>3 DEF Promised
  <2>4. QED
      BY <2>2, <2>3
<1>10. QED
    BY <1>1, <1>5, <1>6, <1>7, <1>8, <1>9 DEF IInv

\* Every step.
LEMMA StepIInv == IInv /\ [Next]_vars => IInv'
<1> SUFFICES ASSUME IInv, [Next]_vars PROVE IInv'
    OBVIOUS
<1>1. TypeOK' /\ Clocked' /\ CooldownsBounded' /\ Told' /\ Avoided'
    BY StepType, ClockedStep, BoundedStep, ToldStep, AvoidedStep DEF IInv
<1>2. ASSUME NEW r \in Requests PROVE Standing(r)' /\ Promised(r)'
    BY StandingStep, PromisedStep DEF IInv
<1>3. QED
    BY <1>1, <1>2 DEF IInv

\* In every state the tables, the histories and the requests agree.
THEOREM Invariant == Spec => []IInv
    BY InitIInv, StepIInv, PTL DEF Spec

-----------------------------------------------------------------------------
(* Cooldowns.                                                              *)

\* However wrong the reset times of upstream, no account is kept out longer
\* than the longest cooldown (failureCooldownUntil).
THEOREM BoundedCooldowns == Spec => []CooldownsBounded
<1>1. IInv => CooldownsBounded
    BY DEF IInv
<1>2. QED
    BY <1>1, Invariant, PTL

\* Only a completion of its own account and model ends or changes a cooldown
\* that runs: a sweep by an old time does not (clearExpiredFailureCooldowns).
THEOREM LastingCooldowns == Spec => CooldownsLast
<1> DEFINE Ends ==
       /\ \A a \in Auths :
            failureCooldowns[a] > now /\ failureCooldowns'[a] # failureCooldowns[a] =>
              \E r \in Requests : req[r].auth = a /\ req[r].pc = "cool" /\ req'[r].pc = "coolModel"
       /\ \A a \in Auths, m \in Models :
            modelCooldowns[<<a, m>>] > now /\ modelCooldowns'[<<a, m>>] # modelCooldowns[<<a, m>>] =>
              \E r \in Requests : /\ req[r].auth = a /\ req[r].reported = m
                                  /\ req[r].pc = "coolModel" /\ req'[r].pc = "done"
<1>1. ASSUME IInv, [Next]_vars PROVE Ends
  <2>1. /\ TypeOK /\ now \in Nat
        /\ failureCooldowns \in [Auths -> Nat] /\ modelCooldowns \in [Auths \X Models -> Nat]
      BY <1>1 DEF IInv, TypeOK, CooldownsTypeOK
  <2>2. CASE UNCHANGED <<cooldownVars, historyVars>>
      BY <2>2 DEF cooldownVars
  <2>3. ASSUME NEW t \in Nat, t <= now,
               ClearExpiredFailureCooldowns(t) \/ ClearExpiredModelCooldowns(t)
        PROVE  Ends
      BY <2>1, <2>3 DEF ClearExpiredFailureCooldowns, ClearExpiredModelCooldowns
  <2>4. ASSUME NEW r \in Requests, CompleteFailure(r) PROVE Ends
    <3>1. req[r].pc = "cool" /\ req'[r].pc = "coolModel"
        BY <2>1, <2>4, CompleteMoves DEF CompleteFailure
    <3>2. /\ \A a \in Auths : a # req[r].auth => failureCooldowns'[a] = failureCooldowns[a]
          /\ modelCooldowns' = modelCooldowns
        BY <2>1, <2>4 DEF CompleteFailure, UpdateFailureCooldown
    <3>3. QED
        BY <3>1, <3>2
  <2>5. ASSUME NEW r \in Requests, CompleteModel(r) PROVE Ends
    <3>1. req[r].pc = "coolModel" /\ req'[r].pc = "done"
        BY <2>1, <2>5, CompleteMoves DEF CompleteModel
    <3>2. /\ \A am \in Auths \X Models :
               am # <<req[r].auth, req[r].reported>> => modelCooldowns'[am] = modelCooldowns[am]
          /\ failureCooldowns' = failureCooldowns
        BY <2>1, <2>5 DEF CompleteModel, UpdateModelCooldown
    <3>3. QED
        BY <3>1, <3>2
  <2>6. QED
      BY <1>1, <2>2, <2>3, <2>4, <2>5, TableSteps DEF IInv
<1>2. QED
    BY <1>1, Invariant, PTL DEF Spec, CooldownsLast

\* The step that selects an account for a request is its reservation.
LEMMA Selection ==
  ASSUME TypeOK, [Next]_vars, NEW r \in Requests, NEW a \in Auths, Selects(r, a)
  PROVE  /\ PickReserve(r) /\ \E e \in req[r].eligible : a = e.id
         /\ UNCHANGED <<now, changes, policyVars, told>>
<1>1. ~(\A q \in Requests : ~Handle(q))
    BY IdleSteps DEF Selects, Untouched
<1>2. Handle(r)
    BY <1>1, OthersUntouched DEF Selects, Untouched
<1>3. PickReserve(r)
  <2>1. req[r].pc = "reserve" /\ req'[r].pc = "inflight"
      BY DEF Selects
  <2>2. ~RouteTrust(r)
      BY <2>1, RouteTrustMoves
  <2>3. ~Route(r)
      BY <2>1, RouteMoves
  <2>4. ~PickStart(r) /\ ~PickSweepFailures(r) /\ ~PickSweepModels(r)
      BY <2>1, SweepMoves
  <2>5. ~PickTrust(r)
      BY <2>1, TrustMoves
  <2>6. ~PickFilter(r)
      BY <2>1, FilterMoves
  <2>7. ~HostServes(r) /\ ~Complete(r) /\ ~CompleteFailure(r) /\ ~CompleteModel(r)
      BY <2>1, CompleteMoves
  <2>8. QED
      BY <1>2, <2>2, <2>3, <2>4, <2>5, <2>6, <2>7 DEF Handle
<1>4. \E e \in req[r].eligible : a = e.id
    BY <1>3, ReserveMoves DEF Selects
<1>5. QED
    BY <1>3, <1>4 DEF PickReserve, historyVars

\* A pick takes no account that a report before its beginning, and none since,
\* keeps out (pickScheduler, updateFailureCooldown, updateModelCooldown).
THEOREM ReportsHonoured == Spec => CoolingHonoured
<1> DEFINE Honoured ==
       \A r \in Requests, a \in Auths : Selects(r, a) =>
         \A n \in {NoModel, ModelOf(r)} : told[<<a, n>>] > now => <<a, n>> \notin req[r].avoid
<1>1. ASSUME IInv, [Next]_vars, NEW r \in Requests, NEW a \in Auths, Selects(r, a),
             NEW n \in {NoModel, ModelOf(r)}, told[<<a, n>>] > now
      PROVE  <<a, n>> \notin req[r].avoid
  <2>1. TypeOK /\ Avoided
      BY <1>1 DEF IInv
  <2>2. PICK e \in req[r].eligible : a = e.id
      BY <1>1, <2>1, Selection
  <2>3. <<a, n>> \in req[r].avoid => told[<<a, n>>] <= now
      BY <1>1, <2>1, <2>2 DEF Avoided, Selects
  <2>4. now \in Nat /\ told[<<a, n>>] \in Nat
      BY <1>1, <2>1 DEF TypeOK, Scopes, ModelOf, Request, Call
  <2>5. QED
      BY <1>1, <2>3, <2>4
<1>2. IInv /\ [Next]_vars => Honoured
    BY <1>1
<1>3. QED
    BY <1>2, Invariant, PTL DEF Spec, CoolingHonoured

-----------------------------------------------------------------------------
(* Standing.                                                               *)

\* Who is served by a pick during which the policy does not change is served by
\* a pool that is open to its user, whatever changed before (pickScheduler).
THEOREM InStanding == Spec => ServedInStanding
<1> DEFINE Stands ==
       \A r \in Requests, a \in Auths :
         Selects(r, a) /\ PickUndisturbed(r) =>
           LET k == req[r].key
           IN  /\ k # NoKey /\ Bound(k) /\ Available(k)
               /\ ModelOf(r) \in PoolModels(PoolOf(k)) \cup {NoModel}
               /\ IF req[r].trusted
                  THEN k = req[r].call.helper /\ req[r].call.sent \cap proxyKeys # {}
                  ELSE k \in req[r].call.sent
<1>1. ASSUME IInv, [Next]_vars, NEW r \in Requests, NEW a \in Auths, Selects(r, a), PickUndisturbed(r)
      PROVE  LET k == req[r].key
             IN  /\ k # NoKey /\ Bound(k) /\ Available(k)
                 /\ ModelOf(r) \in PoolModels(PoolOf(k)) \cup {NoModel}
                 /\ IF req[r].trusted
                    THEN k = req[r].call.helper /\ req[r].call.sent \cap proxyKeys # {}
                    ELSE k \in req[r].call.sent
  <2>1. Standing(r) /\ req[r].pc = "reserve"
      BY <1>1 DEF IInv, Selects
  <2>2. PickStops(req[r].key, ModelOf(r), req[r].trusted) = ""
      BY <1>1, <2>1 DEF Standing
  <2>3. /\ Bound(req[r].key) /\ Available(req[r].key)
        /\ ModelOf(r) \in PoolModels(PoolOf(req[r].key)) \cup {NoModel}
      BY <2>2 DEF PickStops
  <2>4. QED
      BY <1>1, <2>1, <2>3 DEF Standing
<1>2. IInv /\ [Next]_vars => Stands
    BY <1>1
<1>3. QED
    BY <1>2, Invariant, PTL DEF Spec, ServedInStanding

\* The scheduler leaves nobody to the host whom the helper names, and no request
\* that it did not read as having no key or an unbound one (pickScheduler's early
\* returns, extractAPIKey).
THEOREM FailingClosed == Spec => FailsClosed
<1> DEFINE Closed ==
       \A r \in Requests :
         req[r].pc \in Picking /\ req'[r].pc = "host" =>
           LET k == req'[r].key
           IN  /\ ~req[r].trusted /\ k \in Presented(req[r].call)
               /\ k = NoKey \/ ~Bound(k)
<1>1. ASSUME IInv, [Next]_vars, NEW r \in Requests, req[r].pc \in Picking, req'[r].pc = "host"
      PROVE  /\ ~req[r].trusted /\ req'[r].key \in Presented(req[r].call)
             /\ req'[r].key = NoKey \/ ~Bound(req'[r].key)
  <2>1. TypeOK /\ Standing(r) /\ req[r].trusted \in BOOLEAN
      BY <1>1 DEF IInv, TypeOK, Request
  <2>2. CASE PickTrust(r)
    <3>1. PICK k \in Presented(req[r].call) :
            /\ req'[r].key = KeyFor(req[r].call, k)
            /\ req'[r].pc = IF req[r].trusted /\ ~Vouched(k) THEN "refused"
                            ELSE IF req'[r].key = NoKey THEN "host" ELSE "filter"
        BY <2>1, <2>2, TrustMoves
    <3>2. KeyFor(req[r].call, k) = NoKey /\ req'[r].key = NoKey
        BY <1>1, <3>1
    <3>3. QED
        BY <2>1, <3>1, <3>2 DEF Standing, KeyFor, Helped
  <2>3. CASE PickFilter(r)
    <3>1. /\ PickStops(req[r].key, ModelOf(r), req[r].trusted) = "host" /\ req[r].pc = "filter"
          /\ req'[r].key = req[r].key
        BY <1>1, <2>1, <2>3, FilterMoves
    <3>2. ~Bound(req[r].key) /\ ~req[r].trusted
        BY <3>1 DEF PickStops
    <3>3. req[r].key \in Presented(req[r].call)
        BY <2>1, <3>1, <3>2 DEF Standing, Presented
    <3>4. QED
        BY <3>1, <3>2, <3>3
  <2>4. ASSUME ~PickTrust(r), ~PickFilter(r) PROVE FALSE
    <3>1. req[r].pc # req'[r].pc /\ req[r].pc # "route" /\ req[r].pc # "idle"
        BY <1>1 DEF Picking
    <3>2. ~(\A q \in Requests : ~Handle(q))
        BY <1>1, <2>1, <3>1, IdleSteps DEF Untouched
    <3>3. Handle(r)
        BY <2>1, <3>1, <3>2, OthersUntouched DEF Untouched
    <3>4. ~RouteTrust(r)
        BY <2>1, <3>1, RouteTrustMoves
    <3>5. ~Route(r)
        BY <2>1, <3>1, RouteMoves
    <3>6. ~PickStart(r) /\ ~PickSweepFailures(r) /\ ~PickSweepModels(r)
        BY <1>1, <2>1, SweepMoves
    <3>7. ~PickReserve(r)
        BY <1>1, <2>1, ReserveMoves
    <3>8. ~HostServes(r) /\ ~Complete(r) /\ ~CompleteFailure(r) /\ ~CompleteModel(r)
        BY <1>1, <2>1, CompleteMoves
    <3>9. QED
        BY <2>4, <3>3, <3>4, <3>5, <3>6, <3>7, <3>8 DEF Handle
  <2>5. QED
      BY <2>2, <2>3, <2>4
<1>2. IInv /\ [Next]_vars => Closed
    BY <1>1
<1>3. QED
    BY <1>2, Invariant, PTL DEF Spec, FailsClosed

\* The scheduler keeps the router's promise to a request whose key headers do
\* not differ, an empty one counted (routeModel, pickScheduler).
THEOREM PromiseKept == Spec => []RoutedIsServed
<1>1. IInv => RoutedIsServed
    BY DEF IInv, Promised, Sole, RoutedIsServed
<1>2. QED
    BY <1>1, Invariant, PTL

\* Catalogue, router and scheduler judge a key alike (interceptResponse,
\* routeModel, pickScheduler).
THEOREM EntryPoints == Spec => []EntryPointsAgree
<1>1. ASSUME TypeOK, NEW k \in Keys, NEW m \in Models
      PROVE  /\ m \in CatalogueShows(k, Models) <=> PickStops(k, m, FALSE) \in {"", "host"}
             /\ RouteAnswers(k, m, {}) = {"host"} <=> PickStops(k, m, FALSE) = "host"
             /\ RouteAnswers(k, m, {}) \cap Labels # {} => PickStops(k, m, FALSE) = ""
  <2>1. m # NoModel /\ "host" \notin Labels /\ "refused" \notin Labels
      BY CooldownsAssumption, AdmissionAssumption
  <2>2. m \in CatalogueShows(k, Models) <=> PickStops(k, m, FALSE) \in {"", "host"}
      BY <2>1 DEF CatalogueShows, PickStops
  <2>3. RouteAnswers(k, m, {}) = {"host"} <=> PickStops(k, m, FALSE) = "host"
    <3>1. CASE ~Bound(k) \/ ~Available(k)
        BY <2>1, <3>1 DEF RouteAnswers, PickStops
    <3>2. CASE Bound(k) /\ Available(k)
      <4>1. /\ RouteAnswers(k, m, {}) = {"refused"} \/ RouteAnswers(k, m, {}) = RouteTargets(PoolOf(k), {})
            /\ PickStops(k, m, FALSE) # "host"
          BY <2>1, <3>2 DEF RouteAnswers, PickStops
      <4>2. "host" \notin RouteTargets(PoolOf(k), {})
          BY <1>1, <2>1, <3>2, TargetsType DEF TypeOK
      <4>3. QED
          BY <4>1, <4>2
    <3>3. QED
        BY <3>1, <3>2
  <2>4. RouteAnswers(k, m, {}) \cap Labels # {} => PickStops(k, m, FALSE) = ""
      BY RoutedPasses
  <2>5. QED
      BY <2>2, <2>3, <2>4
<1>2. TypeOK => EntryPointsAgree
    BY <1>1 DEF EntryPointsAgree
<1>3. QED
    BY <1>2, TypeCorrect, PTL

-----------------------------------------------------------------------------
(* Candidates.                                                             *)

\* The synced type's priority ranks accounts before anything the host says
\* (schedulerPriorityForCandidate).
THEOREM RanksAlike == Spec => []SameTypeSameRank
<1>1. TypeOK => SameTypeSameRank
    BY DEF SameTypeSameRank, RankOf, Rank
<1>2. QED
    BY <1>1, TypeCorrect, PTL

\* Whoever the rules of a pool take keeps to the pool's tiers, as far as the
\* code looks at them (candidateConflictsWithPoolMode).
LEMMA MatchedKeepsTier ==
  ASSUME NEW Ids, NEW c \in Candidate(Ids), NEW pool \in Rules(Ids, Models),
         NEW synced \in Labels \cup {NoLabel}, Matched(c, pool, synced)
  PROVE  KeepsTier(c, pool, synced)
<1> DEFINE known == OwnTiers(c) \cup TiersNamed({synced})
<1>1. SUFFICES ASSUME \A l \in pool.types : TiersIn[l] # {}, pool.types # {},
                      known \cap StrictTiers(pool) = {}, ~ByProvider(c, pool),
                      ~(Listed(c, pool) /\ OwnTiers(c) = {})
               PROVE  synced # NoLabel
                      /\ CandidateTypes([c EXCEPT !.declared = {}]) \cap AllowedTypes(pool) # {}
    BY DEF KeepsTier
<1>2. /\ pool.types \subseteq Labels /\ NoLabel \notin Labels /\ NoLabel \notin pool.types
      /\ \A l \in Labels : TiersIn[l] \subseteq Labels
    BY CandidatesAssumption DEF Rules
<1>3. StrictTiers(pool) = UNION {TiersIn[l] : l \in pool.types}
    BY <1>2 DEF StrictTiers, TiersNamed
<1>4. StrictTiers(pool) # {}
    BY <1>1, <1>3
<1>5. Conflicts(c, pool, FALSE) /\ (Listed(c, pool) => Conflicts(c, pool, TRUE))
    BY <1>1, <1>4 DEF Conflicts
<1>6. ~Listed(c, pool) /\ ByType(c, pool, synced) /\ synced # NoLabel
    BY <1>1, <1>5 DEF Matched
<1>7. PICK l \in AllowedTypes(pool) : l \in CandidateTypes(c) \cup Aliases(synced)
    BY <1>6 DEF ByType, SchedulerTypes
<1>8. l \in Labels /\ TiersIn[l] # {} /\ TiersIn[l] \subseteq StrictTiers(pool)
  <2>1. CASE l \in pool.types
      BY <1>1, <1>2, <1>3, <2>1
  <2>2. CASE l \in StrictTiers(pool)
    <3>1. PICK s \in pool.types : l \in TiersIn[s]
        BY <1>3, <2>2
    <3>2. TiersIn[l] = {l}
        BY <1>2, <3>1, CandidatesAssumption
    <3>3. QED
        BY <1>2, <2>2, <3>1, <3>2
  <2>3. QED
      BY <1>7, <2>1, <2>2 DEF AllowedTypes
<1>9. ASSUME NEW x \in Labels \cup {NoLabel}, l \in Aliases(x) PROVE l = x
    BY <1>8, <1>9, CandidatesAssumption DEF Aliases
<1>10. l \notin Aliases(synced)
  <2>1. CASE l = synced
      BY <1>1, <1>6, <1>8, <2>1 DEF TiersNamed
  <2>2. QED
      BY <1>9, <2>1
<1>11. l \in CandidateTypes(c) /\ l # "supported"
    BY <1>7, <1>8, <1>10, CandidatesAssumption
<1>12. /\ {c.provider, c.name} \cup c.declared \cup c.other \subseteq Labels \cup {NoLabel}
       /\ c.declared \subseteq Labels
    BY DEF Candidate
<1>13. l \in {c.provider, c.name} \cup c.declared \cup c.other
    BY <1>9, <1>11, <1>12 DEF CandidateTypes
<1>14. l \notin c.declared
  <2>1. ASSUME l \in c.declared PROVE FALSE
    <3>1. TiersIn[l] \subseteq TiersNamed(c.declared)
        BY <1>8, <2>1, CandidatesAssumption DEF TiersNamed
    <3>2. TiersNamed(c.declared) \subseteq known
        BY <1>8, <3>1 DEF OwnTiers
    <3>3. QED
        BY <1>1, <1>8, <3>1, <3>2
  <2>2. QED
      BY <2>1
<1>15. l \in CandidateTypes([c EXCEPT !.declared = {}])
  <2> DEFINE d == [c EXCEPT !.declared = {}]
             words == {d.provider, d.name} \cup d.declared \cup d.other
  <2>1. l \in words
      BY <1>13, <1>14 DEF Candidate
  <2>2. l \in Aliases(l)
      BY <1>8, CandidatesAssumption DEF Aliases
  <2>3. l \in UNION {Aliases(w) : w \in words}
      BY <2>1, <2>2
  <2>4. QED
      BY <2>3 DEF CandidateTypes
<1>16. QED
    BY <1>6, <1>7, <1>15

\* A pool of tiers gives nobody an account of another tier, but for the cases
\* that KeepsTier names.
THEOREM TiersIsolated == Spec => TierIsolation
<1> DEFINE Isolated ==
       \A r \in Requests, list \in Chosen.lists : \A c \in list :
         /\ req[r].pc = "filter" /\ req'[r].pc = "reserve"
         /\ \E e \in req'[r].eligible : e.id = c.id
         /\ c \in MatchedOf(list, PoolOf(req[r].key))
         => KeepsTier(c, PoolOf(req[r].key), authTypes[c.id])
<1>1. ASSUME TypeOK, [Next]_vars, NEW r \in Requests, NEW list \in Chosen.lists, NEW c \in list,
             req[r].pc = "filter", req'[r].pc = "reserve",
             c \in MatchedOf(list, PoolOf(req[r].key))
      PROVE  KeepsTier(c, PoolOf(req[r].key), authTypes[c.id])
  <2>1. c \in Candidate(Auths)
      BY <1>1, ChosenType DEF TypeOK
  <2>2. authTypes[c.id] \in Labels \cup {NoLabel}
      BY <1>1, <2>1 DEF Candidate, TypeOK, PolicyTypeOK, TypeTables
  <2>3. PoolOf(req[r].key) \in Rules(Auths, Models)
    <3>1. ~(\A q \in Requests : ~Handle(q))
        BY <1>1, IdleSteps DEF Untouched
    <3>2. Handle(r)
        BY <1>1, <3>1, OthersUntouched DEF Untouched
    <3>3. ~RouteTrust(r)
        BY <1>1, RouteTrustMoves
    <3>4. ~Route(r)
        BY <1>1, RouteMoves
    <3>5. ~PickStart(r) /\ ~PickSweepFailures(r) /\ ~PickSweepModels(r)
        BY <1>1, SweepMoves
    <3>6. ~PickTrust(r)
        BY <1>1, TrustMoves
    <3>7. ~PickReserve(r)
        BY <1>1, ReserveMoves
    <3>8. ~HostServes(r) /\ ~Complete(r) /\ ~CompleteFailure(r) /\ ~CompleteModel(r)
        BY <1>1, CompleteMoves
    <3>9. PickFilter(r)
        BY <3>2, <3>3, <3>4, <3>5, <3>6, <3>7, <3>8 DEF Handle
    <3>10. PickStops(req[r].key, ModelOf(r), req[r].trusted) = ""
        BY <1>1, <3>9, FilterMoves
    <3>11. Available(req[r].key)
        BY <3>10 DEF PickStops
    <3>12. QED
        BY <1>1, <3>11 DEF Available, PoolOf, TypeOK, PolicyTypeOK
  <2>4. QED
      BY <1>1, <2>1, <2>2, <2>3, MatchedKeepsTier DEF MatchedOf
<1>2. TypeOK /\ [Next]_vars => Isolated
    BY <1>1
<1>3. QED
    BY <1>2, TypeCorrect, PTL DEF Spec, TierIsolation

=============================================================================
