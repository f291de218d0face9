----------------------------- MODULE MCAuthPool -----------------------------
(***************************************************************************)
(* Constants and environments for model checking AuthPool.  A cfg picks    *)
(* one environment as its specification and one value for each constant.   *)
(***************************************************************************)
EXTENDS AuthPool, TLC

CONSTANTS r1, r2, r3, k1, k2, a1, a2, p1, p2, m1

RequestSymmetry == Permutations(Requests)

Grp(priority, order) == [priority |-> priority, order |-> order]
Conf(max, strategy)  == [max |-> max, strategy |-> strategy]
EachPool(value)      == [p \in Pools |-> value]

\* Outcomes of the filter: two equal accounts, a preferred one with a
\* fallback, a single account, none.
SharedGroup  == <<Grp(10, <<a1, a2>>)>>
RankedGroups == <<Grp(20, <<a1>>), Grp(10, <<a2>>)>>
OnlyA1       == <<Grp(20, <<a1>>)>>

SingleAccount     == EachPool({OnlyA1})
SingleOrNone      == p1 :> {OnlyA1} @@ p2 :> {OnlyA1, <<>>}
RankedAndShared   == p1 :> {RankedGroups} @@ p2 :> {SharedGroup}
RankedOnly        == EachPool({RankedGroups})

\* Pools: unlimited, one that admits a single request, two that do.
Unlimited    == EachPool(Conf(0, "fill-first"))
OneAtATime   == EachPool(Conf(1, "fill-first"))
OneLimited   == p1 :> Conf(1, "fill-first") @@ p2 :> Conf(0, "round-robin")
TwoAtATime   == {Conf(2, "round-robin")}

\* Bindings: each key to its own pool, or every key to p1.
OwnPool == k1 :> p1 @@ k2 :> p2
AllToP1 == [k \in Keys |-> p1]
OnlyK1  == [k \in Keys |-> IF k = k1 THEN p1 ELSE NoPool]

\* Limits and tiers.
LimitOne   == [t \in Tiers |-> 1]
FallbackTwo == [t \in Tiers |-> IF t = DefaultTier THEN 2 ELSE 0]
NoLimits   == [t \in Tiers |-> 0]
RaiseLimit == {FallbackTwo}
AllPlus    == EachPool([a \in Auths |-> "plus"])

SameModel  == [m \in Models |-> {m}]

\* Environments with one disturbance each.
ClearingSpec  == Init /\ [][SteadyNext \/ ClearEvents]_vars
ReportedSpec  == Init /\ [][SteadyNext /\ ~(\E r \in Requests : Abandon(r))]_vars
UnboundSpec   == Init /\ [][SteadyNext \/ (\E r \in Requests : PickUnbound(r))]_vars
=============================================================================
