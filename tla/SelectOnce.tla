----------------------------- MODULE SelectOnce -----------------------------
(***************************************************************************)
(* What one call of selectAndReserve promises: in a single step it either  *)
(* reserves the account that Slots!Chosen describes, or reserves nothing   *)
(* because the pool or every account of the group is at its limit.         *)
(***************************************************************************)
EXTENDS Slots

VARIABLES
  call,     \* the arguments
  outcome   \* "open", then the position selected, "pool_full" or "group_full"

SelectReserves ==
  /\ \E i \in DOMAIN call.order :
       /\ Reserve(i, call.order, call.tiers, call.pool, call.max, call.strategy,
                  call.offset, call.now)
       /\ outcome' = <<"selected", i>>

SelectPoolIsFull ==
  /\ BouncePoolFull(call.pool, call.max, call.now)
  /\ outcome' = <<"pool_full">>

SelectGroupIsFull ==
  /\ BounceGroupFull(call.order, call.tiers, call.pool, call.max, call.now)
  /\ outcome' = <<"group_full">>

Next ==
  /\ outcome = <<"open">>
  /\ SelectReserves \/ SelectPoolIsFull \/ SelectGroupIsFull
  /\ UNCHANGED call

vars == <<slotVars, call, outcome>>

Init == outcome = <<"open">>

\* The call ends only once.
Spec == Init /\ [][Next]_vars
=============================================================================
