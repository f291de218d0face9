-------------------------- MODULE MCSelectionLoop --------------------------
(***************************************************************************)
(* Groups of one and of three accounts, in every state of the ledger.      *)
(***************************************************************************)
EXTENDS SelectionLoop

CONSTANTS a1, a2, a3, p1

Now == 1

MCCalls ==
  [order : {<<a1>>, <<a1, a2, a3>>},
   tiers : [Auths -> {"plus", NoTier}],
   pool : {p1}, max : {0, 1}, strategy : Strategies, offset : 0..2, now : {Now}]

\* No slot, an expired one, one of an old state file, one and two units.
MCLedgers ==
  {NoSlot, [count |-> 2, expires |-> Now], [count |-> 0, expires |-> Now + 1],
   [count |-> 1, expires |-> Now + 1], [count |-> 2, expires |-> Now + 1]}

MCPoolLedgers == {NoSlot, [count |-> 1, expires |-> Now], [count |-> 1, expires |-> Now + 1]}

\* No limit, a limit of its own, and the fallback.
MCLimits ==
  {[t \in Tiers |-> 0], [t \in Tiers |-> IF t = "plus" THEN 1 ELSE 0],
   [t \in Tiers |-> IF t = "plus" THEN 0 ELSE 2]}
=============================================================================
