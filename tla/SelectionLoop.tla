--------------------------- MODULE SelectionLoop ---------------------------
(***************************************************************************)
(* selectAndReserveConcurrencyCandidate as it is written: the pool check,  *)
(* one pass over the group from the offset, and the reservation, all while *)
(* App.mu is held.  AuthPool takes the whole call as one step, described   *)
(* by what it promises (Slots, SelectOnce); this module is the loop that   *)
(* has to keep that promise.                                               *)
(***************************************************************************)
EXTENDS Slots

CONSTANTS Calls, Ledgers, LimitChoices, PoolLedgers

\* The arguments of a call; the scheduler never passes an empty group.
Call ==
  [order : Seq(Auths) \ {<<>>}, tiers : [Auths -> Tiers \cup {NoTier}],
   pool : Pools, max : Nat, strategy : Strategies, offset : Nat, now : Nat]

ASSUME CallsAssumption ==
  /\ Ledgers \subseteq Slot /\ PoolLedgers \subseteq Slot
  /\ LimitChoices \subseteq [Tiers -> Nat]
  /\ Calls \subseteq Call

VARIABLES
  call,           \* the arguments, with the tiers of the accounts
  before,         \* the ledger when the lock was taken
  pc,             \* "pool", "loop", "reserve", "done"
  step,           \* the loop counter
  selectedIndex,  \* 0 while no candidate is selected
  selectedCount,
  blocked

locals == <<call, before, pc, step, selectedIndex, selectedCount, blocked>>
vars   == <<slotVars, locals>>

\* The loop never runs past the group and never loses the type of the ledger.
TypeOK ==
  /\ SlotsTypeOK
  /\ call \in Calls
  /\ pc \in {"pool", "loop", "reserve", "done"}
  /\ step \in 0..Len(call.order)
  /\ selectedIndex \in 0..Len(call.order)
  /\ selectedCount \in Nat
  /\ blocked \in BOOLEAN

Init ==
  /\ call \in Calls
  /\ slots \in [Auths -> Ledgers]
  /\ poolSlots \in [Pools -> PoolLedgers]
  /\ limits \in LimitChoices
  /\ before = [slots |-> slots, pools |-> poolSlots]
  /\ pc = "pool"
  /\ step = 0 /\ selectedIndex = 0 /\ selectedCount = 0 /\ blocked = FALSE

-----------------------------------------------------------------------------
\* Fault: a full pool is not reported as the reason.
CheckPoolSilently ==
  /\ pc = "pool"
  /\ pc' = IF PoolAtLimit(call.pool, call.max, call.now) THEN "done" ELSE "loop"
  /\ poolSlots' = [poolSlots EXCEPT ![call.pool] = SweptPool(call.pool, call.now)]
  /\ UNCHANGED <<slots, limits, call, before, step, selectedIndex, selectedCount, blocked>>

\* The expired slot of the pool is dropped, then its count is checked.
CheckPool ==
  /\ pc = "pool"
  /\ poolSlots' = [poolSlots EXCEPT ![call.pool] = SweptPool(call.pool, call.now)]
  /\ LET full == PoolAtLimit(call.pool, call.max, call.now)
     IN  /\ pc' = IF full THEN "done" ELSE "loop"
         /\ blocked' = full
  /\ UNCHANGED <<slots, limits, call, before, step, selectedIndex, selectedCount>>

Index     == ((call.offset + step) % Len(call.order)) + 1
Candidate == call.order[Index]
CandTier  == call.tiers[Candidate]
FillFirst == call.strategy = "fill-first"

\* Fault: one turn too many.
LookingTooFar == pc = "loop" /\ step <= Len(call.order)

Looking   == pc = "loop" /\ step < Len(call.order)

Take(count) == selectedIndex' = Index /\ selectedCount' = count

\* Fill-first leaves the loop with its first candidate.
Continue == pc' = (IF FillFirst THEN "reserve" ELSE "loop") /\ step' = step + 1

\* Fault: a candidate without a tier does not replace one under load.
LookUnmeteredInOrder ==
  /\ Looking /\ CandTier = NoTier
  /\ IF FillFirst \/ selectedIndex = 0
     THEN Take(0) ELSE UNCHANGED <<selectedIndex, selectedCount>>
  /\ Continue
  /\ UNCHANGED <<slotVars, call, before, blocked>>

\* A candidate without a tier has no slot and no limit: it replaces a
\* selection that carries load.
LookUnmetered ==
  /\ Looking /\ CandTier = NoTier
  /\ IF FillFirst \/ selectedIndex = 0 \/ selectedCount > 0
     THEN Take(0) ELSE UNCHANGED <<selectedIndex, selectedCount>>
  /\ Continue
  /\ UNCHANGED <<slotVars, call, before, blocked>>

\* An expired slot is dropped before it is counted.
LookMetered ==
  LET count == Load(slots[Candidate], call.now)
  IN  /\ Looking /\ CandTier # NoTier
      /\ slots' = Swept({Candidate}, call.tiers, call.now)
      /\ \/ /\ AtLimit(Candidate, CandTier, call.now)
            /\ blocked' = TRUE
            /\ pc' = pc /\ step' = step + 1
            /\ UNCHANGED <<selectedIndex, selectedCount>>
         \/ /\ ~AtLimit(Candidate, CandTier, call.now)
            /\ IF FillFirst \/ selectedIndex = 0 \/ count < selectedCount
               THEN Take(count) ELSE UNCHANGED <<selectedIndex, selectedCount>>
            /\ Continue
            /\ UNCHANGED blocked
      /\ UNCHANGED <<poolSlots, limits, call, before>>

\* Fault: a group without room is tried again, with the lock held.
LoopEndsWithRoom ==
  /\ pc = "loop" /\ step = Len(call.order)
  /\ IF selectedIndex = 0 THEN step' = 0 /\ pc' = pc ELSE pc' = "reserve" /\ step' = step
  /\ UNCHANGED <<slotVars, call, before, selectedIndex, selectedCount, blocked>>

LoopEnds ==
  /\ pc = "loop" /\ step = Len(call.order)
  /\ pc' = IF selectedIndex = 0 THEN "done" ELSE "reserve"
  /\ UNCHANGED <<slotVars, call, before, step, selectedIndex, selectedCount, blocked>>

\* The loop left no expired slot of the selected account or of the pool behind.
ReserveSelected ==
  LET auth == call.order[selectedIndex]
  IN  /\ pc = "reserve"
      /\ slots' = IF call.tiers[auth] = NoTier THEN slots
                  ELSE [slots EXCEPT ![auth] = Reserved(@, call.now)]
      /\ poolSlots' = [poolSlots EXCEPT ![call.pool] = Reserved(@, call.now)]
      /\ pc' = "done"
      /\ UNCHANGED <<limits, call, before, step, selectedIndex, selectedCount, blocked>>

Next == CheckPool \/ LookUnmetered \/ LookMetered \/ LoopEnds \/ ReserveSelected

Spec == Init /\ [][Next]_vars /\ WF_vars(Next)

-----------------------------------------------------------------------------
(* Nobody else sees the ledger until the lock is released.                 *)

Outcome ==
  IF pc # "done" THEN <<"open">>
  ELSE IF selectedIndex > 0 THEN <<"selected", selectedIndex>>
  ELSE IF step = 0 THEN <<"pool_full">> ELSE <<"group_full">>

SlotsSeen == IF pc = "done" THEN slots ELSE before.slots
PoolsSeen == IF pc = "done" THEN poolSlots ELSE before.pools

Atomic == INSTANCE SelectOnce WITH
  outcome <- Outcome, slots <- SlotsSeen, poolSlots <- PoolsSeen

\* The call is one step of SelectOnce: whatever the group, the ledger, the
\* limits, the strategy and the offset, the loop reserves the account that
\* Chosen describes and leaves the ledger that Reserve describes.
IsAtomicSelect == Atomic!Spec

\* A call that selects nothing says that a limit is the reason: pickScheduler
\* never gets to its "no_available_candidates" answer.
BusyIsBlocked == pc = "done" /\ selectedIndex = 0 => blocked

\* A call gives the lock back, also when every account of the group is full:
\* it answers busy and does not wait for a release, which needs that lock.
CallReturns == <>(pc = "done")
=============================================================================
