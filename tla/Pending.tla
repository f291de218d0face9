------------------------------ MODULE Pending ------------------------------
(***************************************************************************)
(* Pending selections (events.go): what a completion is matched with to    *)
(* find the key that owns it and the pool slot it frees.  The list is      *)
(* guarded by App.pendingMu.  Entries are appended with increasing ids, so *)
(* the slice is a set ordered by id, and its head is the Oldest entry.     *)
(*                                                                         *)
(* A model stands for the pair of model and provider that both events      *)
(* carry; NoModel is the empty string, which matches anything.  The prefix *)
(* rule of pluginEventModelMatches is left out.                            *)
(***************************************************************************)
EXTENDS Naturals, FiniteSets

CONSTANTS
  Keys,             \* hashes of API keys
  Models, NoModel,  \* model names; NoModel may be one of them
  PendingCapacity,  \* pluginPendingSelectionCapacity
  PendingTTL        \* pluginPendingSelectionTTL

ASSUME PendingAssumption ==
  /\ PendingCapacity \in Nat \ {0}
  /\ PendingTTL \in Nat

VARIABLES
  pending,            \* pendingSelections
  nextAttributionID

pendingVars == <<pending, nextAttributionID>>

Selection(auths, pools) ==
  [id : Nat, at : Nat, key : Keys, pool : pools, auth : auths, model : Models]

PendingTypeOK(auths, pools) ==
  /\ pending \subseteq Selection(auths, pools)
  /\ nextAttributionID \in Nat

PendingInit ==
  /\ pending = {}
  /\ nextAttributionID = 0

-----------------------------------------------------------------------------
ModelMatches(left, right) == left = NoModel \/ right = NoModel \/ left = right

\* clearExpiredPendingSelectionsLocked keeps an entry of exactly PendingTTL.
Unexpired(t) == {e \in pending : e.at + PendingTTL >= t}

Oldest(entries) == CHOOSE e \in entries : \A f \in entries : e.id <= f.id

\* The entries a completion on this account could belong to.
Matching(auth, model, t) ==
  {e \in Unexpired(t) : e.auth = auth /\ ModelMatches(e.model, model)}

\* Fault: the first match is taken for the owner.
SomeOwner(matching) == matching # {}

\* One owner: some entry matches, and all that match have the same key.
OneOwner(matching) ==
  /\ matching # {}
  /\ \A e, f \in matching : e.key = f.key

\* The id links the two events only when the entry was the only match.
AttributedID(matching) == IF Cardinality(matching) = 1 THEN Oldest(matching).id ELSE 0

-----------------------------------------------------------------------------
(* Operations; each is one critical section of App.pendingMu.              *)

\* A full list drops its head for the new entry.
Remember(key, pool, auth, model, t) ==
  LET kept == Unexpired(t)
      full == Cardinality(kept) >= PendingCapacity
      new  == [id |-> nextAttributionID + 1, at |-> t, key |-> key,
               pool |-> pool, auth |-> auth, model |-> model]
  IN  /\ pending' = (IF full THEN kept \ {Oldest(kept)} ELSE kept) \cup {new}
      /\ nextAttributionID' = nextAttributionID + 1

\* Fault: the owner is read and left in the list.
PeekOwner(auth, model, t) == pending' = Unexpired(t) /\ UNCHANGED nextAttributionID

\* Fault: the head of the list is removed in place of the match.
TakeHead(auth, model, t) ==
  /\ pending' = IF OneOwner(Matching(auth, model, t))
                THEN Unexpired(t) \ {Oldest(Unexpired(t))} ELSE Unexpired(t)
  /\ UNCHANGED nextAttributionID

\* pendingSelectionAttribution takes the oldest match when they have one owner.
TakeOwner(auth, model, t) ==
  LET matching == Matching(auth, model, t)
  IN  /\ pending' = IF OneOwner(matching)
                    THEN Unexpired(t) \ {Oldest(matching)} ELSE Unexpired(t)
      /\ UNCHANGED nextAttributionID

\* clearPluginEvents empties the list along with the event log.
ForgetAll ==
  /\ pending' = {}
  /\ UNCHANGED nextAttributionID
=============================================================================
