----------------------------- MODULE Candidates -----------------------------
(***************************************************************************)
(* Which of the accounts that the host offers a pool may use, and how it   *)
(* ranks them (pickScheduler and its helpers, app.go).  No state: a pick   *)
(* computes all of this from its request and from one snapshot.            *)
(*                                                                         *)
(* A label is a normalized word for an account type, a provider or a tier. *)
(* What the code finds in a word by looking at its parts is given by       *)
(* FamilyOf and TiersIn.                                                   *)
(***************************************************************************)
EXTENDS Integers, FiniteSetsExt

CONSTANTS
  Labels, NoLabel,
  FamilyOf,     \* the alias that accountTypeAliases adds to a label, or NoLabel
  TiersIn,      \* strictCodexTiersFromValue: the Codex tiers that a label names
  MaxPriority   \* maxLogicalPriority

NoPriority == -1    \* no entry: logical priorities are never negative
Priorities == 0..MaxPriority

ASSUME CandidatesAssumption ==
  /\ NoLabel \notin Labels /\ "supported" \in Labels
  /\ FamilyOf \in [Labels -> Labels \cup {NoLabel}]
  /\ TiersIn \in [Labels -> SUBSET Labels]
  /\ \A l \in Labels : \A t \in TiersIn[l] : TiersIn[t] = {t}
  /\ TiersIn["supported"] = {}
  /\ \A l \in Labels : FamilyOf[l] # NoLabel => TiersIn[FamilyOf[l]] = {}
  /\ MaxPriority \in Nat

\* A candidate of the host.  name is the label its id contains; declared are
\* its attributes that give a type or plan, other those that give its service.
Candidate(Ids) ==
  [id : Ids, provider : Labels \cup {NoLabel}, name : Labels \cup {NoLabel},
   declared : SUBSET Labels, other : SUBSET Labels, priority : Int, usable : BOOLEAN]

\* The rules of a pool (PoolConfig).
Rules(Ids, Models) ==
  [ids : SUBSET Ids, resolved : SUBSET Ids, types : SUBSET Labels,
   providers : SUBSET Labels, models : SUBSET Models, enabled : BOOLEAN]

-----------------------------------------------------------------------------
(* What is known of an account.  synced is its entry in state.AuthTypes.   *)

Aliases(label) ==
  IF label = NoLabel THEN {} ELSE {label} \cup ({FamilyOf[label]} \ {NoLabel})

CandidateTypes(c) ==
  LET types == UNION {Aliases(l) : l \in {c.provider, c.name} \cup c.declared \cup c.other}
  IN  IF types = {} THEN {"supported"} ELSE types

SchedulerTypes(c, synced) == CandidateTypes(c) \cup Aliases(synced)

TiersNamed(labels) == UNION {TiersIn[l] : l \in labels \ {NoLabel}}

\* What the account says of its tier counts before what its names suggest.
OwnTiers(c) ==
  LET declared == TiersNamed(c.declared)
  IN  IF declared # {} THEN declared ELSE TiersNamed({c.provider, c.name})

-----------------------------------------------------------------------------
(* Membership.                                                             *)

StrictTiers(pool) == TiersNamed(pool.types)
AllowedTypes(pool) == pool.types \cup StrictTiers(pool)
Members(pool)      == pool.ids \cup pool.resolved

\* A pool that names tiers refuses accounts of other tiers only, and accounts
\* of no known tier unless these are allowed.
Conflicts(c, pool, allowUnknown) ==
  /\ StrictTiers(pool) # {}
  /\ IF OwnTiers(c) = {} THEN ~allowUnknown ELSE OwnTiers(c) \cap StrictTiers(pool) = {}

ByProvider(c, pool) == c.provider \in pool.providers
Listed(c, pool)     == c.id \in Members(pool)
ByType(c, pool, synced) == SchedulerTypes(c, synced) \cap AllowedTypes(pool) # {}

\* Fault: an account that is listed is not asked for its tier.
MatchedByIdAlone(c, pool, synced) ==
  \/ ByProvider(c, pool) \/ Listed(c, pool)
  \/ ByType(c, pool, synced) /\ (synced # NoLabel \/ ~Conflicts(c, pool, FALSE))

\* The first rule that applies decides: provider, then id, then type.  A type
\* that was synced is believed without looking at the account's own tier.
Matched(c, pool, synced) ==
  \/ ByProvider(c, pool)
  \/ Listed(c, pool) /\ ~Conflicts(c, pool, TRUE)
  \/ /\ ~Listed(c, pool) /\ ByType(c, pool, synced)
     /\ synced # NoLabel \/ ~Conflicts(c, pool, FALSE)

\* Accounts that a rule would take, if their tier did not conflict.
RuledOut(c, pool, synced) ==
  /\ ~ByProvider(c, pool)
  /\ \/ Listed(c, pool) /\ Conflicts(c, pool, TRUE)
     \/ /\ ~Listed(c, pool) /\ ByType(c, pool, synced)
        /\ synced = NoLabel /\ Conflicts(c, pool, FALSE)

\* What a pool that names tiers only, by whatever words, asks of an account that
\* it takes.
KeepsTier(c, pool, synced) ==
  \/ ByProvider(c, pool)
  \/ pool.types = {} \/ \E l \in pool.types : TiersIn[l] = {}
  \/ (OwnTiers(c) \cup TiersNamed({synced})) \cap StrictTiers(pool) # {}
  \/ Listed(c, pool) /\ OwnTiers(c) = {}
  \/ synced # NoLabel /\ CandidateTypes([c EXCEPT !.declared = {}]) \cap AllowedTypes(pool) # {}

\* The host marks exhausted accounts with a negative priority.
Usable(c) == c.priority >= 0 /\ c.usable

-----------------------------------------------------------------------------
(* Rank.                                                                   *)

\* Fault: the account's own types are asked before its synced one.
RankByOwnTypes(c, synced, typePriorities, override) ==
  LET given == {typePriorities[t] : t \in CandidateTypes(c) \cap Labels} \ {NoPriority}
  IN  IF override # NoPriority THEN override
      ELSE IF given # {} THEN Max(given)
      ELSE IF synced # NoLabel /\ typePriorities[synced] # NoPriority THEN typePriorities[synced]
      ELSE c.priority

\* schedulerPriorityForCandidate: the override, else the priority of the synced
\* type, else the highest of its own types', else the host's.
Rank(c, synced, typePriorities, override) ==
  LET given == {typePriorities[t] : t \in CandidateTypes(c) \cap Labels} \ {NoPriority}
  IN  IF override # NoPriority THEN override
      ELSE IF synced # NoLabel /\ typePriorities[synced] # NoPriority THEN typePriorities[synced]
      ELSE IF given # {} THEN Max(given)
      ELSE c.priority
=============================================================================
