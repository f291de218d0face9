------------------------------ MODULE Cursors ------------------------------
(***************************************************************************)
(* The round-robin cursors (app.go, nextSchedulerCursor), guarded by       *)
(* App.schedulerMu.  A cursor only grows; its reader takes it modulo the   *)
(* size of the group it is about to scan.  When the table is full, a new   *)
(* key empties it.                                                         *)
(***************************************************************************)
EXTENDS Naturals, FiniteSets

CONSTANTS
  CursorCapacity,   \* 4096 keys
  CursorWrap        \* 2147483640, where a cursor starts over

ASSUME CursorsAssumption ==
  /\ CursorCapacity \in Nat \ {0}
  /\ CursorWrap \in Nat \ {0}

VARIABLE cursors    \* schedulerCursors: a function on the keys it holds

CursorsTypeOK(keys) ==
  /\ DOMAIN cursors \subseteq keys
  /\ cursors \in [DOMAIN cursors -> 1..CursorWrap]

CursorsInit == cursors = [key \in {} |-> 0]

-----------------------------------------------------------------------------
Overflows(key) == key \notin DOMAIN cursors /\ Cardinality(DOMAIN cursors) >= CursorCapacity

\* The value handed out: a key the table lacks starts at 0, and so does one
\* that has reached the wrap.
CursorOf(key) ==
  IF key \in DOMAIN cursors /\ cursors[key] < CursorWrap THEN cursors[key] ELSE 0

\* A group of one has no cursor.
NextOffset(key, size) == IF size <= 1 THEN 0 ELSE CursorOf(key) % size

AdvanceCursor(key, size) ==
  LET kept == IF Overflows(key) THEN {} ELSE DOMAIN cursors
  IN  cursors' = IF size <= 1 THEN cursors
                 ELSE [k \in kept \cup {key} |->
                         IF k = key THEN CursorOf(key) + 1 ELSE cursors[k]]
=============================================================================
