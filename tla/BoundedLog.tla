----------------------------- MODULE BoundedLog -----------------------------
(***************************************************************************)
(* What the event log promises: the last Capacity events recorded since it *)
(* was cleared, oldest first.  An event is its id; ids are given in order  *)
(* and never twice, not even across a clear.                               *)
(***************************************************************************)
EXTENDS Naturals, Sequences

CONSTANT Capacity

VARIABLES log, lastID

Init == log = <<>> /\ lastID = 0

Record ==
  LET kept == IF Len(log) = Capacity THEN Tail(log) ELSE log
  IN  /\ lastID' = lastID + 1
      /\ log' = Append(kept, lastID + 1)

Clear == log' = <<>> /\ UNCHANGED lastID

Next == Record \/ Clear

Spec == Init /\ [][Next]_<<log, lastID>>
=============================================================================
