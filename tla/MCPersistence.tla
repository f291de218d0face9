--------------------------- MODULE MCPersistence ---------------------------
(***************************************************************************)
(* Two memory-first requests on the same field, a priority request, two    *)
(* state files, three configure calls and one crash.                       *)
(***************************************************************************)
EXTENDS Persistence, TLC

CONSTANTS w1, w2, e1, p1, p2

OneFieldEach == w1 :> "limits" @@ w2 :> "limits" @@ e1 :> "types"

\* There is no legacy file in the working directory, and p2 lies in plugins/
\* beside the default state file, p1, which is then copied in its place.
NoLegacy      == [p \in Paths |-> NoFile]
BesideDefault == p1 :> NoPath @@ p2 :> p1
=============================================================================
