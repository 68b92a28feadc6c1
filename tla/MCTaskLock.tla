----------------------------- MODULE MCTaskLock -----------------------------
(* Instances of TaskLock for TLC: two nodes.                                *)
EXTENDS TaskLock, TLC

CONSTANTS n1, n2, r1, r2, r3

MCNodes == {n1, n2}

(* One run per node.                                                        *)
MCRuns == {r1, r3}
MCHome == (r1 :> n1) @@ (r3 :> n2)

(* Two runs of n1 beside the one of n2.                                     *)
OverlappingRuns == {r1, r2, r3}
OverlappingHome == (r1 :> n1) @@ (r2 :> n1) @@ (r3 :> n2)
=============================================================================
