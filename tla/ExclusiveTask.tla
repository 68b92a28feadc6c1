--------------------------- MODULE ExclusiveTask ---------------------------
(***************************************************************************)
(* What the cluster expects of a global task: the nodes executing it form a *)
(* set of at most one, entered and left one node at a time, until something *)
(* the lease does not cover has happened (broken).  From then on nothing is *)
(* promised.  TaskLock is shown to implement this specification.            *)
(***************************************************************************)
CONSTANT Nodes

VARIABLES executing, broken

vars == <<executing, broken>>

Init == executing = {} /\ broken = FALSE

Start(n) ==
    /\ ~broken
    /\ executing = {}
    /\ executing' = {n}
    /\ UNCHANGED broken

Finish(n) ==
    /\ ~broken
    /\ executing = {n}
    /\ executing' = {}
    /\ UNCHANGED broken

Break ==
    /\ broken' = TRUE
    /\ executing' \in SUBSET Nodes

Next ==
    \/ \E n \in Nodes : Start(n) \/ Finish(n)
    \/ Break

Spec == Init /\ [][Next]_vars
=============================================================================
