--------------------------- MODULE MCBridgedTasks ---------------------------
(* BridgedTasksHistory for TLC: an agent in the first department, one in the *)
(* second, none in the third.                                               *)
EXTENDS BridgedTasksHistory, TLC

CONSTANTS a1, a2, d1, d2

MCDeptOf == (a1 :> d1) @@ (a2 :> d2)

\* Each of the first two departments with its agent is like the other.
Exchange == (a1 :> a2) @@ (a2 :> a1) @@ (d1 :> d2) @@ (d2 :> d1)

Symmetry ==
    Permutations(Approver) \cup Permutations(Handler) \cup Permutations(Bridge)
        \cup {Exchange}
=============================================================================
