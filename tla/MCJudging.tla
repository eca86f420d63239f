------------------------------ MODULE MCJudging -----------------------------
EXTENDS Judging, TLC

\* Two agents share a department and may not judge each other's work; two have
\* none, and all the others may judge theirs.
CONSTANTS a1, a2, a3, a4, d1

MCDeptOf == a1 :> d1 @@ a2 :> d1 @@ a3 :> NoDepartment @@ a4 :> NoDepartment

\* As floats, 55.06 - 30.06 is 25.000000000000004, and 80.06 - 55.06 is 25.0.
MCExcess == {<<55060, 30060>>}

\* Requests are interchangeable, and so are agents of the same department.
Symmetry ==
    Permutations(Handler) \cup Permutations({a1, a2}) \cup Permutations({a3, a4})
=============================================================================
