----------------------------- MODULE MCServices -----------------------------
EXTENDS Services, TLC

\* Requests are interchangeable, and so are the keys an INSERT may draw; two of
\* the services draw theirs from the same set.
Symmetry ==
    Permutations(Handler) \cup Permutations(Memory \cup Presence) \cup Permutations(Bridge)

\* Of attempts listed oldest first, Pruned keeps what the code's filter keeps.
ASSUME PrunedIsTheFilter ==
    \A n \in 0..4 : \A ages \in [1..n -> 0..R!Window] :
        (\A i, j \in 1..n : i < j => ages[i] >= ages[j])
            => R!Pruned(ages) = SelectSeq(ages, LAMBDA age : age < R!Window)
=============================================================================
