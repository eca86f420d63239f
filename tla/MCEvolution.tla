---------------------------- MODULE MCEvolution -----------------------------
EXTENDS EvolutionHistory, TLC

\* Requests are interchangeable, and so are candidates.
Symmetry == Permutations(Handler) \cup Permutations(Candidate)
=============================================================================
