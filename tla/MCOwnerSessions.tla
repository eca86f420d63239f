-------------------------- MODULE MCOwnerSessions ---------------------------
EXTENDS OwnerSessionsHistory, TLC

\* Identifiers and requests are interchangeable.
Symmetry == Permutations(Session) \cup Permutations(Token) \cup Permutations(Handler)
=============================================================================
