-------------------------- MODULE MCShutdownGate ---------------------------
EXTENDS ShutdownGate, TLC

Symmetry == Permutations(Handler)
=============================================================================
