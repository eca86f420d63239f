--------------------------- MODULE MCAgentRuntime ---------------------------
(* AgentRuntimeHistory for TLC: one worker, one task, a tool that can be *)
(* undone and grants of it.                                              *)
EXTENDS AgentRuntimeHistory, TLC

CONSTANTS a1, g1, g2, tool

MCRoleOf == a1 :> "WORKER"
MCToolsOf == (g1 :> {tool}) @@ (g2 :> {tool})

Symmetry == Permutations(Handler) \cup Permutations(Grant)

\* One of the initial states: the task has cost something already.
MCInit == spent = [t \in Task |-> 100] /\ HistoryInit

MCSpec == MCInit /\ [][HistoryNext]_historyVars
=============================================================================
