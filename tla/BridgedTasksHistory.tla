------------------------ MODULE BridgedTasksHistory ------------------------
(***************************************************************************)
(* BridgedTasks with a history of the requests that have met others on     *)
(* their task, and the property that speaks of the rest.                   *)
(***************************************************************************)
EXTENDS BridgedTasks

VARIABLE met   \* history: the requests that have not been alone with their task

WorksOn(h, t) == req[h].pc \notin {"idle", "creating"} /\ req[h].task = t

HistoryInit == Init /\ met = {}

HistoryNext ==
    /\ Next
    /\ met' = {h \in Handler : \E t \in Task :
                  /\ WorksOn(h, t)'
                  /\ h \in met \/ \E k \in Handler \ {h} : WorksOn(k, t)'}

historyVars == <<vars, met>>

HistorySpec == HistoryInit /\ [][HistoryNext]_historyVars

\* A request that has been alone with its task leaves one that is completed, has
\* failed or was cancelled as it is, unless it delegates it: a delegation
\* reopens it, and stays on record.
OnlyDelegationReopens ==
    [][\A t \in DOMAIN tasks, h \in Handler \ met :
          /\ WorksOn(h, t)
          /\ req'[h].pc = "idle"
          /\ tasks[t].status \in Terminal
          /\ tasks'[t] # tasks[t]
          => /\ tasks'[t].status = "ASSIGNED"
             /\ \E g \in delegations' : g.task = t /\ g.to = tasks'[t].agent]_vars
=============================================================================
