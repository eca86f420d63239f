-------------------------- MODULE EvolutionHistory --------------------------
(***************************************************************************)
(* Evolution with a history of the candidates that two requests have       *)
(* worked on at the same time, and the property that speaks of it.         *)
(***************************************************************************)
EXTENDS Evolution

VARIABLE shared   \* history: those candidates

\* The request r is about the candidate c.
WorksOn(r, c) ==
    \/ r.pc = "testing" /\ r.run.candidate = c
    \/ r.pc \notin {"idle", "testing"} /\ r.candidate = c

HistoryInit == Init /\ shared = {}

HistoryNext ==
    /\ Next
    /\ shared' = shared \cup
          {c \in Candidate : \E h, k \in Handler :
              h # k /\ WorksOn(req'[h], c) /\ WorksOn(req'[k], c)}

historyVars == <<vars, shared>>

HistorySpec == HistoryInit /\ [][HistoryNext]_historyVars

\* The share of traffic is the one the status stands for, for a candidate that
\* two requests have never worked on at the same time.
TrafficMatchesStatus ==
    \A c \in DOMAIN candidates \ shared :
        CASE candidates[c].status = "SHADOW_DEPLOYED" -> candidates[c].traffic \in Percentage
          [] candidates[c].status = "PROMOTED"        -> candidates[c].traffic = 100
          [] OTHER                                    -> candidates[c].traffic = 0
=============================================================================
