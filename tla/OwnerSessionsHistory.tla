------------------------ MODULE OwnerSessionsHistory ------------------------
(***************************************************************************)
(* OwnerSessions with a history of the sessions one of whose tokens has    *)
(* been presented twice at the same time, and the property that speaks of  *)
(* the other sessions.                                                     *)
(***************************************************************************)
EXTENDS OwnerSessions

VARIABLE contested   \* history: those sessions, until they are revoked

\* The refresh h has loaded t and found it unused.
Holds(h, t) ==
    /\ req[h].pc \in {"found", "refreshing", "rotating"}
    /\ req[h].token = t
    /\ ~req[h].seenUsed

Contested ==
    {s \in DOMAIN sessions :
        \E t \in TokensOf(s), h, k \in Handler : h # k /\ Holds(h, t) /\ Holds(k, t)}

HistoryInit == Init /\ contested = {}

HistoryNext ==
    /\ Next
    /\ contested' = {s \in contested \cup Contested' : ~Revoked(s)'}

historyVars == <<vars, contested>>

HistorySpec == HistoryInit /\ [][HistoryNext]_historyVars

\* A session that is not revoked has exactly one unused token, unless two
\* refreshes have loaded one token of it, unused, at the same time: no mix of
\* rotations, logouts, sweeps, lapses and rollbacks forks or cuts the chain of
\* tokens, only the refresh that trusts the copy it loaded before the lock.
OnlyRacesFork ==
    \A s \in DOMAIN sessions :
        ~Revoked(s) /\ s \notin contested
            => Cardinality({t \in TokensOf(s) : ~tokens[t].used}) = 1
=============================================================================
