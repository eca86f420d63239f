------------------------ MODULE AgentRuntimeHistory ------------------------
(***************************************************************************)
(* AgentRuntime with histories of the requests that have met, and the      *)
(* properties that speak of the others: what a suspension, a cycle or a    *)
(* rollback achieves when it is alone with its agent, task or artifact.    *)
(***************************************************************************)
EXTENDS AgentRuntime, Integers

VARIABLES
    met,     \* history: the grants' issuing requests that met an ending of the agent
    late,    \* history: the grants they have issued
    crowded  \* history: the cycles, and rollbacks, that met another of the same
             \*   task, or artifact

\* The agent of h is being suspended or terminated.
Ending(h) ==
    \E k \in Handler : /\ req[k].pc \in {"ending", "sweeping", "swept"}
                       /\ req[k].agent = req[h].agent

\* The request h is in a cycle of the task t that may yet cost something.
WorksOn(h, t) ==
    /\ \/ run[h].pc \in {"asking", "gateway"}
       \/ run[h].pc = "closing" /\ run[h].outcome # "unanswered"
    /\ run[h].task = t

\* The requests h and k are cycles of one task or rollbacks of one artifact.
Meet(h, k) ==
    \/ \E t \in Task : WorksOn(h, t) /\ WorksOn(k, t)
    \/ /\ run[h].pc = "reverting"
       /\ run[k].pc = "reverting"
       /\ run[h].artifact = run[k].artifact

HistoryInit ==
    /\ Init
    /\ met = {}
    /\ late = {}
    /\ crowded = {}

HistoryNext ==
    /\ Next
    /\ met' = {h \in Handler : req'[h].pc = "granting" /\ (h \in met \/ Ending(h)')}
    /\ late' = late \cup {g \in DOMAIN grants' \ DOMAIN grants :
                             \E h \in met : req'[h].pc = "idle"}
    /\ crowded' = {h \in Handler :
                      /\ run'[h].pc # "idle"
                      /\ h \in crowded \/ \E k \in Handler \ {h} : Meet(h, k)'}

historyVars == <<vars, met, late, crowded>>

HistorySpec == HistoryInit /\ [][HistoryNext]_historyVars

\* A suspended or terminated agent has no grant in force but one that was being
\* issued while the suspension or termination was under way: whatever else
\* runs at the same time, each revokes every grant it could see, and nothing
\* is granted to an agent that is not active.
OnlyRacesEscape ==
    \A a \in DOMAIN agents :
        agents[a].status # "ACTIVE" => \A g \in L!GrantsOf(a) : L!Live(g) => g \in late

\* A cycle goes by the status its agent had when it was loaded, but what stops a
\* cycle that the suspension of its agent has overtaken is that the suspension
\* takes the grants away: no tool runs in it except under a grant that was
\* being issued meanwhile.  (Of an agent with the owner's role no grant is asked.)
SuspensionStopsTools ==
    [][\A h \in Handler :
          /\ run[h].pc = "gateway"
          /\ run'[h].pc = "closing"
          /\ run'[h].tool # None
          /\ RoleOf[run[h].agent] # "OWNER"
          => \/ agents[run[h].agent].status = "ACTIVE"
             \/ \E g \in late : L!Live(g) /\ grants[g].agent = run[h].agent]_vars

\* A cycle that was alone with its task adds to the task's spending what the
\* answer of the model cost, to the nearest cent and whatever then came of it,
\* and nothing if there was no answer.
CostsOnRecord ==
    [][\A t \in Task, h \in Handler \ crowded :
          LET cost == IF run[h].outcome = "unanswered" THEN 0 ELSE Cost IN
          run[h].pc = "closing" /\ run[h].task = t /\ Commit(h)
          => spent[t] + cost \in spent'[t] - 50 .. spent'[t] + 50]_vars

\* An artifact is rolled back once: a request that is about to do it finds it as
\* the tool left it, unless another was about to do it too.
RevertedOnce ==
    \A h \in Handler \ crowded :
        run[h].pc = "reverting" => artifacts[run[h].artifact].status = "AVAILABLE"
=============================================================================
