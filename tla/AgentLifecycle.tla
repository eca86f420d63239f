--------------------------- MODULE AgentLifecycle ---------------------------
(***************************************************************************)
(* Agents and their permission grants: services/agent_registry/service.py  *)
(* over the tables agents and permission_grants.                           *)
(*                                                                         *)
(* The handlers read the agent with a plain SELECT and the ORM updates it  *)
(* at the commit; in between, other transactions commit (READ COMMITTED).  *)
(* The UPDATE names only the attributes whose value has changed since the  *)
(* SELECT, so a status that was read as what it becomes is not written.    *)
(* Grants are locked, by the bulk UPDATE of a suspension or termination    *)
(* and by FOR UPDATE.  An agent's metadata is left out.                    *)
(***************************************************************************)
EXTENDS Naturals, FiniteSets, Rows

CONSTANTS
    Handler,   \* requests in flight
    Agent,     \* primary keys of agents
    Grant      \* primary keys of permission_grants

VARIABLES
    agents,    \* the committed rows of agents
    grants,    \* the committed rows of permission_grants
    req        \* the local variables of each request

vars == <<agents, grants, req>>

Status == {"ACTIVE", "SUSPENDED", "TERMINATED"}

\* `terminated' stands for terminated_at IS NOT NULL.
AgentRow == [status: Status, terminated: BOOLEAN]

Reason == {"agent_suspended", "agent_terminated", "revoked_by_owner"}

\* `revoked' is "no" while revoked_at is NULL, then the revocation_reason.
GrantRow == [agent: Agent, revoked: Reason \cup {"no"}]

\* `seen' is the status the SELECT returned; `todo' the grants the bulk UPDATE
\* has found, `got' those it has locked and changed.
Request ==
         [pc: {"idle"}]
    \cup [pc: {"granting"}, agent: Agent]
    \cup [pc: {"restoring"}, agent: Agent, seen: Status]
    \cup [pc: {"ending"}, op: {"suspend", "terminate"}, agent: Agent, seen: Status]
    \cup [pc: {"sweeping"}, op: {"suspend", "terminate"}, agent: Agent, seen: Status,
          todo: SUBSET Grant]
    \cup [pc: {"swept"}, op: {"suspend", "terminate"}, agent: Agent, seen: Status,
          got: SUBSET Grant]
    \cup [pc: {"revoke", "revoking"}, grant: Grant]

Idle == [pc |-> "idle"]

TypeOK ==
    /\ IsTable(agents, Agent, AgentRow)
    /\ IsTable(grants, Grant, GrantRow)
    /\ \A g \in DOMAIN grants : grants[g].agent \in DOMAIN agents
    /\ req \in [Handler -> Request]

Init ==
    /\ agents = EmptyTable
    /\ grants = EmptyTable
    /\ req = [h \in Handler |-> Idle]

-----------------------------------------------------------------------------
Live(g) == grants[g].revoked = "no"

GrantsOf(a) == {g \in DOMAIN grants : grants[g].agent = a}

\* The grants whose rows the transaction of h has locked.
Held(h) == CASE req[h].pc = "swept"    -> req[h].got
             [] req[h].pc = "revoking" -> {req[h].grant}
             [] OTHER                  -> {}

Unlocked(g) == \A h \in Handler : g \notin Held(h)

EndRequest(h) == req' = [req EXCEPT ![h] = Idle]

\* The ORM writes a status only when it differs from the one that was read.
Written(a, seen, status) ==
    IF seen = status THEN agents[a].status ELSE status

RevokedFor(S, why) ==
    [g \in DOMAIN grants |-> IF g \in S THEN [grants[g] EXCEPT !.revoked = why]
                                        ELSE grants[g]]

-----------------------------------------------------------------------------
(* POST /agents *)

CreateAgent(a) ==
    /\ a \notin DOMAIN agents
    /\ agents' = Inserted(agents, a, [status |-> "ACTIVE", terminated |-> FALSE])
    /\ UNCHANGED <<grants, req>>

-----------------------------------------------------------------------------
(* POST /agents/{id}/suspend and POST /agents/{id}/terminate *)

\* Neither looks at the status the agent has.
EndBegin(h, op, a) ==
    /\ req[h].pc = "idle"
    /\ a \in DOMAIN agents
    /\ req' = [req EXCEPT ![h] = [pc |-> "ending", op |-> op, agent |-> a,
                                  seen |-> agents[a].status]]
    /\ UNCHANGED <<agents, grants>>

\* UPDATE permission_grants ... WHERE agent_id = a AND revoked_at IS NULL.
SweepBegin(h) ==
    /\ req[h].pc = "ending"
    /\ req' = [req EXCEPT ![h] =
                 [pc |-> "sweeping", op |-> @.op, agent |-> @.agent, seen |-> @.seen,
                  todo |-> {g \in GrantsOf(@.agent) : Live(g)}]]
    /\ UNCHANGED <<agents, grants>>

\* It waits for the rows other transactions have locked and evaluates the
\* condition on them again.
Sweep(h) ==
    /\ req[h].pc = "sweeping"
    /\ \A g \in req[h].todo : Unlocked(g)
    /\ req' = [req EXCEPT ![h] =
                 [pc |-> "swept", op |-> @.op, agent |-> @.agent, seen |-> @.seen,
                  got |-> {g \in @.todo : Live(g)}]]
    /\ UNCHANGED <<agents, grants>>

SuspendCommit(h) ==
    LET a == req[h].agent IN
    /\ req[h].pc = "swept"
    /\ req[h].op = "suspend"
    /\ agents' = [agents EXCEPT ![a].status = Written(a, req[h].seen, "SUSPENDED")]
    /\ grants' = RevokedFor(req[h].got, "agent_suspended")
    /\ EndRequest(h)

TerminateCommit(h) ==
    LET a == req[h].agent IN
    /\ req[h].pc = "swept"
    /\ req[h].op = "terminate"
    /\ agents' = [agents EXCEPT ![a] =
                    [status |-> Written(a, req[h].seen, "TERMINATED"),
                     terminated |-> TRUE]]
    /\ grants' = RevokedFor(req[h].got, "agent_terminated")
    /\ EndRequest(h)

-----------------------------------------------------------------------------
(* POST /agents/{id}/restore *)

RestoreBegin(h, a) ==
    /\ req[h].pc = "idle"
    /\ a \in DOMAIN agents
    /\ agents[a].status # "TERMINATED"
    /\ req' = [req EXCEPT ![h] = [pc |-> "restoring", agent |-> a,
                                  seen |-> agents[a].status]]
    /\ UNCHANGED <<agents, grants>>

RestoreCommit(h) ==
    LET a == req[h].agent IN
    /\ req[h].pc = "restoring"
    /\ agents' = [agents EXCEPT ![a].status = Written(a, req[h].seen, "ACTIVE")]
    /\ EndRequest(h)
    /\ UNCHANGED grants

-----------------------------------------------------------------------------
(* POST /agents/grants and DELETE /agents/grants/{id} *)

\* Bug: only the existence of the agent is checked.
IssueBegin_anyStatus(h, a) ==
    /\ req[h].pc = "idle"
    /\ a \in DOMAIN agents
    /\ req' = [req EXCEPT ![h] = [pc |-> "granting", agent |-> a]]
    /\ UNCHANGED <<agents, grants>>

IssueBegin(h, a) ==
    /\ req[h].pc = "idle"
    /\ a \in DOMAIN agents
    /\ agents[a].status = "ACTIVE"
    /\ req' = [req EXCEPT ![h] = [pc |-> "granting", agent |-> a]]
    /\ UNCHANGED <<agents, grants>>

IssueCommit(h) ==
    /\ req[h].pc = "granting"
    /\ \E g \in Grant \ DOMAIN grants :
          grants' = Inserted(grants, g, [agent |-> req[h].agent, revoked |-> "no"])
    /\ EndRequest(h)
    /\ UNCHANGED agents

RevokeBegin(h, g) ==
    /\ req[h].pc = "idle"
    /\ g \in DOMAIN grants
    /\ req' = [req EXCEPT ![h] = [pc |-> "revoke", grant |-> g]]
    /\ UNCHANGED <<agents, grants>>

\* Bug: the grant is read without FOR UPDATE.
RevokeLock_plain(h) ==
    /\ req[h].pc = "revoke"
    /\ Live(req[h].grant)
    /\ req' = [req EXCEPT ![h].pc = "revoking"]
    /\ UNCHANGED <<agents, grants>>

RevokeLock(h) ==
    /\ req[h].pc = "revoke"
    /\ Unlocked(req[h].grant)
    /\ Live(req[h].grant)
    /\ req' = [req EXCEPT ![h].pc = "revoking"]
    /\ UNCHANGED <<agents, grants>>

\* "Permission grant is already revoked"
RevokeDeny(h) ==
    /\ req[h].pc = "revoke"
    /\ Unlocked(req[h].grant)
    /\ ~Live(req[h].grant)
    /\ EndRequest(h)
    /\ UNCHANGED <<agents, grants>>

RevokeCommit(h) ==
    /\ req[h].pc = "revoking"
    /\ grants' = RevokedFor({req[h].grant}, "revoked_by_owner")
    /\ EndRequest(h)
    /\ UNCHANGED agents

-----------------------------------------------------------------------------
\* An error or a lost connection: the transaction is rolled back.
Abort(h) ==
    /\ req[h].pc # "idle"
    /\ EndRequest(h)
    /\ UNCHANGED <<agents, grants>>

Next ==
    \/ \E a \in Agent : CreateAgent(a)
    \/ \E h \in Handler :
          \/ \E op \in {"suspend", "terminate"}, a \in Agent : EndBegin(h, op, a)
          \/ SweepBegin(h) \/ Sweep(h) \/ SuspendCommit(h) \/ TerminateCommit(h)
          \/ \E a \in Agent : RestoreBegin(h, a) \/ IssueBegin(h, a)
          \/ RestoreCommit(h) \/ IssueCommit(h)
          \/ \E g \in Grant : RevokeBegin(h, g)
          \/ RevokeLock(h) \/ RevokeDeny(h) \/ RevokeCommit(h)
          \/ Abort(h)

Spec == Init /\ [][Next]_vars
-----------------------------------------------------------------------------
(* Properties *)

\* A grant is being revoked by at most one transaction, which still finds it
\* in force when it commits: a suspension, a termination and a revocation that
\* meet on a grant queue for its row.
OneRevoker ==
    \A h \in Handler :
        /\ \A k \in Handler \ {h} : Held(h) \cap Held(k) = {}
        /\ \A g \in Held(h) : g \in DOMAIN grants /\ Live(g)

\* What the first revocation recorded of a grant, that it is revoked and why,
\* no later suspension, termination or revocation overwrites.
RevokedOnce ==
    [][\A g \in DOMAIN grants :
          ~Live(g) => g \in DOMAIN grants' /\ grants'[g] = grants[g]]_vars
=============================================================================
