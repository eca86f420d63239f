---------------------------- MODULE AgentRuntime ----------------------------
(***************************************************************************)
(* The cycle of an agent: services/agent_runtime/runner.py with the model  *)
(* provider, the permission engine and the tool gateway it calls, and the  *)
(* rollback of what a tool has done (services/rollback/service.py),        *)
(* composed with the lifecycle of the agents and their grants.             *)
(*                                                                         *)
(* The caller loads the agent and the task in the session the cycle runs   *)
(* in.  The identity map keeps both as they were then, so the cycle goes   *)
(* by the status the agent had, through the call of the model to its end.  *)
(* Only the grants are read afresh.  What the cycle adds to the task's     *)
(* spending is computed from the amount loaded, and written at the commit. *)
(* Amounts are in the 1/10000 USD that the runner rounds to; the column     *)
(* budget_spent holds cents.                                               *)
(*                                                                         *)
(* Left out: tool_executions and audit events, which no branch reads; the  *)
(* run state the gateway has cached (module ShutdownGate) and the          *)
(* catalogue, each of which is a reason for GatewayRaises.                 *)
(***************************************************************************)
EXTENDS Naturals, Rows

CONSTANTS
    Handler, Agent, Grant,  \* see AgentLifecycle
    RoleOf,       \* agents.role, which no statement changes
    Task,         \* primary keys of tasks
    Tool,         \* names of tools
    ToolsOf,      \* permission_grants.allowed_tools, which no statement changes
    Reversible,   \* the tools that return what they have replaced
    Artifact,     \* primary keys of rollback_artifacts
    MaxRetries,   \* BaseModelProvider.max_retries
    Cost,         \* what an answer of the model costs, rounded by the runner
    MaxSpent,     \* bound of the model: no cycle starts on a task that cost as much
    None          \* a NULL column, an argument that is not given

P == INSTANCE PermissionEngine

ASSUME RuntimeAssumption ==
    /\ RoleOf \in [Agent -> P!Role]
    /\ ToolsOf \in [Grant -> SUBSET Tool]
    /\ Reversible \subseteq Tool
    /\ MaxRetries \in Nat
    /\ Cost \in Nat \ {0}
    /\ MaxSpent \in Nat
    /\ None \notin Task \cup Tool \cup Agent

VARIABLES
    agents, grants, req,   \* see AgentLifecycle
    spent,        \* tasks.budget_spent, committed
    artifacts,    \* the committed rows of rollback_artifacts
    run           \* the local variables of each request of this module

L == INSTANCE AgentLifecycle

runVars == <<spent, artifacts, run>>
vars == <<agents, grants, req, spent, artifacts, run>>

\* action_map takes a decision to delegate, complete or reject to "execute_task".
RequestedAction == {"execute_task", "execute_tool", "request_approval"}

\* What came of asking the model: no answer, one that is no decision, a decision
\* that was denied or failed, one that was allowed.
Outcome == {"unanswered", "unusable", "refused", "allowed"}

ArtifactRow == [task: Task, status: {"AVAILABLE", "EXECUTED"}]

\* `seen' and `base' are the agent's status and the task's spending when they
\* were loaded; `tool' in "closing" is the one that has run.
Run ==
    [pc: {"idle"}]
    \cup [pc: {"asking"}, agent: Agent, task: Task \cup {None}, seen: L!Status,
          base: Nat, attempt: 0 .. MaxRetries]
    \cup [pc: {"gateway"}, agent: Agent, task: Task \cup {None}, base: Nat, tool: Tool]
    \cup [pc: {"closing"}, task: Task \cup {None}, base: Nat, outcome: Outcome,
          tool: Tool \cup {None}]
    \cup [pc: {"reverting"}, artifact: Artifact]

TypeOK ==
    /\ L!TypeOK
    /\ spent \in [Task -> Nat]
    /\ IsTable(artifacts, Artifact, ArtifactRow)
    /\ run \in [Handler -> Run]

\* The tasks may have cost something before.
Init ==
    /\ L!Init
    /\ spent \in [Task -> Nat]
    /\ artifacts = EmptyTable
    /\ run = [h \in Handler |-> L!Idle]

-----------------------------------------------------------------------------
\* A request is in flight here or in the registry, not in both.
Free(h) == run[h].pc = "idle" /\ req[h].pc = "idle"

SpentOn(t) == IF t = None THEN 0 ELSE spent[t]

\* The end of a cycle of the task t that loaded its spending as `base'.
Closing(t, base, outcome, tool) ==
    [pc |-> "closing", task |-> t, base |-> base, outcome |-> outcome, tool |-> tool]

\* The cycle of h ends in `outcome' without a tool having run.
Close(h, outcome) ==
    run' = [run EXCEPT ![h] = Closing(run[h].task, run[h].base, outcome, None)]

\* Bug: only what is carried out is paid for.
CostOf_allowedOnly(outcome) == IF outcome = "allowed" THEN Cost ELSE 0

\* UsageMetrics.estimated_cost_usd: a provider that raises without an answer
\* reports none.
CostOf(outcome) == IF outcome = "unanswered" THEN 0 ELSE Cost

-----------------------------------------------------------------------------
(* run_agent_cycle: the call of the model *)

CycleBegin(h, a, t) ==
    /\ Free(h)
    /\ a \in DOMAIN agents
    /\ SpentOn(t) < MaxSpent
    /\ run' = [run EXCEPT ![h] = [pc |-> "asking", agent |-> a, task |-> t,
                                  seen |-> agents[a].status, base |-> SpentOn(t),
                                  attempt |-> 0]]
    /\ UNCHANGED <<spent, artifacts>>

\* Bug: the last attempt is followed by another.
Retry_onceMore(h) ==
    /\ run[h].pc = "asking"
    /\ run[h].attempt <= MaxRetries
    /\ run' = [run EXCEPT ![h].attempt = @ + 1]
    /\ UNCHANGED <<spent, artifacts>>

\* A timeout, no connection, a status 5xx or 429: ask again after a delay.
Retry(h) ==
    /\ run[h].pc = "asking"
    /\ run[h].attempt < MaxRetries
    /\ run' = [run EXCEPT ![h].attempt = @ + 1]
    /\ UNCHANGED <<spent, artifacts>>

\* The same once more, or any other failure of the call.
GiveUp(h) ==
    /\ run[h].pc = "asking"
    /\ Close(h, "unanswered")
    /\ UNCHANGED <<spent, artifacts>>

\* The answer is no AgentDecision; its usage is kept.
AnswerUnusable(h) ==
    /\ run[h].pc = "asking"
    /\ Close(h, "unusable")
    /\ UNCHANGED <<spent, artifacts>>

-----------------------------------------------------------------------------
(* run_agent_cycle: the decision *)

\* The answer of authorize for the agent as it was loaded.
Authorized(h, action, runState) ==
    P!Authorize([actor |-> run[h].agent, role |-> RoleOf[run[h].agent],
                 status |-> run[h].seen, action |-> action,
                 runState |-> runState, dept |-> None, targetDept |-> None,
                 targetAgent |-> None, author |-> None])

\* `runState' is the caller's argument system_run_state.
Deny(h, action, runState) ==
    /\ run[h].pc = "asking"
    /\ ~Authorized(h, action, runState)
    /\ Close(h, "refused")
    /\ UNCHANGED <<spent, artifacts>>

\* `tool' is the first of requested_tools, None when there is none.
Dispatch(h, action, tool, runState) ==
    /\ run[h].pc = "asking"
    /\ Authorized(h, action, runState)
    /\ IF action = "execute_tool" /\ tool # None
       THEN run' = [run EXCEPT ![h] = [pc |-> "gateway", agent |-> @.agent,
                                       task |-> @.task, base |-> @.base, tool |-> tool]]
       ELSE Close(h, "allowed")
    /\ UNCHANGED <<spent, artifacts>>

-----------------------------------------------------------------------------
(* execute_tool *)

\* Bug: revoked grants count.
Granted_everIssued(a, tool) == \E g \in L!GrantsOf(a) : tool \in ToolsOf[g]

\* allowed_tools
Granted(a, tool) == \E g \in L!GrantsOf(a) : L!Live(g) /\ tool \in ToolsOf[g]

\* The role of the caller decides whether grants are asked for.
GatewayExecute(h) ==
    LET r == run[h] IN
    /\ r.pc = "gateway"
    /\ RoleOf[r.agent] # "OWNER" => Granted(r.agent, r.tool)
    /\ run' = [run EXCEPT ![h] = Closing(r.task, r.base, "allowed", r.tool)]
    /\ UNCHANGED <<spent, artifacts>>

\* The system is halted, the tool is not in the catalogue or disabled, no
\* grant allows it, or it fails on its arguments.
GatewayRaise(h) ==
    /\ run[h].pc = "gateway"
    /\ Close(h, "refused")
    /\ UNCHANGED <<spent, artifacts>>

\* POST /tools/execute, by the owner for an agent: no model is asked.
OwnerExecute(h, a, t, tool) ==
    /\ Free(h)
    /\ a \in DOMAIN agents
    /\ agents[a].status = "ACTIVE"
    /\ run' = [run EXCEPT ![h] = Closing(t, 0, "unanswered", tool)]
    /\ UNCHANGED <<spent, artifacts>>

-----------------------------------------------------------------------------
\* What a column of type NUMERIC(14, 2) keeps of an amount.
ToCents(amount) == ((amount + 50) \div 100) * 100

\* _accumulate_task_budget: the spending the request h writes to its task.
Accumulated(h) == ToCents(run[h].base + CostOf(run[h].outcome))

\* The transaction commits: the spending of the task, if it has changed, and
\* the artifact of a tool that has replaced something.
Commit(h) ==
    LET r == run[h] IN
    /\ r.pc = "closing"
    /\ spent' = IF r.task # None /\ CostOf(r.outcome) > 0
                THEN [spent EXCEPT ![r.task] = Accumulated(h)] ELSE spent
    /\ IF r.task # None /\ r.tool \in Reversible
       THEN \E x \in Artifact \ DOMAIN artifacts :
               artifacts' = Inserted(artifacts, x,
                                     [task |-> r.task, status |-> "AVAILABLE"])
       ELSE artifacts' = artifacts
    /\ run' = [run EXCEPT ![h] = L!Idle]

\* Bug: the status is not looked at.
RollbackBegin_anyStatus(h, x) ==
    /\ Free(h)
    /\ x \in DOMAIN artifacts
    /\ run' = [run EXCEPT ![h] = [pc |-> "reverting", artifact |-> x]]
    /\ UNCHANGED <<spent, artifacts>>

\* POST /rollbacks/{id}/execute reads the artifact without a lock.
RollbackBegin(h, x) ==
    /\ Free(h)
    /\ x \in DOMAIN artifacts
    /\ artifacts[x].status = "AVAILABLE"
    /\ run' = [run EXCEPT ![h] = [pc |-> "reverting", artifact |-> x]]
    /\ UNCHANGED <<spent, artifacts>>

RollbackCommit(h) ==
    /\ run[h].pc = "reverting"
    /\ artifacts' = [artifacts EXCEPT ![run[h].artifact].status = "EXECUTED"]
    /\ run' = [run EXCEPT ![h] = L!Idle]
    /\ UNCHANGED spent

\* An error or a lost connection: the transaction is rolled back.
Abort(h) ==
    /\ run[h].pc # "idle"
    /\ run' = [run EXCEPT ![h] = L!Idle]
    /\ UNCHANGED <<spent, artifacts>>

-----------------------------------------------------------------------------
\* A step of the request h, once it is in flight.
Proceed(h) ==
    \/ Retry(h) \/ GiveUp(h) \/ AnswerUnusable(h)
    \/ \E action \in RequestedAction, s \in P!RunState :
          \/ Deny(h, action, s)
          \/ \E tool \in Tool \cup {None} : Dispatch(h, action, tool, s)
    \/ GatewayExecute(h) \/ GatewayRaise(h)
    \/ Commit(h) \/ RollbackCommit(h) \/ Abort(h)

RunNext ==
    \E h \in Handler :
        \/ \E a \in Agent, t \in Task \cup {None} : CycleBegin(h, a, t)
        \/ \E a \in Agent, t \in Task \cup {None}, tool \in Tool : OwnerExecute(h, a, t, tool)
        \/ \E x \in Artifact : RollbackBegin(h, x)
        \/ Proceed(h)

Next ==
    \/ L!Next /\ UNCHANGED runVars /\ \A h \in Handler : req'[h] # req[h] => run[h].pc = "idle"
    \/ RunNext /\ UNCHANGED <<agents, grants, req>>

Spec == Init /\ [][Next]_vars
-----------------------------------------------------------------------------
(* Properties: what the lifecycle of the agents guarantees, cycles or not *)

\* A grant is being revoked by at most one transaction, which still finds it
\* in force when it commits.
OneRevoker == L!OneRevoker

\* What the first revocation recorded of a grant is not overwritten.
RevokedOnce == L!RevokedOnce
=============================================================================
