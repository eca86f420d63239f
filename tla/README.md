# Mercury Hive in TLA+

Mercury Hive is a control plane for AI agents: a FastAPI application over
PostgreSQL through which one owner runs departments, agents, tasks, judging
councils and webhooks, and can stop everything.  This directory holds TLA+
specifications of its stateful parts, the TLC configurations that check them,
and proofs of their invariants that the TLAPS proof system checks.

The program has no worker threads of its own.  What makes it hard is that every
request is a coroutine with a database transaction at PostgreSQL's READ
COMMITTED level, that requests interleave at every `await`, that the ORM keeps
what it has read until the commit and then writes only the columns that have
changed, that the commit happens after the response (`get_db`,
`apps/api/dependencies.py:71`), and that three stores live in the memory of the
process (the cached run state, the nonces, the idempotency keys) and are lost in
a restart.  That is what the models are about.

## 1. The system's parts

| Part | State | Operations | What is hard | Correct when |
|---|---|---|---|---|
| Owner sessions (`services/identity`) | `owner_sessions`, `refresh_tokens` | login, refresh, logout, revoke one, revoke all | row locks taken after unlocked reads, bulk UPDATEs against inserts, lock waits and deadlocks | no token outlives its session; a revocation is final and reaches every token; a session has one usable token |
| Rate limiter (`services/identity/rate_limiter.py`) | timestamps per client, in memory | check, record, reset | check and record are two lock acquisitions; the wait that is told is rounded | no more attempts than the limit, and those of overlapping requests; who waits as told gets in |
| Run state and gate (`services/governance/shutdown.py`, `apps/api/dependencies.py`) | `system_states`, its cached copy | shut down, override, read, verify every request | a read that lands after a write fills the cache with the old value; restarts; failed commits | no write passes a shutdown; nothing is refused when all is normal |
| Approvals (`services/governance/approvals.py`) | `approvals` | create, decide | two decisions at once | a decision stands |
| Webhooks (`services/tribe`) | nonces, idempotency keys (memory), `tasks`, `task_sync_mappings` | receive, ingest, link by hand | duplicates, reordering, failures at commit, restarts, time windows | a message is let in once; a ticket makes one task; a failed delivery can be retried |
| Tribe mappings and skills (`services/tribe/service.py`) | `tribe_mappings`, `agent_skills` | create, register, verify | upserts | one row per key |
| Agents and grants (`services/agent_registry`) | `agents`, `permission_grants` | create, update, suspend, terminate, restore, issue, revoke | a bulk UPDATE against an INSERT; unlocked status reads | an inactive agent holds no grant; termination is permanent |
| Departments (`services/departments`) | `departments` | propose, approve, suspend; asked by whatever is admitted | unlocked status reads; two departments checked one after the other | open only by approval; a suspension holds |
| Bridges (`services/bridges`) | `cross_department_bridges` | request, approve, revoke, check | approval against revocation; expiry | active only when approved, never after a revocation |
| Tasks (`services/tasks`) | `tasks`, `task_delegations` | create, assign, move, delegate | a bridge that changes between check and use; lost updates; privileges of the database role | no work crosses departments without a bridge; terminal is terminal |
| Judging (`services/judging`) | `rubrics`, `evaluation_submissions`, `judging_sessions`, `judge_scorecards` | create, submit a scorecard | two cards that complete a council together; a score is judged before it is rounded | the outcome is what all the cards on record say, and stands, except at the limit itself |
| Evolution (`services/evolution`) | `evolution_candidates`, `sandbox_runs` | propose, test, shadow, promote, roll back | no locks at all | no traffic without a passed test; a rollback takes the traffic away |
| Tool gateway (`services/tools`) | `tool_definitions`, `tool_executions` | register, execute | decides by the cached run state; a record made before a raise is rolled back | no tool under a shutdown; every execution recorded |
| Rollback artefacts (`services/rollback`) | `rollback_artifacts` | execute | unlocked status read | executed once |
| Scoped memory (`services/memory`) | `agent_memories` | store, read | version read, incremented and written without a check; first stores that find nothing | versions count stores; one row per item |
| Agent runtime (`services/agent_runtime`) | `tasks.budget_spent`, retries | cycle, generate, retry | retry counter; read-modify-write of the budget | bounded attempts; nothing spent is lost |
| Permission engine (`services/permissions`) | none | evaluate | rule order | agrees with the constitution |
| Workspace (`services/workspace`) | zones, avatars, presence, meetings | upsert presence, schedule, start, conclude | upsert races; unlocked status reads | one presence per entity; a concluded meeting stays so |
| Audit (`services/audit`) | `audit_events` | log | a record in the same transaction, or in one of its own | records commit with what they describe |
| Constitution, prompts, sanitizer, hashing, TOTP, JWT, schemas, web console, scripts | none that changes | pure functions, files, clients | - | - |

How they meet: every guarded route passes the gate first; tasks read bridges,
departments and agents; grants follow their agent's status; a webhook creates
tasks; the gateway reads the run state's cache, agents and grants; councils judge
submissions for tasks.  All of it goes through rows of one database.

## 2. Modules

`Rows` has the operators on tables that all the others use (a table is a function
from primary keys to rows).  For each component `X` there is the specification
`X.tla`; where some property is stated with a history (section 3), `XHistory.tla`,
which extends it with that history and states those properties; the proofs
`XProofs.tla`, which extend the latter; and `MCX.tla`, which gives TLC the symmetry
and the values of constants that a .cfg cannot write.  Six small services
(`RateLimiter`, `Approvals`, `Memories`, `Workspace`, `Departments`, `Bridges`) have
one history module together, `Services`, with `ServicesProofs` and `MCServices`: no
two of them share a table or a variable of the process, so a behaviour of all is an
interleaving of one behaviour of each, and looking at them one at a time (`turn`,
chosen in the initial state) loses nothing.  `AgentLifecycle` is composed into
`AgentRuntime`, and `AgentRuntimeProofs` proves things of both.

The models share one shape.  A `Handler` is a request in flight; `req[h]` holds its
local variables, with `pc` naming where it is; a row appears in a table only when
its transaction commits.  A handler's step runs from one statement that others can
influence to the next.  `Abort` is any end of a transaction without a commit: an
error, a cancelled request, a lost connection.  Definitions that begin with `Bug:`
are plausible mistakes in the code; each property is shown to fail when one of
them replaces the real definition.

| Module | Models | State and actions in the code |
|---|---|---|
| `OwnerSessions` | `services/identity/service.py` | `sessions` and `tokens` are the tables, `locks` the rows locked FOR UPDATE. `RefreshFind` is the first SELECT, whose `used_at` stays in the ORM's identity map (`seenUsed`); `RefreshLock` the locked one; `RefreshReplay`, `RefreshDeny`, `RefreshAccept`, `RefreshCommit` the rest of `refresh`. `RevokeBegin`, `RevokeLock`, `LogoutCommit`, `RevokeCommit` are logout and revoke_session; `SweepBegin`, `SweepLock` (row by row), `SweepCommit` are revoke_all_sessions |
| `SessionContract` | what that service promises, with no request in sight | open, exchange, condemn, close; `OwnerSessions` implements it |
| `ShutdownGate` | `governance/shutdown.py`, `verify_shutdown_state`, the gateway's check | `runState` is the row, `cache` the module variables. `WriteBegin`, `WriteApply` (row lock, cache), `WriteCommit` are the owner's writes; `ReadBegin`, `ReadSnapshot`, `ReadLand` get_system_state; `VerifyBegin`, `VerifySnapshot`, `VerifyLand`, `VerifyFallback` the gate; `ExecuteTool` the gateway; `Restart` a new process |
| `WebhookIngest` | `POST /tribe/webhook`, `tribe/security.py`, ingestion and linking | `nonces` and `idem` are the process's stores, `tasks` and `mappings` the tables. `Accept` is all the handler does before its first suspension; `Work` resumes it, up to the commit and its unique constraint; `LinkCheck` is linking by hand |
| `AgentLifecycle` | `agent_registry/service.py` | `EndBegin`, `SweepBegin`, `Sweep`, `SuspendCommit`, `TerminateCommit` are suspend and terminate with the bulk UPDATE of the grants; `IssueBegin`, `IssueCommit`, `RevokeBegin`, `RevokeLock`, `RevokeDeny`, `RevokeCommit` the grants; `RestoreBegin`, `RestoreCommit` restore_agent |
| `PermissionEngine` | `permissions/engine.py` | `Authorize` of a request: the run state, the actor's standing, the conflicts of interest and the roles |
| `AgentRuntime` | `agent_runtime/runner.py` and `provider.py`, `tools/gateway.py`, `rollback/service.py`, composed with `AgentLifecycle` | `spent` is tasks.budget_spent in 1/10000 USD, `artifacts` the table. `CycleBegin` loads the agent and the task; `Retry`, `GiveUp`, `AnswerUnusable` are the provider's loop; `Deny`, `Dispatch` the decision; `GatewayExecute`, `GatewayRaise` the gateway with the grants as they are then; `Commit` the end; `OwnerExecute`, `RollbackBegin`, `RollbackCommit` the routes |
| `Judging` | `judging/service.py` | `CreateCouncil`; `ScoreLock` (FOR UPDATE), `ScoreAccept`, `ScoreDeny`, `ScoreCommit` are submit_scorecard, whose `Judged` computes the council's row from the cards on record and the new one as submitted; `Rounded` is the column's NUMERIC(5,2), `Exceeds` the comparison of floats |
| `Bridges` | `bridges/service.py` | `RequestBridge`; approving and revoking are a read and a commit; `CheckActiveBridge` is check_active_bridge |
| `RateLimiter` | `identity/rate_limiter.py` and the login and refresh routes | `attempts` are the ages of the timestamps, `working` the requests between the check and its outcome. `Refuse`, `Admit` are check; `Deny` is record_attempt, `Grant` reset, `Fail` an end that records nothing; `Tick` and `Restart` come from outside |
| `Approvals` | `governance/approvals.py` | `CreateApproval`; `DecideBegin`, `DecideLock` (FOR UPDATE), `DecideDeny`, `DecideCommit` are decide_approval |
| `Memories` | `memory/service.py` | `FindNone`, `FindOne`, `FindRaises` are the SELECT of store_memory, `InsertCommit` and `UpdateCommit` what it does at the commit |
| `Workspace` | `workspace/service.py` | `HeartbeatFirst`, `HeartbeatAgain`, `HeartbeatRaises` are the SELECT of update_presence, `ArriveCommit` and `MoveCommit` its writes; starting and concluding a meeting are a read and a commit |
| `Departments` | `departments/service.py`, and the checks of create_agent, request_bridge and create_task | proposing, approving and suspending are a read and a commit (`ProposeRefused` is the unique name); `AdmitRead`, `AdmitCheck`, `AdmitCommit` are what asks one or two departments and is then inserted |
| `BridgedTasks` | `tasks/service.py` composed with `Bridges` | each function is a read of the task, a check of the bridges and a commit; `Lands` is the column privilege the API's database role lacks |
| `Evolution` | `evolution/service.py` | each function is a read, where there is one a check of the sandbox runs, and a commit; `Written` is the ORM's rule that a column is written only if it changed since it was read |

Abstractions, all of them of data: a token and its digest are one; passwords, TOTP
codes, signatures and JWTs appear as requests that were accepted; texts, metadata,
budgets and artefacts that no branch depends on are absent; times are ticks; the
mean score of a council is left out.  A judge's score is a whole number of thousandths of
a point, enough to tell what is submitted from the two decimals that are kept.  TLA+ has
no floats; what they do to a comparison with 25.0 at that grain is to find some pairs
exactly 25 points apart further apart than that (55.06 - 30.06 is 25.000000000000004).
Which pairs is the constant `Excess`, and which way a score half-way between two hundredths
is rounded, which depends on the float's further digits, is left open.  Every route passes the owner's role, so the
branches for other roles are unreachable and left out.

## 3. The runs

Several things the code promises hold as long as no two requests work on the same
row at the same time, and fail when they do.  The history modules say so with a
variable that watches and keeps nothing from happening: it collects the rows (tokens' sessions, grants, bridges, candidates,
clients, memory items, entities, meetings) on which the overlap in question has
happened, or the requests (on a task, on an artifact, on a department) that are part
of one, and the property speaks of the others.
So one run shows that each operation is right by itself, in any sequence, next to any
other traffic, and names the one interleaving that breaks it.

| Run | Checks | Bounds |
|---|---|---|
| `OwnerSessions_races` | types, `TokenWithinSession`, `RevocationSpends`, `OnlyRacesFork`, `RevocationFinal`, and `ContractKept` (the refinement) | 2 requests, 2 sessions, 3 tokens, 2 ticks of life for both: a refresh against a revocation of each kind, a rotation that the session's end caps, both expiries |
| `OwnerSessions_live` | `WaitersServed` | 2 requests, 2 sessions, one tick, after which the first session is over: the sweep deadlock is there |
| `ShutdownGate_gate` | types, `NoMutationBehindShutdown`, `DashboardHeals` | 3 requests, 2 writes, failures, restarts: a writer, a late reader and a request at the gate |
| `WebhookIngest_races` | types, `KeyProtocol`, `OneTaskPerTicket`, `NoReplay`, `KeysReleased` | 2 requests, with one key and without, 2 nonces, 2 tickets, failures, restarts; tolerance 1 and ticks 0..2: a stamp one tick in the future is acceptable on all three, a nonce pruned after one tolerance would be forgotten on the last |
| `AgentRuntime_cycles` | types, `OnlyRacesEscape`, `RevokedOnce`, `SuspensionStopsTools`, `CostsOnRecord`, `RevertedOnce` | 2 requests on the registry or in cycles, 1 worker, 2 grants, 1 task that has cost a cent, 1 artifact, one retry, an answer that costs 1.6 cents (`MCSpec` fixes the task's cost, which `HistorySpec` leaves open): suspension, termination and revocation of one grant together, a suspension while the model is asked |
| `Judging_council` | types, `OneCardPerJudge`, `StatusFollowsCards`, `OutcomeFinal` | 2 submissions, 4 agents, a council of 2, an author's own card, a colleague's, a third card after the quorum. Scores 30.06, 55.056 and 80.065: two that are less than 25 apart and exactly 25 on record, where floats make it more; two that are more than 25 apart and, by the rounding, exactly 25 or more on record |
| `Services_races` | types, `AttemptsBounded`, `RetryAfterHonest`, `DecisionStands`, `StoresCounted`, `OnePresence`, `MeetingsEnd`, `SuspensionHolds`, `OnlyRacesReopen` | 3 requests in each of six services. 1 client, 2 attempts in 2 seconds of 2 ticks, so that a wait may be a fraction of a second; 1 approval; 2 items, one without a scope_id, 3 rows, versions to 3; 1 entity in 2 zones, 1 meeting; 2 departments, one of them seeded, and whatever asks one or both; 2 bridges, an expiry |
| `BridgedTasks_races` | types, `WorkIsBridged`, `OnlyDelegationReopens` | 2 requests on 1 task, 1 on its bridge, 3 departments, 2 agents; the bridge does not expire here (revocation has the same effect, and `Services_races` has expiry) |
| `Evolution_races` | types, `TestedBeforeTraffic`, `TrafficMatchesStatus` | 3 requests, 1 candidate, scores below, at and above the threshold |

The bounds suffice for the interactions in question: every table is touched by
single-row conditions, so two or three requests on one or two rows meet in all the
ways the code lets them; the theorems below remove the bounds from every safety and
action property.  How locks are used (`LockProtocol`, `OneCardAtATime`,
`OneRevoker`) and that cached answers are never replaced (`AnswersKept`) are the
reasons for other properties: they are proved, and in no run.

Violations.  Each of these runs checks one sentence of the repository's own, and
TLC finds a behaviour of the code that breaks it.

| Run | The sentence | What happens |
|---|---|---|
| `OwnerSessions_fork` | "Row-level locking prevents concurrent refresh races" (`docs/authentication.md:39`) | the second SELECT, under the lock, keeps the `used_at` read before it: two refreshes of one token both rotate it |
| `ShutdownGate_tools` | "Blocks all non-owner operations and agent tool executions." (`shutdown.py:69`) | a dashboard read that lands after the shutdown puts the old state into the cache, and the gateway asks the cache alone |
| `WebhookIngest_lost` | "Release an in-flight key on error so retries can proceed." (`tribe/security.py:214`) | the key is COMPLETED before the commit that fails |

What else the models show of the code, without a run that ends in it:

- a grant that is inserted between the bulk UPDATE of a suspension and its commit
  survives it (the exception in `OnlyRacesEscape`; `agent_registry/service.py:285`);
- `suspend_agent` asks nothing of the agent's status, so a terminated agent can be
  suspended and then restored (`agent_registry/service.py:163`);
- a cycle of an agent never learns that the agent has been suspended; that the
  suspension also revokes the grants, which are read afresh, is all that keeps it from
  running a tool (`SuspensionStopsTools`; `agent_runtime/runner.py:142`);
- `_accumulate_task_budget` rounds to 1/10000 USD, but the column is NUMERIC(14, 2)
  (`database/migrations/versions/004_phase4_tasks_and_bridges.py:50`): a cycle that
  costs less than half a cent leaves the spending as it was, however many there are
  (`ToCents`; `CostsOnRecord` holds to the nearest cent, per cycle);
- the amount that a cycle writes is computed from the one it loaded, so of two cycles
  of a task at once one goes unrecorded (the exception in `CostsOnRecord`), and two
  rollbacks of an artifact that both found it AVAILABLE both take place (the one in
  `RevertedOnce`);
- the decision `request_approval` is open to no role but the owner's, so a cycle that asks for an
  approval is always denied (`CyclesActWithinTheirRole`; `permissions/engine.py:321`);
- an agent may be created with the role OWNER (the schema and
  `database/migrations/versions/003_phase3_agents_departments.py:146` admit it), and of a
  caller with that role the gateway asks no grants (`services/tools/gateway.py:154`): the
  exception in `SuspensionStopsTools`;
- an approval that read PENDING and commits after a revocation reopens the bridge (the
  exception in `OnlyRacesReopen`; `bridges/service.py:150`); one that finds its bridge
  expired sets EXPIRED and raises, which rolls the status back;
- `delegate_task` does not look at the task's status, so it reopens a finished task
  (`OnlyDelegationReopens`; `tasks/service.py:312`), and the role the API connects as
  may not update `tasks.assigned_department_id`
  (`scripts/apply_runtime_privileges.sh:91`), so a delegation to another department
  ends in `DelegateRefused`;
- a rollback that read traffic 0 does not write it, and a shadow deployment that
  commits meanwhile leaves its share to a candidate that is rolled back (the exception
  in `TrafficMatchesStatus`; `evolution/service.py:304`);
- the limiter checks before a login and records after it, so overlapping requests add
  failed attempts beyond the "5 failed attempts / min -> 429" of
  `identity/router.py:63`: up to the limit minus one, and one for each request in
  flight (`AttemptsBounded`); a success drops every attempt of the client, those of
  other requests included;
- "optimistic locking" (`memory/service.py:1`): `store_memory` writes the version it
  read and one, and nothing compares it with the stored one, so of two stores at once
  one is lost.  Two first stores insert two rows: `uq_agent_memory_scoped_key` is
  declared in `domain/models/tools.py:188` and created by no migration, so
  the migrated database and one made from the ORM's metadata differ.  From then on
  `scalar_one_or_none` raises in every store and read of the item (the exception in
  `StoresCounted`, and `FindRaises`);
- likewise two first heartbeats of an entity leave two presence rows, and every later
  heartbeat raises (`OnePresence`; `workspace/service.py:166`);
- a start that read SCHEDULED and commits after another start and a conclusion reopens
  a meeting (the exception in `MeetingsEnd`; `workspace/service.py:279`);
- `approve_department` and `suspend_department` ask nothing of the status they change
  (`departments/service.py:94`); a suspension is lost to an approval that overlaps it,
  and an admission that was checked before it is committed after it (the exceptions in
  `SuspensionHolds`);
- `submit_scorecard` flushes the new card and selects it back in the same session, so it
  judges that card by the float submitted and the others by what NUMERIC(5,2) kept of
  theirs (`services/judging/service.py:210`).  Cards of 60 and 85.004 escalate a council,
  though those on record, 60.00 and 85.00, are not ">25 points" apart (line 233), and the
  next card, even one that declares a conflict and does not count, has them read again
  and may turn the escalation into a consensus.  Scores of 41.40 and then 66.40 escalate by
  the arithmetic of floats alone.  `StatusFollowsCards` and `OutcomeFinal` say that this is
  confined to recorded scores exactly 25 points apart;
- nothing resolves an escalated council or assigns CLOSED, and
  `rubric.minimum_passing_score` is never used.

CHECK_DEADLOCK is off for `Evolution` alone: the finitely many candidates of the
model may all have been rolled back, after which nothing can happen to them.

## 4. Fairness

Only two runs assume any.  `OwnerSessions_live`: weak fairness of every handler's
own steps, because the event loop runs each ready coroutine; strong fairness of
taking a row lock, because PostgreSQL queues waiters, so a waiter whose row becomes
free again and again gets it; weak fairness of `Abort` for a request that is part of
a deadlock, which PostgreSQL detects and breaks (and for one that the model has no
identifiers left for).  No fairness is assumed of requests arriving.
`WebhookIngest_races`: weak fairness of `Work`, a coroutine whose database call has
returned is resumed.

## 5. What is proved

Every invariant and action property of every passing run is a theorem.  The theorems
hold for every value of the constants that satisfies the named assumptions
(`TTLAssumption`, `ShutdownAssumption`, `WebhookAssumption`, `JudgingAssumption`,
`TasksAssumption`, `EvolutionAssumption`, `RuntimeAssumption`, `ServicesAssumption`),
which TLC evaluates on each run.  They ask for times, limits and bounds that are
natural numbers (positive where the code divides or waits), for NULL to be none of the
values beside it, and `ServicesAssumption` for finitely many requests in flight, whose
number the limiter's bound speaks of.  `MCServices` has TLC compare, on all short
lists, the function by which the limiter's window is written (`Pruned`, which the proofs
can reason about) with the filter of the code.

Each module of proofs defines an inductive invariant, shows that the initial
condition implies it and that each action preserves it, and draws the theorems from it.
A property with a history has an invariant of its own on top of the component's, which
says of the rows and requests outside the history what would be true if each
operation were atomic: no two requests that matter to each other are in flight, and
what the one in flight has read still holds.

| Module | Theorems | Why the invariant is what it is |
|---|---|---|
| `OwnerSessionsProofs` | `TypeCorrect`, `ExpiryIsAbsolute`, `RevocationInvalidatesTokens`, `LocksProtect`, `RevocationIsFinal`, `ServiceKeepsContract` | that a revoked session is given no other token holds only because a request between its lock and its commit is alone with its row, and what it checked still holds: `LockProtocol` is the strengthening. The refinement maps each commit to one action of the contract and every other step to a stutter |
| | `ChainsForkByRaces` (of the history) | `ForkInv`: two refreshes that hold one token make its session contested (`Known`), one that is past its checks in an uncontested session holds the token it found unused (`Rotates`, `Fresh`), and such a session has exactly one unused token (`Chain`). A step that adds no token and spends none of a live session is harmless; the two that do otherwise, a login and a rotation, are taken apart |
| | `SweepsAreBehindDeadlocks` | from `LockProtocol`: a request that waits and is not a sweep holds no lock, so in any set of requests that wait only for each other those waited for are sweeps, at least two. This is why it is enough that `Fairness` has the sweeps of a deadlock aborted |
| `ShutdownGateProofs` | `TypeCorrect`, `GateHolds`, `DashboardRepairsCache` | one writer at a time (`OneWriter`), and what a request during which no write ran has read is the row (`FreshHistory`) |
| `WebhookIngestProofs` | `TypeCorrect`, `NonceWindowSuffices`, `KeysAreExclusive`, `TicketsIngestedOnce`, `CachedAnswersKept` | `NonceMemory`: a nonce is remembered until its timestamp is out of the window. It is the arithmetic reason why pruning at twice the tolerance suffices |
| `AgentRuntimeProofs` | `LifecycleKept`, `TypeCorrect`, `RevokersQueue`, `RevocationIsRecordedOnce` | `LifecycleInv`: a request refers to rows that exist, and rows it has updated are its own until it commits. No step of a cycle changes an agent or a grant, so the composition implements `AgentLifecycle` and inherits its theorems; the types of the cycles are inductive given those of the agents |
| | `CyclesActWithinTheirRole`, `OnlyWorkersReachTheGateway` | the first is a fact about the permission engine with the arguments a cycle gives it; the second carries it to the gateway, which asks for grants and not for roles |
| | `OnlyRacingGrantsEscape`, `SuspensionReachesCycles` (of the history) | `EscapeInv`: a grant that is being issued to an agent whose end is under way has met it (`Noticed`), and the bulk UPDATE has found every grant in force but the late ones (`Swept`), so its commit leaves only those. That a suspension stops a cycle's tools follows, because the gateway reads the grants afresh |
| | `ArtifactsRevertOnce`, `CostsAreRecorded` (of the history) | `AloneInv`: a cycle that is alone with its task has loaded what the task still costs (`Loaded`), and a rollback that is alone with its artifact finds it as it was (`RevertedOnce`); rounding to cents loses at most half of one (`CentsFact`) |
| `JudgingProofs` | `TypeCorrect`, `CardsQueue`, `JudgesCountOnce`, `StatusIsDerived`, `OutcomesStand` | the set of cards is finite and the holder of a council's lock has seen all its cards; `Fits` says of a row and a set of cards what the stored status must be. The cards judged and the cards on record agree in number and votes (`JudgedAndRecorded`); rounding moves no score past a whole hundredth (`RoundingKeepsOrder`), and any other score on record, 25 points up or down, is one, so the two can disagree only at exactly 25 (`SpreadWithNewCard`) |
| `BridgedTasksProofs` | `TypeCorrect`, `ActiveIsApproved`, `WorkNeedsBridge` | `approved` never goes back to NULL (`Grown`), so what a request found bridged stays so until it commits, even if the bridge is revoked; `SoundRequest` says what each request has established so far. A step of the bridges and a step of the tasks each preserve both |
| | `DelegationsReopen` (of the history) | `UpToDate`: what a request that is alone with a task has read of it still holds, and the guards it passed with it |
| `EvolutionProofs` | `TypeCorrect`, `TrafficIsEarned` | sandbox runs are only ever added, so a request past its check works for a candidate that has passed, whatever has happened to its status |
| | `TrafficFollowsStatus` (of the history) | `HistoryInv`: the one request on a candidate that is not shared has read the row as it is, in a status its route starts from, so the columns the ORM leaves out are those that are right already |
| `ServicesProofs` (all of the histories) | `TypeCorrect` | each service's invariant contains its types |
| | `AttemptsAreBounded`, `RetryAfterIsHonest` | `LimiterInv`: the attempts that count and the requests at work together never exceed the limit less one and the requests there are, since whoever is admitted found fewer than the limit; ages are listed oldest first, so the wait that is told is that of the first that counts, and it is rounded up |
| | `DecisionsStand` | `ApprovalsInv`: past the locked read a request is alone with a row that is still PENDING |
| | `StoresAreCounted` | `MemoriesInv`: an item outside the races has at most one row, whose version counts its stores, and the one request that is storing it has read that row, or that there is none |
| | `SuspensionsHold` | `DepartmentsInv`: a change of status that has met no other has read the status that is there; an admission that got past a department that is shut now was in flight when it was shut |
| | `RevokedBridgesStayShut` | `BridgesInv`: an uncrossed bridge that is being approved has not been revoked, and one that a request found REVOKED still is when that request commits, which is the only case in which the ORM leaves the status out (`Uncrossed`) |
| | `EntitiesAreInOnePlace`, `MeetingsStayEnded` | `WorkspaceInv`: the one first heartbeat of an entity finds no row at its commit (`Settled`), and one request at a time is starting or concluding a meeting, in the status it read (`Orderly`) |

Only model-checked: the two liveness properties (`WaitersServed`, `KeysReleased`),
which hold under fairness, and fairness and ENABLED are beyond what TLAPS proves.
Induction over data and recursive operators are out of the prover's reach too; no
module uses them.

## 6. The plan

Order: what guards everything first (sessions, the gate), then what comes from
outside (webhooks), then authority (agents, grants, permissions), work (bridges, tasks,
cycles and their tools), its evaluation (judging, evolution), and the services around
them (limiter, approvals, memory, workspace, departments).  That much is done, and so
are the proofs of all the safety and action properties.  What would come next:

1. The safety half of the two liveness properties: that a request is always either
   able to step, waiting for one that is, or part of a deadlock of sweeps.
2. For the interleavings that break a property, what still holds after them: for one,
   that a bridge reopened by a race is shut by the next revocation that is alone.
3. A contract for the tasks and the agents as there is one for the sessions.

## 7. What is not modelled, and why

Avatar profiles (`workspace/service.py`) are inserted under one check of their
attire and not read by anything else ("Create or update", says their docstring; they are
always inserted); nothing reads a meeting's participants.  Tribe mappings are inserted
and listed.  Agent skills are registered and certified by plain updates of one row:
registering a certified skill again changes its level and leaves its certification
(`tribe/service.py:116`).  The catalogue of tools is written by the owner and asked
once per execution.  None of these has a state that another component depends on in a
way that more than one step could break.

Hashing, TOTP, JWT encoding, prompt texts, the sanitizer, schema validation and the
constitution's file loading are functions of their input with no state.  Audit events
are inserted in the transaction of what they describe, so they appear and disappear
with it.  The web console is a client.  Migrations and scripts run before the
program; what they leave behind (seeded rows, constraints, privileges) is in the
initial states and the guards.
