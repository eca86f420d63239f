------------------------- MODULE AgentRuntimeProofs -------------------------
(***************************************************************************)
(* Proofs about AgentRuntime, for any number of agents, grants, tasks,     *)
(* tools and requests: the composition implements the lifecycle it is      *)
(* composed of, and so keeps what is proved of it; and of the properties   *)
(* stated with the histories.                                              *)
(***************************************************************************)
EXTENDS AgentRuntimeHistory, TLAPS

-----------------------------------------------------------------------------
(* The lifecycle by itself *)

\* A request refers to rows that exist: nothing deletes an agent or a grant.
References ==
    \A h \in Handler :
        /\ req[h].pc \in {"granting", "restoring", "ending", "sweeping", "swept"}
              => req[h].agent \in DOMAIN agents
        /\ req[h].pc = "sweeping" => req[h].todo \subseteq DOMAIN grants
        /\ req[h].pc \in {"revoke", "revoking"} => req[h].grant \in DOMAIN grants

LifecycleInv == L!TypeOK /\ References /\ L!OneRevoker

\* A request's program counter tells which of its local variables it has.
LEMMA RequestFields ==
    ASSUME NEW r \in L!Request
    PROVE  /\ r.pc \in {"granting", "restoring", "ending", "sweeping", "swept"}
                => r.agent \in Agent
           /\ r.pc \in {"restoring", "ending", "sweeping", "swept"} => r.seen \in L!Status
           /\ r.pc \in {"ending", "sweeping", "swept"} => r.op \in {"suspend", "terminate"}
           /\ r.pc = "sweeping" => r.todo \subseteq Grant
           /\ r.pc = "swept" => r.got \subseteq Grant
           /\ r.pc \in {"revoke", "revoking"} => r.grant \in Grant
           /\ r.pc = "revoke" => /\ [r EXCEPT !.pc = "revoking"] \in L!Request
                                 /\ [r EXCEPT !.pc = "revoking"].pc = "revoking"
                                 /\ [r EXCEPT !.pc = "revoking"].grant = r.grant
BY DEF L!Request

LEMMA IdleRequest == L!Idle \in L!Request /\ L!Idle.pc = "idle"
BY DEF L!Request, L!Idle

LEMMA HeldFact ==
    ASSUME NEW h \in Handler
    PROVE  /\ req[h].pc = "swept" => L!Held(h) = req[h].got
           /\ req[h].pc = "revoking" => L!Held(h) = {req[h].grant}
           /\ req[h].pc \notin {"swept", "revoking"} => L!Held(h) = {}
BY DEF L!Held

\* What a request holds depends on its own variables only.
LEMMA HeldUnchanged ==
    ASSUME NEW h \in Handler, req'[h] = req[h]
    PROVE  L!Held(h)' = L!Held(h)
BY DEF L!Held

\* Revoking some grants changes nothing in them but the reason.
LEMMA RevokedForFact ==
    ASSUME L!TypeOK, NEW S, NEW why \in L!Reason
    PROVE  /\ L!IsTable(L!RevokedFor(S, why), Grant, L!GrantRow)
           /\ DOMAIN L!RevokedFor(S, why) = DOMAIN grants
           /\ \A g \in DOMAIN grants :
                 /\ L!RevokedFor(S, why)[g].agent = grants[g].agent
                 /\ g \notin S => L!RevokedFor(S, why)[g] = grants[g]
BY DEF L!TypeOK, L!IsTable, L!GrantRow, L!RevokedFor

LEMMA InitInv == L!Init => LifecycleInv
<1> SUFFICES ASSUME L!Init PROVE LifecycleInv
    OBVIOUS
<1>1. L!TypeOK /\ References
    BY IdleRequest DEF L!Init, L!TypeOK, References, L!IsTable, L!EmptyTable
<1>2. L!OneRevoker
    BY IdleRequest, HeldFact DEF L!Init, L!OneRevoker
<1> QED BY <1>1, <1>2 DEF LifecycleInv

-----------------------------------------------------------------------------
(* Steps that change one request and no table *)

\* A request that goes on without holding a row disturbs nobody.
LEMMA PrivateStep ==
    ASSUME LifecycleInv, UNCHANGED <<agents, grants>>, NEW h \in Handler, NEW r \in L!Request,
           req' = [req EXCEPT ![h] = r],
           r.pc \notin {"swept", "revoking"},
           r.pc \in {"granting", "restoring", "ending", "sweeping"}
                => r.agent \in DOMAIN agents,
           r.pc = "sweeping" => r.todo \subseteq DOMAIN grants,
           r.pc = "revoke" => r.grant \in DOMAIN grants
    PROVE  LifecycleInv'
<1>1. L!TypeOK'
    BY DEF LifecycleInv, L!TypeOK
<1>2. /\ \A k \in Handler \ {h} : req'[k] = req[k]
      /\ req'[h] = r
    BY DEF LifecycleInv, L!TypeOK
<1>3. References'
    BY <1>2 DEF LifecycleInv, References
<1>4. L!Held(h)' = {}
    BY <1>2 DEF L!Held
<1>5. \A k \in Handler \ {h} : L!Held(k)' = L!Held(k)
    BY <1>2, HeldUnchanged
<1>6. L!OneRevoker'
    BY <1>4, <1>5 DEF LifecycleInv, L!OneRevoker, L!Live
<1> QED BY <1>1, <1>3, <1>6 DEF LifecycleInv

Takeable(S) == \A g \in S : L!Live(g) /\ L!Unlocked(g)

\* A request takes rows that nobody holds and that are in force.
LEMMA TakingStep ==
    ASSUME LifecycleInv, UNCHANGED <<agents, grants>>, NEW h \in Handler, NEW r \in L!Request,
           req' = [req EXCEPT ![h] = r],
           NEW S \in SUBSET DOMAIN grants,
           \/ r.pc = "swept" /\ r.got = S
           \/ r.pc = "revoking" /\ {r.grant} = S,
           r.pc = "swept" => r.agent \in DOMAIN agents,
           Takeable(S)
    PROVE  LifecycleInv'
<1>1. L!TypeOK'
    BY DEF LifecycleInv, L!TypeOK
<1>2. /\ \A k \in Handler \ {h} : req'[k] = req[k]
      /\ req'[h] = r
    BY DEF LifecycleInv, L!TypeOK
<1>3. References'
    BY <1>2 DEF LifecycleInv, References
<1>4. L!Held(h)' = S
    BY <1>2 DEF L!Held
<1>5. \A k \in Handler \ {h} : L!Held(k)' = L!Held(k)
    BY <1>2, HeldUnchanged
<1>6. L!OneRevoker'
    BY <1>4, <1>5 DEF LifecycleInv, L!OneRevoker, L!Live, L!Unlocked, Takeable
<1> QED BY <1>1, <1>3, <1>6 DEF LifecycleInv

LEMMA BeginInv ==
    ASSUME LifecycleInv, NEW h \in Handler,
           \/ \E op \in {"suspend", "terminate"}, a \in Agent : L!EndBegin(h, op, a)
           \/ \E a \in Agent : L!RestoreBegin(h, a) \/ L!IssueBegin(h, a)
           \/ \E g \in Grant : L!RevokeBegin(h, g)
           \/ L!RevokeDeny(h)
           \/ L!Abort(h)
    PROVE  LifecycleInv'
<1>1. ASSUME NEW op \in {"suspend", "terminate"}, NEW a \in Agent, L!EndBegin(h, op, a)
      PROVE  LifecycleInv'
    <2> DEFINE r == [pc |-> "ending", op |-> op, agent |-> a, seen |-> agents[a].status]
    <2>1. r \in L!Request /\ r.pc = "ending" /\ r.agent \in DOMAIN agents
        BY <1>1 DEF L!EndBegin, LifecycleInv, L!TypeOK, L!IsTable, L!AgentRow, L!Request
    <2> QED BY <1>1, <2>1, PrivateStep DEF L!EndBegin
<1>2. ASSUME NEW a \in Agent, L!RestoreBegin(h, a)
      PROVE  LifecycleInv'
    <2> DEFINE r == [pc |-> "restoring", agent |-> a, seen |-> agents[a].status]
    <2>1. r \in L!Request /\ r.pc = "restoring" /\ r.agent \in DOMAIN agents
        BY <1>2 DEF L!RestoreBegin, LifecycleInv, L!TypeOK, L!IsTable, L!AgentRow, L!Request
    <2> QED BY <1>2, <2>1, PrivateStep DEF L!RestoreBegin
<1>3. ASSUME NEW a \in Agent, L!IssueBegin(h, a)
      PROVE  LifecycleInv'
    <2> DEFINE r == [pc |-> "granting", agent |-> a]
    <2>1. r \in L!Request /\ r.pc = "granting" /\ r.agent \in DOMAIN agents
        BY <1>3 DEF L!IssueBegin, L!Request
    <2> QED BY <1>3, <2>1, PrivateStep DEF L!IssueBegin
<1>4. ASSUME NEW g \in Grant, L!RevokeBegin(h, g)
      PROVE  LifecycleInv'
    <2> DEFINE r == [pc |-> "revoke", grant |-> g]
    <2>1. r \in L!Request /\ r.pc = "revoke" /\ r.grant \in DOMAIN grants
        BY <1>4 DEF L!RevokeBegin, L!Request
    <2> QED BY <1>4, <2>1, PrivateStep DEF L!RevokeBegin
<1>5. CASE L!RevokeDeny(h) \/ L!Abort(h)
    BY <1>5, IdleRequest, PrivateStep DEF L!RevokeDeny, L!Abort, L!EndRequest
<1> QED BY <1>1, <1>2, <1>3, <1>4, <1>5

LEMMA SweepBeginInv ==
    ASSUME LifecycleInv, NEW h \in Handler, L!SweepBegin(h)
    PROVE  LifecycleInv'
<1> DEFINE S == {g \in L!GrantsOf(req[h].agent) : L!Live(g)}
           r == [pc |-> "sweeping", op |-> req[h].op, agent |-> req[h].agent,
                 seen |-> req[h].seen, todo |-> S]
<1>1. S \subseteq DOMAIN grants /\ S \subseteq Grant
    BY DEF L!GrantsOf, LifecycleInv, L!TypeOK, L!IsTable
<1>2. req[h].pc = "ending" /\ req[h].agent \in DOMAIN agents
    BY DEF L!SweepBegin, LifecycleInv, References
<1>3. r \in L!Request
    BY <1>1, <1>2, RequestFields DEF LifecycleInv, L!TypeOK, L!Request
<1>4. req' = [req EXCEPT ![h] = r] /\ UNCHANGED <<agents, grants>>
    BY DEF L!SweepBegin, LifecycleInv, L!TypeOK
<1>5. r.pc = "sweeping" /\ r.todo = S /\ r.agent \in DOMAIN agents
    BY <1>2
<1> HIDE DEF r, S
<1> QED BY <1>1, <1>3, <1>4, <1>5, PrivateStep

LEMMA SweepInv ==
    ASSUME LifecycleInv, NEW h \in Handler, L!Sweep(h)
    PROVE  LifecycleInv'
<1>1. /\ req[h].pc = "sweeping"
      /\ req[h].agent \in DOMAIN agents
      /\ req[h].todo \subseteq DOMAIN grants
    BY DEF L!Sweep, LifecycleInv, References
<1>2. PICK S \in SUBSET DOMAIN grants : S = {g \in req[h].todo : L!Live(g)}
    BY <1>1
<1>3. PICK r : r = [pc |-> "swept", op |-> req[h].op, agent |-> req[h].agent,
                    seen |-> req[h].seen, got |-> S]
    OBVIOUS
<1>4. Takeable(S)
    BY <1>1, <1>2 DEF L!Sweep, Takeable
<1>5. r \in L!Request
    BY <1>1, <1>2, <1>3, RequestFields DEF LifecycleInv, L!TypeOK, L!IsTable, L!Request
<1>6. req' = [req EXCEPT ![h] = r] /\ UNCHANGED <<agents, grants>>
    BY <1>2, <1>3 DEF L!Sweep, LifecycleInv, L!TypeOK
<1>7. r.pc = "swept" /\ r.got = S /\ r.agent \in DOMAIN agents
    BY <1>1, <1>3
<1> QED BY <1>4, <1>5, <1>6, <1>7, TakingStep

LEMMA RevokeLockInv ==
    ASSUME LifecycleInv, NEW h \in Handler, L!RevokeLock(h)
    PROVE  LifecycleInv'
<1> DEFINE r == [req[h] EXCEPT !.pc = "revoking"]
<1>1. req[h].pc = "revoke" /\ req[h].grant \in DOMAIN grants
    BY DEF L!RevokeLock, LifecycleInv, References
<1>2. r \in L!Request /\ r.pc = "revoking" /\ r.grant = req[h].grant
    BY <1>1, RequestFields DEF LifecycleInv, L!TypeOK
<1>3. req' = [req EXCEPT ![h] = r] /\ UNCHANGED <<agents, grants>>
    BY DEF L!RevokeLock
<1>4. Takeable({req[h].grant})
    BY DEF L!RevokeLock, Takeable
<1> HIDE DEF r
<1>5. {req[h].grant} \in SUBSET DOMAIN grants
    BY <1>1
<1> QED BY <1>2, <1>3, <1>4, <1>5, TakingStep

-----------------------------------------------------------------------------
(* Commits *)

\* A commit changes only grants its own transaction holds, or inserts rows.
LEMMA CommitStep ==
    ASSUME LifecycleInv, NEW h \in Handler,
           L!EndRequest(h),
           L!IsTable(agents', Agent, L!AgentRow),
           DOMAIN agents \subseteq DOMAIN agents',
           L!IsTable(grants', Grant, L!GrantRow),
           DOMAIN grants \subseteq DOMAIN grants',
           \A g \in DOMAIN grants' : grants'[g].agent \in DOMAIN agents',
           \A g \in DOMAIN grants \ L!Held(h) : grants'[g] = grants[g]
    PROVE  LifecycleInv'
<1>1. L!TypeOK'
    BY IdleRequest DEF LifecycleInv, L!TypeOK, L!EndRequest
<1>2. /\ \A k \in Handler \ {h} : req'[k] = req[k]
      /\ req'[h] = L!Idle
    BY DEF LifecycleInv, L!TypeOK, L!EndRequest
<1>3. References'
    BY <1>2, IdleRequest DEF LifecycleInv, References
<1>4. L!Held(h)' = {}
    BY <1>2, IdleRequest DEF L!Held
<1>5. \A k \in Handler \ {h} : L!Held(k)' = L!Held(k)
    BY <1>2, HeldUnchanged
<1>6. \A k \in Handler \ {h} : \A g \in L!Held(k) : g \in DOMAIN grants' /\ grants'[g] = grants[g]
    BY DEF LifecycleInv, L!OneRevoker
<1>7. L!OneRevoker'
    BY <1>4, <1>5, <1>6 DEF LifecycleInv, L!OneRevoker, L!Live
<1> QED BY <1>1, <1>3, <1>7 DEF LifecycleInv

LEMMA WrittenFact ==
    ASSUME L!TypeOK, NEW a \in DOMAIN agents, NEW seen \in L!Status, NEW status \in L!Status
    PROVE  L!Written(a, seen, status) \in L!Status
BY DEF L!Written, L!TypeOK, L!IsTable, L!AgentRow

\* The commits that change an agent replace its row by another row.
LEMMA EndRow ==
    ASSUME L!TypeOK, NEW h \in Handler,
           req[h].agent \in DOMAIN agents, req[h].seen \in L!Status,
           L!SuspendCommit(h) \/ L!TerminateCommit(h) \/ L!RestoreCommit(h)
    PROVE  \E row \in L!AgentRow : agents' = [agents EXCEPT ![req[h].agent] = row]
<1> DEFINE a == req[h].agent
           w(status) == L!Written(a, req[h].seen, status)
<1>1. agents[a] \in L!AgentRow
    BY DEF L!TypeOK, L!IsTable
<1>2. \A status \in L!Status : w(status) \in L!Status
    BY WrittenFact
<1>3. \A status \in L!Status :
          /\ [agents[a] EXCEPT !.status = w(status)] \in L!AgentRow
          /\ [status |-> w(status), terminated |-> TRUE] \in L!AgentRow
    BY <1>1, <1>2 DEF L!AgentRow
<1>4. "SUSPENDED" \in L!Status /\ "TERMINATED" \in L!Status /\ "ACTIVE" \in L!Status
    BY DEF L!Status
<1>5. CASE L!SuspendCommit(h)
    <2>1. agents' = [agents EXCEPT ![a] = [agents[a] EXCEPT !.status = w("SUSPENDED")]]
        BY <1>5 DEF L!SuspendCommit
    <2>2. [agents[a] EXCEPT !.status = w("SUSPENDED")] \in L!AgentRow
        BY <1>3, <1>4
    <2> QED BY <2>1, <2>2, Zenon
<1>6. CASE L!TerminateCommit(h)
    <2>1. agents' = [agents EXCEPT ![a] = [status |-> w("TERMINATED"), terminated |-> TRUE]]
        BY <1>6 DEF L!TerminateCommit
    <2>2. [status |-> w("TERMINATED"), terminated |-> TRUE] \in L!AgentRow
        BY <1>3, <1>4
    <2> QED BY <2>1, <2>2, Zenon
<1>7. CASE L!RestoreCommit(h)
    <2>1. agents' = [agents EXCEPT ![a] = [agents[a] EXCEPT !.status = w("ACTIVE")]]
        BY <1>7 DEF L!RestoreCommit
    <2>2. [agents[a] EXCEPT !.status = w("ACTIVE")] \in L!AgentRow
        BY <1>3, <1>4
    <2> QED BY <2>1, <2>2, Zenon
<1> QED BY <1>5, <1>6, <1>7

LEMMA CommitInv ==
    ASSUME LifecycleInv, NEW h \in Handler,
           L!SuspendCommit(h) \/ L!TerminateCommit(h) \/ L!RestoreCommit(h) \/ L!RevokeCommit(h)
    PROVE  LifecycleInv'
<1>1. L!EndRequest(h)
    BY DEF L!SuspendCommit, L!TerminateCommit, L!RestoreCommit, L!RevokeCommit
<1>2. L!IsTable(agents', Agent, L!AgentRow) /\ DOMAIN agents' = DOMAIN agents
    <2>1. CASE L!RevokeCommit(h)
        BY <2>1 DEF L!RevokeCommit, LifecycleInv, L!TypeOK
    <2>2. CASE ~L!RevokeCommit(h)
        <3>1. req[h].agent \in DOMAIN agents /\ req[h].seen \in L!Status
            BY <2>2, RequestFields
               DEF L!SuspendCommit, L!TerminateCommit, L!RestoreCommit, LifecycleInv,
                   L!TypeOK, References
        <3>2. PICK row \in L!AgentRow : agents' = [agents EXCEPT ![req[h].agent] = row]
            BY <2>2, <3>1, EndRow DEF LifecycleInv
        <3> QED BY <3>1, <3>2 DEF LifecycleInv, L!TypeOK, L!IsTable
    <2> QED BY <2>1, <2>2
<1>3. \/ grants' = grants
      \/ \E why \in L!Reason : grants' = L!RevokedFor(L!Held(h), why)
    BY HeldFact DEF L!SuspendCommit, L!TerminateCommit, L!RestoreCommit, L!RevokeCommit, L!Reason
<1>4. /\ L!IsTable(grants', Grant, L!GrantRow)
      /\ DOMAIN grants' = DOMAIN grants
      /\ \A g \in DOMAIN grants : /\ grants'[g].agent = grants[g].agent
                                  /\ g \notin L!Held(h) => grants'[g] = grants[g]
    BY <1>3, RevokedForFact DEF LifecycleInv, L!TypeOK
<1>5. \A g \in DOMAIN grants' : grants'[g].agent \in DOMAIN agents'
    BY <1>2, <1>4 DEF LifecycleInv, L!TypeOK
<1> QED BY <1>1, <1>2, <1>4, <1>5, CommitStep

LEMMA IssueCommitInv ==
    ASSUME LifecycleInv, NEW h \in Handler, L!IssueCommit(h)
    PROVE  LifecycleInv'
<1>1. PICK g \in Grant \ DOMAIN grants :
          grants' = L!Inserted(grants, g, [agent |-> req[h].agent, revoked |-> "no"])
    BY DEF L!IssueCommit
<1> DEFINE row == [agent |-> req[h].agent, revoked |-> "no"]
<1>2. req[h].agent \in DOMAIN agents /\ row \in L!GrantRow /\ row.agent = req[h].agent
    BY RequestFields DEF L!IssueCommit, LifecycleInv, L!TypeOK, References, L!GrantRow
<1>3. grants' = L!Inserted(grants, g, row)
    BY <1>1
<1> HIDE DEF row
<1>4. /\ L!IsTable(grants', Grant, L!GrantRow)
      /\ DOMAIN grants' = DOMAIN grants \cup {g}
      /\ grants'[g] = row
      /\ \A i \in DOMAIN grants : grants'[i] = grants[i]
    BY <1>2, <1>3 DEF LifecycleInv, L!TypeOK, L!IsTable, L!Inserted
<1>5. L!EndRequest(h) /\ agents' = agents
    BY DEF L!IssueCommit
<1>6. \A i \in DOMAIN grants' : grants'[i].agent \in DOMAIN agents'
    BY <1>2, <1>4, <1>5 DEF LifecycleInv, L!TypeOK
<1>7. L!IsTable(agents', Agent, L!AgentRow)
    BY <1>5 DEF LifecycleInv, L!TypeOK
<1> QED BY <1>4, <1>5, <1>6, <1>7, CommitStep

LEMMA CreateAgentInv ==
    ASSUME LifecycleInv, NEW a \in Agent, L!CreateAgent(a)
    PROVE  LifecycleInv'
<1> DEFINE row == [status |-> "ACTIVE", terminated |-> FALSE]
<1>1. row \in L!AgentRow
    BY DEF L!AgentRow, L!Status
<1>2. agents' = L!Inserted(agents, a, row) /\ UNCHANGED <<grants, req>>
    BY DEF L!CreateAgent
<1> HIDE DEF row
<1>3. L!IsTable(agents', Agent, L!AgentRow) /\ DOMAIN agents' = DOMAIN agents \cup {a}
    BY <1>1, <1>2 DEF LifecycleInv, L!TypeOK, L!IsTable, L!Inserted
<1>4. L!TypeOK' /\ References'
    BY <1>2, <1>3 DEF LifecycleInv, L!TypeOK, References
<1>5. L!OneRevoker'
    BY <1>2 DEF LifecycleInv, L!OneRevoker, L!Held, L!Live
<1> QED BY <1>4, <1>5 DEF LifecycleInv

LEMMA NextInv == LifecycleInv /\ [L!Next]_(L!vars) => LifecycleInv'
<1> SUFFICES ASSUME LifecycleInv, [L!Next]_(L!vars) PROVE LifecycleInv'
    OBVIOUS
<1>1. CASE UNCHANGED L!vars
    BY <1>1 DEF L!vars, LifecycleInv, L!TypeOK, References, L!OneRevoker, L!Held, L!Live
<1> QED BY <1>1, CreateAgentInv, BeginInv, SweepBeginInv, SweepInv, RevokeLockInv,
           CommitInv, IssueCommitInv
        DEF L!Next

LEMMA Invariance == L!Spec => []LifecycleInv
BY InitInv, NextInv, PTL DEF L!Spec

LEMMA LifecycleRecordsOnce == L!Spec => L!RevokedOnce
<1>1. ASSUME LifecycleInv, [L!Next]_(L!vars), NEW g \in DOMAIN grants, ~L!Live(g)
      PROVE  g \in DOMAIN grants' /\ grants'[g] = grants[g]
    <2>1. ASSUME NEW h \in Handler,
                 L!SuspendCommit(h) \/ L!TerminateCommit(h) \/ L!RevokeCommit(h)
          PROVE  g \in DOMAIN grants' /\ grants'[g] = grants[g]
        <3>1. g \notin L!Held(h)
            BY <1>1 DEF LifecycleInv, L!OneRevoker
        <3>2. \E why \in L!Reason : grants' = L!RevokedFor(L!Held(h), why)
            BY <2>1, HeldFact DEF L!SuspendCommit, L!TerminateCommit, L!RevokeCommit, L!Reason
        <3> QED BY <1>1, <3>1, <3>2, RevokedForFact DEF LifecycleInv
    <2>2. ASSUME NEW h \in Handler, L!IssueCommit(h)
          PROVE  g \in DOMAIN grants' /\ grants'[g] = grants[g]
        BY <1>1, <2>2 DEF L!IssueCommit, L!Inserted
    <2> QED BY <1>1, <2>1, <2>2
            DEF L!Next, L!vars, L!CreateAgent, L!EndBegin, L!SweepBegin, L!Sweep, L!RestoreBegin,
                L!RestoreCommit, L!IssueBegin, L!RevokeBegin, L!RevokeLock, L!RevokeDeny, L!Abort
<1>2. LifecycleInv /\ [L!Next]_(L!vars) =>
        [\A g \in DOMAIN grants :
            ~L!Live(g) => g \in DOMAIN grants' /\ grants'[g] = grants[g]]_(L!vars)
    BY <1>1
<1> QED BY <1>2, Invariance, PTL DEF L!Spec, L!RevokedOnce

-----------------------------------------------------------------------------
(* The composition implements the lifecycle *)

\* Every step is one of the lifecycle's or leaves its variables alone.
LEMMA StepKeepsLifecycle == [Next]_vars => [L!Next]_(L!vars)
BY DEF Next, vars, L!vars

\* The agents and grants that the cycles run on behave as AgentLifecycle says,
\* whatever cycles, tool calls and rollbacks run between the owner's requests.
THEOREM LifecycleKept == Spec => L!Spec
<1>1. Init => L!Init
  BY DEF Init
<1> QED
  BY <1>1, StepKeepsLifecycle, PTL DEF Spec, L!Spec

\* Cycles that act on the grants do not disturb the queue of those that revoke
\* them: one at a time, on a grant it still finds in force.
THEOREM RevokersQueue == Spec => []OneRevoker
<1>1. LifecycleInv => OneRevoker
  BY DEF LifecycleInv, OneRevoker
<1> QED
  BY <1>1, LifecycleKept, Invariance, PTL

\* What the first revocation recorded of a grant is not overwritten, cycles or not.
THEOREM RevocationIsRecordedOnce == Spec => RevokedOnce
BY LifecycleKept, LifecycleRecordsOnce DEF RevokedOnce

-----------------------------------------------------------------------------
(* The variables of the cycles *)

RunTypeOK ==
    /\ spent \in [Task -> Nat]
    /\ IsTable(artifacts, Artifact, ArtifactRow)
    /\ run \in [Handler -> Run]

\* What a request in flight has, by where it is.
LEMMA RunFields ==
    ASSUME NEW r \in Run
    PROVE  /\ r.pc = "asking" =>
                r \in [pc: {"asking"}, agent: Agent, task: Task \cup {None},
                      seen: L!Status, base: Nat, attempt: 0 .. MaxRetries]
           /\ r.pc = "gateway" =>
                r \in [pc: {"gateway"}, agent: Agent, task: Task \cup {None},
                      base: Nat, tool: Tool]
           /\ r.pc = "closing" =>
                r \in [pc: {"closing"}, task: Task \cup {None}, base: Nat,
                      outcome: Outcome, tool: Tool \cup {None}]
           /\ r.pc = "reverting" => r \in [pc: {"reverting"}, artifact: Artifact]
BY DEF Run

LEMMA ClosingType ==
    ASSUME NEW t \in Task \cup {None}, NEW base \in Nat, NEW outcome \in Outcome,
           NEW tool \in Tool \cup {None}
    PROVE  Closing(t, base, outcome, tool) \in Run
BY DEF Closing, Run

LEMMA CloseType ==
    ASSUME run \in [Handler -> Run], NEW h \in Handler, NEW outcome \in Outcome,
           run[h].pc \in {"asking", "gateway"}, Close(h, outcome)
    PROVE  run' \in [Handler -> Run]
<1>1. run[h].task \in Task \cup {None} /\ run[h].base \in Nat
  BY RunFields
<1>2. Closing(run[h].task, run[h].base, outcome, None) \in Run
  BY <1>1, ClosingType
<1> QED
  BY <1>2 DEF Close

LEMMA IdleType ==
    ASSUME run \in [Handler -> Run], NEW h \in Handler,
           run' = [run EXCEPT ![h] = L!Idle]
    PROVE  run' \in [Handler -> Run]
<1>1. L!Idle \in Run
  BY DEF L!Idle, Run
<1> QED
  BY <1>1

LEMMA CycleBeginType ==
    ASSUME L!TypeOK, RunTypeOK, NEW h \in Handler, NEW a \in Agent,
           NEW t \in Task \cup {None}, CycleBegin(h, a, t)
    PROVE  RunTypeOK'
<1>1. agents[a].status \in L!Status
  BY DEF CycleBegin, L!TypeOK, L!IsTable, L!AgentRow
<1>2. SpentOn(t) \in Nat
  BY DEF SpentOn, RunTypeOK
<1>3. 0 \in 0 .. MaxRetries
  BY RuntimeAssumption
<1>4. [pc |-> "asking", agent |-> a, task |-> t, seen |-> agents[a].status,
       base |-> SpentOn(t), attempt |-> 0] \in Run
  BY <1>1, <1>2, <1>3 DEF Run
<1> QED
  BY <1>4 DEF CycleBegin, RunTypeOK

LEMMA RetryType ==
    ASSUME RunTypeOK, NEW h \in Handler, Retry(h)
    PROVE  RunTypeOK'
<1> DEFINE r == run[h]
<1>1. r \in [pc: {"asking"}, agent: Agent, task: Task \cup {None}, seen: L!Status,
            base: Nat, attempt: 0 .. MaxRetries]
  BY RunFields DEF RunTypeOK, Retry
<1>2. r.attempt + 1 \in 0 .. MaxRetries
  BY <1>1, RuntimeAssumption DEF Retry
<1>3. [r EXCEPT !.attempt = r.attempt + 1] \in Run
  BY <1>1, <1>2 DEF Run
<1>4. run' = [run EXCEPT ![h] = [r EXCEPT !.attempt = r.attempt + 1]]
  BY DEF Retry, RunTypeOK
<1> QED
  BY <1>3, <1>4 DEF Retry, RunTypeOK

LEMMA DispatchType ==
    ASSUME RunTypeOK, NEW h \in Handler, NEW action, NEW s,
           NEW tool \in Tool \cup {None}, Dispatch(h, action, tool, s)
    PROVE  RunTypeOK'
<1>1. run[h] \in [pc: {"asking"}, agent: Agent, task: Task \cup {None},
                 seen: L!Status, base: Nat, attempt: 0 .. MaxRetries]
  BY RunFields DEF RunTypeOK, Dispatch
<1>2. CASE action = "execute_tool" /\ tool # None
  <2>1. [pc |-> "gateway", agent |-> run[h].agent, task |-> run[h].task,
         base |-> run[h].base, tool |-> tool] \in Run
    BY <1>1, <1>2 DEF Run
  <2> QED
    BY <1>2, <2>1 DEF Dispatch, RunTypeOK
<1>3. CASE ~(action = "execute_tool" /\ tool # None)
  BY <1>1, <1>3, CloseType DEF Dispatch, RunTypeOK, Outcome
<1> QED
  BY <1>2, <1>3

LEMMA CommitType ==
    ASSUME RunTypeOK, NEW h \in Handler, Commit(h)
    PROVE  RunTypeOK'
<1>1. run[h] \in [pc: {"closing"}, task: Task \cup {None}, base: Nat,
                 outcome: Outcome, tool: Tool \cup {None}]
  BY RunFields DEF RunTypeOK, Commit
<1>2. spent' \in [Task -> Nat]
  <2>1. CostOf(run[h].outcome) \in Nat
    BY RuntimeAssumption DEF CostOf
  <2>2. Accumulated(h) \in Nat
    BY <1>1, <2>1 DEF Accumulated, ToCents
  <2> QED
    BY <1>1, <2>2 DEF Commit, RunTypeOK
<1>3. IsTable(artifacts', Artifact, ArtifactRow)
  <2>1. CASE artifacts' = artifacts
    BY <2>1 DEF RunTypeOK
  <2>2. CASE run[h].task # None /\ run[h].tool \in Reversible
    <3>1. PICK x \in Artifact \ DOMAIN artifacts :
             artifacts' = Inserted(artifacts, x, [task |-> run[h].task,
                                                  status |-> "AVAILABLE"])
      BY <2>2 DEF Commit
    <3>2. [task |-> run[h].task, status |-> "AVAILABLE"] \in ArtifactRow
      BY <1>1, <2>2 DEF ArtifactRow
    <3> QED
      BY <3>1, <3>2 DEF RunTypeOK, IsTable, Inserted
  <2> QED
    BY <2>1, <2>2 DEF Commit
<1>4. run' \in [Handler -> Run]
  BY IdleType DEF Commit, RunTypeOK
<1> QED
  BY <1>2, <1>3, <1>4 DEF RunTypeOK

LEMMA RollbackType ==
    ASSUME RunTypeOK, NEW h \in Handler,
           (\E x \in Artifact : RollbackBegin(h, x)) \/ RollbackCommit(h)
    PROVE  RunTypeOK'
<1>1. ASSUME NEW x \in Artifact, RollbackBegin(h, x)
      PROVE  RunTypeOK'
  <2>1. [pc |-> "reverting", artifact |-> x] \in Run
    BY DEF Run
  <2> QED
    BY <1>1, <2>1 DEF RollbackBegin, RunTypeOK
<1>2. CASE RollbackCommit(h)
  <2>1. IsTable(artifacts', Artifact, ArtifactRow)
    BY <1>2 DEF RollbackCommit, RunTypeOK, IsTable, ArtifactRow
  <2>2. run' \in [Handler -> Run]
    BY <1>2, IdleType DEF RollbackCommit, RunTypeOK
  <2> QED
    BY <1>2, <2>1, <2>2 DEF RollbackCommit, RunTypeOK
<1> QED
  BY <1>1, <1>2

LEMMA ProceedType ==
    ASSUME RunTypeOK, NEW h \in Handler, Proceed(h)
    PROVE  RunTypeOK'
<1>1. CASE GiveUp(h) \/ AnswerUnusable(h) \/ GatewayRaise(h)
  BY <1>1, CloseType DEF GiveUp, AnswerUnusable, GatewayRaise, RunTypeOK, Outcome
<1>2. CASE \E action \in RequestedAction, s \in P!RunState : Deny(h, action, s)
  BY <1>2, CloseType DEF Deny, RunTypeOK, Outcome
<1>3. CASE GatewayExecute(h)
  <2>1. run[h].task \in Task \cup {None} /\ run[h].base \in Nat /\ run[h].tool \in Tool
    BY <1>3, RunFields DEF RunTypeOK, GatewayExecute
  <2>2. Closing(run[h].task, run[h].base, "allowed", run[h].tool) \in Run
    BY <2>1, ClosingType DEF Outcome
  <2> QED
    BY <1>3, <2>2 DEF GatewayExecute, RunTypeOK
<1>4. CASE Abort(h)
  BY <1>4, IdleType DEF Abort, RunTypeOK
<1> QED
  BY <1>1, <1>2, <1>3, <1>4, RetryType, DispatchType, CommitType, RollbackType
     DEF Proceed

LEMMA OwnerExecuteType ==
    ASSUME RunTypeOK, NEW h \in Handler, NEW a \in Agent,
           NEW t \in Task \cup {None}, NEW tool \in Tool, OwnerExecute(h, a, t, tool)
    PROVE  RunTypeOK'
<1>1. Closing(t, 0, "unanswered", tool) \in Run
  BY ClosingType DEF Outcome
<1> QED
  BY <1>1 DEF OwnerExecute, RunTypeOK

LEMMA NextRunType == L!TypeOK /\ RunTypeOK /\ [Next]_vars => RunTypeOK'
<1> SUFFICES ASSUME L!TypeOK, RunTypeOK, [Next]_vars
             PROVE  RunTypeOK'
  OBVIOUS
<1>1. CASE UNCHANGED runVars
  BY <1>1 DEF runVars, RunTypeOK
<1>2. CASE RunNext
  BY <1>2, CycleBeginType, OwnerExecuteType, RollbackType, ProceedType DEF RunNext
<1> QED
  BY <1>1, <1>2 DEF Next, vars, runVars

\* The rows and the local variables of every request have the values that the
\* columns and the code allow; a cycle asks at most MaxRetries times again.
THEOREM TypeCorrect == Spec => []TypeOK
<1>1. LifecycleInv => L!TypeOK
  BY DEF LifecycleInv
<1>2. Spec => []L!TypeOK
  BY <1>1, LifecycleKept, Invariance, PTL
<1>3. Init => RunTypeOK
  BY DEF Init, RunTypeOK, IsTable, EmptyTable, L!Idle, Run
<1>4. Spec => []RunTypeOK
  BY <1>2, <1>3, NextRunType, PTL DEF Spec
<1>5. L!TypeOK /\ RunTypeOK => TypeOK
  BY DEF TypeOK, RunTypeOK
<1> QED
  BY <1>2, <1>4, <1>5, PTL

-----------------------------------------------------------------------------
(* What a cycle is allowed to do *)

\* Whom the permission engine lets act in a cycle, the owner's role apart: an agent
\* that was active when it was loaded, in a system that runs normally (of the
\* actions a degraded one would still admit none is open to an agent), never one
\* of HR, never to request an approval, and to use a tool only a worker.
THEOREM CyclesActWithinTheirRole ==
    ASSUME NEW h \in Handler, NEW action \in RequestedAction, NEW s \in P!RunState,
           Authorized(h, action, s), RoleOf[run[h].agent] # "OWNER"
    PROVE  /\ run[h].seen = "ACTIVE"
           /\ s = "NORMAL"
           /\ RoleOf[run[h].agent] # "HR"
           /\ action # "request_approval"
           /\ action = "execute_tool"
                 => RoleOf[run[h].agent] \in {"WORKER", "TEMPORARY_SUB_AGENT"}
<1> DEFINE role == RoleOf[run[h].agent]
<1> DEFINE asked == [actor |-> run[h].agent, role |-> role, status |-> run[h].seen,
                     action |-> action, runState |-> s, dept |-> None,
                     targetDept |-> None, targetAgent |-> None, author |-> None]
<1>1. /\ s = "NORMAL" \/ (s = "DEGRADED" /\ action \notin P!Suspendable)
      /\ run[h].seen = "ACTIVE"
      /\ role \in P!PermittedRoles(action) \/ action = "assign_worker"
  <2>1. P!SystemOpen(asked) /\ P!InGoodStanding(asked) /\ P!RolePermits(asked)
    BY DEF Authorized, P!Authorize
  <2>2. /\ asked.role = role /\ asked.status = run[h].seen
        /\ asked.action = action /\ asked.runState = s
    OBVIOUS
  <2> HIDE DEF asked
  <2>3. s = "NORMAL" \/ (s = "DEGRADED" /\ action \notin P!Suspendable)
    BY <2>1, <2>2, Zenon DEF P!SystemOpen
  <2>4. run[h].seen = "ACTIVE"
    BY <2>1, <2>2, Zenon DEF P!InGoodStanding
  <2>5. role \in P!PermittedRoles(action) \/ action = "assign_worker"
    BY <2>1, <2>2, Zenon DEF P!RolePermits
  <2> QED
    BY <2>3, <2>4, <2>5
<1>2. role \in P!PermittedRoles(action)
  BY <1>1 DEF RequestedAction
<1>3. action # "request_approval"
  BY <1>2 DEF P!PermittedRoles
<1>4. action \in P!Suspendable
  BY <1>3 DEF RequestedAction, P!Suspendable
<1>5. CASE action = "execute_task"
  BY <1>1, <1>2, <1>4, <1>5 DEF P!PermittedRoles
<1>6. CASE action = "execute_tool"
  BY <1>1, <1>2, <1>4, <1>6 DEF P!PermittedRoles
<1> QED
  BY <1>3, <1>5, <1>6 DEF RequestedAction

\* The cycles that come to the gateway with a tool.
GatewayIsForWorkers ==
    \A h \in Handler :
        run[h].pc = "gateway"
            => RoleOf[run[h].agent] \in {"WORKER", "TEMPORARY_SUB_AGENT", "OWNER"}

\* The gateway asks for a caller's grants and not whether its role may use tools:
\* a cycle that gets there is a worker's or the owner's, whatever happens to the
\* agent and its grants in between.
THEOREM OnlyWorkersReachTheGateway == Spec => []GatewayIsForWorkers
<1>1. Init => GatewayIsForWorkers
  BY DEF Init, L!Idle, GatewayIsForWorkers
<1>2. ASSUME RunTypeOK, GatewayIsForWorkers, [Next]_vars
      PROVE  GatewayIsForWorkers'
  <2>1. CASE UNCHANGED run
    BY <1>2, <2>1 DEF GatewayIsForWorkers
  <2>2. ASSUME NEW h \in Handler, NEW action \in RequestedAction, NEW s \in P!RunState,
               NEW tool \in Tool \cup {None}, Dispatch(h, action, tool, s)
        PROVE  GatewayIsForWorkers'
    <3>1. CASE action = "execute_tool" /\ tool # None
      <4>1. run' = [run EXCEPT ![h] = [pc |-> "gateway", agent |-> @.agent,
                                       task |-> @.task, base |-> @.base, tool |-> tool]]
        BY <2>2, <3>1 DEF Dispatch
      <4>2. RoleOf[run[h].agent] \in {"WORKER", "TEMPORARY_SUB_AGENT", "OWNER"}
        BY <2>2, <3>1, CyclesActWithinTheirRole DEF Dispatch
      <4> QED
        BY <1>2, <4>1, <4>2 DEF RunTypeOK, GatewayIsForWorkers
    <3>2. CASE ~(action = "execute_tool" /\ tool # None)
      BY <1>2, <2>2, <3>2 DEF Dispatch, Close, Closing, RunTypeOK, GatewayIsForWorkers
    <3> QED
      BY <3>1, <3>2
  <2>3. ASSUME NEW h \in Handler,
               \A k \in Handler \ {h} : run'[k] = run[k],
               run'[h].pc # "gateway"
        PROVE  GatewayIsForWorkers'
    BY <1>2, <2>3 DEF GatewayIsForWorkers
  <2>4. CASE RunNext
    <3>1. PICK h \in Handler :
            \/ \E a \in Agent, t \in Task \cup {None} : CycleBegin(h, a, t)
            \/ \E a \in Agent, t \in Task \cup {None}, tool \in Tool : OwnerExecute(h, a, t, tool)
            \/ \E x \in Artifact : RollbackBegin(h, x)
            \/ Proceed(h)
      BY <2>4 DEF RunNext
    <3>2. CASE \E action \in RequestedAction, s \in P!RunState, tool \in Tool \cup {None} :
                  Dispatch(h, action, tool, s)
      BY <2>2, <3>2
    <3>3. CASE ~\E action \in RequestedAction, s \in P!RunState, tool \in Tool \cup {None} :
                  Dispatch(h, action, tool, s)
      <4>1. /\ \A k \in Handler \ {h} : run'[k] = run[k]
            /\ run'[h].pc # "gateway"
        <5>1. CASE Retry(h)
          <6>1. run'[h].pc = run[h].pc
            BY <1>2, <5>1 DEF RunTypeOK, Retry, Run
          <6> QED
            BY <1>2, <5>1, <6>1 DEF RunTypeOK, Retry
        <5>2. CASE \/ GiveUp(h) \/ AnswerUnusable(h) \/ GatewayExecute(h) \/ GatewayRaise(h)
                   \/ \E action \in RequestedAction, s \in P!RunState : Deny(h, action, s)
          BY <1>2, <5>2
             DEF RunTypeOK, GiveUp, AnswerUnusable, Deny, GatewayExecute, GatewayRaise, Close,
                 Closing
        <5>3. CASE Commit(h) \/ RollbackCommit(h) \/ Abort(h)
          BY <1>2, <5>3 DEF RunTypeOK, Commit, RollbackCommit, Abort, L!Idle
        <5>4. CASE ~Proceed(h)
          BY <1>2, <3>1, <5>4
             DEF RunTypeOK, CycleBegin, OwnerExecute, RollbackBegin, Closing
        <5> QED
          BY <3>3, <5>1, <5>2, <5>3, <5>4 DEF Proceed
      <4> QED
        BY <4>1, <2>3
    <3> QED
      BY <3>2, <3>3
  <2> QED
    BY <1>2, <2>1, <2>4 DEF Next, vars, runVars
<1>3. TypeOK => RunTypeOK
  BY DEF TypeOK, RunTypeOK
<1> QED
  BY <1>1, <1>2, <1>3, TypeCorrect, PTL DEF Spec

-----------------------------------------------------------------------------
(* The histories *)

\* The histories watch: they keep nothing from happening.
LEMMA HistoryKept == HistorySpec => Spec /\ [](LifecycleInv /\ RunTypeOK)
<1>1. HistoryInit => Init
  BY DEF HistoryInit
<1>2. [HistoryNext]_historyVars => [Next]_vars
  BY DEF HistoryNext, historyVars
<1>3. HistorySpec => Spec
  BY <1>1, <1>2, PTL DEF HistorySpec, Spec
<1>4. TypeOK => RunTypeOK
  BY DEF TypeOK, RunTypeOK
<1> QED
  BY <1>3, <1>4, TypeCorrect, LifecycleKept, Invariance, PTL

-----------------------------------------------------------------------------
(* What escapes a suspension *)

\* A grant that is being issued to an agent whose end is under way, or has come,
\* has met it.
Noticed ==
    \A h \in Handler :
        /\ req[h].pc = "granting"
        /\ Ending(h) \/ agents[req[h].agent].status # "ACTIVE"
        => h \in met

\* A bulk UPDATE has found, and then locked, every grant in force of its agent
\* but the late ones.
Swept ==
    \A h \in Handler :
        /\ req[h].pc = "sweeping" =>
              \A g \in L!GrantsOf(req[h].agent) : L!Live(g) => g \in req[h].todo \cup late
        /\ req[h].pc = "swept" =>
              \A g \in L!GrantsOf(req[h].agent) : L!Live(g) => g \in req[h].got \cup late

EscapeInv == Noticed /\ Swept /\ OnlyRacesEscape

\* An agent stops being active only when a suspension or termination commits.
LEMMA StatusStep ==
    ASSUME LifecycleInv, [L!Next]_(L!vars), NEW a \in DOMAIN agents',
           agents'[a].status # "ACTIVE"
    PROVE  /\ a \in DOMAIN agents
           /\ \/ agents[a].status # "ACTIVE"
              \/ \E h \in Handler : /\ L!SuspendCommit(h) \/ L!TerminateCommit(h)
                                    /\ req[h].agent = a
<1>1. CASE agents' = agents
  BY <1>1
<1>2. ASSUME NEW b \in Agent, L!CreateAgent(b)
      PROVE  a \in DOMAIN agents /\ agents[a].status # "ACTIVE"
  BY <1>2 DEF L!CreateAgent, L!Inserted
<1>3. ASSUME NEW h \in Handler, L!SuspendCommit(h) \/ L!TerminateCommit(h)
      PROVE  a \in DOMAIN agents /\ (req[h].agent # a => agents[a].status # "ACTIVE")
  BY <1>3 DEF L!SuspendCommit, L!TerminateCommit, LifecycleInv, L!TypeOK, L!IsTable
<1>4. ASSUME NEW h \in Handler, L!RestoreCommit(h)
      PROVE  a \in DOMAIN agents /\ agents[a].status # "ACTIVE"
  BY <1>4 DEF L!RestoreCommit, L!Written, LifecycleInv, L!TypeOK, L!IsTable, L!AgentRow
<1>5. \/ agents' = agents
      \/ \E b \in Agent : L!CreateAgent(b)
      \/ \E h \in Handler : L!SuspendCommit(h) \/ L!TerminateCommit(h) \/ L!RestoreCommit(h)
  BY DEF L!Next, L!vars, L!EndBegin, L!SweepBegin, L!Sweep, L!RestoreBegin, L!IssueBegin,
         L!IssueCommit, L!RevokeBegin, L!RevokeLock, L!RevokeDeny, L!RevokeCommit, L!Abort
<1> QED
  BY <1>1, <1>2, <1>3, <1>4, <1>5

\* A grant stays its agent's, and once revoked it stays revoked; a new one comes
\* from a request that ends with it.
LEMMA GrantStep ==
    ASSUME LifecycleInv, [L!Next]_(L!vars), NEW g \in DOMAIN grants'
    PROVE  \/ /\ g \in DOMAIN grants
              /\ grants'[g].agent = grants[g].agent
              /\ L!Live(g)' => L!Live(g)
           \/ /\ g \notin DOMAIN grants
              /\ agents' = agents
              /\ \E h \in Handler : /\ req[h].pc = "granting"
                                    /\ req'[h].pc = "idle"
                                    /\ grants'[g].agent = req[h].agent
<1>1. CASE grants' = grants
  BY <1>1 DEF L!Live
<1>2. ASSUME NEW h \in Handler, L!IssueCommit(h)
      PROVE  \/ g \in DOMAIN grants /\ grants'[g] = grants[g]
             \/ /\ g \notin DOMAIN grants
                /\ agents' = agents
                /\ req[h].pc = "granting"
                /\ req'[h].pc = "idle"
                /\ grants'[g].agent = req[h].agent
  BY <1>2, IdleRequest
     DEF L!IssueCommit, L!Inserted, L!EndRequest, LifecycleInv, L!TypeOK
<1>3. ASSUME NEW h \in Handler,
             L!SuspendCommit(h) \/ L!TerminateCommit(h) \/ L!RevokeCommit(h)
      PROVE  /\ g \in DOMAIN grants
             /\ grants'[g].agent = grants[g].agent
             /\ L!Live(g)' => L!Live(g)
  <2>1. \E S : \E why \in L!Reason : grants' = L!RevokedFor(S, why)
    BY <1>3 DEF L!SuspendCommit, L!TerminateCommit, L!RevokeCommit, L!Reason
  <2> PICK S : \E why \in L!Reason : grants' = L!RevokedFor(S, why)
    BY <2>1
  <2>2. PICK why \in L!Reason : grants' = L!RevokedFor(S, why)
    OBVIOUS
  <2>3. g \in DOMAIN grants /\ grants'[g].agent = grants[g].agent
    BY <2>2, RevokedForFact DEF LifecycleInv
  <2>4. L!Live(g)' => g \notin S
    BY <2>2, <2>3
       DEF L!RevokedFor, L!Live, L!Reason, LifecycleInv, L!TypeOK, L!IsTable, L!GrantRow
  <2>5. L!Live(g)' => L!Live(g)
    BY <2>2, <2>3, <2>4, RevokedForFact DEF LifecycleInv, L!Live
  <2> QED
    BY <2>3, <2>5
<1>4. \/ grants' = grants
      \/ \E h \in Handler : \/ L!IssueCommit(h)
                            \/ L!SuspendCommit(h) \/ L!TerminateCommit(h) \/ L!RevokeCommit(h)
  BY DEF L!Next, L!vars, L!CreateAgent, L!EndBegin, L!SweepBegin, L!Sweep, L!RestoreBegin,
         L!RestoreCommit, L!IssueBegin, L!RevokeBegin, L!RevokeLock, L!RevokeDeny, L!Abort
<1>5. ASSUME g \in DOMAIN grants, grants'[g] = grants[g]
      PROVE  grants'[g].agent = grants[g].agent /\ (L!Live(g)' => L!Live(g))
  BY <1>5 DEF L!Live
<1> QED
  BY <1>1, <1>2, <1>3, <1>4, <1>5

\* A request gets to where grants or ends are at stake only by these steps.
LEMMA RequestStep ==
    ASSUME LifecycleInv, [L!Next]_(L!vars), NEW h \in Handler, req'[h] # req[h],
           req'[h].pc \in {"granting", "sweeping", "swept"}
    PROVE  /\ agents' = agents
           /\ grants' = grants
           /\ \/ req'[h].pc = "granting" /\ \E a \in Agent : L!IssueBegin(h, a)
              \/ req'[h].pc = "sweeping" /\ L!SweepBegin(h)
              \/ req'[h].pc = "swept" /\ L!Sweep(h)
<1> DEFINE Goal == /\ agents' = agents
                   /\ grants' = grants
                   /\ \/ req'[h].pc = "granting" /\ \E a \in Agent : L!IssueBegin(h, a)
                      \/ req'[h].pc = "sweeping" /\ L!SweepBegin(h)
                      \/ req'[h].pc = "swept" /\ L!Sweep(h)
<1>1. CASE req' = req
  BY <1>1
<1>2. ASSUME NEW k \in Handler, L!EndRequest(k)
      PROVE  FALSE
  BY <1>2, IdleRequest DEF L!EndRequest, LifecycleInv, L!TypeOK
<1>3. ASSUME NEW k \in Handler,
             \/ \E op \in {"suspend", "terminate"}, a \in Agent : L!EndBegin(k, op, a)
             \/ \E a \in Agent : L!RestoreBegin(k, a)
             \/ \E g \in Grant : L!RevokeBegin(k, g)
             \/ L!RevokeLock(k)
      PROVE  FALSE
  <2> DEFINE Elsewhere == \E r : /\ r.pc \in {"ending", "restoring", "revoke", "revoking"}
                                 /\ req' = [req EXCEPT ![k] = r]
  <2>1. Elsewhere
    <3>1. CASE L!RevokeLock(k)
      <4>1. req[k].pc = "revoke"
        BY <3>1 DEF L!RevokeLock
      <4>2. [req[k] EXCEPT !.pc = "revoking"].pc = "revoking"
        BY <4>1, RequestFields DEF LifecycleInv, L!TypeOK
      <4>3. req' = [req EXCEPT ![k] = [req[k] EXCEPT !.pc = "revoking"]]
        BY <3>1 DEF L!RevokeLock, LifecycleInv, L!TypeOK
      <4> QED
        BY <4>2, <4>3
    <3>2. ASSUME NEW op \in {"suspend", "terminate"}, NEW a \in Agent, L!EndBegin(k, op, a)
          PROVE  Elsewhere
      <4> DEFINE r == [pc |-> "ending", op |-> op, agent |-> a, seen |-> agents[a].status]
      <4> WITNESS r
      <4> QED
        BY <3>2 DEF L!EndBegin
    <3>3. ASSUME NEW a \in Agent, L!RestoreBegin(k, a)
          PROVE  Elsewhere
      BY <3>3 DEF L!RestoreBegin
    <3>4. ASSUME NEW g \in Grant, L!RevokeBegin(k, g)
          PROVE  Elsewhere
      BY <3>4 DEF L!RevokeBegin
    <3> QED
      BY <1>3, <3>1, <3>2, <3>3, <3>4
  <2> QED
    BY <2>1 DEF LifecycleInv, L!TypeOK
<1>4. ASSUME NEW k \in Handler, NEW a \in Agent, L!IssueBegin(k, a)
      PROVE  Goal
  <2>1. k = h /\ req'[h].pc = "granting" /\ UNCHANGED <<agents, grants>>
    BY <1>4 DEF L!IssueBegin, LifecycleInv, L!TypeOK
  <2> QED
    BY <1>4, <2>1
<1>5. ASSUME NEW k \in Handler, L!SweepBegin(k)
      PROVE  Goal
  BY <1>5 DEF L!SweepBegin, LifecycleInv, L!TypeOK
<1>6. ASSUME NEW k \in Handler, L!Sweep(k)
      PROVE  Goal
  BY <1>6 DEF L!Sweep, LifecycleInv, L!TypeOK
<1> QED
  BY <1>1, <1>2, <1>3, <1>4, <1>5, <1>6
     DEF L!Next, L!vars, L!CreateAgent, L!SuspendCommit, L!TerminateCommit, L!RestoreCommit,
         L!IssueCommit, L!RevokeDeny, L!RevokeCommit, L!Abort

\* What the histories record of a step.
HistoryStep ==
    /\ met' = {h \in Handler : req'[h].pc = "granting" /\ (h \in met \/ Ending(h)')}
    /\ late' = late \cup {g \in DOMAIN grants' \ DOMAIN grants :
                             \E h \in met : req'[h].pc = "idle"}

\* A grant that is inserted while its agent's end is under way, or after it, is late.
LEMMA LateGrant ==
    ASSUME Noticed, HistoryStep, NEW g \in DOMAIN grants' \ DOMAIN grants,
           NEW h \in Handler, req[h].pc = "granting", req'[h].pc = "idle",
           Ending(h) \/ agents[req[h].agent].status # "ACTIVE"
    PROVE  g \in late'
BY DEF Noticed, HistoryStep

LEMMA NoticedStep ==
    ASSUME LifecycleInv, EscapeInv, [L!Next]_(L!vars), HistoryStep
    PROVE  Noticed'
<1> SUFFICES ASSUME NEW h \in Handler, req'[h].pc = "granting",
                    Ending(h)' \/ agents'[req'[h].agent].status # "ACTIVE"
             PROVE  h \in met'
  BY DEF Noticed
<1>1. CASE Ending(h)'
  BY <1>1 DEF HistoryStep
<1>2. CASE agents'[req'[h].agent].status # "ACTIVE"
  <2>1. CASE req'[h] # req[h]
    <3>1. agents' = agents /\ \E a \in Agent : L!IssueBegin(h, a)
      BY <2>1, RequestStep
    <3> QED
      BY <1>2, <3>1 DEF L!IssueBegin, LifecycleInv, L!TypeOK
  <2>2. CASE req'[h] = req[h]
    <3> DEFINE a == req[h].agent
    <3>1. a \in DOMAIN agents
      BY <2>2 DEF LifecycleInv, References
    <3>2. a \in DOMAIN agents'
      <4>1. LifecycleInv'
        BY NextInv
      <4> QED
        BY <2>2, <4>1 DEF LifecycleInv, References
    <3>3. \/ agents[a].status # "ACTIVE"
          \/ \E k \in Handler : /\ L!SuspendCommit(k) \/ L!TerminateCommit(k)
                                /\ req[k].agent = a
      BY <1>2, <2>2, <3>2, StatusStep
    <3>4. agents[a].status # "ACTIVE" \/ Ending(h)
      BY <3>3 DEF Ending, L!SuspendCommit, L!TerminateCommit
    <3>5. h \in met
      BY <2>2, <3>4 DEF EscapeInv, Noticed
    <3> QED
      BY <3>5 DEF HistoryStep
  <2> QED
    BY <2>1, <2>2
<1> QED
  BY <1>1, <1>2

LEMMA SweptStep ==
    ASSUME LifecycleInv, EscapeInv, [L!Next]_(L!vars), HistoryStep
    PROVE  Swept'
<1>1. ASSUME NEW h \in Handler, req'[h].pc \in {"sweeping", "swept"},
             NEW g \in DOMAIN grants', grants'[g].agent = req'[h].agent, L!Live(g)'
      PROVE  /\ req'[h].pc = "sweeping" => g \in req'[h].todo \cup late'
             /\ req'[h].pc = "swept" => g \in req'[h].got \cup late'
  <2>1. CASE req'[h] = req[h]
    <3>1. CASE g \in DOMAIN grants
      <4>1. g \in L!GrantsOf(req[h].agent) /\ L!Live(g)
        BY <1>1, <2>1, <3>1, GrantStep DEF L!GrantsOf
      <4> QED
        BY <1>1, <2>1, <4>1 DEF EscapeInv, Swept, HistoryStep
    <3>2. CASE g \notin DOMAIN grants
      <4>1. PICK k \in Handler : /\ req[k].pc = "granting"
                                 /\ req'[k].pc = "idle"
                                 /\ grants'[g].agent = req[k].agent
        BY <3>2, <1>1, GrantStep
      <4>2. Ending(k)
        BY <1>1, <2>1, <4>1 DEF Ending
      <4>3. g \in late'
        BY <1>1, <3>2, <4>1, <4>2, LateGrant DEF EscapeInv
      <4> QED
        BY <4>3
    <3> QED
      BY <3>1, <3>2
  <2>2. CASE req'[h] # req[h]
    <3>1. /\ grants' = grants
          /\ \/ req'[h].pc = "sweeping" /\ L!SweepBegin(h)
             \/ req'[h].pc = "swept" /\ L!Sweep(h)
      BY <1>1, <2>2, RequestStep
    <3>2. L!Live(g)
      BY <1>1, <3>1 DEF L!Live
    <3>3. CASE req'[h].pc = "sweeping" /\ L!SweepBegin(h)
      <4>1. /\ req'[h].agent = req[h].agent
            /\ req'[h].todo = {x \in L!GrantsOf(req[h].agent) : L!Live(x)}
        BY <3>3 DEF L!SweepBegin, LifecycleInv, L!TypeOK
      <4> QED
        BY <1>1, <3>1, <3>2, <3>3, <4>1 DEF L!GrantsOf
    <3>4. CASE req'[h].pc = "swept" /\ L!Sweep(h)
      <4>1. /\ req[h].pc = "sweeping"
            /\ req'[h].agent = req[h].agent
            /\ req'[h].got = {x \in req[h].todo : L!Live(x)}
        BY <3>4 DEF L!Sweep, LifecycleInv, L!TypeOK
      <4>2. g \in req[h].todo \cup late
        BY <1>1, <3>1, <3>2, <4>1 DEF EscapeInv, Swept, L!GrantsOf
      <4> QED
        BY <3>2, <3>4, <4>1, <4>2 DEF HistoryStep
    <3> QED
      BY <3>1, <3>3, <3>4
  <2> QED
    BY <2>1, <2>2
<1> QED
  BY <1>1 DEF Swept, L!GrantsOf

LEMMA EscapeStep ==
    ASSUME LifecycleInv, EscapeInv, [L!Next]_(L!vars), HistoryStep
    PROVE  OnlyRacesEscape'
<1> SUFFICES ASSUME NEW a \in DOMAIN agents', agents'[a].status # "ACTIVE",
                    NEW g \in DOMAIN grants', grants'[g].agent = a, L!Live(g)'
             PROVE  g \in late'
  BY DEF OnlyRacesEscape, L!GrantsOf
<1>2. CASE g \notin DOMAIN grants
  <2>1. PICK h \in Handler : /\ req[h].pc = "granting"
                             /\ req'[h].pc = "idle"
                             /\ req[h].agent = a
                             /\ agents' = agents
    BY <1>2, GrantStep
  <2> QED
    BY <1>2, <2>1, LateGrant DEF EscapeInv
<1>3. CASE g \in DOMAIN grants
  <2>1. g \in L!GrantsOf(a) /\ L!Live(g)
    BY <1>3, GrantStep DEF L!GrantsOf
  <2>2. CASE agents[a].status # "ACTIVE" /\ a \in DOMAIN agents
    BY <2>1, <2>2 DEF EscapeInv, OnlyRacesEscape, HistoryStep
  <2>3. ASSUME NEW h \in Handler, L!SuspendCommit(h) \/ L!TerminateCommit(h), req[h].agent = a
        PROVE  g \in late'
    <3>1. req[h].pc = "swept" /\ g \in req[h].got \cup late
      BY <2>1, <2>3 DEF EscapeInv, Swept, L!SuspendCommit, L!TerminateCommit
    <3>2. g \notin req[h].got
      BY <1>3, <2>3 DEF L!SuspendCommit, L!TerminateCommit, L!RevokedFor, L!Live,
                        LifecycleInv, L!TypeOK, L!IsTable, L!GrantRow
    <3> QED
      BY <3>1, <3>2 DEF HistoryStep
  <2> QED
    BY <2>2, <2>3, StatusStep
<1> QED
  BY <1>2, <1>3

LEMMA EscapeInvariance == HistorySpec => []EscapeInv
<1>1. HistoryInit => EscapeInv
  BY IdleRequest
     DEF HistoryInit, Init, L!Init, EscapeInv, Noticed, Swept, OnlyRacesEscape, L!EmptyTable
<1>2. ASSUME LifecycleInv, EscapeInv, [HistoryNext]_historyVars
      PROVE  EscapeInv'
  <2>1. CASE HistoryNext
    <3>1. HistoryStep
      BY <2>1 DEF HistoryNext, HistoryStep
    <3>2. [L!Next]_(L!vars)
      BY <2>1, StepKeepsLifecycle DEF HistoryNext
    <3> QED
      BY <1>2, <3>1, <3>2, NoticedStep, SweptStep, EscapeStep DEF EscapeInv
  <2>2. CASE UNCHANGED historyVars
    BY <1>2, <2>2
       DEF historyVars, vars, EscapeInv, Noticed, Swept, OnlyRacesEscape, Ending, L!GrantsOf, L!Live
  <2> QED
    BY <1>2, <2>1, <2>2
<1>3. LifecycleInv /\ EscapeInv /\ [HistoryNext]_historyVars => EscapeInv'
  BY <1>2
<1> QED
  BY <1>1, <1>3, HistoryKept, PTL DEF HistorySpec

\* A suspended or terminated agent has no grant in force but those whose issuing
\* was under way when it was ended, for any number of grants and requests.
THEOREM OnlyRacingGrantsEscape == HistorySpec => []OnlyRacesEscape
<1>1. EscapeInv => OnlyRacesEscape
  BY DEF EscapeInv
<1> QED
  BY <1>1, EscapeInvariance, PTL

-----------------------------------------------------------------------------
(* Cycles and rollbacks that are alone with their task or artifact *)

\* A step of RunNext is one request's; the others stay where they are.
LEMMA RunStep ==
    ASSUME RunTypeOK, RunNext
    PROVE  \E h \in Handler :
              /\ \A k \in Handler \ {h} : run'[k] = run[k]
              /\ \/ \E a \in Agent, t \in Task \cup {None} : CycleBegin(h, a, t)
                 \/ \E a \in Agent, t \in Task \cup {None}, tool \in Tool :
                       OwnerExecute(h, a, t, tool)
                 \/ \E x \in Artifact : RollbackBegin(h, x)
                 \/ Proceed(h)
<1> PICK h \in Handler :
        \/ \E a \in Agent, t \in Task \cup {None} : CycleBegin(h, a, t)
        \/ \E a \in Agent, t \in Task \cup {None}, tool \in Tool : OwnerExecute(h, a, t, tool)
        \/ \E x \in Artifact : RollbackBegin(h, x)
        \/ Proceed(h)
  BY DEF RunNext
<1>1. \E r : run' = [run EXCEPT ![h] = r]
  <2>1. CASE Proceed(h)
    BY <2>1 DEF Proceed, Retry, GiveUp, AnswerUnusable, Deny, Dispatch, GatewayExecute,
                GatewayRaise, Commit, RollbackCommit, Abort, Close
  <2> QED
    BY <2>1 DEF CycleBegin, OwnerExecute, RollbackBegin
<1> QED
  BY <1>1 DEF RunTypeOK

\* No tool runs in a cycle whose agent has been ended meanwhile, except under a
\* grant that was being issued then.
THEOREM SuspensionReachesCycles == HistorySpec => SuspensionStopsTools
<1>1. ASSUME LifecycleInv, RunTypeOK, EscapeInv, [Next]_vars, NEW h \in Handler,
             run[h].pc = "gateway", run'[h].pc = "closing", run'[h].tool # None,
             RoleOf[run[h].agent] # "OWNER"
      PROVE  \/ agents[run[h].agent].status = "ACTIVE"
             \/ \E g \in late : L!Live(g) /\ grants[g].agent = run[h].agent
  <2>1. GatewayExecute(h)
    <3>1. run'[h] # run[h]
      BY <1>1
    <3>2. RunNext
      BY <1>1, <3>1 DEF Next, vars, runVars
    <3>3. \/ \E a \in Agent, t \in Task \cup {None} : CycleBegin(h, a, t)
          \/ \E a \in Agent, t \in Task \cup {None}, tool \in Tool : OwnerExecute(h, a, t, tool)
          \/ \E x \in Artifact : RollbackBegin(h, x)
          \/ Proceed(h)
      BY <1>1, <3>1, <3>2, RunStep
    <3>4. GatewayExecute(h) \/ GatewayRaise(h) \/ Abort(h)
      BY <1>1, <3>3
         DEF Free, CycleBegin, OwnerExecute, RollbackBegin, Proceed, Retry, GiveUp,
             AnswerUnusable, Deny, Dispatch, Commit, RollbackCommit
    <3>5. ~GatewayRaise(h)
      BY <1>1 DEF GatewayRaise, Close, Closing, RunTypeOK
    <3>6. ~Abort(h)
      BY <1>1 DEF Abort, L!Idle, RunTypeOK
    <3> QED
      BY <3>4, <3>5, <3>6
  <2>2. PICK g \in L!GrantsOf(run[h].agent) : L!Live(g)
    BY <1>1, <2>1 DEF GatewayExecute, Granted
  <2>3. grants[g].agent = run[h].agent /\ run[h].agent \in DOMAIN agents
    BY <1>1, <2>2 DEF L!GrantsOf, LifecycleInv, L!TypeOK
  <2> QED
    BY <1>1, <2>2, <2>3 DEF EscapeInv, OnlyRacesEscape
<1>2. LifecycleInv /\ RunTypeOK /\ EscapeInv /\ [Next]_vars =>
        [\A h \in Handler :
           /\ run[h].pc = "gateway"
           /\ run'[h].pc = "closing"
           /\ run'[h].tool # None
           /\ RoleOf[run[h].agent] # "OWNER"
           => \/ agents[run[h].agent].status = "ACTIVE"
              \/ \E g \in late : L!Live(g) /\ grants[g].agent = run[h].agent]_vars
  BY <1>1
<1> QED
  BY <1>2, HistoryKept, EscapeInvariance, PTL DEF Spec, SuspensionStopsTools

\* Cycles of a task, and rollbacks of an artifact, that are in flight together
\* are known to be.
Together ==
    \A h \in Handler, k \in Handler : h # k /\ Meet(h, k) => h \in crowded

\* What a cycle that is alone with its task loaded is still what the task has cost.
Loaded ==
    \A h \in Handler \ crowded, t \in Task : WorksOn(h, t) => run[h].base = spent[t]

Reverting == \A h \in Handler : run[h].pc = "reverting" => run[h].artifact \in DOMAIN artifacts

AloneInv == Together /\ Loaded /\ Reverting /\ RevertedOnce

CrowdedStep ==
    crowded' = {h \in Handler :
                   /\ run'[h].pc # "idle"
                   /\ h \in crowded \/ \E k \in Handler \ {h} : Meet(h, k)'}

LEMMA TogetherStep ==
    ASSUME CrowdedStep
    PROVE  Together'
<1> SUFFICES ASSUME NEW h \in Handler, NEW k \in Handler, h # k, Meet(h, k)'
             PROVE  h \in crowded'
  BY DEF Together
<1>1. run'[h].pc # "idle"
  BY DEF Meet, WorksOn
<1> QED
  BY <1>1 DEF CrowdedStep

\* A request that changes, and then works on a task, has just loaded it or keeps
\* what it loaded; no spending changes with that.
LEMMA WorkStep ==
    ASSUME RunTypeOK, NEW h \in Handler, NEW t \in Task, WorksOn(h, t)',
           \/ \E a \in Agent, u \in Task \cup {None} : CycleBegin(h, a, u)
           \/ \E a \in Agent, u \in Task \cup {None}, tool \in Tool : OwnerExecute(h, a, u, tool)
           \/ \E x \in Artifact : RollbackBegin(h, x)
           \/ Proceed(h)
    PROVE  /\ spent' = spent
           /\ \/ run'[h].base = spent[t]
              \/ WorksOn(h, t) /\ run'[h].base = run[h].base
<1>1. ASSUME NEW a \in Agent, NEW u \in Task \cup {None}, CycleBegin(h, a, u)
      PROVE  spent' = spent /\ run'[h].base = spent[t]
  <2>1. u = t /\ run'[h].base = SpentOn(u) /\ spent' = spent
    BY <1>1 DEF CycleBegin, RunTypeOK, WorksOn
  <2> QED
    BY <2>1, RuntimeAssumption DEF SpentOn
<1>2. ASSUME NEW a \in Agent, NEW u \in Task \cup {None}, NEW tool \in Tool,
             OwnerExecute(h, a, u, tool)
      PROVE  FALSE
  BY <1>2 DEF OwnerExecute, Closing, RunTypeOK, WorksOn
<1>3. ASSUME NEW x \in Artifact, RollbackBegin(h, x)
      PROVE  FALSE
  BY <1>3 DEF RollbackBegin, RunTypeOK, WorksOn
<1>4. CASE Commit(h) \/ RollbackCommit(h) \/ Abort(h)
  BY <1>4 DEF Commit, RollbackCommit, Abort, L!Idle, RunTypeOK, WorksOn
<1>5. ASSUME NEW outcome, Close(h, outcome), run[h].pc \in {"asking", "gateway"}
      PROVE  WorksOn(h, t) /\ run'[h].base = run[h].base
  BY <1>5 DEF Close, Closing, RunTypeOK, WorksOn
<1>6. CASE Retry(h)
  <2>1. run[h] \in [pc: {"asking"}, agent: Agent, task: Task \cup {None}, seen: L!Status,
                   base: Nat, attempt: 0 .. MaxRetries]
    BY <1>6, RunFields DEF RunTypeOK, Retry
  <2>2. run'[h] = [run[h] EXCEPT !.attempt = run[h].attempt + 1] /\ spent' = spent
    BY <1>6 DEF Retry, RunTypeOK
  <2> QED
    BY <2>1, <2>2 DEF WorksOn
<1>7. ASSUME NEW action, NEW s, NEW tool, Dispatch(h, action, tool, s)
      PROVE  spent' = spent /\ WorksOn(h, t) /\ run'[h].base = run[h].base
  <2>1. CASE Close(h, "allowed")
    BY <1>5, <1>7, <2>1 DEF Dispatch
  <2>2. CASE ~Close(h, "allowed")
    BY <1>7, <2>2 DEF Dispatch, RunTypeOK, WorksOn
  <2> QED
    BY <2>1, <2>2
<1>8. CASE GatewayExecute(h)
  BY <1>8 DEF GatewayExecute, Closing, RunTypeOK, WorksOn
<1>9. CASE \/ GiveUp(h) \/ AnswerUnusable(h) \/ GatewayRaise(h)
           \/ \E action \in RequestedAction, s \in P!RunState : Deny(h, action, s)
  BY <1>5, <1>9 DEF GiveUp, AnswerUnusable, GatewayRaise, Deny
<1> QED
  BY <1>1, <1>2, <1>3, <1>4, <1>6, <1>7, <1>8, <1>9 DEF Proceed

\* The spending of a task changes, and an artifact, only when a request that works
\* on it commits.
LEMMA CommitChanges ==
    ASSUME RunTypeOK, NEW h \in Handler,
           \/ \E a \in Agent, t \in Task \cup {None} : CycleBegin(h, a, t)
           \/ \E a \in Agent, t \in Task \cup {None}, tool \in Tool : OwnerExecute(h, a, t, tool)
           \/ \E x \in Artifact : RollbackBegin(h, x)
           \/ Proceed(h)
    PROVE  /\ \A t \in Task : spent'[t] # spent[t] => WorksOn(h, t) /\ run'[h] = L!Idle
           /\ \A x \in DOMAIN artifacts :
                 /\ x \in DOMAIN artifacts'
                 /\ artifacts'[x] # artifacts[x] => /\ run[h].pc = "reverting"
                                                    /\ run[h].artifact = x
                                                    /\ run'[h] = L!Idle
<1>1. CASE Commit(h)
  <2>1. \A t \in Task : spent'[t] # spent[t] => WorksOn(h, t)
    BY <1>1 DEF Commit, CostOf, WorksOn, RunTypeOK
  <2>2. \A x \in DOMAIN artifacts : x \in DOMAIN artifacts' /\ artifacts'[x] = artifacts[x]
    BY <1>1 DEF Commit, Inserted
  <2>3. run'[h] = L!Idle
    BY <1>1 DEF Commit, RunTypeOK
  <2> QED
    BY <2>1, <2>2, <2>3
<1>2. CASE RollbackCommit(h)
  BY <1>2 DEF RollbackCommit, RunTypeOK, IsTable
<1>3. CASE ~Commit(h) /\ ~RollbackCommit(h)
  BY <1>3 DEF CycleBegin, OwnerExecute, RollbackBegin, Proceed, Retry, GiveUp, AnswerUnusable,
              Deny, Dispatch, GatewayExecute, GatewayRaise, Abort
<1> QED
  BY <1>1, <1>2, <1>3

LEMMA AloneStep ==
    ASSUME RunTypeOK, AloneInv, CrowdedStep, RunNext
    PROVE  AloneInv'
<1> PICK h \in Handler :
       /\ \A k \in Handler \ {h} : run'[k] = run[k]
       /\ \/ \E a \in Agent, t \in Task \cup {None} : CycleBegin(h, a, t)
          \/ \E a \in Agent, t \in Task \cup {None}, tool \in Tool : OwnerExecute(h, a, t, tool)
          \/ \E x \in Artifact : RollbackBegin(h, x)
          \/ Proceed(h)
  BY RunStep
<1>1. ASSUME NEW k \in Handler \ crowded', run'[k].pc # "idle"
      PROVE  k \notin crowded
  BY <1>1 DEF CrowdedStep
<1>2. Loaded'
  <2> SUFFICES ASSUME NEW k \in Handler \ crowded', NEW t \in Task, WorksOn(k, t)'
               PROVE  run'[k].base = spent'[t]
    BY DEF Loaded
  <2>1. k \in Handler \ crowded
    BY <1>1 DEF WorksOn
  <2>2. CASE k = h
    BY <2>1, <2>2, WorkStep DEF AloneInv, Loaded
  <2>3. CASE k # h
    <3>1. run'[k] = run[k] /\ WorksOn(k, t)
      BY <2>3 DEF WorksOn
    <3>2. ~WorksOn(h, t)
      BY <2>1, <2>3, <3>1 DEF AloneInv, Together, Meet
    <3>3. spent'[t] = spent[t]
      BY <3>2, CommitChanges
    <3> QED
      BY <2>1, <3>1, <3>3 DEF AloneInv, Loaded
  <2> QED
    BY <2>2, <2>3
<1>3. ASSUME NEW k \in Handler, run'[k].pc = "reverting"
      PROVE  \/ run'[k] = run[k]
             \/ \E x \in Artifact : RollbackBegin(k, x) /\ run'[k].artifact = x
  <2>1. CASE k # h
    BY <2>1
  <2>2. CASE k = h
    <3>1. ASSUME NEW x \in Artifact, RollbackBegin(h, x)
          PROVE  run'[h].artifact = x
      BY <3>1 DEF RollbackBegin, RunTypeOK
    <3>2. ASSUME NEW a \in Agent, NEW t \in Task \cup {None},
                 CycleBegin(h, a, t) \/ \E tool \in Tool : OwnerExecute(h, a, t, tool)
          PROVE  run'[h].pc # "reverting"
      BY <3>2 DEF CycleBegin, OwnerExecute, Closing, RunTypeOK
    <3>3. ASSUME NEW outcome, Close(h, outcome)
          PROVE  run'[h].pc # "reverting"
      BY <3>3 DEF Close, Closing, RunTypeOK
    <3>4. CASE Retry(h)
      BY <1>3, <2>2, <3>4, RunFields DEF Retry, RunTypeOK
    <3>5. ASSUME NEW action, NEW s, NEW tool, Dispatch(h, action, tool, s)
          PROVE  run'[h].pc # "reverting"
      BY <3>3, <3>5 DEF Dispatch, RunTypeOK
    <3>6. CASE GatewayExecute(h) \/ Commit(h) \/ RollbackCommit(h) \/ Abort(h)
      BY <1>3, <2>2, <3>6
         DEF GatewayExecute, Commit, RollbackCommit, Abort, Closing, L!Idle, RunTypeOK
    <3>7. CASE \/ GiveUp(h) \/ AnswerUnusable(h) \/ GatewayRaise(h)
               \/ \E action \in RequestedAction, s \in P!RunState : Deny(h, action, s)
      BY <1>3, <2>2, <3>3, <3>7 DEF GiveUp, AnswerUnusable, GatewayRaise, Deny
    <3> QED
      BY <1>3, <2>2, <3>1, <3>2, <3>4, <3>5, <3>6, <3>7 DEF Proceed
  <2> QED
    BY <2>1, <2>2
<1>4. Reverting'
  <2> SUFFICES ASSUME NEW k \in Handler, run'[k].pc = "reverting"
               PROVE  run'[k].artifact \in DOMAIN artifacts'
    BY DEF Reverting
  <2>1. run'[k].artifact \in DOMAIN artifacts
    BY <1>3 DEF AloneInv, Reverting, RollbackBegin
  <2> QED
    BY <2>1, CommitChanges
<1>5. RevertedOnce'
  <2> SUFFICES ASSUME NEW k \in Handler \ crowded', run'[k].pc = "reverting"
               PROVE  artifacts'[run'[k].artifact].status = "AVAILABLE"
    BY DEF RevertedOnce
  <2>1. k \in Handler \ crowded
    BY <1>1
  <2>2. CASE run'[k] = run[k]
    <3>1. /\ run[k].artifact \in DOMAIN artifacts
          /\ artifacts[run[k].artifact].status = "AVAILABLE"
      BY <2>1, <2>2 DEF AloneInv, RevertedOnce, Reverting
    <3>2. ASSUME artifacts'[run[k].artifact] # artifacts[run[k].artifact]
          PROVE  FALSE
      <4>1. /\ run[h].pc = "reverting"
            /\ run[h].artifact = run[k].artifact
            /\ run'[h] = L!Idle
        BY <3>1, <3>2, CommitChanges
      <4>2. h # k
        BY <4>1 DEF L!Idle
      <4> QED
        BY <2>1, <2>2, <4>1, <4>2 DEF AloneInv, Together, Meet
    <3> QED
      BY <2>2, <3>1, <3>2
  <2>3. ASSUME NEW x \in Artifact, RollbackBegin(k, x), run'[k].artifact = x
        PROVE  artifacts'[x].status = "AVAILABLE"
    BY <2>3 DEF RollbackBegin
  <2> QED
    BY <1>3, <2>2, <2>3
<1> QED
  BY <1>2, <1>4, <1>5, TogetherStep DEF AloneInv

LEMMA AloneInvariance == HistorySpec => []AloneInv
<1>1. HistoryInit => AloneInv
  BY DEF HistoryInit, Init, AloneInv, Together, Loaded, Reverting, RevertedOnce, Meet, WorksOn,
         L!Idle
<1>2. ASSUME RunTypeOK, AloneInv, [HistoryNext]_historyVars
      PROVE  AloneInv'
  <2>1. CASE HistoryNext /\ RunNext
    BY <1>2, <2>1, AloneStep DEF HistoryNext, CrowdedStep
  <2>2. CASE HistoryNext /\ UNCHANGED runVars
    <3>1. CrowdedStep
      BY <2>2 DEF HistoryNext, CrowdedStep
    <3>2. Together'
      BY <3>1, TogetherStep
    <3>3. \A h \in Handler \ crowded' : run'[h].pc # "idle" => h \notin crowded
      BY <3>1 DEF CrowdedStep
    <3>4. Loaded'
      BY <1>2, <2>2, <3>3 DEF AloneInv, Loaded, WorksOn, runVars
    <3>5. Reverting' /\ RevertedOnce'
      BY <1>2, <2>2, <3>3 DEF AloneInv, Reverting, RevertedOnce, runVars
    <3> QED
      BY <3>2, <3>4, <3>5 DEF AloneInv
  <2>3. CASE UNCHANGED historyVars
    BY <1>2, <2>3 DEF historyVars, vars, AloneInv, Together, Loaded, Reverting, RevertedOnce,
                      Meet, WorksOn
  <2> QED
    BY <1>2, <2>1, <2>2, <2>3 DEF HistoryNext, Next
<1>3. RunTypeOK /\ AloneInv /\ [HistoryNext]_historyVars => AloneInv'
  BY <1>2
<1> QED
  BY <1>1, <1>3, HistoryKept, PTL DEF HistorySpec

\* A request that rolls back an artifact, alone with it, finds it as the tool left
\* it: no artifact is rolled back twice without a race.
THEOREM ArtifactsRevertOnce == HistorySpec => []RevertedOnce
<1>1. AloneInv => RevertedOnce
  BY DEF AloneInv
<1> QED
  BY <1>1, AloneInvariance, PTL

\* Rounding to cents moves an amount by half a cent at most.
LEMMA CentsFact ==
    ASSUME NEW n \in Nat
    PROVE  ToCents(n) \in Nat /\ n \in ToCents(n) - 50 .. ToCents(n) + 50
BY DEF ToCents

\* A cycle that is alone with its task adds its cost to the task's spending, to
\* the nearest cent, whatever came of the answer; for any cost and any spending.
THEOREM CostsAreRecorded == HistorySpec => CostsOnRecord
<1>1. ASSUME RunTypeOK, AloneInv, NEW t \in Task, NEW h \in Handler \ crowded,
             run[h].pc = "closing", run[h].task = t, Commit(h)
      PROVE  LET cost == IF run[h].outcome = "unanswered" THEN 0 ELSE Cost IN
             spent[t] + cost \in spent'[t] - 50 .. spent'[t] + 50
  <2>1. spent[t] \in Nat /\ Cost \in Nat \ {0} /\ t # None
    BY <1>1, RuntimeAssumption DEF RunTypeOK
  <2>2. CASE run[h].outcome = "unanswered"
    <3>1. spent'[t] = spent[t]
      BY <1>1, <2>1, <2>2 DEF Commit, CostOf
    <3> QED
      BY <2>1, <2>2, <3>1
  <2>3. CASE run[h].outcome # "unanswered"
    <3>1. run[h].base = spent[t]
      BY <1>1, <2>3 DEF AloneInv, Loaded, WorksOn
    <3>2. spent'[t] = ToCents(spent[t] + Cost)
      BY <1>1, <2>1, <2>3, <3>1 DEF Commit, CostOf, Accumulated, RunTypeOK
    <3>3. spent[t] + Cost \in Nat
      BY <2>1
    <3> QED
      BY <2>3, <3>2, <3>3, CentsFact
  <2> QED
    BY <2>2, <2>3
<1>2. RunTypeOK /\ AloneInv =>
        [\A t \in Task, h \in Handler \ crowded :
           LET cost == IF run[h].outcome = "unanswered" THEN 0 ELSE Cost IN
           run[h].pc = "closing" /\ run[h].task = t /\ Commit(h)
           => spent[t] + cost \in spent'[t] - 50 .. spent'[t] + 50]_vars
  BY <1>1
<1> QED
  BY <1>2, HistoryKept, AloneInvariance, PTL DEF CostsOnRecord
=============================================================================
