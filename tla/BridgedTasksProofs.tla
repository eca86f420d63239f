------------------------- MODULE BridgedTasksProofs -------------------------
(***************************************************************************)
(* Proofs about BridgedTasks and the Bridges it is composed with, for any  *)
(* number of departments, agents, bridges, tasks and requests; and of the  *)
(* property stated with the history.                                       *)
(***************************************************************************)
EXTENDS BridgedTasksHistory, TLAPS

\* A request on a bridge works on one that exists; one that a revoker did not
\* find waiting is not waiting later.
SoundBridgeRequests ==
    \A k \in Approver :
        /\ breq[k].pc \in {"approving", "revoking"} => breq[k].bridge \in DOMAIN bridges
        /\ breq[k].pc = "revoking" /\ breq[k].seen # "PENDING"
              => bridges[breq[k].bridge].status # "PENDING"

\* The following say of a table T of bridges, and a table S of tasks, what the
\* invariant says of the current ones.
Joined(T, d, e) == \E b \in DOMAIN T : T[b].approved /\ T[b].ends = {d, e}

\* The agent a may work on a task of the department d.
Reaches(T, d, a) == a # None /\ DeptOf[a] # d => Joined(T, d, DeptOf[a])

SoundRow(T, row) ==
    /\ row.origin # row.dept => Joined(T, row.origin, row.dept)
    /\ Reaches(T, row.dept, row.agent)

SoundDelegation(T, b, a) ==
    /\ b \in DOMAIN T
    /\ T[b].approved
    /\ DeptOf[a] \in T[b].ends

\* What a request on a task has established by the time it has come so far.
SoundRequest(T, S, r) ==
    /\ r.pc = "creating" => SoundRow(T, r.row)
    /\ r.pc \in {"assigning", "assigned", "delegating", "delegated"}
          => r.task \in DOMAIN S /\ S[r.task].dept = r.seen.dept
    /\ r.pc = "moving" => r.task \in DOMAIN S
    /\ r.pc = "assigned" => Reaches(T, r.seen.dept, r.agent)
    /\ r.pc = "delegated" => SoundDelegation(T, r.bridge, r.agent)

IInv ==
    /\ TypeOK
    /\ B!ApprovalOnRecord
    /\ SoundBridgeRequests
    /\ WorkIsBridged
    /\ \A h \in Handler : SoundRequest(bridges, tasks, req[h])

-----------------------------------------------------------------------------
LEMMA IdleRequest ==
    /\ B!Idle \in B!Request
    /\ B!Idle \in Request
    /\ B!Idle.pc = "idle"
BY DEF B!Idle, B!Request, Request

LEMMA WorkFact ==
    /\ WorkIsBridged <=> /\ \A t \in DOMAIN tasks : SoundRow(bridges, tasks[t])
                         /\ \A g \in delegations : SoundDelegation(bridges, g.bridge, g.to)
    /\ WorkIsBridged' <=> /\ \A t \in DOMAIN tasks' : SoundRow(bridges', tasks'[t])
                          /\ \A g \in delegations' :
                                SoundDelegation(bridges', g.bridge, g.to)
BY DEF WorkIsBridged, Bridged, Joined, Reaches, SoundRow, SoundDelegation

LEMMA InitIInv == Init => IInv
<1> SUFFICES ASSUME Init PROVE IInv
    OBVIOUS
<1>1. TypeOK
    BY IdleRequest DEF Init, B!Init, TypeOK, B!TypeOK, IsTable, EmptyTable, B!IsTable,
       B!EmptyTable
<1>2. B!ApprovalOnRecord /\ WorkIsBridged
    BY DEF Init, B!Init, EmptyTable, B!EmptyTable, B!ApprovalOnRecord, WorkIsBridged
<1>3. SoundBridgeRequests /\ \A h \in Handler : SoundRequest(bridges, tasks, req[h])
    BY IdleRequest DEF Init, B!Init, SoundBridgeRequests, SoundRequest
<1> QED BY <1>1, <1>2, <1>3 DEF IInv

-----------------------------------------------------------------------------
(* Steps of the bridges *)

\* What a step on the bridges keeps, whichever it is.
Grown ==
    \A b \in DOMAIN bridges :
        /\ b \in DOMAIN bridges'
        /\ bridges'[b].ends = bridges[b].ends
        /\ bridges[b].approved => bridges'[b].approved

BridgeInv ==
    /\ B!TypeOK
    /\ B!ApprovalOnRecord
    /\ SoundBridgeRequests

\* A step that changes one request, and no bridge.
LEMMA BridgeRequestStep ==
    ASSUME BridgeInv, UNCHANGED <<bridges, now>>,
           NEW k \in Approver, NEW r \in B!Request,
           breq' = [breq EXCEPT ![k] = r],
           r.pc \in {"approving", "revoking"} => r.bridge \in DOMAIN bridges,
           r.pc = "revoking" /\ r.seen # "PENDING" => bridges[r.bridge].status # "PENDING"
    PROVE  BridgeInv' /\ Grown
<1>1. B!TypeOK' /\ B!ApprovalOnRecord' /\ Grown
    BY DEF BridgeInv, B!TypeOK, B!ApprovalOnRecord, Grown
<1>2. /\ \A j \in Approver \ {k} : breq'[j] = breq[j]
      /\ breq'[k] = r
    BY DEF BridgeInv, B!TypeOK
<1>3. SoundBridgeRequests'
    BY <1>2 DEF BridgeInv, SoundBridgeRequests
<1> QED BY <1>1, <1>3 DEF BridgeInv

\* A commit gives the bridge b the row `row' and ends the request.
LEMMA BridgeCommitStep ==
    ASSUME BridgeInv, UNCHANGED now,
           NEW k \in Approver, breq' = [breq EXCEPT ![k] = B!Idle],
           NEW b \in DOMAIN bridges, NEW row \in B!BridgeRow,
           bridges' = [bridges EXCEPT ![b] = row],
           row.ends = bridges[b].ends,
           bridges[b].approved => row.approved,
           row.status = "ACTIVE" => row.approved,
           row.status # "PENDING"
    PROVE  BridgeInv' /\ Grown
<1>1. /\ DOMAIN bridges' = DOMAIN bridges
      /\ bridges'[b] = row
      /\ \A c \in DOMAIN bridges \ {b} : bridges'[c] = bridges[c]
    BY DEF BridgeInv, B!TypeOK, B!IsTable
<1>2. /\ \A j \in Approver \ {k} : breq'[j] = breq[j]
      /\ breq'[k] = B!Idle
      /\ breq' \in [Approver -> B!Request]
    BY IdleRequest DEF BridgeInv, B!TypeOK
<1>3. B!TypeOK'
    BY <1>2 DEF BridgeInv, B!TypeOK, B!IsTable
<1>4. B!ApprovalOnRecord' /\ Grown
    BY <1>1 DEF BridgeInv, B!ApprovalOnRecord, Grown
<1>5. SoundBridgeRequests'
    BY <1>1, <1>2, IdleRequest DEF BridgeInv, SoundBridgeRequests
<1> QED BY <1>3, <1>4, <1>5 DEF BridgeInv

LEMMA BridgeNext ==
    ASSUME BridgeInv, B!Next
    PROVE  BridgeInv' /\ Grown
<1>1. CASE \E b \in Bridge, d, e \in Department, x \in 1..(MaxTime + 1) :
              B!RequestBridge(b, d, e, x)
    <2>1. PICK b \in Bridge, d \in Department, e \in Department, x \in 1..(MaxTime + 1) :
              B!RequestBridge(b, d, e, x)
        BY <1>1
    <2>2. PICK row : row = [ends |-> {d, e}, expires |-> x, status |-> "PENDING",
                            approved |-> FALSE, revoked |-> FALSE]
        OBVIOUS
    <2>3. /\ row \in B!BridgeRow
          /\ row.status = "PENDING" /\ ~row.approved /\ ~row.revoked
        <3>1. x \in Nat
            BY TasksAssumption
        <3> QED BY <2>2, <3>1 DEF B!BridgeRow, B!BridgeStatus
    <2>4. /\ b \notin DOMAIN bridges
          /\ bridges' = B!Inserted(bridges, b, row)
          /\ UNCHANGED <<now, breq>>
        BY <2>1, <2>2 DEF B!RequestBridge
    <2>5. /\ DOMAIN bridges' = DOMAIN bridges \cup {b}
          /\ bridges'[b] = row
          /\ \A c \in DOMAIN bridges : bridges'[c] = bridges[c]
          /\ bridges' \in [DOMAIN bridges' -> B!BridgeRow]
        BY <2>3, <2>4 DEF B!Inserted, BridgeInv, B!TypeOK, B!IsTable
    <2>6. B!TypeOK'
        BY <2>4, <2>5 DEF BridgeInv, B!TypeOK, B!IsTable
    <2>7. B!ApprovalOnRecord' /\ Grown
        BY <2>3, <2>5 DEF BridgeInv, B!ApprovalOnRecord, Grown
    <2>8. SoundBridgeRequests'
        BY <2>4, <2>5 DEF BridgeInv, SoundBridgeRequests
    <2> QED BY <2>6, <2>7, <2>8 DEF BridgeInv
<1>2. ASSUME NEW k \in Approver, NEW b \in Bridge, B!ApproveRead(k, b)
      PROVE  BridgeInv' /\ Grown
    <2>1. PICK r : r = [pc |-> "approving", bridge |-> b]
        OBVIOUS
    <2>2. r \in B!Request /\ r.pc = "approving" /\ r.bridge = b
        BY <2>1 DEF B!Request
    <2>3. breq' = [breq EXCEPT ![k] = r] /\ b \in DOMAIN bridges /\ UNCHANGED <<bridges, now>>
        BY <1>2, <2>1 DEF B!ApproveRead
    <2> QED BY <2>2, <2>3, BridgeRequestStep
<1>3. ASSUME NEW k \in Approver, NEW b \in Bridge, B!RevokeRead(k, b)
      PROVE  BridgeInv' /\ Grown
    <2>1. PICK r : r = [pc |-> "revoking", bridge |-> b, seen |-> bridges[b].status]
        OBVIOUS
    <2>2. breq' = [breq EXCEPT ![k] = r] /\ b \in DOMAIN bridges /\ UNCHANGED <<bridges, now>>
        BY <1>3, <2>1 DEF B!RevokeRead
    <2>3. bridges[b].status \in B!BridgeStatus
        BY <2>2 DEF BridgeInv, B!TypeOK, B!IsTable, B!BridgeRow
    <2>4. /\ r \in B!Request
          /\ r.pc = "revoking" /\ r.bridge = b /\ r.seen = bridges[b].status
        BY <2>1, <2>3 DEF B!Request
    <2> QED BY <2>2, <2>4, BridgeRequestStep
<1>4. ASSUME NEW k \in Approver, B!ApproveCommit(k)
      PROVE  BridgeInv' /\ Grown
    <2>1. PICK b : b = breq[k].bridge
        OBVIOUS
    <2>2. b \in DOMAIN bridges /\ bridges[b] \in B!BridgeRow
        BY <1>4, <2>1 DEF B!ApproveCommit, BridgeInv, SoundBridgeRequests, B!TypeOK, B!IsTable
    <2>3. PICK row : row = [bridges[b] EXCEPT !.status = "ACTIVE", !.approved = TRUE]
        OBVIOUS
    <2>4. /\ row \in B!BridgeRow
          /\ row.ends = bridges[b].ends /\ row.status = "ACTIVE" /\ row.approved
        BY <2>2, <2>3 DEF B!BridgeRow, B!BridgeStatus
    <2>5. /\ bridges' = [bridges EXCEPT ![b] = row]
          /\ breq' = [breq EXCEPT ![k] = B!Idle]
          /\ UNCHANGED now
        BY <1>4, <2>1, <2>2, <2>3
           DEF B!ApproveCommit, B!EndRequest, BridgeInv, B!TypeOK, B!IsTable, B!BridgeRow
    <2> QED BY <2>2, <2>4, <2>5, BridgeCommitStep
<1>5. ASSUME NEW k \in Approver, B!RevokeCommit(k)
      PROVE  BridgeInv' /\ Grown
    <2>1. PICK b : b = breq[k].bridge
        OBVIOUS
    <2>2. /\ b \in DOMAIN bridges /\ bridges[b] \in B!BridgeRow
          /\ breq[k].seen = "REVOKED" => bridges[b].status # "PENDING"
          /\ bridges[b].status = "ACTIVE" => bridges[b].approved
        BY <1>5, <2>1
           DEF B!RevokeCommit, BridgeInv, SoundBridgeRequests, B!TypeOK, B!IsTable,
               B!ApprovalOnRecord
    <2>3. PICK status : status = IF breq[k].seen = "REVOKED" THEN bridges[b].status
                                                             ELSE "REVOKED"
        OBVIOUS
    <2>4. /\ status \in B!BridgeStatus /\ status # "PENDING"
          /\ status = "ACTIVE" => bridges[b].approved
        BY <2>2, <2>3 DEF B!BridgeRow, B!BridgeStatus
    <2>5. PICK row : row = [bridges[b] EXCEPT !.status = status, !.revoked = TRUE]
        OBVIOUS
    <2>6. /\ row \in B!BridgeRow
          /\ row.ends = bridges[b].ends /\ row.status = status
          /\ row.approved = bridges[b].approved
        BY <2>2, <2>4, <2>5 DEF B!BridgeRow
    <2>7. /\ bridges' = [bridges EXCEPT ![b] = row]
          /\ breq' = [breq EXCEPT ![k] = B!Idle]
          /\ UNCHANGED now
        BY <1>5, <2>1, <2>2, <2>3, <2>5
           DEF B!RevokeCommit, B!EndRequest, BridgeInv, B!TypeOK, B!IsTable, B!BridgeRow
    <2> QED BY <2>2, <2>4, <2>6, <2>7, BridgeCommitStep
<1>6. ASSUME NEW k \in Approver, B!Abort(k)
      PROVE  BridgeInv' /\ Grown
    BY <1>6, IdleRequest, BridgeRequestStep DEF B!Abort, B!EndRequest
<1>7. CASE B!Tick
    <2>1. UNCHANGED <<bridges, breq>> /\ now' \in Nat
        BY <1>7 DEF B!Tick, BridgeInv, B!TypeOK
    <2> QED BY <2>1 DEF BridgeInv, B!TypeOK, B!ApprovalOnRecord, SoundBridgeRequests, Grown
<1> QED BY <1>1, <1>2, <1>3, <1>4, <1>5, <1>6, <1>7 DEF B!Next

\* What has been established about bridges stays established.
LEMMA GrownKeeps ==
    ASSUME Grown
    PROVE  /\ \A d, a : Reaches(bridges, d, a) => Reaches(bridges', d, a)
           /\ \A row : SoundRow(bridges, row) => SoundRow(bridges', row)
           /\ \A b, a : SoundDelegation(bridges, b, a) => SoundDelegation(bridges', b, a)
<1>1. \A d, e : Joined(bridges, d, e) => Joined(bridges', d, e)
    BY DEF Grown, Joined
<1> QED BY <1>1 DEF Grown, Reaches, SoundRow, SoundDelegation

LEMMA BridgeIInv ==
    ASSUME IInv, B!Next, UNCHANGED taskVars
    PROVE  IInv'
<1>1. BridgeInv' /\ Grown
    BY BridgeNext DEF IInv, TypeOK, BridgeInv
<1>2. UNCHANGED <<tasks, delegations, req>>
    BY DEF taskVars
<1>3. TypeOK'
    BY <1>1, <1>2 DEF IInv, TypeOK, BridgeInv
<1>4. WorkIsBridged'
    BY <1>1, <1>2, GrownKeeps, WorkFact DEF IInv
<1>5. \A h \in Handler : SoundRequest(bridges', tasks', req'[h])
    BY <1>1, <1>2, GrownKeeps DEF IInv, SoundRequest
<1> QED BY <1>1, <1>3, <1>4, <1>5 DEF IInv, BridgeInv

-----------------------------------------------------------------------------
(* Steps of the tasks *)

\* A step that changes one request on a task, and no table.
LEMMA RequestStep ==
    ASSUME IInv, UNCHANGED <<bridges, now, breq, tasks, delegations>>,
           NEW h \in Handler, NEW r \in Request,
           req' = [req EXCEPT ![h] = r],
           SoundRequest(bridges, tasks, r)
    PROVE  IInv'
<1>1. TypeOK' /\ B!ApprovalOnRecord' /\ SoundBridgeRequests'
    BY DEF IInv, TypeOK, B!TypeOK, B!ApprovalOnRecord, SoundBridgeRequests
<1>2. WorkIsBridged'
    BY WorkFact DEF IInv
<1>3. \A k \in Handler : SoundRequest(bridges', tasks', req'[k])
    BY DEF IInv, TypeOK
<1> QED BY <1>1, <1>2, <1>3 DEF IInv

\* A step that leaves the bridges alone, ends the request h and leaves every
\* task in its department.
LEMMA CommitStep ==
    ASSUME IInv, UNCHANGED <<bridges, now, breq>>,
           NEW h \in Handler, req' = [req EXCEPT ![h] = B!Idle],
           IsTable(tasks', Task, TaskRow),
           \A t \in DOMAIN tasks : t \in DOMAIN tasks' /\ tasks'[t].dept = tasks[t].dept,
           \A t \in DOMAIN tasks' : SoundRow(bridges, tasks'[t]),
           delegations' \subseteq Delegation,
           \A g \in delegations' : SoundDelegation(bridges, g.bridge, g.to)
    PROVE  IInv'
<1>1. B!TypeOK' /\ B!ApprovalOnRecord' /\ SoundBridgeRequests'
    BY DEF IInv, TypeOK, B!TypeOK, B!ApprovalOnRecord, SoundBridgeRequests
<1>2. TypeOK'
    BY <1>1, IdleRequest DEF IInv, TypeOK
<1>3. WorkIsBridged'
    BY WorkFact
<1>4. \A k \in Handler : SoundRequest(bridges', tasks', req'[k])
    <2>1. SoundRequest(bridges', tasks', B!Idle)
        BY IdleRequest DEF SoundRequest
    <2>2. \A r : SoundRequest(bridges, tasks, r) => SoundRequest(bridges', tasks', r)
        BY DEF SoundRequest
    <2> QED BY <2>1, <2>2 DEF IInv, TypeOK
<1> QED BY <1>1, <1>2, <1>3, <1>4 DEF IInv

\* An active bridge has been approved.
LEMMA UsableBridges ==
    ASSUME IInv
    PROVE  /\ \A d, e : B!CheckActiveBridge(d, e) => Joined(bridges, d, e)
           /\ \A b \in DOMAIN bridges : B!Usable(b) => bridges[b].approved
BY DEF IInv, B!ApprovalOnRecord, B!CheckActiveBridge, B!Usable, Joined

LEMMA SeenTask ==
    ASSUME IInv, NEW t \in DOMAIN tasks
    PROVE  t \in Task /\ tasks[t] \in TaskRow /\ SoundRow(bridges, tasks[t])
BY WorkFact DEF IInv, TypeOK, IsTable

\* What the requests on a task are made of.
LEMMA RequestFields ==
    ASSUME NEW r \in Request
    PROVE  /\ r.pc = "creating" => r.row \in TaskRow
           /\ r.pc \in {"assigning", "assigned", "delegating", "delegated"}
                 => r.task \in Task /\ r.seen \in TaskRow /\ r.agent \in Agent
           /\ r.pc = "moving" => r.task \in Task /\ r.to \in TaskStatus
           /\ r.pc \in {"delegating", "delegated"} => r.bridge \in Bridge
           /\ r.pc = "assigning" =>
                 /\ [r EXCEPT !.pc = "assigned"] \in Request
                 /\ [r EXCEPT !.pc = "assigned"].pc = "assigned"
                 /\ [r EXCEPT !.pc = "assigned"].task = r.task
                 /\ [r EXCEPT !.pc = "assigned"].seen = r.seen
                 /\ [r EXCEPT !.pc = "assigned"].agent = r.agent
           /\ r.pc = "delegating" =>
                 /\ [r EXCEPT !.pc = "delegated"] \in Request
                 /\ [r EXCEPT !.pc = "delegated"].pc = "delegated"
                 /\ [r EXCEPT !.pc = "delegated"].task = r.task
                 /\ [r EXCEPT !.pc = "delegated"].seen = r.seen
                 /\ [r EXCEPT !.pc = "delegated"].agent = r.agent
                 /\ [r EXCEPT !.pc = "delegated"].bridge = r.bridge
BY DEF Request

LEMMA CreateBeginIInv ==
    ASSUME IInv, NEW h \in Handler, NEW d \in Department, NEW e \in Department,
           NEW a \in Agent \cup {None}, CreateBegin(h, d, e, a),
           UNCHANGED <<bridges, now, breq>>
    PROVE  IInv'
<1>1. PICK row : row = [origin |-> d, dept |-> e, agent |-> a,
                        status |-> IF a = None THEN "CREATED" ELSE "ASSIGNED"]
    OBVIOUS
<1>2. row \in TaskRow /\ row.origin = d /\ row.dept = e /\ row.agent = a
    BY <1>1 DEF TaskRow, TaskStatus
<1>3. SoundRow(bridges, row)
    BY <1>2, UsableBridges DEF CreateBegin, SoundRow, Reaches
<1>4. PICK r : r = [pc |-> "creating", row |-> row]
    OBVIOUS
<1>5. r \in Request /\ r.pc = "creating" /\ r.row = row
    BY <1>2, <1>4 DEF Request
<1>6. SoundRequest(bridges, tasks, r)
    BY <1>3, <1>5 DEF SoundRequest
<1>7. req' = [req EXCEPT ![h] = r] /\ UNCHANGED <<tasks, delegations>>
    BY <1>1, <1>4 DEF CreateBegin
<1> QED BY <1>5, <1>6, <1>7, RequestStep

LEMMA CreateCommitIInv ==
    ASSUME IInv, NEW h \in Handler, NEW t \in Task, CreateCommit(h, t),
           UNCHANGED <<bridges, now, breq>>
    PROVE  IInv'
<1>1. PICK row : row = req[h].row
    OBVIOUS
<1>2. row \in TaskRow /\ SoundRow(bridges, row)
    BY <1>1, RequestFields DEF CreateCommit, IInv, TypeOK, SoundRequest
<1>3. /\ t \notin DOMAIN tasks
      /\ tasks' = Inserted(tasks, t, row)
      /\ req' = [req EXCEPT ![h] = B!Idle]
      /\ UNCHANGED delegations
    BY <1>1 DEF CreateCommit, EndRequest
<1>4. /\ DOMAIN tasks' = DOMAIN tasks \cup {t}
      /\ tasks'[t] = row
      /\ \A u \in DOMAIN tasks : tasks'[u] = tasks[u]
      /\ tasks' \in [DOMAIN tasks' -> TaskRow]
    BY <1>2, <1>3 DEF Inserted, IInv, TypeOK, IsTable
<1>5. IsTable(tasks', Task, TaskRow)
    BY <1>4 DEF IInv, TypeOK, IsTable
<1>6. \A u \in DOMAIN tasks' : SoundRow(bridges, tasks'[u])
    BY <1>2, <1>4, SeenTask
<1>7. /\ delegations' \subseteq Delegation
      /\ \A g \in delegations' : SoundDelegation(bridges, g.bridge, g.to)
    BY <1>3, WorkFact DEF IInv, TypeOK
<1> QED BY <1>3, <1>4, <1>5, <1>6, <1>7, CommitStep

\* A commit that gives a task an agent who may work on it: whichever of its
\* columns the ORM writes, the row is sound.
LEMMA ReassignedRows ==
    ASSUME IInv, NEW t \in DOMAIN tasks, NEW seen \in TaskRow, NEW a \in Agent,
           Reaches(bridges, tasks[t].dept, a),
           tasks' = Reassigned(t, seen, a)
    PROVE  /\ IsTable(tasks', Task, TaskRow)
           /\ \A u \in DOMAIN tasks : u \in DOMAIN tasks' /\ tasks'[u].dept = tasks[u].dept
           /\ \A u \in DOMAIN tasks' : SoundRow(bridges, tasks'[u])
<1>1. tasks[t] \in TaskRow /\ SoundRow(bridges, tasks[t])
    BY SeenTask
<1>2. PICK b \in Agent \cup {None} : b = IF seen.agent = a THEN tasks[t].agent ELSE a
    BY <1>1 DEF TaskRow
<1>3. PICK s \in TaskStatus : s = IF seen.status = "ASSIGNED" THEN tasks[t].status
                                                             ELSE "ASSIGNED"
    BY <1>1 DEF TaskRow, TaskStatus
<1>4. PICK row : row = [tasks[t] EXCEPT !.agent = b, !.status = s]
    OBVIOUS
<1>5. /\ row \in TaskRow
      /\ row.origin = tasks[t].origin /\ row.dept = tasks[t].dept /\ row.agent = b
    BY <1>1, <1>4 DEF TaskRow
<1>6. SoundRow(bridges, row)
    BY <1>1, <1>2, <1>5 DEF SoundRow
<1>7. tasks' = [tasks EXCEPT ![t] = row]
    BY <1>1, <1>2, <1>3, <1>4 DEF Reassigned, TaskRow, IInv, TypeOK, IsTable
<1>8. /\ DOMAIN tasks' = DOMAIN tasks
      /\ tasks'[t] = row
      /\ \A u \in DOMAIN tasks \ {t} : tasks'[u] = tasks[u]
      /\ tasks' \in [DOMAIN tasks -> TaskRow]
    BY <1>5, <1>7 DEF IInv, TypeOK, IsTable
<1>9. IsTable(tasks', Task, TaskRow)
    BY <1>8 DEF IInv, TypeOK, IsTable
<1> QED BY <1>5, <1>6, <1>8, <1>9, SeenTask

LEMMA KeptDelegations ==
    ASSUME IInv
    PROVE  /\ delegations \subseteq Delegation
           /\ \A g \in delegations : SoundDelegation(bridges, g.bridge, g.to)
BY WorkFact DEF IInv, TypeOK

LEMMA AssignReadIInv ==
    ASSUME IInv, NEW h \in Handler, NEW t \in Task, NEW a \in Agent, AssignRead(h, t, a),
           UNCHANGED <<bridges, now, breq>>
    PROVE  IInv'
<1>1. PICK r : r = [pc |-> "assigning", task |-> t, seen |-> tasks[t], agent |-> a]
    OBVIOUS
<1>2. t \in DOMAIN tasks /\ req' = [req EXCEPT ![h] = r] /\ UNCHANGED <<tasks, delegations>>
    BY <1>1 DEF AssignRead
<1>3. tasks[t] \in TaskRow
    BY <1>2, SeenTask
<1>4. r \in Request /\ r.pc = "assigning" /\ r.task = t /\ r.seen = tasks[t]
    BY <1>1, <1>3 DEF Request
<1>5. SoundRequest(bridges, tasks, r)
    BY <1>2, <1>4 DEF SoundRequest
<1> QED BY <1>2, <1>4, <1>5, RequestStep

LEMMA AssignCheckIInv ==
    ASSUME IInv, NEW h \in Handler, AssignCheck(h), UNCHANGED <<bridges, now, breq>>
    PROVE  IInv'
<1>1. PICK r : r = [req[h] EXCEPT !.pc = "assigned"]
    OBVIOUS
<1>2. req[h] \in Request /\ req[h].pc = "assigning" /\ SoundRequest(bridges, tasks, req[h])
    BY DEF AssignCheck, IInv, TypeOK
<1>3. /\ r \in Request /\ r.pc = "assigned"
      /\ r.task = req[h].task /\ r.seen = req[h].seen /\ r.agent = req[h].agent
    BY <1>1, <1>2, RequestFields
<1>4. Reaches(bridges, r.seen.dept, r.agent)
    BY <1>3, UsableBridges DEF AssignCheck, Reaches
<1>5. SoundRequest(bridges, tasks, r)
    BY <1>2, <1>3, <1>4 DEF SoundRequest
<1>6. req' = [req EXCEPT ![h] = r] /\ UNCHANGED <<tasks, delegations>>
    BY <1>1 DEF AssignCheck
<1> QED BY <1>3, <1>5, <1>6, RequestStep

LEMMA AssignCommitIInv ==
    ASSUME IInv, NEW h \in Handler, AssignCommit(h), UNCHANGED <<bridges, now, breq>>
    PROVE  IInv'
<1>1. req[h] \in Request /\ req[h].pc = "assigned" /\ SoundRequest(bridges, tasks, req[h])
    BY DEF AssignCommit, IInv, TypeOK
<1>2. /\ req[h].task \in DOMAIN tasks
      /\ req[h].seen \in TaskRow
      /\ req[h].agent \in Agent
      /\ Reaches(bridges, tasks[req[h].task].dept, req[h].agent)
    BY <1>1, RequestFields DEF SoundRequest
<1>3. /\ tasks' = Reassigned(req[h].task, req[h].seen, req[h].agent)
      /\ req' = [req EXCEPT ![h] = B!Idle]
      /\ UNCHANGED delegations
    BY DEF AssignCommit, EndRequest
<1> QED BY <1>2, <1>3, ReassignedRows, KeptDelegations, CommitStep

LEMMA TransitionReadIInv ==
    ASSUME IInv, NEW h \in Handler, NEW t \in Task, NEW to \in TaskStatus,
           TransitionRead(h, t, to), UNCHANGED <<bridges, now, breq>>
    PROVE  IInv'
<1>1. PICK r : r = [pc |-> "moving", task |-> t, to |-> to]
    OBVIOUS
<1>2. t \in DOMAIN tasks /\ req' = [req EXCEPT ![h] = r] /\ UNCHANGED <<tasks, delegations>>
    BY <1>1 DEF TransitionRead
<1>3. r \in Request /\ r.pc = "moving" /\ r.task = t
    BY <1>1 DEF Request
<1>4. SoundRequest(bridges, tasks, r)
    BY <1>2, <1>3 DEF SoundRequest
<1> QED BY <1>2, <1>3, <1>4, RequestStep

LEMMA TransitionCommitIInv ==
    ASSUME IInv, NEW h \in Handler, TransitionCommit(h), UNCHANGED <<bridges, now, breq>>
    PROVE  IInv'
<1>1. PICK t : t = req[h].task
    OBVIOUS
<1>2. t \in DOMAIN tasks /\ req[h].to \in TaskStatus
    <2>1. req[h] \in Request /\ req[h].pc = "moving" /\ SoundRequest(bridges, tasks, req[h])
        BY DEF TransitionCommit, IInv, TypeOK
    <2>2. t \in DOMAIN tasks
        BY <1>1, <2>1 DEF SoundRequest
    <2>3. req[h].to \in TaskStatus
        BY <2>1, RequestFields
    <2> QED BY <2>2, <2>3
<1>3. PICK row : row = [tasks[t] EXCEPT !.status = req[h].to]
    OBVIOUS
<1>4. /\ row \in TaskRow
      /\ row.dept = tasks[t].dept
      /\ SoundRow(bridges, row)
    BY <1>2, <1>3, SeenTask DEF TaskRow, SoundRow
<1>5. /\ tasks' = [tasks EXCEPT ![t] = row]
      /\ req' = [req EXCEPT ![h] = B!Idle]
      /\ UNCHANGED delegations
    BY <1>1, <1>3 DEF TransitionCommit, EndRequest
<1>6. /\ DOMAIN tasks' = DOMAIN tasks
      /\ tasks'[t] = row
      /\ \A u \in DOMAIN tasks \ {t} : tasks'[u] = tasks[u]
      /\ tasks' \in [DOMAIN tasks -> TaskRow]
    BY <1>2, <1>4, <1>5 DEF IInv, TypeOK, IsTable
<1>7. IsTable(tasks', Task, TaskRow)
    BY <1>6 DEF IInv, TypeOK, IsTable
<1>8. \A u \in DOMAIN tasks' : SoundRow(bridges, tasks'[u])
    BY <1>4, <1>6, SeenTask
<1> QED BY <1>4, <1>5, <1>6, <1>7, <1>8, KeptDelegations, CommitStep

LEMMA DelegateReadIInv ==
    ASSUME IInv, NEW h \in Handler, NEW t \in Task, NEW b \in Bridge, NEW a \in Agent,
           DelegateRead(h, t, b, a), UNCHANGED <<bridges, now, breq>>
    PROVE  IInv'
<1>1. PICK r : r = [pc |-> "delegating", task |-> t, seen |-> tasks[t], agent |-> a,
                    bridge |-> b]
    OBVIOUS
<1>2. t \in DOMAIN tasks /\ req' = [req EXCEPT ![h] = r] /\ UNCHANGED <<tasks, delegations>>
    BY <1>1 DEF DelegateRead
<1>3. tasks[t] \in TaskRow
    BY <1>2, SeenTask
<1>4. r \in Request /\ r.pc = "delegating" /\ r.task = t /\ r.seen = tasks[t]
    BY <1>1, <1>3 DEF Request
<1>5. SoundRequest(bridges, tasks, r)
    BY <1>2, <1>4 DEF SoundRequest
<1> QED BY <1>2, <1>4, <1>5, RequestStep

LEMMA DelegateCheckIInv ==
    ASSUME IInv, NEW h \in Handler, DelegateCheck(h), UNCHANGED <<bridges, now, breq>>
    PROVE  IInv'
<1>1. PICK r : r = [req[h] EXCEPT !.pc = "delegated"]
    OBVIOUS
<1>2. req[h] \in Request /\ req[h].pc = "delegating" /\ SoundRequest(bridges, tasks, req[h])
    BY DEF DelegateCheck, IInv, TypeOK
<1>3. /\ r \in Request /\ r.pc = "delegated"
      /\ r.task = req[h].task /\ r.seen = req[h].seen
      /\ r.agent = req[h].agent /\ r.bridge = req[h].bridge
    BY <1>1, <1>2, RequestFields
<1>4. SoundDelegation(bridges, r.bridge, r.agent)
    BY <1>3, UsableBridges DEF DelegateCheck, SoundDelegation
<1>5. SoundRequest(bridges, tasks, r)
    BY <1>2, <1>3, <1>4 DEF SoundRequest
<1>6. req' = [req EXCEPT ![h] = r] /\ UNCHANGED <<tasks, delegations>>
    BY <1>1 DEF DelegateCheck
<1> QED BY <1>3, <1>5, <1>6, RequestStep

LEMMA DelegateCommitIInv ==
    ASSUME IInv, NEW h \in Handler, DelegateCommit(h), UNCHANGED <<bridges, now, breq>>
    PROVE  IInv'
<1>1. req[h] \in Request /\ req[h].pc = "delegated" /\ SoundRequest(bridges, tasks, req[h])
    BY DEF DelegateCommit, IInv, TypeOK
<1>2. /\ req[h].task \in Task /\ req[h].task \in DOMAIN tasks
      /\ req[h].seen \in TaskRow
      /\ req[h].agent \in Agent
      /\ req[h].bridge \in Bridge
      /\ tasks[req[h].task].dept = req[h].seen.dept
      /\ SoundDelegation(bridges, req[h].bridge, req[h].agent)
    BY <1>1, RequestFields DEF SoundRequest
<1>3. Reaches(bridges, tasks[req[h].task].dept, req[h].agent)
    BY <1>2 DEF DelegateCommit, Lands, Reaches
<1>4. PICK g : g = [task |-> req[h].task, bridge |-> req[h].bridge, to |-> req[h].agent]
    OBVIOUS
<1>5. g \in Delegation /\ SoundDelegation(bridges, g.bridge, g.to)
    BY <1>2, <1>4 DEF Delegation
<1>6. /\ tasks' = Reassigned(req[h].task, req[h].seen, req[h].agent)
      /\ delegations' = delegations \cup {g}
      /\ req' = [req EXCEPT ![h] = B!Idle]
    BY <1>4 DEF DelegateCommit, EndRequest
<1>7. /\ delegations' \subseteq Delegation
      /\ \A f \in delegations' : SoundDelegation(bridges, f.bridge, f.to)
    BY <1>5, <1>6, KeptDelegations
<1> QED BY <1>2, <1>3, <1>6, <1>7, ReassignedRows, CommitStep

LEMMA EndIInv ==
    ASSUME IInv, NEW h \in Handler, DelegateRefused(h) \/ Abort(h),
           UNCHANGED <<bridges, now, breq>>
    PROVE  IInv'
<1>1. SoundRequest(bridges, tasks, B!Idle)
    BY IdleRequest DEF SoundRequest
<1> QED BY <1>1, IdleRequest, RequestStep DEF DelegateRefused, Abort, EndRequest

-----------------------------------------------------------------------------
LEMMA NextIInv == IInv /\ [Next]_vars => IInv'
<1> SUFFICES ASSUME IInv, [Next]_vars PROVE IInv'
    OBVIOUS
<1>1. CASE UNCHANGED vars
    <2>1. UNCHANGED <<bridges, now, breq, tasks, delegations, req>>
        BY <1>1 DEF vars
    <2> QED BY <2>1 DEF IInv, TypeOK, B!TypeOK, B!ApprovalOnRecord, SoundBridgeRequests,
                        WorkIsBridged, Bridged
<1>2. CASE B!Next /\ UNCHANGED taskVars
    BY <1>2, BridgeIInv
<1>3. CASE TaskNext /\ UNCHANGED <<bridges, now, breq>>
    <2>1. PICK h \in Handler :
              \/ \E d, e \in Department, a \in Agent \cup {None} : CreateBegin(h, d, e, a)
              \/ \E t \in Task :
                    \/ CreateCommit(h, t)
                    \/ \E a \in Agent : AssignRead(h, t, a)
                    \/ \E to \in TaskStatus : TransitionRead(h, t, to)
                    \/ \E b \in Bridge, a \in Agent : DelegateRead(h, t, b, a)
              \/ AssignCheck(h) \/ AssignCommit(h)
              \/ TransitionCommit(h)
              \/ DelegateCheck(h) \/ DelegateCommit(h) \/ DelegateRefused(h)
              \/ Abort(h)
        BY <1>3 DEF TaskNext
    <2>2. CASE \E d, e \in Department, a \in Agent \cup {None} : CreateBegin(h, d, e, a)
        BY <1>3, <2>2, CreateBeginIInv
    <2>3. CASE \E t \in Task :
                  \/ CreateCommit(h, t)
                  \/ \E a \in Agent : AssignRead(h, t, a)
                  \/ \E to \in TaskStatus : TransitionRead(h, t, to)
                  \/ \E b \in Bridge, a \in Agent : DelegateRead(h, t, b, a)
        BY <1>3, <2>3, CreateCommitIInv, AssignReadIInv, TransitionReadIInv, DelegateReadIInv
    <2>4. CASE AssignCheck(h) \/ AssignCommit(h) \/ TransitionCommit(h)
        BY <1>3, <2>4, AssignCheckIInv, AssignCommitIInv, TransitionCommitIInv
    <2>5. CASE DelegateCheck(h) \/ DelegateCommit(h) \/ DelegateRefused(h) \/ Abort(h)
        BY <1>3, <2>5, DelegateCheckIInv, DelegateCommitIInv, EndIInv
    <2> QED BY <2>1, <2>2, <2>3, <2>4, <2>5
<1> QED BY <1>1, <1>2, <1>3 DEF Next

LEMMA Inductive == Spec => []IInv
BY InitIInv, NextIInv, PTL DEF Spec

\* Every reachable state has its type: the rows of bridges, tasks and
\* delegations, and what each request holds.
THEOREM TypeCorrect == Spec => []TypeOK
<1>1. IInv => TypeOK
    BY DEF IInv
<1> QED BY <1>1, Inductive, PTL

\* No bridge lets work through without an approval on record, with any number
\* of approvals and revocations in flight.
THEOREM ActiveIsApproved == Spec => []B!ApprovalOnRecord
<1>1. IInv => B!ApprovalOnRecord
    BY DEF IInv
<1> QED BY <1>1, Inductive, PTL

\* Work passes between departments only where an approved bridge joins them,
\* although neither the tasks nor the bridges are locked while they are
\* checked.
THEOREM WorkNeedsBridge == Spec => []WorkIsBridged
<1>1. IInv => WorkIsBridged
    BY DEF IInv
<1> QED BY <1>1, Inductive, PTL

-----------------------------------------------------------------------------
(* Requests that are alone with their task *)

\* The histories watch: they keep nothing from happening.
LEMMA HistoryKept == HistorySpec => []IInv
<1>1. HistoryInit => Init
    BY DEF HistoryInit
<1>2. [HistoryNext]_historyVars => [Next]_vars
    BY DEF HistoryNext, historyVars
<1> QED BY <1>1, <1>2, InitIInv, NextIInv, PTL DEF HistorySpec

\* Requests on one task that are in flight together are known to be.
Together ==
    \A h \in Handler, k \in Handler, t \in Task :
        h # k /\ WorksOn(h, t) /\ WorksOn(k, t) => h \in met

\* The row of its task is still, for the request r, what it was when it was read.
UpToDate(S, r) ==
    /\ r.pc \in {"assigning", "assigned"} => S[r.task] = r.seen /\ r.seen.status \notin Terminal
    /\ r.pc \in {"delegating", "delegated"} => S[r.task] = r.seen
    /\ r.pc = "moving" => S[r.task].status \notin Terminal

AloneInv == Together /\ \A h \in Handler \ met : UpToDate(tasks, req[h])

MetStep ==
    met' = {h \in Handler : \E t \in Task :
               /\ WorksOn(h, t)'
               /\ h \in met \/ \E k \in Handler \ {h} : WorksOn(k, t)'}

LEMMA TogetherStep ==
    ASSUME MetStep
    PROVE  Together'
BY DEF MetStep, Together

\* A request that works on a task works on one of the model's.
LEMMA WorkedTask ==
    ASSUME IInv, NEW h \in Handler, req[h].pc \notin {"idle", "creating"}
    PROVE  /\ req[h].task \in DOMAIN tasks
           /\ req[h].task \in Task
           /\ WorksOn(h, req[h].task)
BY DEF IInv, TypeOK, IsTable, Request, SoundRequest, WorksOn

\* What a request on a task does to the request itself and to the tasks.
LEMMA TaskStep ==
    ASSUME IInv, TaskNext
    PROVE  \E h \in Handler :
              /\ \A k \in Handler \ {h} : req'[k] = req[k]
              /\ \/ /\ tasks' = tasks
                    /\ \/ req'[h].pc \in {"idle", "creating"}
                       \/ UpToDate(tasks, req'[h])
                       \/ /\ req[h].pc \notin {"idle", "creating"}
                          /\ req'[h].task = req[h].task
                          /\ UpToDate(tasks, req[h]) => UpToDate(tasks, req'[h])
                 \/ /\ req'[h].pc = "idle"
                    /\ \A t \in DOMAIN tasks : tasks'[t] # tasks[t] => WorksOn(h, t)
<1> PICK h \in Handler :
        \/ \E d, e \in Department, a \in Agent \cup {None} : CreateBegin(h, d, e, a)
        \/ \E t \in Task :
              \/ CreateCommit(h, t)
              \/ \E a \in Agent : AssignRead(h, t, a)
              \/ \E to \in TaskStatus : TransitionRead(h, t, to)
              \/ \E b \in Bridge, a \in Agent : DelegateRead(h, t, b, a)
        \/ AssignCheck(h) \/ AssignCommit(h)
        \/ TransitionCommit(h)
        \/ DelegateCheck(h) \/ DelegateCommit(h) \/ DelegateRefused(h)
        \/ Abort(h)
  BY DEF TaskNext
<1> DEFINE Kept == \A k \in Handler \ {h} : req'[k] = req[k]
           Goes == /\ tasks' = tasks
                   /\ \/ req'[h].pc \in {"idle", "creating"}
                      \/ UpToDate(tasks, req'[h])
                      \/ /\ req[h].pc \notin {"idle", "creating"}
                         /\ req'[h].task = req[h].task
                         /\ UpToDate(tasks, req[h]) => UpToDate(tasks, req'[h])
           Ends == /\ req'[h].pc = "idle"
                   /\ \A t \in DOMAIN tasks : tasks'[t] # tasks[t] => WorksOn(h, t)
<1>1. SUFFICES Kept /\ (Goes \/ Ends)
  OBVIOUS
<1>2. ASSUME NEW d \in Department, NEW e \in Department, NEW a \in Agent \cup {None},
             CreateBegin(h, d, e, a)
      PROVE  Kept /\ Goes
  BY <1>2 DEF CreateBegin, IInv, TypeOK
<1>3. ASSUME NEW t \in Task, CreateCommit(h, t)
      PROVE  Kept /\ Ends
  BY <1>3, IdleRequest DEF CreateCommit, EndRequest, Inserted, IInv, TypeOK
<1>4. ASSUME NEW t \in Task, NEW a \in Agent, AssignRead(h, t, a)
      PROVE  Kept /\ Goes
  BY <1>4 DEF AssignRead, UpToDate, IInv, TypeOK
<1>5. ASSUME NEW t \in Task, NEW to \in TaskStatus, TransitionRead(h, t, to)
      PROVE  Kept /\ Goes
  <2>1. tasks[t].status \in TaskStatus
    BY <1>5, SeenTask DEF TransitionRead, TaskRow
  <2>2. tasks[t].status \notin Terminal
    BY <1>5, <2>1 DEF TransitionRead, ValidTransitions, TaskStatus, Terminal
  <2> QED
    BY <1>5, <2>2 DEF TransitionRead, UpToDate, IInv, TypeOK
<1>6. ASSUME NEW t \in Task, NEW b \in Bridge, NEW a \in Agent, DelegateRead(h, t, b, a)
      PROVE  Kept /\ Goes
  BY <1>6 DEF DelegateRead, UpToDate, IInv, TypeOK
<1>7. CASE AssignCheck(h)
  <2>1. /\ req[h].pc = "assigning"
        /\ req'[h] = [req[h] EXCEPT !.pc = "assigned"]
        /\ Kept
        /\ tasks' = tasks
    BY <1>7 DEF AssignCheck, IInv, TypeOK
  <2> QED
    BY <2>1, RequestFields DEF UpToDate, IInv, TypeOK
<1>8. CASE DelegateCheck(h)
  <2>1. /\ req[h].pc = "delegating"
        /\ req'[h] = [req[h] EXCEPT !.pc = "delegated"]
        /\ Kept
        /\ tasks' = tasks
    BY <1>8 DEF DelegateCheck, IInv, TypeOK
  <2> QED
    BY <2>1, RequestFields DEF UpToDate, IInv, TypeOK
<1>9. CASE AssignCommit(h) \/ TransitionCommit(h) \/ DelegateCommit(h)
  <2>1. Kept /\ req'[h].pc = "idle" /\ WorksOn(h, req[h].task)
    BY <1>9, IdleRequest
       DEF AssignCommit, TransitionCommit, DelegateCommit, EndRequest, WorksOn, IInv, TypeOK
  <2>2. \A t \in DOMAIN tasks : t # req[h].task => tasks'[t] = tasks[t]
    BY <1>9 DEF AssignCommit, TransitionCommit, DelegateCommit, Reassigned, IInv, TypeOK, IsTable
  <2> QED
    BY <2>1, <2>2
<1>10. CASE DelegateRefused(h) \/ Abort(h)
  BY <1>10, IdleRequest DEF DelegateRefused, Abort, EndRequest, IInv, TypeOK
<1> QED
  BY <1>2, <1>3, <1>4, <1>5, <1>6, <1>7, <1>8, <1>9, <1>10

LEMMA AloneStep ==
    ASSUME IInv, IInv', AloneInv, MetStep, TaskNext
    PROVE  AloneInv'
<1> PICK h \in Handler :
       /\ \A k \in Handler \ {h} : req'[k] = req[k]
       /\ \/ /\ tasks' = tasks
             /\ \/ req'[h].pc \in {"idle", "creating"}
                \/ UpToDate(tasks, req'[h])
                \/ /\ req[h].pc \notin {"idle", "creating"}
                   /\ req'[h].task = req[h].task
                   /\ UpToDate(tasks, req[h]) => UpToDate(tasks, req'[h])
          \/ /\ req'[h].pc = "idle"
             /\ \A t \in DOMAIN tasks : tasks'[t] # tasks[t] => WorksOn(h, t)
  BY TaskStep
<1>1. ASSUME NEW k \in Handler \ met'
      PROVE  UpToDate(tasks', req'[k])
  <2>1. CASE req'[k].pc \in {"idle", "creating"}
    BY <2>1 DEF UpToDate
  <2>2. CASE req'[k].pc \notin {"idle", "creating"}
    <3>0. PICK t : t = req'[k].task
      OBVIOUS
    <3>1. t \in Task /\ WorksOn(k, t)'
      <4>1. req'[k] \in Request
        BY DEF IInv, TypeOK
      <4> QED
        BY <2>2, <3>0, <4>1 DEF Request, WorksOn
    <3>2. k \notin met
      BY <3>1 DEF MetStep
    <3>3. UpToDate(tasks, req[k])
      BY <3>2 DEF AloneInv
    <3>4. CASE k = h
      BY <2>2, <3>3, <3>4
    <3>5. CASE k # h
      <4>1. req'[k] = req[k] /\ WorksOn(k, t)
        BY <2>2, <3>0, <3>5 DEF WorksOn
      <4>2. ~WorksOn(h, t)
        BY <3>1, <3>2, <3>5, <4>1 DEF AloneInv, Together
      <4>3. t \in DOMAIN tasks
        BY <2>2, <3>0, <4>1, WorkedTask
      <4>4. tasks'[t] = tasks[t]
        BY <4>2, <4>3
      <4> QED
        BY <3>0, <3>3, <4>1, <4>4 DEF UpToDate
    <3> QED
      BY <3>4, <3>5
  <2> QED
    BY <2>1, <2>2
<1> QED
  BY <1>1, TogetherStep DEF AloneInv

LEMMA AloneInvariance == HistorySpec => []AloneInv
<1>1. HistoryInit => AloneInv
  BY IdleRequest DEF HistoryInit, Init, AloneInv, Together, UpToDate, WorksOn
<1>2. ASSUME IInv, IInv', AloneInv, [HistoryNext]_historyVars
      PROVE  AloneInv'
  <2>1. CASE HistoryNext /\ TaskNext
    BY <1>2, <2>1, AloneStep DEF HistoryNext, MetStep
  <2>2. CASE HistoryNext /\ UNCHANGED taskVars
    <3>1. MetStep /\ tasks' = tasks /\ req' = req
      BY <2>2 DEF HistoryNext, MetStep, taskVars
    <3>2. \A h \in Handler \ met' : req[h].pc \notin {"idle", "creating"} => h \notin met
      BY <1>2, <3>1, WorkedTask DEF MetStep, WorksOn
    <3>3. \A h \in Handler \ met' : UpToDate(tasks', req'[h])
      BY <1>2, <3>1, <3>2 DEF AloneInv, UpToDate
    <3> QED
      BY <3>1, <3>3, TogetherStep DEF AloneInv
  <2>3. CASE UNCHANGED historyVars
    BY <1>2, <2>3 DEF historyVars, vars, AloneInv, Together, UpToDate, WorksOn
  <2> QED
    BY <1>2, <2>1, <2>2, <2>3 DEF HistoryNext, Next
<1>3. IInv /\ IInv' /\ AloneInv /\ [HistoryNext]_historyVars => AloneInv'
  BY <1>2
<1> QED
  BY <1>1, <1>3, HistoryKept, PTL DEF HistorySpec

\* A request that is alone with a finished task changes it only by delegating it,
\* which reopens it and is on record; for any number of requests.
THEOREM DelegationsReopen == HistorySpec => OnlyDelegationReopens
<1>1. ASSUME IInv, AloneInv, [Next]_vars, NEW t \in DOMAIN tasks, NEW h \in Handler \ met,
             WorksOn(h, t), req'[h].pc = "idle", tasks[t].status \in Terminal,
             tasks'[t] # tasks[t]
      PROVE  /\ tasks'[t].status = "ASSIGNED"
             /\ \E g \in delegations' : g.task = t /\ g.to = tasks'[t].agent
  <2>1. UpToDate(tasks, req[h])
    BY <1>1 DEF AloneInv
  <2>2. req'[h] # req[h] /\ tasks' # tasks
    BY <1>1 DEF WorksOn
  <2>3. TaskNext
    BY <1>1, <2>2 DEF Next, vars, taskVars
  <2>4. AssignCommit(h) \/ TransitionCommit(h) \/ DelegateCommit(h)
    <3>1. PICK k \in Handler :
            \/ \E u \in Task : CreateCommit(k, u)
            \/ AssignCommit(k) \/ TransitionCommit(k) \/ DelegateCommit(k)
      BY <2>2, <2>3
         DEF TaskNext, CreateBegin, AssignRead, TransitionRead, DelegateRead, AssignCheck,
             DelegateCheck, DelegateRefused, Abort
    <3>2. k = h
      BY <1>1, <2>2, <3>1
         DEF CreateCommit, AssignCommit, TransitionCommit, DelegateCommit, EndRequest, IInv, TypeOK
    <3> QED
      BY <1>1, <3>1, <3>2 DEF CreateCommit, WorksOn
  <2>5. ~AssignCommit(h) /\ ~TransitionCommit(h)
    BY <1>1, <2>1 DEF AssignCommit, TransitionCommit, UpToDate, WorksOn
  <2>6. DelegateCommit(h) /\ req[h].task = t /\ req[h].seen = tasks[t]
    BY <1>1, <2>1, <2>4, <2>5 DEF DelegateCommit, UpToDate, WorksOn
  <2>7. tasks'[t].status = "ASSIGNED" /\ tasks'[t].agent = req[h].agent
    <3>1. tasks[t] \in TaskRow
      BY <1>1, SeenTask
    <3>2. tasks[t].status # "ASSIGNED"
      BY <1>1 DEF Terminal
    <3> QED
      BY <1>1, <2>6, <3>1, <3>2 DEF DelegateCommit, Reassigned, TaskRow, IInv, TypeOK, IsTable
  <2>8. [task |-> t, bridge |-> req[h].bridge, to |-> req[h].agent] \in delegations'
    BY <2>6 DEF DelegateCommit
  <2> QED
    BY <2>7, <2>8
<1>2. IInv /\ AloneInv /\ [Next]_vars =>
        [\A t \in DOMAIN tasks, h \in Handler \ met :
           /\ WorksOn(h, t)
           /\ req'[h].pc = "idle"
           /\ tasks[t].status \in Terminal
           /\ tasks'[t] # tasks[t]
           => /\ tasks'[t].status = "ASSIGNED"
              /\ \E g \in delegations' : g.task = t /\ g.to = tasks'[t].agent]_vars
  BY <1>1
<1>3. [HistoryNext]_historyVars => [Next]_vars
  BY DEF HistoryNext, historyVars
<1> QED
  BY <1>2, <1>3, HistoryKept, AloneInvariance, PTL DEF HistorySpec, OnlyDelegationReopens
=============================================================================
