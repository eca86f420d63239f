---------------------------- MODULE BridgedTasks ----------------------------
(***************************************************************************)
(* Tasks and their delegation across bridges: services/tasks/service.py    *)
(* over the tables tasks and task_delegations, composed with Bridges.      *)
(*                                                                         *)
(* A task that passes between departments needs a bridge between them.     *)
(* Every function reads the task, then the bridges, and writes at the      *)
(* commit, without a lock: the task or the bridge may have changed by      *)
(* then.                                                                   *)
(*                                                                         *)
(* The API runs as the database role mercury_runtime, which may update a   *)
(* task's status and agent but not its department                          *)
(* (scripts/apply_runtime_privileges.sh).                                  *)
(***************************************************************************)
EXTENDS Integers, Rows

CONSTANTS
    Approver, Department, Bridge, MaxTime,  \* see Bridges
    Handler,      \* requests on tasks, in flight
    Agent,
    Task,         \* primary keys of tasks
    DeptOf,       \* agents.department_id, which no statement changes
    None          \* a NULL column

ASSUME TasksAssumption ==
    /\ MaxTime \in Nat
    /\ DeptOf \in [Agent -> Department \cup {None}]
    /\ None \notin Department \cup Agent

VARIABLES
    bridges, now, breq,   \* see Bridges
    tasks,        \* the committed rows of tasks
    delegations,  \* the committed rows of task_delegations
    req           \* the local variables of each request on a task

B == INSTANCE Bridges

taskVars == <<tasks, delegations, req>>
vars == <<bridges, now, breq, tasks, delegations, req>>

TaskStatus == {"CREATED", "ASSIGNED", "IN_PROGRESS", "BLOCKED", "AWAITING_REVIEW",
               "COMPLETED", "FAILED", "CANCELLED"}

Terminal == {"COMPLETED", "FAILED", "CANCELLED"}

\* VALID_TRANSITIONS
ValidTransitions ==
    [CREATED         |-> {"ASSIGNED", "CANCELLED"},
     ASSIGNED        |-> {"IN_PROGRESS", "BLOCKED", "CANCELLED"},
     IN_PROGRESS     |-> {"AWAITING_REVIEW", "BLOCKED", "COMPLETED", "FAILED", "CANCELLED"},
     BLOCKED         |-> {"IN_PROGRESS", "CANCELLED", "FAILED"},
     AWAITING_REVIEW |-> {"COMPLETED", "IN_PROGRESS", "FAILED"},
     COMPLETED |-> {}, FAILED |-> {}, CANCELLED |-> {}]

\* origin_department_id, assigned_department_id, assigned_agent_id, status
TaskRow == [origin: Department, dept: Department, agent: Agent \cup {None},
            status: TaskStatus]

Delegation == [task: Task, bridge: Bridge, to: Agent]

Request ==
    [pc: {"idle"}]
    \cup [pc: {"creating"}, row: TaskRow]
    \cup [pc: {"assigning", "assigned"}, task: Task, seen: TaskRow, agent: Agent]
    \cup [pc: {"moving"}, task: Task, to: TaskStatus]
    \cup [pc: {"delegating", "delegated"}, task: Task, seen: TaskRow, agent: Agent,
          bridge: Bridge]

TypeOK ==
    /\ B!TypeOK
    /\ IsTable(tasks, Task, TaskRow)
    /\ delegations \subseteq Delegation
    /\ req \in [Handler -> Request]

Init ==
    /\ B!Init
    /\ tasks = EmptyTable
    /\ delegations = {}
    /\ req = [h \in Handler |-> B!Idle]

-----------------------------------------------------------------------------
EndRequest(h) == req' = [req EXCEPT ![h] = B!Idle]

\* The task t given to the agent a by a request that read its row as `seen':
\* the ORM writes the columns that differ from what it read.
Reassigned(t, seen, a) ==
    [tasks EXCEPT ![t].agent = IF seen.agent = a THEN @ ELSE a,
                  ![t].status = IF seen.status = "ASSIGNED" THEN @ ELSE "ASSIGNED"]

-----------------------------------------------------------------------------
(* POST /tasks *)

\* Bug: only the agent's department is checked.
CreateBegin_unbridged(h, d, e, a) ==
    /\ req[h].pc = "idle"
    /\ a # None => DeptOf[a] = e
    /\ req' = [req EXCEPT ![h] =
                 [pc |-> "creating",
                  row |-> [origin |-> d, dept |-> e, agent |-> a,
                           status |-> IF a = None THEN "CREATED" ELSE "ASSIGNED"]]]
    /\ UNCHANGED <<tasks, delegations>>

CreateBegin(h, d, e, a) ==
    /\ req[h].pc = "idle"
    /\ d # e => B!CheckActiveBridge(d, e)
    /\ a # None => DeptOf[a] = e
    /\ req' = [req EXCEPT ![h] =
                 [pc |-> "creating",
                  row |-> [origin |-> d, dept |-> e, agent |-> a,
                           status |-> IF a = None THEN "CREATED" ELSE "ASSIGNED"]]]
    /\ UNCHANGED <<tasks, delegations>>

CreateCommit(h, t) ==
    /\ req[h].pc = "creating"
    /\ t \notin DOMAIN tasks
    /\ tasks' = Inserted(tasks, t, req[h].row)
    /\ EndRequest(h)
    /\ UNCHANGED delegations

-----------------------------------------------------------------------------
(* POST /tasks/{id}/assign *)

\* Bug: a task is assigned whatever its status.
AssignRead_anyStatus(h, t, a) ==
    /\ req[h].pc = "idle"
    /\ t \in DOMAIN tasks
    /\ req' = [req EXCEPT ![h] = [pc |-> "assigning", task |-> t, seen |-> tasks[t],
                                  agent |-> a]]
    /\ UNCHANGED <<tasks, delegations>>

AssignRead(h, t, a) ==
    /\ req[h].pc = "idle"
    /\ t \in DOMAIN tasks
    /\ tasks[t].status \notin Terminal
    /\ req' = [req EXCEPT ![h] = [pc |-> "assigning", task |-> t, seen |-> tasks[t],
                                  agent |-> a]]
    /\ UNCHANGED <<tasks, delegations>>

AssignCheck(h) ==
    /\ req[h].pc = "assigning"
    /\ DeptOf[req[h].agent] # req[h].seen.dept
          => B!CheckActiveBridge(req[h].seen.dept, DeptOf[req[h].agent])
    /\ req' = [req EXCEPT ![h].pc = "assigned"]
    /\ UNCHANGED <<tasks, delegations>>

AssignCommit(h) ==
    /\ req[h].pc = "assigned"
    /\ tasks' = Reassigned(req[h].task, req[h].seen, req[h].agent)
    /\ EndRequest(h)
    /\ UNCHANGED delegations

-----------------------------------------------------------------------------
(* POST /tasks/{id}/transition *)

TransitionRead(h, t, to) ==
    /\ req[h].pc = "idle"
    /\ t \in DOMAIN tasks
    /\ to \in ValidTransitions[tasks[t].status]
    /\ req' = [req EXCEPT ![h] = [pc |-> "moving", task |-> t, to |-> to]]
    /\ UNCHANGED <<tasks, delegations>>

\* Bug: the status is written as the client spelt it.
TransitionCommit_raw(h) ==
    /\ req[h].pc = "moving"
    /\ tasks' = [tasks EXCEPT ![req[h].task].status = "DONE"]
    /\ EndRequest(h)
    /\ UNCHANGED delegations

TransitionCommit(h) ==
    /\ req[h].pc = "moving"
    /\ tasks' = [tasks EXCEPT ![req[h].task].status = req[h].to]
    /\ EndRequest(h)
    /\ UNCHANGED delegations

-----------------------------------------------------------------------------
(* POST /tasks/delegate *)

\* The task's status is not looked at.
DelegateRead(h, t, b, a) ==
    /\ req[h].pc = "idle"
    /\ t \in DOMAIN tasks
    /\ req' = [req EXCEPT ![h] = [pc |-> "delegating", task |-> t, seen |-> tasks[t],
                                  agent |-> a, bridge |-> b]]
    /\ UNCHANGED <<tasks, delegations>>

\* The agent must be at one end of the bridge; where the task is, is not asked.
DelegateCheck(h) ==
    /\ req[h].pc = "delegating"
    /\ req[h].bridge \in DOMAIN bridges
    /\ B!Usable(req[h].bridge)
    /\ DeptOf[req[h].agent] \in bridges[req[h].bridge].ends
    /\ req' = [req EXCEPT ![h].pc = "delegated"]
    /\ UNCHANGED <<tasks, delegations>>

\* The database takes the update if it leaves the department as it is.
Lands(h) == DeptOf[req[h].agent] = req[h].seen.dept

DelegateCommit(h) ==
    /\ req[h].pc = "delegated"
    /\ Lands(h)
    /\ tasks' = Reassigned(req[h].task, req[h].seen, req[h].agent)
    /\ delegations' = delegations \cup
          {[task |-> req[h].task, bridge |-> req[h].bridge, to |-> req[h].agent]}
    /\ EndRequest(h)

\* assigned_department_id would change, and the role may not update it.
DelegateRefused(h) ==
    /\ req[h].pc = "delegated"
    /\ ~Lands(h)
    /\ EndRequest(h)
    /\ UNCHANGED <<tasks, delegations>>

-----------------------------------------------------------------------------
\* The transaction is rolled back.
Abort(h) ==
    /\ req[h].pc # "idle"
    /\ EndRequest(h)
    /\ UNCHANGED <<tasks, delegations>>

TaskNext ==
    \E h \in Handler :
        \/ \E d, e \in Department, a \in Agent \cup {None} : CreateBegin(h, d, e, a)
        \/ \E t \in Task :
              \/ CreateCommit(h, t)
              \/ \E a \in Agent : AssignRead(h, t, a)
              \/ \E to \in TaskStatus : TransitionRead(h, t, to)
              \/ \E b \in Bridge, a \in Agent : DelegateRead(h, t, b, a)
        \/ AssignCheck(h) \/ AssignCommit(h)
        \/ TransitionCommit(h)
        \/ DelegateCheck(h) \/ DelegateCommit(h) \/ DelegateRefused(h)
        \/ Abort(h)

Next ==
    \/ B!Next /\ UNCHANGED taskVars
    \/ TaskNext /\ UNCHANGED <<bridges, now, breq>>

Spec == Init /\ [][Next]_vars

-----------------------------------------------------------------------------
(* Properties *)

\* A bridge between the departments d and e has been approved, at some time.
Bridged(d, e) ==
    \E b \in DOMAIN bridges : bridges[b].approved /\ bridges[b].ends = {d, e}

\* No work passes between two departments that no approved bridge has joined:
\* not a task from one to the other, not an agent of one on a task of the
\* other, and no delegation over a bridge that was not approved or does not
\* reach the agent's department.
WorkIsBridged ==
    /\ \A t \in DOMAIN tasks :
          /\ tasks[t].origin # tasks[t].dept => Bridged(tasks[t].origin, tasks[t].dept)
          /\ tasks[t].agent # None /\ DeptOf[tasks[t].agent] # tasks[t].dept
                => Bridged(tasks[t].dept, DeptOf[tasks[t].agent])
    /\ \A g \in delegations :
          /\ g.bridge \in DOMAIN bridges /\ bridges[g.bridge].approved
          /\ DeptOf[g.to] \in bridges[g.bridge].ends
=============================================================================
