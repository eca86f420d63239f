---------------------------- MODULE Departments -----------------------------
(***************************************************************************)
(* Departments and what is admitted to them: services/departments/         *)
(* service.py over the table departments, and the departments' side of     *)
(* create_agent, request_bridge and create_task.                           *)
(*                                                                         *)
(* Nothing here takes a lock: a status is read with a plain SELECT, and    *)
(* what is derived from it is written at the commit.  A department's name  *)
(* is unique and never changes, so it is named by it.                      *)
(*                                                                         *)
(* What else an admission asks for (a bridge, an active agent) and the row *)
(* it inserts belong to BridgedTasks, Bridges and AgentLifecycle; being    *)
(* refused leaves no trace.                                                *)
(***************************************************************************)
EXTENDS Rows

CONSTANTS
    Handler,      \* requests in flight
    Department,   \* names
    Seeded,       \* the departments migration 003 inserts
    None          \* the second department of an agent

\* What the constants are assumed to be.
DepartmentsAssumption ==
    /\ Seeded \subseteq Department
    /\ None \notin Department

VARIABLES
    departments,  \* the committed status of each row of departments
    dreq          \* the local variables of each request

departmentVars == <<departments, dreq>>

\* Of the statuses the table allows, these are the ones that are written.
Status == {"PROPOSED", "ACTIVE", "SUSPENDED"}

\* An agent has one department, a bridge and a task have two, and a task's may be
\* the same.
Admission == [from: Department, to: Department \cup {None}]

Request == [pc: {"idle"}]
           \cup [pc: {"proposing"}, name: Department]
           \cup [pc: {"changing"}, name: Department, seen: Status, to: {"ACTIVE", "SUSPENDED"}]
           \cup [pc: {"admitting", "admitted"}, what: Admission]

Idle == [pc |-> "idle"]

TypeOK ==
    /\ IsTable(departments, Department, Status)
    /\ dreq \in [Handler -> Request]

Init ==
    /\ departments = [d \in Seeded |-> "ACTIVE"]
    /\ dreq = [h \in Handler |-> Idle]

-----------------------------------------------------------------------------
Exists(d) == d \in DOMAIN departments

Active(d) == Exists(d) /\ departments[d] = "ACTIVE"

EndRequest(h) == dreq' = [dreq EXCEPT ![h] = Idle]

-----------------------------------------------------------------------------
(* POST /departments/proposals *)

ProposeRead(h, d) ==
    /\ dreq[h].pc = "idle"
    /\ ~Exists(d)
    /\ dreq' = [dreq EXCEPT ![h] = [pc |-> "proposing", name |-> d]]
    /\ UNCHANGED departments

\* Bug: a new department starts in PILOT, which the table allows and nothing reads.
ProposeCommit_pilot(h) ==
    /\ dreq[h].pc = "proposing"
    /\ ~Exists(dreq[h].name)
    /\ departments' = Inserted(departments, dreq[h].name, "PILOT")
    /\ EndRequest(h)

ProposeCommit(h) ==
    /\ dreq[h].pc = "proposing"
    /\ ~Exists(dreq[h].name)
    /\ departments' = Inserted(departments, dreq[h].name, "PROPOSED")
    /\ EndRequest(h)

\* uq_departments_name: another request has inserted it.
ProposeRefused(h) ==
    /\ dreq[h].pc = "proposing"
    /\ Exists(dreq[h].name)
    /\ EndRequest(h)
    /\ UNCHANGED departments

-----------------------------------------------------------------------------
(* POST /departments/{id}/approve and .../{id}/suspend *)

\* Neither asks for the status the department has.
ChangeRead(h, d, to) ==
    /\ dreq[h].pc = "idle"
    /\ Exists(d)
    /\ dreq' = [dreq EXCEPT ![h] = [pc |-> "changing", name |-> d, to |-> to,
                                    seen |-> departments[d]]]
    /\ UNCHANGED departments

\* The ORM writes the status only when it differs from the one it read.
ChangeCommit(h) ==
    LET d == dreq[h].name IN
    /\ dreq[h].pc = "changing"
    /\ departments' = [departments EXCEPT ![d] =
                         IF dreq[h].seen = dreq[h].to THEN @ ELSE dreq[h].to]
    /\ EndRequest(h)

-----------------------------------------------------------------------------
(* POST /agents, POST /bridges and POST /tasks *)

\* The first department is looked up.
AdmitRead(h, what) ==
    /\ dreq[h].pc = "idle"
    /\ Active(what.from)
    /\ dreq' = [dreq EXCEPT ![h] = [pc |-> "admitting", what |-> what]]
    /\ UNCHANGED departments

\* Bug: of the second department only its existence is asked.
AdmitCheck_existing(h) ==
    /\ dreq[h].pc = "admitting"
    /\ dreq[h].what.to # None => Exists(dreq[h].what.to)
    /\ dreq' = [dreq EXCEPT ![h].pc = "admitted"]
    /\ UNCHANGED departments

\* Then the second; for an agent there is none.
AdmitCheck(h) ==
    /\ dreq[h].pc = "admitting"
    /\ dreq[h].what.to # None => Active(dreq[h].what.to)
    /\ dreq' = [dreq EXCEPT ![h].pc = "admitted"]
    /\ UNCHANGED departments

\* The agent, the bridge or the task is inserted.
AdmitCommit(h) ==
    /\ dreq[h].pc = "admitted"
    /\ EndRequest(h)
    /\ UNCHANGED departments

-----------------------------------------------------------------------------
\* The transaction is rolled back.
Abort(h) ==
    /\ dreq[h].pc # "idle"
    /\ EndRequest(h)
    /\ UNCHANGED departments

Next ==
    \E h \in Handler :
        \/ \E d \in Department :
              \/ ProposeRead(h, d)
              \/ \E to \in {"ACTIVE", "SUSPENDED"} : ChangeRead(h, d, to)
        \/ \E what \in Admission : AdmitRead(h, what)
        \/ ProposeCommit(h) \/ ProposeRefused(h)
        \/ ChangeCommit(h)
        \/ AdmitCheck(h) \/ AdmitCommit(h)
        \/ Abort(h)

Spec == Init /\ [][Next]_departmentVars
=============================================================================
