-------------------------- MODULE PermissionEngine --------------------------
(***************************************************************************)
(* The rules by which an actor may act: services/permissions/engine.py.    *)
(*                                                                         *)
(* authorize returns at the first rule that decides.  Which one it was is  *)
(* the `reason' of the answer and is left out; the decision is ALLOW when  *)
(* no rule denies and one allows.                                          *)
(***************************************************************************)
CONSTANT None   \* an argument that is not given

Role == {"OWNER", "CEO", "HR", "DEPARTMENT_MANAGER", "WORKER",
         "TEMPORARY_SUB_AGENT", "VERIFIER", "JUDGE"}

RunState == {"NORMAL", "DEGRADED", "EMERGENCY_SHUTDOWN"}

\* The actions a degraded system refuses.
Suspendable ==
    {"create_worker", "create_hr", "execute_task", "execute_tool", "promote_candidate"}

PermissionChange == {"grant_permission", "revoke_permission", "change_own_permissions"}

Review == {"approve_output", "verify_task", "judge_submission"}

\* The roles but OWNER that an action is open to.
PermittedRoles(action) ==
    CASE action = "create_hr" -> {"CEO"}
      [] action \in {"create_worker", "assign_worker", "create_permanent_agent",
                     "terminate_worker"} -> {"CEO", "HR"}
      [] action \in {"execute_task", "perform_work"} ->
            {"WORKER", "TEMPORARY_SUB_AGENT", "DEPARTMENT_MANAGER", "CEO",
             "VERIFIER", "JUDGE"}
      [] action \in {"execute_tool", "call_tool"} -> {"WORKER", "TEMPORARY_SUB_AGENT"}
      [] action \in {"verify_task", "judge_submission"} -> {"VERIFIER", "JUDGE"}
      [] OTHER -> {}

\* Check 1, 1b: the run state lets the owner do anything.
SystemOpen(r) ==
    \/ r.role = "OWNER"
    \/ r.runState = "NORMAL"
    \/ r.runState = "DEGRADED" /\ r.action \notin Suspendable

\* Check 2, 3
InGoodStanding(r) == r.actor # None /\ r.status = "ACTIVE"

\* Check 4: nobody touches their own permissions or reviews their own work.
Impartial(r) ==
    /\ r.action \in PermissionChange => r.targetAgent # r.actor
    /\ r.action \in Review => r.author # r.actor

\* Check 5, 6: a manager assigns workers within the own department.
RolePermits(r) ==
    \/ r.role = "OWNER"
    \/ r.role \in PermittedRoles(r.action)
    \/ /\ r.action = "assign_worker"
       /\ r.role = "DEPARTMENT_MANAGER"
       /\ r.dept # None
       /\ r.dept = r.targetDept

Authorize(r) ==
    /\ SystemOpen(r)
    /\ InGoodStanding(r)
    /\ Impartial(r)
    /\ RolePermits(r)
=============================================================================
