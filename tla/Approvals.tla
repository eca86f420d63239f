----------------------------- MODULE Approvals ------------------------------
(***************************************************************************)
(* Requests for the owner's decision: services/governance/approvals.py     *)
(* over the table approvals.                                               *)
(*                                                                         *)
(* A decision locks the row before it looks at it and writes at the        *)
(* commit.  The routes decide as the owner, who may decide every risk      *)
(* level, so the level is left out.                                        *)
(***************************************************************************)
EXTENDS Rows

CONSTANTS
    Handler,    \* requests in flight
    Approval    \* primary keys of approvals

VARIABLES
    approvals,  \* the committed rows of approvals
    areq        \* the local variables of each request

approvalVars == <<approvals, areq>>

Decision == {"APPROVED", "REJECTED"}

\* `by' is the request that decided and stands for decision, decided_by, reason
\* and decided_at, which it brings along.
ApprovalRow == [status: {"PENDING"}]
               \cup [status: Decision, by: Handler]

Request == [pc: {"idle"}]
           \cup [pc: {"deciding", "decided"}, approval: Approval, decision: Decision]

Idle == [pc |-> "idle"]

TypeOK ==
    /\ IsTable(approvals, Approval, ApprovalRow)
    /\ areq \in [Handler -> Request]

Init ==
    /\ approvals = EmptyTable
    /\ areq = [h \in Handler |-> Idle]

-----------------------------------------------------------------------------
Pending(a) == approvals[a].status = "PENDING"

\* FOR UPDATE returns once no other transaction holds the row.
Unlocked(a) == \A h \in Handler : ~(areq[h].pc = "decided" /\ areq[h].approval = a)

EndRequest(h) == areq' = [areq EXCEPT ![h] = Idle]

-----------------------------------------------------------------------------
\* POST /approvals
CreateApproval(a) ==
    /\ a \notin DOMAIN approvals
    /\ approvals' = Inserted(approvals, a, [status |-> "PENDING"])
    /\ UNCHANGED areq

\* POST /approvals/{id}/approve and POST /approvals/{id}/reject
DecideBegin(h, a, d) ==
    /\ areq[h].pc = "idle"
    /\ a \in DOMAIN approvals
    /\ areq' = [areq EXCEPT ![h] = [pc |-> "deciding", approval |-> a, decision |-> d]]
    /\ UNCHANGED approvals

\* Bug: the row is read without FOR UPDATE.
DecideLock_plain(h) ==
    /\ areq[h].pc = "deciding"
    /\ Pending(areq[h].approval)
    /\ areq' = [areq EXCEPT ![h].pc = "decided"]
    /\ UNCHANGED approvals

DecideLock(h) ==
    /\ areq[h].pc = "deciding"
    /\ Unlocked(areq[h].approval)
    /\ Pending(areq[h].approval)
    /\ areq' = [areq EXCEPT ![h].pc = "decided"]
    /\ UNCHANGED approvals

\* "Approval already in status"
DecideDeny(h) ==
    /\ areq[h].pc = "deciding"
    /\ Unlocked(areq[h].approval)
    /\ ~Pending(areq[h].approval)
    /\ EndRequest(h)
    /\ UNCHANGED approvals

DecideCommit(h) ==
    /\ areq[h].pc = "decided"
    /\ approvals' = [approvals EXCEPT ![areq[h].approval] =
                       [status |-> areq[h].decision, by |-> h]]
    /\ EndRequest(h)

\* The transaction is rolled back.
Abort(h) ==
    /\ areq[h].pc # "idle"
    /\ EndRequest(h)
    /\ UNCHANGED approvals

Next ==
    \/ \E a \in Approval : CreateApproval(a)
    \/ \E h \in Handler :
          \/ \E a \in Approval, d \in Decision : DecideBegin(h, a, d)
          \/ DecideLock(h) \/ DecideDeny(h) \/ DecideCommit(h)
          \/ Abort(h)

Spec == Init /\ [][Next]_approvalVars

-----------------------------------------------------------------------------
(* Properties *)

\* A decision stands: of two requests that decide one approval at the same time,
\* the second finds it decided and changes neither the outcome nor the record
\* of who decided it and why.
DecisionStands ==
    [][\A a \in DOMAIN approvals :
          ~Pending(a) => a \in DOMAIN approvals' /\ approvals'[a] = approvals[a]]_approvalVars
=============================================================================
