------------------------------ MODULE Bridges -------------------------------
(***************************************************************************)
(* Cross-department bridges: services/bridges/service.py over the table    *)
(* cross_department_bridges.                                               *)
(*                                                                         *)
(* Approving and revoking read the row without a lock, change the loaded   *)
(* object and write the changed columns at the commit, so each is a read   *)
(* and a commit.  An approval that finds its bridge expired sets EXPIRED   *)
(* and raises, which rolls it back: EXPIRED and APPROVED are never stored. *)
(*                                                                         *)
(* Every route calls these functions as the owner, whose role passes all   *)
(* the role checks.  Whether a department is active belongs to another     *)
(* component and may change at any time: a request that is refused for it  *)
(* leaves no trace, and is Abort or a request that never was.              *)
(***************************************************************************)
EXTENDS Integers, Rows

CONSTANTS
    Approver,     \* requests that approve or revoke, in flight
    Department,
    Bridge,       \* primary keys of cross_department_bridges
    MaxTime       \* bound of the model: the clock stops there

\* What the constants are assumed to be.
BridgesAssumption == MaxTime \in Nat

VARIABLES
    bridges,      \* the committed rows of cross_department_bridges
    now,          \* datetime.now(UTC)
    breq          \* the local variables of each approving or revoking request

bridgeVars == <<bridges, now, breq>>

BridgeStatus == {"PENDING", "ACTIVE", "REVOKED"}

\* `ends' are source and target, which every check treats alike; `approved'
\* and `revoked' say that approved_by and revoked_at have been set.
BridgeRow == [ends: SUBSET Department, expires: Nat, status: BridgeStatus,
              approved: BOOLEAN, revoked: BOOLEAN]

Idle == [pc |-> "idle"]

Request == [pc: {"idle"}] \cup [pc: {"approving"}, bridge: Bridge]
           \cup [pc: {"revoking"}, bridge: Bridge, seen: BridgeStatus]

TypeOK ==
    /\ IsTable(bridges, Bridge, BridgeRow)
    /\ now \in Nat
    /\ breq \in [Approver -> Request]

Init ==
    /\ bridges = EmptyTable
    /\ now = 0
    /\ breq = [k \in Approver |-> Idle]

-----------------------------------------------------------------------------
\* Active and unexpired.
Usable(b) == bridges[b].status = "ACTIVE" /\ bridges[b].expires > now

\* check_active_bridge: in either direction.
CheckActiveBridge(d, e) == \E b \in DOMAIN bridges : Usable(b) /\ bridges[b].ends = {d, e}

EndRequest(k) == breq' = [breq EXCEPT ![k] = Idle]

-----------------------------------------------------------------------------
\* POST /bridges
RequestBridge(b, d, e, expires) ==
    /\ b \notin DOMAIN bridges
    /\ d # e
    /\ expires > now
    /\ bridges' = Inserted(bridges, b,
                     [ends |-> {d, e}, expires |-> expires, status |-> "PENDING",
                      approved |-> FALSE, revoked |-> FALSE])
    /\ UNCHANGED <<now, breq>>

\* Bug: any bridge may be approved, a revoked one too.
ApproveRead_anyStatus(k, b) ==
    /\ breq[k].pc = "idle"
    /\ b \in DOMAIN bridges
    /\ bridges[b].expires > now
    /\ breq' = [breq EXCEPT ![k] = [pc |-> "approving", bridge |-> b]]
    /\ UNCHANGED <<bridges, now>>

\* POST /bridges/{id}/approve
ApproveRead(k, b) ==
    /\ breq[k].pc = "idle"
    /\ b \in DOMAIN bridges
    /\ bridges[b].status = "PENDING"
    /\ bridges[b].expires > now
    /\ breq' = [breq EXCEPT ![k] = [pc |-> "approving", bridge |-> b]]
    /\ UNCHANGED <<bridges, now>>

ApproveCommit(k) ==
    LET b == breq[k].bridge IN
    /\ breq[k].pc = "approving"
    /\ bridges' = [bridges EXCEPT ![b].status = "ACTIVE", ![b].approved = TRUE]
    /\ EndRequest(k)
    /\ UNCHANGED now

\* POST /bridges/{id}/revoke, whatever the bridge's status.
RevokeRead(k, b) ==
    /\ breq[k].pc = "idle"
    /\ b \in DOMAIN bridges
    /\ breq' = [breq EXCEPT ![k] = [pc |-> "revoking", bridge |-> b,
                                    seen |-> bridges[b].status]]
    /\ UNCHANGED <<bridges, now>>

\* The ORM writes the status only when it differs from the one it read.
RevokeCommit(k) ==
    LET b == breq[k].bridge
        status == IF breq[k].seen = "REVOKED" THEN bridges[b].status ELSE "REVOKED" IN
    /\ breq[k].pc = "revoking"
    /\ bridges' = [bridges EXCEPT ![b].status = status, ![b].revoked = TRUE]
    /\ EndRequest(k)
    /\ UNCHANGED now

\* The transaction is rolled back.
Abort(k) ==
    /\ breq[k].pc # "idle"
    /\ EndRequest(k)
    /\ UNCHANGED <<bridges, now>>

Tick ==
    /\ now < MaxTime
    /\ now' = now + 1
    /\ UNCHANGED <<bridges, breq>>

Next ==
    \/ \E b \in Bridge, d, e \in Department, x \in 1..(MaxTime + 1) : RequestBridge(b, d, e, x)
    \/ \E k \in Approver :
          \/ \E b \in Bridge : ApproveRead(k, b) \/ RevokeRead(k, b)
          \/ ApproveCommit(k) \/ RevokeCommit(k)
          \/ Abort(k)
    \/ Tick

Spec == Init /\ [][Next]_bridgeVars

-----------------------------------------------------------------------------
(* Properties *)

\* A bridge lets work through, or has ever done so, only with an approval on
\* record, and one that is still waiting has been neither approved nor
\* revoked, however approvals and revocations interleave.
ApprovalOnRecord ==
    \A b \in DOMAIN bridges :
        /\ bridges[b].status = "ACTIVE" => bridges[b].approved
        /\ bridges[b].status = "PENDING" => ~bridges[b].approved /\ ~bridges[b].revoked
=============================================================================
