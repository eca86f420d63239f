----------------------------- MODULE Evolution ------------------------------
(***************************************************************************)
(* Evolution candidates: services/evolution/service.py over the tables     *)
(* evolution_candidates and sandbox_runs.                                  *)
(*                                                                         *)
(* A candidate is proposed, tested in a sandbox, given a share of shadow   *)
(* traffic, promoted by the owner and rolled back.  Every function reads   *)
(* the candidate without a lock, checks its status, perhaps reads its      *)
(* sandbox runs, and writes at the commit the columns it has changed.      *)
(*                                                                         *)
(* Whether the proposing agent is active belongs to another component: a   *)
(* proposal refused for it never was one.                                  *)
(***************************************************************************)
EXTENDS Integers, Rows

CONSTANTS
    Handler,      \* requests in flight
    Candidate,    \* primary keys of evolution_candidates
    Score,        \* baseline and candidate scores
    Percentage    \* the shares of traffic the owner may ask for

ASSUME EvolutionAssumption ==
    /\ Score \subseteq Int
    /\ Percentage \subseteq 1..100

VARIABLES
    candidates,   \* the committed rows of evolution_candidates
    runs,         \* the committed rows of sandbox_runs
    req           \* the local variables of each request

vars == <<candidates, runs, req>>

\* APPROVED_FOR_PROMOTION and REJECTED are never assigned.
EvolutionStatus == {"PROPOSED", "SANDBOX_TESTING", "SHADOW_DEPLOYED", "PROMOTED",
                    "ROLLED_BACK"}

SandboxVerdict == {"PASSED", "REGRESSED", "FAILED"}

\* `traffic' is shadow_traffic_percentage; `approved' says that approved_by
\* and promoted_at have been set, `reverted' that reverted_at has.
CandidateRow == [status: EvolutionStatus, traffic: 0..100, approved: BOOLEAN,
                 reverted: BOOLEAN]

Run == [candidate: Candidate, verdict: SandboxVerdict]

Request ==
    [pc: {"idle"}]
    \cup [pc: {"testing"}, run: Run, seen: CandidateRow]
    \cup [pc: {"shadowing", "shadowed"}, candidate: Candidate, seen: CandidateRow,
          percentage: Percentage]
    \cup [pc: {"promoting", "promoted", "reverting"}, candidate: Candidate,
          seen: CandidateRow]

Idle == [pc |-> "idle"]

TypeOK ==
    /\ IsTable(candidates, Candidate, CandidateRow)
    /\ runs \subseteq Run
    /\ req \in [Handler -> Request]

Init ==
    /\ candidates = EmptyTable
    /\ runs = {}
    /\ req = [h \in Handler |-> Idle]

-----------------------------------------------------------------------------
Verdict(baseline, score) ==
    CASE score < baseline                 -> "REGRESSED"
      [] score >= baseline /\ score >= 70 -> "PASSED"
      [] OTHER                            -> "FAILED"

\* Bug: any run will do.
Passed_anyRun(c) == \E r \in runs : r.candidate = c

\* The candidate c has passed a sandbox run.
Passed(c) == \E r \in runs : r.candidate = c /\ r.verdict = "PASSED"

EndRequest(h) == req' = [req EXCEPT ![h] = Idle]

\* The ORM writes `new' to a column it read as `seen' only if they differ;
\* `current' is what the column holds by now.
Written(current, seen, new) == IF seen = new THEN current ELSE new

-----------------------------------------------------------------------------
\* Bug: the candidate starts in a state that is not one of the five.
Propose_draft(c) ==
    /\ c \notin DOMAIN candidates
    /\ candidates' = Inserted(candidates, c, [status |-> "DRAFT", traffic |-> 0,
                                              approved |-> FALSE, reverted |-> FALSE])
    /\ UNCHANGED <<runs, req>>

\* POST /evolution/candidates
Propose(c) ==
    /\ c \notin DOMAIN candidates
    /\ candidates' = Inserted(candidates, c, [status |-> "PROPOSED", traffic |-> 0,
                                              approved |-> FALSE, reverted |-> FALSE])
    /\ UNCHANGED <<runs, req>>

-----------------------------------------------------------------------------
(* POST /evolution/candidates/{id}/sandbox *)

SandboxRead(h, c, baseline, score) ==
    /\ req[h].pc = "idle"
    /\ c \in DOMAIN candidates
    /\ candidates[c].status \in {"PROPOSED", "SANDBOX_TESTING"}
    /\ req' = [req EXCEPT ![h] =
                 [pc |-> "testing", seen |-> candidates[c],
                  run |-> [candidate |-> c, verdict |-> Verdict(baseline, score)]]]
    /\ UNCHANGED <<candidates, runs>>

SandboxCommit(h) ==
    LET c == req[h].run.candidate IN
    /\ req[h].pc = "testing"
    /\ runs' = runs \cup {req[h].run}
    /\ candidates' = [candidates EXCEPT ![c].status =
                         Written(@, req[h].seen.status, "SANDBOX_TESTING")]
    /\ EndRequest(h)

-----------------------------------------------------------------------------
(* POST /evolution/candidates/{id}/shadow *)

ShadowRead(h, c, percentage) ==
    /\ req[h].pc = "idle"
    /\ c \in DOMAIN candidates
    /\ candidates[c].status \in {"SANDBOX_TESTING", "SHADOW_DEPLOYED"}
    /\ req' = [req EXCEPT ![h] = [pc |-> "shadowing", candidate |-> c,
                                  seen |-> candidates[c], percentage |-> percentage]]
    /\ UNCHANGED <<candidates, runs>>

ShadowCheck(h) ==
    /\ req[h].pc = "shadowing"
    /\ Passed(req[h].candidate)
    /\ req' = [req EXCEPT ![h].pc = "shadowed"]
    /\ UNCHANGED <<candidates, runs>>

ShadowCommit(h) ==
    LET c == req[h].candidate  row == candidates[c]  seen == req[h].seen IN
    /\ req[h].pc = "shadowed"
    /\ candidates' = [candidates EXCEPT ![c] =
           [row EXCEPT !.status = Written(row.status, seen.status, "SHADOW_DEPLOYED"),
                       !.traffic = Written(row.traffic, seen.traffic, req[h].percentage)]]
    /\ EndRequest(h)
    /\ UNCHANGED runs

-----------------------------------------------------------------------------
(* POST /evolution/candidates/{id}/promote *)

PromoteRead(h, c) ==
    /\ req[h].pc = "idle"
    /\ c \in DOMAIN candidates
    /\ candidates[c].status \in {"SANDBOX_TESTING", "SHADOW_DEPLOYED"}
    /\ req' = [req EXCEPT ![h] = [pc |-> "promoting", candidate |-> c,
                                  seen |-> candidates[c]]]
    /\ UNCHANGED <<candidates, runs>>

PromoteCheck(h) ==
    /\ req[h].pc = "promoting"
    /\ Passed(req[h].candidate)
    /\ req' = [req EXCEPT ![h].pc = "promoted"]
    /\ UNCHANGED <<candidates, runs>>

PromoteCommit(h) ==
    LET c == req[h].candidate  row == candidates[c] IN
    /\ req[h].pc = "promoted"
    /\ candidates' = [candidates EXCEPT ![c] =
           [row EXCEPT !.status = "PROMOTED", !.approved = TRUE,
                       !.traffic = Written(row.traffic, req[h].seen.traffic, 100)]]
    /\ EndRequest(h)
    /\ UNCHANGED runs

-----------------------------------------------------------------------------
(* POST /evolution/candidates/{id}/rollback *)

RollbackRead(h, c) ==
    /\ req[h].pc = "idle"
    /\ c \in DOMAIN candidates
    /\ candidates[c].status \in {"SHADOW_DEPLOYED", "PROMOTED", "SANDBOX_TESTING"}
    /\ req' = [req EXCEPT ![h] = [pc |-> "reverting", candidate |-> c,
                                  seen |-> candidates[c]]]
    /\ UNCHANGED <<candidates, runs>>

\* Bug: the traffic is left as it is.
RollbackCommit_traffic(h) ==
    /\ req[h].pc = "reverting"
    /\ candidates' = [candidates EXCEPT ![req[h].candidate].status = "ROLLED_BACK",
                                      ![req[h].candidate].reverted = TRUE]
    /\ EndRequest(h)
    /\ UNCHANGED runs

RollbackCommit(h) ==
    LET c == req[h].candidate  row == candidates[c] IN
    /\ req[h].pc = "reverting"
    /\ candidates' = [candidates EXCEPT ![c] =
           [row EXCEPT !.status = "ROLLED_BACK", !.reverted = TRUE,
                       !.traffic = Written(row.traffic, req[h].seen.traffic, 0)]]
    /\ EndRequest(h)
    /\ UNCHANGED runs

-----------------------------------------------------------------------------
\* The transaction is rolled back.
Abort(h) ==
    /\ req[h].pc # "idle"
    /\ EndRequest(h)
    /\ UNCHANGED <<candidates, runs>>

Next ==
    \/ \E c \in Candidate : Propose(c)
    \/ \E h \in Handler :
          \/ \E c \in Candidate :
                \/ \E x, y \in Score : SandboxRead(h, c, x, y)
                \/ \E p \in Percentage : ShadowRead(h, c, p)
                \/ PromoteRead(h, c) \/ RollbackRead(h, c)
          \/ SandboxCommit(h)
          \/ ShadowCheck(h) \/ ShadowCommit(h)
          \/ PromoteCheck(h) \/ PromoteCommit(h)
          \/ RollbackCommit(h)
          \/ Abort(h)

Spec == Init /\ [][Next]_vars

-----------------------------------------------------------------------------
(* Properties *)

\* No traffic, shadow or production, reaches a candidate that has not passed a
\* sandbox run, and none is in production without the owner's approval,
\* however the requests interleave.
TestedBeforeTraffic ==
    \A c \in DOMAIN candidates :
        /\ candidates[c].traffic > 0 \/ candidates[c].status \in {"SHADOW_DEPLOYED", "PROMOTED"}
           => [candidate |-> c, verdict |-> "PASSED"] \in runs
        /\ candidates[c].status = "PROMOTED" => candidates[c].approved
=============================================================================
