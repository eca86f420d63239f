---------------------------- MODULE ShutdownGate ----------------------------
(***************************************************************************)
(* The emergency shutdown: the row of system_states, the copy of it that   *)
(* services/governance/shutdown.py keeps in module variables of the        *)
(* process, the owner's writes, the reads that refresh the copy, and the   *)
(* gate verify_shutdown_state (apps/api/dependencies.py) that every        *)
(* guarded route passes.                                                   *)
(*                                                                         *)
(* A SELECT fetches its snapshot in one step and the coroutine resumes in  *)
(* a later one; between the two, other requests run.  The migration seeds  *)
(* the row and nothing deletes it, so get_system_state always finds it.    *)
(***************************************************************************)
EXTENDS Naturals

CONSTANTS
    Handler,     \* requests in flight
    MayFail,     \* whether a database call or a commit may fail
    MaxWrites,   \* bound: the owner's writes
    MaxTools     \* bound: the agents' tool executions

ASSUME ShutdownAssumption ==
    /\ MayFail \in BOOLEAN
    /\ MaxWrites \in Nat
    /\ MaxTools \in Nat

RunState == {"NORMAL", "DEGRADED", "EMERGENCY_SHUTDOWN"}

\* What verify_shutdown_state tells apart: a write, and a read by a caller it
\* recognises as the active owner or does not.
Kind == {"mutation", "owner_query", "other_query"}

VARIABLES
    runState,    \* system_states.run_state, committed
    cache,       \* _cached_run_state
    req,         \* the local variables of each request
    writes,      \* owner writes so far
    toolRuns,    \* tool executions so far
    since        \* history: the state the row has had, with no owner write
                 \* under way, for as long as the request runs, or "mixed"

vars == <<runState, cache, req, writes, toolRuns, since>>

\* `via' records what the gate decided on: the cache at once, the row, or the
\* cache because the row could not be read.
Verdict == [pc: {"admitted", "refused"}, kind: Kind, via: {"cache", "row", "fallback"}]

Request ==
         [pc: {"idle", "reading"}]
    \cup [pc: {"read"}, seen: RunState]
    \cup [pc: {"write", "writing"}, target: RunState]
    \cup [pc: {"verify"}, kind: Kind]
    \cup [pc: {"verifying"}, kind: Kind, seen: RunState]
    \cup Verdict

Idle == [pc |-> "idle"]

TypeOK ==
    /\ runState \in RunState
    /\ cache \in RunState
    /\ req \in [Handler -> Request]
    /\ writes \in Nat
    /\ toolRuns \in Nat
    /\ since \in [Handler -> RunState \cup {"mixed"}]

Init ==
    /\ runState = "NORMAL"
    /\ cache = "NORMAL"
    /\ req = [h \in Handler |-> Idle]
    /\ writes = 0
    /\ toolRuns = 0
    /\ since = [h \in Handler |-> "NORMAL"]

\* A handler that has locked the row holds it until its transaction ends.
Writing(h) == req[h].pc = "writing"

\* The history a request starts with.
Observed == IF \E k \in Handler : Writing(k) THEN "mixed" ELSE runState

\* A request whose outcome is still open learns that an owner write began.
Mixed == [h \in Handler |-> IF req[h].pc \in {"admitted", "refused"} THEN since[h]
                                                                    ELSE "mixed"]

-----------------------------------------------------------------------------
(* POST /owner/emergency-shutdown and POST /owner/override *)

WriteBegin(h, target) ==
    /\ req[h].pc = "idle"
    /\ writes < MaxWrites
    /\ writes' = writes + 1
    /\ req' = [req EXCEPT ![h] = [pc |-> "write", target |-> target]]
    /\ UNCHANGED <<runState, cache, toolRuns, since>>

\* Bug: the target is taken from the request body without validating it.
WriteApply_raw(h) ==
    /\ req[h].pc = "write"
    /\ \A k \in Handler : ~Writing(k)
    /\ cache' = "MAINTENANCE"
    /\ req' = [req EXCEPT ![h].pc = "writing"]
    /\ since' = Mixed
    /\ UNCHANGED <<runState, writes, toolRuns>>

\* With the row locked FOR UPDATE the handler assigns the ORM row and the
\* cache, without suspending between the two.  The row is not committed yet.
WriteApply(h) ==
    /\ req[h].pc = "write"
    /\ \A k \in Handler : ~Writing(k)
    /\ cache' = req[h].target
    /\ req' = [req EXCEPT ![h].pc = "writing"]
    /\ since' = Mixed
    /\ UNCHANGED <<runState, writes, toolRuns>>

WriteCommit(h) ==
    /\ Writing(h)
    /\ runState' = req[h].target
    /\ req' = [req EXCEPT ![h] = Idle]
    /\ UNCHANGED <<cache, writes, toolRuns, since>>

-----------------------------------------------------------------------------
(* GET /owner/dashboard and GET /owner/console/summary *)

\* Reading the state is reading the row and then copying it into the cache.
ReadBegin(h) ==
    /\ req[h].pc = "idle"
    /\ req' = [req EXCEPT ![h] = [pc |-> "reading"]]
    /\ since' = [since EXCEPT ![h] = Observed]
    /\ UNCHANGED <<runState, cache, writes, toolRuns>>

ReadSnapshot(h) ==
    /\ req[h].pc = "reading"
    /\ req' = [req EXCEPT ![h] = [pc |-> "read", seen |-> runState]]
    /\ UNCHANGED <<runState, cache, writes, toolRuns, since>>

\* Bug: the dashboard shows the row but leaves the cache as it is.
ReadLand_noCache(h) ==
    /\ req[h].pc = "read"
    /\ req' = [req EXCEPT ![h] = Idle]
    /\ UNCHANGED <<runState, cache, writes, toolRuns, since>>

ReadLand(h) ==
    /\ req[h].pc = "read"
    /\ cache' = req[h].seen
    /\ req' = [req EXCEPT ![h] = Idle]
    /\ UNCHANGED <<runState, writes, toolRuns, since>>

-----------------------------------------------------------------------------
(* verify_shutdown_state, the dependency of every other route *)

\* Bug: DEGRADED would let every request through, like NORMAL.
Admits_degraded(state, kind) ==
    \/ state \in {"NORMAL", "DEGRADED"}
    \/ kind = "owner_query"

Admits(state, kind) ==
    \/ state = "NORMAL"
    \/ state = "DEGRADED" /\ kind # "mutation"
    \/ kind = "owner_query"

Verdicts(state, kind, via) ==
    [pc |-> IF Admits(state, kind) THEN "admitted" ELSE "refused",
     kind |-> kind, via |-> via]

\* A cache that is not NORMAL is believed; otherwise the row is read.
VerifyBegin(h, kind) ==
    /\ req[h].pc = "idle"
    /\ req' = [req EXCEPT ![h] = IF cache = "NORMAL"
                                 THEN [pc |-> "verify", kind |-> kind]
                                 ELSE Verdicts(cache, kind, "cache")]
    /\ since' = [since EXCEPT ![h] = Observed]
    /\ UNCHANGED <<runState, cache, writes, toolRuns>>

VerifySnapshot(h) ==
    /\ req[h].pc = "verify"
    /\ req' = [req EXCEPT ![h] = [pc |-> "verifying", kind |-> req[h].kind,
                                  seen |-> runState]]
    /\ UNCHANGED <<runState, cache, writes, toolRuns, since>>

VerifyLand(h) ==
    /\ req[h].pc = "verifying"
    /\ cache' = req[h].seen
    /\ req' = [req EXCEPT ![h] = Verdicts(req[h].seen, req[h].kind, "row")]
    /\ UNCHANGED <<runState, writes, toolRuns, since>>

\* The read raises: the exception is swallowed, the cache decides.
VerifyFallback(h) ==
    /\ MayFail
    /\ req[h].pc \in {"verify", "verifying"}
    /\ req' = [req EXCEPT ![h] = Verdicts(cache, req[h].kind, "fallback")]
    /\ UNCHANGED <<runState, cache, writes, toolRuns, since>>

\* An admitted request does its work; a refused one has been answered 503.
Finish(h) ==
    /\ req[h].pc \in {"admitted", "refused"}
    /\ req' = [req EXCEPT ![h] = Idle]
    /\ UNCHANGED <<runState, cache, writes, toolRuns, since>>

-----------------------------------------------------------------------------
(* services/tools/gateway.py:execute_tool, as an agent cycle reaches it *)

ExecuteTool ==
    /\ cache = "NORMAL"
    /\ toolRuns < MaxTools
    /\ toolRuns' = toolRuns + 1
    /\ UNCHANGED <<runState, cache, req, writes, since>>

-----------------------------------------------------------------------------
\* The request's transaction is rolled back; the cache keeps what it was set to.
Abort(h) ==
    /\ MayFail
    /\ req[h].pc \in {"write", "writing", "reading", "read"}
    /\ req' = [req EXCEPT ![h] = Idle]
    /\ UNCHANGED <<runState, cache, writes, toolRuns, since>>

\* The process restarts: the module variables are initialised again, nothing
\* at startup reads the row.
Restart ==
    /\ MayFail
    /\ cache' = "NORMAL"
    /\ req' = [h \in Handler |-> Idle]
    /\ UNCHANGED <<runState, writes, toolRuns, since>>

Next ==
    \/ \E h \in Handler :
          \/ \E target \in RunState : WriteBegin(h, target)
          \/ WriteApply(h) \/ WriteCommit(h)
          \/ ReadBegin(h) \/ ReadSnapshot(h) \/ ReadLand(h)
          \/ \E kind \in Kind : VerifyBegin(h, kind)
          \/ VerifySnapshot(h) \/ VerifyLand(h) \/ VerifyFallback(h)
          \/ Finish(h) \/ Abort(h)
    \/ ExecuteTool
    \/ Restart

Spec == Init /\ [][Next]_vars

-----------------------------------------------------------------------------
(* Properties *)

\* A write that arrives when the row has left NORMAL, and finds it so until it
\* is let through, is not let through: whatever stale copies of the row land in
\* the cache, the gate never believes a NORMAL it has not just read.  The one
\* exception is a row that cannot be read.
NoMutationBehindShutdown ==
    \A h \in Handler :
        /\ req[h].pc = "admitted"
        /\ req[h].kind = "mutation"
        /\ req[h].via # "fallback"
        => since[h] \in {"NORMAL", "mixed"}

\* A look at the dashboard repairs the cache, whatever stale copy was there:
\* when it answers, and no owner write was under way meanwhile, the cache and
\* the row agree.  It is the only way back from a stale EMERGENCY_SHUTDOWN.
DashboardHeals ==
    [][\A h \in Handler :
          ReadLand(h) /\ since[h] # "mixed" => cache' = runState']_vars

\* A shutdown "blocks all non-owner operations and agent tool executions"
\* (trigger_emergency_shutdown's docstring): no tool runs while the row says
\* EMERGENCY_SHUTDOWN and no owner write is under way.
ToolsHalted ==
    [][toolRuns' # toolRuns => Observed # "EMERGENCY_SHUTDOWN"]_vars
=============================================================================
