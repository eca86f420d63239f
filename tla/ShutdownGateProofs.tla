------------------------- MODULE ShutdownGateProofs -------------------------
(***************************************************************************)
(* Proofs about ShutdownGate, for any number of requests and owner writes. *)
(***************************************************************************)
EXTENDS ShutdownGate, TLAPS

\* A request whose outcome is open and during which no owner write ran.
Undisturbed(h) ==
    /\ req[h].pc \in {"reading", "read", "verify", "verifying"}
    /\ since[h] # "mixed"

\* The row lock admits one writer at a time.
OneWriter ==
    \A h, k \in Handler : Writing(h) /\ Writing(k) => h = k

\* What an undisturbed request knows of the row, and has read of it, is what
\* the row says: this is what makes its verdict the right one.
FreshHistory ==
    \A h \in Handler :
        Undisturbed(h) =>
            /\ \A k \in Handler : ~Writing(k)
            /\ since[h] = runState
            /\ req[h].pc \in {"read", "verifying"} => req[h].seen = runState

IInv == TypeOK /\ OneWriter /\ FreshHistory /\ NoMutationBehindShutdown

\* A request's program counter tells which of its local variables it has.
LEMMA RequestFields ==
    ASSUME NEW r \in Request
    PROVE  /\ r.pc = "read" => r.seen \in RunState
           /\ r.pc \in {"write", "writing"} => r.target \in RunState
           /\ r.pc = "verify" => r.kind \in Kind
           /\ r.pc = "verifying" => r.kind \in Kind /\ r.seen \in RunState
BY DEF Request, Verdict

LEMMA VerdictFields ==
    ASSUME NEW state \in RunState, NEW kind \in Kind,
           NEW via \in {"cache", "row", "fallback"}
    PROVE  /\ Verdicts(state, kind, via) \in Request
           /\ Verdicts(state, kind, via).pc \in {"admitted", "refused"}
           /\ Verdicts(state, kind, via).kind = kind
           /\ Verdicts(state, kind, via).via = via
           /\ Verdicts(state, kind, via).pc = "admitted" => Admits(state, kind)
BY DEF Verdicts, Request, Verdict

LEMMA IdleRequest == Idle \in Request /\ Idle.pc = "idle"
BY DEF Request, Idle

LEMMA InitIInv == Init => IInv
<1> SUFFICES ASSUME Init PROVE IInv
    OBVIOUS
<1>1. TypeOK
    BY IdleRequest, ShutdownAssumption DEF Init, TypeOK, RunState
<1>2. OneWriter /\ FreshHistory /\ NoMutationBehindShutdown
    BY IdleRequest
       DEF Init, OneWriter, FreshHistory, NoMutationBehindShutdown, Undisturbed, Writing
<1> QED BY <1>1, <1>2 DEF IInv

-----------------------------------------------------------------------------
(* The owner's writes *)

LEMMA WriteBeginIInv ==
    ASSUME IInv, NEW h \in Handler, NEW target \in RunState, WriteBegin(h, target)
    PROVE  IInv'
<1> USE DEF IInv, WriteBegin, TypeOK
<1>1. [pc |-> "write", target |-> target] \in Request
    BY DEF Request
<1>2. TypeOK'
    BY <1>1
<1>3. OneWriter' /\ FreshHistory' /\ NoMutationBehindShutdown'
    BY DEF OneWriter, FreshHistory, NoMutationBehindShutdown, Undisturbed, Writing
<1> QED BY <1>2, <1>3

LEMMA WriteApplyIInv ==
    ASSUME IInv, NEW h \in Handler, WriteApply(h)
    PROVE  IInv'
<1> USE DEF IInv, WriteApply, TypeOK
<1>1. [req[h] EXCEPT !.pc = "writing"] \in Request /\ req[h].target \in RunState
    BY DEF Request, Verdict
<1>2. TypeOK'
    BY <1>1 DEF Mixed
<1>3. \A k \in Handler : k # h => req'[k] = req[k]
    OBVIOUS
<1>4. req'[h].pc = "writing"
    BY DEF Request
<1>5. OneWriter'
    BY <1>3, <1>4 DEF OneWriter, Writing
<1>6. FreshHistory'
    BY <1>3, <1>4 DEF FreshHistory, Undisturbed, Mixed
<1>7. NoMutationBehindShutdown'
    BY <1>3, <1>4 DEF NoMutationBehindShutdown, Mixed
<1> QED BY <1>2, <1>5, <1>6, <1>7

LEMMA WriteCommitIInv ==
    ASSUME IInv, NEW h \in Handler, WriteCommit(h)
    PROVE  IInv'
<1> USE DEF IInv, WriteCommit, TypeOK
<1>1. TypeOK'
    BY IdleRequest, RequestFields DEF Writing
<1>2. OneWriter' /\ NoMutationBehindShutdown'
    BY IdleRequest DEF OneWriter, NoMutationBehindShutdown, Writing
<1>3. \A k \in Handler : ~Undisturbed(k)
    BY DEF FreshHistory
<1>4. FreshHistory'
    BY <1>3, IdleRequest DEF FreshHistory, Undisturbed
<1> QED BY <1>1, <1>2, <1>4

-----------------------------------------------------------------------------
(* The reads *)

LEMMA ReadBeginIInv ==
    ASSUME IInv, NEW h \in Handler, ReadBegin(h)
    PROVE  IInv'
<1> USE DEF IInv, ReadBegin, TypeOK
<1>1. TypeOK'
    BY DEF Request, Observed
<1>2. OneWriter' /\ NoMutationBehindShutdown'
    BY DEF OneWriter, NoMutationBehindShutdown, Writing
<1>3. FreshHistory'
    BY DEF FreshHistory, Undisturbed, Writing, Observed
<1> QED BY <1>1, <1>2, <1>3

LEMMA ReadSnapshotIInv ==
    ASSUME IInv, NEW h \in Handler, ReadSnapshot(h)
    PROVE  IInv'
<1> USE DEF IInv, ReadSnapshot, TypeOK
<1>1. TypeOK'
    BY DEF Request
<1>2. OneWriter' /\ NoMutationBehindShutdown'
    BY DEF OneWriter, NoMutationBehindShutdown, Writing
<1>3. FreshHistory'
    BY DEF FreshHistory, Undisturbed, Writing
<1> QED BY <1>1, <1>2, <1>3

LEMMA ReadLandIInv ==
    ASSUME IInv, NEW h \in Handler, ReadLand(h)
    PROVE  IInv'
<1> USE DEF IInv, ReadLand, TypeOK
<1>1. TypeOK'
    BY IdleRequest, RequestFields
<1>2. OneWriter' /\ FreshHistory' /\ NoMutationBehindShutdown'
    BY IdleRequest
       DEF OneWriter, FreshHistory, NoMutationBehindShutdown, Undisturbed, Writing
<1> QED BY <1>1, <1>2

-----------------------------------------------------------------------------
(* The gate *)

LEMMA VerifyBeginIInv ==
    ASSUME IInv, NEW h \in Handler, NEW kind \in Kind, VerifyBegin(h, kind)
    PROVE  IInv'
<1> USE DEF IInv, VerifyBegin, TypeOK
<1>1. /\ Observed \in RunState \cup {"mixed"}
      /\ since' = [since EXCEPT ![h] = Observed]
      /\ UNCHANGED <<runState, cache, writes, toolRuns>>
    BY DEF Observed
<1>2. CASE cache = "NORMAL"
    <2>1. /\ [pc |-> "verify", kind |-> kind] \in Request
          /\ req' = [req EXCEPT ![h] = [pc |-> "verify", kind |-> kind]]
        BY <1>2 DEF Request
    <2>2. TypeOK'
        BY <1>1, <2>1
    <2>3. OneWriter' /\ NoMutationBehindShutdown'
        BY <1>1, <2>1 DEF OneWriter, NoMutationBehindShutdown, Writing
    <2>4. FreshHistory'
        BY <1>1, <2>1 DEF FreshHistory, Undisturbed, Writing, Observed
    <2> QED BY <2>2, <2>3, <2>4
<1>3. CASE cache # "NORMAL"
    <2> DEFINE verdict == Verdicts(cache, kind, "cache")
    <2>1. req' = [req EXCEPT ![h] = verdict]
        BY <1>3
    <2>2. /\ verdict \in Request
          /\ verdict.pc \in {"admitted", "refused"}
          /\ verdict.pc = "admitted" => verdict.kind # "mutation"
        BY <1>3, VerdictFields DEF Admits
    <2> HIDE DEF verdict
    <2>3. TypeOK'
        BY <1>1, <2>1, <2>2
    <2>4. OneWriter' /\ FreshHistory' /\ NoMutationBehindShutdown'
        BY <1>1, <2>1, <2>2
           DEF OneWriter, FreshHistory, NoMutationBehindShutdown, Undisturbed, Writing
    <2> QED BY <2>3, <2>4
<1> QED BY <1>2, <1>3

LEMMA VerifySnapshotIInv ==
    ASSUME IInv, NEW h \in Handler, VerifySnapshot(h)
    PROVE  IInv'
<1> USE DEF IInv, VerifySnapshot, TypeOK
<1>1. [pc |-> "verifying", kind |-> req[h].kind, seen |-> runState] \in Request
    BY RequestFields DEF Request
<1>2. TypeOK'
    BY <1>1
<1>3. OneWriter' /\ NoMutationBehindShutdown'
    BY DEF OneWriter, NoMutationBehindShutdown, Writing
<1>4. FreshHistory'
    BY DEF FreshHistory, Undisturbed, Writing
<1> QED BY <1>2, <1>3, <1>4

\* The verdict falls on what was read of the row; a request that no write has
\* disturbed has read what the row says.
LEMMA VerifyLandIInv ==
    ASSUME IInv, NEW h \in Handler, VerifyLand(h)
    PROVE  IInv'
<1> USE DEF IInv, VerifyLand, TypeOK
<1> DEFINE verdict == Verdicts(req[h].seen, req[h].kind, "row")
<1>1. req[h].seen \in RunState /\ req[h].kind \in Kind
    BY RequestFields
<1>2. /\ req' = [req EXCEPT ![h] = verdict]
      /\ verdict \in Request
      /\ verdict.pc \in {"admitted", "refused"}
      /\ verdict.pc = "admitted" /\ verdict.kind = "mutation" => req[h].seen = "NORMAL"
    BY <1>1, VerdictFields DEF Admits
<1>3. since[h] # "mixed" => req[h].seen = since[h]
    BY DEF FreshHistory, Undisturbed
<1> HIDE DEF verdict
<1>4. TypeOK'
    BY <1>1, <1>2
<1>5. OneWriter' /\ FreshHistory'
    BY <1>2 DEF OneWriter, FreshHistory, Undisturbed, Writing
<1>6. NoMutationBehindShutdown'
    BY <1>2, <1>3 DEF NoMutationBehindShutdown
<1> QED BY <1>4, <1>5, <1>6

LEMMA VerifyFallbackIInv ==
    ASSUME IInv, NEW h \in Handler, VerifyFallback(h)
    PROVE  IInv'
<1> USE DEF IInv, VerifyFallback, TypeOK
<1> DEFINE verdict == Verdicts(cache, req[h].kind, "fallback")
<1>1. req[h].kind \in Kind
    BY RequestFields
<1>2. /\ req' = [req EXCEPT ![h] = verdict]
      /\ verdict \in Request
      /\ verdict.pc \in {"admitted", "refused"}
      /\ verdict.via = "fallback"
    BY <1>1, VerdictFields
<1> HIDE DEF verdict
<1>3. TypeOK'
    BY <1>2
<1>4. OneWriter' /\ FreshHistory' /\ NoMutationBehindShutdown'
    BY <1>2 DEF OneWriter, FreshHistory, NoMutationBehindShutdown, Undisturbed, Writing
<1> QED BY <1>3, <1>4

\* Steps that only let requests go, or that leave them alone.
LEMMA OtherIInv ==
    ASSUME IInv,
           ExecuteTool \/ Restart \/ (\E h \in Handler : Finish(h) \/ Abort(h))
    PROVE  IInv'
<1> USE DEF IInv, ExecuteTool, Restart, Finish, Abort
<1>1. TypeOK'
    BY IdleRequest DEF TypeOK, RunState
<1>2. OneWriter' /\ FreshHistory' /\ NoMutationBehindShutdown'
    BY IdleRequest
       DEF TypeOK, OneWriter, FreshHistory, NoMutationBehindShutdown, Undisturbed, Writing
<1> QED BY <1>1, <1>2

LEMMA NextIInv == IInv /\ [Next]_vars => IInv'
<1> SUFFICES ASSUME IInv, [Next]_vars PROVE IInv'
    OBVIOUS
<1>1. CASE UNCHANGED vars
    BY <1>1 DEF vars, IInv, TypeOK, OneWriter, FreshHistory, NoMutationBehindShutdown,
                Undisturbed, Writing
<1> QED BY <1>1, WriteBeginIInv, WriteApplyIInv, WriteCommitIInv, ReadBeginIInv,
           ReadSnapshotIInv, ReadLandIInv, VerifyBeginIInv, VerifySnapshotIInv,
           VerifyLandIInv, VerifyFallbackIInv, OtherIInv
        DEF Next

LEMMA Invariance == Spec => []IInv
BY InitIInv, NextIInv, PTL DEF Spec

-----------------------------------------------------------------------------
\* The run state, the cache and the requests stay well formed.
THEOREM TypeCorrect == Spec => []TypeOK
BY Invariance, PTL DEF IInv

\* For any number of requests, and any stale copies of the row on their way
\* into the cache: the gate never lets a write through behind a state that is
\* not NORMAL, unless the row cannot be read.
THEOREM GateHolds == Spec => []NoMutationBehindShutdown
BY Invariance, PTL DEF IInv

\* An undisturbed look at the dashboard leaves the cache equal to the row.
THEOREM DashboardRepairsCache == Spec => DashboardHeals
<1>1. IInv /\ [Next]_vars =>
        [\A h \in Handler : ReadLand(h) /\ since[h] # "mixed" => cache' = runState']_vars
    BY DEF IInv, FreshHistory, Undisturbed, ReadLand
<1> QED BY <1>1, Invariance, PTL DEF Spec, DashboardHeals
=============================================================================
