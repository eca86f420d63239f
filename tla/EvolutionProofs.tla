-------------------------- MODULE EvolutionProofs ---------------------------
(***************************************************************************)
(* Proofs about Evolution, for any number of candidates and requests and   *)
(* any scores.                                                             *)
(***************************************************************************)
EXTENDS EvolutionHistory, TLAPS

Tested(c) == [candidate |-> c, verdict |-> "PASSED"] \in runs

\* What a row must satisfy.
SoundRow(c, row) ==
    /\ row.traffic > 0 \/ row.status \in {"SHADOW_DEPLOYED", "PROMOTED"} => Tested(c)
    /\ row.status = "PROMOTED" => row.approved

\* A request works on a candidate that exists, and past its check on one that
\* has passed a run; the row it has read need not be the current one.
SoundRequest(T, r) ==
    /\ r.pc = "testing" => r.run.candidate \in DOMAIN T
    /\ r.pc \notin {"idle", "testing"} => r.candidate \in DOMAIN T
    /\ r.pc \in {"shadowed", "promoted"} => Tested(r.candidate)

IInv ==
    /\ TypeOK
    /\ TestedBeforeTraffic
    /\ \A h \in Handler : SoundRequest(candidates, req[h])

-----------------------------------------------------------------------------
LEMMA IdleRequest == Idle \in Request /\ Idle.pc = "idle"
BY DEF Idle, Request

LEMMA RowFact ==
    /\ TestedBeforeTraffic => \A c \in DOMAIN candidates : SoundRow(c, candidates[c])
    /\ (\A c \in DOMAIN candidates' : SoundRow(c, candidates[c])') => TestedBeforeTraffic'
<1>1. TestedBeforeTraffic => \A c \in DOMAIN candidates : SoundRow(c, candidates[c])
    BY Zenon DEF TestedBeforeTraffic, SoundRow, Tested
<1>2. (\A c \in DOMAIN candidates' : SoundRow(c, candidates[c])') => TestedBeforeTraffic'
    BY Zenon DEF TestedBeforeTraffic, SoundRow, Tested
<1> QED BY <1>1, <1>2

LEMMA PassedFact ==
    ASSUME TypeOK, NEW c \in Candidate, Passed(c)
    PROVE  Tested(c)
<1>1. PICK r \in runs : r.candidate = c /\ r.verdict = "PASSED"
    BY DEF Passed
<1>2. r = [candidate |-> c, verdict |-> "PASSED"]
    BY <1>1 DEF TypeOK, Run
<1> QED BY <1>1, <1>2 DEF Tested

LEMMA InitIInv == Init => IInv
BY IdleRequest DEF Init, IInv, TypeOK, TestedBeforeTraffic, SoundRequest, IsTable, EmptyTable

-----------------------------------------------------------------------------
\* A step that changes one request only.
LEMMA RequestStep ==
    ASSUME IInv, UNCHANGED <<candidates, runs>>,
           NEW h \in Handler, NEW r \in Request, req' = [req EXCEPT ![h] = r],
           SoundRequest(candidates, r)
    PROVE  IInv'
<1>1. TypeOK' /\ TestedBeforeTraffic'
    BY DEF IInv, TypeOK, TestedBeforeTraffic
<1>2. \A i \in Handler : SoundRequest(candidates, req'[i])
    BY DEF IInv, TypeOK
<1>3. \A i \in Handler : SoundRequest(candidates, req[i])'
    BY <1>2 DEF SoundRequest, Tested
<1> QED BY <1>1, <1>3 DEF IInv

\* A commit gives the candidate c the row `row', may add a run, and ends the
\* request.
LEMMA CommitStep ==
    ASSUME IInv, NEW h \in Handler, req' = [req EXCEPT ![h] = Idle],
           NEW c \in DOMAIN candidates, NEW row \in CandidateRow,
           candidates' = [candidates EXCEPT ![c] = row],
           runs \subseteq runs', runs' \subseteq Run,
           SoundRow(c, row)
    PROVE  IInv'
<1>1. TypeOK'
    BY IdleRequest DEF IInv, TypeOK, IsTable
<1>2. /\ DOMAIN candidates' = DOMAIN candidates
      /\ \A d \in DOMAIN candidates : SoundRow(d, candidates'[d])
    BY RowFact DEF IInv, TypeOK, IsTable
<1>3. \A d : Tested(d) => Tested(d)'
    BY DEF Tested
<1>4. TestedBeforeTraffic'
    BY <1>2, <1>3 DEF TestedBeforeTraffic, SoundRow, Tested
<1>5. \A i \in Handler : SoundRequest(candidates, req'[i])
    BY IdleRequest DEF IInv, TypeOK, SoundRequest
<1>6. \A i \in Handler : SoundRequest(candidates, req[i])'
    BY <1>2, <1>3, <1>5 DEF SoundRequest
<1> QED BY <1>1, <1>4, <1>6 DEF IInv

LEMMA ProposeStep ==
    ASSUME IInv, NEW c \in Candidate, Propose(c)
    PROVE  IInv'
<1>1. PICK row : row = [status |-> "PROPOSED", traffic |-> 0, approved |-> FALSE,
                        reverted |-> FALSE]
    OBVIOUS
<1>2. /\ candidates' = Inserted(candidates, c, row)
      /\ UNCHANGED <<runs, req>>
    BY <1>1 DEF Propose
<1>3. row \in CandidateRow
    BY <1>1 DEF CandidateRow, EvolutionStatus
<1>4. TypeOK'
    BY <1>2, <1>3 DEF IInv, TypeOK, IsTable, Inserted
<1>5. TestedBeforeTraffic'
    <2> SUFFICES ASSUME NEW d \in DOMAIN candidates'
                 PROVE  SoundRow(d, candidates[d])'
        BY RowFact
    <2>1. CASE d = c
        BY <1>1, <1>2, <2>1 DEF Inserted, SoundRow
    <2>2. CASE d # c
        BY <1>2, <2>2, RowFact DEF IInv, Inserted, SoundRow, Tested
    <2> QED BY <2>1, <2>2
<1>6. \A i \in Handler : SoundRequest(candidates, req[i])'
    BY <1>2 DEF IInv, SoundRequest, Tested, Inserted
<1> QED BY <1>4, <1>5, <1>6 DEF IInv

LEMMA SandboxReadStep ==
    ASSUME IInv, NEW h \in Handler, NEW c \in Candidate, NEW x \in Score, NEW y \in Score,
           SandboxRead(h, c, x, y)
    PROVE  IInv'
<1>1. PICK r : r = [pc |-> "testing", seen |-> candidates[c],
                    run |-> [candidate |-> c, verdict |-> Verdict(x, y)]]
    OBVIOUS
<1>2. candidates[c] \in CandidateRow
    BY DEF SandboxRead, IInv, TypeOK, IsTable
<1>3. r \in Request
    BY <1>1, <1>2, EvolutionAssumption DEF Request, Run, Verdict, SandboxVerdict
<1>4. SoundRequest(candidates, r)
    BY <1>1 DEF SandboxRead, SoundRequest
<1> QED BY <1>1, <1>3, <1>4, RequestStep DEF SandboxRead

LEMMA SandboxCommitStep ==
    ASSUME IInv, NEW h \in Handler, SandboxCommit(h)
    PROVE  IInv'
<1>1. PICK c : c = req[h].run.candidate
    OBVIOUS
<1>2. /\ req[h].run \in Run
      /\ req[h].seen \in CandidateRow
      /\ c \in DOMAIN candidates
    BY <1>1 DEF SandboxCommit, IInv, TypeOK, Request, SoundRequest
<1>3. PICK s : s = Written(candidates[c].status, req[h].seen.status, "SANDBOX_TESTING")
    OBVIOUS
<1>4. PICK row : row = [candidates[c] EXCEPT !.status = s]
    OBVIOUS
<1>5. candidates[c] \in CandidateRow /\ SoundRow(c, candidates[c])
    BY <1>2, RowFact DEF IInv, TypeOK, IsTable
<1>6. s \in {candidates[c].status, "SANDBOX_TESTING"}
    BY <1>3 DEF Written
<1>7. row \in CandidateRow /\ SoundRow(c, row)
    BY <1>4, <1>5, <1>6 DEF CandidateRow, EvolutionStatus, SoundRow
<1>8. candidates' = [candidates EXCEPT ![c] = row]
    BY <1>1, <1>3, <1>4 DEF SandboxCommit
<1>9. runs \subseteq runs' /\ runs' \subseteq Run
    BY <1>2 DEF SandboxCommit, IInv, TypeOK
<1> QED BY <1>2, <1>7, <1>8, <1>9, CommitStep DEF SandboxCommit, EndRequest

\* The three reads that begin a request which writes the candidate later.
LEMMA ReadStep ==
    ASSUME IInv, NEW h \in Handler, NEW c \in DOMAIN candidates, NEW r \in Request,
           req' = [req EXCEPT ![h] = r], UNCHANGED <<candidates, runs>>,
           r.pc \in {"shadowing", "promoting", "reverting"}, r.candidate = c
    PROVE  IInv'
BY RequestStep DEF SoundRequest

LEMMA CheckStep ==
    ASSUME IInv, NEW h \in Handler, ShadowCheck(h) \/ PromoteCheck(h)
    PROVE  IInv'
<1>1. CASE ShadowCheck(h)
    <2>1. PICK r : r = [req[h] EXCEPT !.pc = "shadowed"]
        OBVIOUS
    <2>2. /\ r \in Request
          /\ r.pc = "shadowed"
          /\ r.candidate = req[h].candidate
          /\ r.candidate \in DOMAIN candidates
        BY <1>1, <2>1 DEF ShadowCheck, IInv, TypeOK, Request, SoundRequest
    <2>3. Tested(r.candidate)
        BY <1>1, <2>2, PassedFact DEF ShadowCheck, IInv, TypeOK, IsTable
    <2>4. req' = [req EXCEPT ![h] = r] /\ UNCHANGED <<candidates, runs>>
        BY <1>1, <2>1 DEF ShadowCheck, IInv, TypeOK
    <2> QED BY <2>2, <2>3, <2>4, RequestStep DEF SoundRequest
<1>2. CASE PromoteCheck(h)
    <2>1. PICK r : r = [req[h] EXCEPT !.pc = "promoted"]
        OBVIOUS
    <2>2. /\ r \in Request
          /\ r.pc = "promoted"
          /\ r.candidate = req[h].candidate
          /\ r.candidate \in DOMAIN candidates
        BY <1>2, <2>1 DEF PromoteCheck, IInv, TypeOK, Request, SoundRequest
    <2>3. Tested(r.candidate)
        BY <1>2, <2>2, PassedFact DEF PromoteCheck, IInv, TypeOK, IsTable
    <2>4. req' = [req EXCEPT ![h] = r] /\ UNCHANGED <<candidates, runs>>
        BY <1>2, <2>1 DEF PromoteCheck, IInv, TypeOK
    <2> QED BY <2>2, <2>3, <2>4, RequestStep DEF SoundRequest
<1> QED BY <1>1, <1>2

\* A request about to commit: the candidate exists, and its row is sound.
LEMMA AtCommit ==
    ASSUME IInv, NEW h \in Handler, req[h].pc \in {"shadowed", "promoted", "reverting"}
    PROVE  /\ req[h].candidate \in DOMAIN candidates
           /\ candidates[req[h].candidate] \in CandidateRow
           /\ SoundRow(req[h].candidate, candidates[req[h].candidate])
           /\ req[h].pc = "shadowed" => req[h].percentage \in 0..100
           /\ req[h].pc \in {"shadowed", "promoted"} => Tested(req[h].candidate)
<1>1. SoundRequest(candidates, req[h]) /\ req[h] \in Request
    BY DEF IInv, TypeOK
<1>2. /\ req[h].candidate \in DOMAIN candidates
      /\ req[h].pc \in {"shadowed", "promoted"} => Tested(req[h].candidate)
    BY <1>1 DEF SoundRequest
<1>3. req[h].pc = "shadowed" => req[h].percentage \in Percentage
    BY <1>1 DEF Request
<1>4. Percentage \subseteq 0..100
    BY EvolutionAssumption
<1> QED BY <1>2, <1>3, <1>4, RowFact DEF IInv, TypeOK, IsTable

LEMMA ShadowCommitStep ==
    ASSUME IInv, NEW h \in Handler, ShadowCommit(h)
    PROVE  IInv'
<1>1. PICK c, old : c = req[h].candidate /\ old = candidates[c]
    OBVIOUS
<1>2. PICK s, t : /\ s = Written(old.status, req[h].seen.status, "SHADOW_DEPLOYED")
                  /\ t = Written(old.traffic, req[h].seen.traffic, req[h].percentage)
    OBVIOUS
<1>3. PICK row : row = [old EXCEPT !.status = s, !.traffic = t]
    OBVIOUS
<1>4. /\ c \in DOMAIN candidates
      /\ old \in CandidateRow /\ SoundRow(c, old)
      /\ req[h].percentage \in 0..100
      /\ Tested(c)
    BY <1>1, AtCommit DEF ShadowCommit
<1>5. /\ s \in {old.status, "SHADOW_DEPLOYED"}
      /\ t \in {old.traffic, req[h].percentage}
    BY <1>2 DEF Written
<1>6. row \in CandidateRow /\ SoundRow(c, row)
    BY <1>3, <1>4, <1>5 DEF CandidateRow, EvolutionStatus, SoundRow
<1>7. candidates' = [candidates EXCEPT ![c] = row]
    BY <1>1, <1>2, <1>3 DEF ShadowCommit
<1>8. runs \subseteq runs' /\ runs' \subseteq Run
    BY DEF ShadowCommit, IInv, TypeOK
<1> QED BY <1>4, <1>6, <1>7, <1>8, CommitStep DEF ShadowCommit, EndRequest

LEMMA PromoteCommitStep ==
    ASSUME IInv, NEW h \in Handler, PromoteCommit(h)
    PROVE  IInv'
<1>1. PICK c, old : c = req[h].candidate /\ old = candidates[c]
    OBVIOUS
<1>2. PICK t : t = Written(old.traffic, req[h].seen.traffic, 100)
    OBVIOUS
<1>3. PICK row : row = [old EXCEPT !.status = "PROMOTED", !.approved = TRUE, !.traffic = t]
    OBVIOUS
<1>4. /\ c \in DOMAIN candidates
      /\ old \in CandidateRow /\ SoundRow(c, old)
      /\ Tested(c)
    BY <1>1, AtCommit DEF PromoteCommit
<1>5. t \in {old.traffic, 100}
    BY <1>2 DEF Written
<1>6. row \in CandidateRow /\ SoundRow(c, row)
    <2>1. row = [status |-> "PROMOTED", traffic |-> t, approved |-> TRUE,
                 reverted |-> old.reverted]
        BY <1>3, <1>4 DEF CandidateRow
    <2>2. row \in CandidateRow
        BY <2>1, <1>4, <1>5 DEF CandidateRow, EvolutionStatus
    <2> QED BY <2>1, <2>2, <1>4 DEF SoundRow
<1>7. candidates' = [candidates EXCEPT ![c] = row]
    BY <1>1, <1>2, <1>3 DEF PromoteCommit
<1>8. runs \subseteq runs' /\ runs' \subseteq Run
    BY DEF PromoteCommit, IInv, TypeOK
<1> QED BY <1>4, <1>6, <1>7, <1>8, CommitStep DEF PromoteCommit, EndRequest

LEMMA RollbackCommitStep ==
    ASSUME IInv, NEW h \in Handler, RollbackCommit(h)
    PROVE  IInv'
<1>1. PICK c, old : c = req[h].candidate /\ old = candidates[c]
    OBVIOUS
<1>2. PICK t : t = Written(old.traffic, req[h].seen.traffic, 0)
    OBVIOUS
<1>3. PICK row : row = [old EXCEPT !.status = "ROLLED_BACK", !.reverted = TRUE, !.traffic = t]
    OBVIOUS
<1>4. /\ c \in DOMAIN candidates
      /\ old \in CandidateRow /\ SoundRow(c, old)
    BY <1>1, AtCommit DEF RollbackCommit
<1>5. t \in {old.traffic, 0}
    BY <1>2 DEF Written
<1>6. row \in CandidateRow /\ SoundRow(c, row)
    <2>1. row = [status |-> "ROLLED_BACK", traffic |-> t, approved |-> old.approved,
                 reverted |-> TRUE]
        BY <1>3, <1>4 DEF CandidateRow
    <2>2. row \in CandidateRow
        BY <2>1, <1>4, <1>5 DEF CandidateRow, EvolutionStatus
    <2>3. t > 0 => Tested(c)
        BY <1>4, <1>5 DEF SoundRow
    <2> QED BY <2>1, <2>2, <2>3 DEF SoundRow
<1>7. candidates' = [candidates EXCEPT ![c] = row]
    BY <1>1, <1>2, <1>3 DEF RollbackCommit
<1>8. runs \subseteq runs' /\ runs' \subseteq Run
    BY DEF RollbackCommit, IInv, TypeOK
<1> QED BY <1>4, <1>6, <1>7, <1>8, CommitStep DEF RollbackCommit, EndRequest

-----------------------------------------------------------------------------
LEMMA NextIInv == IInv /\ [Next]_vars => IInv'
<1> SUFFICES ASSUME IInv, [Next]_vars PROVE IInv'
    OBVIOUS
<1>1. CASE \E c \in Candidate : Propose(c)
    BY <1>1, ProposeStep
<1>2. CASE \E h \in Handler, c \in Candidate : \E x, y \in Score : SandboxRead(h, c, x, y)
    BY <1>2, SandboxReadStep
<1>3. CASE \E h \in Handler, c \in Candidate : \E p \in Percentage : ShadowRead(h, c, p)
    <2>1. PICK h \in Handler, c \in Candidate, p \in Percentage : ShadowRead(h, c, p)
        BY <1>3
    <2>2. PICK r : r = [pc |-> "shadowing", candidate |-> c, seen |-> candidates[c],
                        percentage |-> p]
        OBVIOUS
    <2>3. candidates[c] \in CandidateRow
        BY <2>1 DEF ShadowRead, IInv, TypeOK, IsTable
    <2>4. r \in Request /\ r.pc = "shadowing" /\ r.candidate = c
        BY <2>2, <2>3 DEF Request
    <2> QED BY <2>1, <2>2, <2>4, ReadStep DEF ShadowRead
<1>4. CASE \E h \in Handler, c \in Candidate : PromoteRead(h, c)
    <2>1. PICK h \in Handler, c \in Candidate : PromoteRead(h, c)
        BY <1>4
    <2>2. PICK r : r = [pc |-> "promoting", candidate |-> c, seen |-> candidates[c]]
        OBVIOUS
    <2>3. candidates[c] \in CandidateRow
        BY <2>1 DEF PromoteRead, IInv, TypeOK, IsTable
    <2>4. r \in Request /\ r.pc = "promoting" /\ r.candidate = c
        BY <2>2, <2>3 DEF Request
    <2> QED BY <2>1, <2>2, <2>4, ReadStep DEF PromoteRead
<1>5. CASE \E h \in Handler, c \in Candidate : RollbackRead(h, c)
    <2>1. PICK h \in Handler, c \in Candidate : RollbackRead(h, c)
        BY <1>5
    <2>2. PICK r : r = [pc |-> "reverting", candidate |-> c, seen |-> candidates[c]]
        OBVIOUS
    <2>3. candidates[c] \in CandidateRow
        BY <2>1 DEF RollbackRead, IInv, TypeOK, IsTable
    <2>4. r \in Request /\ r.pc = "reverting" /\ r.candidate = c
        BY <2>2, <2>3 DEF Request
    <2> QED BY <2>1, <2>2, <2>4, ReadStep DEF RollbackRead
<1>6. CASE \E h \in Handler : SandboxCommit(h)
    BY <1>6, SandboxCommitStep
<1>7. CASE \E h \in Handler : ShadowCheck(h) \/ PromoteCheck(h)
    BY <1>7, CheckStep
<1>8. CASE \E h \in Handler : ShadowCommit(h)
    BY <1>8, ShadowCommitStep
<1>9. CASE \E h \in Handler : PromoteCommit(h)
    BY <1>9, PromoteCommitStep
<1>10. CASE \E h \in Handler : RollbackCommit(h)
    BY <1>10, RollbackCommitStep
<1>11. CASE \E h \in Handler : Abort(h)
    BY <1>11, RequestStep, IdleRequest DEF Abort, EndRequest, SoundRequest
<1>12. CASE UNCHANGED vars
    BY <1>12 DEF vars, IInv, TypeOK, TestedBeforeTraffic, SoundRequest, Tested
<1> QED
    BY <1>1, <1>2, <1>3, <1>4, <1>5, <1>6, <1>7, <1>8, <1>9, <1>10, <1>11, <1>12 DEF Next

LEMMA Invariance == Spec => []IInv
BY InitIInv, NextIInv, PTL DEF Spec

-----------------------------------------------------------------------------
\* The rows the evolution handlers write are the ones their models allow,
\* whatever requests are in flight.
THEOREM TypeCorrect == Spec => []TypeOK
<1>1. IInv => TypeOK
    BY DEF IInv
<1> QED BY Invariance, <1>1, PTL

\* No traffic reaches a candidate that has not passed a sandbox run, and no
\* candidate is in production without an approval, whatever requests race.
THEOREM TrafficIsEarned == Spec => []TestedBeforeTraffic
<1>1. IInv => TestedBeforeTraffic
    BY DEF IInv
<1> QED BY Invariance, <1>1, PTL

-----------------------------------------------------------------------------
(* The history *)

\* The share of traffic is the one the status stands for.
Fits(row) ==
    /\ row.status = "SHADOW_DEPLOYED" => row.traffic \in Percentage
    /\ row.status = "PROMOTED" => row.traffic = 100
    /\ row.status \notin {"SHADOW_DEPLOYED", "PROMOTED"} => row.traffic = 0

\* The statuses in which the read of a request leaves it.
Starts(r) ==
    CASE r.pc = "testing"   -> {"PROPOSED", "SANDBOX_TESTING"}
      [] r.pc = "reverting" -> {"SHADOW_DEPLOYED", "PROMOTED", "SANDBOX_TESTING"}
      [] OTHER              -> {"SANDBOX_TESTING", "SHADOW_DEPLOYED"}

\* One request at a time works on c, and what it has read of c still holds.
Alone(c) ==
    /\ Fits(candidates[c])
    /\ \A h, k \in Handler : WorksOn(req[h], c) /\ WorksOn(req[k], c) => h = k
    /\ \A h \in Handler :
          WorksOn(req[h], c) => /\ req[h].seen = candidates[c]
                                /\ candidates[c].status \in Starts(req[h])

HistoryInv ==
    /\ IInv
    /\ \A c \in DOMAIN candidates \ shared : Alone(c)

LEMMA NotShared ==
    ASSUME HistoryInv, HistoryNext, NEW c \in DOMAIN candidates, c \notin shared'
    PROVE  /\ Alone(c)
           /\ \A h, k \in Handler : WorksOn(req'[h], c) /\ WorksOn(req'[k], c) => h = k
<1>1. c \in Candidate
    BY DEF HistoryInv, IInv, TypeOK, IsTable
<1> QED BY <1>1 DEF HistoryInv, HistoryNext

\* A read, a check or a rollback.
LEMMA AloneUncommitted ==
    ASSUME HistoryInv, HistoryNext, UNCHANGED candidates,
           NEW h \in Handler, NEW r \in Request, req' = [req EXCEPT ![h] = r],
           \A c \in DOMAIN candidates \ shared :
              WorksOn(r, c) => /\ r.seen = candidates[c]
                               /\ candidates[c].status \in Starts(r)
    PROVE  \A c \in DOMAIN candidates' \ shared' : Alone(c)'
<1> SUFFICES ASSUME NEW c \in DOMAIN candidates \ shared' PROVE Alone(c)'
    OBVIOUS
<1>1. /\ Alone(c) /\ c \notin shared
      /\ \A i, k \in Handler : WorksOn(req'[i], c) /\ WorksOn(req'[k], c) => i = k
    BY NotShared DEF HistoryNext
<1>2. req'[h] = r /\ \A i \in Handler \ {h} : req'[i] = req[i]
    BY DEF HistoryInv, IInv, TypeOK
<1>3. ASSUME NEW i \in Handler, WorksOn(req'[i], c)
      PROVE  req'[i].seen = candidates[c] /\ candidates[c].status \in Starts(req'[i])
    BY <1>1, <1>2, <1>3 DEF Alone
<1> QED BY <1>1, <1>3 DEF Alone, WorksOn, Starts

\* The commit of a request that works on c.
LEMMA AloneCommitted ==
    ASSUME HistoryInv, HistoryNext, NEW h \in Handler, req' = [req EXCEPT ![h] = Idle],
           NEW c \in DOMAIN candidates, WorksOn(req[h], c),
           NEW row, candidates' = [candidates EXCEPT ![c] = row],
           c \notin shared => Fits(row)
    PROVE  \A d \in DOMAIN candidates' \ shared' : Alone(d)'
<1> SUFFICES ASSUME NEW d \in DOMAIN candidates \ shared' PROVE Alone(d)'
    BY DEF HistoryInv, IInv, TypeOK, IsTable
<1>1. Alone(d) /\ d \notin shared
    BY NotShared DEF HistoryNext
<1>2. req'[h].pc = "idle" /\ \A i \in Handler \ {h} : req'[i] = req[i]
    BY IdleRequest DEF HistoryInv, IInv, TypeOK
<1>3. \A i \in Handler : WorksOn(req'[i], d) => i # h /\ WorksOn(req[i], d)
    BY <1>2 DEF WorksOn
<1>4. CASE d = c
    <2>1. candidates'[d] = row /\ Fits(row)
        BY <1>1, <1>4 DEF HistoryInv, IInv, TypeOK, IsTable
    <2>2. \A i \in Handler : ~WorksOn(req'[i], d)
        BY <1>1, <1>3, <1>4 DEF Alone
    <2> QED BY <2>1, <2>2 DEF Alone, WorksOn, Fits
<1>5. CASE d # c
    <2>1. candidates'[d] = candidates[d]
        BY <1>5 DEF HistoryInv, IInv, TypeOK, IsTable
    <2>2. \A i \in Handler : WorksOn(req'[i], d) => WorksOn(req[i], d) /\ req'[i] = req[i]
        BY <1>2, <1>3
    <2>3. \A i \in Handler :
             WorksOn(req'[i], d) => /\ req'[i].seen = candidates'[d]
                                    /\ candidates'[d].status \in Starts(req'[i])
        BY <1>1, <2>1, <2>2 DEF Alone
    <2> QED BY <1>1, <2>1, <2>2, <2>3 DEF Alone, WorksOn, Fits, Starts
<1> QED BY <1>4, <1>5

\* What a commit writes fits, if nobody has come between it and what it read.
LEMMA WrittenFits ==
    ASSUME HistoryInv, NEW h \in Handler, NEW c \in DOMAIN candidates \ shared,
           WorksOn(req[h], c)
    PROVE  /\ req[h].seen = candidates[c] /\ candidates[c] \in CandidateRow
           /\ Fits(candidates[c]) /\ candidates[c].status \in Starts(req[h])
BY DEF HistoryInv, Alone, IInv, TypeOK, IsTable

LEMMA SandboxFits ==
    ASSUME HistoryInv, HistoryNext, NEW h \in Handler, SandboxCommit(h)
    PROVE  \A c \in DOMAIN candidates' \ shared' : Alone(c)'
<1> DEFINE c == req[h].run.candidate
           row == [candidates[c] EXCEPT
                     !.status = Written(@, req[h].seen.status, "SANDBOX_TESTING")]
<1>1. c \in DOMAIN candidates /\ WorksOn(req[h], c)
    BY DEF SandboxCommit, WorksOn, HistoryInv, IInv, SoundRequest
<1>2. ASSUME c \notin shared PROVE Fits(row)
    <2>1. /\ req[h].seen = candidates[c] /\ candidates[c] \in CandidateRow
          /\ Fits(candidates[c]) /\ candidates[c].status \in {"PROPOSED", "SANDBOX_TESTING"}
        BY <1>1, <1>2, WrittenFits DEF Starts, SandboxCommit
    <2> QED BY <2>1 DEF Fits, Written, CandidateRow
<1>3. candidates' = [candidates EXCEPT ![c] = row] /\ req' = [req EXCEPT ![h] = Idle]
    BY DEF SandboxCommit, EndRequest
<1> HIDE DEF row
<1> QED BY <1>1, <1>2, <1>3, AloneCommitted

LEMMA ShadowFits ==
    ASSUME HistoryInv, HistoryNext, NEW h \in Handler, ShadowCommit(h)
    PROVE  \A c \in DOMAIN candidates' \ shared' : Alone(c)'
<1> DEFINE c == req[h].candidate
           old == candidates[c]
           seen == req[h].seen
           row == [old EXCEPT !.status = Written(old.status, seen.status, "SHADOW_DEPLOYED"),
                              !.traffic = Written(old.traffic, seen.traffic, req[h].percentage)]
<1>1. /\ c \in DOMAIN candidates /\ WorksOn(req[h], c)
      /\ req[h].pc = "shadowed" /\ req[h].percentage \in Percentage
    BY DEF ShadowCommit, WorksOn, HistoryInv, IInv, SoundRequest, TypeOK, Request
<1>2. ASSUME c \notin shared PROVE Fits(row)
    <2>1. /\ seen = old /\ old \in CandidateRow
          /\ Fits(old) /\ old.status \in {"SANDBOX_TESTING", "SHADOW_DEPLOYED"}
        BY <1>1, <1>2, WrittenFits DEF Starts
    <2>2. row.status = "SHADOW_DEPLOYED" /\ row.traffic = req[h].percentage
        BY <2>1 DEF Written, CandidateRow
    <2> QED BY <1>1, <2>2 DEF Fits
<1>3. candidates' = [candidates EXCEPT ![c] = row] /\ req' = [req EXCEPT ![h] = Idle]
    BY DEF ShadowCommit, EndRequest
<1> HIDE DEF row
<1> QED BY <1>1, <1>2, <1>3, AloneCommitted

LEMMA PromoteFits ==
    ASSUME HistoryInv, HistoryNext, NEW h \in Handler, PromoteCommit(h)
    PROVE  \A c \in DOMAIN candidates' \ shared' : Alone(c)'
<1> DEFINE c == req[h].candidate
           old == candidates[c]
           row == [old EXCEPT !.status = "PROMOTED", !.approved = TRUE,
                              !.traffic = Written(old.traffic, req[h].seen.traffic, 100)]
<1>1. c \in DOMAIN candidates /\ WorksOn(req[h], c)
    BY DEF PromoteCommit, WorksOn, HistoryInv, IInv, SoundRequest
<1>2. ASSUME c \notin shared PROVE Fits(row)
    <2>1. req[h].seen = old /\ old \in CandidateRow
        BY <1>1, <1>2, WrittenFits
    <2>2. row.status = "PROMOTED" /\ row.traffic = 100
        BY <2>1 DEF Written, CandidateRow
    <2> QED BY <2>2 DEF Fits
<1>3. candidates' = [candidates EXCEPT ![c] = row] /\ req' = [req EXCEPT ![h] = Idle]
    BY DEF PromoteCommit, EndRequest
<1> HIDE DEF row
<1> QED BY <1>1, <1>2, <1>3, AloneCommitted

LEMMA RollbackFits ==
    ASSUME HistoryInv, HistoryNext, NEW h \in Handler, RollbackCommit(h)
    PROVE  \A c \in DOMAIN candidates' \ shared' : Alone(c)'
<1> DEFINE c == req[h].candidate
           old == candidates[c]
           row == [old EXCEPT !.status = "ROLLED_BACK", !.reverted = TRUE,
                              !.traffic = Written(old.traffic, req[h].seen.traffic, 0)]
<1>1. c \in DOMAIN candidates /\ WorksOn(req[h], c)
    BY DEF RollbackCommit, WorksOn, HistoryInv, IInv, SoundRequest
<1>2. ASSUME c \notin shared PROVE Fits(row)
    <2>1. req[h].seen = old /\ old \in CandidateRow
        BY <1>1, <1>2, WrittenFits
    <2>2. row.status = "ROLLED_BACK" /\ row.traffic = 0
        BY <2>1 DEF Written, CandidateRow
    <2> QED BY <2>2 DEF Fits
<1>3. candidates' = [candidates EXCEPT ![c] = row] /\ req' = [req EXCEPT ![h] = Idle]
    BY DEF RollbackCommit, EndRequest
<1> HIDE DEF row
<1> QED BY <1>1, <1>2, <1>3, AloneCommitted

LEMMA ReadsAlone ==
    ASSUME HistoryInv, HistoryNext, NEW h \in Handler, NEW c \in Candidate,
           \/ \E x, y \in Score : SandboxRead(h, c, x, y)
           \/ \E p \in Percentage : ShadowRead(h, c, p)
           \/ PromoteRead(h, c) \/ RollbackRead(h, c)
    PROVE  \A d \in DOMAIN candidates' \ shared' : Alone(d)'
<1>1. c \in DOMAIN candidates => candidates[c] \in CandidateRow
    BY DEF HistoryInv, IInv, TypeOK, IsTable
<1>2. ASSUME NEW x \in Score, NEW y \in Score, SandboxRead(h, c, x, y)
      PROVE  \A d \in DOMAIN candidates' \ shared' : Alone(d)'
    <2> DEFINE r == [pc |-> "testing", seen |-> candidates[c],
                     run |-> [candidate |-> c, verdict |-> Verdict(x, y)]]
    <2>1. r \in Request
        BY <1>1, <1>2, EvolutionAssumption DEF SandboxRead, Request, Run, Verdict, SandboxVerdict
    <2> QED BY <1>2, <2>1, AloneUncommitted DEF SandboxRead, WorksOn, Starts
<1>3. ASSUME NEW p \in Percentage, ShadowRead(h, c, p)
      PROVE  \A d \in DOMAIN candidates' \ shared' : Alone(d)'
    <2> DEFINE r == [pc |-> "shadowing", candidate |-> c, seen |-> candidates[c],
                     percentage |-> p]
    <2>1. r \in Request
        BY <1>1, <1>3 DEF ShadowRead, Request
    <2> QED BY <1>3, <2>1, AloneUncommitted DEF ShadowRead, WorksOn, Starts
<1>4. ASSUME PromoteRead(h, c)
      PROVE  \A d \in DOMAIN candidates' \ shared' : Alone(d)'
    <2> DEFINE r == [pc |-> "promoting", candidate |-> c, seen |-> candidates[c]]
    <2>1. r \in Request
        BY <1>1, <1>4 DEF PromoteRead, Request
    <2> QED BY <1>4, <2>1, AloneUncommitted DEF PromoteRead, WorksOn, Starts
<1>5. ASSUME RollbackRead(h, c)
      PROVE  \A d \in DOMAIN candidates' \ shared' : Alone(d)'
    <2> DEFINE r == [pc |-> "reverting", candidate |-> c, seen |-> candidates[c]]
    <2>1. r \in Request
        BY <1>1, <1>5 DEF RollbackRead, Request
    <2> QED BY <1>5, <2>1, AloneUncommitted DEF RollbackRead, WorksOn, Starts
<1> QED BY <1>2, <1>3, <1>4, <1>5

LEMMA ChecksAlone ==
    ASSUME HistoryInv, HistoryNext, NEW h \in Handler, ShadowCheck(h) \/ PromoteCheck(h)
    PROVE  \A d \in DOMAIN candidates' \ shared' : Alone(d)'
<1>1. PICK pc \in {"shadowed", "promoted"} :
         /\ req' = [req EXCEPT ![h].pc = pc] /\ UNCHANGED candidates
         /\ \/ pc = "shadowed" /\ req[h].pc = "shadowing"
            \/ pc = "promoted" /\ req[h].pc = "promoting"
    <2>1. CASE ShadowCheck(h)
        BY <2>1 DEF ShadowCheck
    <2>2. CASE PromoteCheck(h)
        BY <2>2 DEF PromoteCheck
    <2> QED BY <2>1, <2>2
<1> DEFINE r == [req[h] EXCEPT !.pc = pc]
<1>2. /\ r \in Request /\ r.pc = pc
      /\ r.candidate = req[h].candidate /\ r.seen = req[h].seen
    BY <1>1 DEF HistoryInv, IInv, TypeOK, Request
<1>3. req' = [req EXCEPT ![h] = r]
    BY <1>1 DEF HistoryInv, IInv, TypeOK
<1> HIDE DEF r
<1>4. \A c \in DOMAIN candidates \ shared :
         WorksOn(r, c) => /\ r.seen = candidates[c]
                          /\ candidates[c].status \in Starts(r)
    BY <1>1, <1>2 DEF WorksOn, Starts, HistoryInv, Alone
<1> QED BY <1>1, <1>2, <1>3, <1>4, AloneUncommitted

LEMMA HistoryStep == HistoryInv /\ [HistoryNext]_historyVars => HistoryInv'
<1> SUFFICES ASSUME HistoryInv, [HistoryNext]_historyVars PROVE HistoryInv'
    OBVIOUS
<1>1. IInv'
    BY NextIInv DEF HistoryInv, HistoryNext, historyVars
<1>2. CASE UNCHANGED historyVars
    BY <1>1, <1>2 DEF historyVars, vars, HistoryInv, Alone, Fits, WorksOn, Starts
<1>3. CASE HistoryNext
    <2>1. ASSUME NEW c \in Candidate, Propose(c)
          PROVE  \A d \in DOMAIN candidates' \ shared' : Alone(d)'
        <3> DEFINE row == [status |-> "PROPOSED", traffic |-> 0, approved |-> FALSE,
                           reverted |-> FALSE]
        <3>1. candidates' = Inserted(candidates, c, row) /\ c \notin DOMAIN candidates
              /\ UNCHANGED req /\ Fits(row)
            BY <2>1 DEF Propose, Fits
        <3> HIDE DEF row
        <3> SUFFICES ASSUME NEW d \in DOMAIN candidates' \ shared' PROVE Alone(d)'
            OBVIOUS
        <3>2. CASE d = c
            <4>1. \A h \in Handler : ~WorksOn(req[h], c)
                BY <3>1 DEF HistoryInv, IInv, SoundRequest, WorksOn
            <4> QED BY <3>1, <3>2, <4>1 DEF Alone, Inserted, Fits, WorksOn
        <3>3. CASE d # c
            <4>1. d \in DOMAIN candidates /\ candidates'[d] = candidates[d]
                BY <3>1, <3>3 DEF Inserted
            <4>2. Alone(d)
                BY <1>3, <4>1, NotShared
            <4> QED BY <3>1, <4>1, <4>2 DEF Alone, Fits, WorksOn, Starts
        <3> QED BY <3>2, <3>3
    <2>2. ASSUME NEW h \in Handler, Abort(h)
          PROVE  \A d \in DOMAIN candidates' \ shared' : Alone(d)'
        <3>1. \A c : ~WorksOn(Idle, c)
            BY IdleRequest DEF WorksOn
        <3> QED BY <1>3, <2>2, <3>1, IdleRequest, AloneUncommitted DEF Abort, EndRequest
    <2>3. \A d \in DOMAIN candidates' \ shared' : Alone(d)'
        BY <1>3, <2>1, <2>2, ReadsAlone, ChecksAlone, SandboxFits, ShadowFits, PromoteFits,
           RollbackFits DEF HistoryNext, Next
    <2> QED BY <1>1, <2>3 DEF HistoryInv
<1> QED BY <1>2, <1>3

\* The share of traffic a candidate has is the one its status stands for,
\* unless two requests have worked on it at the same time.
THEOREM TrafficFollowsStatus == HistorySpec => []TrafficMatchesStatus
<1>1. HistoryInit => HistoryInv
    BY InitIInv DEF HistoryInit, HistoryInv, Init, EmptyTable
<1>2. HistoryInv => TrafficMatchesStatus
    BY DEF HistoryInv, Alone, Fits, TrafficMatchesStatus
<1> QED BY <1>1, <1>2, HistoryStep, PTL DEF HistorySpec
=============================================================================
