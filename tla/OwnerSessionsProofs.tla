------------------------ MODULE OwnerSessionsProofs -------------------------
(***************************************************************************)
(* Proofs about OwnerSessions, for any sets of sessions, tokens and        *)
(* requests and any times.                                                 *)
(***************************************************************************)
EXTENDS OwnerSessionsHistory, FiniteSetTheorems, TLAPS

\* The inductive invariant.  That a revoked session's tokens are spent and
\* that it is given no other depends on what the row lock protects.
IInv == TypeOK /\ TokenWithinSession /\ RevocationSpends /\ LockProtocol

\* A request's program counter tells which of its local variables it has.
LEMMA RequestFields ==
    ASSUME NEW r \in Request
    PROVE  /\ r.pc = "login" => r.now \in Nat
           /\ r.pc \in {"found", "refreshing", "rotating"}
                => r.now \in Nat /\ r.token \in Token /\ r.seenUsed \in BOOLEAN
           /\ r.pc \in {"revoke", "revoking"}
                => /\ r.op \in {"logout", "revoke_session"}
                   /\ r.session \in Session
           /\ r.pc = "sweep" => r.todo \subseteq Session /\ r.got \subseteq Session
BY DEF Request

\* The updates a handler makes to its own variables keep them well typed.
LEMMA RequestUpdates ==
    ASSUME NEW r \in Request
    PROVE  /\ r.pc = "found" => [r EXCEPT !.pc = "refreshing"] \in Request
           /\ r.pc = "refreshing" => [r EXCEPT !.pc = "rotating"] \in Request
           /\ r.pc = "revoke" => [r EXCEPT !.pc = "revoking"] \in Request
BY DEF Request

LEMMA IdleRequest == Idle \in Request
BY DEF Request, Idle

\* Revoking some rows changes nothing in them but the reason.
LEMMA RevokedRowsFact ==
    ASSUME TypeOK, NEW S, NEW why \in Reason
    PROVE  /\ IsTable(RevokedRows(S, why), Session, SessionRow)
           /\ DOMAIN RevokedRows(S, why) = DOMAIN sessions
           /\ \A s \in DOMAIN sessions :
                 /\ RevokedRows(S, why)[s].expires = sessions[s].expires
                 /\ RevokedRows(S, why)[s].revoked =
                       IF s \in S /\ ~Revoked(s) THEN why ELSE sessions[s].revoked
BY DEF TypeOK, IsTable, SessionRow, RevokedRows, Revoked

\* Spending the tokens of some sessions changes nothing in them but `used'.
LEMMA SpentTokensFact ==
    ASSUME TypeOK, NEW S
    PROVE  /\ IsTable(SpentTokens(S), Token, TokenRow)
           /\ DOMAIN SpentTokens(S) = DOMAIN tokens
           /\ \A t \in DOMAIN tokens :
                 /\ SpentTokens(S)[t].session = tokens[t].session
                 /\ SpentTokens(S)[t].expires = tokens[t].expires
                 /\ SpentTokens(S)[t].used <=> (tokens[t].used \/ tokens[t].session \in S)
BY DEF TypeOK, IsTable, TokenRow, SpentTokens

LEMMA InitIInv == Init => IInv
<1> SUFFICES ASSUME Init PROVE IInv
    OBVIOUS
<1>1. TypeOK
    BY DEF Init, TypeOK, IsTable, EmptyTable, Idle, Request
<1>2. TokenWithinSession /\ RevocationSpends
    BY DEF Init, EmptyTable, TokenWithinSession, RevocationSpends, TokensOf
<1>3. LockProtocol
    BY DEF Init, LockProtocol, Idle
<1> QED BY <1>1, <1>2, <1>3 DEF IInv

-----------------------------------------------------------------------------
(* One lemma per action: it preserves the inductive invariant. *)

LEMMA LoginBeginIInv ==
    ASSUME IInv, NEW h \in Handler, LoginBegin(h)
    PROVE  IInv'
<1> USE DEF IInv, LoginBegin
<1>1. TypeOK'
    BY DEF TypeOK, Request
<1>2. TokenWithinSession' /\ RevocationSpends'
    BY DEF TokenWithinSession, RevocationSpends, TokensOf
<1>3. LockProtocol'
    BY DEF LockProtocol, SessionOf, Revoked, TypeOK
<1> QED BY <1>1, <1>2, <1>3

LEMMA LoginCommitIInv ==
    ASSUME IInv, NEW h \in Handler, LoginCommit(h)
    PROVE  IInv'
<1>1. PICK s \in Session \ DOMAIN sessions, t \in Token \ DOMAIN tokens :
          /\ sessions' = Inserted(sessions, s, [expires |-> req[h].now + SessionTTL,
                                                revoked |-> "no"])
          /\ tokens' = Inserted(tokens, t, [session |-> s, used |-> FALSE,
                                            expires |-> req[h].now + RefreshTTL])
    BY DEF LoginCommit
<1> DEFINE row == [expires |-> req[h].now + SessionTTL, revoked |-> "no"]
           token == [session |-> s, used |-> FALSE, expires |-> req[h].now + RefreshTTL]
<1>2. /\ row \in SessionRow
      /\ token \in TokenRow
      /\ row.revoked = "no"
      /\ token.session = s
      /\ token.expires <= row.expires
    <2>1. req[h].now \in Nat
        BY RequestFields DEF IInv, TypeOK, LoginCommit
    <2> QED BY <2>1, TTLAssumption DEF SessionRow, TokenRow
<1> HIDE DEF row, token
<1>3. /\ IsTable(sessions', Session, SessionRow)
      /\ DOMAIN sessions' = DOMAIN sessions \cup {s}
      /\ sessions'[s] = row
      /\ \A i \in DOMAIN sessions : sessions'[i] = sessions[i]
    <2>1. sessions' = Inserted(sessions, s, row)
        BY <1>1 DEF row
    <2> QED BY <2>1, <1>2 DEF IInv, TypeOK, IsTable, Inserted
<1>4. /\ IsTable(tokens', Token, TokenRow)
      /\ DOMAIN tokens' = DOMAIN tokens \cup {t}
      /\ tokens'[t] = token
      /\ \A i \in DOMAIN tokens : tokens'[i] = tokens[i]
    <2>1. tokens' = Inserted(tokens, t, token)
        BY <1>1 DEF token
    <2> QED BY <2>1, <1>2 DEF IInv, TypeOK, IsTable, Inserted
<1>5. /\ locks' = [locks EXCEPT ![h] = {}]
      /\ req' = [req EXCEPT ![h] = Idle]
      /\ UNCHANGED <<clock, ownerActive>>
    BY DEF LoginCommit, EndRequest
<1>6. TypeOK'
    BY <1>2, <1>3, <1>4, <1>5, IdleRequest DEF IInv, TypeOK
<1>7. TokenWithinSession'
    BY <1>2, <1>3, <1>4 DEF IInv, TypeOK, TokenWithinSession
<1>8. RevocationSpends'
    BY <1>2, <1>3, <1>4 DEF IInv, TypeOK, RevocationSpends, TokensOf
<1>9. LockProtocol'
    BY <1>2, <1>3, <1>4, <1>5 DEF IInv, TypeOK, LockProtocol, SessionOf, Revoked, Idle
<1> QED BY <1>6, <1>7, <1>8, <1>9 DEF IInv

LEMMA RefreshFindIInv ==
    ASSUME IInv, NEW h \in Handler, NEW t \in Token, RefreshFind(h, t)
    PROVE  IInv'
<1> USE DEF IInv, RefreshFind
<1>1. TypeOK'
    BY DEF TypeOK, Request, IsTable, TokenRow
<1>2. TokenWithinSession' /\ RevocationSpends'
    BY DEF TokenWithinSession, RevocationSpends, TokensOf
<1>3. LockProtocol'
    BY DEF LockProtocol, SessionOf, Revoked, TypeOK
<1> QED BY <1>1, <1>2, <1>3

LEMMA RefreshLockIInv ==
    ASSUME IInv, NEW h \in Handler, RefreshLock(h)
    PROVE  IInv'
<1> USE DEF IInv, RefreshLock
<1>1. SessionOf(h) \in DOMAIN sessions /\ SessionOf(h) \in Session
    BY DEF LockProtocol, TypeOK, SessionOf, IsTable
<1>2. TypeOK'
    BY <1>1, RequestUpdates DEF TypeOK
<1>3. TokenWithinSession' /\ RevocationSpends'
    BY DEF TokenWithinSession, RevocationSpends, TokensOf
<1>4. LockProtocol'
    BY <1>1 DEF LockProtocol, SessionOf, Revoked, TypeOK, Unlocked
<1> QED BY <1>2, <1>3, <1>4

LEMMA RefreshReplayIInv ==
    ASSUME IInv, NEW h \in Handler, RefreshReplay(h)
    PROVE  IInv'
<1> DEFINE s == SessionOf(h)
<1>1. s \in DOMAIN sessions
    BY DEF IInv, LockProtocol, TypeOK, SessionOf, IsTable, RefreshReplay
<1>2. /\ IsTable(sessions', Session, SessionRow)
      /\ DOMAIN sessions' = DOMAIN sessions
      /\ sessions'[s].expires = sessions[s].expires
      /\ sessions'[s].revoked = "refresh_token_replay"
      /\ \A i \in DOMAIN sessions \ {s} : sessions'[i] = sessions[i]
    BY <1>1 DEF IInv, TypeOK, IsTable, SessionRow, Reason, RefreshReplay
<1> HIDE DEF s
<1>3. /\ locks' = [locks EXCEPT ![h] = {}]
      /\ req' = [req EXCEPT ![h] = Idle]
      /\ UNCHANGED <<clock, ownerActive, tokens>>
    BY DEF RefreshReplay, EndRequest
<1>4. TypeOK'
    BY <1>2, <1>3, IdleRequest DEF IInv, TypeOK
<1>5. TokenWithinSession'
    BY <1>1, <1>2, <1>3 DEF IInv, TypeOK, TokenWithinSession
<1>6. RevocationSpends'
    BY <1>1, <1>2, <1>3 DEF IInv, TypeOK, RevocationSpends, TokensOf
<1>7. LockProtocol'
    <2>1. locks[h] = {s}
        BY DEF IInv, LockProtocol, RefreshReplay, s
    <2>2. \A k \in Handler \ {h} : s \notin locks[k]
        BY <2>1 DEF IInv, LockProtocol
    <2> QED BY <2>2, <1>1, <1>2, <1>3
            DEF IInv, TypeOK, LockProtocol, SessionOf, Revoked, Idle
<1> QED BY <1>4, <1>5, <1>6, <1>7 DEF IInv

\* Ending a request, with nothing written, preserves the invariant: the 401 of
\* a refresh and every rollback.
LEMMA RollbackIInv ==
    ASSUME IInv, NEW h \in Handler, EndRequest(h),
           UNCHANGED <<clock, ownerActive, sessions, tokens>>
    PROVE  IInv'
<1> USE DEF IInv, EndRequest
<1>1. TypeOK'
    BY IdleRequest DEF TypeOK
<1>2. TokenWithinSession' /\ RevocationSpends'
    BY DEF TokenWithinSession, RevocationSpends, TokensOf
<1>3. LockProtocol'
    BY DEF LockProtocol, SessionOf, Revoked, TypeOK, Idle
<1> QED BY <1>1, <1>2, <1>3

LEMMA RefreshAcceptIInv ==
    ASSUME IInv, NEW h \in Handler, RefreshAccept(h)
    PROVE  IInv'
<1> USE DEF IInv, RefreshAccept
<1>1. TypeOK'
    BY RequestUpdates DEF TypeOK
<1>2. TokenWithinSession' /\ RevocationSpends'
    BY DEF TokenWithinSession, RevocationSpends, TokensOf
<1>3. LockProtocol'
    BY DEF LockProtocol, SessionOf, Revoked, TypeOK, MayRotate
<1> QED BY <1>1, <1>2, <1>3

LEMMA RefreshCommitIInv ==
    ASSUME IInv, NEW h \in Handler, RefreshCommit(h)
    PROVE  IInv'
<1> DEFINE s == SessionOf(h)
           p == req[h].token
<1>1. PICK t \in Token \ DOMAIN tokens :
          tokens' = Inserted([tokens EXCEPT ![p].used = TRUE], t,
                             [session |-> s, used |-> FALSE,
                              expires |-> RotatedExpiry(req[h].now, s)])
    BY DEF RefreshCommit
<1> DEFINE token == [session |-> s, used |-> FALSE,
                     expires |-> RotatedExpiry(req[h].now, s)]
<1>2. /\ p \in DOMAIN tokens
      /\ tokens[p].session = s
      /\ s \in DOMAIN sessions
      /\ s \in Session
      /\ ~Revoked(s)
    BY DEF IInv, LockProtocol, TypeOK, SessionOf, IsTable, RefreshCommit
<1>3. /\ token \in TokenRow
      /\ token.session = s
      /\ token.expires <= sessions[s].expires
    <2>1. req[h].now \in Nat
        BY RequestFields DEF IInv, TypeOK, RefreshCommit
    <2>2. sessions[s].expires \in Nat
        BY <1>2 DEF IInv, TypeOK, IsTable, SessionRow
    <2> QED BY <1>2, <2>1, <2>2, TTLAssumption DEF TokenRow, RotatedExpiry
<1> HIDE DEF token, s, p
<1>4. /\ IsTable(tokens', Token, TokenRow)
      /\ DOMAIN tokens' = DOMAIN tokens \cup {t}
      /\ tokens'[t] = token
      /\ \A i \in DOMAIN tokens : /\ tokens'[i].session = tokens[i].session
                                  /\ tokens'[i].expires = tokens[i].expires
                                  /\ tokens[i].used => tokens'[i].used
    <2>1. tokens' = Inserted([tokens EXCEPT ![p].used = TRUE], t, token)
        BY <1>1 DEF token
    <2> QED BY <2>1, <1>2, <1>3 DEF IInv, TypeOK, IsTable, Inserted, TokenRow
<1>5. /\ locks' = [locks EXCEPT ![h] = {}]
      /\ req' = [req EXCEPT ![h] = Idle]
      /\ UNCHANGED <<clock, ownerActive, sessions>>
    BY DEF RefreshCommit, EndRequest
<1>6. TypeOK'
    BY <1>2, <1>3, <1>4, <1>5, IdleRequest DEF IInv, TypeOK
<1>7. TokenWithinSession'
    BY <1>2, <1>3, <1>4, <1>5 DEF IInv, TypeOK, TokenWithinSession
<1>8. RevocationSpends'
    BY <1>2, <1>3, <1>4, <1>5 DEF IInv, TypeOK, RevocationSpends, TokensOf, Revoked
<1>9. LockProtocol'
    BY <1>2, <1>4, <1>5 DEF IInv, TypeOK, LockProtocol, SessionOf, Revoked, Idle
<1> QED BY <1>6, <1>7, <1>8, <1>9 DEF IInv

LEMMA RevokeBeginIInv ==
    ASSUME IInv, NEW h \in Handler, NEW op \in {"logout", "revoke_session"},
           NEW s \in Session, RevokeBegin(h, op, s)
    PROVE  IInv'
<1> USE DEF IInv, RevokeBegin
<1>1. TypeOK'
    BY DEF TypeOK, Request
<1>2. TokenWithinSession' /\ RevocationSpends'
    BY DEF TokenWithinSession, RevocationSpends, TokensOf
<1>3. LockProtocol'
    BY DEF LockProtocol, SessionOf, Revoked, TypeOK
<1> QED BY <1>1, <1>2, <1>3

LEMMA RevokeLockIInv ==
    ASSUME IInv, NEW h \in Handler, RevokeLock(h)
    PROVE  IInv'
<1> USE DEF IInv, RevokeLock
<1>1. req[h].session \in Session
    BY RequestFields DEF TypeOK
<1>2. TypeOK'
    BY <1>1, RequestUpdates DEF TypeOK
<1>3. TokenWithinSession' /\ RevocationSpends'
    BY DEF TokenWithinSession, RevocationSpends, TokensOf
<1>4. LockProtocol'
    BY DEF LockProtocol, SessionOf, Revoked, TypeOK, Unlocked
<1> QED BY <1>2, <1>3, <1>4

\* What the three revocations have in common: rows of S, all locked by h, are
\* revoked by the owner and the tokens of all of S that are revoked now for
\* an owner's reason are spent.
LEMMA OwnerRevocationIInv ==
    ASSUME IInv, NEW h \in Handler, NEW S, NEW why \in {"logout", "revoked_by_owner"},
           S \subseteq locks[h] \cap DOMAIN sessions,
           sessions' = RevokedRows(S, why),
           tokens' = SpentTokens(S),
           EndRequest(h), UNCHANGED <<clock, ownerActive>>
    PROVE  IInv'
<1>1. /\ IsTable(sessions', Session, SessionRow)
      /\ DOMAIN sessions' = DOMAIN sessions
      /\ \A s \in DOMAIN sessions :
            /\ sessions'[s].expires = sessions[s].expires
            /\ sessions'[s].revoked = IF s \in S /\ ~Revoked(s) THEN why
                                                                ELSE sessions[s].revoked
    BY RevokedRowsFact DEF IInv, Reason
<1>2. /\ IsTable(tokens', Token, TokenRow)
      /\ DOMAIN tokens' = DOMAIN tokens
      /\ \A t \in DOMAIN tokens :
            /\ tokens'[t].session = tokens[t].session
            /\ tokens'[t].expires = tokens[t].expires
            /\ tokens'[t].used <=> (tokens[t].used \/ tokens[t].session \in S)
    BY SpentTokensFact DEF IInv
<1>3. /\ locks' = [locks EXCEPT ![h] = {}]
      /\ req' = [req EXCEPT ![h] = Idle]
    BY DEF EndRequest
<1>4. TypeOK'
    BY <1>1, <1>2, <1>3, IdleRequest DEF IInv, TypeOK
<1>5. TokenWithinSession'
    BY <1>1, <1>2 DEF IInv, TypeOK, TokenWithinSession
<1>6. RevocationSpends'
    BY <1>1, <1>2 DEF IInv, TypeOK, RevocationSpends, TokensOf, Revoked
<1>7. LockProtocol'
    <2>1. \A k \in Handler \ {h} : locks[k] \cap S = {}
        BY DEF IInv, LockProtocol
    <2>2. \A k \in Handler \ {h} : \A s \in locks[k] \cap DOMAIN sessions :
              Revoked(s)' = Revoked(s)
        BY <2>1, <1>1 DEF Revoked
    <2> QED BY <2>2, <1>1, <1>2, <1>3
            DEF IInv, TypeOK, LockProtocol, SessionOf, Idle
<1> QED BY <1>4, <1>5, <1>6, <1>7 DEF IInv

LEMMA RevokeIInv ==
    ASSUME IInv, NEW h \in Handler, Revoke(h)
    PROVE  IInv'
<1>1. CASE LogoutCommit(h) /\ ~Revoked(req[h].session)
    <2>1. {req[h].session} \subseteq locks[h] \cap DOMAIN sessions
        BY <1>1 DEF IInv, LockProtocol, LogoutCommit
    <2> QED BY <1>1, <2>1, OwnerRevocationIInv DEF LogoutCommit
<1>2. CASE LogoutCommit(h) /\ Revoked(req[h].session)
    <2>1. sessions' = sessions
        <3>1. sessions' = [s \in DOMAIN sessions |-> sessions[s]]
            BY <1>2 DEF LogoutCommit, RevokedRows
        <3> QED BY <3>1 DEF IInv, TypeOK, IsTable
    <2> QED BY <1>2, <2>1, RollbackIInv DEF LogoutCommit
<1>3. CASE RevokeCommit(h)
    <2>1. {req[h].session} \subseteq locks[h] \cap DOMAIN sessions
        BY <1>3 DEF IInv, LockProtocol, RevokeCommit
    <2> QED BY <1>3, <2>1, OwnerRevocationIInv DEF RevokeCommit
<1>4. CASE SweepCommit(h)
    <2>1. req[h].got \subseteq locks[h] \cap DOMAIN sessions
        BY <1>4 DEF IInv, LockProtocol, SweepCommit
    <2> QED BY <1>4, <2>1, OwnerRevocationIInv DEF SweepCommit
<1> QED BY <1>1, <1>2, <1>3, <1>4 DEF Revoke

LEMMA SweepBeginIInv ==
    ASSUME IInv, NEW h \in Handler, NEW kept, SweepBegin(h, kept)
    PROVE  IInv'
<1> USE DEF IInv, SweepBegin
<1>1. TypeOK'
    BY DEF TypeOK, Request, IsTable
<1>2. TokenWithinSession' /\ RevocationSpends'
    BY DEF TokenWithinSession, RevocationSpends, TokensOf
<1>3. LockProtocol'
    BY DEF LockProtocol, SessionOf, Revoked, TypeOK
<1> QED BY <1>1, <1>2, <1>3

LEMMA SweepLockIInv ==
    ASSUME IInv, NEW h \in Handler, NEW s \in Session, SweepLock(h, s)
    PROVE  IInv'
<1> DEFINE got == req[h].got \cup (IF Revoked(s) THEN {} ELSE {s})
           next == [pc |-> "sweep", todo |-> req[h].todo \ {s}, got |-> got]
<1>1. /\ req[h].todo \subseteq Session
      /\ req[h].got \subseteq Session
      /\ req[h] \in [pc : {"sweep"}, todo : SUBSET Session, got : SUBSET Session]
    BY DEF IInv, TypeOK, Request, SweepLock
<1>2. req' = [req EXCEPT ![h] = next]
    BY <1>1 DEF IInv, TypeOK, SweepLock
<1>3. next \in Request
    BY <1>1 DEF Request
<1>4. /\ locks' = [locks EXCEPT ![h] = locks[h] \cup {s}]
      /\ UNCHANGED <<clock, ownerActive, sessions, tokens>>
    BY DEF SweepLock
<1>5. TypeOK'
    BY <1>2, <1>3, <1>4 DEF IInv, TypeOK
<1>6. TokenWithinSession' /\ RevocationSpends'
    BY <1>4 DEF IInv, TokenWithinSession, RevocationSpends, TokensOf
<1>7. LockProtocol'
    <2>1. /\ req[h].pc = "sweep"
          /\ s \in req[h].todo
          /\ \A k \in Handler : s \notin locks[k]
        BY DEF SweepLock, Unlocked
    <2>2. /\ next.pc = "sweep"
          /\ next.todo \subseteq DOMAIN sessions
          /\ next.got \subseteq (locks[h] \cup {s}) \cap DOMAIN sessions
          /\ \A i \in next.got : ~Revoked(i)
        BY <2>1 DEF IInv, LockProtocol
    <2> HIDE DEF next
    <2> QED BY <1>2, <1>4, <2>1, <2>2
            DEF IInv, TypeOK, LockProtocol, SessionOf, Revoked
<1> QED BY <1>5, <1>6, <1>7 DEF IInv

\* Nothing but the clock or the owner's status changes.
LEMMA EnvironmentIInv ==
    ASSUME IInv, clock' \in Nat, ownerActive' \in BOOLEAN,
           UNCHANGED <<sessions, tokens, locks, req>>
    PROVE  IInv'
BY DEF IInv, TypeOK, TokenWithinSession, RevocationSpends, LockProtocol,
       TokensOf, SessionOf, Revoked

LEMMA NextIInv == IInv /\ [Next]_vars => IInv'
<1> SUFFICES ASSUME IInv, [Next]_vars
             PROVE  IInv'
    OBVIOUS
<1>1. ASSUME NEW h \in Handler, BeginRequest(h)
      PROVE  IInv'
    BY <1>1, LoginBeginIInv, RefreshFindIInv, RevokeBeginIInv, SweepBeginIInv
       DEF BeginRequest
<1>2. ASSUME NEW h \in Handler, AcquireLock(h)
      PROVE  IInv'
    BY <1>2, RefreshLockIInv, RevokeLockIInv, SweepLockIInv DEF AcquireLock
<1>3. ASSUME NEW h \in Handler, Refresh(h)
      PROVE  IInv'
    BY <1>3, RefreshReplayIInv, RollbackIInv, RefreshAcceptIInv, RefreshCommitIInv
       DEF Refresh, RefreshDeny
<1>4. ASSUME NEW h \in Handler, Abort(h)
      PROVE  IInv'
    BY <1>4, RollbackIInv DEF Abort
<1>5. CASE SetOwnerStatus
    BY <1>5, EnvironmentIInv DEF SetOwnerStatus, IInv, TypeOK
<1>6. CASE Tick
    BY <1>6, EnvironmentIInv DEF Tick, IInv, TypeOK
<1>7. CASE UNCHANGED vars
    BY <1>7, EnvironmentIInv DEF vars, IInv, TypeOK
<1> QED BY <1>1, <1>2, <1>3, <1>4, <1>5, <1>6, <1>7, LoginCommitIInv, RevokeIInv
        DEF Next

LEMMA Invariance == Spec => []IInv
BY InitIInv, NextIInv, PTL DEF Spec
-----------------------------------------------------------------------------
(* The theorems. *)

\* Every row and every request's state is well formed in every reachable
\* state, and every token belongs to a session that exists.
THEOREM TypeCorrect == Spec => []TypeOK
BY Invariance, PTL DEF IInv

\* Rotation never extends a token past the absolute expiry of its session.
THEOREM ExpiryIsAbsolute == Spec => []TokenWithinSession
BY Invariance, PTL DEF IInv

\* When the owner's revocation of a session commits, every refresh token of
\* the session is spent, whatever refreshes were in flight.
THEOREM RevocationInvalidatesTokens == Spec => []RevocationSpends
BY Invariance, PTL DEF IInv

\* A handler at its commit acts on a session row nobody else has changed.
THEOREM LocksProtect == Spec => []LockProtocol
BY Invariance, PTL DEF IInv

\* No step un-revokes a session or gives a revoked one another token.
LEMMA RevokedStaysRevoked ==
    ASSUME IInv, [Next]_vars, NEW s \in DOMAIN sessions, Revoked(s)
    PROVE  s \in DOMAIN sessions' /\ Revoked(s)' /\ TokensOf(s)' = TokensOf(s)
<1> DEFINE Goal == /\ s \in DOMAIN sessions'
                   /\ Revoked(s)'
                   /\ TokensOf(s)' = TokensOf(s)
<1>1. CASE UNCHANGED <<sessions, tokens>>
    BY <1>1 DEF Revoked, TokensOf
<1>2. ASSUME NEW h \in Handler, LoginCommit(h)
      PROVE  Goal
    BY <1>2 DEF LoginCommit, Inserted, Revoked, TokensOf, IInv, TypeOK, IsTable
<1>3. ASSUME NEW h \in Handler, RefreshReplay(h)
      PROVE  Goal
    BY <1>3 DEF RefreshReplay, Revoked, TokensOf, IInv, TypeOK, IsTable
<1>4. ASSUME NEW h \in Handler, RefreshCommit(h)
      PROVE  Goal
    <2>1. SessionOf(h) # s /\ req[h].token \in DOMAIN tokens
        BY <1>4 DEF RefreshCommit, IInv, LockProtocol
    <2> QED BY <1>4, <2>1
            DEF RefreshCommit, Inserted, Revoked, TokensOf, IInv, TypeOK, IsTable,
                TokenRow
<1>5. ASSUME NEW h \in Handler, Revoke(h)
      PROVE  Goal
    <2>1. ASSUME NEW S, NEW why \in Reason, sessions' = RevokedRows(S, why)
          PROVE  s \in DOMAIN sessions' /\ Revoked(s)'
        BY <2>1, RevokedRowsFact DEF Revoked, IInv
    <2>2. ASSUME NEW S, tokens' = SpentTokens(S)
          PROVE  TokensOf(s)' = TokensOf(s)
        BY <2>2, SpentTokensFact DEF TokensOf, IInv
    <2>3. tokens' = tokens => TokensOf(s)' = TokensOf(s)
        BY DEF TokensOf
    <2> QED BY <1>5, <2>1, <2>2, <2>3
            DEF Revoke, LogoutCommit, RevokeCommit, SweepCommit, Reason
<1> QED BY <1>1, <1>2, <1>3, <1>4, <1>5
        DEF Next, vars, BeginRequest, LoginBegin, RefreshFind, RevokeBegin, SweepBegin,
            AcquireLock, RefreshLock, RevokeLock, SweepLock, Refresh, RefreshDeny,
            RefreshAccept, Abort, SetOwnerStatus, Tick

\* "Revocation is permanent": a revoked session stays revoked and its family
\* of tokens is closed, also against the refreshes already in flight.
THEOREM RevocationIsFinal == Spec => RevocationFinal
<1>1. IInv /\ [Next]_vars =>
        [\A s \in DOMAIN sessions :
            Revoked(s) => /\ s \in DOMAIN sessions'
                          /\ Revoked(s)'
                          /\ TokensOf(s)' = TokensOf(s)]_vars
    BY RevokedStaysRevoked
<1> QED BY <1>1, Invariance, PTL DEF Spec, RevocationFinal
-----------------------------------------------------------------------------
(* The service implements SessionContract: a step of a handler is a step   *)
(* of the contract or leaves the contract's variables alone.               *)

LEMMA OpenStep ==
    ASSUME IInv, NEW h \in Handler, LoginCommit(h)
    PROVE  Contract!Open
<1>1. PICK s \in Session \ DOMAIN sessions, t \in Token \ DOMAIN tokens :
          /\ sessions' = Inserted(sessions, s, [expires |-> req[h].now + SessionTTL,
                                                revoked |-> "no"])
          /\ tokens' = Inserted(tokens, t, [session |-> s, used |-> FALSE,
                                            expires |-> req[h].now + RefreshTTL])
    BY DEF LoginCommit
<1>2. /\ DOMAIN sessions' = DOMAIN sessions \cup {s}
      /\ ~Revoked(s)'
      /\ \A i \in DOMAIN sessions : sessions'[i] = sessions[i]
    BY <1>1 DEF Inserted, Revoked
<1>3. /\ DOMAIN tokens' = DOMAIN tokens \cup {t}
      /\ tokens'[t].session = s
      /\ ~tokens'[t].used
      /\ \A i \in DOMAIN tokens : tokens'[i] = tokens[i]
    BY <1>1 DEF Inserted
<1>4. deadSessions' = deadSessions
    BY <1>2 DEF deadSessions, Revoked
<1>5. familyOf' = Inserted(familyOf, t, s)
    BY <1>3 DEF familyOf, Inserted
<1>6. spentTokens' = spentTokens
    BY <1>3 DEF spentTokens
<1>7. t \in Token \ DOMAIN familyOf
    BY DEF familyOf
<1> QED BY <1>2, <1>4, <1>5, <1>6, <1>7
        DEF Contract!Open, Contract!Inserted, Inserted, deadSessions, familyOf, spentTokens

LEMMA ExchangeStep ==
    ASSUME IInv, NEW h \in Handler, RefreshCommit(h)
    PROVE  Contract!Exchange
<1> DEFINE p == req[h].token
           s == SessionOf(h)
<1>1. PICK t \in Token \ DOMAIN tokens :
          tokens' = Inserted([tokens EXCEPT ![p].used = TRUE], t,
                             [session |-> s, used |-> FALSE,
                              expires |-> RotatedExpiry(req[h].now, s)])
    BY DEF RefreshCommit
<1>2. /\ p \in DOMAIN tokens
      /\ tokens[p].session = s
      /\ s \in DOMAIN sessions
      /\ ~Revoked(s)
    BY DEF IInv, LockProtocol, TypeOK, SessionOf, IsTable, RefreshCommit
<1> HIDE DEF p, s
<1>3. /\ DOMAIN tokens' = DOMAIN tokens \cup {t}
      /\ tokens'[t].session = s
      /\ ~tokens'[t].used
      /\ tokens'[p].used
      /\ \A i \in DOMAIN tokens : tokens'[i].session = tokens[i].session
      /\ \A i \in DOMAIN tokens \ {p} : tokens'[i] = tokens[i]
    BY <1>1, <1>2 DEF Inserted, IInv, TypeOK, IsTable, TokenRow
<1>4. sessions' = sessions
    BY DEF RefreshCommit
<1>5. deadSessions' = deadSessions
    BY <1>4 DEF deadSessions, Revoked
<1>6. familyOf' = Inserted(familyOf, t, s)
    BY <1>3 DEF familyOf, Inserted
<1>7. spentTokens' = spentTokens \cup {p}
    BY <1>2, <1>3 DEF spentTokens
<1>8. /\ p \in DOMAIN familyOf
      /\ familyOf[p] = s
      /\ t \in Token \ DOMAIN familyOf
    BY <1>2 DEF familyOf
<1> QED BY <1>2, <1>4, <1>5, <1>6, <1>7, <1>8
        DEF Contract!Exchange, Contract!Inserted, Inserted, deadSessions

LEMMA CondemnStep ==
    ASSUME IInv, NEW h \in Handler, RefreshReplay(h)
    PROVE  Contract!Condemn
<1>1. SessionOf(h) \in DOMAIN sessions
    BY DEF IInv, LockProtocol, TypeOK, SessionOf, IsTable, RefreshReplay
<1>2. deadSessions' = deadSessions \cup {SessionOf(h)}
    BY <1>1 DEF deadSessions, Revoked, RefreshReplay, IInv, TypeOK, IsTable, SessionRow
<1>3. DOMAIN sessions' = DOMAIN sessions /\ tokens' = tokens
    BY DEF RefreshReplay
<1> QED BY <1>1, <1>2, <1>3 DEF Contract!Condemn, familyOf, spentTokens

LEMMA CloseStep ==
    ASSUME IInv, NEW h \in Handler, Revoke(h)
    PROVE  Contract!Close
<1>1. ASSUME NEW S \in SUBSET DOMAIN sessions, NEW why \in Reason,
             sessions' = RevokedRows(S, why), tokens' = SpentTokens(S)
      PROVE  Contract!Close
    <2>1. deadSessions' = deadSessions \cup S /\ DOMAIN sessions' = DOMAIN sessions
        BY <1>1, RevokedRowsFact DEF IInv, deadSessions, Revoked, Reason
    <2>2. familyOf' = familyOf
        BY <1>1, SpentTokensFact DEF IInv, familyOf
    <2>3. spentTokens' = spentTokens \cup {t \in DOMAIN familyOf : familyOf[t] \in S}
        BY <1>1, SpentTokensFact DEF IInv, spentTokens, familyOf
    <2> QED BY <2>1, <2>2, <2>3 DEF Contract!Close
<1>2. ASSUME sessions' = sessions, tokens' = tokens
      PROVE  Contract!Close
    <2>1. deadSessions' = deadSessions \cup {}
        BY <1>2 DEF deadSessions, Revoked
    <2>2. familyOf' = familyOf /\ spentTokens' = spentTokens
        BY <1>2 DEF familyOf, spentTokens
    <2>3. spentTokens' = spentTokens \cup {t \in DOMAIN familyOf : familyOf[t] \in {}}
        BY <2>2
    <2> QED BY <1>2, <2>1, <2>2, <2>3 DEF Contract!Close
<1>3. CASE LogoutCommit(h) /\ Revoked(req[h].session)
    <2>1. sessions' = [s \in DOMAIN sessions |-> sessions[s]]
        BY <1>3 DEF LogoutCommit, RevokedRows
    <2>2. sessions' = sessions
        BY <2>1 DEF IInv, TypeOK, IsTable
    <2> QED BY <1>2, <1>3, <2>2 DEF LogoutCommit
<1>4. CASE LogoutCommit(h) /\ ~Revoked(req[h].session)
    <2>1. {req[h].session} \in SUBSET DOMAIN sessions
        BY <1>4 DEF IInv, LockProtocol, LogoutCommit
    <2> QED BY <1>1, <1>4, <2>1 DEF LogoutCommit, Reason
<1>5. CASE RevokeCommit(h)
    <2>1. {req[h].session} \in SUBSET DOMAIN sessions
        BY <1>5 DEF IInv, LockProtocol, RevokeCommit
    <2> QED BY <1>1, <1>5, <2>1 DEF RevokeCommit, Reason
<1>6. CASE SweepCommit(h)
    <2>1. req[h].got \in SUBSET DOMAIN sessions
        BY <1>6 DEF IInv, LockProtocol, SweepCommit
    <2> QED BY <1>1, <1>6, <2>1 DEF SweepCommit, Reason
<1> QED BY <1>3, <1>4, <1>5, <1>6 DEF Revoke

LEMMA ContractStep ==
    ASSUME IInv, [Next]_vars
    PROVE  [Contract!Open \/ Contract!Exchange \/ Contract!Condemn \/ Contract!Close]_(Contract!contractVars)
<1>1. CASE UNCHANGED <<sessions, tokens>>
    BY <1>1 DEF Contract!contractVars, deadSessions, familyOf, spentTokens, Revoked
<1> QED BY <1>1, OpenStep, ExchangeStep, CondemnStep, CloseStep
        DEF Next, vars, BeginRequest, LoginBegin, RefreshFind, RevokeBegin, SweepBegin,
            AcquireLock, RefreshLock, RevokeLock, SweepLock, Refresh, RefreshDeny,
            RefreshAccept, Abort, SetOwnerStatus, Tick

\* For any number of concurrent requests the identity service keeps the
\* contract of SessionContract.
THEOREM ServiceKeepsContract == Spec => ContractKept
<1>1. Init => Contract!Start
    BY DEF Init, EmptyTable, Contract!Start, Contract!EmptyTable,
           deadSessions, familyOf, spentTokens
<1>2. IInv /\ [Next]_vars =>
        [Contract!Open \/ Contract!Exchange \/ Contract!Condemn \/ Contract!Close]_(Contract!contractVars)
    BY ContractStep
<1> QED BY <1>1, <1>2, Invariance, PTL DEF Spec, ContractKept, Contract!Promise

-----------------------------------------------------------------------------
(* The chain of a session's tokens *)

\* The history watches: it keeps nothing from happening.
LEMMA HistoryKept == HistorySpec => []IInv
<1>1. HistoryInit => Init
    BY DEF HistoryInit
<1>2. [HistoryNext]_historyVars => [Next]_vars
    BY DEF HistoryNext, historyVars
<1> QED BY <1>1, <1>2, InitIInv, NextIInv, PTL DEF HistorySpec

\* A session that OnlyRacesFork speaks of.
Quiet(s) == ~Revoked(s) /\ s \notin contested

\* Two refreshes that hold one token make its session contested.
Known ==
    \A s \in DOMAIN sessions : \A t \in TokensOf(s), h, k \in Handler :
        h # k /\ Holds(h, t) /\ Holds(k, t) => ~Quiet(s)

\* Only a refresh that holds its token rotates it.
Rotates == \A h \in Handler : req[h].pc = "rotating" => ~req[h].seenUsed

\* All the tokens of a quiet session but one are used.
Chain ==
    \A s \in DOMAIN sessions :
        Quiet(s) => \E t \in TokensOf(s) : \A u \in TokensOf(s) : tokens[u].used <=> u # t

\* What a refresh has found unused still is, in a quiet session.
Fresh ==
    \A s \in DOMAIN sessions : \A t \in TokensOf(s), h \in Handler :
        Holds(h, t) /\ Quiet(s) => ~tokens[t].used

ForkInv == Known /\ Rotates /\ Chain /\ Fresh

ContestedStep == contested' = {s \in contested \cup Contested' : ~Revoked(s)'}

LEMMA KnownStep ==
    ASSUME ContestedStep
    PROVE  Known'
<1> SUFFICES ASSUME NEW s \in DOMAIN sessions', NEW t \in TokensOf(s)',
                    NEW h \in Handler, NEW k \in Handler, h # k, Holds(h, t)', Holds(k, t)'
             PROVE  ~Quiet(s)'
    BY DEF Known
<1>1. s \in Contested'
    BY DEF Contested
<1> QED BY <1>1 DEF ContestedStep, Quiet

\* A session that is quiet after a step was quiet before it.
LEMMA QuietBefore ==
    ASSUME IInv, [Next]_vars, ContestedStep, NEW s \in DOMAIN sessions, Quiet(s)'
    PROVE  Quiet(s)
BY RevokedStaysRevoked DEF ContestedStep, Quiet

\* A request comes to hold a token by finding it unused, and to rotate it by
\* having held it.
LEMMA HoldsStep ==
    ASSUME IInv, [Next]_vars, NEW h \in Handler
    PROVE  /\ \A t \in Token : Holds(h, t)' => \/ Holds(h, t)
                                               \/ /\ t \in DOMAIN tokens
                                                  /\ ~tokens[t].used
                                                  /\ UNCHANGED <<sessions, tokens>>
           /\ req'[h].pc = "rotating" => req'[h] = req[h] \/ ~req'[h].seenUsed
<1> DEFINE Goal == /\ \A t \in Token : Holds(h, t)' => \/ Holds(h, t)
                                                       \/ /\ t \in DOMAIN tokens
                                                          /\ ~tokens[t].used
                                                          /\ UNCHANGED <<sessions, tokens>>
                   /\ req'[h].pc = "rotating" => req'[h] = req[h] \/ ~req'[h].seenUsed
<1>1. CASE req'[h] = req[h]
    BY <1>1 DEF Holds
<1>2. ASSUME NEW k \in Handler, req'[k] # req[k], \E r : req' = [req EXCEPT ![k] = r], k # h
      PROVE  Goal
    BY <1>1, <1>2 DEF IInv, TypeOK
<1>3. CASE EndRequest(h)
    BY <1>3 DEF EndRequest, Idle, Holds, IInv, TypeOK
<1>4. ASSUME NEW t \in Token, RefreshFind(h, t)
      PROVE  Goal
    BY <1>4 DEF RefreshFind, Holds, IInv, TypeOK
<1>5. CASE LoginBegin(h) \/ \E kept \in SUBSET Session : SweepBegin(h, kept)
    BY <1>5 DEF LoginBegin, SweepBegin, Holds, IInv, TypeOK
<1>6. ASSUME NEW op \in {"logout", "revoke_session"}, NEW s \in Session, RevokeBegin(h, op, s)
      PROVE  Goal
    BY <1>6 DEF RevokeBegin, Holds, IInv, TypeOK
<1>7. ASSUME NEW s \in Session, SweepLock(h, s)
      PROVE  Goal
    BY <1>7 DEF SweepLock, Holds, IInv, TypeOK
<1>8. CASE RefreshLock(h) \/ RefreshAccept(h)
    <2>1. \/ /\ req[h].pc = "found"
             /\ req'[h] = [req[h] EXCEPT !.pc = "refreshing"]
          \/ /\ req[h].pc = "refreshing"
             /\ ~req[h].seenUsed
             /\ req'[h] = [req[h] EXCEPT !.pc = "rotating"]
        BY <1>8 DEF RefreshLock, RefreshAccept, IInv, TypeOK
    <2> QED BY <2>1 DEF Holds, Request, IInv, TypeOK
<1>9. CASE RevokeLock(h)
    BY <1>9 DEF RevokeLock, Holds, Request, IInv, TypeOK
<1>10. CASE req' = req
    BY <1>1, <1>10
<1>11. ASSUME NEW k \in Handler, k # h,
              \/ BeginRequest(k) \/ AcquireLock(k) \/ LoginCommit(k)
              \/ Refresh(k) \/ Revoke(k) \/ Abort(k)
       PROVE  Goal
    <2>1. req'[h] = req[h]
        BY <1>11 DEF BeginRequest, LoginBegin, RefreshFind, RevokeBegin, SweepBegin, AcquireLock,
                     RefreshLock, RevokeLock, SweepLock, LoginCommit, Refresh, RefreshReplay,
                     RefreshDeny, RefreshAccept, RefreshCommit, Revoke, LogoutCommit,
                     RevokeCommit, SweepCommit, Abort, EndRequest, IInv, TypeOK
    <2> QED BY <1>1, <2>1
<1>12. CASE \/ BeginRequest(h) \/ AcquireLock(h) \/ LoginCommit(h)
            \/ Refresh(h) \/ Revoke(h) \/ Abort(h)
    <2>1. CASE BeginRequest(h)
        <3>1. \A kept \in {{}} \cup {{s} : s \in DOMAIN sessions} : kept \in SUBSET Session
            BY DEF IInv, TypeOK, IsTable
        <3> QED BY <1>4, <1>5, <1>6, <2>1, <3>1 DEF BeginRequest
    <2>2. CASE AcquireLock(h)
        BY <1>7, <1>8, <1>9, <2>2 DEF AcquireLock
    <2>3. CASE LoginCommit(h) \/ Revoke(h) \/ Abort(h)
        BY <1>3, <2>3 DEF LoginCommit, Revoke, LogoutCommit, RevokeCommit, SweepCommit, Abort
    <2>4. CASE Refresh(h)
        BY <1>3, <1>8, <2>4 DEF Refresh, RefreshReplay, RefreshDeny, RefreshCommit
    <2> QED BY <1>12, <2>1, <2>2, <2>3, <2>4
<1> QED BY <1>10, <1>11, <1>12 DEF Next, vars, SetOwnerStatus, Tick

\* A step that inserts no token and uses none but those of sessions it revokes.
Harmless ==
    /\ DOMAIN sessions' = DOMAIN sessions
    /\ DOMAIN tokens' = DOMAIN tokens
    /\ \A s \in DOMAIN sessions :
          /\ TokensOf(s)' = TokensOf(s)
          /\ \A t \in TokensOf(s) : tokens'[t].used = tokens[t].used \/ Revoked(s)'

LEMMA RevokeHarmless ==
    ASSUME IInv, NEW h \in Handler, Revoke(h)
    PROVE  Harmless
<1>1. ASSUME NEW S, NEW why \in Reason,
             sessions' = RevokedRows(S, why), tokens' = SpentTokens(S)
      PROVE  Harmless
    <2>1. DOMAIN sessions' = DOMAIN sessions /\ DOMAIN tokens' = DOMAIN tokens
        BY <1>1, RevokedRowsFact, SpentTokensFact DEF IInv
    <2>2. \A s \in DOMAIN sessions : s \in S => Revoked(s)'
        BY <1>1, RevokedRowsFact DEF IInv, Revoked, Reason
    <2>3. \A s \in DOMAIN sessions : TokensOf(s)' = TokensOf(s)
        BY <1>1, <2>1, SpentTokensFact DEF IInv, TokensOf
    <2>4. \A s \in DOMAIN sessions \ S : \A t \in TokensOf(s) : tokens'[t] = tokens[t]
        BY <1>1 DEF SpentTokens, TokensOf
    <2> QED BY <2>1, <2>2, <2>3, <2>4 DEF Harmless
<1>2. CASE LogoutCommit(h) /\ Revoked(req[h].session)
    <2>1. sessions' = sessions /\ tokens' = tokens
        <3>1. sessions' = RevokedRows({req[h].session}, "logout") /\ tokens' = tokens
            BY <1>2 DEF LogoutCommit
        <3>2. sessions' = [s \in DOMAIN sessions |-> sessions[s]]
            BY <1>2, <3>1 DEF RevokedRows
        <3> QED BY <3>1, <3>2 DEF IInv, TypeOK, IsTable
    <2> QED BY <2>1 DEF Harmless, TokensOf
<1>3. CASE LogoutCommit(h) /\ ~Revoked(req[h].session)
    BY <1>1, <1>3 DEF LogoutCommit, Reason
<1>4. CASE RevokeCommit(h) \/ SweepCommit(h)
    BY <1>1, <1>4 DEF RevokeCommit, SweepCommit, Reason
<1> QED BY <1>2, <1>3, <1>4 DEF Revoke

LEMMA HarmlessStep ==
    ASSUME IInv, ForkInv, [Next]_vars, ContestedStep, Harmless
    PROVE  Chain' /\ Fresh'
<1>1. ASSUME NEW s \in DOMAIN sessions', Quiet(s)'
      PROVE  /\ s \in DOMAIN sessions
             /\ Quiet(s)
             /\ TokensOf(s)' = TokensOf(s)
             /\ \A t \in TokensOf(s) : tokens'[t].used = tokens[t].used
    BY <1>1, QuietBefore DEF Harmless, Quiet
<1>2. Chain'
    <2> SUFFICES ASSUME NEW s \in DOMAIN sessions', Quiet(s)'
                 PROVE  \E t \in TokensOf(s)' : \A u \in TokensOf(s)' : tokens'[u].used <=> u # t
        BY DEF Chain
    <2>1. PICK t \in TokensOf(s) : \A u \in TokensOf(s) : tokens[u].used <=> u # t
        BY <1>1 DEF ForkInv, Chain
    <2> QED BY <1>1, <2>1
<1>3. Fresh'
    <2> SUFFICES ASSUME NEW s \in DOMAIN sessions', NEW t \in TokensOf(s)', NEW h \in Handler,
                        Holds(h, t)', Quiet(s)'
                 PROVE  ~tokens'[t].used
        BY DEF Fresh
    <2>1. t \in TokensOf(s) /\ t \in Token
        BY <1>1 DEF TokensOf, IInv, TypeOK, IsTable
    <2>2. ~tokens[t].used
        BY <1>1, <2>1, HoldsStep DEF ForkInv, Fresh
    <2> QED BY <1>1, <2>1, <2>2
<1> QED BY <1>2, <1>3

LEMMA LoginStep ==
    ASSUME IInv, IInv', ForkInv, [Next]_vars, ContestedStep, NEW h \in Handler, LoginCommit(h)
    PROVE  Chain' /\ Fresh'
<1>1. PICK s \in Session \ DOMAIN sessions, t \in Token \ DOMAIN tokens :
          /\ sessions' = Inserted(sessions, s, [expires |-> req[h].now + SessionTTL,
                                                revoked |-> "no"])
          /\ tokens' = Inserted(tokens, t, [session |-> s, used |-> FALSE,
                                            expires |-> req[h].now + RefreshTTL])
    BY DEF LoginCommit
<1>2. /\ DOMAIN sessions' = DOMAIN sessions \cup {s}
      /\ DOMAIN tokens' = DOMAIN tokens \cup {t}
      /\ tokens'[t].session = s
      /\ ~tokens'[t].used
      /\ \A u \in DOMAIN tokens : tokens'[u] = tokens[u] /\ tokens[u].session \in DOMAIN sessions
    BY <1>1 DEF Inserted, IInv, TypeOK
<1>3. Chain'
    <2> SUFFICES ASSUME NEW i \in DOMAIN sessions', Quiet(i)'
                 PROVE  \E v \in TokensOf(i)' : \A u \in TokensOf(i)' : tokens'[u].used <=> u # v
        BY DEF Chain
    <2>1. CASE i = s
        <3>1. TokensOf(i)' = {t}
            BY <1>2, <2>1 DEF TokensOf
        <3> QED BY <1>2, <3>1
    <2>2. CASE i # s
        <3>1. TokensOf(i)' = TokensOf(i)
            BY <1>2, <2>2 DEF TokensOf
        <3>2. PICK v \in TokensOf(i) : \A u \in TokensOf(i) : tokens[u].used <=> u # v
            BY <1>2, <2>2, QuietBefore DEF ForkInv, Chain
        <3>3. \A u \in TokensOf(i) : tokens'[u] = tokens[u]
            BY <1>2 DEF TokensOf
        <3> QED BY <3>1, <3>2, <3>3
    <2> QED BY <2>1, <2>2
<1>4. Fresh'
    <2> SUFFICES ASSUME NEW i \in DOMAIN sessions', NEW u \in TokensOf(i)', NEW k \in Handler,
                        Holds(k, u)', Quiet(i)'
                 PROVE  ~tokens'[u].used
        BY DEF Fresh
    <2>1. CASE u = t
        BY <1>2, <2>1
    <2>2. CASE u # t
        <3>1. i \in DOMAIN sessions /\ u \in TokensOf(i) /\ u \in Token
            BY <1>2, <2>2 DEF TokensOf, IInv, TypeOK, IsTable
        <3>2. Quiet(i)
            BY <3>1, QuietBefore
        <3>3. ~tokens[u].used
            BY <3>1, <3>2, HoldsStep DEF ForkInv, Fresh
        <3> QED BY <1>2, <3>1, <3>3 DEF TokensOf
    <2> QED BY <2>1, <2>2
<1> QED BY <1>3, <1>4

LEMMA RotationStep ==
    ASSUME IInv, IInv', ForkInv, [Next]_vars, ContestedStep, NEW h \in Handler, RefreshCommit(h)
    PROVE  Chain' /\ Fresh'
<1> DEFINE p == req[h].token
           s == SessionOf(h)
<1>1. PICK t \in Token \ DOMAIN tokens :
          tokens' = Inserted([tokens EXCEPT ![p].used = TRUE], t,
                             [session |-> s, used |-> FALSE,
                              expires |-> RotatedExpiry(req[h].now, s)])
    BY DEF RefreshCommit
<1>2. p \in DOMAIN tokens /\ p \in Token /\ tokens[p].session = s /\ tokens[p] \in TokenRow
    BY DEF RefreshCommit, SessionOf, IInv, LockProtocol, TypeOK, IsTable
<1>3. /\ sessions' = sessions
      /\ DOMAIN tokens' = DOMAIN tokens \cup {t}
      /\ t # p
      /\ tokens'[t].session = s /\ ~tokens'[t].used
      /\ tokens'[p].session = s /\ tokens'[p].used
      /\ \A u \in DOMAIN tokens \ {p} : tokens'[u] = tokens[u]
    BY <1>1, <1>2 DEF RefreshCommit, Inserted, TokenRow
<1>4. Holds(h, p)
    BY DEF RefreshCommit, Holds, ForkInv, Rotates
<1>5. Chain'
    <2> SUFFICES ASSUME NEW i \in DOMAIN sessions', Quiet(i)'
                 PROVE  \E v \in TokensOf(i)' : \A u \in TokensOf(i)' : tokens'[u].used <=> u # v
        BY DEF Chain
    <2>0. PICK v \in TokensOf(i) : \A u \in TokensOf(i) : tokens[u].used <=> u # v
        BY <1>3, QuietBefore DEF ForkInv, Chain
    <2>1. CASE i = s
        <3>1. TokensOf(i)' = TokensOf(i) \cup {t}
            BY <1>2, <1>3, <2>1 DEF TokensOf
        <3>2. ~tokens[p].used /\ p \in TokensOf(i)
            BY <1>2, <1>3, <1>4, <2>1, QuietBefore DEF ForkInv, Fresh, TokensOf
        <3>3. v = p
            BY <2>0, <3>2
        <3>4. \A u \in TokensOf(i)' : tokens'[u].used <=> u # t
            BY <1>3, <2>0, <3>1, <3>3 DEF TokensOf
        <3> QED BY <3>1, <3>4
    <2>2. CASE i # s
        <3>1. TokensOf(i)' = TokensOf(i)
            BY <1>2, <1>3, <2>2 DEF TokensOf
        <3>2. \A u \in TokensOf(i) : tokens'[u] = tokens[u]
            BY <1>2, <1>3, <2>2 DEF TokensOf
        <3> QED BY <2>0, <3>1, <3>2
    <2> QED BY <2>1, <2>2
<1>6. Fresh'
    <2> SUFFICES ASSUME NEW i \in DOMAIN sessions', NEW u \in TokensOf(i)', NEW k \in Handler,
                        Holds(k, u)', Quiet(i)'
                 PROVE  ~tokens'[u].used
        BY DEF Fresh
    <2>1. CASE u = t
        BY <1>3, <2>1
    <2>2. CASE u # t
        <3>1. /\ i \in DOMAIN sessions
              /\ u \in TokensOf(i) /\ u \in DOMAIN tokens /\ u \in Token
            BY <1>2, <1>3, <2>2 DEF TokensOf, IInv, TypeOK, IsTable
        <3>2. Quiet(i)
            BY <3>1, QuietBefore
        <3>3. Holds(k, u) /\ k # h
            <4>1. tokens' # tokens
                BY <1>3
            <4>2. ~Holds(h, u)'
                BY DEF RefreshCommit, EndRequest, Idle, Holds, IInv, TypeOK
            <4> QED BY <3>1, <4>1, <4>2, HoldsStep
        <3>4. u # p
            BY <1>4, <3>1, <3>2, <3>3 DEF ForkInv, Known
        <3> QED BY <1>3, <3>1, <3>2, <3>3, <3>4 DEF ForkInv, Fresh
    <2> QED BY <2>1, <2>2
<1> QED BY <1>5, <1>6

LEMMA ForkInvariance == HistorySpec => []ForkInv
<1>1. HistoryInit => ForkInv
    BY DEF HistoryInit, Init, EmptyTable, Idle, ForkInv, Known, Rotates, Chain, Fresh
<1>2. ASSUME IInv, IInv', ForkInv, [HistoryNext]_historyVars
      PROVE  ForkInv'
    <2>1. CASE HistoryNext
        <3>1. [Next]_vars /\ ContestedStep
            BY <2>1 DEF HistoryNext, ContestedStep
        <3>2. Known'
            BY <3>1, KnownStep
        <3>3. Rotates'
            BY <1>2, <3>1, HoldsStep DEF ForkInv, Rotates
        <3>4. CASE UNCHANGED <<sessions, tokens>>
            <4>1. Harmless
                BY <3>4 DEF Harmless, TokensOf
            <4> QED BY <1>2, <3>1, <3>2, <3>3, <4>1, HarmlessStep DEF ForkInv
        <3>5. ASSUME NEW h \in Handler, RefreshReplay(h)
              PROVE  ForkInv'
            <4>1. Harmless
                BY <3>5 DEF RefreshReplay, Harmless, TokensOf, IInv, TypeOK
            <4> QED BY <1>2, <3>1, <3>2, <3>3, <4>1, HarmlessStep DEF ForkInv
        <3>6. ASSUME NEW h \in Handler, LoginCommit(h) \/ RefreshCommit(h)
              PROVE  ForkInv'
            BY <1>2, <3>1, <3>2, <3>3, <3>6, LoginStep, RotationStep DEF ForkInv
        <3>7. ASSUME NEW h \in Handler, Revoke(h)
              PROVE  ForkInv'
            BY <1>2, <3>1, <3>2, <3>3, <3>7, RevokeHarmless, HarmlessStep DEF ForkInv
        <3>8. \/ UNCHANGED <<sessions, tokens>>
              \/ \E h \in Handler : \/ RefreshReplay(h) \/ LoginCommit(h) \/ RefreshCommit(h)
                                    \/ Revoke(h)
            BY <2>1 DEF HistoryNext, Next, BeginRequest, LoginBegin, RefreshFind, RevokeBegin,
                        SweepBegin, AcquireLock, RefreshLock, RevokeLock, SweepLock, Refresh,
                        RefreshDeny, RefreshAccept, Abort, SetOwnerStatus, Tick
        <3> QED BY <3>4, <3>5, <3>6, <3>7, <3>8
    <2>2. CASE UNCHANGED historyVars
        BY <1>2, <2>2 DEF historyVars, vars, ForkInv, Known, Rotates, Chain, Fresh, Quiet,
                          Holds, TokensOf, Revoked
    <2> QED BY <1>2, <2>1, <2>2
<1>3. IInv /\ IInv' /\ ForkInv /\ [HistoryNext]_historyVars => ForkInv'
    BY <1>2
<1> QED BY <1>1, <1>3, HistoryKept, PTL DEF HistorySpec

\* The chain of a session's tokens forks, or is cut, only where two refreshes
\* have held one token of it at the same time, for any number of sessions, tokens
\* and requests.
THEOREM ChainsForkByRaces == HistorySpec => []OnlyRacesFork
<1>1. ForkInv => OnlyRacesFork
    <2> SUFFICES ASSUME ForkInv, NEW s \in DOMAIN sessions, ~Revoked(s), s \notin contested
                 PROVE  Cardinality({t \in TokensOf(s) : ~tokens[t].used}) = 1
        BY DEF OnlyRacesFork
    <2>1. PICK t \in TokensOf(s) : \A u \in TokensOf(s) : tokens[u].used <=> u # t
        BY DEF ForkInv, Chain, Quiet
    <2>2. {u \in TokensOf(s) : ~tokens[u].used} = {t}
        BY <2>1
    <2> QED BY <2>2, FS_Singleton, Zenon
<1> QED BY <1>1, ForkInvariance, PTL
-----------------------------------------------------------------------------
(* Deadlocks *)

\* The session rows whose locks h is waiting to take.
Awaits(h) ==
    CASE req[h].pc = "found"  -> {SessionOf(h)}
      [] req[h].pc = "revoke" -> {req[h].session}
      [] req[h].pc = "sweep"  -> req[h].todo
      [] OTHER                -> {}

\* h waits, and every row it could lock next is locked by another of D.
Stuck(h, D) ==
    /\ Awaits(h) # {}
    /\ \A s \in Awaits(h) : \E d \in D \ {h} : s \in locks[d]

\* Requests that only wait for each other have a deadlock of sweeps among them:
\* the one that revoke_all_sessions can run into, and that PostgreSQL ends.
DeadlocksAreOfSweeps ==
    \A D \in SUBSET Handler :
        D # {} /\ (\A h \in D : Stuck(h, D))
            => \E h, k \in D : h # k /\ Deadlocked(h) /\ Deadlocked(k)

\* Login, refresh and logout never deadlock, however many of them wait for one
\* another: only sweeps do, two at least, and a deadlock of them is behind every
\* circle of requests that wait.  So the fairness that has PostgreSQL abort the
\* sweeps of a deadlock leaves no other deadlock to be resolved.
THEOREM SweepsAreBehindDeadlocks == Spec => []DeadlocksAreOfSweeps
<1>1. ASSUME IInv, NEW D \in SUBSET Handler, D # {}, \A h \in D : Stuck(h, D)
      PROVE  \E h, k \in D : h # k /\ Deadlocked(h) /\ Deadlocked(k)
    <2> DEFINE E == {h \in D : req[h].pc = "sweep"}
    <2>1. \A d \in D : locks[d] # {} => d \in E
        BY <1>1 DEF Stuck, Awaits, IInv, LockProtocol
    <2>2. \A h \in D : \A s \in Awaits(h) : \E d \in E \ {h} : s \in locks[d]
        BY <1>1, <2>1 DEF Stuck
    <2>3. \A h \in D : \E d \in E : d # h
        BY <1>1, <2>2 DEF Stuck
    <2>4. \A h \in E : Deadlocked(h)
        <3>1. \A k \in E : Awaits(k) = req[k].todo
            BY DEF Awaits
        <3>2. \A k \in E : /\ req[k].pc = "sweep"
                           /\ req[k].todo # {}
                           /\ \A s \in req[k].todo : \E d \in E \ {k} : s \in locks[d]
            BY <1>1, <2>2, <3>1 DEF Stuck
        <3>3. E \in SUBSET Handler
            BY <1>1
        <3> QED BY <3>2, <3>3 DEF Deadlocked
    <2>5. PICK h \in E : TRUE
        BY <1>1, <2>3
    <2>6. PICK k \in E : k # h
        BY <2>3
    <2> QED BY <2>4, <2>5, <2>6
<1>2. IInv => DeadlocksAreOfSweeps
    BY <1>1 DEF DeadlocksAreOfSweeps
<1> QED BY <1>2, Invariance, PTL
=============================================================================
