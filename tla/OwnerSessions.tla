--------------------------- MODULE OwnerSessions ----------------------------
(***************************************************************************)
(* Owner authentication sessions and rotating refresh tokens:              *)
(* services/identity/service.py over the tables owner_sessions and         *)
(* refresh_tokens.                                                         *)
(*                                                                         *)
(* Each in-flight HTTP request is a Handler: a coroutine with a PostgreSQL *)
(* transaction of its own, READ COMMITTED.  A handler runs until its next  *)
(* statement that another transaction can influence; that statement starts *)
(* a new action.  What a transaction writes is published in one step, the  *)
(* commit in apps/api/dependencies.py:get_db, because every row it writes  *)
(* is one it has inserted itself or whose session row it has locked.       *)
(*                                                                         *)
(* Row locks are taken on session rows.  The token rows are locked too,    *)
(* but always under the lock of their session row, so that second lock is  *)
(* never contended and is not modelled.                                    *)
(*                                                                         *)
(* Times are whole ticks of one clock.  The only part of `revoked_at' the  *)
(* code ever reads is whether it is NULL, so a row keeps the reason alone. *)
(***************************************************************************)
EXTENDS Naturals, FiniteSets, Rows

CONSTANTS
    Session,      \* primary keys of owner_sessions
    Token,        \* refresh tokens; a token and its SHA-256 digest are one
    Handler,      \* requests in flight
    SessionTTL,   \* jwt_session_days
    RefreshTTL,   \* jwt_refresh_token_hours
    MaxTime       \* bound: the clock stops here

ASSUME TTLAssumption ==
    /\ SessionTTL \in Nat
    /\ RefreshTTL \in Nat
    /\ MaxTime \in Nat
    /\ RefreshTTL <= SessionTTL   \* 24 hours and 7 days in apps/api/config.py

VARIABLES
    clock,        \* datetime.now(UTC)
    ownerActive,  \* owners.status = 'ACTIVE'
    sessions,     \* the committed rows of owner_sessions
    tokens,       \* the committed rows of refresh_tokens
    locks,        \* the session rows each handler's transaction has locked
    req           \* the local variables of each handler

vars == <<clock, ownerActive, sessions, tokens, locks, req>>

Reason == {"logout", "revoked_by_owner", "refresh_token_replay"}

\* `revoked' is "no" while revoked_at is NULL, then the revocation_reason.
SessionRow == [expires: Nat, revoked: Reason \cup {"no"}]

\* `used' stands for used_at IS NOT NULL.
TokenRow == [session: Session, expires: Nat, used: BOOLEAN]

Request ==
         [pc: {"idle"}]
    \cup [pc: {"login"}, now: Nat]
    \cup [pc: {"found", "refreshing", "rotating"},
          now: Nat, token: Token, seenUsed: BOOLEAN]
    \cup [pc: {"revoke", "revoking"},
          op: {"logout", "revoke_session"}, session: Session]
    \cup [pc: {"sweep"}, todo: SUBSET Session, got: SUBSET Session]

Idle == [pc |-> "idle"]

TypeOK ==
    /\ clock \in Nat
    /\ ownerActive \in BOOLEAN
    /\ IsTable(sessions, Session, SessionRow)
    /\ IsTable(tokens, Token, TokenRow)
    /\ \A t \in DOMAIN tokens : tokens[t].session \in DOMAIN sessions
    /\ locks \in [Handler -> SUBSET Session]
    /\ req \in [Handler -> Request]

Init ==
    /\ clock = 0
    /\ ownerActive = TRUE
    /\ sessions = EmptyTable
    /\ tokens = EmptyTable
    /\ locks = [h \in Handler |-> {}]
    /\ req = [h \in Handler |-> Idle]

-----------------------------------------------------------------------------
(* What the handlers read and write. *)

Revoked(s) == sessions[s].revoked # "no"

TokensOf(s) == {t \in DOMAIN tokens : tokens[t].session = s}

\* SELECT ... FOR UPDATE returns only once no other transaction holds the row.
Unlocked(s) == \A k \in Handler : s \notin locks[k]

\* The transaction of h ends: its row locks go, the coroutine returns.
EndRequest(h) ==
    /\ locks' = [locks EXCEPT ![h] = {}]
    /\ req' = [req EXCEPT ![h] = Idle]

\* Bug: only the tokens that had been handed out when the transaction began
\* would be spent; here, none.
SpentTokens_missed(S) == tokens

\* UPDATE refresh_tokens SET used_at = now WHERE session_id IN S AND used_at
\* IS NULL: the statement sees every token row committed when it runs.
SpentTokens(S) ==
    [t \in DOMAIN tokens |->
        IF tokens[t].session \in S THEN [tokens[t] EXCEPT !.used = TRUE]
                                   ELSE tokens[t]]

\* The rows of S that are not revoked yet become revoked for the reason `why'.
RevokedRows(S, why) ==
    [s \in DOMAIN sessions |->
        IF s \in S /\ ~Revoked(s) THEN [sessions[s] EXCEPT !.revoked = why]
                                  ELSE sessions[s]]

\* Bug: the rotated token's lifetime is not capped by the session's.
RotatedExpiry_uncapped(now, s) == now + RefreshTTL

\* A rotated token lives for RefreshTTL, never beyond its session.
RotatedExpiry(now, s) ==
    IF now + RefreshTTL <= sessions[s].expires
    THEN now + RefreshTTL
    ELSE sessions[s].expires
-----------------------------------------------------------------------------
(* POST /auth/login *)

LoginBegin(h) ==
    /\ req[h].pc = "idle"
    /\ ownerActive
    /\ req' = [req EXCEPT ![h] = [pc |-> "login", now |-> clock]]
    /\ UNCHANGED <<clock, ownerActive, sessions, tokens, locks>>

\* Bug: the session object is built but never added to the ORM session.
LoginCommit_orphan(h) ==
    /\ req[h].pc = "login"
    /\ \E s \in Session \ DOMAIN sessions, t \in Token \ DOMAIN tokens :
          tokens' = Inserted(tokens, t, [session |-> s, used |-> FALSE,
                                         expires |-> req[h].now + RefreshTTL])
    /\ EndRequest(h)
    /\ UNCHANGED <<clock, ownerActive, sessions>>

LoginCommit(h) ==
    /\ req[h].pc = "login"
    /\ \E s \in Session \ DOMAIN sessions, t \in Token \ DOMAIN tokens :
          /\ sessions' = Inserted(sessions, s,
                                  [expires |-> req[h].now + SessionTTL,
                                   revoked |-> "no"])
          /\ tokens' = Inserted(tokens, t, [session |-> s, used |-> FALSE,
                                            expires |-> req[h].now + RefreshTTL])
    /\ EndRequest(h)
    /\ UNCHANGED <<clock, ownerActive>>
-----------------------------------------------------------------------------
(* POST /auth/refresh *)

\* The first SELECT takes no lock.  It loads the token into the identity map
\* of the ORM session, where its used_at stays as it was read here: the later
\* SELECT ... FOR UPDATE of the same row finds the instance loaded and leaves
\* its attributes alone.
RefreshFind(h, t) ==
    /\ req[h].pc = "idle"
    /\ t \in DOMAIN tokens
    /\ req' = [req EXCEPT ![h] = [pc |-> "found", now |-> clock, token |-> t,
                                  seenUsed |-> tokens[t].used]]
    /\ UNCHANGED <<clock, ownerActive, sessions, tokens, locks>>

SessionOf(h) == tokens[req[h].token].session

\* Bug: the session row is read without FOR UPDATE.
RefreshLock_plain(h) ==
    /\ req[h].pc = "found"
    /\ req' = [req EXCEPT ![h].pc = "refreshing"]
    /\ UNCHANGED <<clock, ownerActive, sessions, tokens, locks>>

RefreshLock(h) ==
    /\ req[h].pc = "found"
    /\ Unlocked(SessionOf(h))
    /\ locks' = [locks EXCEPT ![h] = {SessionOf(h)}]
    /\ req' = [req EXCEPT ![h].pc = "refreshing"]
    /\ UNCHANGED <<clock, ownerActive, sessions, tokens>>

\* A token that was already used when it was found: the session is revoked,
\* again if it was before, and this much is committed before the 401.
RefreshReplay(h) ==
    /\ req[h].pc = "refreshing"
    /\ req[h].seenUsed
    /\ sessions' = [sessions EXCEPT
                      ![SessionOf(h)].revoked = "refresh_token_replay"]
    /\ EndRequest(h)
    /\ UNCHANGED <<clock, ownerActive, tokens>>

\* Bug: only the token's own expiry is looked at, not the session's state.
MayRotate_tokenOnly(h) ==
    /\ tokens[req[h].token].expires > req[h].now
    /\ ownerActive

MayRotate(h) ==
    /\ ~Revoked(SessionOf(h))
    /\ sessions[SessionOf(h)].expires > req[h].now
    /\ tokens[req[h].token].expires > req[h].now
    /\ ownerActive

\* Bug: the 401 path forgets to end the transaction, which keeps its lock.
RefreshDeny_leak(h) ==
    /\ req[h].pc = "refreshing"
    /\ ~req[h].seenUsed
    /\ ~MayRotate(h)
    /\ req' = [req EXCEPT ![h] = Idle]
    /\ UNCHANGED <<clock, ownerActive, sessions, tokens, locks>>

RefreshDeny(h) ==
    /\ req[h].pc = "refreshing"
    /\ ~req[h].seenUsed
    /\ ~MayRotate(h)
    /\ EndRequest(h)
    /\ UNCHANGED <<clock, ownerActive, sessions, tokens>>

RefreshAccept(h) ==
    /\ req[h].pc = "refreshing"
    /\ ~req[h].seenUsed
    /\ MayRotate(h)
    /\ req' = [req EXCEPT ![h].pc = "rotating"]
    /\ UNCHANGED <<clock, ownerActive, sessions, tokens, locks>>

\* Bug: the presented token is not marked used.
RefreshCommit_unmarked(h) ==
    /\ req[h].pc = "rotating"
    /\ \E t \in Token \ DOMAIN tokens :
          tokens' = Inserted(tokens, t,
                             [session |-> SessionOf(h), used |-> FALSE,
                              expires |-> RotatedExpiry(req[h].now, SessionOf(h))])
    /\ EndRequest(h)
    /\ UNCHANGED <<clock, ownerActive, sessions>>

\* The presented token is marked used, its successor inserted.
RefreshCommit(h) ==
    /\ req[h].pc = "rotating"
    /\ \E t \in Token \ DOMAIN tokens :
          tokens' = Inserted([tokens EXCEPT ![req[h].token].used = TRUE], t,
                             [session |-> SessionOf(h), used |-> FALSE,
                              expires |-> RotatedExpiry(req[h].now, SessionOf(h))])
    /\ EndRequest(h)
    /\ UNCHANGED <<clock, ownerActive, sessions>>
-----------------------------------------------------------------------------
(* POST /auth/logout and DELETE /auth/sessions/{id} *)

RevokeBegin(h, op, s) ==
    /\ req[h].pc = "idle"
    /\ s \in DOMAIN sessions
    /\ req' = [req EXCEPT ![h] = [pc |-> "revoke", op |-> op, session |-> s]]
    /\ UNCHANGED <<clock, ownerActive, sessions, tokens, locks>>

RevokeLock(h) ==
    /\ req[h].pc = "revoke"
    /\ Unlocked(req[h].session)
    /\ locks' = [locks EXCEPT ![h] = {req[h].session}]
    /\ req' = [req EXCEPT ![h].pc = "revoking"]
    /\ UNCHANGED <<clock, ownerActive, sessions, tokens>>

\* logout leaves a session that is already revoked, and its tokens, alone.
LogoutCommit(h) ==
    LET s == req[h].session IN
    /\ req[h].pc = "revoking"
    /\ req[h].op = "logout"
    /\ sessions' = RevokedRows({s}, "logout")
    /\ tokens' = IF Revoked(s) THEN tokens ELSE SpentTokens({s})
    /\ EndRequest(h)
    /\ UNCHANGED <<clock, ownerActive>>

\* revoke_session spends the tokens whether or not the session was revoked.
RevokeCommit(h) ==
    LET s == req[h].session IN
    /\ req[h].pc = "revoking"
    /\ req[h].op = "revoke_session"
    /\ sessions' = RevokedRows({s}, "revoked_by_owner")
    /\ tokens' = SpentTokens({s})
    /\ EndRequest(h)
    /\ UNCHANGED <<clock, ownerActive>>
-----------------------------------------------------------------------------
(* DELETE /auth/sessions: all sessions, or all but the current one *)

\* The statement's snapshot fixes the rows it will try to lock.
SweepBegin(h, kept) ==
    /\ req[h].pc = "idle"
    /\ req' = [req EXCEPT ![h] =
                 [pc |-> "sweep", got |-> {},
                  todo |-> {s \in DOMAIN sessions \ kept :
                              ~Revoked(s) /\ sessions[s].expires > clock}]]
    /\ UNCHANGED <<clock, ownerActive, sessions, tokens, locks>>

\* FOR UPDATE locks the rows one by one and, once it has waited for a row,
\* evaluates the WHERE clause on it again before it returns it.
SweepLock(h, s) ==
    /\ req[h].pc = "sweep"
    /\ s \in req[h].todo
    /\ Unlocked(s)
    /\ locks' = [locks EXCEPT ![h] = @ \cup {s}]
    /\ req' = [req EXCEPT ![h] =
                 [pc |-> "sweep", todo |-> @.todo \ {s},
                  got |-> @.got \cup (IF Revoked(s) THEN {} ELSE {s})]]
    /\ UNCHANGED <<clock, ownerActive, sessions, tokens>>

SweepCommit(h) ==
    /\ req[h].pc = "sweep"
    /\ req[h].todo = {}
    /\ sessions' = RevokedRows(req[h].got, "revoked_by_owner")
    /\ tokens' = SpentTokens(req[h].got)
    /\ EndRequest(h)
    /\ UNCHANGED <<clock, ownerActive>>
-----------------------------------------------------------------------------
(* The environment *)

\* The transaction is rolled back: an error at commit, a dropped connection,
\* a cancelled or crashed request.
Abort(h) ==
    /\ req[h].pc # "idle"
    /\ EndRequest(h)
    /\ UNCHANGED <<clock, ownerActive, sessions, tokens>>

\* owners.status is changed by an administrator, outside the API.
SetOwnerStatus ==
    /\ ownerActive' = ~ownerActive
    /\ UNCHANGED <<clock, sessions, tokens, locks, req>>

Tick ==
    /\ clock < MaxTime
    /\ clock' = clock + 1
    /\ UNCHANGED <<ownerActive, sessions, tokens, locks, req>>

\* The steps a handler takes by itself once it has begun.
Refresh(h) ==
    \/ RefreshReplay(h) \/ RefreshDeny(h) \/ RefreshAccept(h) \/ RefreshCommit(h)

Revoke(h) == LogoutCommit(h) \/ RevokeCommit(h) \/ SweepCommit(h)

AcquireLock(h) ==
    RefreshLock(h) \/ RevokeLock(h) \/ \E s \in Session : SweepLock(h, s)

BeginRequest(h) ==
    \/ LoginBegin(h)
    \/ \E t \in Token : RefreshFind(h, t)
    \/ \E op \in {"logout", "revoke_session"}, s \in Session : RevokeBegin(h, op, s)
    \/ \E kept \in {{}} \cup {{s} : s \in DOMAIN sessions} : SweepBegin(h, kept)

Next ==
    \/ \E h \in Handler :
          \/ BeginRequest(h) \/ AcquireLock(h) \/ LoginCommit(h)
          \/ Refresh(h) \/ Revoke(h) \/ Abort(h)
    \/ SetOwnerStatus
    \/ Tick

Spec == Init /\ [][Next]_vars
-----------------------------------------------------------------------------
(* Fairness.  The event loop runs every ready coroutine, PostgreSQL queues *)
(* the transactions that wait for a row lock (hence SF on taking one) and  *)
(* aborts a transaction of a deadlock.  Only sweeps hold several locks.    *)

Deadlocked(h) ==
    \E D \in SUBSET Handler :
        /\ h \in D
        /\ \A k \in D :
              /\ req[k].pc = "sweep"
              /\ req[k].todo # {}
              /\ \A s \in req[k].todo : \E d \in D \ {k} : s \in locks[d]

\* Bound: with no fresh identifier left in the model an insert cannot happen.
OutOfIds(h) ==
    \/ /\ req[h].pc = "login"
       /\ DOMAIN sessions = Session \/ DOMAIN tokens = Token
    \/ /\ req[h].pc = "rotating"
       /\ DOMAIN tokens = Token

Fairness ==
    \A h \in Handler :
        /\ WF_vars(LoginCommit(h))
        /\ WF_vars(Refresh(h))
        /\ WF_vars(Revoke(h))
        /\ SF_vars(AcquireLock(h))
        /\ WF_vars(Abort(h) /\ (Deadlocked(h) \/ OutOfIds(h)))

FairSpec == Spec /\ Fairness
-----------------------------------------------------------------------------
(* Properties *)

\* No refresh token outlives its session, however often it is rotated and
\* whatever was waited for in between: "Session cannot be extended past 7-day
\* absolute expiry" (docs/authentication.md).
TokenWithinSession ==
    \A t \in DOMAIN tokens :
        tokens[t].expires <= sessions[tokens[t].session].expires

\* Once the owner has revoked a session (logout, revoke_session,
\* revoke_all_sessions), no token of it is left unused, not even one that a
\* refresh was handing out while the revocation waited for the session row.
RevocationSpends ==
    \A s \in DOMAIN sessions :
        sessions[s].revoked \in {"logout", "revoked_by_owner"}
            => \A t \in TokensOf(s) : tokens[t].used

\* A revoked session stays revoked and is never given another token, also not
\* by a refresh that was under way when the revocation committed.
RevocationFinal ==
    [][\A s \in DOMAIN sessions :
          Revoked(s) => /\ s \in DOMAIN sessions'
                        /\ Revoked(s)'
                        /\ TokensOf(s)' = TokensOf(s)]_vars

\* What the session row lock gives the handler that holds it: nobody else
\* holds it, a refresh that was let through still sees a live session at its
\* commit, and a sweep revokes only sessions that are not revoked yet.
LockProtocol ==
    \A h \in Handler :
        /\ \A k \in Handler \ {h} : locks[h] \cap locks[k] = {}
        /\ req[h].pc \in {"idle", "login", "found", "revoke"} => locks[h] = {}
        /\ req[h].pc \in {"found", "refreshing", "rotating"}
              => req[h].token \in DOMAIN tokens
        /\ req[h].pc \in {"refreshing", "rotating"} => locks[h] = {SessionOf(h)}
        /\ req[h].pc = "rotating" => ~Revoked(SessionOf(h))
        /\ req[h].pc \in {"revoke", "revoking"} => req[h].session \in DOMAIN sessions
        /\ req[h].pc = "revoking" => locks[h] = {req[h].session}
        /\ req[h].pc = "sweep"
              => /\ req[h].todo \subseteq DOMAIN sessions
                 /\ req[h].got \subseteq locks[h] \cap DOMAIN sessions
                 /\ \A s \in req[h].got : ~Revoked(s)

\* A session that is not revoked has exactly one token that can be exchanged:
\* rotation replaces a token, it never forks the chain of tokens.  This is
\* what "Row-level locking prevents concurrent refresh races"
\* (docs/authentication.md) says of requests that run concurrently.
OneLiveToken ==
    \A s \in DOMAIN sessions :
        ~Revoked(s) => Cardinality({t \in TokensOf(s) : ~tokens[t].used}) = 1

\* Nobody waits for ever for a row lock: not behind a request that has ended,
\* not behind another request that waits.
WaitersServed ==
    \A h \in Handler :
        req[h].pc \in {"found", "revoke", "sweep"} ~> req[h].pc = "idle"

\* The refinement mapping onto SessionContract.
deadSessions == {s \in DOMAIN sessions : Revoked(s)}
familyOf == [t \in DOMAIN tokens |-> tokens[t].session]
spentTokens == {t \in DOMAIN tokens : tokens[t].used}

Contract == INSTANCE SessionContract WITH
    opened <- DOMAIN sessions, dead <- deadSessions,
    family <- familyOf, spent <- spentTokens

\* The service keeps the contract of SessionContract, whatever the requests
\* in flight do to each other.
ContractKept == Contract!Promise
=============================================================================
