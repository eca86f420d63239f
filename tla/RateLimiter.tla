---------------------------- MODULE RateLimiter -----------------------------
(***************************************************************************)
(* The sliding-window limiter in front of /auth/login and /auth/refresh:   *)
(* services/identity/rate_limiter.py, used by services/identity/router.py. *)
(* Each route has a limiter of its own; this is one of them.               *)
(*                                                                         *)
(* A request is checked, then the service works on it (OwnerSessions), and *)
(* only what comes of that is recorded.  Each call of the limiter holds an *)
(* asyncio lock around a body without an await: it is one step.            *)
(*                                                                         *)
(* The code keeps the times of the attempts and compares them with now; an *)
(* attempt is kept here as its age in ticks, which stops at the age where  *)
(* it no longer counts.  A second has several ticks, because the answer to *)
(* a refused client is rounded to seconds.                                 *)
(***************************************************************************)
EXTENDS Naturals, Sequences, FiniteSets

CONSTANTS
    Client,          \* values of _get_client_ip
    Handler,         \* requests in flight
    MaxRequests,     \* max_requests
    WindowSeconds,   \* window_seconds
    Second,          \* ticks in a second
    None             \* the client of a request nobody works on

\* What the constants are assumed to be.
LimiterAssumption ==
    /\ MaxRequests \in Nat \ {0}
    /\ WindowSeconds \in Nat \ {0}
    /\ Second \in Nat \ {0}
    /\ None \notin Client

VARIABLES
    attempts,   \* the ages of the recorded attempts of each client, oldest first
    working     \* the client each request in flight has been let through for

limiterVars == <<attempts, working>>

Window == WindowSeconds * Second

TypeOK ==
    /\ attempts \in [Client -> Seq(0..Window)]
    /\ working \in [Handler -> Client \cup {None}]

Init ==
    /\ attempts = [c \in Client |-> <<>>]
    /\ working = [h \in Handler |-> None]

-----------------------------------------------------------------------------
\* The ages that count, t > cutoff, of attempts listed oldest first: the first
\* that counts and all that follow.
Pruned(ages) ==
    LET first == CHOOSE i \in 1..(Len(ages) + 1) :
                    \A j \in DOMAIN ages : ages[j] < Window <=> j >= i
    IN  SubSeq(ages, first, Len(ages))

Counted(c) == Pruned(attempts[c])

\* Bug: a client with max_requests attempts is let through once more.
Refuses_late(c) == Len(Counted(c)) > MaxRequests

Refuses(c) == Len(Counted(c)) >= MaxRequests

\* Bug: the seconds left are cut off instead of being counted in full.
RetryAfter_cut(c) == (Window - Counted(c)[1]) \div Second

\* The header of the answer 429, in seconds.
RetryAfter(c) == (Window - Counted(c)[1]) \div Second + 1

-----------------------------------------------------------------------------
\* check
Refuse(h, c) ==
    /\ working[h] = None
    /\ Refuses(c)
    /\ attempts' = [attempts EXCEPT ![c] = Counted(c)]
    /\ UNCHANGED working

\* check, and the service begins to work.
Admit(h, c) ==
    /\ working[h] = None
    /\ ~Refuses(c)
    /\ attempts' = [attempts EXCEPT ![c] = Counted(c)]
    /\ working' = [working EXCEPT ![h] = c]

\* AuthenticationError: record_attempt, then the answer 401.
Deny(h) ==
    /\ working[h] # None
    /\ attempts' = [attempts EXCEPT ![working[h]] = Append(Counted(working[h]), 0)]
    /\ working' = [working EXCEPT ![h] = None]

\* Success: reset drops the attempts of this client, whoever made them.
Grant(h) ==
    /\ working[h] # None
    /\ attempts' = [attempts EXCEPT ![working[h]] = <<>>]
    /\ working' = [working EXCEPT ![h] = None]

\* Another exception or a lost connection: nothing is recorded.
Fail(h) ==
    /\ working[h] # None
    /\ working' = [working EXCEPT ![h] = None]
    /\ UNCHANGED attempts

\* A new process remembers neither attempts nor requests.
Restart ==
    /\ attempts' = [c \in Client |-> <<>>]
    /\ working' = [h \in Handler |-> None]

\* time.monotonic()
Tick ==
    /\ attempts' = [c \in Client |->
          [i \in DOMAIN attempts[c] |->
              IF attempts[c][i] < Window THEN attempts[c][i] + 1 ELSE Window]]
    /\ UNCHANGED working

Next ==
    \/ \E h \in Handler :
          \/ \E c \in Client : Refuse(h, c) \/ Admit(h, c)
          \/ Deny(h) \/ Grant(h) \/ Fail(h)
    \/ Restart
    \/ Tick

Spec == Init /\ [][Next]_limiterVars
=============================================================================
