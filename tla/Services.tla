------------------------------ MODULE Services ------------------------------
(***************************************************************************)
(* Six small services side by side: RateLimiter, Approvals, Memories,      *)
(* Workspace, Departments and Bridges, with histories of the requests that *)
(* have met in them.                                                       *)
(*                                                                         *)
(* No two of them share a table or a variable of the process, so a step of *)
(* one changes nothing another can see, and a behaviour of all of them is  *)
(* an interleaving of one behaviour of each.  They are looked at one at a  *)
(* time: `turn' is chosen at the start, and only that service steps.       *)
(***************************************************************************)
EXTENDS Integers, Sequences, FiniteSets

CONSTANTS
    Handler,                                      \* requests in flight
    Client, MaxRequests, WindowSeconds, Second,   \* see RateLimiter
    None,
    Approval,                                     \* see Approvals
    Item, Scoped, Memory, MaxVersion,             \* see Memories
    Zone, DefaultZone, Entity, Presence, Meeting, \* see Workspace
    Department, Seeded,                           \* see Departments
    Bridge, MaxTime                               \* see Bridges

VARIABLES
    turn,                              \* the service that steps
    attempts, working,                 \* see RateLimiter
    approvals, areq,                   \* see Approvals
    memories, mreq,                    \* see Memories
    zones, presences, meetings, wreq,  \* see Workspace
    departments, dreq,                 \* see Departments
    bridges, now, breq                 \* see Bridges

\* Histories, explained where they are kept.
VARIABLES due, overlapped, stores, raced, twice, rivals, shut, met, early, crossed

R == INSTANCE RateLimiter
A == INSTANCE Approvals
M == INSTANCE Memories
W == INSTANCE Workspace
D == INSTANCE Departments
B == INSTANCE Bridges WITH Approver <- Handler

ASSUME ServicesAssumption ==
    /\ IsFiniteSet(Handler) /\ None \notin Nat
    /\ R!LimiterAssumption /\ M!MemoriesAssumption
    /\ W!WorkspaceAssumption /\ D!DepartmentsAssumption /\ B!BridgesAssumption

TypeOK ==
    /\ R!TypeOK /\ A!TypeOK /\ M!TypeOK /\ W!TypeOK /\ D!TypeOK /\ B!TypeOK

-----------------------------------------------------------------------------
(* RateLimiter *)

limiterVars == <<attempts, working, due, overlapped>>

\* due: the ticks left of the wait a refused client was told, until it is let
\* through or fails another attempt; overlapped: the clients that have had two
\* requests in flight, until none of their attempts counts any more.
LimiterInit ==
    /\ R!Init
    /\ due = [c \in Client |-> None]
    /\ overlapped = {}

Overlaps(c) == \E h, k \in Handler : h # k /\ working[h] = c /\ working[k] = c

Told(c) ==
    LET wait == R!RetryAfter(c) * Second IN
    IF due[c] # None /\ due[c] < wait THEN due[c] ELSE wait

LimiterNext ==
    /\ R!Next
    /\ due' = [c \in Client |->
          IF \E h \in Handler : R!Refuse(h, c) THEN Told(c)
          ELSE IF \E h \in Handler : \/ R!Admit(h, c)
                                     \/ working[h] = c /\ working'[h] = None
               THEN None
          ELSE IF R!Tick /\ due[c] \notin {None, 0} THEN due[c] - 1
          ELSE due[c]]
    /\ overlapped' = {c \in Client :
          \/ Overlaps(c)'
          \/ c \in overlapped /\ R!Counted(c)' # <<>>}

\* "5 failed attempts / min -> 429" (auth_login): no more failed attempts count
\* at any time than the limit allows, for a client whose requests do not
\* overlap; with overlapping requests, each of those in flight but one may add
\* an attempt, and no more.
AttemptsBounded ==
    \A c \in Client :
        /\ Len(R!Counted(c)) <= MaxRequests - 1 + Cardinality(Handler)
        /\ c \notin overlapped => Len(R!Counted(c)) <= MaxRequests

\* A refused client that waits as long as Retry-After tells it, and does not fail
\* another attempt meanwhile, is let through, unless requests that overlapped
\* have left more attempts on record than the limit.
RetryAfterHonest ==
    \A c \in Client : due[c] = 0 /\ R!Refuses(c) => c \in overlapped

-----------------------------------------------------------------------------
(* Memories *)

memoryVars == <<memories, mreq, stores, raced>>

\* stores: how often each item has been stored; raced: the items two requests
\* were storing at the same time.
MemoryInit == M!Init /\ stores = [i \in Item |-> 0] /\ raced = {}

Stores(h, i) ==
    \/ mreq[h].pc = "inserting" /\ mreq[h].item = i
    \/ mreq[h].pc = "updating" /\ memories[mreq[h].memory].item = i

Stored(i) ==
    \E h \in Handler : Stores(h, i) /\ (M!UpdateCommit(h) \/ \E r \in Memory : M!InsertCommit(h, r))

MemoryNext ==
    /\ M!Next
    /\ stores' = [i \in Item |-> IF Stored(i) THEN stores[i] + 1 ELSE stores[i]]
    /\ raced' = raced \cup
          {i \in Item : \E h, k \in Handler : h # k /\ Stores(h, i)' /\ Stores(k, i)'}

\* Every store of an item is counted in its version, and an item has one row,
\* whatever is stored next to it and whichever stores are rolled back, unless
\* two requests were storing it at the same time.
StoresCounted ==
    \A i \in Item \ raced :
        /\ Cardinality(M!RowsOf(i)) <= 1
        /\ \A r \in M!RowsOf(i) : memories[r].version = stores[i]

-----------------------------------------------------------------------------
(* Workspace *)

workspaceVars == <<zones, presences, meetings, wreq, twice, rivals>>

\* twice: the entities of which two requests were sending the first heartbeat
\* at the same time; rivals: the meetings two requests were starting, or were
\* concluding, at the same time.
Arriving(h, e) == wreq[h].pc = "arriving" /\ wreq[h].entity = e

Starting(h, m) == wreq[h].pc = "starting" /\ wreq[h].meeting = m

Concluding(h, m) == wreq[h].pc = "concluding" /\ wreq[h].meeting = m

WorkspaceInit == W!Init /\ twice = {} /\ rivals = {}

WorkspaceNext ==
    /\ W!Next
    /\ twice' = twice \cup
          {e \in Entity : \E h, k \in Handler : h # k /\ Arriving(h, e)' /\ Arriving(k, e)'}
    /\ rivals' = rivals \cup
          {m \in Meeting : \E h, k \in Handler :
              /\ h # k
              /\ \/ Starting(h, m)' /\ Starting(k, m)'
                 \/ Concluding(h, m)' /\ Concluding(k, m)'}

\* An entity is in one place: it has one presence row wherever it has been and
\* however its heartbeats overlap, unless two of them were its first.  (With
\* two rows every later heartbeat of the entity fails.)
OnePresence == \A e \in Entity \ twice : Cardinality(W!RowsOf(e)) <= 1

\* A concluded meeting stays concluded, with the minutes it ended with, unless
\* two requests started or concluded it at the same time.
MeetingsEnd ==
    [][\A m \in DOMAIN meetings \ rivals :
          meetings[m].status = "CONCLUDED" => meetings'[m] = meetings[m]]_meetings

-----------------------------------------------------------------------------
(* Departments *)

departmentVars == <<departments, dreq, shut, met, early>>

Changing(h, d) == dreq[h].pc = "changing" /\ dreq[h].name = d

Admitting(h) == dreq[h].pc \in {"admitting", "admitted"}

\* shut: the departments that have not been approved since they were proposed,
\* or since a suspension during which no other request changed their status;
\* met: the requests that were changing a status when another was; early: the
\* admissions in flight when a department was shut, with that department.
DepartmentInit ==
    /\ D!Init
    /\ shut = Department \ Seeded
    /\ met = {}
    /\ early = {}

Shutting(d) ==
    \E h \in Handler \ met : Changing(h, d) /\ dreq[h].to = "SUSPENDED" /\ D!ChangeCommit(h)

Approving(d) ==
    \E h \in Handler : Changing(h, d) /\ dreq[h].to = "ACTIVE" /\ D!ChangeCommit(h)

DepartmentNext ==
    /\ D!Next
    /\ met' = {h \in Handler : \E d \in Department :
                  /\ Changing(h, d)'
                  /\ h \in met \/ \E k \in Handler \ {h} : Changing(k, d)'}
    /\ shut' = {d \in Department : Shutting(d) \/ (d \in shut /\ ~Approving(d))}
    /\ early' = {p \in Handler \X Department :
                    Admitting(p[1])' /\ (p \in early \/ Shutting(p[2]))}

\* A department is open only by the owner's approval, and a suspension shuts it
\* to every request that begins afterwards, until it is approved again: no
\* agent, bridge or task gets past its check, whatever else is in flight.  Only
\* a suspension that ran while another request changed the status may be lost.
SuspensionHolds ==
    \A d \in shut :
        /\ ~D!Active(d)
        /\ \A h \in Handler :
              dreq[h].pc = "admitted" /\ d \in {dreq[h].what.from, dreq[h].what.to}
                  => <<h, d>> \in early

-----------------------------------------------------------------------------
(* Bridges *)

bridgeVars == <<bridges, now, breq, crossed>>

\* crossed: the bridges that were being approved and revoked at the same time.
BridgeInit == B!Init /\ crossed = {}

InFlight(b, pc) == \E k \in Handler : breq[k].pc = pc /\ breq[k].bridge = b

BridgeNext ==
    /\ B!Next
    /\ crossed' = crossed \cup
          {b \in Bridge : InFlight(b, "approving")' /\ InFlight(b, "revoking")'}

\* A bridge that has been revoked is not ACTIVE, then or later, unless it was
\* being approved and revoked at the same time: no sequence of approvals and
\* revocations, however many run at once, reopens a bridge without that.
OnlyRacesReopen ==
    \A b \in DOMAIN bridges :
        bridges[b].revoked => bridges[b].status = "REVOKED" \/ b \in crossed

-----------------------------------------------------------------------------
approvalVars == <<approvals, areq>>

\* A decision stands, with the record of who took it and why, however many
\* requests decide the same approval at once: see Approvals.
DecisionStands == A!DecisionStands

HistoryInit ==
    /\ LimiterInit /\ A!Init /\ MemoryInit /\ WorkspaceInit /\ DepartmentInit /\ BridgeInit
    /\ turn \in {"limiter", "approvals", "memories", "workspace", "departments", "bridges"}

HistoryNext ==
    \/ turn = "limiter" /\ LimiterNext
       /\ UNCHANGED <<turn, approvalVars, memoryVars, workspaceVars, departmentVars, bridgeVars>>
    \/ turn = "approvals" /\ A!Next
       /\ UNCHANGED <<turn, limiterVars, memoryVars, workspaceVars, departmentVars, bridgeVars>>
    \/ turn = "memories" /\ MemoryNext
       /\ UNCHANGED <<turn, limiterVars, approvalVars, workspaceVars, departmentVars, bridgeVars>>
    \/ turn = "workspace" /\ WorkspaceNext
       /\ UNCHANGED <<turn, limiterVars, approvalVars, memoryVars, departmentVars, bridgeVars>>
    \/ turn = "departments" /\ DepartmentNext
       /\ UNCHANGED <<turn, limiterVars, approvalVars, memoryVars, workspaceVars, bridgeVars>>
    \/ turn = "bridges" /\ BridgeNext
       /\ UNCHANGED <<turn, limiterVars, approvalVars, memoryVars, workspaceVars, departmentVars>>

HistorySpec ==
    HistoryInit /\ [][HistoryNext]_<<turn, limiterVars, approvalVars, memoryVars,
                                     workspaceVars, departmentVars, bridgeVars>>
=============================================================================
