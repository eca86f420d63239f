----------------------------- MODULE Workspace ------------------------------
(***************************************************************************)
(* The virtual office: services/workspace/service.py over the tables       *)
(* workspace_zones, presence_sessions and virtual_meetings.                *)
(*                                                                         *)
(* Heartbeats, starts and conclusions read a row without a lock and write  *)
(* at the commit.  presence_sessions has no unique constraint on the       *)
(* entity.  No statement changes a zone, so whoever has found it active is *)
(* right about it at the commit too.  Avatars are inserted and never       *)
(* looked at again; they, the host's row in meeting_participants and the   *)
(* coordinates are left out.                                               *)
(***************************************************************************)
EXTENDS Naturals, FiniteSets, Rows

CONSTANTS
    Handler,      \* requests in flight
    Zone,         \* primary keys of workspace_zones
    DefaultZone,  \* the zones migration 009 inserts
    Entity,       \* the owner and the agents
    Presence,     \* primary keys of presence_sessions
    Meeting       \* primary keys of virtual_meetings

\* What the constants are assumed to be.
WorkspaceAssumption == DefaultZone \subseteq Zone

VARIABLES
    zones,      \* the committed rows of workspace_zones
    presences,  \* the committed rows of presence_sessions
    meetings,   \* the committed rows of virtual_meetings
    wreq        \* the local variables of each request

workspaceVars == <<zones, presences, meetings, wreq>>

PresenceRow == [entity: Entity, zone: Zone]

MeetingStatus == {"SCHEDULED", "IN_PROGRESS", "CONCLUDED"}

\* `ended' is the request that has set ended_at, and the minutes if it has any,
\* or nobody.
MeetingRow == [status: MeetingStatus, ended: SUBSET Handler]

Request == [pc: {"idle"}]
           \cup [pc: {"arriving"}, entity: Entity, zone: Zone]
           \cup [pc: {"moving"}, presence: Presence, seen: Zone, zone: Zone]
           \cup [pc: {"starting", "concluding"}, meeting: Meeting]

Idle == [pc |-> "idle"]

TypeOK ==
    /\ zones \subseteq Zone
    /\ IsTable(presences, Presence, PresenceRow)
    /\ IsTable(meetings, Meeting, MeetingRow)
    /\ wreq \in [Handler -> Request]

Init ==
    /\ zones = DefaultZone
    /\ presences = EmptyTable
    /\ meetings = EmptyTable
    /\ wreq = [h \in Handler |-> Idle]

-----------------------------------------------------------------------------
EndRequest(h) == wreq' = [wreq EXCEPT ![h] = Idle]

RowsOf(e) == {p \in DOMAIN presences : presences[p].entity = e}

\* Bug: an entity is looked for in the zone it says it is in.
Found_inZone(e, z) == {p \in RowsOf(e) : presences[p].zone = z}

\* The rows update_presence finds, whatever zone they name.
Found(e, z) == RowsOf(e)

\* POST /workspace/zones
CreateZone(z) ==
    /\ z \notin zones
    /\ zones' = zones \cup {z}
    /\ UNCHANGED <<presences, meetings, wreq>>

-----------------------------------------------------------------------------
(* POST /workspace/presence, in a zone that exists *)

HeartbeatFirst(h, e, z) ==
    /\ wreq[h].pc = "idle"
    /\ Found(e, z) = {}
    /\ wreq' = [wreq EXCEPT ![h] = [pc |-> "arriving", entity |-> e, zone |-> z]]
    /\ UNCHANGED <<zones, presences, meetings>>

HeartbeatAgain(h, e, z) ==
    /\ wreq[h].pc = "idle"
    /\ \E p \in Presence :
          /\ Found(e, z) = {p}
          /\ wreq' = [wreq EXCEPT ![h] = [pc |-> "moving", presence |-> p, zone |-> z,
                                          seen |-> presences[p].zone]]
    /\ UNCHANGED <<zones, presences, meetings>>

\* With two rows, scalar_one_or_none raises, for this and every later heartbeat.
HeartbeatRaises(h, e, z) ==
    /\ wreq[h].pc = "idle"
    /\ Cardinality(Found(e, z)) > 1
    /\ UNCHANGED workspaceVars

ArriveCommit(h, p) ==
    /\ wreq[h].pc = "arriving"
    /\ p \notin DOMAIN presences
    /\ presences' = Inserted(presences, p, [entity |-> wreq[h].entity, zone |-> wreq[h].zone])
    /\ EndRequest(h)
    /\ UNCHANGED <<zones, meetings>>

\* The ORM writes the zone only when it differs from the one it read.
MoveCommit(h) ==
    LET p == wreq[h].presence IN
    /\ wreq[h].pc = "moving"
    /\ presences' = [presences EXCEPT ![p].zone =
                       IF wreq[h].zone = wreq[h].seen THEN @ ELSE wreq[h].zone]
    /\ EndRequest(h)
    /\ UNCHANGED <<zones, meetings>>

-----------------------------------------------------------------------------
(* POST /workspace/meetings, .../{id}/start and .../{id}/conclude *)

ScheduleMeeting(m) ==
    /\ zones # {}
    /\ m \notin DOMAIN meetings
    /\ meetings' = Inserted(meetings, m, [status |-> "SCHEDULED", ended |-> {}])
    /\ UNCHANGED <<zones, presences, wreq>>

\* Bug: a meeting may be started unless it is already in progress.
StartRead_again(h, m) ==
    /\ wreq[h].pc = "idle"
    /\ m \in DOMAIN meetings
    /\ meetings[m].status # "IN_PROGRESS"
    /\ wreq' = [wreq EXCEPT ![h] = [pc |-> "starting", meeting |-> m]]
    /\ UNCHANGED <<zones, presences, meetings>>

StartRead(h, m) ==
    /\ wreq[h].pc = "idle"
    /\ m \in DOMAIN meetings
    /\ meetings[m].status = "SCHEDULED"
    /\ wreq' = [wreq EXCEPT ![h] = [pc |-> "starting", meeting |-> m]]
    /\ UNCHANGED <<zones, presences, meetings>>

StartCommit(h) ==
    /\ wreq[h].pc = "starting"
    /\ meetings' = [meetings EXCEPT ![wreq[h].meeting].status = "IN_PROGRESS"]
    /\ EndRequest(h)
    /\ UNCHANGED <<zones, presences>>

ConcludeRead(h, m) ==
    /\ wreq[h].pc = "idle"
    /\ m \in DOMAIN meetings
    /\ meetings[m].status = "IN_PROGRESS"
    /\ wreq' = [wreq EXCEPT ![h] = [pc |-> "concluding", meeting |-> m]]
    /\ UNCHANGED <<zones, presences, meetings>>

ConcludeCommit(h) ==
    /\ wreq[h].pc = "concluding"
    /\ meetings' = [meetings EXCEPT ![wreq[h].meeting] =
                      [status |-> "CONCLUDED", ended |-> {h}]]
    /\ EndRequest(h)
    /\ UNCHANGED <<zones, presences>>

\* The transaction is rolled back.
Abort(h) ==
    /\ wreq[h].pc # "idle"
    /\ EndRequest(h)
    /\ UNCHANGED <<zones, presences, meetings>>

Next ==
    \/ \E z \in Zone : CreateZone(z)
    \/ \E m \in Meeting : ScheduleMeeting(m)
    \/ \E h \in Handler :
          \/ \E e \in Entity, z \in zones :
                \/ HeartbeatFirst(h, e, z) \/ HeartbeatAgain(h, e, z)
                \/ HeartbeatRaises(h, e, z)
          \/ \E p \in Presence : ArriveCommit(h, p)
          \/ MoveCommit(h)
          \/ \E m \in Meeting : StartRead(h, m) \/ ConcludeRead(h, m)
          \/ StartCommit(h) \/ ConcludeCommit(h)
          \/ Abort(h)

Spec == Init /\ [][Next]_workspaceVars
=============================================================================
