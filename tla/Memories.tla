------------------------------ MODULE Memories ------------------------------
(***************************************************************************)
(* Scoped memory of the agents: services/memory/service.py over the table  *)
(* agent_memories.                                                         *)
(*                                                                         *)
(* A store looks for the item without a lock, and updates or inserts it at *)
(* the commit.  No constraint of the database stops a second row for an    *)
(* item: the ORM's class declares one, but no migration creates it.        *)
(*                                                                         *)
(* The routes store as the owner, whom no grant limits.  Whether the agent *)
(* is active belongs to AgentLifecycle and may change at any time: a store *)
(* refused for it leaves no trace.                                         *)
(***************************************************************************)
EXTENDS Naturals, FiniteSets, Rows

CONSTANTS
    Handler,    \* requests in flight
    Item,       \* an agent, a scope, a scope_id and a key
    Scoped,     \* the items with a scope_id
    Memory,     \* primary keys of agent_memories
    MaxVersion  \* bound of the model on version

\* What the constants are assumed to be.
MemoriesAssumption ==
    /\ Scoped \subseteq Item
    /\ MaxVersion \in Nat

VARIABLES
    memories,   \* the committed rows of agent_memories
    mreq        \* the local variables of each request

memoryVars == <<memories, mreq>>

\* The value is whatever the last store wrote, and is left out.
MemoryRow == [item: Item, version: Nat]

Request == [pc: {"idle"}]
           \cup [pc: {"inserting"}, item: Item]
           \cup [pc: {"updating"}, memory: Memory, seen: Nat]

Idle == [pc |-> "idle"]

TypeOK ==
    /\ IsTable(memories, Memory, MemoryRow)
    /\ mreq \in [Handler -> Request]

Init ==
    /\ memories = EmptyTable
    /\ mreq = [h \in Handler |-> Idle]

-----------------------------------------------------------------------------
RowsOf(i) == {r \in DOMAIN memories : memories[r].item = i}

\* Bug: scope_id is compared with =, which is never true of NULL.
Matches_equal(i) == IF i \in Scoped THEN RowsOf(i) ELSE {}

\* The SELECT, with IS NULL where there is no scope_id.
Matches(i) == RowsOf(i)

EndRequest(h) == mreq' = [mreq EXCEPT ![h] = Idle]

-----------------------------------------------------------------------------
(* POST /memory/{agent_id} *)

FindNone(h, i) ==
    /\ mreq[h].pc = "idle"
    /\ Matches(i) = {}
    /\ mreq' = [mreq EXCEPT ![h] = [pc |-> "inserting", item |-> i]]
    /\ UNCHANGED memories

FindOne(h, i) ==
    /\ mreq[h].pc = "idle"
    /\ \E r \in Memory :
          /\ Matches(i) = {r}
          /\ mreq' = [mreq EXCEPT ![h] = [pc |-> "updating", memory |-> r,
                                          seen |-> memories[r].version]]
    /\ UNCHANGED memories

\* With two rows, scalar_one_or_none raises, for this and every later store.
FindRaises(h, i) ==
    /\ mreq[h].pc = "idle"
    /\ Cardinality(Matches(i)) > 1
    /\ UNCHANGED memoryVars

InsertCommit(h, r) ==
    /\ mreq[h].pc = "inserting"
    /\ r \notin DOMAIN memories
    /\ memories' = Inserted(memories, r, [item |-> mreq[h].item, version |-> 1])
    /\ EndRequest(h)

\* The version written is the one that was read and 1.
UpdateCommit(h) ==
    /\ mreq[h].pc = "updating"
    /\ mreq[h].seen < MaxVersion
    /\ memories' = [memories EXCEPT ![mreq[h].memory].version = mreq[h].seen + 1]
    /\ EndRequest(h)

\* The transaction is rolled back.
Abort(h) ==
    /\ mreq[h].pc # "idle"
    /\ EndRequest(h)
    /\ UNCHANGED memories

Next ==
    \E h \in Handler :
        \/ \E i \in Item : FindNone(h, i) \/ FindOne(h, i) \/ FindRaises(h, i)
        \/ \E r \in Memory : InsertCommit(h, r)
        \/ UpdateCommit(h)
        \/ Abort(h)

Spec == Init /\ [][Next]_memoryVars
=============================================================================
