--------------------------- MODULE WebhookIngest ----------------------------
(***************************************************************************)
(* Inbound webhooks: POST /tribe/webhook (services/tribe/router.py), the   *)
(* process-wide nonce and idempotency stores (services/tribe/security.py)  *)
(* and the ingestion of external tickets (services/tribe/service.py).      *)
(*                                                                         *)
(* The handler suspends only inside ingest_external_task; what it does     *)
(* between two suspensions is one action.  Its database transaction is     *)
(* committed by get_optional_db after the handler has returned.  Requests  *)
(* with a bad signature, a stale timestamp or a cached answer change no    *)
(* state and are not modelled.  The stores live in memory, so a restart    *)
(* empties them; the database keeps the committed rows.                    *)
(***************************************************************************)
EXTENDS Integers, FiniteSets, Functions, Rows

CONSTANTS
    Handler,      \* requests in flight
    Key,          \* idempotency keys
    Nonce,        \* X-Webhook-Nonce
    External,     \* (external_system, external_task_id)
    Task,         \* primary keys of tasks
    None,         \* no idempotency key, no task
    Tolerance,    \* tolerance_seconds, 300 in the code
    MayFail,      \* whether a database call or a commit may fail
    MaxTime       \* bound: the clock stops here

ASSUME WebhookAssumption ==
    /\ Tolerance \in Nat
    /\ MaxTime \in Nat
    /\ MayFail \in BOOLEAN
    /\ None \notin Key \cup Task

VARIABLES
    clock,      \* int(time.time())
    nonces,     \* NonceTracker._nonces: when each nonce was recorded
    idem,       \* IdempotencyTracker._records
    tasks,      \* the committed rows of tasks
    mappings,   \* the committed rows of task_sync_mappings
    req,        \* the local variables of each request
    accepted    \* history: the <<nonce, timestamp>> pairs let through by this
                \* process

vars == <<clock, nonces, idem, tasks, mappings, req, accepted>>

IdemRecord == [status: {"PROCESSING"}]
         \cup [status: {"COMPLETED"}, task: Task \cup {None}]

Mapping == [external: External, task: Task]

Request == [pc: {"idle"}]
      \cup [pc: {"ingest"}, key: Key \cup {None}, external: External]
      \cup [pc: {"audit", "commit"}, key: Key \cup {None}, external: External,
            task: Task]

Message == [key: Key \cup {None}, nonce: Nonce, stamp: 0..MaxTime]

Idle == [pc |-> "idle"]

TypeOK ==
    /\ clock \in Nat
    /\ IsTable(nonces, Nonce, Nat)
    /\ IsTable(idem, Key, IdemRecord)
    /\ tasks \subseteq Task
    /\ mappings \subseteq Mapping
    /\ req \in [Handler -> Request]
    /\ accepted \subseteq Nonce \X Nat

Init ==
    /\ clock = 0
    /\ nonces = EmptyTable
    /\ idem = EmptyTable
    /\ tasks = {}
    /\ mappings = {}
    /\ req = [h \in Handler |-> Idle]
    /\ accepted = {}

-----------------------------------------------------------------------------
(* verify_timestamp_and_nonce and NonceTracker *)

Fresh(stamp) == clock - stamp <= Tolerance /\ stamp - clock <= Tolerance

\* Bug: a nonce is forgotten after one tolerance, as if no timestamp could lie
\* in the future.
Pruned_early ==
    Restrict(nonces, {n \in DOMAIN nonces : nonces[n] >= clock - Tolerance})

\* A nonce is dropped once it is older than twice the tolerance.
Pruned == Restrict(nonces, {n \in DOMAIN nonces : nonces[n] >= clock - 2 * Tolerance})

\* The nonce check passes for a message.
NonceUnique(m) == Fresh(m.stamp) /\ m.nonce \notin DOMAIN Pruned

RecordNonce(m) ==
    /\ nonces' = Inserted(Pruned, m.nonce, clock)
    /\ accepted' = accepted \cup {<<m.nonce, m.stamp>>}

-----------------------------------------------------------------------------
(* IdempotencyTracker.  A request without a key passes it by. *)

Known(key, status) == key \in DOMAIN idem /\ idem[key].status = status

\* Bug: only a completed key is refused, so two requests process one key.
MayStart_completedOnly(key) == ~Known(key, "COMPLETED")

\* start_processing acquires the key.
MayStart(key) == ~Known(key, "PROCESSING") /\ ~Known(key, "COMPLETED")

Started(key) ==
    IF key = None THEN idem ELSE Inserted(idem, key, [status |-> "PROCESSING"])

Completed(key, task) ==
    IF key = None THEN idem
                  ELSE Inserted(idem, key, [status |-> "COMPLETED", task |-> task])

\* Bug: the key of a failed request is not released.
Released_never(key) == idem

\* Bug: the key of a failed request is kept, with the status FAILED.
Released_failed(key) ==
    IF Known(key, "PROCESSING") THEN Inserted(idem, key, [status |-> "FAILED"]) ELSE idem

\* fail_processing
Released(key) ==
    IF Known(key, "PROCESSING") THEN Restrict(idem, DOMAIN idem \ {key}) ELSE idem

-----------------------------------------------------------------------------
(* api_tribe_webhook *)

\* The nonce was seen before: 400, but the old nonces have been pruned.
RejectReplay(m) ==
    /\ ~Known(m.key, "COMPLETED")
    /\ Fresh(m.stamp)
    /\ ~NonceUnique(m)
    /\ nonces' = Pruned
    /\ UNCHANGED <<clock, idem, tasks, mappings, req, accepted>>

\* The key is being processed by another request: 409, the nonce is spent.
RejectBusy(m) ==
    /\ ~Known(m.key, "COMPLETED")
    /\ NonceUnique(m)
    /\ ~MayStart(m.key)
    /\ RecordNonce(m)
    /\ UNCHANGED <<clock, idem, tasks, mappings, req>>

\* A payload that is no external ticket is acknowledged without suspending.
Acknowledge(m) ==
    /\ ~Known(m.key, "COMPLETED")
    /\ NonceUnique(m)
    /\ MayStart(m.key)
    /\ RecordNonce(m)
    /\ idem' = Completed(m.key, None)
    /\ UNCHANGED <<clock, tasks, mappings, req>>

\* A payload that is one goes on to ingest_external_task.
Accept(h, m, e) ==
    /\ req[h].pc = "idle"
    /\ ~Known(m.key, "COMPLETED")
    /\ NonceUnique(m)
    /\ MayStart(m.key)
    /\ RecordNonce(m)
    /\ idem' = Started(m.key)
    /\ req' = [req EXCEPT ![h] = [pc |-> "ingest", key |-> m.key, external |-> e]]
    /\ UNCHANGED <<clock, tasks, mappings>>

Linked(e) == \E row \in mappings : row.external = e

\* The department is missing or the ticket is linked already: TribeError is
\* turned into a warning in an answer that counts as a success.
IngestRefused(h) ==
    /\ req[h].pc = "ingest"
    /\ idem' = Completed(req[h].key, None)
    /\ req' = [req EXCEPT ![h] = Idle]
    /\ UNCHANGED <<clock, nonces, tasks, mappings, accepted>>

\* uuid4: an identifier nothing refers to.
UnusedTasks ==
    Task \ (tasks \cup {idem[k].task : k \in {k \in Key : Known(k, "COMPLETED")}}
                  \cup {req[h].task : h \in {h \in Handler :
                                              req[h].pc \in {"audit", "commit"}}})

\* No mapping was found: a task and a mapping are added to the ORM session,
\* and log_audit_event is awaited.
Ingest(h) ==
    /\ req[h].pc = "ingest"
    /\ ~Linked(req[h].external)
    /\ \E t \in UnusedTasks :
          req' = [req EXCEPT ![h] = [pc |-> "audit", key |-> req[h].key,
                                     external |-> req[h].external, task |-> t]]
    /\ UNCHANGED <<clock, nonces, idem, tasks, mappings, accepted>>

\* The answer is cached and returned; the transaction is still to commit.
Complete(h) ==
    /\ req[h].pc = "audit"
    /\ idem' = Completed(req[h].key, req[h].task)
    /\ req' = [req EXCEPT ![h].pc = "commit"]
    /\ UNCHANGED <<clock, nonces, tasks, mappings, accepted>>

\* An exception before the answer: the key is released, the transaction rolled
\* back, the client gets a 500.
Fail(h) ==
    /\ MayFail
    /\ req[h].pc \in {"ingest", "audit"}
    /\ idem' = Released(req[h].key)
    /\ req' = [req EXCEPT ![h] = Idle]
    /\ UNCHANGED <<clock, nonces, tasks, mappings, accepted>>

-----------------------------------------------------------------------------
(* POST /tribe/tasks/sync: sync_task_mapping, up to its commit *)

LinkCheck(h, e, t) ==
    /\ req[h].pc = "idle"
    /\ t \in tasks
    /\ ~Linked(e)
    /\ req' = [req EXCEPT ![h] = [pc |-> "commit", key |-> None, external |-> e,
                                  task |-> t]]
    /\ UNCHANGED <<clock, nonces, idem, tasks, mappings, accepted>>

-----------------------------------------------------------------------------
(* get_optional_db and get_db: the rows are inserted at the commit *)

\* Bug: task_sync_mappings has no unique constraint on the external ticket.
Commit_unconstrained(h) ==
    /\ req[h].pc = "commit"
    /\ tasks' = tasks \cup {req[h].task}
    /\ mappings' = mappings \cup {[external |-> req[h].external, task |-> req[h].task]}
    /\ req' = [req EXCEPT ![h] = Idle]
    /\ UNCHANGED <<clock, nonces, idem, accepted>>

Commit(h) ==
    /\ req[h].pc = "commit"
    /\ ~Linked(req[h].external)
    /\ tasks' = tasks \cup {req[h].task}
    /\ mappings' = mappings \cup {[external |-> req[h].external, task |-> req[h].task]}
    /\ req' = [req EXCEPT ![h] = Idle]
    /\ UNCHANGED <<clock, nonces, idem, accepted>>

\* uq_task_sync_system_task is violated, or the commit fails: rollback.
CommitFails(h) ==
    /\ req[h].pc = "commit"
    /\ MayFail \/ Linked(req[h].external)
    /\ req' = [req EXCEPT ![h] = Idle]
    /\ UNCHANGED <<clock, nonces, idem, tasks, mappings, accepted>>

-----------------------------------------------------------------------------
Restart ==
    /\ MayFail
    /\ nonces' = EmptyTable
    /\ idem' = EmptyTable
    /\ req' = [h \in Handler |-> Idle]
    /\ accepted' = {}
    /\ UNCHANGED <<clock, tasks, mappings>>

Tick ==
    /\ clock < MaxTime
    /\ clock' = clock + 1
    /\ UNCHANGED <<nonces, idem, tasks, mappings, req, accepted>>

\* The steps a request takes by itself once it has been accepted.
Work(h) ==
    \/ IngestRefused(h) \/ Ingest(h) \/ Complete(h) \/ Commit(h) \/ CommitFails(h)

Next ==
    \/ \E m \in Message : RejectReplay(m) \/ RejectBusy(m) \/ Acknowledge(m)
    \/ \E h \in Handler :
          \/ \E m \in Message, e \in External : Accept(h, m, e)
          \/ \E e \in External, t \in Task : LinkCheck(h, e, t)
          \/ Work(h) \/ Fail(h)
    \/ Restart
    \/ Tick

Spec == Init /\ [][Next]_vars

\* The event loop resumes every coroutine whose database call has returned.
FairSpec == Spec /\ \A h \in Handler : WF_vars(Work(h))
-----------------------------------------------------------------------------
(* Properties *)

\* A message that has been let through stays shut out for as long as the
\* process lives: its nonce is remembered until its timestamp is stale, also
\* when the timestamp lay in the future.
NoReplay ==
    \A p \in accepted : ~NonceUnique([nonce |-> p[1], stamp |-> p[2]])

\* One request at a time works under an idempotency key, and the key says so:
\* PROCESSING while somebody works, COMPLETED while the answer is committed.
KeyProtocol ==
    \A h \in Handler :
        /\ req[h].pc \in {"ingest", "audit"} /\ req[h].key # None
              => /\ Known(req[h].key, "PROCESSING")
                 /\ \A k \in Handler \ {h} :
                       req[k].pc \in {"ingest", "audit"} => req[k].key # req[h].key
        /\ req[h].pc = "commit" /\ req[h].key # None
              => Known(req[h].key, "COMPLETED")

\* An external ticket is linked to at most one task, whatever keys, nonces and
\* restarts its deliveries went through, and whoever linked it.
OneTaskPerTicket ==
    \A r1, r2 \in mappings : r1.external = r2.external => r1 = r2

\* While the process lives, what a completed key answers never changes.
AnswersKept ==
    [][~Restart => \A k \in Key :
          Known(k, "COMPLETED") => Known(k, "COMPLETED")' /\ idem'[k] = idem[k]]_vars

\* "Release an in-flight key on error so retries can proceed" (fail_processing):
\* no key stays in PROCESSING for ever.
KeysReleased ==
    \A k \in Key : Known(k, "PROCESSING") ~> ~Known(k, "PROCESSING")

\* The same sentence, for the error that strikes after the answer was cached: a
\* key whose request has ended without committing its task is free for a retry.
LostWorkReleased ==
    \A k \in Key :
        Known(k, "COMPLETED") /\ idem[k].task # None
            => \/ idem[k].task \in tasks
               \/ \E h \in Handler : req[h].pc = "commit" /\ req[h].key = k
=============================================================================
