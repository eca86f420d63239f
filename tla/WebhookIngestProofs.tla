------------------------ MODULE WebhookIngestProofs -------------------------
(***************************************************************************)
(* Proofs about WebhookIngest, for any tolerance, any clock and any number *)
(* of requests, keys, nonces and tickets.                                  *)
(***************************************************************************)
EXTENDS WebhookIngest, TLAPS

\* Why a message stays shut out: its nonce was recorded no earlier than the
\* timestamp minus the tolerance, so that twice the tolerance after that the
\* timestamp has gone stale.
NonceMemory ==
    \A p \in accepted :
        \/ p[1] \in DOMAIN nonces /\ nonces[p[1]] >= p[2] - Tolerance
        \/ clock - p[2] > Tolerance

IInv == TypeOK /\ NonceMemory /\ KeyProtocol /\ OneTaskPerTicket

-----------------------------------------------------------------------------
(* The stores *)

LEMMA RequestFields ==
    ASSUME NEW r \in Request
    PROVE  /\ r.pc \in {"ingest", "audit", "commit"}
                => r.key \in Key \cup {None} /\ r.external \in External
           /\ r.pc \in {"audit", "commit"} => r.task \in Task
           /\ r.pc = "audit" => [r EXCEPT !.pc = "commit"] \in Request
BY DEF Request

LEMMA IdleRequest == Idle \in Request /\ Idle.pc = "idle"
BY DEF Request, Idle

LEMMA MessageFields ==
    ASSUME NEW m \in Message
    PROVE  m.key \in Key \cup {None} /\ m.nonce \in Nonce /\ m.stamp \in Nat
BY WebhookAssumption DEF Message

LEMMA PrunedFact ==
    ASSUME TypeOK
    PROVE  /\ IsTable(Pruned, Nonce, Nat)
           /\ \A n \in Nonce :
                 /\ n \in DOMAIN Pruned
                       <=> n \in DOMAIN nonces /\ nonces[n] >= clock - 2 * Tolerance
                 /\ n \in DOMAIN Pruned => Pruned[n] = nonces[n]
BY DEF TypeOK, IsTable, Pruned, Restrict

\* What start_processing, complete_processing and fail_processing do to the
\* record of their key, and that they leave the other records alone.
LEMMA StartedFact ==
    ASSUME TypeOK, NEW key \in Key \cup {None}
    PROVE  /\ IsTable(Started(key), Key, IdemRecord)
           /\ \A k \in Key : k # key =>
                 /\ k \in DOMAIN Started(key) <=> k \in DOMAIN idem
                 /\ k \in DOMAIN idem => Started(key)[k] = idem[k]
           /\ key \in Key => /\ key \in DOMAIN Started(key)
                             /\ Started(key)[key].status = "PROCESSING"
<1> DEFINE row == [status |-> "PROCESSING"]
<1>1. row \in IdemRecord /\ row.status = "PROCESSING"
    BY DEF IdemRecord
<1> HIDE DEF row
<1>2. CASE key = None
    BY <1>2, WebhookAssumption DEF Started, TypeOK
<1>3. CASE key # None
    <2>1. Started(key) = Inserted(idem, key, row)
        BY <1>3 DEF Started, row
    <2> QED BY <2>1, <1>1, <1>3 DEF TypeOK, IsTable, Inserted
<1> QED BY <1>2, <1>3

LEMMA CompletedFact ==
    ASSUME TypeOK, NEW key \in Key \cup {None}, NEW task \in Task \cup {None}
    PROVE  /\ IsTable(Completed(key, task), Key, IdemRecord)
           /\ \A k \in Key : k # key =>
                 /\ k \in DOMAIN Completed(key, task) <=> k \in DOMAIN idem
                 /\ k \in DOMAIN idem => Completed(key, task)[k] = idem[k]
           /\ key \in Key => /\ key \in DOMAIN Completed(key, task)
                             /\ Completed(key, task)[key].status = "COMPLETED"
<1> DEFINE row == [status |-> "COMPLETED", task |-> task]
<1>1. row \in IdemRecord /\ row.status = "COMPLETED"
    BY DEF IdemRecord
<1> HIDE DEF row
<1>2. CASE key = None
    BY <1>2, WebhookAssumption DEF Completed, TypeOK
<1>3. CASE key # None
    <2>1. Completed(key, task) = Inserted(idem, key, row)
        BY <1>3 DEF Completed, row
    <2> QED BY <2>1, <1>1, <1>3 DEF TypeOK, IsTable, Inserted
<1> QED BY <1>2, <1>3

LEMMA ReleasedFact ==
    ASSUME TypeOK, NEW key
    PROVE  /\ IsTable(Released(key), Key, IdemRecord)
           /\ \A k \in Key : k # key \/ Known(k, "COMPLETED") =>
                 /\ k \in DOMAIN Released(key) <=> k \in DOMAIN idem
                 /\ k \in DOMAIN idem => Released(key)[k] = idem[k]
BY DEF TypeOK, IsTable, Released, Restrict, Known

\* A request is not disturbed by what happens to the record of another key.
LEMMA OthersKeepKeys ==
    ASSUME IInv, NEW key, NEW j \in Handler, req'[j] = req[j],
           req[j].pc \in {"ingest", "audit", "commit"} /\ req[j].key # None
                => req[j].key # key,
           \A k \in Key : k # key =>
                /\ k \in DOMAIN idem' <=> k \in DOMAIN idem
                /\ k \in DOMAIN idem => idem'[k] = idem[k]
    PROVE  /\ req'[j].pc \in {"ingest", "audit"} /\ req'[j].key # None
                => Known(req[j].key, "PROCESSING")'
           /\ req'[j].pc = "commit" /\ req'[j].key # None
                => Known(req[j].key, "COMPLETED")'
<1> SUFFICES ASSUME req[j].pc \in {"ingest", "audit", "commit"}, req[j].key # None
             PROVE  \A status : Known(req[j].key, status) => Known(req[j].key, status)'
    BY DEF IInv, KeyProtocol
<1>1. req[j] \in Request
    BY DEF IInv, TypeOK
<1>2. req[j].key \in Key
    BY <1>1, RequestFields
<1> QED BY <1>2 DEF Known

LEMMA InitIInv == Init => IInv
<1> SUFFICES ASSUME Init PROVE IInv
    OBVIOUS
<1>1. TypeOK
    BY IdleRequest DEF Init, TypeOK, IsTable, EmptyTable
<1>2. NonceMemory /\ KeyProtocol /\ OneTaskPerTicket
    BY IdleRequest DEF Init, NonceMemory, KeyProtocol, OneTaskPerTicket
<1> QED BY <1>1, <1>2 DEF IInv

-----------------------------------------------------------------------------
(* The nonces *)

\* Pruning forgets a nonce only when the messages it kept out are stale.
LEMMA PruneStep ==
    ASSUME IInv, nonces' = Pruned, clock' = clock, accepted' = accepted
    PROVE  NonceMemory' /\ IsTable(nonces', Nonce, Nat)
<1> SUFFICES ASSUME NEW p \in accepted, clock - p[2] <= Tolerance
             PROVE  p[1] \in DOMAIN Pruned /\ Pruned[p[1]] >= p[2] - Tolerance
    BY PrunedFact, WebhookAssumption DEF NonceMemory, IInv, TypeOK
<1>1. /\ p[1] \in Nonce
      /\ p[2] \in Nat
      /\ clock \in Nat
      /\ Tolerance \in Nat
    BY WebhookAssumption DEF IInv, TypeOK
<1>2. /\ p[1] \in DOMAIN nonces
      /\ nonces[p[1]] >= p[2] - Tolerance
      /\ nonces[p[1]] \in Nat
    BY <1>1 DEF IInv, NonceMemory, TypeOK, IsTable
<1>3. nonces[p[1]] >= clock - 2 * Tolerance
    BY <1>1, <1>2
<1> QED BY <1>1, <1>2, <1>3, PrunedFact DEF IInv

LEMMA RecordStep ==
    ASSUME IInv, NEW m \in Message, NonceUnique(m), RecordNonce(m), clock' = clock
    PROVE  /\ NonceMemory'
           /\ IsTable(nonces', Nonce, Nat)
           /\ accepted' \subseteq Nonce \X Nat
<1>1. /\ m.nonce \in Nonce
      /\ m.stamp \in Nat
      /\ clock \in Nat
      /\ Tolerance \in Nat
      /\ clock >= m.stamp - Tolerance
    BY MessageFields, WebhookAssumption DEF NonceUnique, Fresh, IInv, TypeOK
<1>2. /\ IsTable(nonces', Nonce, Nat)
      /\ m.nonce \in DOMAIN nonces'
      /\ nonces'[m.nonce] = clock
      /\ \A n \in DOMAIN Pruned : n \in DOMAIN nonces' /\ nonces'[n] = Pruned[n]
    BY <1>1, PrunedFact DEF RecordNonce, Inserted, IsTable, NonceUnique, IInv
<1>3. accepted' \subseteq Nonce \X Nat
    BY <1>1 DEF RecordNonce, IInv, TypeOK
<1>4. ASSUME NEW p \in accepted, clock - p[2] <= Tolerance
      PROVE  p[1] \in DOMAIN nonces' /\ nonces'[p[1]] >= p[2] - Tolerance
    <2>1. /\ p[1] \in Nonce
          /\ p[2] \in Nat
        BY DEF IInv, TypeOK
    <2>2. /\ p[1] \in DOMAIN nonces
          /\ nonces[p[1]] >= p[2] - Tolerance
          /\ nonces[p[1]] \in Nat
        BY <1>1, <1>4, <2>1 DEF IInv, NonceMemory, TypeOK, IsTable
    <2>3. nonces[p[1]] >= clock - 2 * Tolerance
        BY <1>1, <1>4, <2>1, <2>2
    <2> QED BY <1>2, <2>1, <2>2, <2>3, PrunedFact DEF IInv
<1>5. NonceMemory'
    <2> SUFFICES ASSUME NEW p \in accepted', clock - p[2] <= Tolerance
                 PROVE  p[1] \in DOMAIN nonces' /\ nonces'[p[1]] >= p[2] - Tolerance
        BY <1>1, <1>3 DEF NonceMemory
    <2>1. CASE p \in accepted
        BY <1>4, <2>1
    <2>2. CASE p = <<m.nonce, m.stamp>>
        BY <1>1, <1>2, <2>2
    <2> QED BY <2>1, <2>2 DEF RecordNonce
<1> QED BY <1>2, <1>3, <1>5

-----------------------------------------------------------------------------
(* One lemma per action: it preserves the inductive invariant. *)

LEMMA RejectIInv ==
    ASSUME IInv, NEW m \in Message, RejectReplay(m) \/ RejectBusy(m)
    PROVE  IInv'
<1>1. NonceMemory' /\ IsTable(nonces', Nonce, Nat) /\ accepted' \subseteq Nonce \X Nat
    BY PruneStep, RecordStep DEF RejectReplay, RejectBusy, IInv, TypeOK
<1>2. UNCHANGED <<clock, idem, tasks, mappings, req>>
    BY DEF RejectReplay, RejectBusy
<1>3. TypeOK'
    BY <1>1, <1>2 DEF IInv, TypeOK
<1>4. KeyProtocol' /\ OneTaskPerTicket'
    BY <1>2 DEF IInv, KeyProtocol, Known, OneTaskPerTicket
<1> QED BY <1>1, <1>3, <1>4 DEF IInv

LEMMA AcknowledgeIInv ==
    ASSUME IInv, NEW m \in Message, Acknowledge(m)
    PROVE  IInv'
<1>1. NonceMemory' /\ IsTable(nonces', Nonce, Nat) /\ accepted' \subseteq Nonce \X Nat
    BY RecordStep DEF Acknowledge
<1>2. /\ m.key \in Key \cup {None}
      /\ MayStart(m.key)
      /\ idem' = Completed(m.key, None)
      /\ UNCHANGED <<clock, tasks, mappings, req>>
    BY MessageFields DEF Acknowledge
<1>3. TypeOK'
    BY <1>1, <1>2, CompletedFact DEF IInv, TypeOK
<1>4. KeyProtocol'
    <2>1. ASSUME NEW j \in Handler, req[j].pc \in {"ingest", "audit", "commit"},
                 req[j].key # None
          PROVE  req[j].key # m.key
        BY <1>2, <2>1 DEF IInv, KeyProtocol, MayStart
    <2>2. \A k \in Key : k # m.key =>
                /\ k \in DOMAIN idem' <=> k \in DOMAIN idem
                /\ k \in DOMAIN idem => idem'[k] = idem[k]
        BY <1>2, CompletedFact DEF IInv
    <2>3. ASSUME NEW j \in Handler
          PROVE  /\ req'[j].pc \in {"ingest", "audit"} /\ req'[j].key # None
                      => Known(req[j].key, "PROCESSING")'
                 /\ req'[j].pc = "commit" /\ req'[j].key # None
                      => Known(req[j].key, "COMPLETED")'
        BY <1>2, <2>1, <2>2, OthersKeepKeys
    <2> QED BY <1>2, <2>3 DEF IInv, KeyProtocol
<1>5. OneTaskPerTicket'
    BY <1>2 DEF IInv, OneTaskPerTicket
<1> QED BY <1>1, <1>3, <1>4, <1>5 DEF IInv

LEMMA AcceptIInv ==
    ASSUME IInv, NEW h \in Handler, NEW m \in Message, NEW e \in External,
           Accept(h, m, e)
    PROVE  IInv'
<1>1. NonceMemory' /\ IsTable(nonces', Nonce, Nat) /\ accepted' \subseteq Nonce \X Nat
    BY RecordStep DEF Accept
<1> DEFINE r == [pc |-> "ingest", key |-> m.key, external |-> e]
<1>2. /\ m.key \in Key \cup {None}
      /\ MayStart(m.key)
      /\ idem' = Started(m.key)
      /\ req' = [req EXCEPT ![h] = r]
      /\ UNCHANGED <<clock, tasks, mappings>>
    BY MessageFields DEF Accept
<1>3. r \in Request /\ r.pc = "ingest" /\ r.key = m.key
    BY <1>2 DEF Request
<1> HIDE DEF r
<1>4. TypeOK'
    BY <1>1, <1>2, <1>3, StartedFact DEF IInv, TypeOK
<1>5. KeyProtocol'
    <2>1. \A k \in Handler : req[k].pc \in {"ingest", "audit", "commit"} /\ req[k].key # None
                => req[k].key # m.key
        BY <1>2 DEF IInv, KeyProtocol, MayStart
    <2>2. \A k \in Key : k # m.key =>
                /\ k \in DOMAIN idem' <=> k \in DOMAIN idem
                /\ k \in DOMAIN idem => idem'[k] = idem[k]
        BY <1>2, StartedFact DEF IInv
    <2>3. /\ \A j \in Handler \ {h} : req'[j] = req[j]
          /\ req'[h] = r
        BY <1>2 DEF IInv, TypeOK
    <2>4. ASSUME NEW j \in Handler \ {h}
          PROVE  /\ req'[j].pc \in {"ingest", "audit"} /\ req'[j].key # None
                      => Known(req[j].key, "PROCESSING")'
                 /\ req'[j].pc = "commit" /\ req'[j].key # None
                      => Known(req[j].key, "COMPLETED")'
        BY <2>1, <2>2, <2>3, OthersKeepKeys
    <2>5. m.key # None => Known(m.key, "PROCESSING")'
        BY <1>2, StartedFact DEF IInv, Known
    <2> QED BY <1>3, <2>1, <2>3, <2>4, <2>5 DEF IInv, KeyProtocol
<1>6. OneTaskPerTicket'
    BY <1>2 DEF IInv, OneTaskPerTicket
<1> QED BY <1>1, <1>4, <1>5, <1>6 DEF IInv

\* The request that holds a key completes it and stops working under it.
LEMMA CompletingIInv ==
    ASSUME IInv, NEW h \in Handler, IngestRefused(h) \/ Complete(h)
    PROVE  IInv'
<1>1. PICK task \in Task \cup {None} : idem' = Completed(req[h].key, task)
    BY RequestFields DEF IngestRefused, Complete, IInv, TypeOK
<1>2. PICK r \in Request :
          /\ req' = [req EXCEPT ![h] = r]
          /\ r.pc \in {"idle", "commit"}
          /\ r.pc = "commit" => r.key = req[h].key
    <2>1. CASE IngestRefused(h)
        BY <2>1, IdleRequest DEF IngestRefused
    <2>2. CASE Complete(h)
        <3>1. [req[h] EXCEPT !.pc = "commit"] \in Request
            BY <2>2, RequestFields DEF Complete, IInv, TypeOK
        <3>2. /\ [req[h] EXCEPT !.pc = "commit"].pc = "commit"
              /\ [req[h] EXCEPT !.pc = "commit"].key = req[h].key
            BY <2>2 DEF Complete, IInv, TypeOK, Request
        <3> QED BY <2>2, <3>1, <3>2 DEF Complete
    <2> QED BY <2>1, <2>2
<1>3. /\ req[h].pc \in {"ingest", "audit"}
      /\ req[h].key \in Key \cup {None}
      /\ UNCHANGED <<clock, nonces, tasks, mappings, accepted>>
    BY RequestFields DEF IngestRefused, Complete, IInv, TypeOK
<1>4. TypeOK'
    BY <1>1, <1>2, <1>3, CompletedFact DEF IInv, TypeOK
<1>5. KeyProtocol'
    <2>1. /\ \A j \in Handler \ {h} : req'[j] = req[j]
          /\ req'[h] = r
        BY <1>2 DEF IInv, TypeOK
    <2>2. ASSUME NEW j \in Handler \ {h}, req[j].pc \in {"ingest", "audit", "commit"},
                 req[j].key # None
          PROVE  req[j].key # req[h].key
        BY <1>3, <2>2 DEF IInv, KeyProtocol, Known
    <2>3. \A k \in Key : k # req[h].key =>
                /\ k \in DOMAIN idem' <=> k \in DOMAIN idem
                /\ k \in DOMAIN idem => idem'[k] = idem[k]
        BY <1>1, <1>3, CompletedFact DEF IInv
    <2>4. ASSUME NEW j \in Handler \ {h}
          PROVE  /\ req'[j].pc \in {"ingest", "audit"} /\ req'[j].key # None
                      => Known(req[j].key, "PROCESSING")'
                 /\ req'[j].pc = "commit" /\ req'[j].key # None
                      => Known(req[j].key, "COMPLETED")'
        BY <2>1, <2>2, <2>3, OthersKeepKeys
    <2>5. req[h].key # None
            => /\ req[h].key \in DOMAIN idem'
               /\ idem'[req[h].key].status = "COMPLETED"
        BY <1>1, <1>3, CompletedFact DEF IInv
    <2>6. req'[h].pc \notin {"ingest", "audit"}
        BY <1>2, <2>1
    <2>7. req'[h].pc = "commit" /\ req'[h].key # None => Known(req[h].key, "COMPLETED")'
        BY <1>2, <2>1, <2>5 DEF Known
    <2>8. ASSUME NEW j \in Handler \ {h}, req'[j].pc \in {"ingest", "audit"},
                 req'[j].key # None, NEW k \in Handler \ {j},
                 req'[k].pc \in {"ingest", "audit"}
          PROVE  req'[k].key # req'[j].key
        BY <2>1, <2>6, <2>8 DEF IInv, KeyProtocol
    <2> QED BY <2>1, <2>4, <2>6, <2>7, <2>8 DEF KeyProtocol
<1>6. NonceMemory' /\ OneTaskPerTicket'
    BY <1>3 DEF IInv, NonceMemory, OneTaskPerTicket
<1> QED BY <1>4, <1>5, <1>6 DEF IInv

LEMMA FailIInv ==
    ASSUME IInv, NEW h \in Handler, Fail(h)
    PROVE  IInv'
<1> USE DEF IInv, Fail
<1>1. TypeOK'
    BY IdleRequest, ReleasedFact DEF TypeOK
<1>2. KeyProtocol'
    <2> SUFFICES ASSUME NEW j \in Handler, j # h, req[j].key \in Key,
                        req[j].pc \in {"ingest", "audit", "commit"}
                 PROVE  /\ req[j].key \in DOMAIN idem' <=> req[j].key \in DOMAIN idem
                        /\ req[j].key \in DOMAIN idem => idem'[req[j].key] = idem[req[j].key]
        BY IdleRequest, RequestFields DEF KeyProtocol, TypeOK, Known
    <2>1. req[j].key # req[h].key \/ Known(req[j].key, "COMPLETED")
        BY WebhookAssumption DEF KeyProtocol
    <2> QED BY <2>1, ReleasedFact
<1>3. NonceMemory' /\ OneTaskPerTicket'
    BY DEF NonceMemory, OneTaskPerTicket
<1> QED BY <1>1, <1>2, <1>3

LEMMA IngestIInv ==
    ASSUME IInv, NEW h \in Handler, Ingest(h)
    PROVE  IInv'
<1>1. PICK t \in Task :
          req' = [req EXCEPT ![h] = [pc |-> "audit", key |-> req[h].key,
                                     external |-> req[h].external, task |-> t]]
    BY DEF Ingest, UnusedTasks
<1> DEFINE r == [pc |-> "audit", key |-> req[h].key, external |-> req[h].external,
                 task |-> t]
<1>2. /\ req[h].pc = "ingest"
      /\ UNCHANGED <<clock, nonces, idem, tasks, mappings, accepted>>
    BY DEF Ingest
<1>3. r \in Request /\ r.pc = "audit" /\ r.key = req[h].key
    BY <1>2, RequestFields DEF IInv, TypeOK, Request
<1>4. req' = [req EXCEPT ![h] = r]
    BY <1>1
<1> HIDE DEF r
<1>5. TypeOK'
    BY <1>2, <1>3, <1>4 DEF IInv, TypeOK
<1>6. KeyProtocol'
    BY <1>2, <1>3, <1>4 DEF IInv, TypeOK, KeyProtocol, Known
<1>7. NonceMemory' /\ OneTaskPerTicket'
    BY <1>2 DEF IInv, NonceMemory, OneTaskPerTicket
<1> QED BY <1>5, <1>6, <1>7 DEF IInv

LEMMA LinkCheckIInv ==
    ASSUME IInv, NEW h \in Handler, NEW e \in External, NEW t \in Task, LinkCheck(h, e, t)
    PROVE  IInv'
<1> DEFINE r == [pc |-> "commit", key |-> None, external |-> e, task |-> t]
<1>1. /\ req' = [req EXCEPT ![h] = r]
      /\ UNCHANGED <<clock, nonces, idem, tasks, mappings, accepted>>
    BY DEF LinkCheck
<1>2. r \in Request /\ r.pc = "commit" /\ r.key = None
    BY DEF Request
<1> HIDE DEF r
<1>3. TypeOK'
    BY <1>1, <1>2 DEF IInv, TypeOK
<1>4. KeyProtocol'
    BY <1>1, <1>2 DEF IInv, TypeOK, KeyProtocol, Known
<1>5. NonceMemory' /\ OneTaskPerTicket'
    BY <1>1 DEF IInv, NonceMemory, OneTaskPerTicket
<1> QED BY <1>3, <1>4, <1>5 DEF IInv

LEMMA CommitIInv ==
    ASSUME IInv, NEW h \in Handler, Commit(h) \/ CommitFails(h)
    PROVE  IInv'
<1>1. /\ req[h].pc = "commit"
      /\ req' = [req EXCEPT ![h] = Idle]
      /\ UNCHANGED <<clock, nonces, idem, accepted>>
    BY DEF Commit, CommitFails
<1>2. req[h].external \in External /\ req[h].task \in Task
    BY <1>1, RequestFields DEF IInv, TypeOK
<1>3. tasks' \subseteq Task /\ mappings' \subseteq Mapping
    BY <1>2 DEF Commit, CommitFails, IInv, TypeOK, Mapping
<1>4. TypeOK'
    BY <1>1, <1>3, IdleRequest DEF IInv, TypeOK
<1>5. KeyProtocol' /\ NonceMemory'
    BY <1>1, IdleRequest DEF IInv, TypeOK, KeyProtocol, NonceMemory, Known
<1>6. OneTaskPerTicket'
    BY DEF Commit, CommitFails, Linked, IInv, OneTaskPerTicket
<1> QED BY <1>4, <1>5, <1>6 DEF IInv

LEMMA RestartIInv == IInv /\ Restart => IInv'
<1> SUFFICES ASSUME IInv, Restart PROVE IInv'
    OBVIOUS
<1>1. TypeOK'
    BY IdleRequest DEF IInv, Restart, TypeOK, IsTable, EmptyTable
<1>2. NonceMemory' /\ KeyProtocol' /\ OneTaskPerTicket'
    BY IdleRequest DEF IInv, Restart, NonceMemory, KeyProtocol, OneTaskPerTicket
<1> QED BY <1>1, <1>2 DEF IInv

\* The clock does not go back: a stale message stays stale.
LEMMA TickIInv == IInv /\ Tick => IInv'
<1> SUFFICES ASSUME IInv, Tick PROVE IInv'
    OBVIOUS
<1>1. TypeOK'
    BY DEF IInv, Tick, TypeOK
<1>2. NonceMemory'
    BY WebhookAssumption DEF IInv, Tick, TypeOK, NonceMemory
<1>3. KeyProtocol' /\ OneTaskPerTicket'
    BY DEF IInv, Tick, KeyProtocol, Known, OneTaskPerTicket
<1> QED BY <1>1, <1>2, <1>3 DEF IInv

LEMMA NextIInv == IInv /\ [Next]_vars => IInv'
<1> SUFFICES ASSUME IInv, [Next]_vars PROVE IInv'
    OBVIOUS
<1>1. CASE UNCHANGED vars
    BY <1>1 DEF vars, IInv, TypeOK, NonceMemory, KeyProtocol, Known, OneTaskPerTicket
<1> QED BY <1>1, RejectIInv, AcknowledgeIInv, AcceptIInv, CompletingIInv, FailIInv,
           IngestIInv, LinkCheckIInv, CommitIInv, RestartIInv, TickIInv
        DEF Next, Work

LEMMA Invariance == Spec => []IInv
BY InitIInv, NextIInv, PTL DEF Spec

-----------------------------------------------------------------------------
\* The stores, the tables and the requests stay well formed.
THEOREM TypeCorrect == Spec => []TypeOK
BY Invariance, PTL DEF IInv

\* For every tolerance: remembering a nonce for twice the tolerance is enough
\* to keep a message out for as long as its timestamp is acceptable.
THEOREM NonceWindowSuffices == Spec => []NoReplay
<1>1. IInv => NoReplay
    <2> SUFFICES ASSUME IInv, NEW p \in accepted,
                        NonceUnique([nonce |-> p[1], stamp |-> p[2]])
                 PROVE  FALSE
        BY DEF NoReplay
    <2>1. /\ p[1] \in Nonce
          /\ p[2] \in Nat
          /\ clock \in Nat
          /\ Tolerance \in Nat
        BY WebhookAssumption DEF IInv, TypeOK
    <2>2. clock - p[2] <= Tolerance /\ p[1] \notin DOMAIN Pruned
        BY DEF NonceUnique, Fresh
    <2>3. /\ p[1] \in DOMAIN nonces
          /\ nonces[p[1]] >= p[2] - Tolerance
          /\ nonces[p[1]] \in Nat
        BY <2>1, <2>2 DEF IInv, NonceMemory, TypeOK, IsTable
    <2>4. nonces[p[1]] >= clock - 2 * Tolerance
        BY <2>1, <2>2, <2>3
    <2> QED BY <2>1, <2>2, <2>3, <2>4, PrunedFact DEF IInv
<1> QED BY <1>1, Invariance, PTL

\* No two requests ever work under one idempotency key.
THEOREM KeysAreExclusive == Spec => []KeyProtocol
BY Invariance, PTL DEF IInv

\* A ticket never becomes two tasks, also across restarts and failed commits.
THEOREM TicketsIngestedOnce == Spec => []OneTaskPerTicket
BY Invariance, PTL DEF IInv

\* What a completed key answers never changes until the process restarts.
THEOREM CachedAnswersKept == Spec => AnswersKept
<1>1. ASSUME IInv, [Next]_vars, ~Restart, NEW k \in Key, Known(k, "COMPLETED")
      PROVE  Known(k, "COMPLETED")' /\ idem'[k] = idem[k]
    <2> DEFINE Same == /\ k \in DOMAIN idem' <=> k \in DOMAIN idem
                       /\ k \in DOMAIN idem => idem'[k] = idem[k]
    <2>1. SUFFICES Same
        BY <1>1 DEF Known
    <2>2. ASSUME NEW m \in Message, Acknowledge(m)
          PROVE  Same
        <3>1. m.key \in Key \cup {None} /\ k # m.key
            BY <1>1, <2>2, MessageFields DEF Acknowledge
        <3> QED BY <1>1, <2>2, <3>1, CompletedFact DEF Acknowledge, IInv
    <2>3. ASSUME NEW h \in Handler, NEW m \in Message, NEW e \in External, Accept(h, m, e)
          PROVE  Same
        <3>1. m.key \in Key \cup {None} /\ k # m.key
            BY <1>1, <2>3, MessageFields DEF Accept
        <3> QED BY <1>1, <2>3, <3>1, StartedFact DEF Accept, IInv
    <2>4. ASSUME NEW h \in Handler, IngestRefused(h) \/ Complete(h)
          PROVE  Same
        <3>1. /\ req[h].pc \in {"ingest", "audit"}
              /\ req[h].key \in Key \cup {None}
            BY <1>1, <2>4, RequestFields DEF IngestRefused, Complete, IInv, TypeOK
        <3>2. k # req[h].key
            BY <1>1, <3>1, WebhookAssumption DEF IInv, KeyProtocol, Known
        <3>3. PICK task \in Task \cup {None} : idem' = Completed(req[h].key, task)
            BY <1>1, <2>4, RequestFields DEF IngestRefused, Complete, IInv, TypeOK
        <3> QED BY <1>1, <3>1, <3>2, <3>3, CompletedFact DEF IInv
    <2>5. ASSUME NEW h \in Handler, Fail(h)
          PROVE  Same
        BY <1>1, <2>5, ReleasedFact DEF Fail, IInv
    <2> QED BY <1>1, <2>2, <2>3, <2>4, <2>5
            DEF Next, Work, vars, RejectReplay, RejectBusy, Ingest, LinkCheck, Commit,
                CommitFails, Tick
<1>2. IInv /\ [Next]_vars =>
        [~Restart => \A k \in Key :
            Known(k, "COMPLETED") => Known(k, "COMPLETED")' /\ idem'[k] = idem[k]]_vars
    BY <1>1
<1> QED BY <1>2, Invariance, PTL DEF Spec, AnswersKept
=============================================================================
