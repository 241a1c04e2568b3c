--------------------------- MODULE MutationStore ----------------------------
(***************************************************************************)
(* The authoritative record store of the API (apps/api/src/                *)
(* database.service.ts) on PostgreSQL, statement by statement.  A client   *)
(* is one call in flight: a guarded mutation (commitEventMutation), an     *)
(* unconditional put, or an audit put.  Between two statements every other *)
(* transaction may run; a statement, the process or the connection may     *)
(* fail at any of them, before or after the commit.                        *)
(***************************************************************************)
EXTENDS Naturals, Sequences, FiniteSets

CONSTANTS
    Tenant, Client, Key, Hash, Record,
    PutRecord,   \* records that put() overwrites too (event, approval kinds)
    Nobody,      \* holder of a lock that is free
    MaxRef       \* bound: fresh ids (response refs, audit ids) drawn in a run

ASSUME StoreAssumption ==
    /\ Tenant # {} /\ Key # {} /\ Hash # {} /\ Record # {}
    /\ PutRecord \subseteq Record
    /\ Nobody \notin Client
    /\ MaxRef \in Nat

VARIABLES
    records,     \* committed edt.records: [Tenant -> [Record -> [ver, ref]]]
    audit,       \* committed edt.audit_events: [Tenant -> set of rows]
    outbox,      \* committed edt.outbox: [Tenant -> Seq(row)] in commit order
    idem,        \* committed edt.idempotency: [Tenant -> [Key -> row]]
    expired,     \* refs of idempotency rows whose expires_at has passed
    advisory,    \* holder of pg_advisory_xact_lock(tenant)
    rowLock,     \* holder of the row lock of a record
    nextOutbox,  \* the bigserial sequence behind outbox_id
    nextRef,     \* the next fresh uuid
    txn          \* [Client -> the call in flight]

vars == <<records, audit, outbox, idem, expired, advisory, rowLock,
          nextOutbox, nextRef, txn>>

-----------------------------------------------------------------------------
NoRef == 0
Ref == 1 .. MaxRef

Op == {"mutation", "put", "audit"}
Pc == {"idle", "begun", "locked", "reserved", "checked", "positioned",
       "written", "done", "lost"}
Outcome == {"none", "committed", "replayed", "key_reused", "changed"}

AbsentRecord == [ver |-> 0, ref |-> NoRef]
AbsentKey == [hash |-> CHOOSE h \in Hash : TRUE, ref |-> NoRef]

Content == [ver : Nat, ref : Nat]
AuditRow == [seq : Nat, prev : Nat, hash : Nat]
OutboxRow == [pos : Nat, ref : Nat, key : Key, hash : Hash, rec : Record, ver : Nat]
IdemRow == [hash : Hash, ref : Nat]

(* base: the version the caller read before it called; stale: the ref of   *)
(* the key's row if that row had expired when the transaction began.       *)
Transaction == [pc : Pc, op : Op, tenant : Tenant, key : Key, hash : Hash,
                rec : Record, base : Nat, ref : Nat, stale : Nat,
                tail : AuditRow, pos : Nat, outcome : Outcome, got : Nat]

NoRow == [seq |-> 0, prev |-> NoRef, hash |-> NoRef]

Idle == [pc |-> "idle", op |-> "put",
         tenant |-> CHOOSE t \in Tenant : TRUE, key |-> CHOOSE k \in Key : TRUE,
         hash |-> CHOOSE h \in Hash : TRUE, rec |-> CHOOSE r \in Record : TRUE,
         base |-> 0, ref |-> NoRef, stale |-> NoRef,
         tail |-> NoRow, pos |-> 0, outcome |-> "none", got |-> NoRef]

Init ==
    /\ records = [t \in Tenant |-> [r \in Record |-> AbsentRecord]]
    /\ audit = [t \in Tenant |-> {}]
    /\ outbox = [t \in Tenant |-> << >>]
    /\ idem = [t \in Tenant |-> [k \in Key |-> AbsentKey]]
    /\ expired = [t \in Tenant |-> {}]
    /\ advisory = [t \in Tenant |-> Nobody]
    /\ rowLock = [t \in Tenant |-> [r \in Record |-> Nobody]]
    /\ nextOutbox = 1
    /\ nextRef = 1
    /\ txn = [c \in Client |-> Idle]

-----------------------------------------------------------------------------
(* Locks.  Every lock is a transaction lock: commit and rollback free all. *)

(* Mutant: a session lock, which outlives its transaction. *)
UnlockAdvisoryNever(c) == UNCHANGED advisory

UnlockAdvisory(c) ==
    advisory' = [t \in Tenant |-> IF advisory[t] = c THEN Nobody ELSE advisory[t]]

UnlockRows(c) ==
    rowLock' = [t \in Tenant |-> [r \in Record |->
                  IF rowLock[t][r] = c THEN Nobody ELSE rowLock[t][r]]]

Unlock(c) == UnlockAdvisory(c) /\ UnlockRows(c)

RowIsFree(c, t, r) == rowLock[t][r] \in {Nobody, c}

LockRow(c, t, r) == rowLock' = [rowLock EXCEPT ![t][r] = c]

Finish(c, outcome, got) ==
    /\ txn' = [txn EXCEPT ![c].pc = "done", ![c].outcome = outcome, ![c].got = got]
    /\ Unlock(c)

-----------------------------------------------------------------------------
(* The caller.                                                             *)

StaleRefOf(t, k) ==
    IF idem[t][k].ref \in expired[t] THEN idem[t][k].ref ELSE NoRef

Start(c, t, k, h, r, op, base) ==
    /\ nextRef <= MaxRef
    /\ txn' = [txn EXCEPT ![c] =
                 [Idle EXCEPT !.pc = "begun", !.op = op, !.tenant = t, !.key = k,
                              !.hash = h, !.rec = r, !.base = base,
                              !.ref = nextRef, !.stale = StaleRefOf(t, k)]]
    /\ nextRef' = nextRef + 1
    /\ UNCHANGED <<records, audit, outbox, idem, expired, advisory, rowLock, nextOutbox>>

(* A service has read the record and calls commitEventMutation. *)
BeginMutation(c, t, k, h, r) ==
    /\ txn[c].pc = "idle"
    /\ Start(c, t, k, h, r, "mutation", records[t][r].ver)

(* put of an ordinary kind: an upsert with no predicate. *)
BeginPut(c, t, r) ==
    /\ txn[c].pc = "idle"
    /\ r \in PutRecord
    /\ Start(c, t, Idle.key, Idle.hash, r, "put", records[t][r].ver)

(* put of kind event_audit_evidence. *)
BeginAudit(c, t) ==
    /\ txn[c].pc = "idle"
    /\ Start(c, t, Idle.key, Idle.hash, Idle.rec, "audit", 0)

(* After a lost answer the client repeats the request with the same        *)
(* Idempotency-Key; the service rebuilds it from what it has in memory     *)
(* (the same base) or from a record it has read again.                     *)
Retry(c) ==
    /\ txn[c].pc = "lost"
    /\ txn[c].op = "mutation"
    /\ \E base \in {txn[c].base, records[txn[c].tenant][txn[c].rec].ver} :
          Start(c, txn[c].tenant, txn[c].key, txn[c].hash, txn[c].rec, "mutation", base)

GiveUp(c) ==
    /\ txn[c].pc = "lost"
    /\ txn' = [txn EXCEPT ![c] = Idle]
    /\ UNCHANGED <<records, audit, outbox, idem, expired, advisory, rowLock,
                   nextOutbox, nextRef>>

Answer(c) ==
    /\ txn[c].pc = "done"
    /\ txn' = [txn EXCEPT ![c] = Idle]
    /\ UNCHANGED <<records, audit, outbox, idem, expired, advisory, rowLock,
                   nextOutbox, nextRef>>

(* The commit (or the rollback) took place, the caller never hears of it.  *)
LoseAnswer(c) ==
    /\ txn[c].pc = "done"
    /\ txn' = [txn EXCEPT ![c].pc = "lost", ![c].outcome = "none", ![c].got = NoRef]
    /\ UNCHANGED <<records, audit, outbox, idem, expired, advisory, rowLock,
                   nextOutbox, nextRef>>

-----------------------------------------------------------------------------
(* withTenant, commitEventMutation: one statement per action.              *)

(* Mutant: the lock is shared. *)
AdvisoryLockShared(c) ==
    /\ txn[c].pc = "begun"
    /\ txn[c].op \in {"mutation", "audit"}
    /\ advisory' = [advisory EXCEPT ![txn[c].tenant] = c]
    /\ txn' = [txn EXCEPT ![c].pc = "locked"]
    /\ UNCHANGED <<records, audit, outbox, idem, expired, rowLock, nextOutbox, nextRef>>

AdvisoryLock(c) ==
    LET t == txn[c].tenant IN
    /\ txn[c].pc = "begun"
    /\ txn[c].op \in {"mutation", "audit"}
    /\ advisory[t] = Nobody
    /\ advisory' = [advisory EXCEPT ![t] = c]
    /\ txn' = [txn EXCEPT ![c].pc = "locked"]
    /\ UNCHANGED <<records, audit, outbox, idem, expired, rowLock, nextOutbox, nextRef>>

(* The conditional upsert takes the row when there is none, or when the    *)
(* one there had expired before this transaction began.                    *)
CanReserveAlways(row, stale) == TRUE   \* mutant: no "where expires_at <= now"

CanReserve(row, stale) == row.ref = NoRef \/ row.ref = stale

(* Mutant: the replay does not compare the request hash. *)
ReserveIdempotencyAnyHash(c) ==
    LET row == idem[txn[c].tenant][txn[c].key] IN
    /\ txn[c].pc = "locked"
    /\ txn[c].op = "mutation"
    /\ \/ /\ CanReserve(row, txn[c].stale)
          /\ txn' = [txn EXCEPT ![c].pc = "reserved"]
          /\ UNCHANGED <<advisory, rowLock>>
       \/ /\ ~CanReserve(row, txn[c].stale)
          /\ Finish(c, "replayed", row.ref)
    /\ UNCHANGED <<records, audit, outbox, idem, expired, nextOutbox, nextRef>>

ReserveIdempotency(c) ==
    LET row == idem[txn[c].tenant][txn[c].key] IN
    /\ txn[c].pc = "locked"
    /\ txn[c].op = "mutation"
    /\ \/ /\ CanReserve(row, txn[c].stale)
          /\ txn' = [txn EXCEPT ![c].pc = "reserved"]
          /\ UNCHANGED <<advisory, rowLock>>
       \/ /\ ~CanReserve(row, txn[c].stale)
          /\ row.hash = txn[c].hash
          /\ Finish(c, "replayed", row.ref)
       \/ /\ ~CanReserve(row, txn[c].stale)
          /\ row.hash # txn[c].hash
          /\ Finish(c, "key_reused", NoRef)
    /\ UNCHANGED <<records, audit, outbox, idem, expired, nextOutbox, nextRef>>

(* select ... for update locks the row if there is one.  A caller that saw *)
(* no record requires it to be absent, and then nothing is locked.         *)
AssertExpectedRecords(c) ==
    LET t == txn[c].tenant
        r == txn[c].rec
    IN
    /\ txn[c].pc = "reserved"
    /\ records[t][r] # AbsentRecord => RowIsFree(c, t, r)
    /\ IF records[t][r].ver = txn[c].base
       THEN /\ txn' = [txn EXCEPT ![c].pc = "checked"]
            /\ IF records[t][r] # AbsentRecord THEN LockRow(c, t, r) ELSE UNCHANGED rowLock
            /\ UNCHANGED advisory
       ELSE Finish(c, "changed", NoRef)
    /\ UNCHANGED <<records, audit, outbox, idem, expired, nextOutbox, nextRef>>

(* order by tenant_sequence desc limit 1 *)
AuditTail(rows) ==
    IF rows = {} THEN NoRow
    ELSE CHOOSE row \in rows : \A other \in rows : other.seq <= row.seq

BindAuditToTail(ref, tail) == [seq |-> tail.seq + 1, prev |-> tail.hash, hash |-> ref]

(* The tail is read and the outbox row inserted: nextval is never undone.  *)
(* The outbox event id is taken to be one that no other request brings, as *)
(* the newId() of the event and graph services is.                         *)
InsertOutbox(c) ==
    /\ txn[c].pc = "checked"
    /\ txn' = [txn EXCEPT ![c].pc = "positioned",
                          ![c].tail = AuditTail(audit[txn[c].tenant]),
                          ![c].pos = nextOutbox]
    /\ nextOutbox' = nextOutbox + 1
    /\ UNCHANGED <<records, audit, outbox, idem, expired, advisory, rowLock, nextRef>>

ReadAuditTail(c) ==
    /\ txn[c].pc = "locked"
    /\ txn[c].op = "audit"
    /\ txn' = [txn EXCEPT ![c].pc = "written", ![c].tail = AuditTail(audit[txn[c].tenant])]
    /\ UNCHANGED <<records, audit, outbox, idem, expired, advisory, rowLock,
                   nextOutbox, nextRef>>

(* insert ... on conflict do update: of the mutation and of a plain put.   *)
UpsertRecord(c) ==
    LET t == txn[c].tenant
        r == txn[c].rec
    IN
    /\ \/ txn[c].op = "mutation" /\ txn[c].pc = "positioned"
       \/ txn[c].op = "put" /\ txn[c].pc = "begun"
    /\ RowIsFree(c, t, r)
    /\ LockRow(c, t, r)
    /\ txn' = [txn EXCEPT ![c].pc = "written"]
    /\ UNCHANGED <<records, audit, outbox, idem, expired, advisory, nextOutbox, nextRef>>

(* commit makes every statement of the transaction visible at once.        *)
NewContentNoRef(c) == [ver |-> txn[c].base + 1]   \* mutant: a field is lost

NewContent(c) == [ver |-> txn[c].base + 1, ref |-> txn[c].ref]

NewOutboxRow(c) ==
    [pos |-> txn[c].pos, ref |-> txn[c].ref, key |-> txn[c].key, hash |-> txn[c].hash,
     rec |-> txn[c].rec, ver |-> txn[c].base + 1]

(* Mutant: the record is written by a later call, outside the transaction. *)
CommitWithoutRecord(c) ==
    LET t == txn[c].tenant IN
    /\ txn[c].pc = "written"
    /\ IF txn[c].op = "put"
       THEN /\ records' = [records EXCEPT ![t][txn[c].rec] = NewContent(c)]
            /\ UNCHANGED audit
       ELSE /\ audit' = [audit EXCEPT ![t] = @ \cup {BindAuditToTail(txn[c].ref, txn[c].tail)}]
            /\ UNCHANGED records
    /\ IF txn[c].op # "mutation" THEN UNCHANGED <<outbox, idem>>
       ELSE /\ outbox' = [outbox EXCEPT ![t] = Append(@, NewOutboxRow(c))]
            /\ idem' = [idem EXCEPT ![t][txn[c].key] =
                          [hash |-> txn[c].hash, ref |-> txn[c].ref]]
    /\ Finish(c, "committed", txn[c].ref)
    /\ UNCHANGED <<expired, nextOutbox, nextRef>>

Commit(c) ==
    LET t == txn[c].tenant IN
    /\ txn[c].pc = "written"
    /\ IF txn[c].op = "audit" THEN UNCHANGED records
       ELSE records' = [records EXCEPT ![t][txn[c].rec] = NewContent(c)]
    /\ IF txn[c].op = "put" THEN UNCHANGED audit
       ELSE audit' = [audit EXCEPT ![t] = @ \cup {BindAuditToTail(txn[c].ref, txn[c].tail)}]
    /\ IF txn[c].op # "mutation" THEN UNCHANGED <<outbox, idem>>
       ELSE /\ outbox' = [outbox EXCEPT ![t] = Append(@, NewOutboxRow(c))]
            /\ idem' = [idem EXCEPT ![t][txn[c].key] =
                          [hash |-> txn[c].hash, ref |-> txn[c].ref]]
    /\ Finish(c, "committed", txn[c].ref)
    /\ UNCHANGED <<expired, nextOutbox, nextRef>>

(* A statement fails or times out, the connection or the process dies: the *)
(* transaction is rolled back and its locks are free.                      *)
Abort(c) ==
    /\ txn[c].pc \in Pc \ {"idle", "done", "lost"}
    /\ txn' = [txn EXCEPT ![c].pc = "lost"]
    /\ Unlock(c)
    /\ UNCHANGED <<records, audit, outbox, idem, expired, nextOutbox, nextRef>>

(* Time passes: expires_at of a committed key lies in the past.            *)
ExpireKey(t, k) ==
    /\ idem[t][k].ref # NoRef
    /\ idem[t][k].ref \notin expired[t]
    /\ expired' = [expired EXCEPT ![t] = @ \cup {idem[t][k].ref}]
    /\ UNCHANGED <<records, audit, outbox, idem, advisory, rowLock, nextOutbox,
                   nextRef, txn>>

-----------------------------------------------------------------------------
Statement(c) ==
    \/ ReserveIdempotency(c) \/ AssertExpectedRecords(c) \/ InsertOutbox(c)
    \/ ReadAuditTail(c) \/ UpsertRecord(c) \/ Commit(c)

Next ==
    \/ \E c \in Client :
          \/ \E t \in Tenant :
                \/ \E k \in Key, h \in Hash, r \in Record : BeginMutation(c, t, k, h, r)
                \/ \E r \in Record : BeginPut(c, t, r)
                \/ BeginAudit(c, t)
          \/ Retry(c) \/ GiveUp(c) \/ Answer(c) \/ LoseAnswer(c)
          \/ AdvisoryLock(c)
          \/ Statement(c)
          \/ Abort(c)
    \/ \E t \in Tenant, k \in Key : ExpireKey(t, k)

Spec == Init /\ [][Next]_vars

(* PostgreSQL executes the next statement of a connection; a lock waiter   *)
(* is woken in queue order, so a lock that keeps becoming free is granted. *)
Fairness == \A c \in Client :
    /\ SF_vars(AdvisoryLock(c))
    /\ SF_vars(AssertExpectedRecords(c))
    /\ SF_vars(UpsertRecord(c))
    /\ WF_vars(Statement(c))

FairSpec == Spec /\ Fairness

-----------------------------------------------------------------------------
(* Properties.                                                             *)

(* Every variable keeps its type.                                          *)
TypeOK ==
    /\ records \in [Tenant -> [Record -> Content]]
    /\ audit \in [Tenant -> SUBSET AuditRow]
    /\ outbox \in [Tenant -> Seq(OutboxRow)]
    /\ idem \in [Tenant -> [Key -> IdemRow]]
    /\ expired \in [Tenant -> SUBSET Nat]
    /\ advisory \in [Tenant -> Client \cup {Nobody}]
    /\ rowLock \in [Tenant -> [Record -> Client \cup {Nobody}]]
    /\ nextOutbox \in Nat \ {0}
    /\ nextRef \in Nat \ {0}
    /\ txn \in [Client -> Transaction]

IsChain(rows) ==
    /\ \A a, b \in rows : a.seq = b.seq => a = b
    /\ \A a \in rows :
          /\ a.seq >= 1
          /\ a.seq = 1 => a.prev = NoRef
          /\ a.seq > 1 => \E b \in rows : b.seq + 1 = a.seq /\ b.hash = a.prev

(* The committed audit rows of a tenant form one hash-linked chain: the    *)
(* sequence numbers have no gap and no fork, and each row names its        *)
(* predecessor, whichever mix of mutations and audit puts wrote them.      *)
AuditChain == \A t \in Tenant : IsChain(audit[t])

(* A success told to a caller is on disk under the key and the hash of its *)
(* own request, also when it is the replay of an earlier answer; a refusal *)
(* has left nothing of the attempt behind.                                 *)
AnswersAreDurable ==
    \A c \in Client :
        LET x == txn[c] IN
        (x.pc = "done" /\ x.op = "mutation") =>
            /\ x.outcome \in {"committed", "replayed"} =>
                  \E i \in DOMAIN outbox[x.tenant] :
                      LET row == outbox[x.tenant][i] IN
                      row.ref = x.got /\ row.key = x.key /\ row.hash = x.hash
            /\ x.outcome \in {"replayed", "key_reused", "changed"} =>
                  \A i \in DOMAIN outbox[x.tenant] : outbox[x.tenant][i].ref # x.ref

(* Record, audit and outbox are written together: every outbox row has its *)
(* audit row, and a record that only mutations write holds what the last   *)
(* outbox row about it says.                                               *)
OneTransaction ==
    \A t \in Tenant : \A i \in DOMAIN outbox[t] :
        LET row == outbox[t][i] IN
        /\ \E a \in audit[t] : a.hash = row.ref
        /\ (row.rec \notin PutRecord /\ \A j \in DOMAIN outbox[t] : j > i => outbox[t][j].rec # row.rec)
              => records[t][row.rec] = [ver |-> row.ver, ref |-> row.ref]

(* The store implements the abstract ledger: one entry per live key, and   *)
(* versions and positions that grow in the order of commits.               *)
Ledger == INSTANCE MutationLedger WITH ledger <- outbox
LedgerSpec == Ledger!Spec

(* No lock order leaves a caller waiting forever: a call that has begun    *)
(* ends, and a key is reserved only for the length of its transaction.     *)
CallsEnd ==
    \A c \in Client : txn[c].pc = "begun" ~> txn[c].pc \in {"done", "lost", "idle"}
=============================================================================
