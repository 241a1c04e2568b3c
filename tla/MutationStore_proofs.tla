------------------------ MODULE MutationStore_proofs ------------------------
(***************************************************************************)
(* Proofs about MutationStore: type correctness and the audit chain, which *)
(* rest on the tenant's advisory lock, under which the tail of the chain is*)
(* read and extended; and what a commit leaves: answers are durable, a     *)
(* mutation is written whole, and the store implements MutationLedger.     *)
(***************************************************************************)
EXTENDS MutationStore, SequenceTheorems, TLAPS

-----------------------------------------------------------------------------
(* The inductive invariant, part 1: control, locks and the chain.          *)

(* A transaction that holds the advisory lock of its tenant.               *)
Holds(x) == /\ x.op \in {"mutation", "audit"}
            /\ x.pc \in {"locked", "reserved", "checked", "positioned", "written"}

(* A transaction that has read the tail it will extend.                    *)
HasRead(x) == \/ x.op = "mutation" /\ x.pc \in {"positioned", "written"}
              \/ x.op = "audit" /\ x.pc = "written"

IsTail(rows, row) == \/ rows = {} /\ row = NoRow
                     \/ row \in rows /\ \A other \in rows : other.seq <= row.seq

(* Each operation stays on its own path through the statements.            *)
Paths == \A c \in Client :
    /\ txn[c].pc \in {"reserved", "checked", "positioned"} => txn[c].op = "mutation"
    /\ txn[c].pc = "locked" => txn[c].op # "put"
    /\ (txn[c].pc # "idle" /\ txn[c].op = "put") => txn[c].rec \in PutRecord

LockHeld == \A c \in Client : Holds(txn[c]) => advisory[txn[c].tenant] = c

HasTail == \A t \in Tenant : \E row \in audit[t] \cup {NoRow} : IsTail(audit[t], row)

TailIsCurrent == \A c \in Client :
    HasRead(txn[c]) => IsTail(audit[txn[c].tenant], txn[c].tail)

ChainInv == TypeOK /\ Paths /\ LockHeld /\ HasTail /\ TailIsCurrent /\ AuditChain

-----------------------------------------------------------------------------
(* Lemmas about the operators.                                             *)

(* The query for the tail returns a row of greatest sequence number, or    *)
(* the row before the first one.                                           *)
LEMMA AuditTailIsTail ==
    ASSUME NEW rows \in SUBSET AuditRow, \E row \in rows \cup {NoRow} : IsTail(rows, row)
    PROVE  AuditTail(rows) \in AuditRow /\ IsTail(rows, AuditTail(rows))
<1>1. CASE rows = {}
  BY <1>1 DEF AuditTail, IsTail, NoRow, AuditRow, NoRef
<1>2. CASE rows # {}
  <2>1. PICK row \in rows : \A other \in rows : other.seq <= row.seq
    BY <1>2 DEF IsTail
  <2>2. /\ AuditTail(rows) \in rows
        /\ \A other \in rows : other.seq <= AuditTail(rows).seq
    BY <1>2, <2>1 DEF AuditTail
  <2>. QED BY <2>2 DEF IsTail
<1>. QED BY <1>1, <1>2

(* A transaction that starts is well typed: the constants are not empty.   *)
LEMMA IdleType == Idle \in Transaction
BY StoreAssumption DEF Idle, Transaction, Pc, Op, Outcome, NoRow, NoRef, AuditRow

LEMMA InitType == Init => TypeOK
<1>. SUFFICES ASSUME Init PROVE TypeOK
  OBVIOUS
<1>1. AbsentKey \in IdemRow
  BY StoreAssumption DEF AbsentKey, IdemRow, NoRef
<1>2. AbsentRecord \in Content
  BY DEF AbsentRecord, Content, NoRef
<1>3. txn \in [Client -> Transaction]
  BY IdleType DEF Init
<1>4. outbox \in [Tenant -> Seq(OutboxRow)]
  BY EmptySeq DEF Init
<1>. QED BY <1>1, <1>2, <1>3, <1>4 DEF Init, TypeOK

-----------------------------------------------------------------------------
(* Every step keeps the types.                                             *)

LEMMA MoveType ==
    ASSUME NEW calls \in [Client -> Transaction], NEW c \in Client, NEW pc \in Pc
    PROVE  [calls EXCEPT ![c].pc = pc] \in [Client -> Transaction]
<1>1. [calls[c] EXCEPT !.pc = pc] \in Transaction
  BY DEF Transaction
<1>. QED BY <1>1

LEMMA EndType ==
    ASSUME NEW calls \in [Client -> Transaction], NEW c \in Client, NEW pc \in Pc,
           NEW outcome \in Outcome, NEW got \in Nat
    PROVE  [calls EXCEPT ![c].pc = pc, ![c].outcome = outcome, ![c].got = got]
             \in [Client -> Transaction]
<1>. DEFINE x == [calls[c] EXCEPT !.pc = pc, !.outcome = outcome, !.got = got]
<1>1. x \in Transaction
  BY DEF Transaction
<1>2. [calls EXCEPT ![c].pc = pc, ![c].outcome = outcome, ![c].got = got]
        = [calls EXCEPT ![c] = x]
  OBVIOUS
<1>. QED BY <1>1, <1>2

LEMMA ReadTailType ==
    ASSUME NEW calls \in [Client -> Transaction], NEW c \in Client, NEW pc \in Pc,
           NEW tail \in AuditRow, NEW pos \in Nat
    PROVE  /\ [calls EXCEPT ![c].pc = pc, ![c].tail = tail, ![c].pos = pos]
                \in [Client -> Transaction]
           /\ [calls EXCEPT ![c].pc = pc, ![c].tail = tail] \in [Client -> Transaction]
<1>. DEFINE x == [calls[c] EXCEPT !.pc = pc, !.tail = tail, !.pos = pos]
            y == [calls[c] EXCEPT !.pc = pc, !.tail = tail]
<1>1. x \in Transaction /\ y \in Transaction
  BY DEF Transaction
<1>2. /\ [calls EXCEPT ![c].pc = pc, ![c].tail = tail, ![c].pos = pos]
           = [calls EXCEPT ![c] = x]
      /\ [calls EXCEPT ![c].pc = pc, ![c].tail = tail] = [calls EXCEPT ![c] = y]
  OBVIOUS
<1>. QED BY <1>1, <1>2

LEMMA UnlockType ==
    ASSUME TypeOK, NEW c \in Client, Unlock(c)
    PROVE  /\ advisory' \in [Tenant -> Client \cup {Nobody}]
           /\ rowLock' \in [Tenant -> [Record -> Client \cup {Nobody}]]
BY DEF TypeOK, Unlock, UnlockAdvisory, UnlockRows

LEMMA StartType ==
    ASSUME TypeOK, NEW c \in Client, NEW t \in Tenant, NEW k \in Key, NEW h \in Hash,
           NEW r \in Record, NEW op \in Op, NEW base \in Nat, Start(c, t, k, h, r, op, base)
    PROVE  TypeOK'
<1>1. StaleRefOf(t, k) \in Nat
  BY DEF StaleRefOf, TypeOK, IdemRow, NoRef
<1>2. nextRef' \in Nat \ {0} /\ nextRef \in Nat
  BY DEF TypeOK, Start
<1>3. txn' \in [Client -> Transaction]
  <2>. DEFINE x == [Idle EXCEPT !.pc = "begun", !.op = op, !.tenant = t, !.key = k,
                                !.hash = h, !.rec = r, !.base = base,
                                !.ref = nextRef, !.stale = StaleRefOf(t, k)]
  <2>1. x \in Transaction
    BY <1>1, <1>2, IdleType DEF Transaction, Pc
  <2>2. txn' = [txn EXCEPT ![c] = x]
    BY DEF Start
  <2>. QED BY <2>1, <2>2 DEF TypeOK
<1>. QED BY <1>2, <1>3 DEF Start, TypeOK

LEMMA FinishType ==
    ASSUME TypeOK, NEW c \in Client, NEW outcome \in Outcome, NEW got \in Nat,
           Finish(c, outcome, got)
    PROVE  /\ txn' \in [Client -> Transaction]
           /\ advisory' \in [Tenant -> Client \cup {Nobody}]
           /\ rowLock' \in [Tenant -> [Record -> Client \cup {Nobody}]]
<1>1. txn \in [Client -> Transaction] /\ "done" \in Pc
  BY DEF TypeOK, Pc
<1>2. [txn EXCEPT ![c].pc = "done", ![c].outcome = outcome, ![c].got = got]
        \in [Client -> Transaction]
  BY <1>1, EndType
<1>3. txn' \in [Client -> Transaction]
  BY <1>2 DEF Finish
<1>. QED BY <1>3, UnlockType DEF Finish

(* What the steps need to know of a call in flight. *)
LEMMA CallType ==
    ASSUME TypeOK, NEW c \in Client
    PROVE  /\ txn[c].tenant \in Tenant /\ txn[c].key \in Key /\ txn[c].hash \in Hash
           /\ txn[c].rec \in Record /\ txn[c].base \in Nat /\ txn[c].ref \in Nat
           /\ txn[c].tail \in AuditRow /\ txn[c].pos \in Nat /\ txn[c].op \in Op
           /\ txn[c].pc \in Pc
BY DEF TypeOK, Transaction

LEMMA TypeStep == TypeOK /\ HasTail /\ [Next]_vars => TypeOK'
<1>. SUFFICES ASSUME TypeOK, HasTail, [Next]_vars PROVE TypeOK'
  OBVIOUS
<1>0. /\ txn \in [Client -> Transaction]
      /\ \A t \in Tenant, r \in Record : records[t][r].ver \in Nat
  BY DEF TypeOK, Content
<1>1. ASSUME NEW c \in Client, NEW t \in Tenant, NEW k \in Key, NEW h \in Hash,
             NEW r \in Record, BeginMutation(c, t, k, h, r)
      PROVE  TypeOK'
  BY <1>0, <1>1, StartType DEF BeginMutation, Op
<1>2. ASSUME NEW c \in Client, NEW t \in Tenant, NEW r \in Record, BeginPut(c, t, r)
      PROVE  TypeOK'
  <2>1. Idle.key \in Key /\ Idle.hash \in Hash
    BY IdleType DEF Transaction
  <2>. QED BY <1>0, <1>2, <2>1, StartType DEF BeginPut, Op
<1>3. ASSUME NEW c \in Client, NEW t \in Tenant, BeginAudit(c, t) PROVE TypeOK'
  <2>1. Idle.key \in Key /\ Idle.hash \in Hash /\ Idle.rec \in Record
    BY IdleType DEF Transaction
  <2>. QED BY <1>0, <1>3, <2>1, StartType DEF BeginAudit, Op
<1>4. ASSUME NEW c \in Client, Retry(c) PROVE TypeOK'
  <2>1. PICK base \in {txn[c].base, records[txn[c].tenant][txn[c].rec].ver} :
           Start(c, txn[c].tenant, txn[c].key, txn[c].hash, txn[c].rec, "mutation", base)
    BY <1>4 DEF Retry
  <2>. QED BY <1>0, <2>1, CallType, StartType DEF Op
<1>5. ASSUME NEW c \in Client, GiveUp(c) \/ Answer(c) PROVE TypeOK'
  <2>1. txn' \in [Client -> Transaction]
    BY <1>0, <1>5, IdleType DEF GiveUp, Answer
  <2>. QED BY <1>5, <2>1 DEF GiveUp, Answer, TypeOK
<1>6. ASSUME NEW c \in Client, LoseAnswer(c) PROVE TypeOK'
  <2>1. "lost" \in Pc /\ "none" \in Outcome /\ NoRef \in Nat
    BY DEF Pc, Outcome, NoRef
  <2>2. [txn EXCEPT ![c].pc = "lost", ![c].outcome = "none", ![c].got = NoRef]
          \in [Client -> Transaction]
    BY <1>0, <2>1, EndType
  <2>3. txn' \in [Client -> Transaction]
    BY <1>6, <2>2 DEF LoseAnswer
  <2>. QED BY <1>6, <2>3 DEF LoseAnswer, TypeOK
<1>7. ASSUME NEW c \in Client, AdvisoryLock(c) PROVE TypeOK'
  <2>1. txn' \in [Client -> Transaction]
    BY <1>0, <1>7, MoveType DEF AdvisoryLock, Pc
  <2>2. advisory' \in [Tenant -> Client \cup {Nobody}]
    BY <1>7, CallType DEF AdvisoryLock, TypeOK
  <2>. QED BY <1>7, <2>1, <2>2 DEF AdvisoryLock, TypeOK
<1>8. ASSUME NEW c \in Client, ReserveIdempotency(c) PROVE TypeOK'
  <2>. DEFINE row == idem[txn[c].tenant][txn[c].key]
  <2>1. row.ref \in Nat /\ NoRef \in Nat
    BY CallType DEF TypeOK, IdemRow, NoRef
  <2>2. CASE Finish(c, "replayed", row.ref) \/ Finish(c, "key_reused", NoRef)
    BY <1>8, <2>1, <2>2, FinishType DEF ReserveIdempotency, TypeOK, Outcome
  <2>3. CASE txn' = [txn EXCEPT ![c].pc = "reserved"] /\ UNCHANGED <<advisory, rowLock>>
    <3>1. txn' \in [Client -> Transaction]
      BY <1>0, <2>3, MoveType DEF Pc
    <3>. QED BY <1>8, <2>3, <3>1 DEF ReserveIdempotency, TypeOK
  <2>. QED BY <1>8, <2>2, <2>3 DEF ReserveIdempotency
<1>9. ASSUME NEW c \in Client, AssertExpectedRecords(c) PROVE TypeOK'
  <2>1. CASE Finish(c, "changed", NoRef)
    BY <1>9, <2>1, FinishType DEF AssertExpectedRecords, TypeOK, Outcome, NoRef
  <2>2. CASE txn' = [txn EXCEPT ![c].pc = "checked"] /\ UNCHANGED advisory
    <3>1. txn' \in [Client -> Transaction]
      BY <1>0, <2>2, MoveType DEF Pc
    <3>2. CASE Finish(c, "changed", NoRef)
      BY <1>9, <3>2, FinishType DEF AssertExpectedRecords, TypeOK, Outcome, NoRef
    <3>3. CASE UNCHANGED rowLock \/ LockRow(c, txn[c].tenant, txn[c].rec)
      <4>1. rowLock \in [Tenant -> [Record -> Client \cup {Nobody}]]
        BY DEF TypeOK
      <4>2. rowLock' \in [Tenant -> [Record -> Client \cup {Nobody}]]
        BY <3>3, <4>1 DEF LockRow
      <4>. QED BY <1>9, <2>2, <3>1, <4>2 DEF AssertExpectedRecords, TypeOK
    <3>. QED BY <1>9, <3>2, <3>3 DEF AssertExpectedRecords
  <2>. QED BY <1>9, <2>1, <2>2 DEF AssertExpectedRecords
<1>10. ASSUME NEW c \in Client, InsertOutbox(c) PROVE TypeOK'
  <2>1. AuditTail(audit[txn[c].tenant]) \in AuditRow
    BY AuditTailIsTail, CallType DEF TypeOK, HasTail
  <2>2. txn' \in [Client -> Transaction]
    BY <1>0, <1>10, <2>1, ReadTailType DEF InsertOutbox, Pc, TypeOK
  <2>. QED BY <1>10, <2>2 DEF InsertOutbox, TypeOK
<1>11. ASSUME NEW c \in Client, ReadAuditTail(c) PROVE TypeOK'
  <2>1. AuditTail(audit[txn[c].tenant]) \in AuditRow
    BY AuditTailIsTail, CallType DEF TypeOK, HasTail
  <2>2. txn' \in [Client -> Transaction]
    <3>1. "written" \in Pc /\ 0 \in Nat
      BY DEF Pc
    <3>2. [txn EXCEPT ![c].pc = "written", ![c].tail = AuditTail(audit[txn[c].tenant])]
            \in [Client -> Transaction]
      BY <1>0, <2>1, <3>1, ReadTailType
    <3>. QED BY <1>11, <3>2 DEF ReadAuditTail
  <2>. QED BY <1>11, <2>2 DEF ReadAuditTail, TypeOK
<1>12. ASSUME NEW c \in Client, UpsertRecord(c) PROVE TypeOK'
  <2>1. txn' \in [Client -> Transaction]
    BY <1>0, <1>12, MoveType DEF UpsertRecord, Pc
  <2>2. rowLock' \in [Tenant -> [Record -> Client \cup {Nobody}]]
    BY <1>12, CallType DEF UpsertRecord, LockRow, TypeOK
  <2>. QED BY <1>12, <2>1, <2>2 DEF UpsertRecord, TypeOK
<1>13. ASSUME NEW c \in Client, Commit(c) PROVE TypeOK'
  <2>. DEFINE t == txn[c].tenant
  <2>1. BindAuditToTail(txn[c].ref, txn[c].tail) \in AuditRow
    BY CallType DEF BindAuditToTail, AuditRow
  <2>2. audit' \in [Tenant -> SUBSET AuditRow]
    <3>1. \/ UNCHANGED audit
          \/ audit' = [audit EXCEPT ![t] = @ \cup {BindAuditToTail(txn[c].ref, txn[c].tail)}]
      BY <1>13 DEF Commit
    <3>2. audit \in [Tenant -> SUBSET AuditRow]
      BY DEF TypeOK
    <3>. QED BY <2>1, <3>1, <3>2
  <2>3. records' \in [Tenant -> [Record -> Content]]
    <3>1. NewContent(c) \in Content
      BY CallType DEF NewContent, Content
    <3>2. \/ UNCHANGED records
          \/ records' = [records EXCEPT ![t][txn[c].rec] = NewContent(c)]
      BY <1>13 DEF Commit
    <3>3. records \in [Tenant -> [Record -> Content]]
      BY DEF TypeOK
    <3>. QED BY <3>1, <3>2, <3>3
  <2>4. outbox' \in [Tenant -> Seq(OutboxRow)]
    <3>1. NewOutboxRow(c) \in OutboxRow
      BY CallType DEF NewOutboxRow, OutboxRow
    <3>2. Append(outbox[t], NewOutboxRow(c)) \in Seq(OutboxRow)
      BY <3>1, CallType DEF TypeOK
    <3>3. \/ UNCHANGED outbox
          \/ outbox' = [outbox EXCEPT ![t] = Append(@, NewOutboxRow(c))]
      BY <1>13 DEF Commit
    <3>. QED BY <3>2, <3>3 DEF TypeOK
  <2>5. idem' \in [Tenant -> [Key -> IdemRow]]
    <3>1. [hash |-> txn[c].hash, ref |-> txn[c].ref] \in IdemRow
      BY CallType DEF IdemRow
    <3>2. \/ UNCHANGED idem
          \/ idem' = [idem EXCEPT ![t][txn[c].key] = [hash |-> txn[c].hash, ref |-> txn[c].ref]]
      BY <1>13 DEF Commit
    <3>3. idem \in [Tenant -> [Key -> IdemRow]]
      BY DEF TypeOK
    <3>. QED BY <3>1, <3>2, <3>3
  <2>6. /\ txn' \in [Client -> Transaction]
        /\ advisory' \in [Tenant -> Client \cup {Nobody}]
        /\ rowLock' \in [Tenant -> [Record -> Client \cup {Nobody}]]
    BY <1>13, CallType, FinishType DEF Commit, Outcome
  <2>. QED BY <1>13, <2>2, <2>3, <2>4, <2>5, <2>6 DEF Commit, TypeOK
<1>14. ASSUME NEW c \in Client, Abort(c) PROVE TypeOK'
  <2>1. txn' \in [Client -> Transaction]
    BY <1>0, <1>14, MoveType DEF Abort, Pc
  <2>. QED BY <1>14, <2>1, UnlockType DEF Abort, TypeOK
<1>15. ASSUME NEW t \in Tenant, NEW k \in Key, ExpireKey(t, k) PROVE TypeOK'
  BY <1>15 DEF ExpireKey, TypeOK, IdemRow
<1>16. CASE UNCHANGED vars
  BY <1>16 DEF vars, TypeOK
<1>. QED
  BY <1>1, <1>2, <1>3, <1>4, <1>5, <1>6, <1>7, <1>8, <1>9, <1>10, <1>11, <1>12,
     <1>13, <1>14, <1>15, <1>16 DEF Next, Statement

-----------------------------------------------------------------------------
(* What a step does to the calls in flight, field by field.                *)

Others(c) == \A d \in Client \ {c} : txn'[d] = txn[d]

SameCall(c) ==
    /\ txn'[c].op = txn[c].op /\ txn'[c].tenant = txn[c].tenant
    /\ txn'[c].key = txn[c].key /\ txn'[c].hash = txn[c].hash
    /\ txn'[c].rec = txn[c].rec /\ txn'[c].base = txn[c].base
    /\ txn'[c].ref = txn[c].ref /\ txn'[c].stale = txn[c].stale

Moves(c, pc) ==
    /\ Others(c) /\ SameCall(c)
    /\ txn'[c].pc = pc /\ txn'[c].tail = txn[c].tail /\ txn'[c].pos = txn[c].pos

Ends(c, pc, outcome, got) ==
    /\ Others(c) /\ SameCall(c)
    /\ txn'[c].pc = pc /\ txn'[c].outcome = outcome /\ txn'[c].got = got

Begins(c, t, k, h, r, op, base) ==
    /\ Others(c)
    /\ txn'[c].pc = "begun" /\ txn'[c].op = op /\ txn'[c].tenant = t
    /\ txn'[c].key = k /\ txn'[c].hash = h /\ txn'[c].rec = r
    /\ txn'[c].base = base /\ txn'[c].ref = nextRef /\ txn'[c].stale = StaleRefOf(t, k)

LEMMA StartEffect ==
    ASSUME TypeOK, NEW c \in Client, NEW t, NEW k, NEW h, NEW r, NEW op, NEW base,
           Start(c, t, k, h, r, op, base)
    PROVE  Begins(c, t, k, h, r, op, base)
BY IdleType DEF TypeOK, Start, Begins, Others, Transaction

LEMMA MoveEffect ==
    ASSUME TypeOK, NEW c \in Client, NEW pc, txn' = [txn EXCEPT ![c].pc = pc]
    PROVE  Moves(c, pc)
BY DEF TypeOK, Moves, Others, SameCall, Transaction

LEMMA EndEffect ==
    ASSUME TypeOK, NEW c \in Client, NEW pc, NEW outcome, NEW got,
           txn' = [txn EXCEPT ![c].pc = pc, ![c].outcome = outcome, ![c].got = got]
    PROVE  Ends(c, pc, outcome, got)
BY DEF TypeOK, Ends, Others, SameCall, Transaction

LEMMA UnlockEffect ==
    ASSUME TypeOK, NEW c \in Client, Unlock(c)
    PROVE  \A t \in Tenant : advisory[t] # c => advisory'[t] = advisory[t]
BY DEF TypeOK, Unlock, UnlockAdvisory

(* Each action, as the proofs below use it. *)
LEMMA Effects ==
    ASSUME TypeOK, NEW c \in Client
    PROVE  /\ AdvisoryLock(c) => Moves(c, "locked")
           /\ ReserveIdempotency(c) =>
                \/ Moves(c, "reserved") /\ UNCHANGED advisory
                \/ \E outcome \in {"replayed", "key_reused"}, got \in Nat :
                      Ends(c, "done", outcome, got) /\ Unlock(c)
           /\ AssertExpectedRecords(c) =>
                \/ Moves(c, "checked") /\ UNCHANGED advisory
                \/ Ends(c, "done", "changed", NoRef) /\ Unlock(c)
           /\ InsertOutbox(c) =>
                /\ Others(c) /\ SameCall(c) /\ txn'[c].pc = "positioned"
                /\ txn'[c].tail = AuditTail(audit[txn[c].tenant])
                /\ txn'[c].pos = nextOutbox
           /\ ReadAuditTail(c) =>
                /\ Others(c) /\ SameCall(c) /\ txn'[c].pc = "written"
                /\ txn'[c].tail = AuditTail(audit[txn[c].tenant])
           /\ UpsertRecord(c) => Moves(c, "written")
           /\ Commit(c) => Ends(c, "done", "committed", txn[c].ref) /\ Unlock(c)
           /\ Abort(c) => Moves(c, "lost") /\ Unlock(c)
           /\ LoseAnswer(c) => Ends(c, "lost", "none", NoRef)
           /\ GiveUp(c) \/ Answer(c) => Others(c) /\ txn'[c] = Idle
<1>0. txn[c] \in Transaction /\ txn \in [Client -> Transaction]
  BY DEF TypeOK
<1>1. AdvisoryLock(c) => Moves(c, "locked")
  BY MoveEffect DEF AdvisoryLock
<1>2. ASSUME ReserveIdempotency(c)
      PROVE  \/ Moves(c, "reserved") /\ UNCHANGED advisory
             \/ \E outcome \in {"replayed", "key_reused"}, got \in Nat :
                   Ends(c, "done", outcome, got) /\ Unlock(c)
  <2>. DEFINE row == idem[txn[c].tenant][txn[c].key]
  <2>1. row.ref \in Nat /\ NoRef \in Nat
    BY CallType DEF TypeOK, IdemRow, NoRef
  <2>2. CASE txn' = [txn EXCEPT ![c].pc = "reserved"] /\ UNCHANGED <<advisory, rowLock>>
    BY <2>2, MoveEffect
  <2>3. CASE Finish(c, "replayed", row.ref)
    <3>1. Ends(c, "done", "replayed", row.ref)
      BY <2>3, EndEffect DEF Finish
    <3>. QED BY <2>1, <2>3, <3>1 DEF Finish
  <2>4. CASE Finish(c, "key_reused", NoRef)
    <3>1. Ends(c, "done", "key_reused", NoRef)
      BY <2>4, EndEffect DEF Finish
    <3>. QED BY <2>1, <2>4, <3>1 DEF Finish
  <2>. QED BY <1>2, <2>2, <2>3, <2>4 DEF ReserveIdempotency
<1>3. ASSUME AssertExpectedRecords(c)
      PROVE  \/ Moves(c, "checked") /\ UNCHANGED advisory
             \/ Ends(c, "done", "changed", NoRef) /\ Unlock(c)
  <2>1. CASE txn' = [txn EXCEPT ![c].pc = "checked"] /\ UNCHANGED advisory
    BY <2>1, MoveEffect
  <2>2. CASE Finish(c, "changed", NoRef)
    BY <2>2, EndEffect DEF Finish
  <2>. QED BY <1>3, <2>1, <2>2 DEF AssertExpectedRecords
<1>4. InsertOutbox(c) =>
        /\ Others(c) /\ SameCall(c) /\ txn'[c].pc = "positioned"
        /\ txn'[c].tail = AuditTail(audit[txn[c].tenant])
        /\ txn'[c].pos = nextOutbox
  BY <1>0 DEF InsertOutbox, Others, SameCall, Transaction
<1>5. ReadAuditTail(c) =>
        /\ Others(c) /\ SameCall(c) /\ txn'[c].pc = "written"
        /\ txn'[c].tail = AuditTail(audit[txn[c].tenant])
  BY <1>0 DEF ReadAuditTail, Others, SameCall, Transaction
<1>6. UpsertRecord(c) => Moves(c, "written")
  BY MoveEffect DEF UpsertRecord
<1>7. Commit(c) => Ends(c, "done", "committed", txn[c].ref) /\ Unlock(c)
  BY EndEffect DEF Commit, Finish
<1>8. Abort(c) => Moves(c, "lost") /\ Unlock(c)
  BY MoveEffect DEF Abort
<1>9. LoseAnswer(c) => Ends(c, "lost", "none", NoRef)
  BY EndEffect DEF LoseAnswer
<1>10. GiveUp(c) \/ Answer(c) => Others(c) /\ txn'[c] = Idle
  BY <1>0 DEF GiveUp, Answer, Others
<1>. QED BY <1>1, <1>2, <1>3, <1>4, <1>5, <1>6, <1>7, <1>8, <1>9, <1>10

-----------------------------------------------------------------------------
(* Every operation stays on its path.                                      *)

LEMMA PathsStep == TypeOK /\ Paths /\ [Next]_vars => Paths'
<1>. SUFFICES ASSUME TypeOK, Paths, [Next]_vars PROVE Paths'
  OBVIOUS
<1>1. ASSUME NEW c \in Client, NEW t, NEW k, NEW h, NEW r, NEW op, NEW base,
             Start(c, t, k, h, r, op, base), op = "put" => r \in PutRecord
      PROVE  Paths'
  BY <1>1, StartEffect DEF Begins, Others, Paths
<1>2. ASSUME NEW c \in Client, NEW t \in Tenant, NEW k \in Key, NEW h \in Hash,
             NEW r \in Record, BeginMutation(c, t, k, h, r)
      PROVE  Paths'
  BY <1>1, <1>2 DEF BeginMutation
<1>3. ASSUME NEW c \in Client, NEW t \in Tenant, NEW r \in Record, BeginPut(c, t, r)
      PROVE  Paths'
  BY <1>1, <1>3 DEF BeginPut
<1>4. ASSUME NEW c \in Client, NEW t \in Tenant, BeginAudit(c, t) PROVE Paths'
  BY <1>1, <1>4 DEF BeginAudit
<1>5. ASSUME NEW c \in Client, Retry(c) PROVE Paths'
  BY <1>1, <1>5 DEF Retry
<1>6. ASSUME NEW c \in Client, GiveUp(c) \/ Answer(c) PROVE Paths'
  <2>1. Others(c) /\ txn'[c] = Idle
    BY <1>6, Effects
  <2>. QED BY <2>1 DEF Others, Paths, Idle
(* A call in flight keeps its operation and its record. *)
<1>7. ASSUME NEW c \in Client, Others(c), SameCall(c), txn[c].pc # "idle",
             txn'[c].pc \in {"reserved", "checked", "positioned"} => txn[c].op = "mutation",
             txn'[c].pc = "locked" => txn[c].op # "put"
      PROVE  Paths'
  BY <1>7 DEF Others, SameCall, Paths
<1>8. ASSUME NEW c \in Client, LoseAnswer(c) PROVE Paths'
  <2>1. Ends(c, "lost", "none", NoRef)
    BY <1>8, Effects
  <2>. QED BY <1>7, <1>8, <2>1 DEF LoseAnswer, Ends
<1>9. ASSUME NEW c \in Client, AdvisoryLock(c) PROVE Paths'
  <2>1. Moves(c, "locked")
    BY <1>9, Effects
  <2>. QED BY <1>7, <1>9, <2>1 DEF AdvisoryLock, Moves
<1>10. ASSUME NEW c \in Client, ReserveIdempotency(c) PROVE Paths'
  <2>1. \/ Moves(c, "reserved")
        \/ \E outcome \in {"replayed", "key_reused"}, got \in Nat : Ends(c, "done", outcome, got)
    BY <1>10, Effects
  <2>. QED BY <1>7, <1>10, <2>1 DEF ReserveIdempotency, Moves, Ends
<1>11. ASSUME NEW c \in Client, AssertExpectedRecords(c) PROVE Paths'
  <2>1. Moves(c, "checked") \/ Ends(c, "done", "changed", NoRef)
    BY <1>11, Effects
  <2>. QED BY <1>7, <1>11, <2>1 DEF AssertExpectedRecords, Moves, Ends, Paths
<1>12. ASSUME NEW c \in Client, InsertOutbox(c) PROVE Paths'
  <2>1. Others(c) /\ SameCall(c) /\ txn'[c].pc = "positioned"
    BY <1>12, Effects
  <2>. QED BY <1>7, <1>12, <2>1 DEF InsertOutbox, Paths
<1>13. ASSUME NEW c \in Client, ReadAuditTail(c) PROVE Paths'
  <2>1. Others(c) /\ SameCall(c) /\ txn'[c].pc = "written"
    BY <1>13, Effects
  <2>. QED BY <1>7, <1>13, <2>1 DEF ReadAuditTail, Paths
<1>14. ASSUME NEW c \in Client, UpsertRecord(c) PROVE Paths'
  <2>1. Moves(c, "written")
    BY <1>14, Effects
  <2>. QED BY <1>7, <1>14, <2>1 DEF UpsertRecord, Moves
<1>15. ASSUME NEW c \in Client, Commit(c) PROVE Paths'
  <2>1. Ends(c, "done", "committed", txn[c].ref)
    BY <1>15, Effects
  <2>. QED BY <1>7, <1>15, <2>1 DEF Commit, Ends
<1>16. ASSUME NEW c \in Client, Abort(c) PROVE Paths'
  <2>1. Moves(c, "lost")
    BY <1>16, Effects
  <2>. QED BY <1>7, <1>16, <2>1 DEF Abort, Moves
<1>17. ASSUME NEW t \in Tenant, NEW k \in Key, ExpireKey(t, k) PROVE Paths'
  BY <1>17 DEF ExpireKey, Paths
<1>18. CASE UNCHANGED vars
  BY <1>18 DEF vars, Paths
<1>. QED
  BY <1>2, <1>3, <1>4, <1>5, <1>6, <1>8, <1>9, <1>10, <1>11, <1>12, <1>13,
     <1>14, <1>15, <1>16, <1>17, <1>18 DEF Next, Statement

-----------------------------------------------------------------------------
(* Mutual exclusion: a transaction past its lock statement holds the lock. *)

LEMMA LockHeldStep == TypeOK /\ Paths /\ LockHeld /\ [Next]_vars => LockHeld'
<1>. SUFFICES ASSUME TypeOK, Paths, LockHeld, [Next]_vars PROVE LockHeld'
  OBVIOUS
<1>0. \A c \in Client : txn[c].tenant \in Tenant
  BY CallType
<1>1. ASSUME NEW c \in Client, Others(c), ~Holds(txn'[c]), UNCHANGED advisory
       PROVE  LockHeld'
  BY <1>1 DEF Others, LockHeld
<1>2. ASSUME NEW c \in Client, NEW t, NEW k, NEW h, NEW r, NEW op, NEW base,
             Start(c, t, k, h, r, op, base)
      PROVE  LockHeld'
  <2>1. Others(c) /\ txn'[c].pc = "begun"
    BY <1>2, StartEffect DEF Begins
  <2>. QED BY <1>2, <1>1, <2>1 DEF Start, Holds
<1>3. ASSUME NEW c \in Client, NEW t \in Tenant,
             \/ \E k \in Key, h \in Hash, r \in Record : BeginMutation(c, t, k, h, r)
             \/ \E r \in Record : BeginPut(c, t, r)
             \/ BeginAudit(c, t)
      PROVE  LockHeld'
  BY <1>2, <1>3 DEF BeginMutation, BeginPut, BeginAudit
<1>4. ASSUME NEW c \in Client, Retry(c) PROVE LockHeld'
  BY <1>2, <1>4 DEF Retry
<1>5. ASSUME NEW c \in Client, GiveUp(c) \/ Answer(c) PROVE LockHeld'
  <2>1. Others(c) /\ txn'[c] = Idle
    BY <1>5, Effects
  <2>. QED BY <1>5, <1>1, <2>1 DEF GiveUp, Answer, Holds, Idle
<1>6. ASSUME NEW c \in Client, LoseAnswer(c) PROVE LockHeld'
  <2>1. Ends(c, "lost", "none", NoRef)
    BY <1>6, Effects
  <2>. QED BY <1>6, <1>1, <2>1 DEF LoseAnswer, Ends, Holds
(* The lock was free, so nobody else relies on it. *)
<1>7. ASSUME NEW c \in Client, AdvisoryLock(c) PROVE LockHeld'
  <2>1. Moves(c, "locked") /\ advisory[txn[c].tenant] = Nobody
    BY <1>7, Effects DEF AdvisoryLock
  <2>2. advisory' = [advisory EXCEPT ![txn[c].tenant] = c]
    BY <1>7 DEF AdvisoryLock
  <2>3. ASSUME NEW d \in Client, Holds(txn'[d]) PROVE advisory'[txn'[d].tenant] = d
    <3>1. CASE d = c
      BY <1>0, <2>1, <2>2, <3>1 DEF Moves, SameCall, TypeOK
    <3>2. CASE d # c
      <4>1. txn'[d] = txn[d] /\ advisory[txn[d].tenant] = d /\ d # Nobody
        BY <2>1, <2>3, <3>2, StoreAssumption DEF Moves, Others, LockHeld
      <4>. QED BY <1>0, <2>1, <2>2, <4>1 DEF TypeOK
    <3>. QED BY <3>1, <3>2
  <2>. QED BY <2>3 DEF LockHeld
(* A transaction that ends frees only what it holds itself. *)
<1>8. ASSUME NEW c \in Client, Others(c), ~Holds(txn'[c]), Unlock(c) PROVE LockHeld'
  BY <1>0, <1>8, UnlockEffect DEF Others, LockHeld
(* Within its statements a transaction keeps the lock it has. *)
<1>9. ASSUME NEW c \in Client, Others(c), SameCall(c), UNCHANGED advisory,
             Holds(txn'[c]) => Holds(txn[c])
      PROVE  LockHeld'
  BY <1>9 DEF Others, SameCall, LockHeld
<1>10. ASSUME NEW c \in Client, ReserveIdempotency(c) PROVE LockHeld'
  <2>1. CASE Moves(c, "reserved") /\ UNCHANGED advisory
    BY <1>9, <1>10, <2>1 DEF ReserveIdempotency, Moves, SameCall, Holds
  <2>2. CASE \E outcome \in {"replayed", "key_reused"}, got \in Nat :
                Ends(c, "done", outcome, got) /\ Unlock(c)
    BY <1>8, <2>2 DEF Ends, Holds
  <2>. QED BY <1>10, <2>1, <2>2, Effects
<1>11. ASSUME NEW c \in Client, AssertExpectedRecords(c) PROVE LockHeld'
  <2>1. CASE Moves(c, "checked") /\ UNCHANGED advisory
    BY <1>9, <1>11, <2>1 DEF AssertExpectedRecords, Moves, SameCall, Holds, Paths
  <2>2. CASE Ends(c, "done", "changed", NoRef) /\ Unlock(c)
    BY <1>8, <2>2 DEF Ends, Holds
  <2>. QED BY <1>11, <2>1, <2>2, Effects
<1>12. ASSUME NEW c \in Client, InsertOutbox(c) PROVE LockHeld'
  BY <1>9, <1>12, Effects DEF InsertOutbox, SameCall, Holds, Paths
<1>13. ASSUME NEW c \in Client, ReadAuditTail(c) PROVE LockHeld'
  BY <1>9, <1>13, Effects DEF ReadAuditTail, SameCall, Holds
<1>14. ASSUME NEW c \in Client, UpsertRecord(c) PROVE LockHeld'
  BY <1>9, <1>14, Effects DEF UpsertRecord, Moves, SameCall, Holds
<1>15. ASSUME NEW c \in Client, Commit(c) PROVE LockHeld'
  BY <1>8, <1>15, Effects DEF Ends, Holds
<1>16. ASSUME NEW c \in Client, Abort(c) PROVE LockHeld'
  BY <1>8, <1>16, Effects DEF Moves, Holds
<1>17. ASSUME NEW t \in Tenant, NEW k \in Key, ExpireKey(t, k) PROVE LockHeld'
  BY <1>17 DEF ExpireKey, LockHeld
<1>18. CASE UNCHANGED vars
  BY <1>18 DEF vars, LockHeld
<1>. QED
  BY <1>3, <1>5, <1>6, <1>7, <1>10, <1>11, <1>12, <1>13, <1>14, <1>15, <1>16, <1>17, <1>18,
     <1>4 DEF Next, Statement

-----------------------------------------------------------------------------
(* The chain.                                                              *)

(* A row bound to the tail of a chain extends it and is its new tail.      *)
LEMMA BindExtendsChain ==
    ASSUME NEW rows \in SUBSET AuditRow, NEW tail \in AuditRow, NEW ref \in Nat,
           IsTail(rows, tail), IsChain(rows)
    PROVE  /\ IsTail(rows \cup {BindAuditToTail(ref, tail)}, BindAuditToTail(ref, tail))
           /\ IsChain(rows \cup {BindAuditToTail(ref, tail)})
<1>. DEFINE new == BindAuditToTail(ref, tail)
            all == rows \cup {new}
<1>1. /\ new.seq = tail.seq + 1 /\ new.prev = tail.hash
      /\ tail.seq \in Nat /\ \A a \in rows : a.seq \in Nat
  BY DEF BindAuditToTail, AuditRow
<1>2. \A a \in rows : a.seq < new.seq
  BY <1>1 DEF IsTail
<1>3. IsTail(all, new)
  BY <1>1, <1>2 DEF IsTail
<1>4. \A a, b \in all : a.seq = b.seq => a = b
  BY <1>1, <1>2 DEF IsChain
<1>5. /\ new.seq >= 1
      /\ new.seq = 1 => new.prev = NoRef
      /\ new.seq > 1 => \E b \in all : b.seq + 1 = new.seq /\ b.hash = new.prev
  <2>1. CASE rows = {} /\ tail = NoRow
    BY <1>1, <2>1 DEF NoRow
  <2>2. CASE tail \in rows
    <3>1. tail.seq >= 1 /\ tail \in all
      BY <2>2 DEF IsChain
    <3>. QED BY <1>1, <3>1
  <2>. QED BY <2>1, <2>2 DEF IsTail
<1>6. IsChain(all)
  BY <1>4, <1>5 DEF IsChain
<1>. QED BY <1>3, <1>6

LEMMA ReadersHold ==
    ASSUME NEW x, HasRead(x)
    PROVE  Holds(x)
BY DEF HasRead, Holds

LEMMA ChainStep == ChainInv /\ [Next]_vars => HasTail' /\ TailIsCurrent' /\ AuditChain'
<1>. SUFFICES ASSUME ChainInv, [Next]_vars PROVE HasTail' /\ TailIsCurrent' /\ AuditChain'
  OBVIOUS
<1>. USE DEF ChainInv
<1>. DEFINE Goal == HasTail' /\ TailIsCurrent' /\ AuditChain'
<1>1. UNCHANGED audit => HasTail' /\ AuditChain'
  BY DEF HasTail, AuditChain
(* Nobody reads: a call that has read the tail had read it before.         *)
<1>2. ASSUME NEW c \in Client, Others(c), UNCHANGED audit,
             HasRead(txn'[c]) => /\ HasRead(txn[c])
                                 /\ txn'[c].tenant = txn[c].tenant
                                 /\ txn'[c].tail = txn[c].tail
      PROVE  Goal
  <2>1. TailIsCurrent'
    BY <1>2 DEF Others, TailIsCurrent
  <2>. QED BY <1>1, <1>2, <2>1
(* The statement that reads the tail.                                      *)
<1>3. ASSUME NEW c \in Client, Others(c), UNCHANGED audit,
             txn'[c].tenant = txn[c].tenant,
             txn'[c].tail = AuditTail(audit[txn[c].tenant])
      PROVE  Goal
  <2>1. IsTail(audit[txn[c].tenant], AuditTail(audit[txn[c].tenant]))
    BY AuditTailIsTail, CallType DEF HasTail, TypeOK
  <2>2. TailIsCurrent'
    BY <1>3, <2>1 DEF Others, TailIsCurrent
  <2>. QED BY <1>1, <1>3, <2>2
<1>4. ASSUME NEW c \in Client, NEW t, NEW k, NEW h, NEW r, NEW op, NEW base,
             Start(c, t, k, h, r, op, base)
      PROVE  Goal
  <2>1. Others(c) /\ txn'[c].pc = "begun"
    BY <1>4, StartEffect DEF Begins
  <2>. QED BY <1>2, <1>4, <2>1 DEF Start, HasRead
<1>5. ASSUME NEW c \in Client, NEW t \in Tenant,
             \/ \E k \in Key, h \in Hash, r \in Record : BeginMutation(c, t, k, h, r)
             \/ \E r \in Record : BeginPut(c, t, r)
             \/ BeginAudit(c, t)
      PROVE  Goal
  BY <1>4, <1>5 DEF BeginMutation, BeginPut, BeginAudit
<1>6. ASSUME NEW c \in Client, Retry(c) PROVE Goal
  BY <1>4, <1>6 DEF Retry
<1>7. ASSUME NEW c \in Client, GiveUp(c) \/ Answer(c) PROVE Goal
  <2>1. Others(c) /\ txn'[c] = Idle
    BY <1>7, Effects
  <2>. QED BY <1>2, <1>7, <2>1 DEF GiveUp, Answer, HasRead, Idle
<1>8. ASSUME NEW c \in Client, LoseAnswer(c) PROVE Goal
  <2>1. Ends(c, "lost", "none", NoRef)
    BY <1>8, Effects
  <2>. QED BY <1>2, <1>8, <2>1 DEF LoseAnswer, Ends, HasRead
<1>9. ASSUME NEW c \in Client, AdvisoryLock(c) PROVE Goal
  <2>1. Moves(c, "locked")
    BY <1>9, Effects
  <2>. QED BY <1>2, <1>9, <2>1 DEF AdvisoryLock, Moves, HasRead
<1>10. ASSUME NEW c \in Client, ReserveIdempotency(c) PROVE Goal
  <2>1. Others(c) /\ txn'[c].pc \in {"reserved", "done"}
    <3>1. \/ Moves(c, "reserved")
          \/ \E outcome \in {"replayed", "key_reused"}, got \in Nat : Ends(c, "done", outcome, got)
      BY <1>10, Effects
    <3>. QED BY <3>1 DEF Moves, Ends
  <2>. QED BY <1>2, <1>10, <2>1 DEF ReserveIdempotency, HasRead
<1>11. ASSUME NEW c \in Client, AssertExpectedRecords(c) PROVE Goal
  <2>1. Others(c) /\ txn'[c].pc \in {"checked", "done"}
    <3>1. Moves(c, "checked") \/ Ends(c, "done", "changed", NoRef)
      BY <1>11, Effects
    <3>. QED BY <3>1 DEF Moves, Ends
  <2>. QED BY <1>2, <1>11, <2>1 DEF AssertExpectedRecords, HasRead
<1>12. ASSUME NEW c \in Client, InsertOutbox(c) \/ ReadAuditTail(c) PROVE Goal
  <2>1. Others(c) /\ SameCall(c) /\ txn'[c].tail = AuditTail(audit[txn[c].tenant])
    BY <1>12, Effects
  <2>. QED BY <1>3, <1>12, <2>1 DEF InsertOutbox, ReadAuditTail, SameCall
<1>13. ASSUME NEW c \in Client, UpsertRecord(c) PROVE Goal
  <2>1. Moves(c, "written")
    BY <1>13, Effects
  <2>. QED BY <1>2, <1>13, <2>1 DEF UpsertRecord, Moves, SameCall, HasRead
<1>14. ASSUME NEW c \in Client, Commit(c) PROVE Goal
  <2>. DEFINE t == txn[c].tenant
              new == BindAuditToTail(txn[c].ref, txn[c].tail)
  <2>1. Others(c) /\ txn'[c].pc = "done" /\ t \in Tenant /\ txn[c].pc = "written"
    <3>1. Ends(c, "done", "committed", txn[c].ref)
      BY <1>14, Effects
    <3>. QED BY <1>14, <3>1, CallType DEF Commit, Ends
  <2>2. CASE txn[c].op = "put"
    BY <1>2, <1>14, <2>1, <2>2 DEF Commit, HasRead
  <2>3. CASE txn[c].op # "put"
    <3>1. audit' = [audit EXCEPT ![t] = @ \cup {new}]
      BY <1>14, <2>3 DEF Commit
    <3>2. /\ audit'[t] = audit[t] \cup {new} /\ audit[t] \in SUBSET AuditRow
          /\ \A u \in Tenant \ {t} : audit'[u] = audit[u]
      BY <2>1, <3>1 DEF TypeOK
    <3>3. HasRead(txn[c]) /\ IsTail(audit[t], txn[c].tail)
      BY <2>1, <2>3, CallType DEF HasRead, TailIsCurrent, Op
    <3>4. IsTail(audit'[t], new) /\ IsChain(audit'[t])
      <4>1. IsChain(audit[t])
        BY <2>1 DEF AuditChain
      <4>2. txn[c].tail \in AuditRow /\ txn[c].ref \in Nat
        BY CallType
      <4>. QED BY <3>2, <3>3, <4>1, <4>2, BindExtendsChain
    <3>5. HasTail'
      <4>1. new \in audit'[t]
        BY <3>2
      <4>. QED BY <3>2, <3>4, <4>1 DEF HasTail
    <3>6. AuditChain'
      BY <3>2, <3>4 DEF AuditChain
    (* Whoever else has read the tail of this tenant would hold its lock. *)
    <3>7. TailIsCurrent'
      <4>1. ~HasRead(txn'[c])
        BY <2>1 DEF HasRead
      <4>2. ASSUME NEW d \in Client \ {c}, HasRead(txn[d]) PROVE txn[d].tenant # t
        BY <3>3, <4>2, ReadersHold DEF LockHeld
      <4>. QED BY <2>1, <3>2, <4>1, <4>2, CallType DEF Others, TailIsCurrent
    <3>. QED BY <3>5, <3>6, <3>7
  <2>. QED BY <2>2, <2>3
<1>15. ASSUME NEW c \in Client, Abort(c) PROVE Goal
  <2>1. Moves(c, "lost")
    BY <1>15, Effects
  <2>. QED BY <1>2, <1>15, <2>1 DEF Abort, Moves, HasRead
<1>16. ASSUME NEW t \in Tenant, NEW k \in Key, ExpireKey(t, k) PROVE Goal
  BY <1>1, <1>16 DEF ExpireKey, TailIsCurrent
<1>17. CASE UNCHANGED vars
  BY <1>1, <1>17 DEF vars, TailIsCurrent
<1>. QED
  BY <1>5, <1>6, <1>7, <1>8, <1>9, <1>10, <1>11, <1>12, <1>13, <1>14, <1>15, <1>16, <1>17
     DEF Next, Statement

-----------------------------------------------------------------------------
(* Theorems.                                                               *)

LEMMA ChainInit == Init => ChainInv
<1>. SUFFICES ASSUME Init PROVE ChainInv
  OBVIOUS
<1>1. \A c \in Client : txn[c].pc = "idle"
  BY DEF Init, Idle
<1>2. Paths /\ LockHeld /\ TailIsCurrent
  BY <1>1 DEF Paths, LockHeld, TailIsCurrent, Holds, HasRead
<1>3. HasTail /\ AuditChain
  BY DEF Init, HasTail, AuditChain, IsTail, IsChain
<1>. QED BY <1>2, <1>3, InitType DEF ChainInv

(* The inductive invariant: the types, the phases of a transaction, who    *)
(* holds which lock, and that a tail once read stays the tail while the    *)
(* advisory lock is held.                                                  *)
THEOREM ChainInvariant == Spec => []ChainInv
<1>1. ChainInv /\ [Next]_vars => ChainInv'
  BY TypeStep, PathsStep, LockHeldStep, ChainStep DEF ChainInv
<1>. QED BY <1>1, ChainInit, PTL DEF Spec

(* For any number of tenants, clients, keys and records every variable of  *)
(* the store keeps its type, the answered rows and the tails included.     *)
THEOREM TypeCorrect == Spec => []TypeOK
<1>1. ChainInv => TypeOK
  BY DEF ChainInv
<1>. QED BY <1>1, ChainInvariant, PTL

(* commitEventMutation and put of event_audit_evidence, in any number and  *)
(* interleaving, with any failures, leave one gapless hash-linked chain.   *)
THEOREM ChainCorrect == Spec => []AuditChain
<1>1. ChainInv => AuditChain
  BY DEF ChainInv
<1>. QED BY <1>1, ChainInvariant, PTL

-----------------------------------------------------------------------------
(* The inductive invariant, part 2: refs, keys, versions and positions.    *)

(* A call whose ref is on nothing that is committed.                       *)
Fresh(x) ==
    \/ x.pc \in {"begun", "locked", "reserved", "checked", "positioned", "written"}
    \/ x.pc = "done" /\ x.outcome # "committed"

Reserved(x) ==
    x.op = "mutation" /\ x.pc \in {"reserved", "checked", "positioned", "written"}
Checked(x) == x.op = "mutation" /\ x.pc \in {"checked", "positioned", "written"}
Positioned(x) == x.op = "mutation" /\ x.pc \in {"positioned", "written"}

(* uuids are drawn once. *)
RefsAreFresh ==
    /\ \A c \in Client : txn[c].pc # "idle" => txn[c].ref \in 1 .. (nextRef - 1)
    /\ \A c, d \in Client :
          (c # d /\ txn[c].pc # "idle" /\ txn[d].pc # "idle") => txn[c].ref # txn[d].ref
    /\ \A t \in Tenant : \A i \in DOMAIN outbox[t] : outbox[t][i].ref \in 1 .. (nextRef - 1)
    /\ \A c \in Client : Fresh(txn[c]) =>
          \A t \in Tenant : \A i \in DOMAIN outbox[t] : outbox[t][i].ref # txn[c].ref

(* A row of the idempotency table names the entry its answer came from.    *)
KeysNameEntries ==
    \A t \in Tenant, k \in Key : idem[t][k].ref # NoRef =>
        \E i \in DOMAIN outbox[t] :
            /\ outbox[t][i].ref = idem[t][k].ref
            /\ outbox[t][i].key = k
            /\ outbox[t][i].hash = idem[t][k].hash

(* An entry holds its key until the key expires.                           *)
EntriesAreKeyed ==
    \A t \in Tenant : \A i \in DOMAIN outbox[t] :
        \/ outbox[t][i].ref \in expired[t]
        \/ idem[t][outbox[t][i].key].ref = outbox[t][i].ref

(* A reservation stays good until the commit.                              *)
KeyIsReserved == \A c \in Client :
    /\ txn[c].stale \in expired[txn[c].tenant] \cup {NoRef}
    /\ Reserved(txn[c]) => CanReserve(idem[txn[c].tenant][txn[c].key], txn[c].stale)

(* So does a comparison of the record, if only mutations write it.         *)
RecordIsExpected == \A c \in Client :
    (Checked(txn[c]) /\ txn[c].rec \notin PutRecord) =>
        records[txn[c].tenant][txn[c].rec].ver = txn[c].base

VersionsAreLedger == \A t \in Tenant, r \in Record \ PutRecord :
    Ledger!VersionsOf(t, r) = 1 .. records[t][r].ver

(* Positions are drawn and committed under one lock, so in one order.      *)
PositionsGrow ==
    /\ \A t \in Tenant : \A i \in DOMAIN outbox[t] : outbox[t][i].pos < nextOutbox
    /\ \A c \in Client : Positioned(txn[c]) =>
          /\ txn[c].pos \in 1 .. (nextOutbox - 1)
          /\ \A i \in DOMAIN outbox[txn[c].tenant] :
                outbox[txn[c].tenant][i].pos < txn[c].pos

CommitInv ==
    /\ ChainInv /\ RefsAreFresh /\ KeysNameEntries /\ EntriesAreKeyed
    /\ KeyIsReserved /\ RecordIsExpected /\ VersionsAreLedger /\ PositionsGrow
    /\ OneTransaction /\ AnswersAreDurable

-----------------------------------------------------------------------------
(* The steps, by what they may do to the committed state.                  *)

(* A statement before the commit, an abort or a lost answer.               *)
Quiet(c) ==
    LET t == txn[c].tenant
        row == idem[t][txn[c].key]
    IN
    /\ Others(c) /\ SameCall(c)
    /\ UNCHANGED <<records, audit, outbox, idem, expired, nextRef>>
    /\ nextOutbox' >= nextOutbox
    /\ txn[c].pc # "idle"
    /\ Fresh(txn'[c]) => Fresh(txn[c])
    /\ Reserved(txn'[c]) => Reserved(txn[c]) \/ CanReserve(row, txn[c].stale)
    /\ Checked(txn'[c]) => Checked(txn[c]) \/ records[t][txn[c].rec].ver = txn[c].base
    /\ Positioned(txn'[c]) => \/ Positioned(txn[c]) /\ txn'[c].pos = txn[c].pos
                              \/ txn'[c].pos = nextOutbox /\ nextOutbox' = nextOutbox + 1
    /\ txn'[c].pc = "done" =>
          \/ txn'[c].outcome \in {"key_reused", "changed"}
          \/ /\ txn'[c].outcome = "replayed" /\ txn'[c].got = row.ref
             /\ row.ref # NoRef /\ row.hash = txn[c].hash

LEMMA QuietSteps ==
    ASSUME TypeOK, Paths, NEW c \in Client,
           \/ AdvisoryLock(c) \/ ReserveIdempotency(c) \/ AssertExpectedRecords(c)
           \/ InsertOutbox(c) \/ ReadAuditTail(c) \/ UpsertRecord(c)
           \/ Abort(c) \/ LoseAnswer(c)
    PROVE  Quiet(c)
<1>. USE DEF Fresh, Reserved, Checked, Positioned
<1>0. nextOutbox \in Nat
  BY DEF TypeOK
<1>1. CASE AdvisoryLock(c)
  <2>1. Moves(c, "locked")
    BY <1>1, Effects
  <2>. QED BY <1>0, <1>1, <2>1 DEF AdvisoryLock, Moves, SameCall, Quiet
<1>2. CASE ReserveIdempotency(c)
  <2>. DEFINE row == idem[txn[c].tenant][txn[c].key]
  <2>0. UNCHANGED <<records, audit, outbox, idem, expired, nextOutbox, nextRef>>
    BY <1>2 DEF ReserveIdempotency
  <2>1. txn[c].pc = "locked" /\ txn[c].op = "mutation"
    BY <1>2 DEF ReserveIdempotency
  <2>2. CASE CanReserve(row, txn[c].stale)
    <3>1. Moves(c, "reserved")
      BY <1>2, <2>2, MoveEffect DEF ReserveIdempotency
    <3>. QED BY <1>0, <2>0, <2>1, <2>2, <3>1 DEF Moves, SameCall, Quiet
  <2>3. CASE ~CanReserve(row, txn[c].stale) /\ row.hash = txn[c].hash
    <3>1. Ends(c, "done", "replayed", row.ref)
      BY <1>2, <2>3, EndEffect DEF ReserveIdempotency, Finish
    <3>2. row.ref # NoRef
      BY <2>3 DEF CanReserve
    <3>. QED BY <1>0, <2>0, <2>1, <2>3, <3>1, <3>2 DEF Ends, SameCall, Quiet
  <2>4. CASE ~CanReserve(row, txn[c].stale) /\ row.hash # txn[c].hash
    <3>1. Ends(c, "done", "key_reused", NoRef)
      BY <1>2, <2>4, EndEffect DEF ReserveIdempotency, Finish
    <3>. QED BY <1>0, <2>0, <2>1, <3>1 DEF Ends, SameCall, Quiet
  <2>. QED BY <2>2, <2>3, <2>4
<1>3. CASE AssertExpectedRecords(c)
  <2>0. /\ UNCHANGED <<records, audit, outbox, idem, expired, nextOutbox, nextRef>>
        /\ txn[c].pc = "reserved" /\ txn[c].op = "mutation"
    BY <1>3 DEF AssertExpectedRecords, Paths
  <2>1. CASE records[txn[c].tenant][txn[c].rec].ver = txn[c].base
    <3>1. Moves(c, "checked")
      BY <1>3, <2>1, MoveEffect DEF AssertExpectedRecords
    <3>. QED BY <1>0, <2>0, <2>1, <3>1 DEF Moves, SameCall, Quiet
  <2>2. CASE records[txn[c].tenant][txn[c].rec].ver # txn[c].base
    <3>1. Ends(c, "done", "changed", NoRef)
      BY <1>3, <2>2, EndEffect DEF AssertExpectedRecords, Finish
    <3>. QED BY <1>0, <2>0, <3>1 DEF Ends, SameCall, Quiet
  <2>. QED BY <2>1, <2>2
<1>4. CASE InsertOutbox(c)
  <2>1. Others(c) /\ SameCall(c) /\ txn'[c].pc = "positioned" /\ txn'[c].pos = nextOutbox
    BY <1>4, Effects
  <2>. QED BY <1>0, <1>4, <2>1 DEF InsertOutbox, SameCall, Quiet, Paths
<1>5. CASE ReadAuditTail(c)
  <2>1. Others(c) /\ SameCall(c) /\ txn'[c].pc = "written"
    BY <1>5, Effects
  <2>. QED BY <1>0, <1>5, <2>1 DEF ReadAuditTail, SameCall, Quiet
<1>6. CASE UpsertRecord(c)
  <2>1. Moves(c, "written")
    BY <1>6, Effects
  <2>. QED BY <1>0, <1>6, <2>1 DEF UpsertRecord, Moves, SameCall, Quiet
<1>7. CASE Abort(c)
  <2>1. Moves(c, "lost")
    BY <1>7, Effects
  <2>. QED BY <1>0, <1>7, <2>1 DEF Abort, Moves, SameCall, Quiet
<1>8. CASE LoseAnswer(c)
  <2>1. Ends(c, "lost", "none", NoRef)
    BY <1>8, Effects
  <2>. QED BY <1>0, <1>8, <2>1 DEF LoseAnswer, Ends, SameCall, Quiet
<1>. QED BY <1>1, <1>2, <1>3, <1>4, <1>5, <1>6, <1>7, <1>8

(* The committed state is written by commits only; expired keys stay so.   *)
LEMMA Kinds ==
    ASSUME TypeOK, Paths, [Next]_vars
    PROVE  \/ \E c \in Client, t \in Tenant, k \in Key, h \in Hash, r \in Record,
                 op \in Op, base \in Nat : Start(c, t, k, h, r, op, base)
           \/ \E c \in Client :
                 /\ Others(c) /\ txn'[c] = Idle
                 /\ UNCHANGED <<records, audit, outbox, idem, expired, nextOutbox, nextRef>>
           \/ \E c \in Client : Quiet(c)
           \/ \E c \in Client : Commit(c)
           \/ \E t \in Tenant, k \in Key : ExpireKey(t, k)
           \/ UNCHANGED vars
<1>. DEFINE Begun == \E c \in Client, t \in Tenant, k \in Key, h \in Hash, r \in Record,
                        op \in Op, base \in Nat : Start(c, t, k, h, r, op, base)
<1>0. /\ Idle.key \in Key /\ Idle.hash \in Hash /\ Idle.rec \in Record /\ 0 \in Nat
      /\ \A t \in Tenant, r \in Record : records[t][r].ver \in Nat
      /\ {"mutation", "put", "audit"} \subseteq Op
  BY IdleType DEF Transaction, TypeOK, Content, Op
<1>1. ASSUME NEW c \in Client, NEW t \in Tenant,
             \/ \E k \in Key, h \in Hash, r \in Record : BeginMutation(c, t, k, h, r)
             \/ \E r \in Record : BeginPut(c, t, r)
             \/ BeginAudit(c, t)
      PROVE  Begun
  BY <1>0, <1>1 DEF BeginMutation, BeginPut, BeginAudit
<1>2. ASSUME NEW c \in Client, Retry(c) PROVE Begun
  <2>1. PICK base \in {txn[c].base, records[txn[c].tenant][txn[c].rec].ver} :
           Start(c, txn[c].tenant, txn[c].key, txn[c].hash, txn[c].rec, "mutation", base)
    BY <1>2 DEF Retry
  <2>2. base \in Nat
    BY <1>0, CallType
  <2>. QED BY <1>0, <2>1, <2>2, CallType
<1>3. ASSUME NEW c \in Client, GiveUp(c) \/ Answer(c)
      PROVE  /\ Others(c) /\ txn'[c] = Idle
             /\ UNCHANGED <<records, audit, outbox, idem, expired, nextOutbox, nextRef>>
  <2>1. Others(c) /\ txn'[c] = Idle
    BY <1>3, Effects
  <2>. QED BY <1>3, <2>1 DEF GiveUp, Answer
<1>. QED BY <1>1, <1>2, <1>3, QuietSteps DEF Next, Statement

-----------------------------------------------------------------------------
(* What a commit writes.                                                   *)

LEMMA AppendRow ==
    ASSUME NEW S, NEW rows \in Seq(S), NEW row \in S
    PROVE  LET n == Len(rows) + 1
               all == Append(rows, row)
           IN  /\ n \in Nat /\ n \notin DOMAIN rows
               /\ DOMAIN all = DOMAIN rows \cup {n} /\ Len(all) = n
               /\ \A i \in DOMAIN rows : all[i] = rows[i] /\ i < n
               /\ all[n] = row
OBVIOUS

LEMMA OutboxRows ==
    ASSUME TypeOK, NEW t \in Tenant
    PROVE  /\ outbox[t] \in Seq(OutboxRow)
           /\ \A i \in DOMAIN outbox[t] :
                 /\ outbox[t][i] \in OutboxRow
                 /\ outbox[t][i].pos \in Nat /\ outbox[t][i].ver \in Nat
                 /\ outbox[t][i].key \in Key /\ outbox[t][i].rec \in Record
<1>1. outbox[t] \in Seq(OutboxRow)
  BY DEF TypeOK
<1>2. ASSUME NEW i \in DOMAIN outbox[t] PROVE outbox[t][i] \in OutboxRow
  BY <1>1, <1>2, LenProperties, ElementOfSeq
<1>. QED BY <1>1, <1>2 DEF OutboxRow

LEMMA PutCommit ==
    ASSUME TypeOK, NEW c \in Client, Commit(c), txn[c].op # "mutation"
    PROVE  /\ UNCHANGED <<outbox, idem>>
           /\ txn[c].op = "audit" => UNCHANGED records
           /\ txn[c].op = "put" =>
                \A u \in Tenant : \A r \in Record \ {txn[c].rec} : records'[u][r] = records[u][r]
<1>1. UNCHANGED <<outbox, idem>>
  BY DEF Commit
<1>2. txn[c].op = "audit" => UNCHANGED records
  BY DEF Commit
<1>3. ASSUME txn[c].op = "put", NEW u \in Tenant, NEW r \in Record \ {txn[c].rec}
      PROVE  records'[u][r] = records[u][r]
  <2>1. records' = [records EXCEPT ![txn[c].tenant][txn[c].rec] = NewContent(c)]
    BY <1>3 DEF Commit
  <2>. QED BY <1>3, <2>1 DEF TypeOK
<1>. QED BY <1>1, <1>2, <1>3

LEMMA MutationCommit ==
    ASSUME TypeOK, NEW c \in Client, Commit(c), txn[c].op = "mutation"
    PROVE  LET t == txn[c].tenant
               n == Len(outbox[t]) + 1
           IN
           /\ outbox' = [outbox EXCEPT ![t] = Append(@, NewOutboxRow(c))]
           /\ outbox'[t] = Append(outbox[t], NewOutboxRow(c))
           /\ n \in Nat /\ n \notin DOMAIN outbox[t]
           /\ DOMAIN outbox'[t] = DOMAIN outbox[t] \cup {n} /\ Len(outbox'[t]) = n
           /\ \A i \in DOMAIN outbox[t] : outbox'[t][i] = outbox[t][i] /\ i < n
           /\ outbox'[t][n] = NewOutboxRow(c)
           /\ idem'[t][txn[c].key] = [hash |-> txn[c].hash, ref |-> txn[c].ref]
           /\ \A k \in Key \ {txn[c].key} : idem'[t][k] = idem[t][k]
           /\ records'[t][txn[c].rec] = NewContent(c)
           /\ \A r \in Record \ {txn[c].rec} : records'[t][r] = records[t][r]
           /\ audit'[t] = audit[t] \cup {BindAuditToTail(txn[c].ref, txn[c].tail)}
           /\ \A u \in Tenant \ {t} :
                 /\ outbox'[u] = outbox[u] /\ idem'[u] = idem[u]
                 /\ records'[u] = records[u] /\ audit'[u] = audit[u]
<1>. DEFINE t == txn[c].tenant
<1>0. t \in Tenant /\ txn[c].key \in Key /\ txn[c].rec \in Record
  BY CallType
<1>1. /\ outbox' = [outbox EXCEPT ![t] = Append(@, NewOutboxRow(c))]
      /\ idem' = [idem EXCEPT ![t][txn[c].key] = [hash |-> txn[c].hash, ref |-> txn[c].ref]]
      /\ records' = [records EXCEPT ![t][txn[c].rec] = NewContent(c)]
      /\ audit' = [audit EXCEPT ![t] = @ \cup {BindAuditToTail(txn[c].ref, txn[c].tail)}]
  BY DEF Commit
<1>2. outbox \in [Tenant -> Seq(OutboxRow)] /\ NewOutboxRow(c) \in OutboxRow
  <2>1. NewOutboxRow(c) \in OutboxRow
    BY CallType DEF NewOutboxRow, OutboxRow
  <2>. QED BY <2>1 DEF TypeOK
<1>3. outbox'[t] = Append(outbox[t], NewOutboxRow(c)) /\ outbox[t] \in Seq(OutboxRow)
  BY <1>0, <1>1, <1>2
<1>4. LET n == Len(outbox[t]) + 1
      IN  /\ n \in Nat /\ n \notin DOMAIN outbox[t]
          /\ DOMAIN outbox'[t] = DOMAIN outbox[t] \cup {n} /\ Len(outbox'[t]) = n
          /\ \A i \in DOMAIN outbox[t] : outbox'[t][i] = outbox[t][i] /\ i < n
          /\ outbox'[t][n] = NewOutboxRow(c)
  BY <1>2, <1>3, AppendRow
<1>5. /\ idem'[t][txn[c].key] = [hash |-> txn[c].hash, ref |-> txn[c].ref]
      /\ \A k \in Key \ {txn[c].key} : idem'[t][k] = idem[t][k]
  BY <1>0, <1>1 DEF TypeOK
<1>6. /\ records'[t][txn[c].rec] = NewContent(c)
      /\ \A r \in Record \ {txn[c].rec} : records'[t][r] = records[t][r]
  BY <1>0, <1>1 DEF TypeOK
<1>7. audit'[t] = audit[t] \cup {BindAuditToTail(txn[c].ref, txn[c].tail)}
  BY <1>0, <1>1 DEF TypeOK
<1>8. \A u \in Tenant \ {t} :
         /\ outbox'[u] = outbox[u] /\ idem'[u] = idem[u]
         /\ records'[u] = records[u] /\ audit'[u] = audit[u]
  BY <1>0, <1>1 DEF TypeOK
<1>. QED BY <1>1, <1>3, <1>4, <1>5, <1>6, <1>7, <1>8

(* After a commit nobody else of the tenant has anything reserved: it      *)
(* would hold the tenant's lock.                                           *)
LEMMA CommitAlone ==
    ASSUME ChainInv, NEW c \in Client, Commit(c), txn[c].op = "mutation",
           NEW d \in Client \ {c}, Reserved(txn[d])
    PROVE  txn[d].tenant # txn[c].tenant
BY DEF ChainInv, LockHeld, Holds, Commit, Reserved

(* The committing call's reservation and comparison are still good.        *)
LEMMA CommitIsReserved ==
    ASSUME CommitInv, NEW c \in Client, Commit(c), txn[c].op = "mutation"
    PROVE  /\ Fresh(txn[c]) /\ Reserved(txn[c]) /\ Checked(txn[c]) /\ Positioned(txn[c])
           /\ \A i \in DOMAIN outbox[txn[c].tenant] :
                 outbox[txn[c].tenant][i].key = txn[c].key =>
                    outbox[txn[c].tenant][i].ref \in expired[txn[c].tenant]
<1>. DEFINE t == txn[c].tenant
<1>1. Fresh(txn[c]) /\ Reserved(txn[c]) /\ Checked(txn[c]) /\ Positioned(txn[c])
  BY DEF Commit, Fresh, Reserved, Checked, Positioned
<1>2. idem[t][txn[c].key].ref \in expired[t] \cup {NoRef}
  BY <1>1 DEF CommitInv, KeyIsReserved, CanReserve
<1>3. ASSUME NEW i \in DOMAIN outbox[t], outbox[t][i].key = txn[c].key
      PROVE  outbox[t][i].ref \in expired[t]
  <2>0. t \in Tenant
    BY CallType DEF CommitInv, ChainInv
  <2>1. outbox[t][i].ref \in expired[t] \/ idem[t][txn[c].key].ref = outbox[t][i].ref
    BY <1>3, <2>0 DEF CommitInv, EntriesAreKeyed
  <2>2. outbox[t][i].ref # NoRef
    BY <2>0 DEF CommitInv, RefsAreFresh, NoRef
  <2>. QED BY <1>2, <2>1, <2>2
<1>. QED BY <1>1, <1>3

-----------------------------------------------------------------------------
(* The parts of the invariant that follow the calls in flight.             *)

LEMMA RefsStep == CommitInv /\ [Next]_vars => RefsAreFresh'
<1>. SUFFICES ASSUME CommitInv, [Next]_vars PROVE RefsAreFresh'
  OBVIOUS
<1>0. TypeOK /\ Paths /\ RefsAreFresh /\ nextRef \in Nat
  BY DEF CommitInv, ChainInv, TypeOK
<1>1. ASSUME NEW c \in Client, NEW t, NEW k, NEW h, NEW r, NEW op, NEW base,
             Start(c, t, k, h, r, op, base)
      PROVE  RefsAreFresh'
  <2>1. Others(c) /\ txn'[c].ref = nextRef /\ nextRef' = nextRef + 1 /\ UNCHANGED outbox
    BY <1>0, <1>1, StartEffect DEF Begins, Start
  <2>2. nextRef \in Nat \ {0}
    BY <1>0 DEF TypeOK
  <2>3. \A d \in Client : txn'[d].pc # "idle" => txn'[d].ref \in 1 .. (nextRef' - 1)
    BY <1>0, <2>1, <2>2 DEF Others, RefsAreFresh
  <2>4. \A d, e \in Client : (d # e /\ txn'[d].pc # "idle" /\ txn'[e].pc # "idle")
           => txn'[d].ref # txn'[e].ref
    BY <1>0, <2>1, <2>2 DEF Others, RefsAreFresh
  <2>5. \A u \in Tenant : \A i \in DOMAIN outbox[u] : outbox[u][i].ref \in 1 .. (nextRef' - 1)
    BY <1>0, <2>1, <2>2 DEF RefsAreFresh
  <2>6. ASSUME NEW d \in Client, Fresh(txn'[d])
        PROVE  \A u \in Tenant : \A i \in DOMAIN outbox[u] : outbox[u][i].ref # txn'[d].ref
    BY <1>0, <2>1, <2>2, <2>6 DEF Others, RefsAreFresh
  <2>. QED BY <2>1, <2>3, <2>4, <2>5, <2>6 DEF RefsAreFresh
<1>2. ASSUME NEW c \in Client, Others(c), txn'[c] = Idle, UNCHANGED <<outbox, nextRef>>
      PROVE  RefsAreFresh'
  <2>1. txn'[c].pc = "idle" /\ ~Fresh(txn'[c])
    BY <1>2 DEF Idle, Fresh
  <2>. QED BY <1>0, <1>2, <2>1 DEF Others, RefsAreFresh
<1>3. ASSUME NEW c \in Client, Quiet(c) PROVE RefsAreFresh'
  <2>1. /\ Others(c) /\ txn'[c].ref = txn[c].ref /\ txn[c].pc # "idle"
        /\ Fresh(txn'[c]) => Fresh(txn[c])
        /\ UNCHANGED <<outbox, nextRef>>
    BY <1>3 DEF Quiet, SameCall
  <2>. QED BY <1>0, <2>1 DEF Others, RefsAreFresh
<1>4. ASSUME NEW c \in Client, Commit(c) PROVE RefsAreFresh'
  <2>1. /\ Others(c) /\ txn'[c].ref = txn[c].ref /\ txn[c].pc # "idle" /\ Fresh(txn[c])
        /\ ~Fresh(txn'[c]) /\ UNCHANGED nextRef
    <3>1. Ends(c, "done", "committed", txn[c].ref)
      BY <1>0, <1>4, Effects
    <3>. QED BY <1>4, <3>1 DEF Commit, Ends, SameCall, Fresh
  <2>2. CASE txn[c].op # "mutation"
    <3>1. UNCHANGED outbox
      BY <1>0, <1>4, <2>2, PutCommit
    <3>. QED BY <1>0, <2>1, <3>1 DEF Others, RefsAreFresh
  <2>3. CASE txn[c].op = "mutation"
    <3>1. \A u \in Tenant : \A i \in DOMAIN outbox'[u] :
             \/ i \in DOMAIN outbox[u] /\ outbox'[u][i] = outbox[u][i]
             \/ outbox'[u][i].ref = txn[c].ref
      <4>. DEFINE t == txn[c].tenant
                  n == Len(outbox[t]) + 1
      <4>1. NewOutboxRow(c).ref = txn[c].ref
        BY DEF NewOutboxRow
      <4>2. /\ DOMAIN outbox'[t] = DOMAIN outbox[t] \cup {n}
            /\ \A i \in DOMAIN outbox[t] : outbox'[t][i] = outbox[t][i]
            /\ outbox'[t][n] = NewOutboxRow(c)
            /\ \A u \in Tenant \ {t} : outbox'[u] = outbox[u]
        BY <1>0, <1>4, <2>3, MutationCommit
      <4>. QED BY <4>1, <4>2
    <3>2. \A d \in Client \ {c} : Fresh(txn[d]) => txn[d].ref # txn[c].ref
      BY <1>0, <2>1 DEF RefsAreFresh, Fresh
    <3>3. ASSUME NEW d \in Client, Fresh(txn'[d])
          PROVE  \A u \in Tenant : \A i \in DOMAIN outbox'[u] : outbox'[u][i].ref # txn'[d].ref
      <4>1. d # c /\ txn'[d] = txn[d]
        BY <2>1, <3>3 DEF Others
      <4>. QED BY <1>0, <3>1, <3>2, <3>3, <4>1 DEF RefsAreFresh
    <3>4. \A u \in Tenant : \A i \in DOMAIN outbox'[u] : outbox'[u][i].ref \in 1 .. (nextRef' - 1)
      BY <1>0, <2>1, <3>1 DEF RefsAreFresh
    <3>5. /\ \A d \in Client : txn'[d].pc # "idle" => txn'[d].ref \in 1 .. (nextRef' - 1)
          /\ \A d, e \in Client : (d # e /\ txn'[d].pc # "idle" /\ txn'[e].pc # "idle")
                => txn'[d].ref # txn'[e].ref
      BY <1>0, <2>1 DEF Others, RefsAreFresh
    <3>. QED BY <3>3, <3>4, <3>5 DEF RefsAreFresh
  <2>. QED BY <2>2, <2>3
<1>5. ASSUME NEW t \in Tenant, NEW k \in Key, ExpireKey(t, k) PROVE RefsAreFresh'
  BY <1>0, <1>5 DEF ExpireKey, RefsAreFresh
<1>6. CASE UNCHANGED vars
  BY <1>0, <1>6 DEF vars, RefsAreFresh
<1>. QED BY <1>0, <1>1, <1>2, <1>3, <1>4, <1>5, <1>6, Kinds

LEMMA ReservedStep == CommitInv /\ [Next]_vars => KeyIsReserved'
<1>. SUFFICES ASSUME CommitInv, [Next]_vars PROVE KeyIsReserved'
  OBVIOUS
<1>0. TypeOK /\ Paths /\ KeyIsReserved
  BY DEF CommitInv, ChainInv
<1>1. ASSUME NEW c \in Client, NEW t \in Tenant, NEW k \in Key, NEW h, NEW r, NEW op,
             NEW base, Start(c, t, k, h, r, op, base)
      PROVE  KeyIsReserved'
  <2>1. /\ Others(c) /\ txn'[c].stale = StaleRefOf(t, k) /\ txn'[c].tenant = t
        /\ ~Reserved(txn'[c]) /\ UNCHANGED <<idem, expired>>
    <3>1. Begins(c, t, k, h, r, op, base)
      BY <1>0, <1>1, StartEffect
    <3>. QED BY <1>1, <3>1 DEF Begins, Start, Reserved
  <2>2. StaleRefOf(t, k) \in expired[t] \cup {NoRef}
    BY DEF StaleRefOf
  <2>. QED BY <1>0, <2>1, <2>2 DEF Others, KeyIsReserved
<1>2. ASSUME NEW c \in Client, Others(c), txn'[c] = Idle, UNCHANGED <<idem, expired>>
      PROVE  KeyIsReserved'
  <2>1. ~Reserved(txn'[c]) /\ txn'[c].stale = NoRef
    BY <1>2 DEF Idle, Reserved
  <2>. QED BY <1>0, <1>2, <2>1 DEF Others, KeyIsReserved
<1>3. ASSUME NEW c \in Client, Quiet(c) PROVE KeyIsReserved'
  <2>. DEFINE row == idem[txn[c].tenant][txn[c].key]
  <2>1. /\ Others(c) /\ SameCall(c) /\ UNCHANGED <<idem, expired>>
        /\ Reserved(txn'[c]) => Reserved(txn[c]) \/ CanReserve(row, txn[c].stale)
    BY <1>3 DEF Quiet
  <2>. QED BY <1>0, <2>1 DEF Others, SameCall, KeyIsReserved
<1>4. ASSUME NEW c \in Client, Commit(c) PROVE KeyIsReserved'
  <2>1. Others(c) /\ SameCall(c) /\ ~Reserved(txn'[c]) /\ UNCHANGED expired
    <3>1. Ends(c, "done", "committed", txn[c].ref)
      BY <1>0, <1>4, Effects
    <3>. QED BY <1>4, <3>1 DEF Commit, Ends, Reserved
  <2>2. CASE txn[c].op # "mutation"
    <3>1. UNCHANGED idem
      BY <1>0, <1>4, <2>2, PutCommit
    <3>. QED BY <1>0, <2>1, <3>1 DEF Others, SameCall, KeyIsReserved
  <2>3. CASE txn[c].op = "mutation"
    <3>1. ASSUME NEW d \in Client \ {c}, Reserved(txn[d])
          PROVE  CanReserve(idem'[txn[d].tenant][txn[d].key], txn[d].stale)
      <4>1. txn[d].tenant \in Tenant \ {txn[c].tenant}
        BY <1>0, <1>4, <2>3, <3>1, CommitAlone, CallType DEF CommitInv
      <4>2. idem'[txn[d].tenant] = idem[txn[d].tenant]
        BY <1>0, <1>4, <2>3, <4>1, MutationCommit
      <4>. QED BY <1>0, <3>1, <4>2 DEF KeyIsReserved
    <3>. QED BY <1>0, <2>1, <3>1 DEF Others, SameCall, KeyIsReserved
  <2>. QED BY <2>2, <2>3
<1>5. ASSUME NEW t \in Tenant, NEW k \in Key, ExpireKey(t, k) PROVE KeyIsReserved'
  <2>1. UNCHANGED <<idem, txn>> /\ \A u \in Tenant : expired[u] \subseteq expired'[u]
    BY <1>0, <1>5 DEF ExpireKey, TypeOK
  <2>2. \A d \in Client : txn[d].tenant \in Tenant
    BY <1>0, CallType
  <2>. QED BY <1>0, <2>1, <2>2 DEF KeyIsReserved
<1>6. CASE UNCHANGED vars
  BY <1>0, <1>6 DEF vars, KeyIsReserved
<1>. QED BY <1>0, <1>1, <1>2, <1>3, <1>4, <1>5, <1>6, Kinds

LEMMA ExpectedStep == CommitInv /\ [Next]_vars => RecordIsExpected'
<1>. SUFFICES ASSUME CommitInv, [Next]_vars PROVE RecordIsExpected'
  OBVIOUS
<1>0. TypeOK /\ Paths /\ RecordIsExpected
  BY DEF CommitInv, ChainInv
<1>1. ASSUME NEW c \in Client, Others(c), ~Checked(txn'[c]), UNCHANGED records
      PROVE  RecordIsExpected'
  BY <1>0, <1>1 DEF Others, RecordIsExpected
<1>2. ASSUME NEW c \in Client, NEW t, NEW k, NEW h, NEW r, NEW op, NEW base,
             Start(c, t, k, h, r, op, base)
      PROVE  RecordIsExpected'
  <2>1. Others(c) /\ ~Checked(txn'[c]) /\ UNCHANGED records
    BY <1>0, <1>2, StartEffect DEF Begins, Start, Checked
  <2>. QED BY <1>1, <2>1
<1>3. ASSUME NEW c \in Client, Others(c), txn'[c] = Idle, UNCHANGED records
      PROVE  RecordIsExpected'
  BY <1>1, <1>3 DEF Idle, Checked
<1>4. ASSUME NEW c \in Client, Quiet(c) PROVE RecordIsExpected'
  <2>1. /\ Others(c) /\ SameCall(c) /\ UNCHANGED records
        /\ Checked(txn'[c]) => \/ Checked(txn[c])
                               \/ records[txn[c].tenant][txn[c].rec].ver = txn[c].base
    BY <1>4 DEF Quiet
  <2>. QED BY <1>0, <2>1 DEF Others, SameCall, RecordIsExpected
<1>5. ASSUME NEW c \in Client, Commit(c) PROVE RecordIsExpected'
  <2>1. Others(c) /\ ~Checked(txn'[c])
    <3>1. Ends(c, "done", "committed", txn[c].ref)
      BY <1>0, <1>5, Effects
    <3>. QED BY <3>1 DEF Ends, Checked
  <2>2. ASSUME NEW d \in Client \ {c}, Checked(txn[d]), txn[d].rec \notin PutRecord
        PROVE  records'[txn[d].tenant][txn[d].rec] = records[txn[d].tenant][txn[d].rec]
    <3>0. txn[d].tenant \in Tenant /\ txn[d].rec \in Record
      BY <1>0, CallType
    <3>1. CASE txn[c].op = "mutation"
      <4>1. txn[d].tenant # txn[c].tenant
        BY <1>5, <2>2, <3>1, CommitAlone DEF CommitInv, Checked, Reserved
      <4>2. \A u \in Tenant \ {txn[c].tenant} : records'[u] = records[u]
        BY <1>0, <1>5, <3>1, MutationCommit
      <4>. QED BY <3>0, <4>1, <4>2
    <3>2. CASE txn[c].op # "mutation"
      <4>1. txn[c].op = "put" => txn[c].rec # txn[d].rec
        BY <1>0, <1>5, <2>2 DEF Paths, Commit
      <4>2. txn[c].op \in {"put", "audit"}
        BY <1>0, <3>2, CallType DEF Op
      <4>. QED BY <1>0, <1>5, <3>0, <3>2, <4>1, <4>2, PutCommit
    <3>. QED BY <3>1, <3>2
  <2>. QED BY <1>0, <2>1, <2>2 DEF Others, RecordIsExpected
<1>6. ASSUME NEW t \in Tenant, NEW k \in Key, ExpireKey(t, k) PROVE RecordIsExpected'
  BY <1>0, <1>6 DEF ExpireKey, RecordIsExpected
<1>7. CASE UNCHANGED vars
  BY <1>0, <1>7 DEF vars, RecordIsExpected
<1>. QED BY <1>0, <1>2, <1>3, <1>4, <1>5, <1>6, <1>7, Kinds

LEMMA PositionsStep == CommitInv /\ [Next]_vars => PositionsGrow'
<1>. SUFFICES ASSUME CommitInv, [Next]_vars PROVE PositionsGrow'
  OBVIOUS
<1>0. TypeOK /\ Paths /\ PositionsGrow /\ nextOutbox \in Nat
  BY DEF CommitInv, ChainInv, TypeOK
<1>1. ASSUME NEW c \in Client, Others(c), ~Positioned(txn'[c]), UNCHANGED <<outbox, nextOutbox>>
      PROVE  PositionsGrow'
  BY <1>0, <1>1 DEF Others, PositionsGrow
<1>2. ASSUME NEW c \in Client, NEW t, NEW k, NEW h, NEW r, NEW op, NEW base,
             Start(c, t, k, h, r, op, base)
      PROVE  PositionsGrow'
  <2>1. Begins(c, t, k, h, r, op, base)
    BY <1>0, <1>2, StartEffect
  <2>. QED BY <1>1, <1>2, <2>1 DEF Begins, Start, Positioned
<1>3. ASSUME NEW c \in Client, Others(c), txn'[c] = Idle, UNCHANGED <<outbox, nextOutbox>>
      PROVE  PositionsGrow'
  BY <1>1, <1>3 DEF Idle, Positioned
<1>4. ASSUME NEW c \in Client, Quiet(c) PROVE PositionsGrow'
  <2>1. /\ Others(c) /\ txn'[c].tenant = txn[c].tenant /\ UNCHANGED outbox
        /\ nextOutbox' >= nextOutbox /\ nextOutbox' \in Nat
        /\ Positioned(txn'[c]) => \/ Positioned(txn[c]) /\ txn'[c].pos = txn[c].pos
                                  \/ txn'[c].pos = nextOutbox /\ nextOutbox' = nextOutbox + 1
        /\ txn[c].tenant \in Tenant /\ nextOutbox >= 1
    <3>1. nextOutbox' \in Nat
      BY <1>0, TypeStep DEF CommitInv, ChainInv, TypeOK
    <3>. QED BY <1>0, <1>4, <3>1, CallType DEF Quiet, SameCall, TypeOK
  <2>2. \A d \in Client \ {c} : txn'[d] = txn[d]
    BY <2>1 DEF Others
  <2>3. \A t \in Tenant : \A i \in DOMAIN outbox[t] : outbox[t][i].pos \in Nat
    BY <1>0, OutboxRows
  <2>4. \A t \in Tenant : \A i \in DOMAIN outbox[t] : outbox[t][i].pos < nextOutbox'
    BY <1>0, <2>1, <2>3 DEF PositionsGrow
  <2>5. ASSUME NEW d \in Client, Positioned(txn'[d])
        PROVE  /\ txn'[d].pos \in 1 .. (nextOutbox' - 1)
               /\ \A i \in DOMAIN outbox[txn'[d].tenant] :
                     outbox[txn'[d].tenant][i].pos < txn'[d].pos
    <3>1. CASE Positioned(txn[d]) /\ txn'[d].pos = txn[d].pos /\ txn'[d].tenant = txn[d].tenant
      BY <1>0, <2>1, <3>1 DEF PositionsGrow
    <3>2. CASE d = c /\ txn'[c].pos = nextOutbox /\ nextOutbox' = nextOutbox + 1
      BY <1>0, <2>1, <3>2 DEF PositionsGrow
    <3>. QED BY <2>1, <2>2, <2>5, <3>1, <3>2
  <2>. QED BY <2>1, <2>4, <2>5 DEF PositionsGrow
<1>5. ASSUME NEW c \in Client, Commit(c) PROVE PositionsGrow'
  <2>1. Others(c) /\ ~Positioned(txn'[c]) /\ UNCHANGED nextOutbox
    <3>1. Ends(c, "done", "committed", txn[c].ref)
      BY <1>0, <1>5, Effects
    <3>. QED BY <1>5, <3>1 DEF Commit, Ends, Positioned
  <2>2. CASE txn[c].op # "mutation"
    <3>1. UNCHANGED outbox
      BY <1>0, <1>5, <2>2, PutCommit
    <3>. QED BY <1>1, <2>1, <3>1
  <2>3. CASE txn[c].op = "mutation"
    <3>. DEFINE t == txn[c].tenant
                n == Len(outbox[t]) + 1
    <3>1. /\ DOMAIN outbox'[t] = DOMAIN outbox[t] \cup {n}
          /\ \A i \in DOMAIN outbox[t] : outbox'[t][i] = outbox[t][i]
          /\ outbox'[t][n] = NewOutboxRow(c)
          /\ \A u \in Tenant \ {t} : outbox'[u] = outbox[u]
      BY <1>0, <1>5, <2>3, MutationCommit
    <3>2. NewOutboxRow(c).pos = txn[c].pos /\ txn[c].pos \in 1 .. (nextOutbox - 1)
      BY <1>0, <1>5, <2>3, CommitIsReserved DEF NewOutboxRow, PositionsGrow
    <3>3. \A u \in Tenant : \A i \in DOMAIN outbox'[u] : outbox'[u][i].pos < nextOutbox
      BY <1>0, <3>1, <3>2 DEF PositionsGrow
    <3>4. ASSUME NEW d \in Client, Positioned(txn'[d])
          PROVE  /\ txn'[d].pos \in 1 .. (nextOutbox - 1)
                 /\ \A i \in DOMAIN outbox'[txn'[d].tenant] :
                       outbox'[txn'[d].tenant][i].pos < txn'[d].pos
      <4>1. d # c /\ txn'[d] = txn[d]
        BY <2>1, <3>4 DEF Others
      <4>2. txn[d].tenant \in Tenant \ {t}
        BY <1>0, <1>5, <2>3, <3>4, <4>1, CommitAlone, CallType DEF CommitInv, Positioned, Reserved
      <4>. QED BY <1>0, <3>1, <3>4, <4>1, <4>2 DEF PositionsGrow
    <3>. QED BY <2>1, <3>3, <3>4 DEF PositionsGrow
  <2>. QED BY <2>2, <2>3
<1>6. ASSUME NEW t \in Tenant, NEW k \in Key, ExpireKey(t, k) PROVE PositionsGrow'
  BY <1>0, <1>6 DEF ExpireKey, PositionsGrow
<1>7. CASE UNCHANGED vars
  BY <1>0, <1>7 DEF vars, PositionsGrow
<1>. QED BY <1>0, <1>2, <1>3, <1>4, <1>5, <1>6, <1>7, Kinds

-----------------------------------------------------------------------------
(* The parts that speak of committed state: only commits matter.           *)

LEMMA CommittedOnly ==
    ASSUME TypeOK, Paths, [Next]_vars
    PROVE  /\ \A t \in Tenant : expired[t] \subseteq expired'[t]
           /\ \/ UNCHANGED <<records, audit, outbox, idem>>
              \/ \E c \in Client : Commit(c) /\ txn[c].op = "mutation"
              \/ /\ \E c \in Client : Commit(c) /\ txn[c].op # "mutation"
                 /\ UNCHANGED <<outbox, idem>>
                 /\ \A t \in Tenant, r \in Record \ PutRecord : records'[t][r] = records[t][r]
<1>1. ASSUME NEW c \in Client, Commit(c), txn[c].op # "mutation"
      PROVE  /\ UNCHANGED <<outbox, idem>>
             /\ \A t \in Tenant, r \in Record \ PutRecord : records'[t][r] = records[t][r]
  <2>1. txn[c].op = "put" => txn[c].rec \in PutRecord
    BY <1>1 DEF Commit, Paths
  <2>2. txn[c].op \in {"put", "audit"}
    BY <1>1, CallType DEF Op
  <2>. QED BY <1>1, <2>1, <2>2, PutCommit
<1>2. \A t \in Tenant : expired[t] \subseteq expired'[t]
  <2>1. ASSUME NEW t \in Tenant, NEW k \in Key, ExpireKey(t, k)
        PROVE  \A u \in Tenant : expired[u] \subseteq expired'[u]
    BY <2>1 DEF ExpireKey, TypeOK
  <2>. QED BY <2>1, Kinds DEF Start, Quiet, Commit, vars
<1>3. \/ UNCHANGED <<records, audit, outbox, idem>>
      \/ \E c \in Client : Commit(c)
  BY Kinds DEF Start, Quiet, ExpireKey, vars
<1>. QED BY <1>1, <1>2, <1>3

LEMMA KeysStep == CommitInv /\ [Next]_vars => KeysNameEntries' /\ EntriesAreKeyed'
<1>. SUFFICES ASSUME CommitInv, [Next]_vars PROVE KeysNameEntries' /\ EntriesAreKeyed'
  OBVIOUS
<1>0. /\ TypeOK /\ Paths /\ KeysNameEntries /\ EntriesAreKeyed
      /\ \A t \in Tenant : expired[t] \subseteq expired'[t]
  BY CommittedOnly DEF CommitInv, ChainInv
<1>1. CASE UNCHANGED <<outbox, idem>>
  BY <1>0, <1>1 DEF KeysNameEntries, EntriesAreKeyed
<1>2. ASSUME NEW c \in Client, Commit(c), txn[c].op = "mutation"
      PROVE  KeysNameEntries' /\ EntriesAreKeyed'
  <2>. DEFINE t == txn[c].tenant
              n == Len(outbox[t]) + 1
              new == NewOutboxRow(c)
  <2>1. /\ DOMAIN outbox'[t] = DOMAIN outbox[t] \cup {n}
        /\ \A i \in DOMAIN outbox[t] : outbox'[t][i] = outbox[t][i]
        /\ outbox'[t][n] = new
        /\ \A u \in Tenant \ {t} : outbox'[u] = outbox[u] /\ idem'[u] = idem[u]
        /\ idem'[t][txn[c].key] = [hash |-> txn[c].hash, ref |-> txn[c].ref]
        /\ \A k \in Key \ {txn[c].key} : idem'[t][k] = idem[t][k]
    BY <1>0, <1>2, MutationCommit
  <2>2. new.ref = txn[c].ref /\ new.key = txn[c].key /\ new.hash = txn[c].hash
    BY DEF NewOutboxRow
  <2>3. t \in Tenant /\ txn[c].key \in Key
    BY <1>0, CallType
  <2>4. \A i \in DOMAIN outbox[t] :
           outbox[t][i].key = txn[c].key => outbox[t][i].ref \in expired[t]
    BY <1>2, CommitIsReserved
  <2>5. KeysNameEntries'
    <3>1. ASSUME NEW u \in Tenant, NEW k \in Key, idem'[u][k].ref # NoRef
          PROVE  \E i \in DOMAIN outbox'[u] :
                    /\ outbox'[u][i].ref = idem'[u][k].ref
                    /\ outbox'[u][i].key = k
                    /\ outbox'[u][i].hash = idem'[u][k].hash
      <4>1. CASE u = t /\ k = txn[c].key
        BY <2>1, <2>2, <4>1
      <4>2. CASE ~(u = t /\ k = txn[c].key)
        <5>1. idem'[u][k] = idem[u][k]
          BY <2>1, <4>2
        <5>2. PICK i \in DOMAIN outbox[u] :
                 /\ outbox[u][i].ref = idem[u][k].ref
                 /\ outbox[u][i].key = k
                 /\ outbox[u][i].hash = idem[u][k].hash
          BY <1>0, <3>1, <5>1 DEF KeysNameEntries
        <5>3. i \in DOMAIN outbox'[u] /\ outbox'[u][i] = outbox[u][i]
          BY <2>1
        <5>. QED BY <5>1, <5>2, <5>3
      <4>. QED BY <4>1, <4>2
    <3>. QED BY <3>1 DEF KeysNameEntries
  <2>6. EntriesAreKeyed'
    <3>1. ASSUME NEW u \in Tenant, NEW i \in DOMAIN outbox'[u]
          PROVE  \/ outbox'[u][i].ref \in expired'[u]
                 \/ idem'[u][outbox'[u][i].key].ref = outbox'[u][i].ref
      <4>1. CASE u = t /\ i = n
        BY <2>1, <2>2, <4>1
      <4>2. CASE ~(u = t /\ i = n)
        <5>1. i \in DOMAIN outbox[u] /\ outbox'[u][i] = outbox[u][i]
          <6>. HIDE DEF t, n, new
          <6>1. CASE u = t
            <7>1. i \in DOMAIN outbox[t] \cup {n} /\ i # n
              BY <2>1, <4>2, <6>1
            <7>. QED BY <2>1, <6>1, <7>1
          <6>2. CASE u # t
            BY <2>1, <6>2
          <6>. QED BY <6>1, <6>2
        <5>2. CASE outbox[u][i].ref \in expired[u]
          BY <1>0, <5>1, <5>2
        <5>3. CASE outbox[u][i].ref \notin expired[u]
          <6>1. outbox[u][i].key \in Key
            BY <1>0, <5>1, OutboxRows
          <6>2. idem[u][outbox[u][i].key].ref = outbox[u][i].ref
            BY <1>0, <5>1, <5>3 DEF EntriesAreKeyed
          <6>3. u = t => outbox[u][i].key # txn[c].key
            BY <2>4, <5>1, <5>3
          <6>4. idem'[u][outbox[u][i].key] = idem[u][outbox[u][i].key]
            BY <2>1, <6>1, <6>3
          <6>. QED BY <5>1, <6>2, <6>4
        <5>. QED BY <5>2, <5>3
      <4>. QED BY <4>1, <4>2
    <3>. QED BY <3>1 DEF EntriesAreKeyed
  <2>. QED BY <2>5, <2>6
<1>. QED BY <1>0, <1>1, <1>2, CommittedOnly

LEMMA VersionsStep == CommitInv /\ [Next]_vars => VersionsAreLedger'
<1>. SUFFICES ASSUME CommitInv, [Next]_vars PROVE VersionsAreLedger'
  OBVIOUS
<1>. USE DEF Ledger!VersionsOf
<1>0. TypeOK /\ Paths /\ VersionsAreLedger
  BY DEF CommitInv, ChainInv
<1>1. CASE /\ UNCHANGED outbox
           /\ \A t \in Tenant, r \in Record \ PutRecord : records'[t][r] = records[t][r]
  BY <1>0, <1>1 DEF VersionsAreLedger
<1>2. ASSUME NEW c \in Client, Commit(c), txn[c].op = "mutation" PROVE VersionsAreLedger'
  <2>. DEFINE t == txn[c].tenant
              n == Len(outbox[t]) + 1
              new == NewOutboxRow(c)
  <2>1. /\ DOMAIN outbox'[t] = DOMAIN outbox[t] \cup {n}
        /\ \A i \in DOMAIN outbox[t] : outbox'[t][i] = outbox[t][i]
        /\ outbox'[t][n] = new
        /\ records'[t][txn[c].rec] = NewContent(c)
        /\ \A r \in Record \ {txn[c].rec} : records'[t][r] = records[t][r]
        /\ \A u \in Tenant \ {t} : outbox'[u] = outbox[u] /\ records'[u] = records[u]
    BY <1>0, <1>2, MutationCommit
  <2>2. /\ new.rec = txn[c].rec /\ new.ver = txn[c].base + 1
        /\ NewContent(c).ver = txn[c].base + 1 /\ txn[c].base \in Nat
    BY <1>0, CallType DEF NewOutboxRow, NewContent
  <2>3. ASSUME NEW u \in Tenant, NEW r \in Record \ PutRecord
        PROVE  {outbox'[u][i].ver : i \in {j \in DOMAIN outbox'[u] : outbox'[u][j].rec = r}}
                 = 1 .. records'[u][r].ver
    <3>0. {outbox[u][i].ver : i \in {j \in DOMAIN outbox[u] : outbox[u][j].rec = r}}
            = 1 .. records[u][r].ver
      BY <1>0 DEF VersionsAreLedger
    <3>1. CASE u # t
      BY <2>1, <3>0, <3>1
    <3>2. CASE u = t /\ r # txn[c].rec
      <4>1. {j \in DOMAIN outbox'[u] : outbox'[u][j].rec = r}
              = {j \in DOMAIN outbox[u] : outbox[u][j].rec = r}
        BY <2>1, <2>2, <3>2
      <4>. QED BY <2>1, <3>0, <3>2, <4>1
    <3>3. CASE u = t /\ r = txn[c].rec
      <4>1. records[u][r].ver = txn[c].base
        BY <1>2, <3>3, CommitIsReserved DEF CommitInv, RecordIsExpected
      <4>2. {j \in DOMAIN outbox'[u] : outbox'[u][j].rec = r}
              = {j \in DOMAIN outbox[u] : outbox[u][j].rec = r} \cup {n}
        BY <2>1, <2>2, <3>3
      <4>3. {outbox'[u][i].ver : i \in {j \in DOMAIN outbox'[u] : outbox'[u][j].rec = r}}
              = {outbox[u][i].ver : i \in {j \in DOMAIN outbox[u] : outbox[u][j].rec = r}}
                  \cup {txn[c].base + 1}
        BY <2>1, <2>2, <3>3, <4>2
      <4>4. 1 .. (txn[c].base + 1) = 1 .. txn[c].base \cup {txn[c].base + 1}
        BY <2>2
      <4>. QED BY <2>1, <2>2, <3>0, <3>3, <4>1, <4>3, <4>4
    <3>. QED BY <3>1, <3>2, <3>3
  <2>. QED BY <2>3 DEF VersionsAreLedger
<1>. QED BY <1>0, <1>1, <1>2, CommittedOnly

LEMMA TransactionStep == CommitInv /\ [Next]_vars => OneTransaction'
<1>. SUFFICES ASSUME CommitInv, [Next]_vars PROVE OneTransaction'
  OBVIOUS
<1>0. TypeOK /\ Paths /\ OneTransaction
  BY DEF CommitInv, ChainInv
<1>1. CASE UNCHANGED <<records, audit, outbox>>
  BY <1>0, <1>1 DEF OneTransaction
(* Audit rows are only added, and a put leaves guarded records alone.      *)
<1>2. CASE /\ UNCHANGED outbox
           /\ \A t \in Tenant : audit[t] \subseteq audit'[t]
           /\ \A t \in Tenant, r \in Record \ PutRecord : records'[t][r] = records[t][r]
  <2>1. \A t \in Tenant : \A i \in DOMAIN outbox[t] : outbox[t][i].rec \in Record
    BY <1>0, OutboxRows
  <2>. QED BY <1>0, <1>2, <2>1 DEF OneTransaction
<1>3. ASSUME NEW c \in Client, Commit(c), txn[c].op = "mutation" PROVE OneTransaction'
  <2>. DEFINE t == txn[c].tenant
              n == Len(outbox[t]) + 1
              new == NewOutboxRow(c)
  <2>1. /\ DOMAIN outbox'[t] = DOMAIN outbox[t] \cup {n} /\ n \in Nat
        /\ \A i \in DOMAIN outbox[t] : outbox'[t][i] = outbox[t][i] /\ i < n
        /\ outbox'[t][n] = new
        /\ records'[t][txn[c].rec] = NewContent(c)
        /\ \A r \in Record \ {txn[c].rec} : records'[t][r] = records[t][r]
        /\ audit'[t] = audit[t] \cup {BindAuditToTail(txn[c].ref, txn[c].tail)}
        /\ \A u \in Tenant \ {t} : /\ outbox'[u] = outbox[u] /\ records'[u] = records[u]
                                   /\ audit'[u] = audit[u]
    BY <1>0, <1>3, MutationCommit
  <2>2. /\ new.rec = txn[c].rec /\ new.ref = txn[c].ref
        /\ NewContent(c) = [ver |-> new.ver, ref |-> new.ref]
        /\ BindAuditToTail(txn[c].ref, txn[c].tail).hash = new.ref
    BY DEF NewOutboxRow, NewContent, BindAuditToTail
  <2>3. ASSUME NEW u \in Tenant, NEW i \in DOMAIN outbox'[u]
        PROVE  /\ \E a \in audit'[u] : a.hash = outbox'[u][i].ref
               /\ (/\ outbox'[u][i].rec \notin PutRecord
                   /\ \A j \in DOMAIN outbox'[u] : j > i => outbox'[u][j].rec # outbox'[u][i].rec)
                    => records'[u][outbox'[u][i].rec]
                         = [ver |-> outbox'[u][i].ver, ref |-> outbox'[u][i].ref]
    <3>1. CASE u # t
      BY <1>0, <2>1, <3>1 DEF OneTransaction
    <3>2. CASE u = t /\ i = n
      BY <2>1, <2>2, <3>2
    <3>3. CASE u = t /\ i # n
      <4>1. i \in DOMAIN outbox[t] /\ outbox'[t][i] = outbox[t][i] /\ n > i
        BY <2>1, <3>3
      <4>2. outbox[t][i].rec \in Record
        BY <1>0, <3>3, <4>1, OutboxRows
      <4>3. /\ \E a \in audit[t] : a.hash = outbox[t][i].ref
            /\ (/\ outbox[t][i].rec \notin PutRecord
                /\ \A j \in DOMAIN outbox[t] : j > i => outbox[t][j].rec # outbox[t][i].rec)
                 => records[t][outbox[t][i].rec]
                      = [ver |-> outbox[t][i].ver, ref |-> outbox[t][i].ref]
        BY <1>0, <3>3, <4>1 DEF OneTransaction
      <4>4. \E a \in audit'[t] : a.hash = outbox[t][i].ref
        BY <2>1, <4>3
      <4>5. CASE outbox[t][i].rec = txn[c].rec
        BY <2>1, <2>2, <3>3, <4>1, <4>4, <4>5
      <4>6. CASE outbox[t][i].rec # txn[c].rec
        <5>1. records'[t][outbox[t][i].rec] = records[t][outbox[t][i].rec]
          BY <2>1, <4>2, <4>6
        <5>2. (\A j \in DOMAIN outbox'[t] : j > i => outbox'[t][j].rec # outbox[t][i].rec)
                 => \A j \in DOMAIN outbox[t] : j > i => outbox[t][j].rec # outbox[t][i].rec
          BY <2>1
        <5>. QED BY <3>3, <4>1, <4>4, <4>3, <5>1, <5>2
      <4>. QED BY <4>5, <4>6
    <3>. QED BY <3>1, <3>2, <3>3
  <2>. QED BY <2>3 DEF OneTransaction
<1>4. \A t \in Tenant : audit[t] \subseteq audit'[t]
  <2>1. ASSUME NEW c \in Client, Commit(c)
        PROVE  \A t \in Tenant : audit[t] \subseteq audit'[t]
    <3>1. \/ UNCHANGED audit
          \/ audit' = [audit EXCEPT ![txn[c].tenant] =
                         @ \cup {BindAuditToTail(txn[c].ref, txn[c].tail)}]
      BY <2>1 DEF Commit
    <3>2. audit \in [Tenant -> SUBSET AuditRow]
      BY <1>0 DEF TypeOK
    <3>. QED BY <3>1, <3>2
  <2>. QED BY <1>0, <2>1, CommittedOnly
<1>. QED BY <1>0, <1>1, <1>2, <1>3, <1>4, CommittedOnly

LEMMA AnswersStep == CommitInv /\ [Next]_vars => AnswersAreDurable'
<1>. SUFFICES ASSUME CommitInv, [Next]_vars PROVE AnswersAreDurable'
  OBVIOUS
<1>0. TypeOK /\ Paths /\ AnswersAreDurable
  BY DEF CommitInv, ChainInv
(* What AnswersAreDurable says of one call. *)
<1>. DEFINE Kept(x, box) ==
       (x.pc = "done" /\ x.op = "mutation") =>
         /\ x.outcome \in {"committed", "replayed"} =>
               \E i \in DOMAIN box[x.tenant] :
                  /\ box[x.tenant][i].ref = x.got
                  /\ box[x.tenant][i].key = x.key /\ box[x.tenant][i].hash = x.hash
         /\ x.outcome \in {"replayed", "key_reused", "changed"} =>
               \A i \in DOMAIN box[x.tenant] : box[x.tenant][i].ref # x.ref
<1>1. /\ \A d \in Client : Kept(txn[d], outbox)
      /\ (\A d \in Client : Kept(txn'[d], outbox')) => AnswersAreDurable'
  BY <1>0 DEF AnswersAreDurable
<1>2. ASSUME NEW c \in Client, Others(c), txn'[c].pc # "done", UNCHANGED outbox
      PROVE  AnswersAreDurable'
  BY <1>1, <1>2 DEF Others
<1>3. ASSUME NEW c \in Client, NEW t, NEW k, NEW h, NEW r, NEW op, NEW base,
             Start(c, t, k, h, r, op, base)
      PROVE  AnswersAreDurable'
  <2>1. Begins(c, t, k, h, r, op, base)
    BY <1>0, <1>3, StartEffect
  <2>. QED BY <1>2, <1>3, <2>1 DEF Begins, Start
<1>4. ASSUME NEW c \in Client, Others(c), txn'[c] = Idle, UNCHANGED outbox
      PROVE  AnswersAreDurable'
  BY <1>2, <1>4 DEF Idle
<1>5. ASSUME NEW c \in Client, Quiet(c) PROVE AnswersAreDurable'
  <2>. DEFINE row == idem[txn[c].tenant][txn[c].key]
  <2>0. txn[c].tenant \in Tenant /\ txn[c].key \in Key
    BY <1>0, CallType
  <2>1. /\ Others(c) /\ SameCall(c) /\ UNCHANGED outbox
        /\ Fresh(txn'[c]) => Fresh(txn[c])
        /\ txn'[c].pc = "done" =>
              \/ txn'[c].outcome \in {"key_reused", "changed"}
              \/ /\ txn'[c].outcome = "replayed" /\ txn'[c].got = row.ref
                 /\ row.ref # NoRef /\ row.hash = txn[c].hash
    BY <1>5 DEF Quiet
  <2>2. CASE txn'[c].pc # "done"
    BY <1>2, <2>1, <2>2
  <2>3. CASE txn'[c].pc = "done"
    <3>1. Fresh(txn'[c])
      BY <2>1, <2>3 DEF Fresh
    <3>2. \A i \in DOMAIN outbox[txn[c].tenant] : outbox[txn[c].tenant][i].ref # txn[c].ref
      BY <2>0, <2>1, <3>1 DEF CommitInv, RefsAreFresh
    <3>3. txn'[c].outcome = "replayed" =>
             \E i \in DOMAIN outbox[txn[c].tenant] :
                /\ outbox[txn[c].tenant][i].ref = txn'[c].got
                /\ outbox[txn[c].tenant][i].key = txn[c].key
                /\ outbox[txn[c].tenant][i].hash = txn[c].hash
      BY <2>0, <2>1, <2>3 DEF CommitInv, KeysNameEntries
    <3>4. Kept(txn'[c], outbox)
      BY <2>1, <2>3, <3>2, <3>3 DEF SameCall
    <3>. QED BY <1>1, <2>1, <3>4 DEF Others
  <2>. QED BY <2>2, <2>3
<1>6. ASSUME NEW c \in Client, Commit(c) PROVE AnswersAreDurable'
  <2>1. /\ Others(c) /\ SameCall(c) /\ txn'[c].outcome = "committed"
        /\ txn'[c].got = txn[c].ref /\ Fresh(txn[c])
    <3>1. Ends(c, "done", "committed", txn[c].ref)
      BY <1>0, <1>6, Effects
    <3>. QED BY <1>6, <3>1 DEF Commit, Ends, Fresh
  <2>2. CASE txn[c].op # "mutation"
    <3>1. UNCHANGED outbox
      BY <1>0, <1>6, <2>2, PutCommit
    <3>2. Kept(txn'[c], outbox)
      BY <2>1, <2>2 DEF SameCall
    <3>. QED BY <1>1, <2>1, <3>1, <3>2 DEF Others
  <2>3. CASE txn[c].op = "mutation"
    <3>. DEFINE t == txn[c].tenant
                n == Len(outbox[t]) + 1
                new == NewOutboxRow(c)
    <3>1. /\ DOMAIN outbox'[t] = DOMAIN outbox[t] \cup {n}
          /\ \A i \in DOMAIN outbox[t] : outbox'[t][i] = outbox[t][i]
          /\ outbox'[t][n] = new
          /\ \A u \in Tenant \ {t} : outbox'[u] = outbox[u]
      BY <1>0, <1>6, <2>3, MutationCommit
    <3>2. new.ref = txn[c].ref /\ new.key = txn[c].key /\ new.hash = txn[c].hash
      BY DEF NewOutboxRow
    <3>3. Kept(txn'[c], outbox')
      BY <2>1, <3>1, <3>2 DEF SameCall
    <3>4. ASSUME NEW d \in Client \ {c} PROVE Kept(txn[d], outbox')
      <4>1. txn[d].tenant \in Tenant
        BY <1>0, CallType
      <4>2. txn[d].pc = "done" => txn[d].ref # txn[c].ref
        BY <2>1 DEF CommitInv, RefsAreFresh, Fresh
      <4>3. CASE txn[d].tenant # t
        BY <1>1, <3>1, <4>1, <4>3
      <4>4. CASE txn[d].tenant = t
        BY <1>1, <3>1, <3>2, <4>2, <4>4
      <4>. QED BY <4>3, <4>4
    <3>. QED BY <1>1, <2>1, <3>3, <3>4 DEF Others
  <2>. QED BY <2>2, <2>3
<1>7. ASSUME NEW t \in Tenant, NEW k \in Key, ExpireKey(t, k) PROVE AnswersAreDurable'
  BY <1>0, <1>7 DEF ExpireKey, AnswersAreDurable
<1>8. CASE UNCHANGED vars
  BY <1>0, <1>8 DEF vars, AnswersAreDurable
<1>. QED BY <1>0, <1>3, <1>4, <1>5, <1>6, <1>7, <1>8, Kinds

-----------------------------------------------------------------------------
(* Theorems.                                                               *)

LEMMA CommitInit == Init => CommitInv
<1>. SUFFICES ASSUME Init PROVE CommitInv
  OBVIOUS
<1>1. \A c \in Client : /\ txn[c].pc = "idle" /\ txn[c].stale = NoRef
                        /\ ~Fresh(txn[c]) /\ ~Reserved(txn[c])
                        /\ ~Checked(txn[c]) /\ ~Positioned(txn[c])
  BY DEF Init, Idle, Fresh, Reserved, Checked, Positioned
<1>2. \A t \in Tenant : outbox[t] = << >> /\ DOMAIN outbox[t] = {}
  BY DEF Init
<1>3. RefsAreFresh /\ EntriesAreKeyed /\ PositionsGrow /\ OneTransaction
  BY <1>1, <1>2 DEF RefsAreFresh, EntriesAreKeyed, PositionsGrow, OneTransaction
<1>4. KeysNameEntries
  BY DEF Init, KeysNameEntries, AbsentKey
<1>5. KeyIsReserved /\ RecordIsExpected /\ AnswersAreDurable
  BY <1>1 DEF KeyIsReserved, RecordIsExpected, AnswersAreDurable
<1>6. VersionsAreLedger
  <2>1. \A t \in Tenant, r \in Record : records[t][r].ver = 0
    BY DEF Init, AbsentRecord
  <2>. QED BY <1>2, <2>1 DEF VersionsAreLedger, Ledger!VersionsOf
<1>. QED BY <1>3, <1>4, <1>5, <1>6, ChainInit DEF CommitInv

(* ChainInv and what a transaction has established at each of its phases:  *)
(* fresh refs, its key reserved, its record unchanged since the comparison,*)
(* its outbox position beyond every committed one.                         *)
THEOREM CommitInvariant == Spec => []CommitInv
<1>1. CommitInv /\ [Next]_vars => CommitInv'
  BY TypeStep, PathsStep, LockHeldStep, ChainStep, RefsStep, ReservedStep, ExpectedStep,
     PositionsStep, KeysStep, VersionsStep, TransactionStep, AnswersStep
     DEF CommitInv, ChainInv
<1>. QED BY <1>1, CommitInit, PTL DEF Spec

(* Whatever a caller is told of its mutation is true of the database, with *)
(* any number of callers, retries, expirations and failures.               *)
THEOREM DurableCorrect == Spec => []AnswersAreDurable
<1>1. CommitInv => AnswersAreDurable
  BY DEF CommitInv
<1>. QED BY <1>1, CommitInvariant, PTL

(* Record, audit row and outbox row of a mutation are never apart.         *)
THEOREM TransactionCorrect == Spec => []OneTransaction
<1>1. CommitInv => OneTransaction
  BY DEF CommitInv
<1>. QED BY <1>1, CommitInvariant, PTL

-----------------------------------------------------------------------------
(* The store implements the ledger.                                        *)

LEMMA CommitAppends ==
    ASSUME CommitInv, NEW c \in Client, Commit(c), txn[c].op = "mutation"
    PROVE  Ledger!AddEntry(txn[c].tenant)
<1>. DEFINE t == txn[c].tenant
            n == Len(outbox[t]) + 1
            new == NewOutboxRow(c)
<1>0. /\ TypeOK /\ t \in Tenant /\ txn[c].key \in Key /\ txn[c].hash \in Hash
      /\ txn[c].rec \in Record /\ txn[c].base \in Nat
      /\ nextOutbox \in Nat /\ nextRef \in Nat /\ txn[c].pc = "written"
      /\ UNCHANGED expired
  BY CallType DEF CommitInv, ChainInv, TypeOK, Commit
<1>1. /\ outbox' = [outbox EXCEPT ![t] = Append(@, new)]
      /\ Len(outbox'[t]) = n /\ outbox'[t][n] = new
  BY <1>0, MutationCommit
<1>2. Len(outbox'[t]) > Len(outbox[t])
  <2>1. outbox[t] \in Seq(OutboxRow)
    BY <1>0, OutboxRows
  <2>. QED BY <1>1, <2>1
<1>3. /\ Fresh(txn[c]) /\ Checked(txn[c]) /\ Positioned(txn[c])
      /\ \A i \in DOMAIN outbox[t] : outbox[t][i].key = txn[c].key => outbox[t][i].ref \in expired[t]
  BY CommitIsReserved
<1>4. /\ txn[c].pos \in 1 .. (nextOutbox - 1) /\ txn[c].ref \in 1 .. (nextRef - 1)
      /\ \A i \in DOMAIN outbox[t] :
            outbox[t][i].pos < txn[c].pos /\ outbox[t][i].ref # txn[c].ref
  BY <1>0, <1>3 DEF CommitInv, PositionsGrow, RefsAreFresh
<1>5. txn[c].rec \notin PutRecord => Ledger!VersionsOf(t, txn[c].rec) = 1 .. txn[c].base
  BY <1>0, <1>3 DEF CommitInv, RecordIsExpected, VersionsAreLedger
<1>6. new \in Ledger!Entry
  <2>1. /\ txn[c].pos \in Nat \ {0} /\ txn[c].ref \in Nat \ {0}
        /\ txn[c].base + 1 \in Nat \ {0}
    BY <1>0, <1>4
  <2>. QED BY <1>0, <2>1 DEF NewOutboxRow, Ledger!Entry
<1>7. Ledger!MayAppend(t, new)
  <2>1. /\ new.pos = txn[c].pos /\ new.ref = txn[c].ref /\ new.key = txn[c].key
        /\ new.rec = txn[c].rec /\ new.ver - 1 = txn[c].base
    BY <1>0 DEF NewOutboxRow
  <2>. QED BY <1>3, <1>4, <1>5, <1>6, <2>1 DEF Ledger!MayAppend, Ledger!KeyIsFree
<1>. QED BY <1>0, <1>1, <1>2, <1>7 DEF Ledger!AddEntry

LEMMA LedgerStep == CommitInv /\ [Next]_vars => [Ledger!Next]_Ledger!vars
<1>. SUFFICES ASSUME CommitInv, [Next]_vars PROVE [Ledger!Next]_Ledger!vars
  OBVIOUS
<1>0. TypeOK /\ Paths
  BY DEF CommitInv, ChainInv
<1>1. ASSUME NEW c \in Client, Commit(c) PROVE [Ledger!Next]_Ledger!vars
  <2>1. CASE txn[c].op = "mutation"
    <3>1. txn[c].tenant \in Tenant /\ Ledger!AddEntry(txn[c].tenant)
      BY <1>0, <1>1, <2>1, CommitAppends, CallType
    <3>. QED BY <3>1 DEF Ledger!Next
  <2>2. CASE txn[c].op # "mutation"
    <3>1. UNCHANGED <<outbox, expired>>
      BY <1>0, <1>1, <2>2, PutCommit DEF Commit
    <3>. QED BY <3>1 DEF Ledger!vars
  <2>. QED BY <2>1, <2>2
<1>2. ASSUME NEW t \in Tenant, NEW k \in Key, ExpireKey(t, k) PROVE [Ledger!Next]_Ledger!vars
  <2>1. PICK i \in DOMAIN outbox[t] : outbox[t][i].ref = idem[t][k].ref
    BY <1>2 DEF CommitInv, KeysNameEntries, ExpireKey
  <2>2. Ledger!Expire(t, i)
    BY <1>2, <2>1 DEF ExpireKey, Ledger!Expire
  <2>. QED BY <2>2 DEF Ledger!Next
<1>3. CASE UNCHANGED <<outbox, expired>>
  BY <1>3 DEF Ledger!vars
<1>. QED BY <1>0, <1>1, <1>2, <1>3, Kinds DEF Start, Quiet, vars

(* MutationStore implements MutationLedger: statement by statement, with   *)
(* locks that are only per tenant and failures anywhere, a tenant's ledger *)
(* still grows by one complete, unrepeated and correctly versioned entry   *)
(* at a time.                                                              *)
THEOREM LedgerCorrect == Spec => LedgerSpec
<1>1. Init => Ledger!Init
  BY DEF Init, Ledger!Init
<1>. QED BY <1>1, LedgerStep, CommitInvariant, PTL DEF Spec, LedgerSpec, Ledger!Spec
=============================================================================
