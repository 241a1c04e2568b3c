----------------------------- MODULE EventAudit -----------------------------
(***************************************************************************)
(* The event service's reading of its tenant's audit chain                 *)
(* (apps/api/src/event-intelligence.service.ts: appendAudit,               *)
(* restoreAuditPrefix, assessAuditChain, refreshAuthoritativeAudits, and   *)
(* their callers), over the database of its PostgreSQL profile.  An audit  *)
(* extends the list in memory, awaits the database, which binds it to the  *)
(* tail it has there, and then the list is read again and replaced.  What  *)
(* the assessment of a list finds decides whether the next audited request *)
(* of the tenant is refused (503, audit_chain_unhealthy).                  *)
(*                                                                         *)
(* The other services of the tenant (twin graph, twin events, integration  *)
(* registry, prediction, simulation) commit their audits to the same chain *)
(* and as records of the same kind.                                        *)
(*                                                                         *)
(* Hashes have no collisions: an evidence record is the sequence of audits *)
(* its event_hash covers.  The last is its own, the ones before it are its *)
(* previous_hash, and its length is its tenant_sequence.                   *)
(***************************************************************************)
EXTENDS Naturals, Sequences

CONSTANTS
    Slot,        \* requests of the event service in flight
    MaxAudits,   \* bound: audits drawn in a run
    MaxFaults    \* bound: failed calls, lost answers and restarts in a run

VARIABLES
    disk,        \* committed records of kind event_audit_evidence
    chain,       \* this.audits: the evidence of its last record
    issues,      \* this.auditHealth.issues
    hasEvents,   \* the tenant has an event in the map
    savedEvents, \* ... on disk
    drawn,       \* how many audits have been made
    faults,      \* how many faults have happened
    rq           \* [Slot -> the request in flight]

vars == <<disk, chain, issues, hasEvents, savedEvents, drawn, faults, rq>>

-----------------------------------------------------------------------------
Audit == [id : Nat, by : {"events", "others"}]
Evidence == Seq(Audit) \ {<<>>}

Previous(r) == SubSeq(r, 1, Len(r) - 1)
Own(r) == r[Len(r)]

(* The records of a list that is one chain up to r. *)
UpTo(r) == {SubSeq(r, 1, k) : k \in 1 .. Len(r)}

(* One complete chain: every record's predecessor is there, and has no     *)
(* other successor.                                                        *)
Complete(records) == \E r \in records \cup {<<>>} : records = UpTo(r)

-----------------------------------------------------------------------------
(* assessAuditChain.                                                       *)

Issue == {"empty_chain", "invalid_records", "hash_gaps", "forks", "orphan_records"}

(* validAuditEvidence: resource_type is one of the event service's four.   *)
Valid(records) == {r \in records : Own(r).by = "events"}

(* The longest path from the beginning through valid records.              *)
Canonical(records) ==
    LET paths == {r \in Valid(records) : UpTo(r) \subseteq Valid(records)} \cup {<<>>}
    IN  CHOOSE r \in paths : \A q \in paths : Len(q) <= Len(r)

(* Sequence gaps are none: a record's number is its length here.           *)
Issues(records) ==
    LET valid == Valid(records) IN
    {i \in Issue :
       \/ i = "empty_chain" /\ records = {}
       \/ i = "invalid_records" /\ valid # records
       \/ i = "hash_gaps" /\ \E r \in valid : Previous(r) \notin valid \cup {<<>>}
       \/ i = "forks" /\ \E r, q \in valid : r # q /\ Previous(r) = Previous(q)
       \/ i = "orphan_records" /\ ~(valid \subseteq UpTo(Canonical(records)))}

-----------------------------------------------------------------------------
Pc == {"idle", "put", "commit", "list", "set", "audited", "putEvent"}
Op == {"none", "interpret", "audit", "mutate", "replayed", "refused"}

NoAudit == [id |-> 0, by |-> "events"]

Request == [pc : Pc, op : Op, audit : Audit, count : Nat, list : SUBSET Evidence]

Idle == [pc |-> "idle", op |-> "none", audit |-> NoAudit, count |-> 0, list |-> {}]

Init ==
    /\ disk = {} /\ chain = <<>> /\ issues = {"empty_chain"}
    /\ hasEvents = FALSE /\ savedEvents = FALSE
    /\ drawn = 0 /\ faults = 0
    /\ rq = [s \in Slot |-> Idle]

Goto(s, pc) == rq' = [rq EXCEPT ![s].pc = pc]
End(s) == rq' = [rq EXCEPT ![s] = Idle]
Fault == faults < MaxFaults /\ faults' = faults + 1

Draw == drawn < MaxAudits /\ drawn' = drawn + 1

NewAudit(by) == [id |-> drawn + 1, by |-> by]

-----------------------------------------------------------------------------
(* appendAudit.                                                            *)

Refused ==
    \/ issues \ {"empty_chain"} # {}
    \/ issues # {} /\ hasEvents
    \/ chain = <<>> /\ hasEvents

(* A handler of the event service comes to its audit: an interpretation    *)
(* makes an event of it, a mutation (apply, rollback) has one and leaves   *)
(* the audit to its commit, every other request has one and puts it.       *)
AppendAudit(s, op) ==
    /\ rq[s].pc = "idle"
    /\ op # "interpret" => hasEvents
    /\ ~Refused
    /\ Draw
    /\ chain' = Append(chain, NewAudit("events"))
    /\ issues' = {}
    /\ rq' = [rq EXCEPT ![s] = [Idle EXCEPT !.pc = IF op = "mutate" THEN "commit" ELSE "put",
                                            !.op = op, !.count = Len(chain),
                                            !.audit = NewAudit("events")]]
    /\ UNCHANGED <<disk, hasEvents, savedEvents, faults>>

-----------------------------------------------------------------------------
(* The database: bindAuditToTail, in one transaction of the tenant.        *)

DiskTail == CHOOSE r \in disk \cup {<<>>} : \A q \in disk : Len(q) <= Len(r)

Commit(audit) == disk' = disk \cup {Append(DiskTail, audit)}

(* An audit put, or the commit of a mutation.                              *)
LandAudit(s) ==
    /\ rq[s].pc \in {"put", "commit"}
    /\ Commit(rq[s].audit)
    /\ Goto(s, "list")
    /\ UNCHANGED <<chain, issues, hasEvents, savedEvents, drawn, faults>>

(* Another service commits a mutation with its audit.                      *)
CommitOther ==
    /\ Draw
    /\ Commit(NewAudit("others"))
    /\ UNCHANGED <<chain, issues, hasEvents, savedEvents, faults, rq>>

-----------------------------------------------------------------------------
(* restoreAuditPrefix: the length is from before the request's own audit,  *)
(* the list may be another one by now.                                     *)

RestorePrefix(s) ==
    LET left == SubSeq(chain, 1, IF rq[s].count < Len(chain) THEN rq[s].count ELSE Len(chain))
    IN  chain' = left /\ issues' = Issues(UpTo(left))

(* A replay or a conflict: the prefix is restored and the authoritative    *)
(* records are read again.  Before they come to the audits the projection  *)
(* may have thrown (StopUnwinding).                                        *)
RefuseMutation(s) ==
    /\ rq[s].pc = "commit"
    /\ RestorePrefix(s)
    /\ \E op \in {"replayed", "refused"} :
          rq' = [rq EXCEPT ![s].pc = "list", ![s].op = op]
    /\ UNCHANGED <<disk, hasEvents, savedEvents, drawn, faults>>

(* restoreUncommitted throws: the projection is no longer this request's,  *)
(* and the list keeps its audit.                                           *)
ThrowMutation(s) ==
    /\ rq[s].pc = "commit"
    /\ End(s)
    /\ UNCHANGED <<disk, chain, issues, hasEvents, savedEvents, drawn, faults>>

(* hydrate throws in the reload after a refusal.                           *)
StopUnwinding(s) ==
    /\ rq[s].pc = "list"
    /\ rq[s].op \in {"replayed", "refused"}
    /\ End(s)
    /\ UNCHANGED <<disk, chain, issues, hasEvents, savedEvents, drawn, faults>>

(* The reload after a replay fails inside the try block: the catch block   *)
(* cuts once more, to the same length, whatever list is there by now.      *)
CutAgain(s) ==
    /\ rq[s].op = "replayed"
    /\ \/ rq[s].pc = "list" /\ UNCHANGED faults
       \/ rq[s].pc = "set" /\ Fault
    /\ RestorePrefix(s)
    /\ End(s)
    /\ UNCHANGED <<disk, hasEvents, savedEvents, drawn>>

-----------------------------------------------------------------------------
(* refreshAuthoritativeAudits: the list is read, and set after an await.   *)

ListAudits(s) ==
    /\ rq[s].pc = "list"
    /\ rq' = [rq EXCEPT ![s].pc = "set", ![s].list = disk]
    /\ UNCHANGED <<disk, chain, issues, hasEvents, savedEvents, drawn, faults>>

SetAudits(s) ==
    /\ rq[s].pc = "set"
    /\ chain' = Canonical(rq[s].list)
    /\ issues' = Issues(rq[s].list)
    /\ IF rq[s].op = "interpret" THEN Goto(s, "audited") ELSE End(s)
    /\ UNCHANGED <<disk, hasEvents, savedEvents, drawn, faults>>

(* interpret sets the event it has built, and puts it.                     *)
AddEvent(s) ==
    /\ rq[s].pc = "audited"
    /\ hasEvents' = TRUE
    /\ Goto(s, "putEvent")
    /\ UNCHANGED <<disk, chain, issues, savedEvents, drawn, faults>>

LandEvent(s) ==
    /\ rq[s].pc = "putEvent"
    /\ savedEvents' = TRUE
    /\ End(s)
    /\ UNCHANGED <<disk, chain, issues, hasEvents, drawn, faults>>

-----------------------------------------------------------------------------
(* Faults.                                                                 *)

(* A put or a list fails; the handler ends.                                *)
CallFails(s) ==
    /\ Fault
    /\ rq[s].pc \in {"put", "list", "set", "putEvent"}
    /\ End(s)
    /\ UNCHANGED <<disk, chain, issues, hasEvents, savedEvents, drawn>>

(* commitEventMutation fails without an answer, whether it has committed   *)
(* or not: the prefix is restored, nothing is read again.                  *)
LoseMutation(s) ==
    /\ Fault
    /\ rq[s].pc = "commit"
    /\ Commit(rq[s].audit) \/ UNCHANGED disk
    /\ RestorePrefix(s)
    /\ End(s)
    /\ UNCHANGED <<hasEvents, savedEvents, drawn>>

(* onModuleInit.                                                           *)
Restart ==
    /\ Fault
    /\ chain' = Canonical(disk)
    /\ issues' = Issues(disk)
    /\ hasEvents' = savedEvents
    /\ rq' = [s \in Slot |-> Idle]
    /\ UNCHANGED <<disk, savedEvents, drawn>>

-----------------------------------------------------------------------------
Next ==
    \/ \E s \in Slot :
          \/ \E op \in {"interpret", "audit", "mutate"} : AppendAudit(s, op)
          \/ LandAudit(s) \/ RefuseMutation(s) \/ ThrowMutation(s)
          \/ StopUnwinding(s) \/ CutAgain(s)
          \/ ListAudits(s) \/ SetAudits(s) \/ AddEvent(s) \/ LandEvent(s)
          \/ CallFails(s) \/ LoseMutation(s)
    \/ CommitOther
    \/ Restart

Spec == Init /\ [][Next]_vars

-----------------------------------------------------------------------------
(* Properties.                                                             *)

(* Every variable keeps its type; what is listed was on disk.              *)
TypeOK ==
    /\ disk \subseteq Evidence
    /\ chain \in Seq(Audit)
    /\ issues \subseteq Issue
    /\ hasEvents \in BOOLEAN /\ savedEvents \in BOOLEAN
    /\ drawn \in Nat /\ faults \in Nat
    /\ rq \in [Slot -> Request]
    /\ \A s \in Slot : rq[s].list \subseteq disk

(* The chain on disk is always one complete chain; and as long as only the *)
(* event service commits to it, no audited request is refused, however the *)
(* lists that are read, cut back and replaced in memory overtake each      *)
(* other, fail or are lost.                                                *)
Alone == Valid(disk) = disk

NotRefusedAlone == Complete(disk) /\ (Alone => ~Refused)

(* "The tenant audit chain is empty, incomplete, invalid, gapped, or       *)
(* forked; audited mutation is disabled until the chain is repaired": no   *)
(* audited request is refused while the chain on disk is complete, whoever *)
(* commits to it.                                                          *)
RefusedOnlyIfBroken == Refused => ~Complete(disk)
=============================================================================
