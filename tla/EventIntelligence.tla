------------------------- MODULE EventIntelligence --------------------------
(***************************************************************************)
(* Review, approval, application and rollback of intelligence events       *)
(* (apps/api/src/event-intelligence.service.ts) over the shared synthetic  *)
(* projection (event-projection.service.ts), for one tenant: one API       *)
(* process with its maps, and the database.  A handler runs without        *)
(* interruption between two awaits; at an await every other handler may    *)
(* run.  commitEventMutation is one atomic step here: MutationStore models *)
(* its inside and shows why that is so.                                    *)
(*                                                                         *)
(* JavaScript handlers hold references to the record objects in the maps.  *)
(* A handler that holds the map's object sees later changes of it (live);  *)
(* once the map gets another object, the handler keeps the old one (own).  *)
(* With two requests in flight no third one shares an old object.          *)
(***************************************************************************)
EXTENDS Naturals, FiniteSets

CONSTANTS
    Event,        \* intelligence events of the tenant
    Approval,     \* ids that approval requests draw
    Slot,         \* requests in flight
    Key,          \* Idempotency-Key values
    Verdict,      \* the verdicts reviewers give: modes, or "rejected"
    Note,         \* what a reviewer may write into the reviewed payload
    Ready,        \* events that are approved and persisted when a run begins
    MaxVer,       \* bound: version of an event up to which requests start
    MaxProj,      \* bound: version of the projection
    MaxFaults,    \* bound: failed statements, lost answers, restarts in a run
    NoReview,     \* reviewed_payload_hash = null
    NoApproval,   \* no approval record
    NoApplication \* no application record

ASSUME EventAssumption ==
    /\ Ready \subseteq Event
    /\ Verdict \subseteq {"reality", "scenario", "rejected"}
    /\ MaxVer \in Nat /\ MaxProj \in Nat /\ MaxFaults \in Nat
    /\ IsFiniteSet(Ready) /\ IsFiniteSet(Approval)
    /\ Cardinality(Ready) <= Cardinality(Approval)
    /\ NoApproval \notin Approval
    /\ Event # {} /\ Key # {} /\ Note # {}   \* an idle request names one of each

VARIABLES
    \* the process: its maps
    mEv, mAp, mApp, mProj, mRc,
    \* the database: committed records
    dEv, dAp, dApp, dProj, dRc,
    expired,     \* approvals whose expires_at has passed
    faults,      \* how many faults have happened, for the bound
    rq           \* [Slot -> the request in flight]

memory == <<mEv, mAp, mApp, mProj, mRc>>
environment == <<expired, faults>>
database == <<dEv, dAp, dApp, dProj, dRc>>
vars == <<mEv, mAp, mApp, mProj, mRc, dEv, dAp, dApp, dProj, dRc, expired,
          faults, rq>>

-----------------------------------------------------------------------------
Role == {"operations", "security"}
Mode == {"reality", "scenario"}
EventStatus == {"new", "reviewed", "approval_pending", "approved", "applied",
                "rolled_back", "rejected"}
Terminal == {"applied", "rolled_back", "rejected"}
ApprovalStatus == {"pending", "approved", "denied", "cancelled", "executed"}

(* A projection: its version, and the facts whose hash is its state_hash.  *)
Projection == [ver : Nat, facts : SUBSET Event]

(* A reviewed payload is its hash: what was reviewed, and the snapshot of  *)
(* the projection it was reviewed against.                                 *)
Review == [mode : Mode, note : Note, snap : Projection]

EventRec == [ver : Nat, status : EventStatus, rv : Review \cup {NoReview},
             by : Approval \cup {NoApproval}]
ApprovalRec == [ev : Event, rv : Review, ver : Nat, status : ApprovalStatus,
                ok : SUBSET Role]
Application == [mode : Mode, ap : Approval, before : Projection, after : Projection]
Receipt == [op : {"apply", "rollback"}, ev : Event, key : Key, ap : Approval,
            ver : Nat, rv : Review, before : Projection, after : Projection]

Op == {"none", "review", "request", "decide", "apply", "rollback"}
Outcome == {"none", "replayed", "conflict", "failed"}

Pc == {"idle", "audit", "putAp", "landAp", "putEv", "landEv",
       "commit", "committed", "unwind", "reload", "readEv", "setEv"}

EmptyProjection == [ver |-> 1, facts |-> {}]

NewEvent == [ver |-> 1, status |-> "new", rv |-> NoReview, by |-> NoApproval]

ReadyReview == [mode |-> "reality", note |-> CHOOSE n \in Note : TRUE,
                snap |-> EmptyProjection]

(* review, request and two decisions lie behind it. *)
ReadyEvent == [ver |-> 4, status |-> "approved", rv |-> ReadyReview, by |-> NoApproval]

ReadyApproval == CHOOSE f \in [Ready -> Approval] :
                    \A d, e \in Ready : f[d] = f[e] => d = e

InitialApprovals ==
    [a \in Approval |->
        IF \E e \in Ready : ReadyApproval[e] = a
        THEN [ev |-> CHOOSE e \in Ready : ReadyApproval[e] = a,
              rv |-> ReadyReview, ver |-> 2, status |-> "approved", ok |-> Role]
        ELSE NoApproval]

(* own, apOwn: the objects the handler holds itself; text, apText: what it *)
(* has serialised; before, after: the projection around its transition;    *)
(* old: the receipts the database answered with; outcome: how it answered. *)
RequestRec ==
    [pc : Pc, op : Op, ev : Event, ap : Approval \cup {NoApproval}, key : Key,
     live : BOOLEAN, own : EventRec,
     apLive : BOOLEAN, apOwn : ApprovalRec \cup {NoApproval},
     text : EventRec, apText : ApprovalRec \cup {NoApproval},
     before : Projection, after : Projection,
     old : SUBSET Receipt, outcome : Outcome]

IdleRequest ==
    [pc |-> "idle", op |-> "none", ev |-> CHOOSE e \in Event : TRUE,
     ap |-> NoApproval, key |-> CHOOSE k \in Key : TRUE,
     live |-> FALSE, own |-> NewEvent, apLive |-> FALSE, apOwn |-> NoApproval,
     text |-> NewEvent, apText |-> NoApproval,
     before |-> EmptyProjection, after |-> EmptyProjection,
     old |-> {}, outcome |-> "none"]

Init ==
    /\ dEv = [e \in Event |-> IF e \in Ready THEN ReadyEvent ELSE NewEvent]
    /\ dAp = InitialApprovals
    /\ dApp = [e \in Event |-> NoApplication]
    /\ dProj = EmptyProjection
    /\ dRc = {}
    /\ mEv = dEv /\ mAp = dAp /\ mApp = dApp /\ mProj = dProj /\ mRc = dRc
    /\ expired = {}
    /\ faults = 0
    /\ rq = [s \in Slot |-> IdleRequest]

-----------------------------------------------------------------------------
(* Objects.                                                                *)

EventOf(s) == IF rq[s].live THEN mEv[rq[s].ev] ELSE rq[s].own
ApprovalOf(s) == IF rq[s].apLive THEN mAp[rq[s].ap] ELSE rq[s].apOwn

(* The map gets another object for e (for a): holders keep the old one.    *)
DetachEvent(q, e) ==
    [s \in Slot |-> IF q[s].live /\ q[s].ev = e
                    THEN [q[s] EXCEPT !.live = FALSE, !.own = mEv[e]] ELSE q[s]]
DetachApproval(q, a) ==
    [s \in Slot |-> IF q[s].apLive /\ q[s].ap = a
                    THEN [q[s] EXCEPT !.apLive = FALSE, !.apOwn = mAp[a]] ELSE q[s]]

Begin(s, request) ==
    /\ rq[s].pc = "idle"
    /\ rq' = [rq EXCEPT ![s] = request]

End(s) == rq' = [rq EXCEPT ![s] = IdleRequest]
Goto(s, pc) == rq' = [rq EXCEPT ![s].pc = pc]

Fault == faults < MaxFaults /\ faults' = faults + 1

-----------------------------------------------------------------------------
(* review                                                                  *)

(* Reality requires a confirmed claim, so a rejected one is a scenario.    *)
ReviewedEvent(e, verdict, note) ==
    [mEv[e] EXCEPT !.ver = @ + 1,
                   !.status = IF verdict = "rejected" THEN "rejected" ELSE "reviewed",
                   !.rv = [mode |-> IF verdict = "reality" THEN "reality" ELSE "scenario",
                           note |-> note, snap |-> mProj]]

(* It works on a clone, which the map gets after the audit is persisted.   *)
StartReview(s, e, verdict, note) ==
    /\ mEv[e].status \notin Terminal
    /\ mEv[e].ver < MaxVer
    /\ Begin(s, [IdleRequest EXCEPT !.pc = "audit", !.op = "review", !.ev = e,
                                    !.own = ReviewedEvent(e, verdict, note)])
    /\ UNCHANGED <<memory, database, environment>>

InstallReview(s) ==
    LET e == rq[s].ev IN
    /\ rq[s].pc = "audit"
    /\ rq[s].op = "review"
    /\ mEv' = [mEv EXCEPT ![e] = rq[s].own]
    /\ rq' = [DetachEvent(rq, e) EXCEPT ![s].pc = "putEv", ![s].live = TRUE]
    /\ UNCHANGED <<mAp, mApp, mProj, mRc, database, environment>>

-----------------------------------------------------------------------------
(* requestApproval                                                         *)

FreshApprovals ==
    {a \in Approval : /\ mAp[a] = NoApproval /\ dAp[a] = NoApproval
                      /\ \A s \in Slot : rq[s].ap # a}

StartRequestApproval(s, e) ==
    /\ mEv[e].status = "reviewed"
    /\ mEv[e].rv # NoReview
    /\ mEv[e].ver < MaxVer
    /\ FreshApprovals # {}
    /\ Begin(s, [IdleRequest EXCEPT !.pc = "audit", !.op = "request", !.ev = e,
                                    !.ap = CHOOSE a \in FreshApprovals : TRUE,
                                    !.live = TRUE])
    /\ UNCHANGED <<memory, database, environment>>

NewApproval(event, e) ==
    [ev |-> e, rv |-> event.rv, ver |-> event.ver,
     status |-> IF event.rv.mode = "scenario" THEN "approved" ELSE "pending",
     ok |-> {}]

(* Mutant: the event takes over the approval's status. *)
RequestedEventAsApproval(event) ==
    [event EXCEPT !.ver = @ + 1,
                  !.status = IF event.rv.mode = "scenario" THEN "approved" ELSE "pending"]

RequestedEvent(event) ==
    [event EXCEPT !.ver = @ + 1,
                  !.status = IF event.rv.mode = "scenario" THEN "approved"
                             ELSE "approval_pending"]

(* After the audit nothing is checked again: the approval and the event    *)
(* are written from the object as it is now.                               *)
CreateApproval(s) ==
    LET e == rq[s].ev
        a == rq[s].ap
        event == EventOf(s)
    IN
    /\ rq[s].pc = "audit"
    /\ rq[s].op = "request"
    /\ mAp' = [mAp EXCEPT ![a] = NewApproval(event, e)]
    /\ IF rq[s].live
       THEN /\ mEv' = [mEv EXCEPT ![e] = RequestedEvent(event)]
            /\ rq' = [rq EXCEPT ![s].pc = "putAp", ![s].apLive = TRUE]
       ELSE /\ rq' = [rq EXCEPT ![s].pc = "putAp", ![s].apLive = TRUE,
                                ![s].own = RequestedEvent(event)]
            /\ UNCHANGED mEv
    /\ UNCHANGED <<mApp, mProj, mRc, database, environment>>

-----------------------------------------------------------------------------
(* decideApproval: both records change before the first await, whatever    *)
(* the event's status or its reviewed payload is by now.                   *)

(* Mutant: some role has approved, instead of every one. *)
DecidedStatusAny(approval, role, approve) == IF approve THEN "approved" ELSE "denied"

DecidedStatus(approval, role, approve) ==
    IF ~approve THEN "denied"
    ELSE IF approval.ok \cup {role} = Role THEN "approved" ELSE "pending"

DecidedEvent(event, status) ==
    IF status = "approved" THEN [event EXCEPT !.status = "approved", !.ver = @ + 1]
    ELSE IF status = "denied" THEN [event EXCEPT !.status = "reviewed", !.ver = @ + 1]
    ELSE event

Decide(s, a, role, approve) ==
    LET e == mAp[a].ev
        status == DecidedStatus(mAp[a], role, approve)
    IN
    /\ mAp[a] # NoApproval
    /\ mAp[a].rv.mode = "reality"
    /\ mAp[a].status = "pending"
    /\ a \notin expired
    /\ role \notin mAp[a].ok
    /\ mEv[e].ver < MaxVer
    /\ mAp' = [mAp EXCEPT ![a].status = status,
                          ![a].ok = IF approve THEN @ \cup {role} ELSE @]
    /\ mEv' = [mEv EXCEPT ![e] = DecidedEvent(@, status)]
    /\ Begin(s, [IdleRequest EXCEPT !.pc = "audit", !.op = "decide", !.ev = e, !.ap = a,
                                    !.live = TRUE, !.apLive = TRUE])
    /\ UNCHANGED <<mApp, mProj, mRc, database, environment>>

ExpiredEvent(event) ==
    IF event.status = "approval_pending"
    THEN [event EXCEPT !.status = "reviewed", !.ver = @ + 1] ELSE event

DecideExpired(s, a) ==
    LET e == mAp[a].ev IN
    /\ mAp[a] # NoApproval
    /\ mAp[a].rv.mode = "reality"
    /\ mAp[a].status = "pending"
    /\ a \in expired
    /\ mEv[e].ver < MaxVer
    /\ mAp' = [mAp EXCEPT ![a].status = "cancelled"]
    /\ mEv' = [mEv EXCEPT ![e] = ExpiredEvent(@)]
    /\ Begin(s, [IdleRequest EXCEPT !.pc = "audit", !.op = "decide", !.ev = e, !.ap = a,
                                    !.live = TRUE, !.apLive = TRUE])
    /\ UNCHANGED <<mApp, mProj, mRc, database, environment>>

DecisionAudited(s) ==
    /\ rq[s].pc = "audit"
    /\ rq[s].op = "decide"
    /\ Goto(s, "putAp")
    /\ UNCHANGED <<memory, database, environment>>

-----------------------------------------------------------------------------
(* database.put: the payload is serialised when the connection is there,   *)
(* and overwrites the record when the statement gets through.              *)

SerialiseApproval(s) ==
    /\ rq[s].pc = "putAp"
    /\ rq' = [rq EXCEPT ![s].pc = "landAp", ![s].apText = ApprovalOf(s)]
    /\ UNCHANGED <<memory, database, environment>>

LandApproval(s) ==
    /\ rq[s].pc = "landAp"
    /\ dAp' = [dAp EXCEPT ![rq[s].ap] = rq[s].apText]
    /\ Goto(s, "putEv")
    /\ UNCHANGED <<memory, dEv, dApp, dProj, dRc, environment>>

SerialiseEvent(s) ==
    /\ rq[s].pc = "putEv"
    /\ rq' = [rq EXCEPT ![s].pc = "landEv", ![s].text = EventOf(s)]
    /\ UNCHANGED <<memory, database, environment>>

LandEvent(s) ==
    /\ rq[s].pc = "landEv"
    /\ dEv' = [dEv EXCEPT ![rq[s].ev] = rq[s].text]
    /\ End(s)
    /\ UNCHANGED <<memory, dAp, dApp, dProj, dRc, environment>>

(* The audit or a put fails: the handler ends, the maps stay as they are.  *)
StatementFails(s) ==
    /\ Fault
    /\ rq[s].pc \in {"audit", "putAp", "landAp", "putEv", "landEv"}
    /\ End(s)
    /\ UNCHANGED <<memory, database, expired>>

-----------------------------------------------------------------------------
(* apply and rollback, up to the call of commitEventMutation.  The map's   *)
(* projection moves before the database is asked.                          *)

Known(receipts, op, e, key) ==
    {x \in receipts : x.op = op /\ x.ev = e /\ x.key = key}

ApplyGuards(e, a) ==
    LET event == mEv[e]
        approval == mAp[a]
    IN
    /\ event.status = "approved"
    /\ event.rv # NoReview
    /\ approval # NoApproval
    /\ approval.ev = e
    /\ approval.status = "approved"
    /\ approval.rv = event.rv
    /\ event.ver = approval.ver + (IF approval.rv.mode = "reality" THEN 2 ELSE 1)
    /\ a \notin expired

(* applyExact: the current version and hash must be the expected ones.     *)
ApplyExact(before, e) == [ver |-> before.ver + 1, facts |-> before.facts \cup {e}]

(* rollbackExact: the old content under a new version.                     *)
RollbackExact(before, restore) == [ver |-> before.ver + 1, facts |-> restore.facts]

Mutation(op, e, a, key, before, after) ==
    [IdleRequest EXCEPT !.pc = "commit", !.op = op, !.ev = e, !.ap = a, !.key = key,
                        !.own = mEv[e], !.apOwn = mAp[a], !.before = before, !.after = after]

AfterApply(e) ==
    IF mEv[e].rv.mode = "reality" THEN ApplyExact(mProj, e) ELSE mProj

StartApply(s, e, a, key) ==
    /\ Known(mRc, "apply", e, key) = {}
    /\ ApplyGuards(e, a)
    /\ mEv[e].rv.snap = mProj
    /\ mProj.ver < MaxProj
    /\ mProj' = AfterApply(e)
    /\ Begin(s, Mutation("apply", e, a, key, mProj, AfterApply(e)))
    /\ UNCHANGED <<mEv, mAp, mApp, mRc, database, environment>>

(* appendAudit refuses because the chain in memory is incomplete for the   *)
(* moment: the exception leaves apply before its try block.                *)
ApplyRefusedByAudit(e, a, key) ==
    /\ Fault
    /\ Known(mRc, "apply", e, key) = {}
    /\ ApplyGuards(e, a)
    /\ mEv[e].rv.snap = mProj
    /\ mProj.ver < MaxProj
    /\ mProj' = AfterApply(e)
    /\ UNCHANGED <<mEv, mAp, mApp, mRc, database, expired, rq>>

(* Mutant: the projection may have moved on. *)
RollbackGuardsAnyProjection(e) ==
    /\ mEv[e].status = "applied"
    /\ mEv[e].by # NoApproval
    /\ mApp[e] # NoApplication
    /\ mEv[e].rv.mode = "reality" => mApp[e].mode = "reality"

(* A scenario's rollback touches its branch only; in reality the current   *)
(* projection must be the one the application left.  What a scenario's     *)
(* application left is its branch, whose hash no projection has.           *)
RollbackGuards(e) ==
    /\ mEv[e].status = "applied"
    /\ mEv[e].by # NoApproval
    /\ mApp[e] # NoApplication
    /\ mEv[e].rv.mode = "reality" => mApp[e].mode = "reality" /\ mProj = mApp[e].after

AfterRollback(e) ==
    IF mEv[e].rv.mode = "reality" THEN RollbackExact(mProj, mApp[e].before) ELSE mProj

StartRollback(s, e, key) ==
    /\ Known(mRc, "rollback", e, key) = {}
    /\ RollbackGuards(e)
    /\ mProj.ver < MaxProj
    /\ mProj' = AfterRollback(e)
    /\ Begin(s, Mutation("rollback", e, mApp[e].ap, key, mProj, AfterRollback(e)))
    /\ UNCHANGED <<mEv, mAp, mApp, mRc, database, environment>>

RollbackRefusedByAudit(e, key) ==
    /\ Fault
    /\ Known(mRc, "rollback", e, key) = {}
    /\ RollbackGuards(e)
    /\ mProj.ver < MaxProj
    /\ mProj' = AfterRollback(e)
    /\ UNCHANGED <<mEv, mAp, mApp, mRc, database, expired, rq>>

-----------------------------------------------------------------------------
(* commitEventMutation.                                                    *)

NextEvent(s) ==
    [rq[s].own EXCEPT !.ver = @ + 1,
                      !.status = IF rq[s].op = "apply" THEN "applied" ELSE "rolled_back",
                      !.by = rq[s].ap]

ExecutedApproval(s) == [rq[s].apOwn EXCEPT !.status = "executed"]

ApplicationOf(s) == [mode |-> rq[s].own.rv.mode, ap |-> rq[s].ap,
                     before |-> rq[s].before, after |-> rq[s].after]

ReceiptOf(s) ==
    [op |-> rq[s].op, ev |-> rq[s].ev, key |-> rq[s].key, ap |-> rq[s].ap,
     ver |-> rq[s].own.ver, rv |-> rq[s].own.rv,
     before |-> rq[s].before, after |-> rq[s].after]

Reality(s) == rq[s].own.rv.mode = "reality"

SameBody(x, s) == x.ver = rq[s].own.ver /\ x.ap = rq[s].ap /\ x.rv = rq[s].own.rv

(* Mutants: one of the two records is not compared. *)
AsExpectedEvent(s) == dEv[rq[s].ev] = rq[s].own
AsExpectedProjection(s) == (Reality(s) \/ rq[s].op = "apply") => dProj = rq[s].before

(* The expected records: the event by version, status and ETag, and the    *)
(* projection by version and hash unless a scenario is rolled back.        *)
AsExpected(s) ==
    /\ dEv[rq[s].ev] = rq[s].own
    /\ (Reality(s) \/ rq[s].op = "apply") => dProj = rq[s].before

ReservedNever(s) == {}   \* mutant: no idempotency row

Reserved(s) == Known(dRc, rq[s].op, rq[s].ev, rq[s].key)

CommitMutation(s) ==
    /\ rq[s].pc = "commit"
    /\ Reserved(s) = {}
    /\ AsExpected(s)
    /\ dEv' = [dEv EXCEPT ![rq[s].ev] = NextEvent(s)]
    /\ dRc' = dRc \cup {ReceiptOf(s)}
    /\ IF rq[s].op = "apply"
       THEN /\ dAp' = [dAp EXCEPT ![rq[s].ap] = ExecutedApproval(s)]
            /\ dApp' = [dApp EXCEPT ![rq[s].ev] = ApplicationOf(s)]
       ELSE UNCHANGED <<dAp, dApp>>
    /\ dProj' = IF Reality(s) THEN rq[s].after ELSE dProj
    /\ Goto(s, "committed")
    /\ UNCHANGED <<memory, environment>>

ReplayMutation(s) ==
    /\ rq[s].pc = "commit"
    /\ \E x \in Reserved(s) : SameBody(x, s)
    /\ rq' = [rq EXCEPT ![s].pc = "unwind", ![s].outcome = "replayed", ![s].old = Reserved(s)]
    /\ UNCHANGED <<memory, database, environment>>

RefuseMutation(s) ==
    /\ rq[s].pc = "commit"
    /\ \/ Reserved(s) = {} /\ ~AsExpected(s)
       \/ \E x \in Reserved(s) : ~SameBody(x, s)
    /\ rq' = [rq EXCEPT ![s].pc = "unwind", ![s].outcome = "conflict"]
    /\ UNCHANGED <<memory, database, environment>>

(* The call fails without an answer, before the commit or after it.        *)
LoseMutation(s) ==
    /\ Fault
    /\ rq[s].pc \in {"commit", "committed"}
    /\ rq' = [rq EXCEPT ![s].pc = "unwind", ![s].outcome = "failed"]
    /\ UNCHANGED <<memory, database, expired>>

(* The answer is a success: the maps follow.                               *)
FinishMutation(s) ==
    LET e == rq[s].ev
        a == rq[s].ap
        held == DetachEvent(rq, e)
    IN
    /\ rq[s].pc = "committed"
    /\ mEv' = [mEv EXCEPT ![e] = NextEvent(s)]
    /\ mRc' = mRc \cup {ReceiptOf(s)}
    /\ IF rq[s].op = "apply"
       THEN /\ mAp' = [mAp EXCEPT ![a] = ExecutedApproval(s)]
            /\ mApp' = [mApp EXCEPT ![e] = ApplicationOf(s)]
            /\ rq' = [DetachApproval(held, a) EXCEPT ![s] = IdleRequest]
       ELSE /\ UNCHANGED <<mAp, mApp>>
            /\ rq' = [held EXCEPT ![s] = IdleRequest]
    /\ UNCHANGED <<mProj, database, environment>>

-----------------------------------------------------------------------------
(* restoreUncommitted and reloadAuthoritativeMutation.                     *)

(* If the projection is no longer what this request made of it, the        *)
(* restore throws and nothing else of the unwinding takes place.           *)
UnwindThrows(s) ==
    /\ rq[s].pc = "unwind"
    /\ rq[s].before # rq[s].after
    /\ mProj # rq[s].after
    /\ End(s)
    /\ UNCHANGED <<memory, database, environment>>

Unwind(s) ==
    /\ rq[s].pc = "unwind"
    /\ IF rq[s].before = rq[s].after THEN UNCHANGED mProj
       ELSE mProj = rq[s].after /\ mProj' = rq[s].before
    /\ IF rq[s].outcome = "failed" THEN End(s) ELSE Goto(s, "reload")
    /\ UNCHANGED <<mEv, mAp, mApp, mRc, database, environment>>

(* hydrate never takes the version back and never replaces a content under *)
(* the same version: it throws, and the reload ends there.                 *)
CanHydrate == dProj.ver > mProj.ver \/ dProj = mProj

Hydrate(s) ==
    /\ rq[s].pc = "reload"
    /\ CanHydrate
    /\ mProj' = dProj
    /\ Goto(s, "readEv")
    /\ UNCHANGED <<mEv, mAp, mApp, mRc, database, environment>>

(* A replay reloads inside the try block: when that fails, the catch block *)
(* unwinds once more, and undoes a hydrated transition that looks the same.*)
UnwindAgain(s) ==
    mProj' = IF /\ rq[s].outcome = "replayed"
                /\ rq[s].before # rq[s].after
                /\ mProj = rq[s].after
             THEN rq[s].before ELSE mProj

HydrateThrows(s) ==
    /\ rq[s].pc = "reload"
    /\ ~CanHydrate
    /\ UnwindAgain(s)
    /\ End(s)
    /\ UNCHANGED <<mEv, mAp, mApp, mRc, database, environment>>

ReadEvent(s) ==
    /\ rq[s].pc = "readEv"
    /\ rq' = [rq EXCEPT ![s].pc = "setEv", ![s].text = dEv[rq[s].ev]]
    /\ UNCHANGED <<memory, database, environment>>

(* The event read is set, whatever happened to the map since; a replay     *)
(* also brings the receipt and its approval.                               *)
SetEvent(s) ==
    LET e == rq[s].ev
        held == DetachEvent(rq, e)
    IN
    /\ rq[s].pc = "setEv"
    /\ mEv' = [mEv EXCEPT ![e] = rq[s].text]
    /\ mApp' = [mApp EXCEPT ![e] = IF dApp[e] = NoApplication THEN @ ELSE dApp[e]]
    /\ mRc' = mRc \cup rq[s].old
    /\ IF rq[s].outcome = "replayed"
       THEN LET a == rq[s].ap IN
            /\ mAp' = [mAp EXCEPT ![a] = dAp[a]]
            /\ rq' = [DetachApproval(held, a) EXCEPT ![s] = IdleRequest]
       ELSE /\ UNCHANGED mAp
            /\ rq' = [held EXCEPT ![s] = IdleRequest]
    /\ UNCHANGED <<mProj, database, environment>>

(* The database fails while the records are read again.                    *)
ReloadFails(s) ==
    /\ Fault
    /\ rq[s].pc \in {"reload", "readEv", "setEv"}
    /\ UnwindAgain(s)
    /\ End(s)
    /\ UNCHANGED <<mEv, mAp, mApp, mRc, database, expired>>

-----------------------------------------------------------------------------
(* The process dies with every request in flight; onModuleInit loads the   *)
(* maps from the database.                                                 *)
Restart ==
    /\ Fault
    /\ mEv' = dEv /\ mAp' = dAp /\ mApp' = dApp /\ mProj' = dProj /\ mRc' = dRc
    /\ rq' = [s \in Slot |-> IdleRequest]
    /\ UNCHANGED <<database, expired>>

(* Fifteen minutes have passed since the approval was requested; only of   *)
(* a pending or an approved one is that ever asked.                        *)
Expire(a) ==
    /\ mAp[a] # NoApproval
    /\ mAp[a].status \in {"pending", "approved"}
    /\ a \notin expired
    /\ expired' = expired \cup {a}
    /\ UNCHANGED <<memory, database, faults, rq>>

Handler(s) ==
    \/ InstallReview(s) \/ CreateApproval(s) \/ DecisionAudited(s)
    \/ SerialiseApproval(s) \/ LandApproval(s) \/ SerialiseEvent(s) \/ LandEvent(s)
    \/ StatementFails(s)
    \/ CommitMutation(s) \/ ReplayMutation(s) \/ RefuseMutation(s) \/ LoseMutation(s)
    \/ FinishMutation(s) \/ UnwindThrows(s) \/ Unwind(s)
    \/ Hydrate(s) \/ HydrateThrows(s) \/ ReadEvent(s) \/ SetEvent(s) \/ ReloadFails(s)

Request(s) ==
    \/ \E e \in Event, verdict \in Verdict, note \in Note : StartReview(s, e, verdict, note)
    \/ \E e \in Event : StartRequestApproval(s, e)
    \/ \E a \in Approval, role \in Role, approve \in BOOLEAN : Decide(s, a, role, approve)
    \/ \E a \in Approval : DecideExpired(s, a)
    \/ \E e \in Event, a \in Approval, key \in Key : StartApply(s, e, a, key)
    \/ \E e \in Event, key \in Key : StartRollback(s, e, key)

Next ==
    \/ \E s \in Slot : Request(s) \/ Handler(s)
    \/ \E e \in Event, a \in Approval, key \in Key : ApplyRefusedByAudit(e, a, key)
    \/ \E e \in Event, key \in Key : RollbackRefusedByAudit(e, key)
    \/ \E a \in Approval : Expire(a)
    \/ Restart

Spec == Init /\ [][Next]_vars

-----------------------------------------------------------------------------
(* Properties.                                                             *)

(* Every variable keeps its type.                                          *)
TypeOK ==
    /\ mEv \in [Event -> EventRec] /\ dEv \in [Event -> EventRec]
    /\ mAp \in [Approval -> ApprovalRec \cup {NoApproval}]
    /\ dAp \in [Approval -> ApprovalRec \cup {NoApproval}]
    /\ mApp \in [Event -> Application \cup {NoApplication}]
    /\ dApp \in [Event -> Application \cup {NoApplication}]
    /\ mProj \in Projection /\ dProj \in Projection
    /\ mRc \subseteq Receipt /\ dRc \subseteq Receipt
    /\ expired \subseteq Approval /\ faults \in Nat
    /\ rq \in [Slot -> RequestRec]

RealReceipts == {x \in dRc : x.rv.mode = "reality"}

(* The receipts of reality on disk are the history of the projection on    *)
(* disk: one receipt leads from each version to the next, its before-state *)
(* is the after-state of the one before it, the last one made the current  *)
(* projection, and no version is without a receipt.                        *)
ReceiptChain ==
    /\ \A x \in RealReceipts : x.after.ver = x.before.ver + 1 /\ x.after.ver <= dProj.ver
    /\ \A x, y \in RealReceipts : x.after.ver = y.after.ver => x = y
    /\ \A x \in RealReceipts :
          /\ x.before = EmptyProjection \/ \E y \in RealReceipts : y.after = x.before
          /\ x.after = dProj \/ \E y \in RealReceipts : y.before = x.after
    /\ dProj = EmptyProjection \/ \E x \in RealReceipts : x.after = dProj

(* An apply is committed only under an approval that is executed with it,  *)
(* that both roles gave if it is for reality, for exactly this payload,    *)
(* and that was reviewed against exactly the projection it now changes -   *)
(* whichever reviews, requests and decisions ran in between.               *)
AppliedAsApproved ==
    [][\A x \in dRc' \ dRc : x.op = "apply" =>
          /\ dAp'[x.ap].status = "executed"
          /\ dAp'[x.ap].ev = x.ev
          /\ dAp'[x.ap].rv = x.rv /\ dEv'[x.ev].rv = x.rv
          /\ x.rv.mode = "reality" => dAp'[x.ap].ok = Role
          /\ x.rv.snap = dProj]_vars

(* A receipt is a legal step of the event as it is on disk, not only as    *)
(* the maps have it: an apply leaves an approved event applied, a rollback *)
(* an applied one rolled back, at the next version - although puts that    *)
(* compare nothing write the same record.                                  *)
LegalOnDisk ==
    [][\A x \in dRc' \ dRc :
          /\ dEv[x.ev].status = (IF x.op = "apply" THEN "approved" ELSE "applied")
          /\ dEv[x.ev].ver = x.ver /\ dEv[x.ev].rv = x.rv
          /\ dEv'[x.ev].ver = x.ver + 1]_vars

(* A rollback in reality undoes exactly one application of its event: the  *)
(* one that made the version it starts from, and it brings back the facts  *)
(* that application found.                                                 *)
RollbackRestores ==
    \A x \in RealReceipts : x.op = "rollback" =>
        \E y \in RealReceipts :
            /\ y.op = "apply" /\ y.ev = x.ev /\ y.ap = x.ap
            /\ y.after = x.before
            /\ x.after.facts = y.before.facts

(* The disk implements EventHistory: whatever the handlers, their failures *)
(* and restarts do, it moves only as one complete apply or rollback at a   *)
(* time says, from the projection the apply was reviewed against, and back *)
(* only if nothing was applied since.                                      *)
History == INSTANCE EventHistory WITH Empty <- EmptyProjection,
                                      projection <- dProj, receipts <- dRc
HistorySpec == History!Spec

(* One request, however often it is repeated, unwound, replayed or lost    *)
(* over a restart, has one receipt; the process never knows of a receipt   *)
(* that is not on disk.                                                    *)
OneReceiptPerRequest ==
    /\ \A x, y \in dRc : (x.op = y.op /\ x.ev = y.ev /\ x.key = y.key) => x = y
    /\ mRc \subseteq dRc

(* "Event status applied is terminal; create a superseding event instead   *)
(* of rewriting its application history."                                  *)
AppliedIsTerminal ==
    [][\A e \in Event : dEv[e].status = "applied" =>
                            dEv'[e].status \in {"applied", "rolled_back"}]_vars
=============================================================================
