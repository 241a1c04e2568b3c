---------------------- MODULE EventIntelligence_proofs ----------------------
(***************************************************************************)
(* For any number of events, approvals, requests in flight and faults:     *)
(* types, the history of the projection, what a rollback undoes, one       *)
(* receipt per request, and what an apply on disk has behind it.           *)
(***************************************************************************)
EXTENDS EventIntelligence, TLAPS

-----------------------------------------------------------------------------
(* The inductive invariant, part by part.  rc stands for the receipts on   *)
(* disk: whatever is said of them stays true when there are more.          *)

(* Only a reviewed event is ever applied.                                  *)
EventOK(v) ==
    /\ v \in EventRec
    /\ v.status = "applied" => v.rv # NoReview

(* In every copy of an approval: approved for reality by both roles.       *)
ApprovalOK(a) ==
    /\ a \in ApprovalRec \cup {NoApproval}
    /\ (a # NoApproval /\ a.rv.mode = "reality" /\ a.status \in {"approved", "executed"})
          => a.ok = Role

(* The projections m names are those of a committed apply of e.            *)
Applied(rc, e, m) ==
    \E y \in rc : /\ y.rv.mode = "reality" /\ y.op = "apply"
                  /\ y.ev = e /\ y.ap = m.ap
                  /\ y.before = m.before /\ y.after = m.after

ApplicationOK(rc, e, m) ==
    /\ m \in Application \cup {NoApplication}
    /\ (m # NoApplication /\ m.mode = "reality") => Applied(rc, e, m)

(* The rollback r starts from what an apply of its event committed, and    *)
(* brings back the facts that apply found.                                 *)
Undoes(rc, r) ==
    \E y \in rc : /\ y.rv.mode = "reality" /\ y.op = "apply"
                  /\ y.ev = r.ev /\ y.ap = r.ap
                  /\ y.after = r.before
                  /\ r.after.facts = y.before.facts

(* Before and while its commit is under way a request holds copies of its  *)
(* own, and what its guards saw holds of them.                             *)
Prepared(rc, r) ==
    /\ ~r.live /\ ~r.apLive
    /\ r.own.rv # NoReview
    /\ r.own.status = IF r.op = "apply" THEN "approved" ELSE "applied"
    /\ r.own.rv.mode = "reality" => r.after.ver = r.before.ver + 1
    /\ r.op = "apply" => /\ r.apOwn # NoApproval
                         /\ r.apOwn.ev = r.ev /\ r.apOwn.rv = r.own.rv
                         /\ r.apOwn.status = "approved"
                         /\ r.own.rv.snap = r.before
    /\ (r.op = "apply" /\ r.own.rv.mode = "reality") =>
          r.after.facts = r.before.facts \cup {r.ev}
    /\ (r.op = "rollback" /\ r.own.rv.mode = "reality") => Undoes(rc, r)

(* ReceiptOf(s) is Answer(rq[s]). *)
Answer(r) == [op |-> r.op, ev |-> r.ev, key |-> r.key, ap |-> r.ap,
              ver |-> r.own.ver, rv |-> r.own.rv, before |-> r.before, after |-> r.after]

Mutating == {"commit", "committed", "unwind", "reload", "readEv", "setEv"}

RequestOK(rc, r) ==
    /\ r \in RequestRec
    /\ EventOK(r.own) /\ EventOK(r.text)
    /\ ApprovalOK(r.apOwn) /\ ApprovalOK(r.apText)
    /\ r.old \subseteq rc
    /\ r.apLive => r.ap \in Approval
    /\ r.pc = "audit" /\ r.op \in {"request", "decide"} => r.ap \in Approval
    /\ r.pc \in {"putAp", "landAp"} \cup Mutating => r.ap \in Approval
    /\ r.pc \in Mutating => r.op \in {"apply", "rollback"}
    /\ r.pc \in {"commit", "committed"} => Prepared(rc, r)
    /\ r.pc = "committed" => Answer(r) \in rc

EventsOK ==
    /\ mEv \in [Event -> EventRec] /\ dEv \in [Event -> EventRec]
    /\ \A e \in Event : EventOK(mEv[e]) /\ EventOK(dEv[e])

ApprovalsOK ==
    /\ mAp \in [Approval -> ApprovalRec \cup {NoApproval}]
    /\ dAp \in [Approval -> ApprovalRec \cup {NoApproval}]
    /\ \A a \in Approval : ApprovalOK(mAp[a]) /\ ApprovalOK(dAp[a])

ApplicationsOK ==
    /\ mApp \in [Event -> Application \cup {NoApplication}]
    /\ dApp \in [Event -> Application \cup {NoApplication}]
    /\ \A e \in Event : ApplicationOK(dRc, e, mApp[e]) /\ ApplicationOK(dRc, e, dApp[e])

RestOK ==
    /\ mProj \in Projection /\ dProj \in Projection
    /\ dRc \subseteq Receipt /\ mRc \subseteq dRc
    /\ expired \subseteq Approval /\ faults \in Nat

RequestsOK == rq \in [Slot -> RequestRec] /\ \A s \in Slot : RequestOK(dRc, rq[s])

(* A review cannot be taken from the object an approval is requested for.  *)
Reviewed ==
    \A s \in Slot : rq[s].pc = "audit" /\ rq[s].op = "request" => EventOf(s).rv # NoReview

IInv == EventsOK /\ ApprovalsOK /\ ApplicationsOK /\ RestOK /\ RequestsOK /\ Reviewed

-----------------------------------------------------------------------------
(* What the parts keep when receipts are added and objects are detached.   *)

LEMMA Grow ==
    ASSUME NEW rc, NEW more, rc \subseteq more
    PROVE  /\ \A r : RequestOK(rc, r) => RequestOK(more, r)
           /\ \A e, m : ApplicationOK(rc, e, m) => ApplicationOK(more, e, m)
<1>1. \A r : Undoes(rc, r) => Undoes(more, r)
  BY DEF Undoes
<1>2. \A e, m : Applied(rc, e, m) => Applied(more, e, m)
  BY DEF Applied
<1>3. \A r : Prepared(rc, r) => Prepared(more, r)
  BY <1>1 DEF Prepared
<1> QED
  BY <1>2, <1>3 DEF RequestOK, ApplicationOK

LEMMA EmptyTyped == EmptyProjection \in Projection /\ NewEvent \in EventRec /\ EventOK(NewEvent)
BY DEF EmptyProjection, Projection, NewEvent, EventRec, EventStatus, EventOK

LEMMA IdleTyped == IdleRequest \in RequestRec
<1>1. /\ (CHOOSE e \in Event : TRUE) \in Event
      /\ (CHOOSE k \in Key : TRUE) \in Key
  BY EventAssumption
<1> QED
  BY <1>1, EmptyTyped DEF IdleRequest, RequestRec, Pc, Op, Outcome

LEMMA NoApprovalOK == ApprovalOK(NoApproval)
BY DEF ApprovalOK

LEMMA IdleOK ==
    ASSUME NEW rc
    PROVE  /\ IdleRequest.own = NewEvent /\ IdleRequest.text = NewEvent
           /\ IdleRequest.apOwn = NoApproval /\ IdleRequest.apText = NoApproval
           /\ IdleRequest.live = FALSE /\ IdleRequest.apLive = FALSE
           /\ IdleRequest.old = {} /\ IdleRequest.pc = "idle"
           /\ RequestOK(rc, IdleRequest)
<1>1. /\ IdleRequest.own = NewEvent /\ IdleRequest.text = NewEvent
      /\ IdleRequest.apOwn = NoApproval /\ IdleRequest.apText = NoApproval
      /\ IdleRequest.live = FALSE /\ IdleRequest.apLive = FALSE
      /\ IdleRequest.old = {} /\ IdleRequest.pc = "idle"
  BY DEF IdleRequest
<1> QED
  BY <1>1, IdleTyped, EmptyTyped, NoApprovalOK DEF RequestOK, Mutating

(* A request that is about to commit holds no object of the maps.          *)
LEMMA EventDetached ==
    ASSUME EventsOK, NEW rc, NEW q, q \in [Slot -> RequestRec],
           \A t \in Slot : RequestOK(rc, q[t]), NEW e \in Event
    PROVE  /\ DetachEvent(q, e) \in [Slot -> RequestRec]
           /\ \A t \in Slot : RequestOK(rc, DetachEvent(q, e)[t])
<1> SUFFICES ASSUME NEW t \in Slot
             PROVE  /\ DetachEvent(q, e)[t] \in RequestRec
                    /\ RequestOK(rc, DetachEvent(q, e)[t])
  BY DEF DetachEvent
<1>1. q[t] \in RequestRec /\ RequestOK(rc, q[t]) /\ mEv[e] \in EventRec /\ EventOK(mEv[e])
  BY DEF EventsOK
<1>2. CASE ~(q[t].live /\ q[t].ev = e)
  BY <1>1, <1>2 DEF DetachEvent
<1>3. CASE q[t].live /\ q[t].ev = e
  <2> PICK r : r = [q[t] EXCEPT !.live = FALSE, !.own = mEv[e]]
    OBVIOUS
  <2>1. DetachEvent(q, e)[t] = r
    BY <1>3 DEF DetachEvent
  <2>2. /\ r \in RequestRec
        /\ r.own = mEv[e] /\ r.live = FALSE
        /\ r.pc = q[t].pc /\ r.op = q[t].op /\ r.ap = q[t].ap /\ r.text = q[t].text
        /\ r.apLive = q[t].apLive /\ r.apOwn = q[t].apOwn /\ r.apText = q[t].apText
        /\ r.old = q[t].old
    BY <1>1 DEF RequestRec
  <2>3. r.pc \notin {"commit", "committed"}
    BY <1>1, <1>3, <2>2 DEF RequestOK, Prepared
  <2>4. RequestOK(rc, r)
    BY <1>1, <2>2, <2>3 DEF RequestOK
  <2> QED
    BY <2>1, <2>2, <2>4
<1> QED
  BY <1>2, <1>3

LEMMA ApprovalDetached ==
    ASSUME ApprovalsOK, NEW rc, NEW q, q \in [Slot -> RequestRec],
           \A t \in Slot : RequestOK(rc, q[t]), NEW a \in Approval
    PROVE  /\ DetachApproval(q, a) \in [Slot -> RequestRec]
           /\ \A t \in Slot : RequestOK(rc, DetachApproval(q, a)[t])
<1> SUFFICES ASSUME NEW t \in Slot
             PROVE  /\ DetachApproval(q, a)[t] \in RequestRec
                    /\ RequestOK(rc, DetachApproval(q, a)[t])
  BY DEF DetachApproval
<1>1. /\ q[t] \in RequestRec /\ RequestOK(rc, q[t])
      /\ mAp[a] \in ApprovalRec \cup {NoApproval} /\ ApprovalOK(mAp[a])
  BY DEF ApprovalsOK
<1>2. CASE ~(q[t].apLive /\ q[t].ap = a)
  BY <1>1, <1>2 DEF DetachApproval
<1>3. CASE q[t].apLive /\ q[t].ap = a
  <2> PICK r : r = [q[t] EXCEPT !.apLive = FALSE, !.apOwn = mAp[a]]
    OBVIOUS
  <2>1. DetachApproval(q, a)[t] = r
    BY <1>3 DEF DetachApproval
  <2>2. /\ r \in RequestRec
        /\ r.apOwn = mAp[a] /\ r.apLive = FALSE
        /\ r.pc = q[t].pc /\ r.op = q[t].op /\ r.ap = q[t].ap /\ r.text = q[t].text
        /\ r.live = q[t].live /\ r.own = q[t].own /\ r.apText = q[t].apText
        /\ r.old = q[t].old
    BY <1>1 DEF RequestRec
  <2>3. r.pc \notin {"commit", "committed"}
    BY <1>1, <1>3, <2>2 DEF RequestOK, Prepared
  <2>4. RequestOK(rc, r)
    BY <1>1, <2>2, <2>3 DEF RequestOK
  <2> QED
    BY <2>1, <2>2, <2>4
<1> QED
  BY <1>2, <1>3

(* One request moves on; the others stay, or keep a detached object.       *)
LEMMA OneStep ==
    ASSUME NEW q, q \in [Slot -> RequestRec], \A t \in Slot : RequestOK(dRc, q[t]),
           dRc \subseteq dRc',
           NEW s \in Slot, NEW new, RequestOK(dRc', new), rq' = [q EXCEPT ![s] = new]
    PROVE  RequestsOK'
<1>1. new \in RequestRec
  BY DEF RequestOK
<1>2. rq' \in [Slot -> RequestRec] /\ rq'[s] = new /\ \A t \in Slot \ {s} : rq'[t] = q[t]
  BY <1>1
<1>3. \A t \in Slot : RequestOK(dRc', q[t])
  BY Grow
<1> QED
  BY <1>2, <1>3 DEF RequestsOK

(* No step writes into an object's review in place.                        *)
LEMMA ReviewedKept ==
    ASSUME Reviewed, RequestsOK, NEW s \in Slot, NEW new, rq' = [rq EXCEPT ![s] = new],
           \A e \in Event : mEv'[e].rv = mEv[e].rv,
           new \in RequestRec,
           new.pc = "audit" /\ new.op = "request"
              => (IF new.live THEN mEv[new.ev] ELSE new.own).rv # NoReview
    PROVE  Reviewed'
<1> SUFFICES ASSUME NEW t \in Slot, rq'[t].pc = "audit", rq'[t].op = "request"
             PROVE  EventOf(t)'.rv # NoReview
  BY DEF Reviewed
<1>1. CASE t # s
  <2>1. rq'[t] = rq[t]
    BY <1>1 DEF RequestsOK
  <2>2. rq[t].ev \in Event
    BY DEF RequestsOK, RequestRec
  <2>3. EventOf(t).rv # NoReview
    BY <2>1 DEF Reviewed
  <2> QED
    BY <2>1, <2>2, <2>3 DEF EventOf
<1>2. CASE t = s
  <2>1. rq'[t] = new
    BY <1>2 DEF RequestsOK
  <2>2. new.ev \in Event
    BY DEF RequestRec
  <2> QED
    BY <2>1, <2>2 DEF EventOf
<1> QED
  BY <1>1, <1>2

(* The map gets another object for e: who held the old one keeps it.       *)
LEMMA ReviewedDetached ==
    ASSUME Reviewed, RequestsOK, EventsOK, NEW s \in Slot, NEW q, NEW new, NEW v,
           rq' = [q EXCEPT ![s] = new], NEW e \in Event, mEv' = [mEv EXCEPT ![e] = v],
           \/ q = DetachEvent(rq, e)
           \/ \E a \in Approval : q = DetachApproval(DetachEvent(rq, e), a),
           new.pc # "audit"
    PROVE  Reviewed'
<1> DEFINE held == DetachEvent(rq, e)
<1> SUFFICES ASSUME NEW t \in Slot, rq'[t].pc = "audit", rq'[t].op = "request"
             PROVE  EventOf(t)'.rv # NoReview
  BY DEF Reviewed
<1>1. rq[t] \in RequestRec
  BY DEF RequestsOK
<1>2. /\ held[t].pc = rq[t].pc /\ held[t].op = rq[t].op /\ held[t].ev = rq[t].ev
      /\ IF rq[t].live /\ rq[t].ev = e
         THEN held[t].live = FALSE /\ held[t].own = mEv[e]
         ELSE held[t].live = rq[t].live /\ held[t].own = rq[t].own
      /\ held[t] \in RequestRec
  BY <1>1 DEF DetachEvent, RequestRec, EventsOK
<1>3. /\ q[t].pc = held[t].pc /\ q[t].op = held[t].op /\ q[t].ev = held[t].ev
      /\ q[t].live = held[t].live /\ q[t].own = held[t].own
  <2>1. CASE q = held
    BY <2>1
  <2>2. ASSUME NEW a \in Approval, q = DetachApproval(held, a)
        PROVE  <1>3
    <3> HIDE DEF held
    <3> QED
      BY <2>2, <1>2 DEF DetachApproval, RequestRec
  <2> QED
    BY <2>1, <2>2
<1>4. s \in DOMAIN q /\ t \in DOMAIN q
  BY DEF DetachEvent, DetachApproval
<1>5. t # s /\ rq'[t] = q[t]
  BY <1>4
<1>6. EventOf(t).rv # NoReview
  BY <1>2, <1>3, <1>5 DEF Reviewed
<1>7. \A d \in Event : d # e => mEv'[d] = mEv[d]
  BY DEF EventsOK
<1>8. rq[t].ev \in Event
  BY <1>1 DEF RequestRec
<1> HIDE DEF held
<1> QED
  BY <1>2, <1>3, <1>5, <1>6, <1>7, <1>8 DEF EventOf

(* What the maps and the database hold, when a step leaves it alone.       *)
LEMMA RecordsKept ==
    ASSUME EventsOK, ApprovalsOK, ApplicationsOK, RestOK
    PROVE  /\ mEv' = mEv /\ dEv' = dEv => EventsOK'
           /\ mAp' = mAp /\ dAp' = dAp => ApprovalsOK'
           /\ mApp' = mApp /\ dApp' = dApp /\ dRc' = dRc => ApplicationsOK'
           /\ mProj' \in Projection /\ dProj' = dProj /\ dRc' = dRc /\ mRc' = mRc
                 /\ expired' = expired /\ faults' \in Nat => RestOK'
BY DEF EventsOK, ApprovalsOK, ApplicationsOK, RestOK

-----------------------------------------------------------------------------
(* The steps of one request that leave the records alone.                  *)

LEMMA RequestStep ==
    ASSUME IInv, UNCHANGED <<mEv, mAp, mApp, mRc, database, expired>>,
           mProj' \in Projection, faults' \in Nat,
           NEW s \in Slot, NEW new, rq' = [rq EXCEPT ![s] = new], RequestOK(dRc, new),
           new.pc = "audit" /\ new.op = "request"
              => (IF new.live THEN mEv[new.ev] ELSE new.own).rv # NoReview
    PROVE  IInv'
<1>1. /\ mEv' = mEv /\ mAp' = mAp /\ mApp' = mApp /\ mRc' = mRc
      /\ dEv' = dEv /\ dAp' = dAp /\ dApp' = dApp /\ dProj' = dProj /\ dRc' = dRc
      /\ expired' = expired
  BY DEF database
<1>2. EventsOK' /\ ApprovalsOK' /\ ApplicationsOK' /\ RestOK'
  BY <1>1, RecordsKept DEF IInv
<1>3. RequestsOK'
  BY <1>1, OneStep DEF IInv, RequestsOK
<1>4. Reviewed'
  BY <1>1, ReviewedKept DEF IInv, RequestOK
<1> QED
  BY <1>2, <1>3, <1>4 DEF IInv

(* A request that goes on without having prepared a commit, or unwinds.    *)
LEMMA Moved ==
    ASSUME NEW rc, NEW r, RequestOK(rc, r), NEW p \in Pc \ {"audit", "commit", "committed"},
           p \in {"putAp", "landAp"} \cup Mutating => r.ap \in Approval,
           p \in Mutating => r.op \in {"apply", "rollback"}
    PROVE  /\ RequestOK(rc, [r EXCEPT !.pc = p])
           /\ [r EXCEPT !.pc = p].pc = p
<1>1. PICK n : n = [r EXCEPT !.pc = p]
  OBVIOUS
<1>2. /\ n \in RequestRec
      /\ n.own = r.own /\ n.text = r.text /\ n.apOwn = r.apOwn /\ n.apText = r.apText
      /\ n.apLive = r.apLive /\ n.ap = r.ap /\ n.op = r.op /\ n.pc = p /\ n.old = r.old
  BY <1>1 DEF RequestOK, RequestRec
<1>3. RequestOK(rc, n)
  BY <1>2 DEF RequestOK
<1> QED
  BY <1>1, <1>2, <1>3

LEMMA Unwinding ==
    ASSUME NEW rc, NEW r, RequestOK(rc, r), r.pc \in {"commit", "committed"},
           NEW n \in RequestRec, n.pc = "unwind", n.op = r.op, n.ap = r.ap,
           n.own = r.own, n.text = r.text, n.apOwn = r.apOwn,
           n.apText = r.apText, n.apLive = r.apLive, n.old \subseteq rc
    PROVE  RequestOK(rc, n)
<1>1. r.ap \in Approval /\ r.op \in {"apply", "rollback"}
  BY DEF RequestOK, Mutating
<1> QED
  BY <1>1 DEF RequestOK

(* The text of an event is taken, to be put or to be set.                  *)
LEMMA TextTaken ==
    ASSUME NEW rc, NEW r, RequestOK(rc, r), NEW v, EventOK(v), NEW p \in {"landEv", "setEv"},
           p = "setEv" => r.pc = "readEv",
           NEW n \in RequestRec, n.pc = p, n.op = r.op, n.ap = r.ap,
           n.own = r.own, n.text = v, n.apOwn = r.apOwn,
           n.apText = r.apText, n.apLive = r.apLive, n.old = r.old
    PROVE  RequestOK(rc, n)
<1>1. p = "setEv" => r.ap \in Approval /\ r.op \in {"apply", "rollback"}
  BY DEF RequestOK, Mutating
<1> QED
  BY <1>1 DEF RequestOK, Mutating

(* The handler ends.                                                       *)
LEMMA EndStep ==
    ASSUME IInv, UNCHANGED <<mEv, mAp, mApp, mRc, database, expired>>,
           mProj' \in Projection, faults' \in Nat, NEW s \in Slot, End(s)
    PROVE  IInv'
<1>1. RequestOK(dRc, IdleRequest) /\ IdleRequest.pc # "audit"
  BY IdleOK
<1> QED
  BY <1>1, RequestStep DEF End

LEMMA FaultTyped == ASSUME RestOK, Fault PROVE faults' \in Nat
BY DEF RestOK, Fault

LEMMA StartReviewStep ==
    ASSUME IInv, NEW s \in Slot, NEW e \in Event, NEW verdict \in Verdict, NEW note \in Note,
           StartReview(s, e, verdict, note)
    PROVE  IInv'
<1>1. /\ UNCHANGED <<mEv, mAp, mApp, mRc, database, expired>>
      /\ mProj' \in Projection /\ faults' \in Nat
  BY DEF StartReview, memory, environment, IInv, RestOK
<1>2. ReviewedEvent(e, verdict, note) \in EventRec /\ EventOK(ReviewedEvent(e, verdict, note))
  <2>1. PICK v : v = ReviewedEvent(e, verdict, note)
    OBVIOUS
  <2>2. PICK rv : rv = [mode |-> IF verdict = "reality" THEN "reality" ELSE "scenario",
                        note |-> note, snap |-> mProj]
    OBVIOUS
  <2>3. rv \in Review
    BY <2>2 DEF Review, Mode, IInv, RestOK
  <2>4. PICK st \in {"rejected", "reviewed"} :
             v = [mEv[e] EXCEPT !.ver = @ + 1, !.status = st, !.rv = rv]
    BY <2>1, <2>2 DEF ReviewedEvent
  <2>5. PICK w \in EventRec : w = mEv[e]
    BY DEF IInv, EventsOK
  <2>6. v \in EventRec /\ v.status = st
    <3>1. st \in EventStatus /\ w.ver + 1 \in Nat
      BY <2>5 DEF EventRec, EventStatus
    <3>2. v = [w EXCEPT !.ver = w.ver + 1, !.status = st, !.rv = rv]
      BY <2>4, <2>5
    <3> QED
      BY <2>3, <3>1, <3>2 DEF EventRec
  <2> QED
    BY <2>1, <2>6 DEF EventOK
<1>3. PICK new : new = [IdleRequest EXCEPT !.pc = "audit", !.op = "review", !.ev = e,
                                           !.own = ReviewedEvent(e, verdict, note)]
  OBVIOUS
<1>4. /\ new \in RequestRec /\ new.pc = "audit" /\ new.op = "review"
      /\ new.own = ReviewedEvent(e, verdict, note) /\ new.text = IdleRequest.text
      /\ new.apOwn = IdleRequest.apOwn /\ new.apText = IdleRequest.apText
      /\ new.apLive = IdleRequest.apLive /\ new.old = IdleRequest.old
  BY <1>2, <1>3, IdleTyped DEF RequestRec, Pc, Op
<1>5. RequestOK(dRc, new)
  BY <1>2, <1>4, IdleOK, EmptyTyped, NoApprovalOK DEF RequestOK, Mutating
<1>6. rq' = [rq EXCEPT ![s] = new]
  BY <1>3 DEF StartReview, Begin
<1> QED
  BY <1>1, <1>4, <1>5, <1>6, RequestStep

LEMMA StartRequestApprovalStep ==
    ASSUME IInv, NEW s \in Slot, NEW e \in Event, StartRequestApproval(s, e)
    PROVE  IInv'
<1>1. /\ UNCHANGED <<mEv, mAp, mApp, mRc, database, expired>>
      /\ mProj' \in Projection /\ faults' \in Nat
  BY DEF StartRequestApproval, memory, environment, IInv, RestOK
<1>2. PICK a \in Approval : a = CHOOSE b \in FreshApprovals : TRUE
  BY DEF StartRequestApproval, FreshApprovals
<1>3. PICK new : new = [IdleRequest EXCEPT !.pc = "audit", !.op = "request", !.ev = e,
                                           !.ap = a, !.live = TRUE]
  OBVIOUS
<1>4. /\ new \in RequestRec /\ new.pc = "audit" /\ new.op = "request" /\ new.ap = a
      /\ new.live = TRUE /\ new.ev = e
      /\ new.own = IdleRequest.own /\ new.text = IdleRequest.text
      /\ new.apOwn = IdleRequest.apOwn /\ new.apText = IdleRequest.apText
      /\ new.apLive = IdleRequest.apLive /\ new.old = IdleRequest.old
  BY <1>3, IdleTyped DEF RequestRec, Pc, Op
<1>5. RequestOK(dRc, new)
  BY <1>4, IdleOK, EmptyTyped, NoApprovalOK DEF RequestOK, Mutating
<1>6. rq' = [rq EXCEPT ![s] = new] /\ mEv[e].rv # NoReview
  BY <1>2, <1>3 DEF StartRequestApproval, Begin
<1> QED
  BY <1>1, <1>4, <1>5, <1>6, RequestStep

(* Handlers that move on, serialise or read.                               *)
LEMMA MovingSteps ==
    ASSUME IInv, NEW s \in Slot,
           \/ DecisionAudited(s) \/ SerialiseApproval(s) \/ SerialiseEvent(s)
           \/ StatementFails(s) \/ ReplayMutation(s) \/ RefuseMutation(s) \/ LoseMutation(s)
           \/ UnwindThrows(s) \/ ReadEvent(s)
    PROVE  IInv'
<1>1. /\ UNCHANGED <<mEv, mAp, mApp, mRc, database, expired>>
      /\ mProj' \in Projection /\ faults' \in Nat
  BY FaultTyped DEF DecisionAudited, SerialiseApproval, SerialiseEvent, StatementFails,
     ReplayMutation, RefuseMutation, LoseMutation, UnwindThrows, ReadEvent, memory, environment,
     IInv, RestOK
<1> DEFINE r == rq[s]
<1>2. r \in RequestRec /\ RequestOK(dRc, r)
  BY DEF IInv, RequestsOK
<1>3. CASE StatementFails(s) \/ UnwindThrows(s)
  BY <1>1, <1>3, EndStep DEF StatementFails, UnwindThrows
<1>4. CASE DecisionAudited(s)
  <2>1. r.pc = "audit" /\ r.op = "decide" /\ rq' = [rq EXCEPT ![s] = [r EXCEPT !.pc = "putAp"]]
    BY <1>4 DEF DecisionAudited, Goto
  <2>2. r.ap \in Approval
    BY <1>2, <2>1 DEF RequestOK
  <2>3. "putAp" \in Pc \ {"audit", "commit", "committed"} /\ "putAp" \notin Mutating
    BY DEF Pc, Mutating
  <2> HIDE DEF r
  <2>4. RequestOK(dRc, [r EXCEPT !.pc = "putAp"]) /\ [r EXCEPT !.pc = "putAp"].pc = "putAp"
    BY <1>2, <2>2, <2>3, Moved
  <2> QED
    BY <1>1, <2>1, <2>4, RequestStep
<1>5. CASE SerialiseApproval(s)
  <2>1. PICK new : new = [r EXCEPT !.pc = "landAp", !.apText = ApprovalOf(s)]
    OBVIOUS
  <2>2. r.pc = "putAp" /\ rq' = [rq EXCEPT ![s] = new]
    BY <1>5, <2>1 DEF SerialiseApproval
  <2>3. ApprovalOK(ApprovalOf(s))
    BY <1>2 DEF ApprovalOf, RequestOK, IInv, ApprovalsOK
  <2>4. ApprovalOf(s) \in ApprovalRec \cup {NoApproval} /\ r.ap \in Approval
    BY <1>2, <2>2, <2>3 DEF ApprovalOK, RequestOK
  <2>5. /\ new \in RequestRec /\ new.pc = "landAp" /\ new.op = r.op /\ new.ap = r.ap
        /\ new.own = r.own /\ new.text = r.text /\ new.apOwn = r.apOwn
        /\ new.apText = ApprovalOf(s) /\ new.apLive = r.apLive /\ new.old = r.old
    BY <1>2, <2>1, <2>4 DEF RequestRec, Pc
  <2>6. RequestOK(dRc, new)
    BY <1>2, <2>3, <2>4, <2>5 DEF RequestOK, Mutating
  <2> QED
    BY <1>1, <2>2, <2>5, <2>6, RequestStep
<1>6. CASE SerialiseEvent(s)
  <2>1. PICK n : n = [r EXCEPT !.pc = "landEv", !.text = EventOf(s)]
    OBVIOUS
  <2>2. rq' = [rq EXCEPT ![s] = n]
    BY <1>6, <2>1 DEF SerialiseEvent
  <2>3. EventOK(EventOf(s))
    BY <1>2 DEF EventOf, RequestOK, RequestRec, IInv, EventsOK
  <2>4. /\ n \in RequestRec /\ n.pc = "landEv" /\ n.op = r.op /\ n.ap = r.ap
        /\ n.own = r.own /\ n.text = EventOf(s) /\ n.apOwn = r.apOwn
        /\ n.apText = r.apText /\ n.apLive = r.apLive /\ n.old = r.old
    BY <1>2, <2>1, <2>3 DEF RequestRec, Pc, EventOK
  <2> HIDE DEF r
  <2>5. RequestOK(dRc, n)
    BY <1>2, <2>2, <2>3, <2>4, TextTaken
  <2> QED
    BY <1>1, <2>2, <2>4, <2>5, RequestStep
<1>7. CASE ReadEvent(s)
  <2>1. PICK n : n = [r EXCEPT !.pc = "setEv", !.text = dEv[r.ev]]
    OBVIOUS
  <2>2. rq' = [rq EXCEPT ![s] = n] /\ r.pc = "readEv"
    BY <1>7, <2>1 DEF ReadEvent
  <2>3. EventOK(dEv[r.ev])
    BY <1>2 DEF RequestRec, IInv, EventsOK
  <2>4. /\ n \in RequestRec /\ n.pc = "setEv" /\ n.op = r.op /\ n.ap = r.ap
        /\ n.own = r.own /\ n.text = dEv[r.ev] /\ n.apOwn = r.apOwn
        /\ n.apText = r.apText /\ n.apLive = r.apLive /\ n.old = r.old
    BY <1>2, <2>1, <2>3 DEF RequestRec, Pc, EventOK
  <2> HIDE DEF r
  <2>5. RequestOK(dRc, n)
    BY <1>2, <2>2, <2>3, <2>4, TextTaken
  <2> QED
    BY <1>1, <2>2, <2>4, <2>5, RequestStep
<1>8. CASE ReplayMutation(s) \/ RefuseMutation(s) \/ LoseMutation(s)
  <2>1. Reserved(s) \subseteq dRc /\ dRc \subseteq Receipt
    BY DEF Reserved, Known, IInv, RestOK
  <2>2. PICK new : /\ rq' = [rq EXCEPT ![s] = new]
                   /\ r.pc \in {"commit", "committed"}
                   /\ \/ new = [r EXCEPT !.pc = "unwind", !.outcome = "replayed",
                                         !.old = Reserved(s)]
                      \/ new = [r EXCEPT !.pc = "unwind", !.outcome = "conflict"]
                      \/ new = [r EXCEPT !.pc = "unwind", !.outcome = "failed"]
    BY <1>8 DEF ReplayMutation, RefuseMutation, LoseMutation
  <2>3. "unwind" \in Pc /\ {"replayed", "conflict", "failed"} \subseteq Outcome
        /\ r.old \subseteq dRc
    BY <1>2 DEF Pc, Outcome, RequestOK
  <2>4. /\ new \in RequestRec /\ new.pc = "unwind" /\ new.op = r.op /\ new.ap = r.ap
        /\ new.own = r.own /\ new.text = r.text /\ new.apOwn = r.apOwn
        /\ new.apText = r.apText /\ new.apLive = r.apLive /\ new.old \subseteq dRc
    <3>1. CASE new = [r EXCEPT !.pc = "unwind", !.outcome = "replayed", !.old = Reserved(s)]
      BY <1>2, <2>1, <2>3, <3>1 DEF RequestRec
    <3>2. CASE new = [r EXCEPT !.pc = "unwind", !.outcome = "conflict"]
      BY <1>2, <2>3, <3>2 DEF RequestRec
    <3>3. CASE new = [r EXCEPT !.pc = "unwind", !.outcome = "failed"]
      BY <1>2, <2>3, <3>3 DEF RequestRec
    <3> QED
      BY <2>2, <3>1, <3>2, <3>3
  <2> HIDE DEF r
  <2>5. RequestOK(dRc, new)
    BY <1>2, <2>2, <2>4, Unwinding
  <2> QED
    BY <1>1, <2>2, <2>4, <2>5, RequestStep
<1> QED
  BY <1>3, <1>4, <1>5, <1>6, <1>7, <1>8

-----------------------------------------------------------------------------
(* The steps that move the projection in memory.                           *)

LEMMA Transition ==
    ASSUME IInv, NEW e \in Event
    PROVE  /\ mProj \in Projection
           /\ AfterApply(e) \in Projection
           /\ mEv[e].rv.mode = "reality" => /\ AfterApply(e).ver = mProj.ver + 1
                                            /\ AfterApply(e).facts = mProj.facts \cup {e}
           /\ RollbackGuards(e) =>
                 /\ AfterRollback(e) \in Projection
                 /\ mApp[e] \in Application
                 /\ mEv[e].rv.mode = "reality" =>
                       /\ AfterRollback(e).ver = mProj.ver + 1
                       /\ AfterRollback(e).facts = mApp[e].before.facts
<1>1. mProj \in Projection
  BY DEF IInv, RestOK
<1>2. AfterApply(e) \in Projection
  BY <1>1 DEF AfterApply, ApplyExact, Projection
<1>3. mEv[e].rv.mode = "reality" => /\ AfterApply(e).ver = mProj.ver + 1
                                    /\ AfterApply(e).facts = mProj.facts \cup {e}
  BY DEF AfterApply, ApplyExact
<1>4. ASSUME RollbackGuards(e)
      PROVE  /\ AfterRollback(e) \in Projection
             /\ mApp[e] \in Application
             /\ mEv[e].rv.mode = "reality" =>
                   /\ AfterRollback(e).ver = mProj.ver + 1
                   /\ AfterRollback(e).facts = mApp[e].before.facts
  <2>1. mApp[e] \in Application
    BY <1>4 DEF RollbackGuards, IInv, ApplicationsOK
  <2>2. mApp[e].before \in Projection
    BY <2>1 DEF Application
  <2> QED
    BY <1>1, <2>1, <2>2 DEF AfterRollback, RollbackExact, Projection
<1> QED
  BY <1>1, <1>2, <1>3, <1>4

(* A request that has passed the guards of apply or rollback is prepared.  *)
LEMMA PreparedByGuards ==
    ASSUME IInv, NEW e \in Event, NEW a \in Approval, NEW key \in Key,
           NEW op \in {"apply", "rollback"}, NEW after \in Projection,
           mEv[e].rv # NoReview,
           mEv[e].status = IF op = "apply" THEN "approved" ELSE "applied",
           mEv[e].rv.mode = "reality" => after.ver = mProj.ver + 1,
           op = "apply" => /\ mAp[a] # NoApproval
                           /\ mAp[a].ev = e /\ mAp[a].rv = mEv[e].rv
                           /\ mAp[a].status = "approved"
                           /\ mEv[e].rv.snap = mProj,
           (op = "apply" /\ mEv[e].rv.mode = "reality") =>
              after.facts = mProj.facts \cup {e},
           (op = "rollback" /\ mEv[e].rv.mode = "reality") =>
              /\ mApp[e].ap = a /\ mApp[e].after = mProj
              /\ mApp[e].before.facts = after.facts
              /\ Applied(dRc, e, mApp[e]),
           NEW new, new = Mutation(op, e, a, key, mProj, after)
    PROVE  RequestOK(dRc, new) /\ new.pc = "commit"
<1>1. /\ mEv[e] \in EventRec /\ mAp[a] \in ApprovalRec \cup {NoApproval}
      /\ EventOK(mEv[e]) /\ ApprovalOK(mAp[a]) /\ mProj \in Projection
  BY DEF IInv, EventsOK, ApprovalsOK, RestOK
<1>2. PICK own \in EventRec, apOwn \in ApprovalRec \cup {NoApproval}, before \in Projection :
           own = mEv[e] /\ apOwn = mAp[a] /\ before = mProj
  BY <1>1
<1>3. PICK idleEv \in Event, idleKey \in Key :
           /\ idleEv = CHOOSE d \in Event : TRUE
           /\ idleKey = CHOOSE k \in Key : TRUE
  BY EventAssumption
<1>4. new = [pc |-> "commit", op |-> op, ev |-> e, ap |-> a, key |-> key,
             live |-> FALSE, own |-> own, apLive |-> FALSE, apOwn |-> apOwn,
             text |-> NewEvent, apText |-> NoApproval,
             before |-> before, after |-> after, old |-> {}, outcome |-> "none"]
  BY <1>2 DEF Mutation, IdleRequest
<1>5. "commit" \in Pc /\ op \in Op /\ "none" \in Outcome
  BY DEF Pc, Op, Outcome
<1>6. new \in RequestRec
  BY <1>4, <1>5, EmptyTyped DEF RequestRec
<1>7. /\ new.pc = "commit" /\ new.op = op /\ new.ev = e /\ new.ap = a
      /\ new.live = FALSE /\ new.apLive = FALSE
      /\ new.own = mEv[e] /\ new.apOwn = mAp[a]
      /\ new.text = NewEvent /\ new.apText = NoApproval /\ new.old = {}
      /\ new.before = mProj /\ new.after = after
  BY <1>2, <1>4
<1>8. (op = "rollback" /\ mEv[e].rv.mode = "reality") => Undoes(dRc, new)
  BY <1>7 DEF Applied, Undoes
<1>9. Prepared(dRc, new)
  BY <1>7, <1>8 DEF Prepared
<1> QED
  BY <1>1, <1>6, <1>7, <1>9, EmptyTyped, NoApprovalOK DEF RequestOK, Mutating

LEMMA StartApplyStep ==
    ASSUME IInv, NEW s \in Slot, NEW e \in Event, NEW a \in Approval, NEW key \in Key,
           StartApply(s, e, a, key)
    PROVE  IInv'
<1>1. /\ UNCHANGED <<mEv, mAp, mApp, mRc, database, expired>>
      /\ mProj' \in Projection /\ faults' \in Nat
  BY Transition DEF StartApply, memory, environment, IInv, RestOK
<1>2. PICK after \in Projection : after = AfterApply(e)
  BY Transition
<1>3. PICK new : new = Mutation("apply", e, a, key, mProj, after)
  OBVIOUS
<1>4. rq' = [rq EXCEPT ![s] = new]
  BY <1>2, <1>3 DEF StartApply, Begin
<1>5. /\ mEv[e].rv # NoReview /\ mEv[e].status = "approved"
      /\ mEv[e].rv.mode = "reality" => /\ after.ver = mProj.ver + 1
                                       /\ after.facts = mProj.facts \cup {e}
      /\ mAp[a] # NoApproval
      /\ mAp[a].ev = e /\ mAp[a].rv = mEv[e].rv
      /\ mAp[a].status = "approved"
      /\ mEv[e].rv.snap = mProj
  BY <1>2, Transition DEF StartApply, ApplyGuards
<1>6. RequestOK(dRc, new) /\ new.pc = "commit"
  BY <1>3, <1>5, PreparedByGuards
<1> QED
  BY <1>1, <1>4, <1>6, RequestStep

LEMMA StartRollbackStep ==
    ASSUME IInv, NEW s \in Slot, NEW e \in Event, NEW key \in Key, StartRollback(s, e, key)
    PROVE  IInv'
<1>1. RollbackGuards(e)
  BY DEF StartRollback
<1>2. /\ UNCHANGED <<mEv, mAp, mApp, mRc, database, expired>>
      /\ mProj' \in Projection /\ faults' \in Nat
  BY <1>1, Transition DEF StartRollback, memory, environment, IInv, RestOK
<1>3. PICK a \in Approval : a = mApp[e].ap
  BY <1>1, Transition DEF Application
<1>4. PICK after \in Projection : after = AfterRollback(e)
  BY <1>1, Transition
<1>5. PICK new : new = Mutation("rollback", e, a, key, mProj, after)
  OBVIOUS
<1>6. rq' = [rq EXCEPT ![s] = new]
  BY <1>3, <1>4, <1>5 DEF StartRollback, Begin
<1>7. /\ mEv[e].rv # NoReview /\ mEv[e].status = "applied"
      /\ mEv[e].rv.mode = "reality" => after.ver = mProj.ver + 1
  BY <1>1, <1>4, Transition DEF RollbackGuards, IInv, EventsOK, EventOK
<1>8. mEv[e].rv.mode = "reality" =>
         /\ mApp[e].ap = a /\ mApp[e].after = mProj
         /\ mApp[e].before.facts = after.facts
         /\ Applied(dRc, e, mApp[e])
  <2> SUFFICES ASSUME mEv[e].rv.mode = "reality"
               PROVE  /\ mApp[e].after = mProj
                      /\ mApp[e].before.facts = after.facts
                      /\ Applied(dRc, e, mApp[e])
    BY <1>3
  <2>1. mApp[e].mode = "reality" /\ mProj = mApp[e].after /\ mApp[e] # NoApplication
    BY <1>1 DEF RollbackGuards
  <2>2. Applied(dRc, e, mApp[e])
    BY <2>1 DEF IInv, ApplicationsOK, ApplicationOK
  <2> QED
    BY <1>1, <1>4, <2>1, <2>2, Transition
<1>9. RequestOK(dRc, new) /\ new.pc = "commit"
  BY <1>5, <1>7, <1>8, PreparedByGuards
<1> QED
  BY <1>2, <1>6, <1>9, RequestStep

(* The refused audit leaves the moved projection behind, and no request.   *)
LEMMA RefusedByAuditSteps ==
    ASSUME IInv, NEW e \in Event, NEW key,
           \/ \E a : ApplyRefusedByAudit(e, a, key)
           \/ RollbackRefusedByAudit(e, key)
    PROVE  IInv'
<1>1. /\ UNCHANGED <<mEv, mAp, mApp, mRc, database, expired, rq>>
      /\ mProj' \in Projection /\ faults' \in Nat
  <2>1. CASE \E a : ApplyRefusedByAudit(e, a, key)
    BY <2>1, Transition, FaultTyped DEF ApplyRefusedByAudit, IInv
  <2>2. CASE RollbackRefusedByAudit(e, key)
    BY <2>2, Transition, FaultTyped DEF RollbackRefusedByAudit, IInv
  <2> QED
    BY <2>1, <2>2
<1>2. EventsOK' /\ ApprovalsOK' /\ ApplicationsOK' /\ RestOK'
  BY <1>1, RecordsKept DEF IInv, database
<1>3. RequestsOK' /\ Reviewed'
  BY <1>1 DEF IInv, RequestsOK, Reviewed, EventOf, database
<1> QED
  BY <1>2, <1>3 DEF IInv

LEMMA UnwindingSteps ==
    ASSUME IInv, NEW s \in Slot,
           Unwind(s) \/ Hydrate(s) \/ HydrateThrows(s) \/ ReloadFails(s)
    PROVE  IInv'
<1>1. rq[s] \in RequestRec /\ RequestOK(dRc, rq[s])
  BY DEF IInv, RequestsOK
<1>2. rq[s].before \in Projection /\ mProj \in Projection /\ dProj \in Projection
  BY <1>1 DEF RequestRec, IInv, RestOK
<1>3. UNCHANGED <<mEv, mAp, mApp, mRc, database, expired>> /\ faults' \in Nat
  BY FaultTyped DEF Unwind, Hydrate, HydrateThrows, ReloadFails, memory, environment, IInv, RestOK
<1>4. mProj' \in Projection
  BY <1>2 DEF Unwind, Hydrate, HydrateThrows, ReloadFails, UnwindAgain
<1>5. End(s) => IInv'
  BY <1>3, <1>4, EndStep
<1>6. CASE \/ Unwind(s) /\ Goto(s, "reload")
           \/ Hydrate(s) /\ Goto(s, "readEv")
  <2>1. rq[s].ap \in Approval /\ rq[s].op \in {"apply", "rollback"}
    BY <1>1, <1>6 DEF Unwind, Hydrate, RequestOK, Mutating
  <2>2. PICK p \in {"reload", "readEv"} : rq' = [rq EXCEPT ![s] = [rq[s] EXCEPT !.pc = p]]
    BY <1>6 DEF Goto
  <2>3. p \in Pc \ {"audit", "commit", "committed"}
    BY DEF Pc
  <2> DEFINE r == rq[s]
  <2>4. rq' = [rq EXCEPT ![s] = [r EXCEPT !.pc = p]]
    BY <2>2
  <2> HIDE DEF r
  <2>5. RequestOK(dRc, [r EXCEPT !.pc = p]) /\ [r EXCEPT !.pc = p].pc = p
    BY <1>1, <2>1, <2>3, Moved DEF r
  <2> QED
    BY <1>3, <1>4, <2>4, <2>5, RequestStep
<1>7. /\ Unwind(s) => End(s) \/ Goto(s, "reload")
      /\ Hydrate(s) => Goto(s, "readEv")
      /\ HydrateThrows(s) \/ ReloadFails(s) => End(s)
  BY DEF Unwind, Hydrate, HydrateThrows, ReloadFails
<1> QED
  BY <1>5, <1>6, <1>7

-----------------------------------------------------------------------------
(* The steps that write a record.                                          *)

LEMMA EventPut ==
    ASSUME EventsOK, NEW e \in Event, NEW v, EventOK(v),
           \/ mEv' = [mEv EXCEPT ![e] = v] /\ dEv' = dEv
           \/ dEv' = [dEv EXCEPT ![e] = v] /\ mEv' = mEv
    PROVE  EventsOK'
<1>1. v \in EventRec
  BY DEF EventOK
<1>2. /\ mEv' \in [Event -> EventRec] /\ dEv' \in [Event -> EventRec]
      /\ \A d \in Event : /\ mEv'[d] = mEv[d] \/ mEv'[d] = v
                          /\ dEv'[d] = dEv[d] \/ dEv'[d] = v
  BY <1>1 DEF EventsOK
<1> QED
  BY <1>2 DEF EventsOK

LEMMA ApprovalPut ==
    ASSUME ApprovalsOK, NEW a \in Approval, NEW v, ApprovalOK(v),
           \/ mAp' = [mAp EXCEPT ![a] = v] /\ dAp' = dAp
           \/ dAp' = [dAp EXCEPT ![a] = v] /\ mAp' = mAp
    PROVE  ApprovalsOK'
<1>1. v \in ApprovalRec \cup {NoApproval}
  BY DEF ApprovalOK
<1>2. /\ mAp' \in [Approval -> ApprovalRec \cup {NoApproval}]
      /\ dAp' \in [Approval -> ApprovalRec \cup {NoApproval}]
      /\ \A b \in Approval : /\ mAp'[b] = mAp[b] \/ mAp'[b] = v
                             /\ dAp'[b] = dAp[b] \/ dAp'[b] = v
  BY <1>1 DEF ApprovalsOK
<1> QED
  BY <1>2 DEF ApprovalsOK

LEMMA ApplicationPut ==
    ASSUME ApplicationsOK, dRc \subseteq dRc', NEW e \in Event, NEW m, ApplicationOK(dRc', e, m),
           \/ mApp' = [mApp EXCEPT ![e] = m] /\ dApp' = dApp
           \/ dApp' = [dApp EXCEPT ![e] = m] /\ mApp' = mApp
    PROVE  ApplicationsOK'
<1>1. m \in Application \cup {NoApplication}
  BY DEF ApplicationOK
<1>2. /\ mApp' \in [Event -> Application \cup {NoApplication}]
      /\ dApp' \in [Event -> Application \cup {NoApplication}]
      /\ \A d \in Event : /\ mApp'[d] = mApp[d] \/ (d = e /\ mApp'[d] = m)
                          /\ dApp'[d] = dApp[d] \/ (d = e /\ dApp'[d] = m)
  BY <1>1 DEF ApplicationsOK
<1>3. \A d \in Event : ApplicationOK(dRc', d, mApp[d]) /\ ApplicationOK(dRc', d, dApp[d])
  BY Grow DEF ApplicationsOK
<1> QED
  BY <1>2, <1>3 DEF ApplicationsOK

LEMMA InstallReviewStep ==
    ASSUME IInv, NEW s \in Slot, InstallReview(s)
    PROVE  IInv'
<1>1. PICK e \in Event : e = rq[s].ev
  BY DEF IInv, RequestsOK, RequestRec
<1>2. rq[s] \in RequestRec /\ RequestOK(dRc, rq[s]) /\ EventOK(rq[s].own)
  BY DEF IInv, RequestsOK, RequestOK
<1>3. PICK q : q = DetachEvent(rq, e)
  OBVIOUS
<1>4. q \in [Slot -> RequestRec] /\ \A t \in Slot : RequestOK(dRc, q[t])
  BY <1>3, EventDetached DEF IInv, RequestsOK
<1>5. PICK r \in RequestRec : r = q[s] /\ RequestOK(dRc, r)
  BY <1>4
<1>6. PICK new : new = [r EXCEPT !.pc = "putEv", !.live = TRUE]
  OBVIOUS
<1>7. rq' = [q EXCEPT ![s] = new]
  BY <1>1, <1>3, <1>4, <1>5, <1>6 DEF InstallReview
<1>8. RequestOK(dRc, new) /\ new.pc = "putEv"
  <2>1. /\ new \in RequestRec /\ new.pc = "putEv" /\ new.ap = r.ap
        /\ new.own = r.own /\ new.text = r.text /\ new.apOwn = r.apOwn
        /\ new.apText = r.apText /\ new.apLive = r.apLive /\ new.old = r.old
    BY <1>5, <1>6 DEF RequestRec, Pc
  <2> QED
    BY <1>5, <2>1 DEF RequestOK, Mutating
<1>9. /\ mEv' = [mEv EXCEPT ![e] = rq[s].own]
      /\ mAp' = mAp /\ mApp' = mApp /\ mProj' = mProj /\ mRc' = mRc
      /\ dEv' = dEv /\ dAp' = dAp /\ dApp' = dApp /\ dProj' = dProj /\ dRc' = dRc
      /\ expired' = expired /\ faults' = faults
  BY <1>1 DEF InstallReview, database, environment
<1>10. EventsOK'
  BY <1>2, <1>9, EventPut DEF IInv
<1>11. ApprovalsOK' /\ ApplicationsOK' /\ RestOK'
  BY <1>9, RecordsKept DEF IInv, RestOK
<1>12. RequestsOK'
  BY <1>4, <1>7, <1>8, <1>9, OneStep
<1>13. Reviewed'
  <2>1. new.pc # "audit"
    BY <1>8
  <2> QED
    BY <1>3, <1>7, <1>9, <2>1, ReviewedDetached DEF IInv
<1> QED
  BY <1>10, <1>11, <1>12, <1>13 DEF IInv

(* What is requested: never an applied event, never an approved reality.   *)
LEMMA RequestedOK ==
    ASSUME NEW event, EventOK(event), event.rv # NoReview, NEW e \in Event
    PROVE  /\ EventOK(RequestedEvent(event)) /\ RequestedEvent(event).rv = event.rv
           /\ ApprovalOK(NewApproval(event, e))
<1>1. event \in EventRec /\ event.rv \in Review /\ event.ver \in Nat
  BY DEF EventOK, EventRec
<1>2. PICK v : v = RequestedEvent(event)
  OBVIOUS
<1>3. PICK st \in {"approved", "approval_pending"} :
           v = [event EXCEPT !.ver = event.ver + 1, !.status = st]
  BY <1>2 DEF RequestedEvent
<1>4. st \in EventStatus /\ event.ver + 1 \in Nat
  BY <1>1 DEF EventStatus
<1>5. v \in EventRec /\ v.status = st /\ v.rv = event.rv
  BY <1>1, <1>3, <1>4 DEF EventRec
<1>6. NewApproval(event, e) \in ApprovalRec
  BY <1>1 DEF NewApproval, ApprovalRec, ApprovalStatus
<1>7. event.rv.mode = "reality" => NewApproval(event, e).status = "pending"
  BY DEF NewApproval
<1>8. NewApproval(event, e).rv = event.rv
  BY DEF NewApproval
<1>9. EventOK(v)
  BY <1>5 DEF EventOK
<1>10. ApprovalOK(NewApproval(event, e))
  BY <1>6, <1>7, <1>8 DEF ApprovalOK
<1> QED
  BY <1>2, <1>5, <1>9, <1>10

LEMMA CreateApprovalStep ==
    ASSUME IInv, NEW s \in Slot, CreateApproval(s)
    PROVE  IInv'
<1>1. PICK r \in RequestRec : r = rq[s] /\ RequestOK(dRc, r)
  BY DEF IInv, RequestsOK
<1>2. PICK e \in Event : e = r.ev
  BY <1>1 DEF RequestRec
<1>3. r.pc = "audit" /\ r.op = "request"
  BY <1>1 DEF CreateApproval
<1>4. PICK a \in Approval : a = r.ap
  BY <1>1, <1>3 DEF RequestOK
<1>5. PICK event : event = EventOf(s)
  OBVIOUS
<1>6. EventOK(event) /\ event.rv # NoReview
  BY <1>1, <1>2, <1>3, <1>5 DEF EventOf, RequestOK, IInv, EventsOK, Reviewed
<1>7. /\ EventOK(RequestedEvent(event)) /\ RequestedEvent(event).rv = event.rv
      /\ ApprovalOK(NewApproval(event, e))
  BY <1>6, RequestedOK
<1>8. /\ mAp' = [mAp EXCEPT ![a] = NewApproval(event, e)]
      /\ mApp' = mApp /\ mProj' = mProj /\ mRc' = mRc
      /\ dEv' = dEv /\ dAp' = dAp /\ dApp' = dApp /\ dProj' = dProj /\ dRc' = dRc
      /\ expired' = expired /\ faults' = faults
  BY <1>1, <1>2, <1>4, <1>5 DEF CreateApproval, database, environment
<1>9. ApprovalsOK' /\ ApplicationsOK' /\ RestOK'
  <2>1. ApprovalsOK'
    BY <1>7, <1>8, ApprovalPut DEF IInv
  <2> QED
    BY <1>8, <2>1, RecordsKept DEF IInv, RestOK
<1>10. PICK v : v = RequestedEvent(event)
  OBVIOUS
<1>11. EventOK(v) /\ v \in EventRec /\ v.rv = event.rv
  BY <1>7, <1>10 DEF EventOK
<1>12. CASE r.live
  <2>1. event = mEv[e]
    BY <1>1, <1>2, <1>5, <1>12 DEF EventOf
  <2>2. mEv' = [mEv EXCEPT ![e] = v]
    BY <1>1, <1>2, <1>5, <1>10, <1>12 DEF CreateApproval
  <2>3. EventsOK'
    BY <1>8, <1>11, <2>2, EventPut DEF IInv
  <2>4. \A d \in Event : mEv'[d].rv = mEv[d].rv
    BY <1>11, <2>1, <2>2 DEF IInv, EventsOK
  <2>5. PICK new : new = [r EXCEPT !.pc = "putAp", !.apLive = TRUE]
    OBVIOUS
  <2>6. rq' = [rq EXCEPT ![s] = new]
    BY <1>1, <1>12, <2>5 DEF CreateApproval, IInv, RequestsOK
  <2>7. RequestOK(dRc, new) /\ new.pc = "putAp"
    <3>1. /\ new \in RequestRec /\ new.pc = "putAp" /\ new.ap = a
          /\ new.own = r.own /\ new.text = r.text /\ new.apOwn = r.apOwn
          /\ new.apText = r.apText /\ new.old = r.old
      BY <1>4, <2>5 DEF RequestRec, Pc
    <3> QED
      BY <1>1, <3>1 DEF RequestOK, Mutating
  <2>8. RequestsOK'
    BY <1>8, <2>6, <2>7, OneStep DEF IInv, RequestsOK
  <2>9. Reviewed'
    BY <2>4, <2>6, <2>7, ReviewedKept DEF IInv, RequestOK
  <2> QED
    BY <1>9, <2>3, <2>8, <2>9 DEF IInv
<1>13. CASE ~r.live
  <2>1. PICK new : new = [r EXCEPT !.pc = "putAp", !.apLive = TRUE, !.own = v]
    OBVIOUS
  <2>2. rq' = [rq EXCEPT ![s] = new] /\ mEv' = mEv
    BY <1>1, <1>5, <1>10, <1>13, <2>1 DEF CreateApproval, IInv, RequestsOK
  <2>3. RequestOK(dRc, new) /\ new.pc = "putAp"
    <3>1. /\ new \in RequestRec /\ new.pc = "putAp" /\ new.ap = a
          /\ new.own = v /\ new.text = r.text /\ new.apOwn = r.apOwn
          /\ new.apText = r.apText /\ new.old = r.old
      BY <1>4, <1>11, <2>1 DEF RequestRec, Pc
    <3> QED
      BY <1>1, <1>11, <3>1 DEF RequestOK, Mutating
  <2>4. EventsOK'
    BY <1>8, <2>2, RecordsKept DEF IInv
  <2>5. RequestsOK'
    BY <1>8, <2>2, <2>3, OneStep DEF IInv, RequestsOK
  <2>6. Reviewed'
    BY <2>2, <2>3, ReviewedKept DEF IInv, RequestOK
  <2> QED
    BY <1>9, <2>4, <2>5, <2>6 DEF IInv
<1> QED
  BY <1>12, <1>13

(* A decision, whatever the event is by now: it never applies an event.    *)
LEMMA DecidedOK ==
    ASSUME NEW event, EventOK(event), NEW st
    PROVE  EventOK(DecidedEvent(event, st)) /\ DecidedEvent(event, st).rv = event.rv
<1>1. event \in EventRec /\ event.ver + 1 \in Nat
  BY DEF EventOK, EventRec
<1>2. ASSUME NEW new \in {"approved", "reviewed"}, NEW v,
             v = [event EXCEPT !.status = new, !.ver = event.ver + 1]
      PROVE  EventOK(v) /\ v.rv = event.rv
  <2>1. new \in EventStatus
    BY DEF EventStatus
  <2>2. v \in EventRec /\ v.status = new /\ v.rv = event.rv
    BY <1>1, <1>2, <2>1 DEF EventRec
  <2> QED
    BY <2>2 DEF EventOK
<1>3. \/ DecidedEvent(event, st) = event
      \/ \E new \in {"approved", "reviewed"} :
            DecidedEvent(event, st) = [event EXCEPT !.status = new, !.ver = event.ver + 1]
  BY DEF DecidedEvent
<1> QED
  BY <1>2, <1>3

LEMMA ExpiredOK ==
    ASSUME NEW event, EventOK(event)
    PROVE  EventOK(ExpiredEvent(event)) /\ ExpiredEvent(event).rv = event.rv
<1>1. CASE event.status = "approval_pending"
  <2>1. ExpiredEvent(event) = DecidedEvent(event, "denied")
    BY <1>1 DEF ExpiredEvent, DecidedEvent
  <2> QED
    BY <2>1, DecidedOK
<1>2. CASE event.status # "approval_pending"
  BY <1>2 DEF ExpiredEvent
<1> QED
  BY <1>1, <1>2

(* A handler that has just changed the map's own objects of e and a.       *)
LEMMA DecidingRequest ==
    ASSUME NEW rc, NEW e \in Event, NEW a \in Approval
    PROVE  LET new == [IdleRequest EXCEPT !.pc = "audit", !.op = "decide", !.ev = e, !.ap = a,
                                          !.live = TRUE, !.apLive = TRUE] IN
           RequestOK(rc, new) /\ new.op = "decide"
<1>1. PICK new : new = [IdleRequest EXCEPT !.pc = "audit", !.op = "decide", !.ev = e,
                                           !.ap = a, !.live = TRUE, !.apLive = TRUE]
  OBVIOUS
<1>2. /\ new \in RequestRec /\ new.pc = "audit" /\ new.op = "decide" /\ new.ap = a
      /\ new.own = IdleRequest.own /\ new.text = IdleRequest.text
      /\ new.apOwn = IdleRequest.apOwn /\ new.apText = IdleRequest.apText
      /\ new.old = IdleRequest.old
  BY <1>1, IdleTyped DEF RequestRec, Pc, Op
<1>3. RequestOK(rc, new)
  BY <1>2, IdleOK, EmptyTyped, NoApprovalOK DEF RequestOK, Mutating
<1> QED
  BY <1>1, <1>2, <1>3

LEMMA DecideSteps ==
    ASSUME IInv, NEW s \in Slot, NEW a \in Approval,
           \/ \E role \in Role, approve \in BOOLEAN : Decide(s, a, role, approve)
           \/ DecideExpired(s, a)
    PROVE  IInv'
<1>1. mAp[a] # NoApproval /\ mAp[a].rv.mode = "reality" /\ mAp[a].status = "pending"
  BY DEF Decide, DecideExpired
<1>2. PICK w \in ApprovalRec : w = mAp[a]
  BY <1>1 DEF IInv, ApprovalsOK
<1>3. PICK e \in Event : e = mAp[a].ev
  BY <1>2 DEF ApprovalRec
<1>4. EventOK(mEv[e]) /\ mEv[e] \in EventRec
  BY DEF IInv, EventsOK, EventOK
<1>5. PICK new : new = [IdleRequest EXCEPT !.pc = "audit", !.op = "decide", !.ev = e, !.ap = a,
                                           !.live = TRUE, !.apLive = TRUE]
  OBVIOUS
<1>6. RequestOK(dRc, new) /\ new.op = "decide"
  BY <1>5, DecidingRequest
<1>7. /\ rq' = [rq EXCEPT ![s] = new]
      /\ mApp' = mApp /\ mProj' = mProj /\ mRc' = mRc
      /\ dEv' = dEv /\ dAp' = dAp /\ dApp' = dApp /\ dProj' = dProj /\ dRc' = dRc
      /\ expired' = expired /\ faults' = faults
  BY <1>3, <1>5 DEF Decide, DecideExpired, Begin, database, environment
<1>8. \E n : mAp' = [mAp EXCEPT ![a] = n] /\ ApprovalOK(n)
  <2>1. ASSUME NEW role \in Role, NEW approve \in BOOLEAN, Decide(s, a, role, approve)
        PROVE  <1>8
    <3>1. PICK st \in {"denied", "approved", "pending"} :
               /\ st = DecidedStatus(w, role, approve)
               /\ st = "approved" => approve /\ w.ok \cup {role} = Role
      BY DEF DecidedStatus
    <3>2. PICK ok : ok = IF approve THEN w.ok \cup {role} ELSE w.ok
      OBVIOUS
    <3>3. PICK n : n = [w EXCEPT !.status = st, !.ok = ok]
      OBVIOUS
    <3>4. st \in ApprovalStatus /\ ok \in SUBSET Role
      BY <3>1, <3>2 DEF ApprovalStatus, ApprovalRec
    <3>5. n \in ApprovalRec /\ n.status = st /\ n.ok = ok
      BY <3>3, <3>4 DEF ApprovalRec
    <3>6. ApprovalOK(n)
      BY <3>1, <3>2, <3>5 DEF ApprovalOK
    <3>7. mAp' = [mAp EXCEPT ![a] = n]
      <4>1. mAp' = [mAp EXCEPT ![a].status = st,
                               ![a].ok = IF approve THEN @ \cup {role} ELSE @]
        BY <2>1, <3>1, <1>2 DEF Decide
      <4>2. mAp \in [Approval -> ApprovalRec \cup {NoApproval}]
        BY DEF IInv, ApprovalsOK
      <4>3. \A x : [mAp EXCEPT ![a].status = st, ![a].ok = x]
                   = [mAp EXCEPT ![a] = [mAp[a] EXCEPT !.status = st, !.ok = x]]
        BY <4>2
      <4>4. mAp' = [mAp EXCEPT ![a].status = st, ![a].ok = ok]
        BY <4>1, <4>2, <1>2, <3>2 DEF ApprovalRec
      <4> QED
        BY <4>3, <4>4, <1>2, <3>3
    <3> QED
      BY <3>6, <3>7
  <2>2. CASE DecideExpired(s, a)
    <3>1. PICK n : n = [w EXCEPT !.status = "cancelled"]
      OBVIOUS
    <3>2. n \in ApprovalRec /\ n.status = "cancelled"
      BY <3>1 DEF ApprovalRec, ApprovalStatus
    <3>3. mAp' = [mAp EXCEPT ![a] = n]
      BY <2>2, <1>2, <3>1 DEF DecideExpired
    <3> QED
      BY <3>2, <3>3 DEF ApprovalOK
  <2> QED
    BY <2>1, <2>2
<1>9. \E v : mEv' = [mEv EXCEPT ![e] = v] /\ EventOK(v) /\ v.rv = mEv[e].rv
  <2>1. ASSUME NEW role \in Role, NEW approve \in BOOLEAN, Decide(s, a, role, approve)
        PROVE  <1>9
    <3>1. mEv' = [mEv EXCEPT ![e] = DecidedEvent(mEv[e], DecidedStatus(mAp[a], role, approve))]
      BY <2>1, <1>3 DEF Decide
    <3> QED
      BY <3>1, <1>4, DecidedOK
  <2>2. CASE DecideExpired(s, a)
    <3>1. mEv' = [mEv EXCEPT ![e] = ExpiredEvent(mEv[e])]
      BY <2>2, <1>3 DEF DecideExpired
    <3> QED
      BY <3>1, <1>4, ExpiredOK
  <2> QED
    BY <2>1, <2>2
<1>10. EventsOK'
  BY <1>7, <1>9, EventPut DEF IInv
<1>11. ApprovalsOK'
  BY <1>7, <1>8, ApprovalPut DEF IInv
<1>12. ApplicationsOK' /\ RestOK'
  BY <1>7, RecordsKept DEF IInv, RestOK
<1>13. RequestsOK'
  BY <1>6, <1>7, OneStep DEF IInv, RequestsOK
<1>14. Reviewed'
  <2>1. \A d \in Event : mEv'[d].rv = mEv[d].rv
    BY <1>9 DEF IInv, EventsOK
  <2> QED
    BY <1>6, <1>7, <2>1, ReviewedKept DEF IInv, RequestOK
<1> QED
  BY <1>10, <1>11, <1>12, <1>13, <1>14 DEF IInv

(* The puts overwrite what is on disk with what the handler serialised.    *)
LEMMA LandingSteps ==
    ASSUME IInv, NEW s \in Slot, LandApproval(s) \/ LandEvent(s)
    PROVE  IInv'
<1>1. PICK r \in RequestRec : r = rq[s] /\ RequestOK(dRc, r)
  BY DEF IInv, RequestsOK
<1>2. /\ mEv' = mEv /\ mAp' = mAp /\ mApp' = mApp /\ mProj' = mProj /\ mRc' = mRc
      /\ dApp' = dApp /\ dProj' = dProj /\ dRc' = dRc
      /\ expired' = expired /\ faults' = faults
  BY DEF LandApproval, LandEvent, memory, environment
<1>3. ApplicationsOK' /\ RestOK'
  BY <1>2, RecordsKept DEF IInv, RestOK
<1>4. CASE LandApproval(s)
  <2>1. r.ap \in Approval
    BY <1>1, <1>4 DEF LandApproval, RequestOK
  <2>2. ApprovalsOK' /\ EventsOK'
    <3>1. dAp' = [dAp EXCEPT ![r.ap] = r.apText] /\ dEv' = dEv /\ ApprovalOK(r.apText)
      BY <1>1, <1>4 DEF LandApproval, RequestOK
    <3> QED
      BY <1>2, <2>1, <3>1, ApprovalPut, RecordsKept DEF IInv
  <2>3. PICK new : new = [r EXCEPT !.pc = "putEv"]
    OBVIOUS
  <2>4. rq' = [rq EXCEPT ![s] = new]
    BY <1>1, <1>4, <2>3 DEF LandApproval, Goto
  <2>5. /\ new \in RequestRec /\ new.pc = "putEv" /\ new.ap = r.ap /\ new.op = r.op
        /\ new.own = r.own /\ new.text = r.text /\ new.apOwn = r.apOwn
        /\ new.apText = r.apText /\ new.apLive = r.apLive /\ new.old = r.old
    BY <2>3 DEF RequestRec, Pc
  <2>6. RequestOK(dRc, new)
    BY <1>1, <2>5 DEF RequestOK, Mutating
  <2>7. RequestsOK' /\ Reviewed'
    BY <1>2, <2>4, <2>5, <2>6, OneStep, ReviewedKept DEF IInv, RequestsOK
  <2> QED
    BY <1>3, <2>2, <2>7 DEF IInv
<1>5. CASE LandEvent(s)
  <2>1. /\ dEv' = [dEv EXCEPT ![r.ev] = r.text] /\ dAp' = dAp
        /\ r.ev \in Event /\ EventOK(r.text)
    BY <1>1, <1>5 DEF LandEvent, RequestOK, RequestRec
  <2>2. EventsOK' /\ ApprovalsOK'
    BY <1>2, <2>1, EventPut, RecordsKept DEF IInv
  <2>3. rq' = [rq EXCEPT ![s] = IdleRequest]
    BY <1>5 DEF LandEvent, End
  <2>4. RequestOK(dRc, IdleRequest) /\ IdleRequest.pc = "idle"
    BY IdleOK
  <2>5. RequestsOK' /\ Reviewed'
    BY <1>2, <2>3, <2>4, IdleTyped, OneStep, ReviewedKept DEF IInv, RequestsOK
  <2> QED
    BY <1>3, <2>2, <2>5 DEF IInv
<1> QED
  BY <1>4, <1>5

(* What a prepared request writes: on disk first, then into the maps.      *)
LEMMA Written ==
    ASSUME IInv, NEW s \in Slot, rq[s].pc \in {"commit", "committed"}
    PROVE  /\ rq[s].ev \in Event /\ rq[s].ap \in Approval
           /\ rq[s].op \in {"apply", "rollback"}
           /\ EventOK(NextEvent(s))
           /\ ReceiptOf(s) = Answer(rq[s]) /\ ReceiptOf(s) \in Receipt
           /\ rq[s].op = "apply" => ApprovalOK(ExecutedApproval(s))
           /\ \A rc : rq[s].op = "apply" /\ ReceiptOf(s) \in rc
                         => ApplicationOK(rc, rq[s].ev, ApplicationOf(s))
<1>1. PICK r \in RequestRec : r = rq[s] /\ RequestOK(dRc, r)
  BY DEF IInv, RequestsOK
<1>2. r.ev \in Event /\ r.ap \in Approval /\ r.op \in {"apply", "rollback"} /\ Prepared(dRc, r)
  BY <1>1 DEF RequestOK, RequestRec, Mutating
<1>3. PICK own \in EventRec : own = r.own
  BY DEF RequestRec
<1>4. own.rv \in Review /\ own.rv.mode \in Mode /\ own.ver \in Nat /\ own.ver + 1 \in Nat
  BY <1>2, <1>3 DEF Prepared, EventRec, Review
<1>5. EventOK(NextEvent(s))
  <2>1. PICK st \in {"applied", "rolled_back"} :
             NextEvent(s) = [own EXCEPT !.ver = own.ver + 1, !.status = st, !.by = r.ap]
    BY <1>1, <1>3 DEF NextEvent
  <2>2. PICK v : v = NextEvent(s)
    OBVIOUS
  <2>3. st \in EventStatus
    BY DEF EventStatus
  <2>4. v \in EventRec /\ v.rv = own.rv
    BY <1>2, <1>4, <2>1, <2>2, <2>3 DEF EventRec
  <2> QED
    BY <1>2, <1>3, <2>2, <2>4 DEF EventOK, Prepared
<1>6. ReceiptOf(s) = Answer(r)
  BY <1>1 DEF ReceiptOf, Answer
<1>7. Answer(r) \in Receipt
  BY <1>2, <1>3, <1>4 DEF Answer, Receipt, RequestRec
<1>8. ASSUME r.op = "apply"
      PROVE  ApprovalOK(ExecutedApproval(s))
  <2>1. PICK w \in ApprovalRec : w = r.apOwn /\ ApprovalOK(w) /\ w.status = "approved"
    BY <1>1, <1>2, <1>8 DEF RequestRec, RequestOK, Prepared
  <2>2. PICK n : n = [w EXCEPT !.status = "executed"]
    OBVIOUS
  <2>3. n \in ApprovalRec /\ n.rv = w.rv /\ n.ok = w.ok /\ w # NoApproval
    <3>1. w # NoApproval
      BY <1>2, <1>8, <2>1 DEF Prepared
    <3> QED
      BY <2>2, <3>1 DEF ApprovalRec, ApprovalStatus
  <2>4. ApprovalOK(n)
    BY <2>1, <2>3 DEF ApprovalOK
  <2> QED
    BY <1>1, <2>1, <2>2, <2>4 DEF ExecutedApproval
<1>9. ASSUME NEW rc, r.op = "apply", Answer(r) \in rc
      PROVE  ApplicationOK(rc, r.ev, ApplicationOf(s))
  <2>1. PICK m : m = [mode |-> own.rv.mode, ap |-> r.ap,
                      before |-> r.before, after |-> r.after]
    OBVIOUS
  <2>2. ApplicationOf(s) = m
    BY <1>1, <1>3, <2>1 DEF ApplicationOf
  <2>3. m \in Application
    BY <1>2, <1>4, <2>1 DEF Application, RequestRec
  <2>4. m.mode = "reality" => Applied(rc, r.ev, m)
    BY <1>3, <1>9, <2>1 DEF Applied, Answer
  <2> QED
    BY <2>2, <2>3, <2>4 DEF ApplicationOK
<1> QED
  BY <1>1, <1>2, <1>5, <1>6, <1>7, <1>8, <1>9

LEMMA CommitStep ==
    ASSUME IInv, NEW s \in Slot, CommitMutation(s)
    PROVE  IInv'
<1>1. PICK r \in RequestRec : r = rq[s] /\ RequestOK(dRc, r)
  BY DEF IInv, RequestsOK
<1>2. r.pc = "commit" /\ Prepared(dRc, r)
  BY <1>1 DEF CommitMutation, RequestOK
<1>3. /\ r.ev \in Event /\ r.ap \in Approval /\ r.op \in {"apply", "rollback"}
      /\ EventOK(NextEvent(s)) /\ ReceiptOf(s) = Answer(r) /\ ReceiptOf(s) \in Receipt
      /\ r.op = "apply" => ApprovalOK(ExecutedApproval(s))
      /\ \A rc : r.op = "apply" /\ ReceiptOf(s) \in rc
                    => ApplicationOK(rc, r.ev, ApplicationOf(s))
  BY <1>1, Written DEF CommitMutation
<1>4. /\ mEv' = mEv /\ mAp' = mAp /\ mApp' = mApp /\ mProj' = mProj /\ mRc' = mRc
      /\ expired' = expired /\ faults' = faults
      /\ dEv' = [dEv EXCEPT ![r.ev] = NextEvent(s)]
      /\ dRc' = dRc \cup {ReceiptOf(s)}
      /\ dProj' = r.after \/ dProj' = dProj
  BY <1>1 DEF CommitMutation, memory, environment
<1>5. EventsOK'
  BY <1>3, <1>4, EventPut DEF IInv
<1>6. ApprovalsOK' /\ ApplicationsOK'
  <2>1. CASE r.op = "apply"
    <3>1. /\ dAp' = [dAp EXCEPT ![r.ap] = ExecutedApproval(s)]
          /\ dApp' = [dApp EXCEPT ![r.ev] = ApplicationOf(s)]
      BY <1>1, <2>1 DEF CommitMutation
    <3>2. ApprovalsOK'
      BY <1>3, <1>4, <2>1, <3>1, ApprovalPut DEF IInv
    <3>3. ApplicationOK(dRc', r.ev, ApplicationOf(s)) /\ dRc \subseteq dRc'
      BY <1>3, <1>4, <2>1
    <3>4. ApplicationsOK'
      BY <1>3, <1>4, <3>1, <3>3, ApplicationPut DEF IInv
    <3> QED
      BY <3>2, <3>4
  <2>2. CASE r.op # "apply"
    <3>1. dAp' = dAp /\ dApp' = dApp
      BY <1>1, <2>2 DEF CommitMutation
    <3>2. ApprovalsOK'
      BY <1>4, <3>1, RecordsKept DEF IInv
    <3>3. \A e \in Event : ApplicationOK(dRc', e, mApp[e]) /\ ApplicationOK(dRc', e, dApp[e])
      BY <1>4, Grow DEF IInv, ApplicationsOK
    <3> QED
      BY <1>4, <3>1, <3>2, <3>3 DEF IInv, ApplicationsOK
  <2> QED
    BY <2>1, <2>2
<1>7. RestOK'
  <2>1. r.after \in Projection
    BY DEF RequestRec
  <2> QED
    BY <1>3, <1>4, <2>1 DEF IInv, RestOK
<1>8. PICK new : new = [r EXCEPT !.pc = "committed"]
  OBVIOUS
<1>9. rq' = [rq EXCEPT ![s] = new]
  BY <1>1, <1>8 DEF CommitMutation, Goto
<1>10. RequestOK(dRc', new) /\ new.pc = "committed"
  <2>1. RequestOK(dRc', r)
    BY <1>1, <1>4, Grow
  <2>2. /\ new \in RequestRec /\ new.pc = "committed" /\ new.op = r.op /\ new.ev = r.ev
        /\ new.ap = r.ap /\ new.key = r.key /\ new.live = r.live /\ new.apLive = r.apLive
        /\ new.own = r.own /\ new.text = r.text /\ new.apOwn = r.apOwn
        /\ new.apText = r.apText /\ new.old = r.old
        /\ new.before = r.before /\ new.after = r.after
    BY <1>8 DEF RequestRec, Pc
  <2>3. Prepared(dRc', r) /\ r.ap \in Approval /\ r.op \in {"apply", "rollback"}
    BY <1>2, <1>3, <2>1 DEF RequestOK
  <2>4. Undoes(dRc', new) <=> Undoes(dRc', r)
    BY <2>2 DEF Undoes
  <2>5. Prepared(dRc', new)
    BY <2>2, <2>3, <2>4 DEF Prepared
  <2>6. Answer(new) \in dRc'
    BY <1>3, <1>4, <2>2 DEF Answer
  <2> QED
    BY <2>1, <2>2, <2>3, <2>5, <2>6 DEF RequestOK, Mutating
<1>11. RequestsOK'
  BY <1>4, <1>9, <1>10, OneStep DEF IInv, RequestsOK
<1>12. Reviewed'
  BY <1>4, <1>9, <1>10, ReviewedKept DEF IInv, RequestOK
<1> QED
  BY <1>5, <1>6, <1>7, <1>11, <1>12 DEF IInv

(* The maps follow, and the handler ends.                                  *)
LEMMA MapsFollow ==
    ASSUME IInv, NEW s \in Slot, NEW e \in Event, NEW a \in Approval, NEW q, NEW v,
           EventOK(v), mEv' = [mEv EXCEPT ![e] = v], dEv' = dEv,
           \/ q = DetachEvent(rq, e)
           \/ q = DetachApproval(DetachEvent(rq, e), a),
           rq' = [q EXCEPT ![s] = IdleRequest], dRc' = dRc
    PROVE  EventsOK' /\ RequestsOK' /\ Reviewed'
<1>1. EventsOK'
  BY EventPut DEF IInv
<1>2. /\ DetachEvent(rq, e) \in [Slot -> RequestRec]
      /\ \A t \in Slot : RequestOK(dRc, DetachEvent(rq, e)[t])
  BY EventDetached DEF IInv, RequestsOK
<1>3. q \in [Slot -> RequestRec] /\ \A t \in Slot : RequestOK(dRc, q[t])
  <2> DEFINE held == DetachEvent(rq, e)
  <2>1. held \in [Slot -> RequestRec] /\ \A t \in Slot : RequestOK(dRc, held[t])
    BY <1>2
  <2>2. q = held \/ q = DetachApproval(held, a)
    OBVIOUS
  <2> HIDE DEF held
  <2> QED
    BY <2>1, <2>2, ApprovalDetached DEF IInv
<1>4. RequestOK(dRc', IdleRequest) /\ IdleRequest.pc = "idle"
  BY IdleOK
<1>5. RequestsOK'
  BY <1>3, <1>4, OneStep
<1>6. Reviewed'
  <2>1. PICK idle : idle = IdleRequest /\ idle.pc = "idle"
    BY <1>4
  <2>2. rq' = [q EXCEPT ![s] = idle]
    BY <2>1
  <2>3. \/ q = DetachEvent(rq, e)
        \/ \E b \in Approval : q = DetachApproval(DetachEvent(rq, e), b)
    OBVIOUS
  <2>4. idle.pc # "audit" /\ Reviewed /\ RequestsOK /\ EventsOK
    BY <2>1 DEF IInv
  <2> QED
    BY <2>2, <2>3, <2>4, ReviewedDetached
<1> QED
  BY <1>1, <1>5, <1>6

LEMMA FinishStep ==
    ASSUME IInv, NEW s \in Slot, FinishMutation(s)
    PROVE  IInv'
<1>1. PICK r \in RequestRec : r = rq[s] /\ RequestOK(dRc, r)
  BY DEF IInv, RequestsOK
<1>2. r.pc = "committed" /\ Answer(r) \in dRc
  BY <1>1 DEF FinishMutation, RequestOK
<1>3. /\ r.ev \in Event /\ r.ap \in Approval /\ EventOK(NextEvent(s)) /\ ReceiptOf(s) \in dRc
      /\ r.op = "apply" => /\ ApprovalOK(ExecutedApproval(s))
                           /\ ApplicationOK(dRc, r.ev, ApplicationOf(s))
  BY <1>1, <1>2, Written
<1>4. /\ mProj' = mProj /\ mRc' = mRc \cup {ReceiptOf(s)}
      /\ dEv' = dEv /\ dAp' = dAp /\ dApp' = dApp /\ dProj' = dProj /\ dRc' = dRc
      /\ expired' = expired /\ faults' = faults
      /\ mEv' = [mEv EXCEPT ![r.ev] = NextEvent(s)]
  BY <1>1 DEF FinishMutation, database, environment
<1>5. RestOK'
  BY <1>3, <1>4 DEF IInv, RestOK
<1>6. CASE r.op = "apply"
  <2>1. /\ mAp' = [mAp EXCEPT ![r.ap] = ExecutedApproval(s)]
        /\ mApp' = [mApp EXCEPT ![r.ev] = ApplicationOf(s)]
        /\ rq' = [DetachApproval(DetachEvent(rq, r.ev), r.ap) EXCEPT ![s] = IdleRequest]
    BY <1>1, <1>6 DEF FinishMutation
  <2>2. ApprovalsOK' /\ ApplicationsOK'
    BY <1>3, <1>4, <1>6, <2>1, ApprovalPut, ApplicationPut DEF IInv
  <2>3. EventsOK' /\ RequestsOK' /\ Reviewed'
    BY <1>3, <1>4, <2>1, MapsFollow
  <2> QED
    BY <1>5, <2>2, <2>3 DEF IInv
<1>7. CASE r.op # "apply"
  <2>1. mAp' = mAp /\ mApp' = mApp /\ rq' = [DetachEvent(rq, r.ev) EXCEPT ![s] = IdleRequest]
    BY <1>1, <1>7 DEF FinishMutation
  <2>2. ApprovalsOK' /\ ApplicationsOK'
    BY <1>4, <2>1, RecordsKept DEF IInv
  <2>3. EventsOK' /\ RequestsOK' /\ Reviewed'
    BY <1>3, <1>4, <2>1, MapsFollow
  <2> QED
    BY <1>5, <2>2, <2>3 DEF IInv
<1> QED
  BY <1>6, <1>7

LEMMA SetEventStep ==
    ASSUME IInv, NEW s \in Slot, SetEvent(s)
    PROVE  IInv'
<1>1. PICK r \in RequestRec : r = rq[s] /\ RequestOK(dRc, r)
  BY DEF IInv, RequestsOK
<1>2. /\ r.pc = "setEv" /\ r.ev \in Event /\ r.ap \in Approval
      /\ EventOK(r.text) /\ r.old \subseteq dRc
  BY <1>1 DEF SetEvent, RequestOK, RequestRec, Mutating
<1>3. /\ mProj' = mProj /\ mRc' = mRc \cup r.old
      /\ dEv' = dEv /\ dAp' = dAp /\ dApp' = dApp /\ dProj' = dProj /\ dRc' = dRc
      /\ expired' = expired /\ faults' = faults
      /\ mEv' = [mEv EXCEPT ![r.ev] = r.text]
      /\ mApp' = [mApp EXCEPT ![r.ev] = IF dApp[r.ev] = NoApplication THEN @ ELSE dApp[r.ev]]
  BY <1>1 DEF SetEvent, database, environment
<1>4. RestOK'
  BY <1>2, <1>3 DEF IInv, RestOK
<1>5. ApplicationsOK'
  <2>1. PICK m : m = IF dApp[r.ev] = NoApplication THEN mApp[r.ev] ELSE dApp[r.ev]
    OBVIOUS
  <2>2. ApplicationOK(dRc, r.ev, m) /\ mApp' = [mApp EXCEPT ![r.ev] = m]
    BY <1>2, <1>3, <2>1 DEF IInv, ApplicationsOK
  <2> QED
    BY <1>2, <1>3, <2>2, ApplicationPut DEF IInv
<1>6. CASE r.outcome = "replayed"
  <2>1. /\ mAp' = [mAp EXCEPT ![r.ap] = dAp[r.ap]]
        /\ rq' = [DetachApproval(DetachEvent(rq, r.ev), r.ap) EXCEPT ![s] = IdleRequest]
    BY <1>1, <1>6 DEF SetEvent
  <2>2. ApprovalOK(dAp[r.ap])
    BY <1>2 DEF IInv, ApprovalsOK
  <2>3. ApprovalsOK'
    BY <1>2, <1>3, <2>1, <2>2, ApprovalPut DEF IInv
  <2>4. EventsOK' /\ RequestsOK' /\ Reviewed'
    BY <1>2, <1>3, <2>1, MapsFollow
  <2> QED
    BY <1>4, <1>5, <2>3, <2>4 DEF IInv
<1>7. CASE r.outcome # "replayed"
  <2>1. mAp' = mAp /\ rq' = [DetachEvent(rq, r.ev) EXCEPT ![s] = IdleRequest]
    BY <1>1, <1>7 DEF SetEvent
  <2>2. ApprovalsOK'
    BY <1>3, <2>1, RecordsKept DEF IInv
  <2>3. EventsOK' /\ RequestsOK' /\ Reviewed'
    BY <1>2, <1>3, <2>1, MapsFollow
  <2> QED
    BY <1>4, <1>5, <2>2, <2>3 DEF IInv
<1> QED
  BY <1>6, <1>7

LEMMA RestartStep ==
    ASSUME IInv, Restart
    PROVE  IInv'
<1>1. faults' \in Nat /\ expired' = expired
  BY FaultTyped DEF Restart, IInv
<1>2. /\ dEv' = dEv /\ dAp' = dAp /\ dApp' = dApp /\ dProj' = dProj /\ dRc' = dRc
      /\ mEv' = dEv /\ mAp' = dAp /\ mApp' = dApp /\ mProj' = dProj /\ mRc' = dRc
      /\ rq' = [s \in Slot |-> IdleRequest]
  BY DEF Restart, database
<1>3. EventsOK' /\ ApprovalsOK' /\ ApplicationsOK' /\ RestOK'
  BY <1>1, <1>2 DEF IInv, EventsOK, ApprovalsOK, ApplicationsOK, RestOK
<1>4. RequestOK(dRc', IdleRequest) /\ IdleRequest \in RequestRec /\ IdleRequest.pc = "idle"
  BY IdleOK, IdleTyped
<1> QED
  BY <1>2, <1>3, <1>4 DEF IInv, RequestsOK, Reviewed

LEMMA ExpireStep ==
    ASSUME IInv, NEW a \in Approval, Expire(a)
    PROVE  IInv'
<1>1. /\ UNCHANGED <<memory, database, faults, rq>>
      /\ expired' = expired \cup {a}
  BY DEF Expire
<1>2. EventsOK' /\ ApprovalsOK' /\ ApplicationsOK'
  BY <1>1, RecordsKept DEF IInv, memory, database
<1>3. RestOK'
  BY <1>1 DEF IInv, RestOK, memory, database
<1>4. RequestsOK' /\ Reviewed'
  BY <1>1 DEF IInv, RequestsOK, Reviewed, EventOf, memory, database
<1> QED
  BY <1>2, <1>3, <1>4 DEF IInv

LEMMA InitOK == Init => IInv
<1> SUFFICES ASSUME Init PROVE IInv
  OBVIOUS
<1>1. ReadyReview \in Review
  <2>1. (CHOOSE n \in Note : TRUE) \in Note
    BY EventAssumption
  <2> QED
    BY <2>1, EmptyTyped DEF ReadyReview, Review, Mode
<1>2. EventOK(ReadyEvent) /\ EventOK(NewEvent) /\ ReadyEvent \in EventRec /\ NewEvent \in EventRec
  BY <1>1, EmptyTyped DEF ReadyEvent, EventRec, EventStatus, EventOK
<1>3. EventsOK
  BY <1>2 DEF Init, EventsOK
<1>4. ASSUME NEW a \in Approval
      PROVE  /\ InitialApprovals[a] \in ApprovalRec \cup {NoApproval}
             /\ ApprovalOK(InitialApprovals[a])
  <2>1. CASE \E e \in Ready : ReadyApproval[e] = a
    <3>1. PICK e \in Ready : e = CHOOSE d \in Ready : ReadyApproval[d] = a
      BY <2>1
    <3>2. InitialApprovals[a] = [ev |-> e, rv |-> ReadyReview, ver |-> 2,
                                 status |-> "approved", ok |-> Role]
      BY <2>1, <3>1 DEF InitialApprovals
    <3> QED
      BY <1>1, <3>2, EventAssumption DEF ApprovalRec, ApprovalStatus, ApprovalOK
  <2>2. CASE ~ \E e \in Ready : ReadyApproval[e] = a
    BY <2>2, NoApprovalOK DEF InitialApprovals
  <2> QED
    BY <2>1, <2>2
<1>5. ApprovalsOK
  <2>1. InitialApprovals = [a \in Approval |-> InitialApprovals[a]]
    BY DEF InitialApprovals
  <2> QED
    BY <1>4, <2>1 DEF Init, ApprovalsOK
<1>6. ApplicationsOK
  BY DEF Init, ApplicationsOK, ApplicationOK
<1>7. RestOK
  BY EmptyTyped DEF Init, RestOK
<1>8. RequestOK(dRc, IdleRequest) /\ IdleRequest.pc = "idle"
  BY IdleOK
<1>9. RequestsOK /\ Reviewed
  BY <1>8, IdleTyped DEF Init, RequestsOK, Reviewed
<1> QED
  BY <1>3, <1>5, <1>6, <1>7, <1>9 DEF IInv

LEMMA StutterStep ==
    ASSUME IInv, UNCHANGED vars
    PROVE  IInv'
<1>1. /\ mEv' = mEv /\ mAp' = mAp /\ mApp' = mApp /\ mProj' = mProj /\ mRc' = mRc
      /\ dEv' = dEv /\ dAp' = dAp /\ dApp' = dApp /\ dProj' = dProj /\ dRc' = dRc
      /\ expired' = expired /\ faults' = faults /\ rq' = rq
  BY DEF vars
<1>2. EventsOK' /\ ApprovalsOK' /\ ApplicationsOK' /\ RestOK'
  BY <1>1, RecordsKept DEF IInv, RestOK
<1>3. RequestsOK' /\ Reviewed'
  BY <1>1 DEF IInv, RequestsOK, Reviewed, EventOf
<1> QED
  BY <1>2, <1>3 DEF IInv

LEMMA StepOK ==
    ASSUME IInv, [Next]_vars
    PROVE  IInv'
<1>1. ASSUME NEW s \in Slot, Request(s)
      PROVE  IInv'
  BY <1>1, StartReviewStep, StartRequestApprovalStep, DecideSteps, StartApplyStep,
     StartRollbackStep DEF Request
<1>2. ASSUME NEW s \in Slot, Handler(s)
      PROVE  IInv'
  BY <1>2, InstallReviewStep, CreateApprovalStep, MovingSteps, LandingSteps, CommitStep,
     FinishStep, UnwindingSteps, SetEventStep DEF Handler
<1>3. CASE \E e \in Event, a \in Approval, key \in Key : ApplyRefusedByAudit(e, a, key)
  BY <1>3, RefusedByAuditSteps
<1>4. CASE \E e \in Event, key \in Key : RollbackRefusedByAudit(e, key)
  BY <1>4, RefusedByAuditSteps
<1>5. CASE \E a \in Approval : Expire(a)
  BY <1>5, ExpireStep
<1>6. CASE Restart
  BY <1>6, RestartStep
<1>7. CASE UNCHANGED vars
  BY <1>7, StutterStep
<1> QED
  BY <1>1, <1>2, <1>3, <1>4, <1>5, <1>6, <1>7 DEF Next

(* The invariant all other results rest on: every copy of a record is      *)
(* typed, approvals for reality have both roles, application records name  *)
(* what an apply committed, and what a request's guards saw still holds of *)
(* the copies it commits from.                                             *)
THEOREM InvariantHolds == Spec => []IInv
<1>1. IInv /\ [Next]_vars => IInv'
  BY StepOK
<1> QED
  BY InitOK, <1>1, PTL DEF Spec

(* Every variable keeps its type.                                          *)
THEOREM TypeCorrect == Spec => []TypeOK
<1>1. IInv => TypeOK
  BY DEF IInv, EventsOK, ApprovalsOK, ApplicationsOK, RestOK, RequestsOK, TypeOK
<1> QED
  BY InvariantHolds, <1>1, PTL

-----------------------------------------------------------------------------
(* The receipts and the projection on disk change by commits only.         *)

LEMMA OnlyCommits ==
    ASSUME [Next]_vars
    PROVE  \/ dRc' = dRc /\ dProj' = dProj
           \/ \E s \in Slot : CommitMutation(s)
<1>1. ASSUME NEW s \in Slot, Request(s)
      PROVE  dRc' = dRc /\ dProj' = dProj
  BY <1>1 DEF Request, StartReview, StartRequestApproval, Decide, DecideExpired, StartApply,
     StartRollback, database
<1>2. ASSUME NEW s \in Slot, Handler(s), ~CommitMutation(s)
      PROVE  dRc' = dRc /\ dProj' = dProj
  <2>1. CASE \/ InstallReview(s) \/ CreateApproval(s) \/ DecisionAudited(s)
             \/ SerialiseApproval(s) \/ LandApproval(s) \/ SerialiseEvent(s) \/ LandEvent(s)
             \/ StatementFails(s)
    BY <2>1 DEF InstallReview, CreateApproval, DecisionAudited, SerialiseApproval,
       LandApproval, SerialiseEvent, LandEvent, StatementFails, database
  <2>2. CASE \/ ReplayMutation(s) \/ RefuseMutation(s) \/ LoseMutation(s)
             \/ FinishMutation(s) \/ UnwindThrows(s) \/ Unwind(s)
             \/ Hydrate(s) \/ HydrateThrows(s) \/ ReadEvent(s) \/ SetEvent(s) \/ ReloadFails(s)
    BY <2>2 DEF ReplayMutation, RefuseMutation, LoseMutation, FinishMutation, UnwindThrows,
       Unwind, Hydrate, HydrateThrows, ReadEvent, SetEvent, ReloadFails, database
  <2> QED
    BY <1>2, <2>1, <2>2 DEF Handler
<1>3. CASE \/ \E e \in Event, a \in Approval, key \in Key : ApplyRefusedByAudit(e, a, key)
           \/ \E e \in Event, key \in Key : RollbackRefusedByAudit(e, key)
           \/ \E a \in Approval : Expire(a)
           \/ Restart
  BY <1>3 DEF ApplyRefusedByAudit, RollbackRefusedByAudit, Expire, Restart, database
<1>4. CASE UNCHANGED vars
  BY <1>4 DEF vars
<1> QED
  BY <1>1, <1>2, <1>3, <1>4 DEF Next

(* What a commit finds and leaves on disk.                                 *)
LEMMA CommitFacts ==
    ASSUME IInv, NEW s \in Slot, CommitMutation(s)
    PROVE  \E x \in Receipt :
              /\ x = ReceiptOf(s) /\ dRc' = dRc \cup {x}
              /\ ~ \E y \in dRc : y.op = x.op /\ y.ev = x.ev /\ y.key = x.key
              /\ dEv[x.ev].status = (IF x.op = "apply" THEN "approved" ELSE "applied")
              /\ dEv[x.ev].ver = x.ver /\ dEv[x.ev].rv = x.rv
              /\ dEv'[x.ev].ver = x.ver + 1 /\ dEv'[x.ev].rv = x.rv
              /\ x.rv.mode = "reality" =>
                    /\ x.before = dProj /\ dProj' = x.after
                    /\ x.after.ver = x.before.ver + 1
              /\ x.rv.mode # "reality" => dProj' = dProj
              /\ x.op = "apply" =>
                    /\ dAp'[x.ap].status = "executed" /\ dAp'[x.ap].ev = x.ev
                    /\ dAp'[x.ap].rv = x.rv
                    /\ x.rv.mode = "reality" => dAp'[x.ap].ok = Role
                    /\ x.rv.snap = dProj /\ x.before = dProj
                    /\ x.rv.mode = "reality" => x.after.facts = dProj.facts \cup {x.ev}
              /\ (x.op = "rollback" /\ x.rv.mode = "reality") => Undoes(dRc, x)
<1>1. PICK r \in RequestRec : r = rq[s] /\ RequestOK(dRc, r)
  BY DEF IInv, RequestsOK
<1>2. r.pc = "commit" /\ Prepared(dRc, r)
  BY <1>1 DEF CommitMutation, RequestOK
<1>3. /\ r.ev \in Event /\ r.ap \in Approval /\ r.op \in {"apply", "rollback"}
      /\ ReceiptOf(s) = Answer(r) /\ ReceiptOf(s) \in Receipt
  BY <1>1, Written DEF CommitMutation
<1>4. PICK x \in Receipt : x = ReceiptOf(s) /\ x = Answer(r)
  BY <1>3
<1>5. /\ x.op = r.op /\ x.ev = r.ev /\ x.key = r.key /\ x.ap = r.ap /\ x.ver = r.own.ver
      /\ x.rv = r.own.rv /\ x.before = r.before /\ x.after = r.after
  BY <1>4 DEF Answer
<1>6. dRc' = dRc \cup {x}
  BY <1>4 DEF CommitMutation
<1>7. ~ \E y \in dRc : y.op = x.op /\ y.ev = x.ev /\ y.key = x.key
  BY <1>1, <1>5 DEF CommitMutation, Reserved, Known
<1>8. dEv[x.ev] = r.own /\ (r.own.rv.mode = "reality" \/ r.op = "apply" => dProj = r.before)
  BY <1>1, <1>5 DEF CommitMutation, AsExpected, Reality
<1>9. /\ dEv[x.ev].status = (IF x.op = "apply" THEN "approved" ELSE "applied")
      /\ dEv[x.ev].ver = x.ver /\ dEv[x.ev].rv = x.rv
  BY <1>2, <1>5, <1>8 DEF Prepared
<1>10. dEv'[x.ev].ver = x.ver + 1 /\ dEv'[x.ev].rv = x.rv
  <2>1. PICK own \in EventRec : own = r.own
    BY DEF RequestRec
  <2>2. dEv'[x.ev] = NextEvent(s)
    BY <1>1, <1>3, <1>5 DEF CommitMutation, IInv, EventsOK
  <2>3. PICK st : NextEvent(s) = [own EXCEPT !.ver = own.ver + 1, !.status = st, !.by = r.ap]
    BY <1>1, <2>1 DEF NextEvent
  <2> QED
    BY <1>5, <2>1, <2>2, <2>3 DEF EventRec
<1>11. /\ x.rv.mode = "reality" => /\ x.before = dProj /\ dProj' = x.after
                                   /\ x.after.ver = x.before.ver + 1
       /\ x.rv.mode # "reality" => dProj' = dProj
  <2>1. dProj' = IF r.own.rv.mode = "reality" THEN r.after ELSE dProj
    BY <1>1 DEF CommitMutation, Reality
  <2> QED
    BY <1>2, <1>5, <1>8, <2>1 DEF Prepared
<1>12. x.op = "apply" =>
          /\ dAp'[x.ap].status = "executed" /\ dAp'[x.ap].ev = x.ev
          /\ dAp'[x.ap].rv = x.rv
          /\ x.rv.mode = "reality" => dAp'[x.ap].ok = Role
          /\ x.rv.snap = dProj /\ x.before = dProj
          /\ x.rv.mode = "reality" => x.after.facts = dProj.facts \cup {x.ev}
  <2> SUFFICES ASSUME r.op = "apply"
               PROVE  /\ dAp'[x.ap].status = "executed" /\ dAp'[x.ap].ev = x.ev
                      /\ dAp'[x.ap].rv = x.rv
                      /\ x.rv.mode = "reality" => dAp'[x.ap].ok = Role
                      /\ x.rv.snap = dProj /\ x.before = dProj
                      /\ x.rv.mode = "reality" => x.after.facts = dProj.facts \cup {x.ev}
    BY <1>5
  <2>1. PICK w \in ApprovalRec :
             /\ w = r.apOwn /\ ApprovalOK(w) /\ w # NoApproval
             /\ w.ev = r.ev /\ w.rv = r.own.rv /\ w.status = "approved"
    BY <1>1, <1>2 DEF RequestRec, RequestOK, Prepared
  <2>2. dAp'[x.ap] = ExecutedApproval(s)
    BY <1>1, <1>3, <1>5 DEF CommitMutation, IInv, ApprovalsOK
  <2>3. ExecutedApproval(s) = [w EXCEPT !.status = "executed"]
    BY <1>1, <2>1 DEF ExecutedApproval
  <2>4. /\ dAp'[x.ap].status = "executed" /\ dAp'[x.ap].ev = w.ev
        /\ dAp'[x.ap].rv = w.rv /\ dAp'[x.ap].ok = w.ok
    BY <2>2, <2>3 DEF ApprovalRec
  <2>5. w.rv.mode = "reality" => w.ok = Role
    BY <2>1 DEF ApprovalOK
  <2>6. /\ x.rv.snap = dProj /\ x.before = dProj
        /\ x.rv.mode = "reality" => x.after.facts = dProj.facts \cup {x.ev}
    BY <1>2, <1>5, <1>8 DEF Prepared
  <2> QED
    BY <1>5, <2>1, <2>4, <2>5, <2>6
<1>13. (x.op = "rollback" /\ x.rv.mode = "reality") => Undoes(dRc, x)
  BY <1>2, <1>5 DEF Prepared, Undoes
<1> QED
  BY <1>4, <1>6, <1>7, <1>9, <1>10, <1>11, <1>12, <1>13

-----------------------------------------------------------------------------
(* The properties.                                                         *)

(* A receipt that reaches the disk is a legal step of the event on disk.   *)
THEOREM LegalHolds == Spec => LegalOnDisk
<1>1. IInv /\ [Next]_vars =>
        [\A x \in dRc' \ dRc :
            /\ dEv[x.ev].status = (IF x.op = "apply" THEN "approved" ELSE "applied")
            /\ dEv[x.ev].ver = x.ver /\ dEv[x.ev].rv = x.rv
            /\ dEv'[x.ev].ver = x.ver + 1]_vars
  <2> SUFFICES ASSUME IInv, [Next]_vars, NEW x \in dRc' \ dRc
               PROVE  /\ dEv[x.ev].status = (IF x.op = "apply" THEN "approved" ELSE "applied")
                      /\ dEv[x.ev].ver = x.ver /\ dEv[x.ev].rv = x.rv
                      /\ dEv'[x.ev].ver = x.ver + 1
    OBVIOUS
  <2>1. PICK s \in Slot : CommitMutation(s)
    BY OnlyCommits
  <2> QED
    BY <2>1, CommitFacts
<1> QED
  BY <1>1, InvariantHolds, PTL DEF Spec, LegalOnDisk

(* An apply reaches the disk only as it was approved.                      *)
THEOREM ApprovedHolds == Spec => AppliedAsApproved
<1>1. IInv /\ [Next]_vars =>
        [\A x \in dRc' \ dRc : x.op = "apply" =>
            /\ dAp'[x.ap].status = "executed"
            /\ dAp'[x.ap].ev = x.ev
            /\ dAp'[x.ap].rv = x.rv /\ dEv'[x.ev].rv = x.rv
            /\ x.rv.mode = "reality" => dAp'[x.ap].ok = Role
            /\ x.rv.snap = dProj]_vars
  <2> SUFFICES ASSUME IInv, [Next]_vars, NEW x \in dRc' \ dRc, x.op = "apply"
               PROVE  /\ dAp'[x.ap].status = "executed"
                      /\ dAp'[x.ap].ev = x.ev
                      /\ dAp'[x.ap].rv = x.rv /\ dEv'[x.ev].rv = x.rv
                      /\ x.rv.mode = "reality" => dAp'[x.ap].ok = Role
                      /\ x.rv.snap = dProj
    OBVIOUS
  <2>1. PICK s \in Slot : CommitMutation(s)
    BY OnlyCommits
  <2> QED
    BY <2>1, CommitFacts
<1> QED
  BY <1>1, InvariantHolds, PTL DEF Spec, AppliedAsApproved

(* One receipt per request, and none in memory that is not on disk.        *)
THEOREM OneReceiptHolds == Spec => []OneReceiptPerRequest
<1>1. Init => OneReceiptPerRequest
  BY DEF Init, OneReceiptPerRequest
<1>2. IInv /\ IInv' /\ OneReceiptPerRequest /\ [Next]_vars => OneReceiptPerRequest'
  <2> SUFFICES ASSUME IInv, IInv', OneReceiptPerRequest, [Next]_vars
               PROVE  OneReceiptPerRequest'
    OBVIOUS
  <2>1. mRc' \subseteq dRc'
    BY DEF IInv, RestOK
  <2>2. CASE dRc' = dRc
    BY <2>1, <2>2 DEF OneReceiptPerRequest
  <2>3. ASSUME NEW s \in Slot, CommitMutation(s)
        PROVE  OneReceiptPerRequest'
    <3>1. PICK x : /\ dRc' = dRc \cup {x}
                   /\ ~ \E y \in dRc : y.op = x.op /\ y.ev = x.ev /\ y.key = x.key
      BY <2>3, CommitFacts
    <3> QED
      BY <2>1, <3>1 DEF OneReceiptPerRequest
  <2> QED
    BY <2>2, <2>3, OnlyCommits
<1> QED
  BY <1>1, <1>2, InvariantHolds, PTL DEF Spec

(* The receipts of reality are the history of the projection.              *)
THEOREM ChainHolds == Spec => []ReceiptChain
<1>1. Init => ReceiptChain
  BY DEF Init, ReceiptChain, RealReceipts
<1>2. IInv /\ ReceiptChain /\ [Next]_vars => ReceiptChain'
  <2> SUFFICES ASSUME IInv, ReceiptChain, [Next]_vars
               PROVE  ReceiptChain'
    OBVIOUS
  <2>1. CASE dRc' = dRc /\ dProj' = dProj
    BY <2>1 DEF ReceiptChain, RealReceipts
  <2>2. ASSUME NEW s \in Slot, CommitMutation(s)
        PROVE  ReceiptChain'
    <3>1. PICK x \in Receipt :
               /\ dRc' = dRc \cup {x}
               /\ x.rv.mode = "reality" =>
                     /\ x.before = dProj /\ dProj' = x.after
                     /\ x.after.ver = x.before.ver + 1
               /\ x.rv.mode # "reality" => dProj' = dProj
      BY <2>2, CommitFacts
    <3>2. CASE x.rv.mode # "reality"
      <4>1. RealReceipts' = RealReceipts /\ dProj' = dProj
        BY <3>1, <3>2 DEF RealReceipts
      <4> QED
        BY <4>1 DEF ReceiptChain
    <3>3. CASE x.rv.mode = "reality"
      <4> DEFINE R == RealReceipts
      <4>1. RealReceipts' = R \cup {x}
        BY <3>1, <3>3 DEF RealReceipts
      <4>2. \A y \in R : y.after.ver \in Nat
        BY DEF RealReceipts, IInv, RestOK, Receipt, Projection
      <4>3. /\ x.before = dProj /\ dProj' = x.after /\ dProj.ver \in Nat
            /\ x.after.ver = dProj.ver + 1
        BY <3>1, <3>3 DEF IInv, RestOK, Projection
      <4>4. /\ \A y \in R : y.after.ver = y.before.ver + 1 /\ y.after.ver <= dProj.ver
            /\ \A y, z \in R : y.after.ver = z.after.ver => y = z
            /\ \A y \in R : /\ y.before = EmptyProjection \/ \E z \in R : z.after = y.before
                            /\ y.after = dProj \/ \E z \in R : z.before = y.after
            /\ dProj = EmptyProjection \/ \E y \in R : y.after = dProj
        BY DEF ReceiptChain
      <4> HIDE DEF R
      <4>5. \A y \in R : y.after.ver <= x.after.ver /\ y.after.ver # x.after.ver
        BY <4>2, <4>3, <4>4
      <4>6. \A y \in R \cup {x} : y.after.ver = y.before.ver + 1 /\ y.after.ver <= dProj'.ver
        BY <4>3, <4>4, <4>5
      <4>7. \A y, z \in R \cup {x} : y.after.ver = z.after.ver => y = z
        BY <4>4, <4>5
      <4>8. \A y \in R \cup {x} :
               /\ y.before = EmptyProjection \/ \E z \in R \cup {x} : z.after = y.before
               /\ y.after = dProj' \/ \E z \in R \cup {x} : z.before = y.after
        BY <4>3, <4>4
      <4> QED
        BY <4>1, <4>3, <4>6, <4>7, <4>8 DEF ReceiptChain
    <3> QED
      BY <3>2, <3>3
  <2> QED
    BY <2>1, <2>2, OnlyCommits
<1> QED
  BY <1>1, <1>2, InvariantHolds, PTL DEF Spec

(* A rollback in reality undoes one apply of its event, exactly.           *)
THEOREM RestoresHolds == Spec => []RollbackRestores
<1>1. Init => RollbackRestores
  BY DEF Init, RollbackRestores, RealReceipts
<1>2. IInv /\ RollbackRestores /\ [Next]_vars => RollbackRestores'
  <2> SUFFICES ASSUME IInv, RollbackRestores, [Next]_vars
               PROVE  RollbackRestores'
    OBVIOUS
  <2>1. CASE dRc' = dRc
    BY <2>1 DEF RollbackRestores, RealReceipts
  <2>2. ASSUME NEW s \in Slot, CommitMutation(s)
        PROVE  RollbackRestores'
    <3>1. PICK x : /\ dRc' = dRc \cup {x}
                   /\ (x.op = "rollback" /\ x.rv.mode = "reality") => Undoes(dRc, x)
      BY <2>2, CommitFacts
    <3>2. RealReceipts \subseteq RealReceipts'
      BY <3>1 DEF RealReceipts
    <3>3. ASSUME NEW z \in RealReceipts', z.op = "rollback"
          PROVE  \E y \in RealReceipts :
                    /\ y.op = "apply" /\ y.ev = z.ev /\ y.ap = z.ap
                    /\ y.after = z.before
                    /\ z.after.facts = y.before.facts
      <4>1. CASE z \in RealReceipts
        BY <3>3, <4>1 DEF RollbackRestores
      <4>2. CASE z \notin RealReceipts
        <5>1. z = x /\ x.rv.mode = "reality"
          BY <3>1, <3>3, <4>2 DEF RealReceipts
        <5> QED
          BY <3>1, <3>3, <5>1 DEF Undoes, RealReceipts
      <4> QED
        BY <4>1, <4>2
    <3> QED
      BY <3>2, <3>3 DEF RollbackRestores
  <2> QED
    BY <2>1, <2>2, OnlyCommits
<1> QED
  BY <1>1, <1>2, InvariantHolds, PTL DEF Spec

-----------------------------------------------------------------------------
(* The refinement.                                                         *)

LEMMA CommitIsAnswer ==
    ASSUME IInv, NEW s \in Slot, CommitMutation(s)
    PROVE  History!Next
<1>1. PICK x \in Receipt :
         /\ dRc' = dRc \cup {x}
         /\ ~ \E y \in dRc : y.op = x.op /\ y.ev = x.ev /\ y.key = x.key
         /\ x.rv.mode = "reality" => /\ x.before = dProj /\ dProj' = x.after
                                     /\ x.after.ver = x.before.ver + 1
         /\ x.rv.mode # "reality" => dProj' = dProj
         /\ x.op = "apply" =>
               /\ x.rv.snap = dProj /\ x.before = dProj
               /\ x.rv.mode = "reality" => x.after.facts = dProj.facts \cup {x.ev}
         /\ (x.op = "rollback" /\ x.rv.mode = "reality") => Undoes(dRc, x)
  BY CommitFacts
<1>2. x \in dRc' \ dRc /\ History!KeyIsFree(x)
  BY <1>1 DEF History!KeyIsFree
<1>3. x.op \in {"apply", "rollback"} /\ x.after \in Projection
  BY DEF Receipt
<1>4. x.after = [ver |-> x.after.ver, facts |-> x.after.facts]
  BY <1>3 DEF Projection
<1>5. x.op = "apply" => History!Apply(x)
  BY <1>1, <1>4 DEF History!Apply, History!Move
<1>6. x.op = "rollback" => History!Rollback(x)
  <2> SUFFICES ASSUME x.op = "rollback", x.rv.mode = "reality"
               PROVE  \E y \in dRc : /\ History!LeftBy(y)
                                     /\ y.ev = x.ev /\ y.ap = x.ap
                                     /\ History!Move(x, y.before.facts)
    BY <1>1 DEF History!Rollback
  <2>1. PICK y \in dRc : /\ y.rv.mode = "reality" /\ y.op = "apply"
                         /\ y.ev = x.ev /\ y.ap = x.ap
                         /\ y.after = x.before
                         /\ x.after.facts = y.before.facts
    BY <1>1 DEF Undoes
  <2> QED
    BY <1>1, <1>4, <2>1 DEF History!LeftBy, History!Move
<1> QED
  BY <1>1, <1>2, <1>3, <1>5, <1>6 DEF History!Next

(* The committed projection and receipts behave as EventHistory: a commit  *)
(* is one whole apply or rollback, everything else leaves them alone.      *)
THEOREM HistoryHolds == Spec => HistorySpec
<1>1. Init => History!Init
  BY DEF Init, History!Init
<1>2. IInv /\ [Next]_vars => [History!Next]_(History!vars)
  BY OnlyCommits, CommitIsAnswer DEF History!vars
<1> QED
  BY <1>1, <1>2, InvariantHolds, PTL DEF Spec, HistorySpec, History!Spec

=============================================================================
