------------------------------ MODULE AiReview ------------------------------
(***************************************************************************)
(* Reviews of AI suggestions and the learning outcomes that build on them  *)
(* (apps/ai-worker/src/edt_ai_worker/gateway.py, memory.py, storage.py):   *)
(* idempotency claims, immutable reviews, validated memory.  The worker    *)
(* serves each request in a thread of its own and every call of the record *)
(* store is one transaction, so a request is a sequence of store calls     *)
(* between which every other request may run.                              *)
(*                                                                         *)
(* One tenant and one actor: a claim's id contains the actor, and only the *)
(* actor who ran an agent may read or review its suggestion.               *)
(***************************************************************************)
EXTENDS Naturals, FiniteSets

CONSTANTS
    Suggestion,   \* suggestions the actor's agent runs have stored
    Key,          \* Idempotency-Key values
    Slot,         \* requests in flight
    LongRequests, \* may a claim reach its age limit while its request runs?
    MaxExpiries,  \* bound: claims that reach their age limit in a run
    MaxFaults     \* bound: failed steps and restarts in a run

ASSUME ReviewAssumption ==
    /\ LongRequests \in BOOLEAN
    /\ MaxExpiries \in Nat /\ MaxFaults \in Nat

VARIABLES
    claim,        \* the records of kind idempotency_<operation>
    review,       \* the records of kind review
    enterprise,   \* suggestions with a record of kind memory_enterprise
    learning,     \* the records of kind memory_learning
    rq,           \* [Slot -> the request it serves and the store call it is at]
    answered,     \* history: the requests answered with a success
    expiries, faults

store == <<claim, review, enterprise, learning>>
vars == <<claim, review, enterprise, learning, rq, answered, expiries, faults>>

-----------------------------------------------------------------------------
(* A request: what it asks for, of which suggestion, under which key.      *)
Review == [op: {"review"}, about: Suggestion, says: {"APPROVE", "REJECT"}]
Outcome == [op: {"outcome"}, about: Suggestion, says: {"CONFIRMED", "CORRECTED"}]
Body == Review \cup Outcome
Request == [key: Key, body: Body]

(* Operations have separate claims, of the same shape.                     *)
ClaimId == Key \X {"review", "outcome"}
IdOf(q) == <<q.key, q.body.op>>

NoClaim == [state |-> "absent"]
Claim == [state: {"in_progress", "complete"}, body: Body, old: BOOLEAN]
ClaimOf(q, state) == [state |-> state, body |-> q.body, old |-> FALSE]

(* The next store call of a request.  Between claim and complete the code  *)
(* is inside the try block whose handlers release the claim.               *)
Trying == {"decide", "reconcile", "persist", "insert", "activity"}
Phase == {"begin", "takeover", "claim", "complete", "abort"} \cup Trying
Idle == [pc |-> "idle"]

Init ==
    /\ claim = [i \in ClaimId |-> NoClaim]
    /\ review = [s \in Suggestion |-> "none"]
    /\ enterprise = {}
    /\ learning = {}
    /\ rq = [r \in Slot |-> Idle]
    /\ answered = {}
    /\ expiries = 0 /\ faults = 0

(* A request goes on to the store call pc, or ends.                        *)
Goto(r, pc) == rq' = [rq EXCEPT ![r].pc = pc]
End(r) == rq' = [rq EXCEPT ![r] = Idle]

-----------------------------------------------------------------------------
(* _begin_idempotency.                                                     *)

(* review and record_validated_outcome are called.                         *)
Call(r) ==
    /\ rq[r].pc = "idle"
    /\ \E q \in Request : rq' = [rq EXCEPT ![r] = [pc |-> "begin", q |-> q]]
    /\ UNCHANGED <<store, answered, expiries, faults>>

(* The record is read: a complete one of the same request is the answer; a *)
(* request in progress or another request under the key is refused.        *)
ReadClaim(r) ==
    LET q == rq[r].q
        c == claim[IdOf(q)]
    IN  /\ rq[r].pc = "begin"
        /\ \/ /\ c = NoClaim
              /\ Goto(r, "claim")
              /\ UNCHANGED answered
           \/ /\ c # NoClaim /\ c.body # q.body
              /\ End(r)
              /\ UNCHANGED answered
           \/ /\ c # NoClaim /\ c.body = q.body /\ c.state = "complete"
              /\ End(r)
              /\ answered' = answered \cup {q}
           \/ /\ c # NoClaim /\ c.body = q.body /\ c.state = "in_progress"
              /\ IF c.old THEN Goto(r, "takeover") ELSE End(r)
              /\ UNCHANGED answered
        /\ UNCHANGED <<store, expiries, faults>>

(* Mutant: the old claim is not deleted. *)
TakeOverKeeps(r) ==
    /\ rq[r].pc = "takeover"
    /\ Goto(r, "begin")
    /\ UNCHANGED <<store, answered, expiries, faults>>

(* The record under the id of a claim found too old is deleted, whichever  *)
(* record that is by now.                                                  *)
TakeOver(r) ==
    /\ rq[r].pc = "takeover"
    /\ claim' = [claim EXCEPT ![IdOf(rq[r].q)] = NoClaim]
    /\ Goto(r, "begin")
    /\ UNCHANGED <<review, enterprise, learning, answered, expiries, faults>>

(* put_if_absent of the claim; the loser of a race begins again.           *)
PutClaim(r) ==
    LET q == rq[r].q
        free == claim[IdOf(q)] = NoClaim
    IN  /\ rq[r].pc = "claim"
        /\ claim' = IF free
                    THEN [claim EXCEPT ![IdOf(q)] = ClaimOf(q, "in_progress")]
                    ELSE claim
        /\ Goto(r, IF free THEN "decide" ELSE "begin")
        /\ UNCHANGED <<review, enterprise, learning, answered, expiries, faults>>

-----------------------------------------------------------------------------
(* _review.  The authorization of the evidence that precedes each call     *)
(* reads only; its refusals are steps that fail.                           *)

(* Mutant: the review of an approval is stored before its memory. *)
NextOfReviewUnremembered(b) ==
    IF review[b.about] = "none" THEN "insert"
    ELSE IF review[b.about] # b.says THEN "abort"
         ELSE IF b.says = "APPROVE" THEN "reconcile" ELSE "complete"

(* What to do next, from the reviews of the suggestion.  An approval with  *)
(* no memory id is never stored, so the put that repairs one is left out.  *)
NextOfReview(b) ==
    IF review[b.about] = "none"
    THEN IF b.says = "APPROVE" THEN "persist" ELSE "insert"
    ELSE IF review[b.about] # b.says THEN "abort"
         ELSE IF b.says = "APPROVE" THEN "reconcile" ELSE "complete"

ListReviews(r) ==
    LET b == rq[r].q.body
    IN  /\ rq[r].pc = "decide" /\ b \in Review
        /\ Goto(r, NextOfReview(b))
        /\ UNCHANGED <<store, answered, expiries, faults>>

(* persist_approved_suggestion: the id of the memory comes from that of    *)
(* the review and the content from the suggestion, so that a second call   *)
(* finds the record it would have written.                                 *)
PersistApproved(r) ==
    /\ rq[r].pc \in {"persist", "reconcile"} /\ rq[r].q.body \in Review
    /\ enterprise' = enterprise \cup {rq[r].q.body.about}
    /\ Goto(r, IF rq[r].pc = "persist" THEN "insert" ELSE "complete")
    /\ UNCHANGED <<claim, review, learning, answered, expiries, faults>>

(* Mutants: the review is put whatever is there; the loser does not look. *)
InsertReviewOverwrites(r) ==
    LET b == rq[r].q.body
    IN  /\ rq[r].pc = "insert"
        /\ review' = [review EXCEPT ![b.about] = b.says]
        /\ Goto(r, "activity")
        /\ UNCHANGED <<claim, enterprise, learning, answered, expiries, faults>>

InsertReviewBlind(r) ==
    LET b == rq[r].q.body
        free == review[b.about] = "none"
    IN  /\ rq[r].pc = "insert"
        /\ review' = IF free THEN [review EXCEPT ![b.about] = b.says] ELSE review
        /\ Goto(r, "activity")
        /\ UNCHANGED <<claim, enterprise, learning, answered, expiries, faults>>

(* put_if_absent of the review; the loser of the race reads again.         *)
InsertReview(r) ==
    LET b == rq[r].q.body
        free == review[b.about] = "none"
    IN  /\ rq[r].pc = "insert"
        /\ review' = IF free THEN [review EXCEPT ![b.about] = b.says] ELSE review
        /\ Goto(r, IF free THEN "activity" ELSE "decide")
        /\ UNCHANGED <<claim, enterprise, learning, answered, expiries, faults>>

-----------------------------------------------------------------------------
(* record_validated_outcome.                                               *)

(* Mutants: any review will do; the outcome is stored as a review. *)
CheckApprovedAny(r) ==
    LET b == rq[r].q.body
    IN  /\ rq[r].pc = "decide" /\ b \in Outcome
        /\ Goto(r, IF review[b.about] # "none" THEN "persist" ELSE "abort")
        /\ UNCHANGED <<store, answered, expiries, faults>>

CheckApprovedInserts(r) ==
    LET b == rq[r].q.body
    IN  /\ rq[r].pc = "decide" /\ b \in Outcome
        /\ Goto(r, IF review[b.about] = "APPROVE" THEN "persist" ELSE "insert")
        /\ UNCHANGED <<store, answered, expiries, faults>>

(* The suggestion is read with its effective review.                       *)
CheckApproved(r) ==
    LET b == rq[r].q.body
    IN  /\ rq[r].pc = "decide" /\ b \in Outcome
        /\ Goto(r, IF review[b.about] = "APPROVE" THEN "persist" ELSE "abort")
        /\ UNCHANGED <<store, answered, expiries, faults>>

(* persist_validated: the id of the memory comes from the claim's id; the  *)
(* record found there must be the same apart from its times.               *)
PersistOutcome(r) ==
    LET q == rq[r].q
        found == {m \in learning : m.key = q.key}
    IN  /\ rq[r].pc = "persist" /\ q.body \in Outcome
        /\ learning' = IF found = {} THEN learning \cup {q} ELSE learning
        /\ Goto(r, IF found \subseteq {q} THEN "activity" ELSE "abort")
        /\ UNCHANGED <<claim, review, enterprise, answered, expiries, faults>>

-----------------------------------------------------------------------------
(* The end of both operations.                                             *)

(* The activity record is put, still inside the try block.                 *)
PutActivity(r) ==
    /\ rq[r].pc = "activity"
    /\ Goto(r, "complete")
    /\ UNCHANGED <<store, answered, expiries, faults>>

(* _complete_idempotency puts the response under the id of the claim,      *)
(* whichever record is there, and the caller gets its answer.              *)
Complete(r) ==
    LET q == rq[r].q
    IN  /\ rq[r].pc = "complete"
        /\ claim' = [claim EXCEPT ![IdOf(q)] = ClaimOf(q, "complete")]
        /\ answered' = answered \cup {q}
        /\ End(r)
        /\ UNCHANGED <<review, enterprise, learning, expiries, faults>>

(* _abort_idempotency deletes the record under the id of the claim,        *)
(* whichever record is there, and the caller gets the error.               *)
Abort(r) ==
    /\ rq[r].pc = "abort"
    /\ claim' = [claim EXCEPT ![IdOf(rq[r].q)] = NoClaim]
    /\ End(r)
    /\ UNCHANGED <<review, enterprise, learning, answered, expiries, faults>>

-----------------------------------------------------------------------------
(* What goes wrong, and time.                                              *)

(* A check refuses or the store cannot be reached.  Inside the try block   *)
(* the claim is released; elsewhere the exception ends the request, from   *)
(* the abort and the completion too.                                       *)
StepFails(r) ==
    /\ rq[r].pc # "idle" /\ faults < MaxFaults
    /\ IF rq[r].pc \in Trying THEN Goto(r, "abort") ELSE End(r)
    /\ faults' = faults + 1
    /\ UNCHANGED <<store, answered, expiries>>

(* The worker stops and starts again: its requests are gone.  A call whose *)
(* effect is stored and whose confirmation is lost is a Restart after it.  *)
Restart ==
    /\ faults < MaxFaults
    /\ rq' = [r \in Slot |-> Idle]
    /\ faults' = faults + 1
    /\ UNCHANGED <<store, answered, expiries>>

(* A claim becomes older than its limit of ten minutes or more.            *)
Working(i) == \E r \in Slot : /\ rq[r].pc \in Trying \cup {"complete", "abort"}
                              /\ IdOf(rq[r].q) = i

Expire(i) ==
    /\ claim[i] # NoClaim /\ claim[i].state = "in_progress" /\ ~claim[i].old
    /\ LongRequests \/ ~Working(i)
    /\ expiries < MaxExpiries
    /\ claim' = [claim EXCEPT ![i].old = TRUE]
    /\ expiries' = expiries + 1
    /\ UNCHANGED <<review, enterprise, learning, rq, answered, faults>>

-----------------------------------------------------------------------------
Serve(r) == \/ ReadClaim(r) \/ TakeOver(r) \/ PutClaim(r)
            \/ ListReviews(r) \/ PersistApproved(r) \/ InsertReview(r)
            \/ CheckApproved(r) \/ PersistOutcome(r)
            \/ PutActivity(r) \/ Complete(r) \/ Abort(r)

Next == \/ \E r \in Slot : Call(r) \/ Serve(r) \/ StepFails(r)
        \/ Restart
        \/ \E i \in ClaimId : Expire(i)

Spec == Init /\ [][Next]_vars

(* A thread goes on with its request.  Nobody is assumed to call, and      *)
(* faults and expiries need not happen.                                    *)
FairSpec == Spec /\ \A r \in Slot : WF_vars(Serve(r))

-----------------------------------------------------------------------------
(* Types.                                                                  *)
TypeOK ==
    /\ claim \in [ClaimId -> {NoClaim} \cup Claim]
    /\ review \in [Suggestion -> {"none", "APPROVE", "REJECT"}]
    /\ enterprise \subseteq Suggestion
    /\ learning \subseteq [key: Key, body: Outcome]
    /\ rq \in [Slot -> {Idle} \cup [pc: Phase, q: Request]]
    /\ answered \subseteq Request
    /\ expiries \in 0..MaxExpiries /\ faults \in 0..MaxFaults

(* Whatever was answered with a success is in effect: the review that was  *)
(* confirmed is the effective one, the outcome is in learning memory under *)
(* its key.  No retry, takeover or lost race confirms a decision that      *)
(* another one has displaced.                                              *)
Effective(q) ==
    IF q.body \in Review THEN review[q.body.about] = q.body.says
    ELSE q \in learning

AnswersAreEffective == \A q \in answered : Effective(q)

(* Validated memory that an approval promises exists, whatever failed      *)
(* between the two records.                                                *)
ApprovedIsRemembered ==
    \A s \in Suggestion : review[s] = "APPROVE" => s \in enterprise

(* Learning memory is only about suggestions with an effective approval,   *)
(* although the review is read long before the memory is written.          *)
LearningIsApproved ==
    \A m \in learning : review[m.body.about] = "APPROVE"

(* An effective review is immutable: no request, repair or retry changes   *)
(* or removes it.                                                          *)
ReviewsAreImmutable ==
    [][\A s \in Suggestion : review[s] # "none" => review'[s] = review[s]]_vars

(* Once no new request arrives, all requests end: beginning again after a  *)
(* lost claim or a takeover, and reviewing again after a lost race, does   *)
(* not go on for ever.  (An endless stream of requests that claim and      *)
(* release a key can keep one request waiting for it.)                     *)
RequestsEnd ==
    <>[][~\E r \in Slot : Call(r)]_vars => <>[](\A r \in Slot : rq[r] = Idle)

(* What docs/AI_ARCHITECTURE.md says of reviews: "Approval additionally    *)
(* persists validated enterprise memory; rejection does not."              *)
RejectedIsNotRemembered ==
    \A s \in Suggestion : review[s] = "REJECT" => s \notin enterprise

(* What apps/ai-worker/AI_SECURITY.md says of idempotency keys: "Reuse     *)
(* with a different body returns 409": no key has answered two requests.   *)
KeysNameOneRequest ==
    \A p, q \in answered : IdOf(p) = IdOf(q) => p = q
=============================================================================
