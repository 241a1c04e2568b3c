-------------------------- MODULE AiReview_proofs ---------------------------
(***************************************************************************)
(* Proofs of the safety properties of AiReview, for any number of          *)
(* suggestions, keys, requests, expiries and faults.                       *)
(*                                                                         *)
(* None of the properties is inductive alone: a request answers, or writes *)
(* the later of two records, from what an earlier store call returned.     *)
(* ReviewInv adds what a request knows at each store call and what a       *)
(* complete claim stands for.  That knowledge stays true because reviews   *)
(* and memory only grow (Growth).                                          *)
(***************************************************************************)
EXTENDS AiReview, TLAPS

(* What a request knows about the store at each of its calls.              *)
Knows(r) ==
    LET pc == rq[r].pc
        q == rq[r].q
        b == q.body
    IN  /\ pc \in {"activity", "complete"} => Effective(q)
        /\ pc = "insert" => /\ b \in Review
                            /\ b.says = "APPROVE" => b.about \in enterprise
        /\ pc = "reconcile" => Effective(q) /\ b.says = "APPROVE" /\ b \in Review
        /\ pc = "persist" /\ b \in Outcome => review[b.about] = "APPROVE"
        /\ pc = "persist" /\ b \in Review => b.says = "APPROVE"

RequestsKnow == \A r \in Slot : rq[r] # Idle => Knows(r)

(* A complete claim holds a request that has taken effect.                 *)
RequestOf(i) == [key |-> i[1], body |-> claim[i].body]
ClaimsAreEffective ==
    \A i \in ClaimId : claim[i] # NoClaim =>
        /\ claim[i].body.op = i[2]
        /\ claim[i].state = "complete" => Effective(RequestOf(i))

ReviewInv ==
    /\ TypeOK
    /\ AnswersAreEffective
    /\ ApprovedIsRemembered
    /\ LearningIsApproved
    /\ ClaimsAreEffective
    /\ RequestsKnow

-----------------------------------------------------------------------------
(* Every step keeps the types.  That an inserted review is one needs what  *)
(* the request knows.                                                      *)
LEMMA TypeStep == TypeOK /\ RequestsKnow /\ [Next]_vars => TypeOK'
<1> USE ReviewAssumption DEF TypeOK, Goto, End, IdOf
<1> SUFFICES ASSUME TypeOK, RequestsKnow, [Next]_vars PROVE TypeOK'
  OBVIOUS
<1>1. ASSUME NEW r \in Slot, rq[r] # Idle
      PROVE /\ rq[r] \in [pc: Phase, q: Request]
            /\ rq[r].q.body \in Body /\ rq[r].q.key \in Key
            /\ rq[r].q.body.op \in {"review", "outcome"}
            /\ rq[r].q.body.about \in Suggestion
            /\ IdOf(rq[r].q) \in ClaimId
  BY <1>1 DEF Request, Body, Review, Outcome, ClaimId
<1>2. ASSUME NEW r \in Slot, rq[r] # Idle, NEW pc \in Phase
      PROVE [rq EXCEPT ![r].pc = pc] \in [Slot -> {Idle} \cup [pc: Phase, q: Request]]
  BY <1>1, <1>2
<1>3. ASSUME NEW r \in Slot, rq[r].pc # "idle" PROVE rq[r] # Idle
  BY <1>3 DEF Idle
<1>4. ASSUME NEW r \in Slot, rq[r] # Idle, NEW state \in {"in_progress", "complete"}
      PROVE ClaimOf(rq[r].q, state) \in Claim
  BY <1>1, <1>4 DEF ClaimOf, Claim
<1>5. CASE UNCHANGED vars
  BY <1>5 DEF vars
<1>6. ASSUME NEW r \in Slot, Call(r) PROVE TypeOK'
  BY <1>6 DEF Call, store, Phase
<1>7. ASSUME NEW r \in Slot, ReadClaim(r) PROVE TypeOK'
  <2>1. rq[r] # Idle
    BY <1>3, <1>7 DEF ReadClaim
  <2>2. rq[r].q \in Request
    BY <1>1, <2>1
  <2>3. answered' \subseteq Request
    BY <1>7, <2>2 DEF ReadClaim
  <2>4. rq' \in [Slot -> {Idle} \cup [pc: Phase, q: Request]]
    BY <1>2, <1>7, <2>1 DEF ReadClaim, Phase
  <2> QED
    BY <1>7, <2>3, <2>4 DEF ReadClaim, store
<1>8. ASSUME NEW r \in Slot, TakeOver(r) \/ Abort(r) PROVE TypeOK'
  <2>1. rq[r] # Idle
    BY <1>3, <1>8 DEF TakeOver, Abort
  <2>2. rq' \in [Slot -> {Idle} \cup [pc: Phase, q: Request]]
    BY <1>2, <1>8, <2>1 DEF TakeOver, Abort, Phase
  <2> QED
    BY <1>8, <2>2 DEF TakeOver, Abort
<1>9. ASSUME NEW r \in Slot, PutClaim(r) PROVE TypeOK'
  <2>1. rq[r] # Idle
    BY <1>3, <1>9 DEF PutClaim
  <2>2. rq' \in [Slot -> {Idle} \cup [pc: Phase, q: Request]]
    BY <1>2, <1>9, <2>1 DEF PutClaim, Phase, Trying
  <2>3. claim' \in [ClaimId -> {NoClaim} \cup Claim]
    BY <1>4, <1>9, <2>1 DEF PutClaim
  <2> QED
    BY <1>9, <2>2, <2>3 DEF PutClaim
<1>10. ASSUME NEW r \in Slot, ListReviews(r) \/ CheckApproved(r) \/ PutActivity(r)
       PROVE TypeOK'
  <2>1. rq[r] # Idle
    BY <1>3, <1>10 DEF ListReviews, CheckApproved, PutActivity
  <2>2. NextOfReview(rq[r].q.body) \in Phase
    BY DEF NextOfReview, Phase, Trying
  <2>3. PICK pc \in Phase : rq' = [rq EXCEPT ![r].pc = pc]
    BY <1>10, <2>2 DEF ListReviews, CheckApproved, PutActivity, Phase, Trying
  <2> QED
    BY <1>2, <1>10, <2>1, <2>3 DEF ListReviews, CheckApproved, PutActivity, store
<1>11. ASSUME NEW r \in Slot, PersistApproved(r) PROVE TypeOK'
  <2>1. rq[r] # Idle
    BY <1>3, <1>11 DEF PersistApproved
  <2>2. rq' \in [Slot -> {Idle} \cup [pc: Phase, q: Request]]
    BY <1>2, <1>11, <2>1 DEF PersistApproved, Phase, Trying
  <2> QED
    BY <1>1, <1>11, <2>1, <2>2 DEF PersistApproved
<1>12. ASSUME NEW r \in Slot, InsertReview(r) PROVE TypeOK'
  <2>1. rq[r] # Idle
    BY <1>3, <1>12 DEF InsertReview
  <2>2. rq[r].q.body \in Review
    BY <1>12, <2>1 DEF InsertReview, RequestsKnow, Knows
  <2>3. rq' \in [Slot -> {Idle} \cup [pc: Phase, q: Request]]
    BY <1>2, <1>12, <2>1 DEF InsertReview, Phase, Trying
  <2>4. review' \in [Suggestion -> {"none", "APPROVE", "REJECT"}]
    BY <1>12, <2>2 DEF InsertReview, Review
  <2> QED
    BY <1>12, <2>3, <2>4 DEF InsertReview
<1>13. ASSUME NEW r \in Slot, PersistOutcome(r) PROVE TypeOK'
  <2>1. rq[r] # Idle
    BY <1>3, <1>13 DEF PersistOutcome
  <2>2. rq' \in [Slot -> {Idle} \cup [pc: Phase, q: Request]]
    BY <1>2, <1>13, <2>1 DEF PersistOutcome, Phase, Trying
  <2>3. rq[r].q \in [key: Key, body: Outcome]
    BY <1>1, <1>13, <2>1 DEF PersistOutcome, Request
  <2>4. learning' \subseteq [key: Key, body: Outcome]
    BY <1>13, <2>3 DEF PersistOutcome
  <2> QED
    BY <1>13, <2>2, <2>4 DEF PersistOutcome
<1>14. ASSUME NEW r \in Slot, Complete(r) PROVE TypeOK'
  <2>1. rq[r] # Idle
    BY <1>3, <1>14 DEF Complete
  <2>2. rq[r].q \in Request
    BY <1>1, <2>1
  <2>3. rq' \in [Slot -> {Idle} \cup [pc: Phase, q: Request]]
    BY <1>14 DEF Complete
  <2>4. claim' \in [ClaimId -> {NoClaim} \cup Claim]
    BY <1>4, <1>14, <2>1 DEF Complete
  <2> QED
    BY <1>14, <2>2, <2>3, <2>4 DEF Complete
<1>15. ASSUME NEW r \in Slot, StepFails(r) PROVE TypeOK'
  <2>1. rq[r] # Idle
    BY <1>3, <1>15 DEF StepFails
  <2>2. rq' \in [Slot -> {Idle} \cup [pc: Phase, q: Request]]
    BY <1>2, <1>15, <2>1 DEF StepFails, Phase
  <2> QED
    BY <1>15, <2>2 DEF StepFails, store
<1>16. CASE Restart
  BY <1>16 DEF Restart, store
<1>17. ASSUME NEW i \in ClaimId, Expire(i) PROVE TypeOK'
  <2>1. claim[i] \in Claim
    BY <1>17 DEF Expire
  <2>2. [claim[i] EXCEPT !.old = TRUE] \in Claim
    BY <2>1 DEF Claim
  <2>3. claim' \in [ClaimId -> {NoClaim} \cup Claim]
    BY <1>17, <2>2 DEF Expire
  <2> QED
    BY <1>17, <2>3 DEF Expire
<1> QED
  BY <1>5, <1>6, <1>7, <1>8, <1>9, <1>10, <1>11, <1>12, <1>13, <1>14, <1>15,
     <1>16, <1>17 DEF Next, Serve

-----------------------------------------------------------------------------
(* Reviews and memory only grow: a stored review is never changed or       *)
(* removed, no memory is lost.                                             *)
Grows ==
    /\ \A s \in Suggestion : review[s] # "none" => review'[s] = review[s]
    /\ enterprise \subseteq enterprise'
    /\ learning \subseteq learning'

LEMMA Growth == TypeOK /\ [Next]_vars => Grows
<1> SUFFICES ASSUME TypeOK, [Next]_vars PROVE Grows
  OBVIOUS
<1> USE DEF Grows
<1>1. ASSUME NEW r \in Slot, InsertReview(r) PROVE Grows
  BY <1>1 DEF InsertReview, TypeOK
<1>2. ASSUME NEW r \in Slot, PersistApproved(r) \/ PersistOutcome(r) PROVE Grows
  BY <1>2 DEF PersistApproved, PersistOutcome
<1>3. ASSUME NEW r \in Slot,
             \/ Call(r) \/ ReadClaim(r) \/ TakeOver(r) \/ PutClaim(r)
             \/ ListReviews(r) \/ CheckApproved(r) \/ PutActivity(r)
             \/ Complete(r) \/ Abort(r) \/ StepFails(r)
      PROVE Grows
  BY <1>3 DEF Call, ReadClaim, TakeOver, PutClaim, ListReviews, CheckApproved,
              PutActivity, Complete, Abort, StepFails, store
<1>4. CASE Restart \/ UNCHANGED vars \/ \E i \in ClaimId : Expire(i)
  BY <1>4 DEF Restart, Expire, store, vars
<1> QED
  BY <1>1, <1>2, <1>3, <1>4 DEF Next, Serve

(* What has taken effect stays in effect.                                  *)
LEMMA EffectLasts ==
    ASSUME Grows, NEW q \in Request, Effective(q)
    PROVE  Effective(q)'
BY DEF Grows, Effective, Request, Body, Review, Outcome

(* What a request knows stays true as long as it stays at its call.        *)
LEMMA KnowledgeLasts ==
    ASSUME TypeOK, Grows, NEW r \in Slot, rq[r] # Idle, Knows(r), rq'[r] = rq[r]
    PROVE  Knows(r)'
<1>1. rq[r].q \in Request /\ rq[r].q.body.about \in Suggestion
  BY DEF TypeOK, Request, Body, Review, Outcome
<1>2. Effective(rq[r].q) => Effective(rq[r].q)'
  BY <1>1, EffectLasts
<1> QED
  BY <1>1, <1>2 DEF Knows, Grows, Effective

-----------------------------------------------------------------------------
(* The parts of the invariant, each kept by every step.                    *)

(* A request that goes on knows what its next call relies on.              *)
LEMMA KnowStep == TypeOK /\ RequestsKnow /\ [Next]_vars => RequestsKnow'
<1> SUFFICES ASSUME TypeOK, RequestsKnow, [Next]_vars,
                    NEW r \in Slot, rq'[r] # Idle
             PROVE  Knows(r)'
  BY DEF RequestsKnow
<1>1. Grows
  BY Growth
<1>2. CASE rq'[r] = rq[r]
  BY <1>1, <1>2, KnowledgeLasts DEF RequestsKnow
<1>3. ASSUME rq[r] # Idle
      PROVE rq[r].q \in Request /\ rq[r].q.body \in Body /\ Knows(r)
  BY <1>3 DEF TypeOK, Request, RequestsKnow
<1>4. ASSUME NEW pc, rq' = [rq EXCEPT ![r].pc = pc], rq[r] # Idle
      PROVE  rq'[r].pc = pc /\ rq'[r].q = rq[r].q
  BY <1>4 DEF TypeOK
<1>5. ASSUME NEW t \in Slot, t # r, NEW x, rq' = [rq EXCEPT ![t] = x]
      PROVE  rq'[r] = rq[r]
  BY <1>5 DEF TypeOK
<1>6. ASSUME rq'[r].pc \notin {"persist", "reconcile", "insert", "activity", "complete"}
      PROVE  Knows(r)'
  BY <1>6 DEF Knows
<1>7. ASSUME NEW t \in Slot, Call(t) \/ ReadClaim(t) \/ TakeOver(t) \/ PutClaim(t)
                             \/ Abort(t) \/ StepFails(t)
      PROVE  Knows(r)'
  <2>1. CASE t # r
    BY <1>2, <1>7, <2>1
       DEF Call, ReadClaim, TakeOver, PutClaim, Abort, StepFails, Goto, End, TypeOK
  <2>2. CASE t = r
    BY <1>6, <1>7, <2>2
       DEF Call, ReadClaim, TakeOver, PutClaim, Abort, StepFails, Goto, End, TypeOK, Idle
  <2> QED
    BY <2>1, <2>2
<1>8. ASSUME NEW t \in Slot, t # r, Serve(t)
      PROVE  Knows(r)'
  BY <1>2, <1>7, <1>8
     DEF Serve, ListReviews, PersistApproved, InsertReview, CheckApproved,
         PersistOutcome, PutActivity, Complete, Goto, End, TypeOK
<1>9. ASSUME ListReviews(r) PROVE Knows(r)'
  <2>1. rq[r] # Idle
    BY <1>9 DEF ListReviews, Idle
  <2>2. rq'[r].pc = NextOfReview(rq[r].q.body) /\ rq'[r].q = rq[r].q
    BY <1>4, <1>9, <2>1 DEF ListReviews, Goto
  <2>3. UNCHANGED <<review, enterprise, learning>>
    BY <1>9 DEF ListReviews, store
  <2>4. rq[r].q.body \in Review
    BY <1>9 DEF ListReviews
  <2> QED
    BY <2>2, <2>3, <2>4 DEF Knows, NextOfReview, Effective, Review, Outcome
<1>10. ASSUME CheckApproved(r) PROVE Knows(r)'
  <2>1. rq[r] # Idle
    BY <1>10 DEF CheckApproved, Idle
  <2>2. /\ rq'[r].pc = (IF review[rq[r].q.body.about] = "APPROVE" THEN "persist" ELSE "abort")
        /\ rq'[r].q = rq[r].q
    BY <1>4, <1>10, <2>1 DEF CheckApproved, Goto
  <2>3. UNCHANGED review
    BY <1>10 DEF CheckApproved, store
  <2>4. rq[r].q.body \in Outcome
    BY <1>10 DEF CheckApproved
  <2> QED
    BY <2>2, <2>3, <2>4 DEF Knows, Review, Outcome
<1>11. ASSUME PersistApproved(r) PROVE Knows(r)'
  <2>1. rq[r] # Idle
    BY <1>11 DEF PersistApproved, Idle
  <2>2. /\ rq'[r].pc = (IF rq[r].pc = "persist" THEN "insert" ELSE "complete")
        /\ rq'[r].q = rq[r].q
    BY <1>4, <1>11, <2>1 DEF PersistApproved, Goto
  <2>3. CASE rq[r].pc = "persist"
    BY <1>11, <2>2, <2>3 DEF PersistApproved, Knows
  <2>4. CASE rq[r].pc = "reconcile"
    BY <1>3, <1>11, <2>1, <2>2, <2>4 DEF PersistApproved, Knows, Effective
  <2> QED
    BY <1>11, <2>3, <2>4 DEF PersistApproved
<1>12. ASSUME InsertReview(r) PROVE Knows(r)'
  <2>1. rq[r] # Idle
    BY <1>12 DEF InsertReview, Idle
  <2>2. /\ rq'[r].pc = (IF review[rq[r].q.body.about] = "none" THEN "activity" ELSE "decide")
        /\ rq'[r].q = rq[r].q
    BY <1>4, <1>12, <2>1 DEF InsertReview, Goto
  <2>3. rq[r].q.body \in Review /\ rq[r].q.body.about \in Suggestion
    BY <1>3, <1>12, <2>1 DEF InsertReview, Knows, Review
  <2>4. CASE review[rq[r].q.body.about] = "none"
    BY <1>12, <2>2, <2>3, <2>4 DEF InsertReview, TypeOK, Knows, Effective
  <2>5. CASE review[rq[r].q.body.about] # "none"
    BY <2>2, <2>5, <1>6
  <2> QED
    BY <2>4, <2>5
<1>13. ASSUME PersistOutcome(r) PROVE Knows(r)'
  <2>1. rq[r] # Idle
    BY <1>13 DEF PersistOutcome, Idle
  <2> DEFINE q == rq[r].q
             found == {m \in learning : m.key = q.key}
  <2>2. /\ rq'[r].pc = (IF found \subseteq {q} THEN "activity" ELSE "abort")
        /\ rq'[r].q = q
    BY <1>4, <1>13, <2>1 DEF PersistOutcome, Goto
  <2>3. found \subseteq {q} => q \in learning'
    BY <1>13 DEF PersistOutcome
  <2>4. q.body \notin Review
    BY <1>13 DEF PersistOutcome, Review, Outcome
  <2>5. CASE found \subseteq {q}
    BY <2>2, <2>3, <2>4, <2>5 DEF Knows, Effective
  <2>6. CASE ~(found \subseteq {q})
    BY <2>2, <2>6, <1>6
  <2> QED
    BY <2>5, <2>6
<1>14. ASSUME PutActivity(r) PROVE Knows(r)'
  <2>1. rq[r] # Idle
    BY <1>14 DEF PutActivity, Idle
  <2>2. rq'[r].pc = "complete" /\ rq'[r].q = rq[r].q
    BY <1>4, <1>14, <2>1 DEF PutActivity, Goto
  <2>3. Effective(rq[r].q)
    BY <1>3, <1>14, <2>1 DEF PutActivity, Knows
  <2> QED
    BY <1>14, <2>2, <2>3 DEF PutActivity, store, Knows, Effective
<1>15. ASSUME Complete(r) PROVE FALSE
  BY <1>15 DEF Complete, End, TypeOK
<1>16. CASE Restart
  BY <1>16 DEF Restart
<1>17. CASE UNCHANGED vars \/ \E i \in ClaimId : Expire(i)
  BY <1>2, <1>17 DEF vars, Expire
<1> QED
  BY <1>7, <1>8, <1>9, <1>10, <1>11, <1>12, <1>13, <1>14, <1>15, <1>16, <1>17
     DEF Next, Serve

(* Claims: only Complete makes one complete, of a request that has taken   *)
(* effect.                                                                 *)
LEMMA ClaimStep ==
    TypeOK /\ RequestsKnow /\ ClaimsAreEffective /\ [Next]_vars => ClaimsAreEffective'
<1> SUFFICES ASSUME TypeOK, RequestsKnow, ClaimsAreEffective, [Next]_vars,
                    NEW i \in ClaimId, claim'[i] # NoClaim
             PROVE  /\ claim'[i].body.op = i[2]
                    /\ claim'[i].state = "complete" => Effective(RequestOf(i))'
  BY DEF ClaimsAreEffective
<1>1. Grows
  BY Growth
<1>2. CASE /\ claim[i] # NoClaim
           /\ claim'[i].body = claim[i].body /\ claim'[i].state = claim[i].state
  <2>1. RequestOf(i) \in Request /\ RequestOf(i)' = RequestOf(i)
    BY <1>2 DEF TypeOK, RequestOf, Request, Claim, ClaimId
  <2>2. Effective(RequestOf(i)) => Effective(RequestOf(i))'
    BY <1>1, <2>1, EffectLasts
  <2> QED
    BY <1>2, <2>2 DEF ClaimsAreEffective
<1>3. CASE claim'[i] = claim[i]
  BY <1>2, <1>3
<1>4. ASSUME NEW r \in Slot, PutClaim(r) PROVE claim'[i] = claim[i] \/
                 /\ claim'[i].body.op = i[2] /\ claim'[i].state = "in_progress"
  BY <1>4 DEF PutClaim, TypeOK, ClaimOf, IdOf, ClaimId
<1>5. ASSUME NEW r \in Slot, Complete(r), claim'[i] # claim[i]
      PROVE  claim'[i].body.op = i[2] /\ Effective(RequestOf(i))'
  <2>1. PICK q \in Request : q = rq[r].q /\ rq[r] # Idle
    BY <1>5 DEF Complete, Idle, TypeOK
  <2>2. claim' = [claim EXCEPT ![IdOf(q)] = ClaimOf(q, "complete")]
    BY <1>5, <2>1 DEF Complete
  <2>3. i = IdOf(q) /\ claim'[i] = ClaimOf(q, "complete")
    BY <1>5, <2>2 DEF TypeOK
  <2>4. i[1] = q.key /\ i[2] = q.body.op /\ claim'[i].body = q.body
    BY <2>3 DEF ClaimOf, IdOf
  <2>5. RequestOf(i)' = q
    BY <2>1, <2>4 DEF RequestOf, Request
  <2>6. Effective(q)
    BY <1>5, <2>1 DEF RequestsKnow, Knows, Complete
  <2>7. Effective(q)'
    BY <1>1, <2>6, EffectLasts
  <2> QED
    BY <2>4, <2>5, <2>7 DEF Effective
<1>6. ASSUME NEW r \in Slot, TakeOver(r) \/ Abort(r) PROVE claim'[i] = claim[i]
  BY <1>6 DEF TakeOver, Abort, TypeOK
<1>7. ASSUME NEW j \in ClaimId, Expire(j)
      PROVE  /\ claim[i] # NoClaim
             /\ claim'[i].body = claim[i].body /\ claim'[i].state = claim[i].state
  <2>1. claim[j] \in Claim /\ claim' = [claim EXCEPT ![j].old = TRUE]
    BY <1>7 DEF Expire, TypeOK
  <2> QED
    BY <1>7, <2>1 DEF Expire, TypeOK, Claim
<1>8. ASSUME NEW r \in Slot,
             \/ Call(r) \/ ReadClaim(r) \/ ListReviews(r) \/ PersistApproved(r)
             \/ InsertReview(r) \/ CheckApproved(r) \/ PersistOutcome(r)
             \/ PutActivity(r) \/ StepFails(r)
      PROVE  claim'[i] = claim[i]
  BY <1>8 DEF Call, ReadClaim, ListReviews, PersistApproved, InsertReview,
              CheckApproved, PersistOutcome, PutActivity, StepFails, store
<1>9. CASE Restart \/ UNCHANGED vars
  BY <1>3, <1>9 DEF Restart, store, vars
<1> QED
  BY <1>2, <1>3, <1>4, <1>5, <1>6, <1>7, <1>8, <1>9 DEF Next, Serve

(* Answers: a success is given by a complete claim or a completion.        *)
LEMMA AnswerStep ==
    ReviewInv /\ [Next]_vars => AnswersAreEffective'
<1> SUFFICES ASSUME ReviewInv, [Next]_vars, NEW q \in answered'
             PROVE  Effective(q)'
  BY DEF AnswersAreEffective
<1> USE DEF ReviewInv
<1>1. Grows
  BY Growth
<1>2. CASE q \in answered
  BY <1>1, <1>2, EffectLasts DEF TypeOK, AnswersAreEffective
<1>3. ASSUME NEW r \in Slot, ReadClaim(r), q \notin answered PROVE Effective(q)'
  <2>1. /\ q = rq[r].q /\ rq[r] # Idle
        /\ claim[IdOf(q)] # NoClaim /\ claim[IdOf(q)].body = q.body
        /\ claim[IdOf(q)].state = "complete"
    BY <1>3 DEF ReadClaim, Idle
  <2>2. q \in Request /\ IdOf(q) \in ClaimId
    BY <2>1 DEF TypeOK, IdOf, Request, Body, Review, Outcome, ClaimId
  <2>3. RequestOf(IdOf(q)) = q
    BY <2>1, <2>2 DEF RequestOf, IdOf, Request
  <2>4. Effective(q)
    BY <2>1, <2>2, <2>3 DEF ClaimsAreEffective
  <2> QED
    BY <1>1, <2>2, <2>4, EffectLasts
<1>4. ASSUME NEW r \in Slot, Complete(r), q \notin answered PROVE Effective(q)'
  <2>1. q = rq[r].q /\ rq[r] # Idle /\ rq[r].pc = "complete"
    BY <1>4 DEF Complete, Idle
  <2>2. q \in Request /\ Effective(q)
    BY <2>1 DEF TypeOK, RequestsKnow, Knows
  <2> QED
    BY <1>1, <2>2, EffectLasts
<1>5. ASSUME NEW r \in Slot,
             \/ Call(r) \/ TakeOver(r) \/ PutClaim(r) \/ ListReviews(r)
             \/ PersistApproved(r) \/ InsertReview(r) \/ CheckApproved(r)
             \/ PersistOutcome(r) \/ PutActivity(r) \/ Abort(r) \/ StepFails(r)
      PROVE  q \in answered
  BY <1>5 DEF Call, TakeOver, PutClaim, ListReviews, PersistApproved, InsertReview,
              CheckApproved, PersistOutcome, PutActivity, Abort, StepFails
<1>6. CASE Restart \/ UNCHANGED vars \/ \E i \in ClaimId : Expire(i)
  BY <1>2, <1>6 DEF Restart, Expire, vars
<1> QED
  BY <1>2, <1>3, <1>4, <1>5, <1>6 DEF Next, Serve

(* An approval is inserted by a request that has persisted the memory.     *)
LEMMA RememberStep ==
    TypeOK /\ RequestsKnow /\ ApprovedIsRemembered /\ [Next]_vars
        => ApprovedIsRemembered'
<1> SUFFICES ASSUME TypeOK, RequestsKnow, ApprovedIsRemembered, [Next]_vars,
                    NEW s \in Suggestion, review'[s] = "APPROVE"
             PROVE  s \in enterprise'
  BY DEF ApprovedIsRemembered
<1>1. Grows
  BY Growth
<1>2. CASE review[s] = review'[s]
  BY <1>1, <1>2 DEF Grows, ApprovedIsRemembered
<1>3. ASSUME NEW r \in Slot, InsertReview(r), review[s] # review'[s]
      PROVE  s \in enterprise
  <2>1. rq[r] # Idle /\ Knows(r) /\ rq[r].pc = "insert"
    BY <1>3 DEF InsertReview, Idle, RequestsKnow
  <2>2. rq[r].q.body.about = s /\ rq[r].q.body.says = "APPROVE"
    BY <1>3 DEF InsertReview, TypeOK
  <2> QED
    BY <2>1, <2>2 DEF Knows
<1>4. ASSUME NEW r \in Slot,
             \/ Call(r) \/ ReadClaim(r) \/ TakeOver(r) \/ PutClaim(r)
             \/ ListReviews(r) \/ PersistApproved(r) \/ CheckApproved(r)
             \/ PersistOutcome(r) \/ PutActivity(r) \/ Complete(r) \/ Abort(r)
             \/ StepFails(r)
      PROVE  UNCHANGED review
  BY <1>4 DEF Call, ReadClaim, TakeOver, PutClaim, ListReviews, PersistApproved,
              CheckApproved, PersistOutcome, PutActivity, Complete, Abort, StepFails,
              store
<1>5. CASE Restart \/ UNCHANGED vars \/ \E i \in ClaimId : Expire(i)
  BY <1>2, <1>5 DEF Restart, Expire, store, vars
<1> QED
  BY <1>1, <1>2, <1>3, <1>4, <1>5 DEF Grows, Next, Serve

(* An outcome is persisted by a request that has read an approval, which   *)
(* has lasted since.                                                       *)
LEMMA LearnStep ==
    TypeOK /\ RequestsKnow /\ LearningIsApproved /\ [Next]_vars => LearningIsApproved'
<1> SUFFICES ASSUME TypeOK, RequestsKnow, LearningIsApproved, [Next]_vars,
                    NEW m \in learning'
             PROVE  review'[m.body.about] = "APPROVE"
  BY DEF LearningIsApproved
<1>1. Grows
  BY Growth
<1>2. CASE m \in learning
  BY <1>1, <1>2 DEF TypeOK, Grows, LearningIsApproved, Outcome
<1>3. ASSUME NEW r \in Slot, PersistOutcome(r), m \notin learning
      PROVE  review'[m.body.about] = "APPROVE"
  <2>1. rq[r] # Idle /\ Knows(r) /\ rq[r].pc = "persist" /\ rq[r].q.body \in Outcome
    BY <1>3 DEF PersistOutcome, Idle, RequestsKnow
  <2>2. m = rq[r].q
    BY <1>3 DEF PersistOutcome
  <2> QED
    BY <1>3, <2>1, <2>2 DEF Knows, PersistOutcome
<1>4. ASSUME NEW r \in Slot,
             \/ Call(r) \/ ReadClaim(r) \/ TakeOver(r) \/ PutClaim(r)
             \/ ListReviews(r) \/ PersistApproved(r) \/ InsertReview(r)
             \/ CheckApproved(r) \/ PutActivity(r) \/ Complete(r) \/ Abort(r)
             \/ StepFails(r)
      PROVE  m \in learning
  BY <1>4 DEF Call, ReadClaim, TakeOver, PutClaim, ListReviews, PersistApproved,
              InsertReview, CheckApproved, PutActivity, Complete, Abort, StepFails, store
<1>5. CASE Restart \/ UNCHANGED vars \/ \E i \in ClaimId : Expire(i)
  BY <1>2, <1>5 DEF Restart, Expire, store, vars
<1> QED
  BY <1>2, <1>3, <1>4, <1>5 DEF Next, Serve

-----------------------------------------------------------------------------
(* The invariant ReviewInv holds always.                                   *)
THEOREM ReviewInvariant == Spec => []ReviewInv
<1>1. Init => ReviewInv
  BY ReviewAssumption
     DEF Init, ReviewInv, TypeOK, AnswersAreEffective, ApprovedIsRemembered,
         LearningIsApproved, ClaimsAreEffective, RequestsKnow
<1>2. ReviewInv /\ [Next]_vars => ReviewInv'
  BY TypeStep, KnowStep, ClaimStep, AnswerStep, RememberStep, LearnStep DEF ReviewInv
<1> QED
  BY <1>1, <1>2, PTL DEF Spec

(* Claims, reviews, memories and requests keep their types: a memory is    *)
(* always of a suggestion or of a key that exists.                         *)
THEOREM TypeCorrect == Spec => []TypeOK
BY ReviewInvariant, PTL DEF ReviewInv

(* Whatever was answered with a success is in effect, and stays so.        *)
THEOREM AnswersCorrect == Spec => []AnswersAreEffective
BY ReviewInvariant, PTL DEF ReviewInv

(* An effective approval has its validated memory.                         *)
THEOREM RememberedCorrect == Spec => []ApprovedIsRemembered
BY ReviewInvariant, PTL DEF ReviewInv

(* Learning memory is about approved suggestions only.                     *)
THEOREM LearningCorrect == Spec => []LearningIsApproved
BY ReviewInvariant, PTL DEF ReviewInv

(* No step changes or removes an effective review.                         *)
THEOREM ImmutableCorrect == Spec => ReviewsAreImmutable
<1>1. TypeOK /\ [Next]_vars
        => [\A s \in Suggestion : review[s] # "none" => review'[s] = review[s]]_vars
  BY Growth DEF Grows
<1>2. ReviewInv => TypeOK
  BY DEF ReviewInv
<1> QED
  BY <1>1, <1>2, ReviewInvariant, PTL DEF Spec, ReviewsAreImmutable
=============================================================================
