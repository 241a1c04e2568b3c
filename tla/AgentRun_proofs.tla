-------------------------- MODULE AgentRun_proofs ---------------------------
(***************************************************************************)
(* Proofs of the safety properties of AgentRun, for any number of          *)
(* requests, documents, runs, expiries and faults.                         *)
(*                                                                         *)
(* RunInv says what a request knows at each call (Knows); it lasts because *)
(* records and what was seen only grow (RecordsLast).  ClaimInv: without   *)
(* an expiry a claim has one holder, and an answer is a complete claim;    *)
(* only few steps touch claims (Quiet).  KeptInv: one import at a time has *)
(* put its chunks before it removes others, of its own document.           *)
(***************************************************************************)
EXTENDS AgentRun, TLAPS

(* TypeOK without the history of the checks.                               *)
RecordsTyped ==
    /\ claim \in [ClaimId -> {NoClaim} \cup Claim]
    /\ index \subseteq Chunk /\ \A c, d \in index : c.id = d.id => c = d
    /\ bound \in Seq(SUBSET Chunk) /\ Len(bound) <= MaxRuns
    /\ suggestion \subseteq DOMAIN bound /\ audit \subseteq DOMAIN bound
    /\ activity \in [RunKey -> {"none", "running", "succeeded", "failed"}]
    /\ \A e \in cache : e.resp \in {"valid", "invalid"}
    /\ rq \in [Slot -> {Idle} \cup Req]
    /\ answered \subseteq [q: Request, sid: 0..MaxRuns]
    /\ expiries \in 0..MaxExpiries /\ faults \in 0..MaxFaults

(* At these calls a request has an id of its own, in the records.          *)
Numbered(r) ==
    rq[r].pc \in {"suggest", "audit", "succeed"} => rq[r].sid \in DOMAIN bound

-----------------------------------------------------------------------------
(* Records of requests, and what the actions make of them.                 *)
LEMMA ReqFields ==
    ASSUME NEW x \in Req
    PROVE  /\ x.q \in Request /\ x.pc \in Phase
           /\ x.ev \subseteq Chunk /\ x.todo \subseteq Chunk /\ x.sid \in 0..MaxRuns
           /\ IdOf(x.q) \in ClaimId
           /\ x.pc # "idle" /\ x # Idle
<1>1. x.pc \in Phase /\ x.q \in Request
  BY DEF Req
<1>2. x.pc # "idle"
  BY <1>1 DEF Phase, Trying, Replaying
<1> QED
  BY <1>1, <1>2 DEF Req, ClaimId, Idle

LEMMA ReqUpdates ==
    ASSUME NEW x \in Req, NEW pc \in Phase, NEW ev \in SUBSET Chunk, NEW todo \in SUBSET Chunk,
           NEW sid \in 0..MaxRuns, NEW resp \in {"none", "valid", "invalid"},
           NEW cached \in BOOLEAN
    PROVE  /\ [x EXCEPT !.pc = pc] \in Req
           /\ [x EXCEPT !.pc = pc, !.ev = ev, !.todo = todo, !.sid = sid, !.resp = resp,
                        !.cached = cached] \in Req
BY DEF Req

LEMMA SlotUpdates ==
    ASSUME rq \in [Slot -> {Idle} \cup Req], NEW r \in Slot, NEW x \in {Idle} \cup Req,
           rq' = [rq EXCEPT ![r] = x]
    PROVE  /\ rq' \in [Slot -> {Idle} \cup Req]
           /\ rq'[r] = x
           /\ \A s \in Slot \ {r} : rq'[s] = rq[s]
OBVIOUS

(* What is left of the slots when the request in one of them goes on.      *)
Moves(r, x) == rq' = [rq EXCEPT ![r] = x]

LEMMA ActionMoves ==
    ASSUME rq \in [Slot -> {Idle} \cup Req], NEW r \in Slot, rq[r] \in Req
    PROVE  /\ \A pc : Goto(r, pc) => Moves(r, [rq[r] EXCEPT !.pc = pc])
           /\ \A pc, todo : rq' = [rq EXCEPT ![r].pc = pc, ![r].todo = todo]
                  => Moves(r, [rq[r] EXCEPT !.pc = pc, !.todo = todo])
           /\ \A pc, todo : rq' = [rq EXCEPT ![r].todo = todo, ![r].pc = pc]
                  => Moves(r, [rq[r] EXCEPT !.pc = pc, !.todo = todo])
BY DEF Goto, Moves

-----------------------------------------------------------------------------
(* Every step keeps the types.  That a suggestion and its audit are put    *)
(* under ids that were drawn needs what the request knows.                 *)
LEMMA RecordsStep ==
    ASSUME RecordsTyped, \A r \in Slot : rq[r] # Idle => Numbered(r), Next
    PROVE  RecordsTyped'
<1>1. ASSUME NEW r \in Slot, rq[r].pc # "idle"
      PROVE /\ rq[r] \in Req /\ rq[r].q \in Request /\ rq[r].pc \in Phase
            /\ rq[r].ev \subseteq Chunk /\ rq[r].todo \subseteq Chunk
            /\ rq[r].sid \in 0..MaxRuns /\ IdOf(rq[r].q) \in ClaimId
            /\ Numbered(r)
  <2>1. rq[r] \in Req
    BY <1>1 DEF RecordsTyped, Idle
  <2> QED
    BY <2>1, ReqFields, Zenon
<1>2. ASSUME NEW r \in Slot, NEW x \in {Idle} \cup Req, Moves(r, x)
      PROVE rq' \in [Slot -> {Idle} \cup Req]
  BY <1>2, SlotUpdates DEF RecordsTyped, Moves
<1>3. ASSUME NEW r \in Slot, rq[r].pc # "idle", NEW pc \in Phase, Goto(r, pc)
      PROVE rq' \in [Slot -> {Idle} \cup Req]
  <2>1. Moves(r, [rq[r] EXCEPT !.pc = pc])
    BY <1>3, <1>1, ActionMoves DEF RecordsTyped
  <2>2. [rq[r] EXCEPT !.pc = pc] \in Req
    BY <1>1, <1>3 DEF Req
  <2> QED
    BY <1>2, <2>1, <2>2
<1>4. ASSUME NEW r \in Slot, End(r) PROVE rq' \in [Slot -> {Idle} \cup Req]
  BY <1>2, <1>4 DEF End, Moves
<1>5. ASSUME NEW q \in Request, NEW state \in {"in_progress", "complete"},
             NEW sid \in 0..MaxRuns
      PROVE ClaimOf(q, state, sid) \in Claim
  BY <1>5 DEF ClaimOf, Claim
<1>6. ASSUME NEW q \in Request PROVE Fresh(q) \in Req
  BY RunAssumption DEF Fresh, Req, Phase
<1>7. \A q \in Import : q \in Request /\ q.chunks \subseteq Chunk
  BY DEF Chunk, Request
<1>8. 0 \in 0..MaxRuns
  BY RunAssumption
<1>10. ASSUME NEW r \in Slot, Call(r) PROVE RecordsTyped'
  <2>1. PICK q \in Request : rq' = [rq EXCEPT ![r] = Fresh(q)]
    BY <1>10 DEF Call
  <2>2. rq' \in [Slot -> {Idle} \cup Req]
    BY <1>2, <1>6, <2>1 DEF Moves
  <2> QED
    BY <1>10, <2>2 DEF Call, RecordsTyped, records, Others
<1>11. ASSUME NEW r \in Slot, ReadClaim(r) PROVE RecordsTyped'
  <2> DEFINE q == rq[r].q
             c == claim[IdOf(q)]
  <2>1. rq[r].pc = "begin"
    BY <1>11 DEF ReadClaim
  <2>2. q \in Request /\ rq[r] \in Req
    BY <1>1, <2>1
  <2>3. answered' \subseteq [q: Request, sid: 0..MaxRuns]
    BY <1>8, <1>11, <2>2 DEF ReadClaim, Answer, RecordsTyped
  <2>4. CASE c # NoClaim /\ rq' = [rq EXCEPT ![r].pc = "show", ![r].sid = c.sid]
    <3>1. c \in Claim
      BY <1>1, <2>1, <2>4 DEF RecordsTyped
    <3>2. Moves(r, [rq[r] EXCEPT !.pc = "show", !.sid = c.sid])
      BY <2>4, <2>2 DEF RecordsTyped, Moves
    <3>3. [rq[r] EXCEPT !.pc = "show", !.sid = c.sid] \in Req
      BY <2>2, <3>1 DEF Req, Claim, Phase
    <3>4. rq' \in [Slot -> {Idle} \cup Req]
      BY <1>2, <3>2, <3>3
    <3> QED
      BY <1>11, <2>3, <3>4 DEF ReadClaim, RecordsTyped, records, Others
  <2>5. CASE End(r) \/ Goto(r, "claim") \/ Goto(r, "takeover")
    <3>1. rq' \in [Slot -> {Idle} \cup Req]
      BY <1>3, <1>4, <2>1, <2>5 DEF Phase
    <3> QED
      BY <1>11, <2>3, <3>1 DEF ReadClaim, RecordsTyped, records, Others
  <2> QED
    BY <1>11, <2>4, <2>5 DEF ReadClaim
<1>12. ASSUME NEW r \in Slot, TakeOver(r) \/ Abort(r) PROVE RecordsTyped'
  <2>1. rq' \in [Slot -> {Idle} \cup Req]
    BY <1>3, <1>4, <1>12 DEF TakeOver, Abort, Phase
  <2> QED
    BY <1>12, <2>1 DEF TakeOver, Abort, RecordsTyped, Others
<1>13. ASSUME NEW r \in Slot, PutClaim(r) PROVE RecordsTyped'
  <2> DEFINE q == rq[r].q
  <2>1. rq[r] \in Req /\ q \in Request
    BY <1>1, <1>13 DEF PutClaim
  <2>2. CASE claim[IdOf(q)] = NoClaim
    <3> DEFINE todo == IF q \in Import THEN q.chunks ELSE {}
    <3>1. First(q) \in Phase /\ todo \in SUBSET Chunk
      BY <1>7, <2>1 DEF First, Phase, Trying
    <3>2. rq' = [rq EXCEPT ![r].pc = First(q), ![r].todo = todo]
      BY <1>13, <2>2 DEF PutClaim
    <3> HIDE DEF todo
    <3>3. Moves(r, [rq[r] EXCEPT !.pc = First(q), !.todo = todo])
      BY <3>2, <2>1 DEF RecordsTyped, Moves
    <3>4. [rq[r] EXCEPT !.pc = First(q), !.todo = todo] \in Req
      BY <2>1, <3>1 DEF Req
    <3>5. rq' \in [Slot -> {Idle} \cup Req]
      BY <1>2, <3>3, <3>4
    <3>6. claim' \in [ClaimId -> {NoClaim} \cup Claim]
      BY <1>5, <1>8, <1>13, <2>1, <2>2 DEF PutClaim, RecordsTyped
    <3> QED
      BY <1>13, <3>5, <3>6 DEF PutClaim, RecordsTyped, Others
  <2>3. CASE claim[IdOf(q)] # NoClaim
    <3>1. rq' \in [Slot -> {Idle} \cup Req]
      BY <1>3, <1>13, <2>3 DEF PutClaim, Phase
    <3> QED
      BY <1>13, <2>3, <3>1 DEF PutClaim, RecordsTyped, Others
  <2> QED
    BY <2>2, <2>3
<1>14. ASSUME NEW r \in Slot, Complete(r) PROVE RecordsTyped'
  <2>1. rq[r].q \in Request /\ rq[r].sid \in 0..MaxRuns
    BY <1>1, <1>14 DEF Complete
  <2>2. rq' \in [Slot -> {Idle} \cup Req]
    BY <1>4, <1>14 DEF Complete
  <2>3. claim' \in [ClaimId -> {NoClaim} \cup Claim]
    BY <1>5, <1>14, <2>1 DEF Complete, RecordsTyped
  <2> QED
    BY <1>14, <2>1, <2>2, <2>3 DEF Complete, RecordsTyped, Answer, Others
<1>15. ASSUME NEW r \in Slot, Report(r) PROVE RecordsTyped'
  <2>1. rq' \in [Slot -> {Idle} \cup Req]
    BY <1>4, <1>15 DEF Report
  <2> QED
    BY <1>15, <2>1 DEF Report, RecordsTyped, Others
<1>16. ASSUME NEW r \in Slot, PutChunk(r) \/ DeleteChunk(r) PROVE RecordsTyped'
  <2>1. rq[r] \in Req /\ rq[r].todo \subseteq Chunk
    BY <1>1, <1>16 DEF PutChunk, DeleteChunk
  <2>2. PICK c \in rq[r].todo :
           /\ index' = Without({c.id}) \cup {c} \/ index' = Without({c.id})
           /\ \E pc \in {"put", "list", "delete", "remember"} :
                 rq' = [rq EXCEPT ![r].todo = @ \ {c}, ![r].pc = pc]
    BY <1>16 DEF PutChunk, DeleteChunk
  <2>3. PICK pc \in {"put", "list", "delete", "remember"} :
           rq' = [rq EXCEPT ![r].todo = @ \ {c}, ![r].pc = pc]
    BY <2>2
  <2>4. Moves(r, [rq[r] EXCEPT !.pc = pc, !.todo = rq[r].todo \ {c}])
    BY <2>1, <2>3 DEF RecordsTyped, Moves
  <2>5. [rq[r] EXCEPT !.pc = pc, !.todo = rq[r].todo \ {c}] \in Req
    BY <2>1 DEF Req, Phase, Trying
  <2>6. rq' \in [Slot -> {Idle} \cup Req]
    BY <1>2, <2>4, <2>5
  <2>7. index' \subseteq Chunk /\ \A d, e \in index' : d.id = e.id => d = e
    BY <2>1, <2>2 DEF Without, RecordsTyped
  <2> QED
    BY <1>16, <2>6, <2>7 DEF PutChunk, DeleteChunk, RecordsTyped, Others
<1>17. ASSUME NEW r \in Slot, ListSuperseded(r) \/ Search(r) PROVE RecordsTyped'
  <2>1. rq[r] \in Req
    BY <1>1, <1>17 DEF ListSuperseded, Search
  <2>2. PICK todo \in SUBSET Chunk, pc \in Phase :
           rq' = [rq EXCEPT ![r].todo = todo, ![r].pc = pc]
    <3>1. CASE ListSuperseded(r)
      <4> DEFINE todo == {c \in index : c.doc = rq[r].q.doc /\ c.id \notin Ids(rq[r].q.chunks)}
      <4>1. todo \in SUBSET Chunk
        BY DEF RecordsTyped
      <4> QED
        BY <3>1, <4>1 DEF ListSuperseded, Phase, Trying
    <3>2. CASE Search(r)
      <4>1. PICK hits \in SUBSET Visible :
               rq' = [rq EXCEPT ![r].todo = hits,
                                ![r].pc = IF hits # {} THEN "fetch"
                                          ELSE IF rq[r].ev = {} THEN "abort" ELSE "lookup"]
        BY <3>2 DEF Search
      <4>2. hits \in SUBSET Chunk
        BY DEF Visible, RecordsTyped
      <4> QED
        BY <4>1, <4>2 DEF Phase, Trying
    <3> QED
      BY <1>17, <3>1, <3>2
  <2>3. Moves(r, [rq[r] EXCEPT !.pc = pc, !.todo = todo])
    BY <2>1, <2>2 DEF RecordsTyped, Moves
  <2>4. [rq[r] EXCEPT !.pc = pc, !.todo = todo] \in Req
    BY <2>1 DEF Req
  <2>5. rq' \in [Slot -> {Idle} \cup Req]
    BY <1>2, <2>3, <2>4
  <2> QED
    BY <1>17, <2>5 DEF ListSuperseded, Search, RecordsTyped, records, Others
<1>18. ASSUME NEW r \in Slot, Announce(r) \/ Succeed(r) PROVE RecordsTyped'
  <2>1. rq' \in [Slot -> {Idle} \cup Req]
    BY <1>3, <1>18 DEF Announce, Succeed, Phase, Trying
  <2> QED
    BY <1>18, <2>1 DEF Announce, Succeed, RecordsTyped, Others
<1>19. ASSUME NEW r \in Slot, ReadEvidence(r) \/ Fetch(r) PROVE RecordsTyped'
  <2>1. rq[r] \in Req /\ rq[r].ev \subseteq Chunk
    BY <1>1, <1>19 DEF ReadEvidence, Fetch
  <2>2. \E ev, todo \in SUBSET Chunk, pc \in Phase :
           Moves(r, [rq[r] EXCEPT !.ev = ev, !.todo = todo, !.pc = pc])
    <3>1. rq[r].todo \in SUBSET Chunk /\ rq[r].ev \in SUBSET Chunk
      BY <2>1, ReqFields
    <3>2. CASE ReadEvidence(r)
      <4> DEFINE ev == {c \in Visible : c.id \in rq[r].q.wants}
      <4>1. ev \in SUBSET Chunk
        BY DEF Visible, RecordsTyped
      <4>2. CASE Goto(r, "abort")
        <5>1. Moves(r, [rq[r] EXCEPT !.ev = rq[r].ev, !.todo = rq[r].todo, !.pc = "abort"])
          BY <2>1, <4>2 DEF Goto, Moves, Req, RecordsTyped
        <5> QED
          BY <3>1, <5>1 DEF Phase
      <4>3. CASE ~Goto(r, "abort")
        <5>1. PICK pc \in {"search", "lookup"} :
                 rq' = [rq EXCEPT ![r].ev = ev, ![r].pc = pc]
          BY <3>2, <4>3 DEF ReadEvidence
        <5> HIDE DEF ev
        <5>2. Moves(r, [rq[r] EXCEPT !.ev = ev, !.todo = rq[r].todo, !.pc = pc])
          BY <2>1, <5>1 DEF Moves, Req, RecordsTyped
        <5> QED
          BY <3>1, <4>1, <5>2 DEF Phase, Trying
      <4> QED
        BY <4>2, <4>3
    <3>3. CASE Fetch(r)
      <4> DEFINE hits == {c \in Visible : c.id \in Ids(rq[r].todo)}
                 more == {c \in hits : c.id \notin Ids(rq[r].ev)}
      <4>1. rq[r].ev \cup more \in SUBSET Chunk
        BY <2>1 DEF Visible, RecordsTyped
      <4>2. \/ rq' = [rq EXCEPT ![r].ev = @ \cup more, ![r].todo = {}, ![r].pc = "lookup"]
            \/ rq' = [rq EXCEPT ![r].pc = "abort", ![r].todo = {}]
        BY <3>3 DEF Fetch
      <4> HIDE DEF more
      <4>3. \/ Moves(r, [rq[r] EXCEPT !.ev = rq[r].ev \cup more, !.todo = {}, !.pc = "lookup"])
            \/ Moves(r, [rq[r] EXCEPT !.ev = rq[r].ev, !.todo = {}, !.pc = "abort"])
        BY <2>1, <4>2 DEF Moves, Req, RecordsTyped
      <4> QED
        BY <3>1, <4>1, <4>3 DEF Phase, Trying
    <3> QED
      BY <1>19, <3>2, <3>3
  <2>3. PICK ev \in SUBSET Chunk, todo \in SUBSET Chunk, pc \in Phase :
           Moves(r, [rq[r] EXCEPT !.ev = ev, !.todo = todo, !.pc = pc])
    BY <2>2
  <2>4. [rq[r] EXCEPT !.ev = ev, !.todo = todo, !.pc = pc] \in Req
    BY <2>1 DEF Req
  <2>5. rq' \in [Slot -> {Idle} \cup Req]
    BY <1>2, <2>3, <2>4
  <2> QED
    BY <1>19, <2>5 DEF ReadEvidence, Fetch, RecordsTyped, records, Others
<1>20. ASSUME NEW r \in Slot, Lookup(r) PROVE RecordsTyped'
  <2>1. rq[r] \in Req /\ rq[r].ev \subseteq Chunk
    BY <1>1, <1>20 DEF Lookup
  <2>2. PICK ev \in (SUBSET rq[r].ev) \ {{}} :
           \/ rq' = [rq EXCEPT ![r] = [[rq[r] EXCEPT !.ev = ev] EXCEPT !.pc = "provider"]]
           \/ \E e \in cache :
                 rq' = [rq EXCEPT ![r] = [[rq[r] EXCEPT !.ev = ev] EXCEPT
                            !.pc = "recheck", !.todo = ev, !.resp = e.resp, !.cached = TRUE]]
    BY <1>20 DEF Lookup
  <2>3. ev \in SUBSET Chunk
    BY <2>1
  <2>4. [[rq[r] EXCEPT !.ev = ev] EXCEPT !.pc = "provider"] \in Req
    BY <2>1, <2>3 DEF Req, Phase, Trying
  <2>5. \A e \in cache : [[rq[r] EXCEPT !.ev = ev] EXCEPT
            !.pc = "recheck", !.todo = ev, !.resp = e.resp, !.cached = TRUE] \in Req
    BY <2>1, <2>3 DEF Req, Phase, Trying, RecordsTyped
  <2>6. rq' \in [Slot -> {Idle} \cup Req]
    BY <1>2, <2>2, <2>4, <2>5 DEF Moves
  <2> QED
    BY <1>20, <2>6 DEF Lookup, RecordsTyped, records, Others
<1>21. ASSUME NEW r \in Slot, Respond(r) PROVE RecordsTyped'
  <2>1. rq[r] \in Req
    BY <1>1, <1>21 DEF Respond
  <2>2. PICK resp \in {"valid", "invalid"} :
           rq' = [rq EXCEPT ![r].pc = "recheck", ![r].resp = resp, ![r].todo = rq[r].ev]
    BY <1>21 DEF Respond
  <2>3. Moves(r, [rq[r] EXCEPT !.pc = "recheck", !.resp = resp, !.todo = rq[r].ev])
    BY <2>1, <2>2 DEF RecordsTyped, Moves
  <2>4. [rq[r] EXCEPT !.pc = "recheck", !.resp = resp, !.todo = rq[r].ev] \in Req
    BY <2>1 DEF Req, Phase, Trying
  <2>5. rq' \in [Slot -> {Idle} \cup Req]
    BY <1>2, <2>3, <2>4
  <2> QED
    BY <1>21, <2>5 DEF Respond, RecordsTyped, records, Others
<1>22. ASSUME NEW r \in Slot, Recheck(r) PROVE RecordsTyped'
  <2>1. rq[r] \in Req
    BY <1>1, <1>22 DEF Recheck
  <2>2. CASE Goto(r, "abort") \/ End(r)
    <3>1. rq' \in [Slot -> {Idle} \cup Req]
      BY <1>3, <1>4, <1>22, <2>2 DEF Recheck, Phase
    <3> QED
      BY <1>22, <3>1 DEF Recheck, RecordsTyped, records, Others
  <2>3. CASE \E c \in rq[r].todo : \E ev \in {rq[r].ev, (rq[r].ev \ {c}) \cup StillTheSame(c)} :
                rq' = [rq EXCEPT ![r].todo = @ \ {c}, ![r].ev = ev]
    <3>0. PICK c \in rq[r].todo :
             \E ev \in {rq[r].ev, (rq[r].ev \ {c}) \cup StillTheSame(c)} :
                rq' = [rq EXCEPT ![r].todo = @ \ {c}, ![r].ev = ev]
      BY <2>3
    <3>1. PICK ev \in {rq[r].ev, (rq[r].ev \ {c}) \cup StillTheSame(c)} :
             rq' = [rq EXCEPT ![r].todo = @ \ {c}, ![r].ev = ev]
      BY <3>0
    <3>2. ev \in SUBSET Chunk
      BY <2>1 DEF StillTheSame, Visible, Req, RecordsTyped
    <3>3. Moves(r, [rq[r] EXCEPT !.todo = rq[r].todo \ {c}, !.ev = ev])
      BY <2>1, <3>1 DEF RecordsTyped, Moves
    <3>4. [rq[r] EXCEPT !.todo = rq[r].todo \ {c}, !.ev = ev] \in Req
      BY <2>1, <3>2 DEF Req
    <3>5. rq' \in [Slot -> {Idle} \cup Req]
      BY <1>2, <3>3, <3>4
    <3> QED
      BY <1>22, <3>5 DEF Recheck, RecordsTyped, records, Others
  <2>4. \/ Goto(r, "abort") \/ End(r)
        \/ \E c \in rq[r].todo : \E ev \in {rq[r].ev, (rq[r].ev \ {c}) \cup StillTheSame(c)} :
                rq' = [rq EXCEPT ![r].todo = @ \ {c}, ![r].ev = ev]
    <3>1. PICK c \in rq[r].todo :
              IF StillTheSame(c) = {}
              THEN IF rq[r].pc = "recheck" THEN Goto(r, "abort") ELSE End(r)
              ELSE rq' = [rq EXCEPT ![r].todo = @ \ {c},
                                    ![r].ev = IF rq[r].pc = "recheck"
                                              THEN (@ \ {c}) \cup StillTheSame(c) ELSE @]
      BY <1>22 DEF Recheck
    <3>2. CASE StillTheSame(c) = {}
      BY <3>1, <3>2
    <3>3. CASE StillTheSame(c) # {}
      <4> DEFINE ev == IF rq[r].pc = "recheck"
                       THEN (rq[r].ev \ {c}) \cup StillTheSame(c) ELSE rq[r].ev
      <4>1. rq' = [rq EXCEPT ![r].todo = @ \ {c}, ![r].ev = ev]
        BY <2>1, <3>1, <3>3 DEF Req, RecordsTyped
      <4>2. ev \in {rq[r].ev, (rq[r].ev \ {c}) \cup StillTheSame(c)}
        OBVIOUS
      <4> HIDE DEF ev
      <4> QED
        BY <4>1, <4>2
    <3> QED
      BY <3>2, <3>3
  <2> QED
    BY <2>2, <2>3, <2>4
<1>23. ASSUME NEW r \in Slot, Gate(r) PROVE RecordsTyped'
  <2>1. rq' \in [Slot -> {Idle} \cup Req]
    BY <1>3, <1>23 DEF Gate, Phase, Trying
  <2>2. \A e \in cache' : e.resp \in {"valid", "invalid"}
    <3> DEFINE entry == [prompt |-> PromptOf(rq[r].q, rq[r].ev), resp |-> rq[r].resp]
    <3>1. CASE Keeps(r)
      <4>1. entry.resp = "valid"
        BY <3>1 DEF Keeps
      <4>2. \A e \in cache' : e \in cache \/ e = entry
        BY <1>23, <3>1 DEF Gate
      <4> QED
        BY <4>1, <4>2 DEF RecordsTyped
    <3>2. CASE ~Keeps(r)
      BY <1>23, <3>2 DEF Gate, RecordsTyped
    <3> QED
      BY <3>1, <3>2
  <2> QED
    BY <1>23, <2>1, <2>2 DEF Gate, RecordsTyped, records, Others
<1>24. ASSUME NEW r \in Slot, Bind(r) PROVE RecordsTyped'
  <2>1. rq[r].pc # "idle"
    BY <1>24 DEF Bind
  <2>2. rq[r].q \in Request /\ rq[r].ev \in SUBSET Chunk
    BY <1>1, <2>1
  <2>3. /\ bound' \in Seq(SUBSET Chunk) /\ Len(bound') = Len(bound) + 1
        /\ DOMAIN bound \subseteq DOMAIN bound'
        /\ Len(bound') <= MaxRuns /\ Len(bound) + 1 \in 0..MaxRuns
    <3> DEFINE ev == rq[r].ev
               Bindings == SUBSET Chunk
    <3>1. bound' = Append(bound, ev) /\ Len(bound) < MaxRuns
      BY <1>24 DEF Bind
    <3>2. bound \in Seq(Bindings) /\ ev \in Bindings
      BY <2>2 DEF RecordsTyped
    <3> HIDE DEF ev, Bindings
    <3>3. bound' \in Seq(Bindings) /\ Len(bound') = Len(bound) + 1
      BY <3>1, <3>2
    <3>4. Len(bound) \in Nat /\ DOMAIN bound = 1..Len(bound)
      BY <3>2
    <3>5. DOMAIN bound' = 1..Len(bound')
      BY <3>3
    <3>6. MaxRuns \in Nat
      BY RunAssumption
    <3>7. DOMAIN bound \subseteq DOMAIN bound'
      BY <3>3, <3>4, <3>5
    <3>8. Len(bound') <= MaxRuns /\ Len(bound) + 1 \in 0..MaxRuns
      BY <3>1, <3>3, <3>4, <3>6
    <3> QED
      BY <3>3, <3>7, <3>8 DEF Bindings
  <2>4. [Fresh(rq[r].q) EXCEPT !.pc = "suggest", !.sid = Len(bound) + 1] \in Req
    <3> DEFINE fresh == Fresh(rq[r].q)
               sid == Len(bound) + 1
    <3>1. fresh \in Req /\ sid \in 0..MaxRuns /\ "suggest" \in Phase
      BY <1>6, <2>2, <2>3 DEF Phase, Trying
    <3> HIDE DEF fresh, sid
    <3>2. [fresh EXCEPT !.pc = "suggest", !.sid = sid] \in Req
      BY <3>1 DEF Req
    <3> QED
      BY <3>2 DEF fresh, sid
  <2>5. rq' \in [Slot -> {Idle} \cup Req]
    BY <1>2, <1>24, <2>4 DEF Bind, Moves
  <2> QED
    BY <1>24, <2>3, <2>5 DEF Bind, RecordsTyped, Others
<1>25. ASSUME NEW r \in Slot, Suggest(r) \/ Audit(r) PROVE RecordsTyped'
  <2>1. rq' \in [Slot -> {Idle} \cup Req]
    BY <1>3, <1>25 DEF Suggest, Audit, Phase, Trying
  <2>2. rq[r].sid \in DOMAIN bound
    BY <1>1, <1>25 DEF Suggest, Audit, Numbered
  <2> QED
    BY <1>25, <2>1, <2>2 DEF Suggest, Audit, RecordsTyped, Others
<1>26. ASSUME NEW r \in Slot, Remember(r) \/ Authorized(r) PROVE RecordsTyped'
  <2>1. rq' \in [Slot -> {Idle} \cup Req]
    BY <1>3, <1>26 DEF Remember, Authorized, Phase, Replaying
  <2> QED
    BY <1>26, <2>1 DEF Remember, Authorized, RecordsTyped, records, Others
<1>27. ASSUME NEW r \in Slot, Show(r) PROVE RecordsTyped'
  <2> DEFINE todo == bound[rq[r].sid]
  <2>1. rq[r] \in Req
    BY <1>1, <1>27 DEF Show
  <2>2. rq' = [rq EXCEPT ![r].pc = "authorize", ![r].todo = todo]
    BY <1>27 DEF Show
  <2>3. todo \in SUBSET Chunk
    BY <1>27 DEF Show, RecordsTyped
  <2> HIDE DEF todo
  <2>4. Moves(r, [rq[r] EXCEPT !.pc = "authorize", !.todo = todo])
    BY <2>1, <2>2 DEF RecordsTyped, Moves
  <2>5. [rq[r] EXCEPT !.pc = "authorize", !.todo = todo] \in Req
    BY <2>1, <2>3 DEF Req, Phase, Replaying
  <2>6. rq' \in [Slot -> {Idle} \cup Req]
    BY <1>2, <2>4, <2>5
  <2> QED
    BY <1>27, <2>6 DEF Show, RecordsTyped, records, Others
<1>28. ASSUME NEW r \in Slot, Reply(r) PROVE RecordsTyped'
  <2>1. rq[r].q \in Request /\ rq[r].sid \in 0..MaxRuns
    BY <1>1, <1>28 DEF Reply
  <2>2. rq' \in [Slot -> {Idle} \cup Req]
    BY <1>4, <1>28 DEF Reply
  <2> QED
    BY <1>28, <2>1, <2>2 DEF Reply, RecordsTyped, records, Answer, Others
<1>29. ASSUME NEW r \in Slot, StepFails(r) PROVE RecordsTyped'
  <2>1. rq' \in [Slot -> {Idle} \cup Req]
    BY <1>3, <1>4, <1>29 DEF StepFails, Phase
  <2>2. faults' \in 0..MaxFaults
    BY <1>29, RunAssumption DEF StepFails, RecordsTyped
  <2> QED
    BY <1>29, <2>1, <2>2 DEF StepFails, RecordsTyped, records
<1>30. CASE Restart
  <2>1. faults' \in 0..MaxFaults
    BY <1>30, RunAssumption DEF Restart, RecordsTyped
  <2> QED
    BY <1>30, <2>1 DEF Restart, RecordsTyped, records
<1>31. CASE Evict
  BY <1>31 DEF Evict, RecordsTyped, records, Others
<1>32. ASSUME NEW i \in ClaimId, Expire(i) PROVE RecordsTyped'
  <2>1. claim[i] \in Claim
    BY <1>32 DEF Expire, RecordsTyped
  <2>2. claim' \in [ClaimId -> {NoClaim} \cup Claim]
    <3>1. [claim[i] EXCEPT !.old = TRUE] \in Claim
      BY <2>1 DEF Claim
    <3>2. claim' = [claim EXCEPT ![i] = [claim[i] EXCEPT !.old = TRUE]]
      BY <1>32, <2>1 DEF Expire, Claim, RecordsTyped
    <3> QED
      BY <3>1, <3>2 DEF RecordsTyped
  <2>3. expiries' \in 0..MaxExpiries
    BY <1>32, RunAssumption DEF Expire, RecordsTyped
  <2> QED
    BY <1>32, <2>2, <2>3 DEF Expire, RecordsTyped
<1>33. ASSUME NEW r \in Slot, Serve(r) PROVE RecordsTyped'
  BY <1>11, <1>12, <1>13, <1>14, <1>15, <1>16, <1>17, <1>18, <1>19, <1>20, <1>21, <1>22,
     <1>23, <1>24, <1>25, <1>26, <1>27, <1>28, <1>33, Zenon DEF Serve
<1> QED
  BY <1>10, <1>29, <1>30, <1>31, <1>32, <1>33, Zenon DEF Next

LEMMA TypeStep ==
    ASSUME TypeOK, \A r \in Slot : rq[r] # Idle => Numbered(r), [Next]_vars
    PROVE  TypeOK'
<1>1. RecordsTyped /\ current \in [Slot -> SUBSET Chunk]
  BY DEF TypeOK, RecordsTyped
<1>2. CASE UNCHANGED vars
  BY <1>2 DEF vars, records, TypeOK
<1>3. CASE Next
  <2>1. RecordsTyped'
    BY <1>1, <1>3, RecordsStep
  <2>2. current' \in [Slot -> SUBSET Chunk]
    BY <1>1, <1>3, <2>1 DEF Next, Witness, RecordsTyped
  <2> QED
    BY <2>1, <2>2 DEF TypeOK, RecordsTyped
<1> QED
  BY <1>2, <1>3

LEMMA TypeInit == Init => TypeOK
BY RunAssumption DEF Init, TypeOK, NoClaim

-----------------------------------------------------------------------------
(* What a request knows at each call.  Seen: the chunk was in the index,   *)
(* citable and under this locator, since r began to check.                 *)
Seen(r, c) == \E d \in current[r] : d.id = c.id /\ d.locator = c.locator /\ d.open /\ d.safe

Recorded(sid) == sid \in suggestion \cap audit

Knows(r) ==
    LET pc == rq[r].pc
        sid == rq[r].sid
    IN  /\ pc \in {"put", "list", "delete"} => rq[r].q \in Import
        /\ pc \in {"provider", "recheck", "bind"} => rq[r].ev # {}
        /\ pc = "recheck" => \A c \in rq[r].ev \ rq[r].todo : Seen(r, c)
        /\ pc = "bind" => rq[r].resp = "valid" /\ \A c \in rq[r].ev : Seen(r, c)
        /\ pc = "suggest" => /\ sid \in DOMAIN bound /\ bound[sid] # {}
                             /\ \A c \in bound[sid] : Seen(r, c)
        /\ pc = "audit" => sid \in suggestion
        /\ pc = "succeed" => Recorded(sid)
        /\ pc \in {"remember", "complete"} /\ rq[r].q \in Run => Recorded(sid)
        /\ pc \in {"show", "authorize", "reply"} => rq[r].q \in Run /\ Recorded(sid)
        /\ pc = "authorize" => \A c \in bound[sid] \ rq[r].todo : Seen(r, c)
        /\ pc = "reply" => \A c \in bound[sid] : Seen(r, c)

RequestsKnow == \A r \in Slot : rq[r] # Idle => Knows(r)

ClaimsAreRecorded ==
    \A i \in ClaimId :
        claim[i] # NoClaim /\ claim[i].state = "complete" /\ claim[i].q \in Run
            => Recorded(claim[i].sid)

(* The inductive invariant.                                                *)
RunInv == /\ TypeOK /\ SuggestionsAreBound /\ AnsweredIsAudited /\ CacheIsValid
          /\ RequestsKnow /\ ClaimsAreRecorded

(* What was drawn for a request that is at these calls is in the records.  *)
LEMMA NumberedByKnowledge ==
    ASSUME TypeOK, NEW r \in Slot, Knows(r)
    PROVE  Numbered(r)
BY DEF TypeOK, Knows, Numbered, Recorded

(* Runs and imports are different requests.                                *)
LEMMA Apart == /\ \A q \in Request : q \in Run \/ q \in Import
               /\ \A q \in Run : q \notin Import
BY RunAssumption DEF Request

-----------------------------------------------------------------------------
(* No record that a request relies on is taken back.                       *)
Lasting ==
    /\ suggestion \subseteq suggestion' /\ audit \subseteq audit'
    /\ \A n \in DOMAIN bound : n \in DOMAIN bound' /\ bound'[n] = bound[n]

Watching ==
    \A s \in Slot :
        rq'[s].pc \in Checking
            => /\ index' \subseteq current'[s]
               /\ rq[s].pc \in Checking => current[s] \subseteq current'[s]

(* Only Bind touches the evidence records, and it only appends.            *)
LEMMA RecordsLast ==
    ASSUME TypeOK, Next
    PROVE  Lasting /\ Watching
<1>1. Watching
  BY DEF Next, Witness, Watching
<1>2. CASE \E r \in Slot : Bind(r)
  <2>1. PICK r \in Slot : Bind(r)
    BY <1>2
  <2> DEFINE ev == rq[r].ev
             Bindings == SUBSET Chunk
  <2>2. rq[r] \in Req
    BY <2>1 DEF Bind, TypeOK, Idle
  <2>3. bound' = Append(bound, ev) /\ suggestion' = suggestion /\ audit' = audit
    BY <2>1 DEF Bind
  <2>4. bound \in Seq(Bindings) /\ ev \in Bindings
    BY <2>2, ReqFields DEF TypeOK
  <2> HIDE DEF ev, Bindings
  <2>5. \A n \in DOMAIN bound : n \in DOMAIN bound' /\ bound'[n] = bound[n]
    BY <2>3, <2>4
  <2> QED
    BY <1>1, <2>3, <2>5 DEF Lasting
<1>3. CASE ~ \E r \in Slot : Bind(r)
  <2>1. bound' = bound
    <3>1. ASSUME NEW r \in Slot, Serve(r) PROVE bound' = bound
      BY <1>3, <3>1 DEF Serve, ReadClaim, TakeOver, PutClaim, Complete, Abort, Report, PutChunk,
         ListSuperseded, DeleteChunk, Announce, ReadEvidence, Search, Fetch, Lookup, Respond,
         Recheck, Gate, Suggest, Audit, Succeed, Remember, Show, Authorized, Reply, records
    <3> QED
      BY <3>1 DEF Next, Call, StepFails, Restart, Evict, Expire, records
  <2>2. suggestion \subseteq suggestion' /\ audit \subseteq audit'
    <3>1. ASSUME NEW r \in Slot, Serve(r)
          PROVE suggestion \subseteq suggestion' /\ audit \subseteq audit'
      BY <1>3, <3>1 DEF Serve, ReadClaim, TakeOver, PutClaim, Complete, Abort, Report, PutChunk,
         ListSuperseded, DeleteChunk, Announce, ReadEvidence, Search, Fetch, Lookup, Respond,
         Recheck, Gate, Suggest, Audit, Succeed, Remember, Show, Authorized, Reply, records
    <3> QED
      BY <3>1 DEF Next, Call, StepFails, Restart, Evict, Expire, records
  <2> QED
    BY <1>1, <2>1, <2>2 DEF Lasting
<1> QED
  BY <1>2, <1>3

(* A request that does not move keeps what it knows.                       *)
LEMMA KnowledgeLasts ==
    ASSUME TypeOK, Lasting, Watching, NEW s \in Slot, Knows(s), rq'[s] = rq[s]
    PROVE  Knows(s)'
<1>1. ASSUME NEW c, rq[s].pc \in Checking, Seen(s, c) PROVE Seen(s, c)'
  BY <1>1 DEF Watching, Seen
<1>2. \A sid : Recorded(sid) => Recorded(sid)'
  BY DEF Lasting, Recorded
<1>3. \A sid : Recorded(sid) => sid \in DOMAIN bound
  BY DEF TypeOK, Recorded
<1>4. {"recheck", "bind", "suggest", "authorize", "reply"} = Checking
  BY DEF Checking, Replaying
<1> QED
  BY <1>1, <1>2, <1>3, <1>4 DEF Knows, Lasting

(* The other requests do not move.                                         *)
LEMMA OneMoves ==
    ASSUME TypeOK, NEW r \in Slot, Call(r) \/ Serve(r) \/ StepFails(r)
    PROVE  \A s \in Slot \ {r} : rq'[s] = rq[s]
<1>1. rq \in [Slot -> {Idle} \cup Req]
  BY DEF TypeOK
<1>2. CASE Call(r) \/ StepFails(r)
  BY <1>1, <1>2 DEF Call, StepFails, Goto, End
<1>3. CASE ReadClaim(r) \/ TakeOver(r) \/ PutClaim(r) \/ Complete(r) \/ Abort(r) \/ Report(r)
  BY <1>1, <1>3 DEF ReadClaim, TakeOver, PutClaim, Complete, Abort, Report, Goto, End
<1>4. CASE PutChunk(r) \/ ListSuperseded(r) \/ DeleteChunk(r) \/ Announce(r) \/ ReadEvidence(r)
  BY <1>1, <1>4 DEF PutChunk, ListSuperseded, DeleteChunk, Announce, ReadEvidence, Goto, End
<1>5. CASE Search(r) \/ Fetch(r) \/ Lookup(r) \/ Respond(r) \/ Recheck(r)
  BY <1>1, <1>5 DEF Search, Fetch, Lookup, Respond, Recheck, Goto, End
<1>6. CASE Gate(r) \/ Bind(r) \/ Suggest(r) \/ Audit(r) \/ Succeed(r) \/ Remember(r)
  BY <1>1, <1>6 DEF Gate, Bind, Suggest, Audit, Succeed, Remember, Goto, End
<1>7. CASE Show(r) \/ Authorized(r) \/ Reply(r)
  BY <1>1, <1>7 DEF Show, Authorized, Reply, Goto, End
<1> QED
  BY <1>2, <1>3, <1>4, <1>5, <1>6, <1>7, Zenon DEF Serve

-----------------------------------------------------------------------------
(* The calls before which a request has nothing to know.                   *)
Blank == {"begin", "takeover", "claim", "abort", "report", "announce", "read", "search",
          "fetch", "lookup"}

LEMMA NothingToKnow ==
    ASSUME NEW r \in Slot, rq'[r].pc \in Blank
    PROVE  Knows(r)'
BY DEF Knows, Blank

(* A request that moves knows what its next call needs.                    *)
LEMMA KnowledgeStep ==
    ASSUME RunInv, Next
    PROVE  RequestsKnow'
<1>1. /\ TypeOK /\ SuggestionsAreBound /\ RequestsKnow /\ ClaimsAreRecorded
      /\ Lasting /\ Watching
      /\ rq \in [Slot -> {Idle} \cup Req]
  BY RecordsLast DEF RunInv, TypeOK
<1>2. ASSUME NEW r \in Slot, rq[r].pc # "idle"
      PROVE rq[r] \in Req /\ rq[r].q \in Request /\ IdOf(rq[r].q) \in ClaimId /\ Knows(r)
  BY <1>1, <1>2, ReqFields DEF RequestsKnow, Idle
<1>3. SUFFICES ASSUME NEW r \in Slot, Call(r) \/ Serve(r) \/ StepFails(r)
               PROVE rq'[r] = Idle \/ Knows(r)'
  <2>1. CASE \E r \in Slot : Call(r) \/ Serve(r) \/ StepFails(r)
    <3>1. PICK r \in Slot : Call(r) \/ Serve(r) \/ StepFails(r)
      BY <2>1
    <3>2. rq'[r] = Idle \/ Knows(r)'
      BY <1>3, <3>1
    <3>3. \A s \in Slot \ {r} : rq'[s] = rq[s]
      BY <1>1, <3>1, OneMoves
    <3>4. ASSUME NEW s \in Slot \ {r}, rq'[s] # Idle PROVE Knows(s)'
      BY <1>1, <3>3, <3>4, KnowledgeLasts DEF RequestsKnow
    <3> QED
      BY <3>2, <3>4 DEF RequestsKnow
  <2>2. CASE Restart
    BY <2>2 DEF Restart, RequestsKnow
  <2>3. CASE Evict \/ \E i \in ClaimId : Expire(i)
    <3>1. rq' = rq
      BY <2>3 DEF Evict, Expire
    <3> QED
      BY <1>1, <3>1, KnowledgeLasts DEF RequestsKnow
  <2> QED
    BY <2>1, <2>2, <2>3 DEF Next
<1>4. ASSUME NEW pc, rq[r].pc # "idle", Goto(r, pc)
      PROVE /\ rq'[r].pc = pc /\ rq'[r].q = rq[r].q /\ rq'[r].ev = rq[r].ev
            /\ rq'[r].todo = rq[r].todo /\ rq'[r].sid = rq[r].sid /\ rq'[r].resp = rq[r].resp
  BY <1>1, <1>2, <1>4 DEF Goto, Req
<1>5. ASSUME NEW pc \in Blank, Goto(r, pc), rq[r].pc # "idle" PROVE Knows(r)'
  BY <1>4, <1>5, NothingToKnow
<1>6. ASSUME End(r) PROVE rq'[r] = Idle
  BY <1>1, <1>6 DEF End
<1>7. \A sid : Recorded(sid) => sid \in suggestion' \cap audit' /\ sid \in DOMAIN bound
  BY <1>1 DEF Lasting, Recorded, TypeOK
<1>8. ASSUME NEW c, rq[r].pc \in Checking, rq'[r].pc \in Checking, Seen(r, c)
      PROVE Seen(r, c)'
  BY <1>1, <1>8 DEF Watching, Seen
<1>10. CASE Call(r)
  <2>1. PICK q \in Request : rq' = [rq EXCEPT ![r] = Fresh(q)]
    BY <1>10 DEF Call
  <2>2. rq'[r].pc = "begin"
    BY <1>1, <2>1 DEF Fresh
  <2> QED
    BY <2>2, NothingToKnow DEF Blank
<1>11. CASE ReadClaim(r)
  <2> DEFINE q == rq[r].q
             c == claim[IdOf(q)]
  <2>1. rq[r].pc = "begin" /\ rq[r] \in Req /\ q \in Request
    BY <1>2, <1>11 DEF ReadClaim
  <2>2. CASE End(r) \/ Goto(r, "claim") \/ Goto(r, "takeover")
    BY <1>5, <1>6, <2>1, <2>2 DEF Blank
  <2>3. CASE /\ c # NoClaim /\ c.q = q /\ c.state = "complete" /\ q \notin Import
             /\ rq' = [rq EXCEPT ![r].pc = "show", ![r].sid = c.sid]
    <3>1. rq'[r].pc = "show" /\ rq'[r].sid = c.sid /\ rq'[r].q = q
      BY <1>1, <2>1, <2>3 DEF Req
    <3>2. q \in Run /\ IdOf(q) \in ClaimId
      BY <1>2, <2>1, <2>3, Apart
    <3>3. Recorded(c.sid)
      BY <1>1, <2>3, <3>2 DEF ClaimsAreRecorded
    <3>4. c.sid \in suggestion' \cap audit'
      BY <1>1, <3>3 DEF Lasting, Recorded
    <3> QED
      BY <3>1, <3>2, <3>4 DEF Knows, Recorded
  <2> QED
    BY <1>11, <2>2, <2>3 DEF ReadClaim
<1>12. CASE TakeOver(r)
  BY <1>5, <1>12 DEF TakeOver, Blank
<1>13. CASE PutClaim(r)
  <2>1. rq[r].pc = "claim" /\ rq[r] \in Req
    BY <1>2, <1>13 DEF PutClaim
  <2>2. CASE Goto(r, "begin")
    BY <1>5, <2>1, <2>2 DEF Blank
  <2>3. CASE ~Goto(r, "begin")
    <3> DEFINE todo == IF rq[r].q \in Import THEN rq[r].q.chunks ELSE {}
    <3>1. rq' = [rq EXCEPT ![r].pc = First(rq[r].q), ![r].todo = todo]
      BY <1>13, <2>3 DEF PutClaim
    <3> HIDE DEF todo
    <3>2. rq'[r].pc = First(rq[r].q) /\ rq'[r].q = rq[r].q
      BY <1>1, <2>1, <3>1 DEF Req
    <3> QED
      BY <3>2 DEF First, Knows
  <2> QED
    BY <2>2, <2>3
<1>14. CASE Complete(r) \/ Report(r) \/ Reply(r)
  BY <1>6, <1>14 DEF Complete, Report, Reply
<1>15. CASE Abort(r)
  BY <1>5, <1>6, <1>15 DEF Abort, Blank
<1>16. CASE PutChunk(r) \/ DeleteChunk(r)
  <2>1. rq[r] \in Req /\ rq[r].q \in Import
    BY <1>2, <1>16 DEF PutChunk, DeleteChunk, Knows
  <2>2. PICK pc \in {"put", "list", "delete", "remember"} : \E c \in rq[r].todo :
           rq' = [rq EXCEPT ![r].todo = @ \ {c}, ![r].pc = pc]
    BY <1>16 DEF PutChunk, DeleteChunk
  <2>3. rq'[r].pc = pc /\ rq'[r].q = rq[r].q
    BY <1>1, <2>1, <2>2 DEF Req
  <2> QED
    BY <2>1, <2>3, Apart DEF Knows
<1>17. CASE ListSuperseded(r)
  <2>1. rq[r] \in Req /\ rq[r].q \in Import
    BY <1>2, <1>17 DEF ListSuperseded, Knows
  <2>2. PICK pc \in {"delete", "remember"} : \E todo :
           rq' = [rq EXCEPT ![r].todo = todo, ![r].pc = pc]
    BY <1>17 DEF ListSuperseded
  <2>3. rq'[r].pc = pc /\ rq'[r].q = rq[r].q
    BY <1>1, <2>1, <2>2 DEF Req
  <2> QED
    BY <2>1, <2>3, Apart DEF Knows
<1>18. CASE Announce(r)
  BY <1>5, <1>18 DEF Announce, Blank
<1>19. CASE ReadEvidence(r)
  <2>1. rq[r] \in Req
    BY <1>2, <1>19 DEF ReadEvidence
  <2>2. rq'[r].pc \in {"search", "lookup", "abort"}
    BY <1>1, <1>19, <2>1 DEF ReadEvidence, Goto, Req
  <2> QED
    BY <2>2, NothingToKnow DEF Blank
<1>20. CASE Search(r)
  <2>1. rq[r] \in Req
    BY <1>2, <1>20 DEF Search
  <2>2. rq'[r].pc \in {"fetch", "lookup", "abort"}
    BY <1>1, <1>20, <2>1 DEF Search, Req
  <2> QED
    BY <2>2, NothingToKnow DEF Blank
<1>21. CASE Fetch(r)
  <2> DEFINE hits == {c \in Visible : c.id \in Ids(rq[r].todo)}
             more == {c \in hits : c.id \notin Ids(rq[r].ev)}
  <2>1. rq[r] \in Req
    BY <1>2, <1>21 DEF Fetch
  <2>2. \/ rq' = [rq EXCEPT ![r].ev = @ \cup more, ![r].todo = {}, ![r].pc = "lookup"]
        \/ rq' = [rq EXCEPT ![r].pc = "abort", ![r].todo = {}]
    BY <1>21 DEF Fetch
  <2> HIDE DEF more
  <2>3. rq'[r].pc \in {"lookup", "abort"}
    BY <1>1, <2>1, <2>2 DEF Req
  <2> QED
    BY <2>3, NothingToKnow DEF Blank
<1>22. CASE Lookup(r)
  <2>1. rq[r] \in Req
    BY <1>2, <1>22 DEF Lookup
  <2>2. PICK ev \in (SUBSET rq[r].ev) \ {{}} :
           \/ rq' = [rq EXCEPT ![r] = [[rq[r] EXCEPT !.ev = ev] EXCEPT !.pc = "provider"]]
           \/ \E e \in cache :
                 rq' = [rq EXCEPT ![r] = [[rq[r] EXCEPT !.ev = ev] EXCEPT
                            !.pc = "recheck", !.todo = ev, !.resp = e.resp, !.cached = TRUE]]
    BY <1>22 DEF Lookup
  <2>5. ev # {}
    OBVIOUS
  <2>3. CASE rq' = [rq EXCEPT ![r] = [[rq[r] EXCEPT !.ev = ev] EXCEPT !.pc = "provider"]]
    <3>1. rq'[r].pc = "provider" /\ rq'[r].ev = ev
      BY <1>1, <2>1, <2>3 DEF Req
    <3> QED
      BY <2>5, <3>1 DEF Knows
  <2>4. CASE \E e \in cache :
                 rq' = [rq EXCEPT ![r] = [[rq[r] EXCEPT !.ev = ev] EXCEPT
                            !.pc = "recheck", !.todo = ev, !.resp = e.resp, !.cached = TRUE]]
    <3>1. rq'[r].pc = "recheck" /\ rq'[r].ev = ev /\ rq'[r].todo = ev
      BY <1>1, <2>1, <2>4 DEF Req
    <3> QED
      BY <2>5, <3>1 DEF Knows
  <2> QED
    BY <2>2, <2>3, <2>4
<1>23. CASE Respond(r)
  <2>1. rq[r] \in Req /\ rq[r].ev # {}
    BY <1>2, <1>23 DEF Respond, Knows
  <2>2. PICK resp \in {"valid", "invalid"} :
           rq' = [rq EXCEPT ![r].pc = "recheck", ![r].resp = resp, ![r].todo = rq[r].ev]
    BY <1>23 DEF Respond
  <2>3. rq'[r].pc = "recheck" /\ rq'[r].ev = rq[r].ev /\ rq'[r].todo = rq[r].ev
    BY <1>1, <2>1, <2>2 DEF Req
  <2> QED
    BY <2>1, <2>3 DEF Knows
<1>24. CASE Recheck(r)
  <2>1. rq[r] \in Req /\ Knows(r) /\ rq[r].pc \in {"recheck", "authorize"}
    BY <1>2, <1>24 DEF Recheck
  <2>2. PICK c \in rq[r].todo :
           IF StillTheSame(c) = {}
           THEN IF rq[r].pc = "recheck" THEN Goto(r, "abort") ELSE End(r)
           ELSE rq' = [rq EXCEPT ![r].todo = @ \ {c},
                                 ![r].ev = IF rq[r].pc = "recheck"
                                           THEN (@ \ {c}) \cup StillTheSame(c) ELSE @]
    BY <1>24 DEF Recheck
  <2>3. CASE StillTheSame(c) = {}
    BY <1>5, <1>6, <2>1, <2>2, <2>3 DEF Blank
  <2>4. CASE StillTheSame(c) # {}
    <3> DEFINE same == StillTheSame(c)
               ev == IF rq[r].pc = "recheck" THEN (rq[r].ev \ {c}) \cup same ELSE rq[r].ev
    <3>1. rq' = [rq EXCEPT ![r].todo = rq[r].todo \ {c}, ![r].ev = ev]
      BY <1>1, <2>1, <2>2, <2>4 DEF Req
    <3>2. same # {} /\ \A d \in same : /\ d \in index' /\ d.id = c.id /\ d.locator = c.locator
                                       /\ d.open /\ d.safe
      BY <1>24, <2>4 DEF Recheck, StillTheSame, Visible, records
    <3>3. bound' = bound
      BY <1>24 DEF Recheck, records
    <3> HIDE DEF same
    <3>4. /\ rq'[r].pc = rq[r].pc /\ rq'[r].q = rq[r].q /\ rq'[r].sid = rq[r].sid
          /\ rq'[r].todo = rq[r].todo \ {c} /\ rq'[r].ev = ev
      BY <1>1, <2>1, <3>1 DEF Req
    <3>5. rq[r].pc \in Checking /\ rq'[r].pc \in Checking
      BY <2>1, <3>4 DEF Checking, Replaying
    <3>6. \A d \in same : Seen(r, d)'
      BY <1>1, <3>2, <3>5 DEF Watching, Seen
    <3>7. Seen(r, c)'
      BY <1>1, <3>2, <3>5 DEF Watching, Seen
    <3>8. CASE rq[r].pc = "recheck"
      <4>1. ev # {} /\ rq'[r].ev # {}
        BY <3>2, <3>4, <3>8
      <4>2. \A d \in ev \ (rq[r].todo \ {c}) : Seen(r, d)'
        BY <1>8, <2>1, <3>5, <3>6, <3>7, <3>8 DEF Knows
      <4> QED
        BY <3>4, <3>8, <4>1, <4>2 DEF Knows
    <3>9. CASE rq[r].pc = "authorize"
      <4>1. \A d \in bound'[rq[r].sid] \ (rq[r].todo \ {c}) : Seen(r, d)'
        BY <1>8, <2>1, <3>3, <3>5, <3>7, <3>9 DEF Knows
      <4>2. rq[r].q \in Run /\ rq[r].sid \in suggestion' \cap audit'
        BY <1>7, <2>1, <3>9 DEF Knows
      <4> QED
        BY <3>4, <3>9, <4>1, <4>2 DEF Knows, Recorded
    <3> QED
      BY <2>1, <3>8, <3>9
  <2> QED
    BY <2>3, <2>4
<1>25. CASE Gate(r)
  <2>1. rq[r].pc = "recheck" /\ rq[r].todo = {} /\ Knows(r)
    BY <1>2, <1>25 DEF Gate
  <2>2. CASE rq[r].resp = "valid"
    <3>1. /\ rq'[r].pc = "bind" /\ rq'[r].ev = rq[r].ev /\ rq'[r].resp = "valid"
      BY <1>4, <1>25, <2>1, <2>2 DEF Gate
    <3>2. \A c \in rq[r].ev : Seen(r, c)'
      BY <1>8, <2>1, <3>1 DEF Knows, Checking
    <3> QED
      BY <2>1, <3>1, <3>2 DEF Knows
  <2>3. CASE rq[r].resp # "valid"
    BY <1>5, <1>25, <2>1, <2>3 DEF Gate, Blank
  <2> QED
    BY <2>2, <2>3
<1>26. CASE Bind(r)
  <2> DEFINE ev == rq[r].ev
             sid == Len(bound) + 1
             Bindings == SUBSET Chunk
  <2>1. rq[r] \in Req /\ Knows(r) /\ rq[r].pc = "bind" /\ rq[r].q \in Request
    BY <1>2, <1>26 DEF Bind
  <2>2. bound \in Seq(Bindings) /\ ev \in Bindings /\ bound' = Append(bound, ev)
    BY <1>1, <1>26, <2>1, ReqFields DEF Bind, TypeOK
  <2>3. ev # {} /\ \A c \in ev : Seen(r, c)
    BY <2>1 DEF Knows
  <2>4. rq' = [rq EXCEPT ![r] = [Fresh(rq[r].q) EXCEPT !.pc = "suggest", !.sid = sid]]
    BY <1>26 DEF Bind
  <2> HIDE DEF ev, Bindings, sid
  <2>5. rq'[r].pc = "suggest" /\ rq'[r].sid = sid
    BY <1>1, <2>4 DEF Fresh
  <2>6. sid \in DOMAIN bound' /\ bound'[sid] = ev
    BY <2>2 DEF sid
  <2>7. \A c \in ev : Seen(r, c)'
    BY <1>8, <2>1, <2>3, <2>5 DEF Checking
  <2> QED
    BY <2>3, <2>5, <2>6, <2>7 DEF Knows
<1>27. CASE Suggest(r)
  <2>1. rq'[r].pc = "audit" /\ rq'[r].sid = rq[r].sid /\ suggestion' = suggestion \cup {rq[r].sid}
    BY <1>4, <1>27 DEF Suggest
  <2> QED
    BY <2>1 DEF Knows
<1>28. CASE Audit(r)
  <2>1. /\ rq'[r].pc = "succeed" /\ rq'[r].sid = rq[r].sid
        /\ audit' = audit \cup {rq[r].sid} /\ suggestion' = suggestion
    BY <1>4, <1>28 DEF Audit
  <2>2. rq[r].sid \in suggestion
    BY <1>2, <1>28 DEF Audit, Knows
  <2> QED
    BY <2>1, <2>2 DEF Knows, Recorded
<1>29. CASE Succeed(r)
  <2>1. rq'[r].pc = "remember" /\ rq'[r].sid = rq[r].sid
    BY <1>4, <1>29 DEF Succeed
  <2>2. rq[r].sid \in suggestion' \cap audit'
    BY <1>2, <1>7, <1>29 DEF Succeed, Knows
  <2> QED
    BY <2>1, <2>2 DEF Knows, Recorded
<1>30. CASE Remember(r)
  <2>1. rq'[r].pc = "complete" /\ rq'[r].sid = rq[r].sid /\ rq'[r].q = rq[r].q
    BY <1>4, <1>30 DEF Remember
  <2>2. rq[r].q \in Run => rq[r].sid \in suggestion' \cap audit'
    BY <1>2, <1>7, <1>30 DEF Remember, Knows
  <2> QED
    BY <2>1, <2>2 DEF Knows, Recorded
<1>31. CASE Show(r)
  <2> DEFINE todo == bound[rq[r].sid]
  <2>1. rq[r] \in Req /\ rq[r].q \in Run /\ Recorded(rq[r].sid)
    BY <1>2, <1>31 DEF Show, Knows
  <2>2. rq' = [rq EXCEPT ![r].pc = "authorize", ![r].todo = todo]
    BY <1>31 DEF Show
  <2>3. bound' = bound
    BY <1>31 DEF Show, records
  <2> HIDE DEF todo
  <2>4. /\ rq'[r].pc = "authorize" /\ rq'[r].todo = todo
        /\ rq'[r].sid = rq[r].sid /\ rq'[r].q = rq[r].q
    BY <1>1, <2>1, <2>2 DEF Req
  <2>5. rq[r].sid \in suggestion' \cap audit'
    BY <1>7, <2>1
  <2>6. todo = bound'[rq[r].sid]
    BY <2>3 DEF todo
  <2> QED
    BY <2>1, <2>4, <2>5, <2>6 DEF Knows, Recorded
<1>32. CASE Authorized(r)
  <2>1. /\ rq'[r].pc = "reply" /\ rq'[r].sid = rq[r].sid /\ rq'[r].q = rq[r].q
        /\ rq[r].pc = "authorize" /\ rq[r].todo = {} /\ bound' = bound /\ Knows(r)
    BY <1>2, <1>4, <1>32 DEF Authorized, records
  <2>2. rq[r].q \in Run /\ rq[r].sid \in suggestion' \cap audit'
    BY <1>7, <2>1 DEF Knows
  <2>3. \A c \in bound[rq[r].sid] : Seen(r, c)'
    BY <1>8, <2>1 DEF Knows, Checking, Replaying
  <2> QED
    BY <2>1, <2>2, <2>3 DEF Knows, Recorded
<1>33. CASE StepFails(r)
  BY <1>5, <1>6, <1>33 DEF StepFails, Blank
<1> QED
  BY <1>3, <1>10, <1>11, <1>12, <1>13, <1>14, <1>15, <1>16, <1>17, <1>18, <1>19, <1>20, <1>21,
     <1>22, <1>23, <1>24, <1>25, <1>26, <1>27, <1>28, <1>29, <1>30, <1>31, <1>32, <1>33, Zenon
     DEF Serve

-----------------------------------------------------------------------------
(* The records of every step.                                              *)
LEMMA RecordedStep ==
    ASSUME RunInv, Next
    PROVE  SuggestionsAreBound' /\ AnsweredIsAudited' /\ CacheIsValid' /\ ClaimsAreRecorded'
<1>1. /\ TypeOK /\ SuggestionsAreBound /\ AnsweredIsAudited /\ CacheIsValid
      /\ RequestsKnow /\ ClaimsAreRecorded /\ Lasting
  BY RecordsLast DEF RunInv
<1>2. ASSUME NEW r \in Slot, rq[r].pc # "idle"
      PROVE rq[r].q \in Request /\ IdOf(rq[r].q) \in ClaimId /\ Knows(r)
  <2>1. rq[r] \in Req
    BY <1>1, <1>2 DEF TypeOK, Idle
  <2> QED
    BY <1>1, <2>1, ReqFields DEF RequestsKnow
<1>3. \A sid : Recorded(sid) => sid \in suggestion' \cap audit'
  BY <1>1 DEF Lasting, Recorded
<1>4. SuggestionsAreBound'
  <2>1. CASE \E r \in Slot : Suggest(r)
    <3>1. PICK r \in Slot : Suggest(r)
      BY <2>1
    <3>2. rq[r].pc = "suggest" /\ suggestion' = suggestion \cup {rq[r].sid} /\ bound' = bound
      BY <3>1 DEF Suggest
    <3>3. bound[rq[r].sid] # {}
      BY <1>2, <3>2 DEF Knows
    <3> QED
      BY <1>1, <3>2, <3>3 DEF SuggestionsAreBound
  <2>2. CASE ~ \E r \in Slot : Suggest(r)
    <3>1. ASSUME NEW r \in Slot, Serve(r) PROVE suggestion' = suggestion
      BY <2>2, <3>1 DEF Serve, ReadClaim, TakeOver, PutClaim, Complete, Abort, Report, PutChunk,
         ListSuperseded, DeleteChunk, Announce, ReadEvidence, Search, Fetch, Lookup, Respond,
         Recheck, Gate, Bind, Audit, Succeed, Remember, Show, Authorized, Reply, records
    <3>2. suggestion' = suggestion
      BY <3>1 DEF Next, Call, StepFails, Restart, Evict, Expire, records
    <3> QED
      BY <1>1, <3>2 DEF SuggestionsAreBound, Lasting, TypeOK
  <2> QED
    BY <2>1, <2>2
<1>5. CacheIsValid'
  <2>1. CASE \E r \in Slot : Gate(r)
    <3>1. PICK r \in Slot : Gate(r)
      BY <2>1
    <3> DEFINE entry == [prompt |-> PromptOf(rq[r].q, rq[r].ev), resp |-> rq[r].resp]
    <3>2. CASE Keeps(r)
      <4>1. entry.resp = "valid"
        BY <3>2 DEF Keeps
      <4>2. \A e \in cache' : e \in cache \/ e = entry
        BY <3>1, <3>2 DEF Gate
      <4> QED
        BY <1>1, <4>1, <4>2 DEF CacheIsValid
    <3>3. CASE ~Keeps(r)
      BY <1>1, <3>1, <3>3 DEF Gate, CacheIsValid
    <3> QED
      BY <3>2, <3>3
  <2>2. CASE ~ \E r \in Slot : Gate(r)
    <3>1. ASSUME NEW r \in Slot, Serve(r) PROVE cache' = cache
      BY <2>2, <3>1 DEF Serve, ReadClaim, TakeOver, PutClaim, Complete, Abort, Report, PutChunk,
         ListSuperseded, DeleteChunk, Announce, ReadEvidence, Search, Fetch, Lookup, Respond,
         Recheck, Bind, Suggest, Audit, Succeed, Remember, Show, Authorized, Reply
    <3>2. cache' \subseteq cache
      BY <3>1 DEF Next, Call, StepFails, Restart, Evict, Expire
    <3> QED
      BY <1>1, <3>2 DEF CacheIsValid
  <2> QED
    BY <2>1, <2>2
<1>6. AnsweredIsAudited'
  <2>1. \A a \in answered' : a \in answered \/ (a.q \in Run => Recorded(a.sid))
    <3>1. ASSUME NEW r \in Slot, ReadClaim(r)
          PROVE answered' = answered \/ \E q \in Import : answered' = answered \cup {[q |-> q, sid |-> 0]}
      BY <3>1 DEF ReadClaim, Answer
    <3>2. ASSUME NEW r \in Slot, Complete(r) \/ Reply(r)
          PROVE /\ answered' = answered \cup {[q |-> rq[r].q, sid |-> rq[r].sid]}
                /\ rq[r].q \in Run => Recorded(rq[r].sid)
      BY <1>2, <3>2 DEF Complete, Reply, Answer, Knows
    <3>3. ASSUME NEW r \in Slot, Serve(r), ~(ReadClaim(r) \/ Complete(r) \/ Reply(r))
          PROVE answered' = answered
      BY <3>3 DEF Serve, TakeOver, PutClaim, Abort, Report, PutChunk,
         ListSuperseded, DeleteChunk, Announce, ReadEvidence, Search, Fetch, Lookup, Respond,
         Recheck, Gate, Bind, Suggest, Audit, Succeed, Remember, Show, Authorized
    <3>4. ASSUME NEW r \in Slot, Serve(r)
          PROVE \A a \in answered' : a \in answered \/ (a.q \in Run => Recorded(a.sid))
      BY <3>1, <3>2, <3>3, <3>4, Apart
    <3>5. CASE ~ \E r \in Slot : Serve(r)
      BY <3>5 DEF Next, Call, StepFails, Restart, Evict, Expire
    <3> QED
      BY <3>4, <3>5
  <2> QED
    BY <1>1, <1>3, <2>1 DEF AnsweredIsAudited, Recorded
<1>7. ClaimsAreRecorded'
  <2>1. \A i \in ClaimId :
           claim'[i] # NoClaim /\ claim'[i].state = "complete" /\ claim'[i].q \in Run
               => Recorded(claim'[i].sid)
    <3>0. claim \in [ClaimId -> {NoClaim} \cup Claim]
      BY <1>1 DEF TypeOK
    <3>1. ASSUME NEW r \in Slot, TakeOver(r) \/ PutClaim(r) \/ Abort(r)
          PROVE \A i \in ClaimId : \/ claim'[i] = claim[i] \/ claim'[i] = NoClaim
                                   \/ claim'[i].state = "in_progress"
      BY <3>0, <3>1 DEF TakeOver, PutClaim, Abort, ClaimOf
    <3>2. ASSUME NEW r \in Slot, Complete(r)
          PROVE /\ \A i \in ClaimId : \/ claim'[i] = claim[i]
                                      \/ claim'[i] = ClaimOf(rq[r].q, "complete", rq[r].sid)
                /\ rq[r].q \in Run => Recorded(rq[r].sid)
      BY <1>2, <3>0, <3>2 DEF Complete, Knows
    <3>3. ASSUME NEW r \in Slot, Serve(r),
                 ~(TakeOver(r) \/ PutClaim(r) \/ Abort(r) \/ Complete(r))
          PROVE claim' = claim
      BY <3>3 DEF Serve, ReadClaim, Report, PutChunk, ListSuperseded, DeleteChunk, Announce,
         ReadEvidence, Search, Fetch, Lookup, Respond, Recheck, Gate, Bind, Suggest, Audit,
         Succeed, Remember, Show, Authorized, Reply, records
    <3>4. ASSUME NEW i \in ClaimId, Expire(i)
          PROVE \A j \in ClaimId : claim'[j] = claim[j] \/ claim'[j].state = "in_progress"
      <4>1. claim[i] \in Claim /\ claim[i].state = "in_progress"
        BY <3>0, <3>4 DEF Expire
      <4>2. claim'[i].state = "in_progress"
        BY <3>0, <3>4, <4>1 DEF Expire, Claim
      <4>3. \A j \in ClaimId \ {i} : claim'[j] = claim[j]
        BY <3>0, <3>4 DEF Expire
      <4> QED
        BY <4>2, <4>3
    <3>5. CASE \E r \in Slot : Serve(r)
      <4>1. PICK r \in Slot : Serve(r)
        BY <3>5
      <4>2. CASE TakeOver(r) \/ PutClaim(r) \/ Abort(r)
        BY <1>1, <3>1, <4>2 DEF ClaimsAreRecorded
      <4>3. CASE Complete(r)
        <5> DEFINE new == ClaimOf(rq[r].q, "complete", rq[r].sid)
        <5>1. new.q = rq[r].q /\ new.sid = rq[r].sid
          BY DEF ClaimOf
        <5>2. new.q \in Run => Recorded(new.sid)
          BY <3>2, <4>3, <5>1
        <5>3. \A i \in ClaimId : claim'[i] = claim[i] \/ claim'[i] = new
          BY <3>2, <4>3
        <5> HIDE DEF new
        <5> QED
          BY <1>1, <5>2, <5>3 DEF ClaimsAreRecorded
      <4>4. CASE ~(TakeOver(r) \/ PutClaim(r) \/ Abort(r) \/ Complete(r))
        BY <1>1, <3>3, <4>1, <4>4 DEF ClaimsAreRecorded
      <4> QED
        BY <4>2, <4>3, <4>4
    <3>6. CASE \E i \in ClaimId : Expire(i)
      BY <1>1, <3>4, <3>6 DEF ClaimsAreRecorded
    <3>7. CASE ~((\E r \in Slot : Serve(r)) \/ (\E i \in ClaimId : Expire(i)))
      <4>1. claim' = claim
        BY <3>7 DEF Next, Call, StepFails, Restart, Evict, records
      <4> QED
        BY <1>1, <4>1 DEF ClaimsAreRecorded
    <3> QED
      BY <3>5, <3>6, <3>7
  <2> QED
    BY <1>3, <2>1 DEF ClaimsAreRecorded, Recorded
<1> QED
  BY <1>4, <1>5, <1>6, <1>7

(* The invariant holds at first and is kept.                               *)
LEMMA RunInvInit == Init => RunInv
<1> SUFFICES ASSUME Init PROVE RunInv
  OBVIOUS
<1>1. TypeOK
  BY TypeInit
<1> QED
  BY <1>1 DEF Init, RunInv, SuggestionsAreBound, AnsweredIsAudited, CacheIsValid, RequestsKnow,
     ClaimsAreRecorded

LEMMA RunInvNext == RunInv /\ [Next]_vars => RunInv'
<1> SUFFICES ASSUME RunInv, [Next]_vars PROVE RunInv'
  OBVIOUS
<1>1. TypeOK'
  BY TypeStep, NumberedByKnowledge DEF RunInv, RequestsKnow
<1>2. CASE Next
  BY <1>1, <1>2, KnowledgeStep, RecordedStep DEF RunInv
<1>3. CASE UNCHANGED vars
  <2>1. RequestsKnow'
    BY <1>3 DEF RunInv, RequestsKnow, Knows, Seen, Recorded, vars, records
  <2>2. SuggestionsAreBound' /\ AnsweredIsAudited' /\ CacheIsValid' /\ ClaimsAreRecorded'
    BY <1>3 DEF RunInv, SuggestionsAreBound, AnsweredIsAudited, CacheIsValid, ClaimsAreRecorded,
       Recorded, vars, records
  <2> QED
    BY <1>1, <2>1, <2>2 DEF RunInv
<1> QED
  BY <1>2, <1>3

LEMMA RunInvHolds == Spec => []RunInv
BY RunInvInit, RunInvNext, PTL DEF Spec

(* A request that is about to store or to show a suggestion knows that the *)
(* suggestion cites what is there.                                         *)
LEMMA RunInvCites == RunInv => CitesCurrent
<1> SUFFICES ASSUME RunInv, NEW r \in Slot, rq[r].pc \in {"suggest", "reply"}
             PROVE  bound[rq[r].sid] # {} /\ \A c \in bound[rq[r].sid] : Seen(r, c)
  BY DEF CitesCurrent, Seen
<1>1. Knows(r) /\ SuggestionsAreBound
  BY DEF RunInv, RequestsKnow, Idle
<1>2. CASE rq[r].pc = "suggest"
  BY <1>1, <1>2 DEF Knows
<1>3. CASE rq[r].pc = "reply"
  BY <1>1, <1>3 DEF Knows, Recorded, SuggestionsAreBound
<1> QED
  BY <1>2, <1>3

-----------------------------------------------------------------------------
(* The records, the claims and the requests keep their types: an index     *)
(* never holds two chunks of one id, and an audit or a suggestion never    *)
(* names an id without an evidence record (gateway.py, rag.py).            *)
THEOREM TypeCorrect == Spec => []TypeOK
<1>1. RunInv => TypeOK
  BY DEF RunInv
<1> QED
  BY <1>1, RunInvHolds, PTL

(* What a stored or shown suggestion cites was there, and open to the      *)
(* actor, since the provider answered or the replay began, whatever the    *)
(* imports replaced meanwhile (_reauthorize_chunks).                       *)
THEOREM CitesHolds == Spec => []CitesCurrent
BY RunInvCites, RunInvHolds, PTL

(* No stored suggestion is without evidence, whichever call fails or at    *)
(* which call the worker stops (_run_agent).                               *)
THEOREM BoundHolds == Spec => []SuggestionsAreBound
<1>1. RunInv => SuggestionsAreBound
  BY DEF RunInv
<1> QED
  BY <1>1, RunInvHolds, PTL

(* No run, and no replay of one, is answered before its suggestion and its *)
(* audit are on record (run_agent, _complete_idempotency).                 *)
THEOREM AuditedHolds == Spec => []AnsweredIsAudited
<1>1. RunInv => AnsweredIsAudited
  BY DEF RunInv
<1> QED
  BY <1>1, RunInvHolds, PTL

(* The cache never answers with what did not pass the gates (_run_agent).  *)
THEOREM CacheHolds == Spec => []CacheIsValid
<1>1. RunInv => CacheIsValid
  BY DEF RunInv
<1> QED
  BY <1>1, RunInvHolds, PTL

-----------------------------------------------------------------------------
(* Calls by what they have to do with claims and with the index.           *)
RunCalls == {"announce", "read", "search", "fetch", "lookup", "provider", "recheck", "bind",
             "suggest", "audit", "succeed"}
ImportCalls == {"put", "list", "delete", "remember", "complete"}
Showing == {"show"} \cup Replaying
Holding == Trying \cup {"complete", "abort"}

(* The request in r does not touch claims and answers, and gets no claim.  *)
Quiet(r) ==
    /\ claim' = claim /\ answered' = answered
    /\ \/ rq'[r] = Idle
       \/ /\ rq'[r].q = rq[r].q /\ rq'[r].pc # "takeover"
          /\ rq'[r].pc \in Holding => rq[r].pc \in Holding
          /\ rq'[r].pc \in RunCalls => rq[r].pc \in RunCalls
          /\ rq'[r].pc \in Showing => rq[r].pc \in Showing
          /\ rq'[r].sid = rq[r].sid \/ (rq[r].pc \in RunCalls /\ rq'[r].pc \notin Showing)

(* It does not touch the index, nor does it import.                        *)
Aside(r) == index' = index /\ rq'[r].pc \notin ImportCalls

LEMMA QuietImports ==
    ASSUME TypeOK, NEW r \in Slot, PutChunk(r) \/ ListSuperseded(r) \/ DeleteChunk(r)
    PROVE  Quiet(r)
<1>1. rq \in [Slot -> {Idle} \cup Req] /\ rq[r] \in Req /\ claim' = claim /\ answered' = answered
  BY DEF TypeOK, Idle, PutChunk, ListSuperseded, DeleteChunk, records
<1>2. CASE PutChunk(r) \/ DeleteChunk(r)
  <2>1. PICK c \in rq[r].todo : \E pc \in {"put", "list", "delete", "remember"} :
               rq' = [rq EXCEPT ![r].todo = @ \ {c}, ![r].pc = pc]
    BY <1>2 DEF PutChunk, DeleteChunk
  <2>2. /\ rq'[r].q = rq[r].q /\ rq'[r].sid = rq[r].sid
        /\ rq'[r].pc \in {"put", "list", "delete", "remember"}
    BY <1>1, <2>1 DEF Req
  <2> QED
    BY <1>1, <1>2, <2>2 DEF PutChunk, DeleteChunk, Quiet, Holding, Trying, RunCalls, Showing,
       Replaying
<1>3. CASE ListSuperseded(r)
  <2> DEFINE todo == {c \in index : c.doc = rq[r].q.doc /\ c.id \notin Ids(rq[r].q.chunks)}
  <2>1. \E pc \in {"delete", "remember"} : rq' = [rq EXCEPT ![r].todo = todo, ![r].pc = pc]
    BY <1>3 DEF ListSuperseded
  <2> HIDE DEF todo
  <2>2. /\ rq'[r].q = rq[r].q /\ rq'[r].sid = rq[r].sid
        /\ rq'[r].pc \in {"delete", "remember"}
    BY <1>1, <2>1 DEF Req
  <2> QED
    BY <1>1, <1>3, <2>2 DEF ListSuperseded, Quiet, Holding, Trying, RunCalls, Showing, Replaying
<1> QED
  BY <1>2, <1>3

LEMMA QuietCalls ==
    ASSUME TypeOK, NEW r \in Slot,
           \/ Announce(r) \/ Gate(r) \/ Suggest(r) \/ Audit(r) \/ Succeed(r) \/ Remember(r)
           \/ Authorized(r) \/ Report(r) \/ StepFails(r)
    PROVE  Quiet(r) /\ (Aside(r) \/ Succeed(r) \/ Remember(r))
<1>1. /\ rq \in [Slot -> {Idle} \cup Req] /\ rq[r] \in Req
      /\ claim' = claim /\ answered' = answered /\ index' = index
  BY DEF TypeOK, Idle, Announce, Gate, Suggest, Audit, Succeed, Remember, Authorized, Report,
     StepFails, records
<1>2. ASSUME NEW pc, Goto(r, pc)
      PROVE rq'[r].pc = pc /\ rq'[r].q = rq[r].q /\ rq'[r].sid = rq[r].sid
  BY <1>1, <1>2 DEF Goto, Req
<1>3. CASE Announce(r) \/ Gate(r) \/ Suggest(r) \/ Audit(r) \/ Succeed(r)
  <2>1. /\ rq[r].pc \in RunCalls /\ rq[r].pc \in Holding
        /\ \E pc \in RunCalls \cup {"abort", "remember"} :
              Goto(r, pc) /\ (pc # "remember" \/ Succeed(r))
    BY <1>3 DEF Announce, Gate, Suggest, Audit, Succeed, RunCalls, Holding, Trying
  <2> QED
    BY <1>1, <1>2, <2>1 DEF Quiet, Aside, Holding, Trying, RunCalls, Showing, Replaying, ImportCalls
<1>4. CASE Remember(r)
  BY <1>1, <1>2, <1>4 DEF Remember, Quiet, Holding, Trying, RunCalls, Showing, Replaying
<1>5. CASE Authorized(r)
  <2>1. /\ rq[r].pc = "authorize" /\ rq'[r].pc = "reply"
        /\ rq'[r].q = rq[r].q /\ rq'[r].sid = rq[r].sid
    BY <1>2, <1>5 DEF Authorized
  <2> QED
    BY <1>1, <2>1 DEF Quiet, Aside, Holding, Trying, RunCalls, Showing, Replaying, ImportCalls
<1>6. CASE Report(r) \/ (StepFails(r) /\ rq[r].pc \notin Trying)
  <2>1. rq'[r] = Idle
    BY <1>1, <1>6 DEF Report, StepFails, End
  <2> QED
    BY <1>1, <2>1 DEF Quiet, Aside, Idle, ImportCalls
<1>7. CASE StepFails(r) /\ rq[r].pc \in Trying
  <2>1. rq'[r].pc = "abort" /\ rq'[r].q = rq[r].q /\ rq'[r].sid = rq[r].sid
    BY <1>2, <1>7 DEF StepFails
  <2> QED
    BY <1>1, <1>7, <2>1 DEF Quiet, Aside, Holding, Trying, RunCalls, Showing, Replaying, ImportCalls
<1> QED
  BY <1>3, <1>4, <1>5, <1>6, <1>7

LEMMA QuietReads ==
    ASSUME TypeOK, NEW r \in Slot,
           \/ ReadEvidence(r) \/ Search(r) \/ Fetch(r) \/ Lookup(r) \/ Respond(r) \/ Recheck(r)
           \/ Bind(r) \/ Show(r)
    PROVE  Quiet(r) /\ Aside(r)
<1>1. /\ rq \in [Slot -> {Idle} \cup Req] /\ rq[r] \in Req
      /\ claim' = claim /\ answered' = answered /\ index' = index
  <2>1. rq \in [Slot -> {Idle} \cup Req] /\ rq[r].pc # "idle"
    BY DEF TypeOK, ReadEvidence, Search, Fetch, Lookup, Respond, Recheck, Bind, Show
  <2>2. claim' = claim /\ answered' = answered /\ index' = index
    BY DEF ReadEvidence, Search, Fetch, Lookup, Respond, Recheck, Bind, Show, records
  <2> QED
    BY <2>1, <2>2 DEF Idle
<1>2. SUFFICES
        \/ rq'[r] = Idle
        \/ /\ rq'[r].q = rq[r].q
           /\ \/ /\ rq[r].pc \in RunCalls /\ rq'[r].pc \in RunCalls \cup {"abort"}
              \/ /\ rq[r].pc \in Showing /\ rq'[r].pc \in Replaying /\ rq'[r].sid = rq[r].sid
  <2>1. RunCalls \subseteq Holding
    BY DEF RunCalls, Holding, Trying
  <2>2. CASE rq'[r] = Idle
    BY <1>1, <2>2 DEF Quiet, Aside, Idle, ImportCalls
  <2>3. CASE /\ rq'[r].q = rq[r].q
             /\ rq[r].pc \in RunCalls /\ rq'[r].pc \in RunCalls \cup {"abort"}
    BY <1>1, <2>1, <2>3 DEF Quiet, Aside, RunCalls, Showing, Replaying, ImportCalls
  <2>4. CASE /\ rq'[r].q = rq[r].q /\ rq'[r].sid = rq[r].sid
             /\ rq[r].pc \in Showing /\ rq'[r].pc \in Replaying
    BY <1>1, <2>4 DEF Quiet, Aside, Holding, Trying, RunCalls, Showing, Replaying, ImportCalls
  <2> QED
    BY <1>2, <2>2, <2>3, <2>4
<1>3. CASE ReadEvidence(r)
  <2> DEFINE ev == {c \in Visible : c.id \in rq[r].q.wants}
  <2>1. \/ Goto(r, "abort")
        \/ \E pc \in {"search", "lookup"} : rq' = [rq EXCEPT ![r].ev = ev, ![r].pc = pc]
    BY <1>3 DEF ReadEvidence
  <2> HIDE DEF ev
  <2>2. rq'[r].q = rq[r].q /\ rq'[r].pc \in {"search", "lookup", "abort"}
    BY <1>1, <2>1 DEF Goto, Req
  <2> QED
    BY <1>3, <2>2 DEF ReadEvidence, RunCalls
<1>4. CASE Search(r)
  <2>0. PICK hits \in SUBSET Visible : \E pc \in {"fetch", "lookup", "abort"} :
           rq' = [rq EXCEPT ![r].todo = hits, ![r].pc = pc]
    BY <1>4 DEF Search
  <2>1. rq'[r].q = rq[r].q /\ rq'[r].pc \in {"fetch", "lookup", "abort"}
    BY <1>1, <2>0 DEF Req
  <2> QED
    BY <1>4, <2>1 DEF Search, RunCalls
<1>5. CASE Fetch(r)
  <2> DEFINE hits == {c \in Visible : c.id \in Ids(rq[r].todo)}
             more == {c \in hits : c.id \notin Ids(rq[r].ev)}
  <2>1. \/ rq' = [rq EXCEPT ![r].ev = @ \cup more, ![r].todo = {}, ![r].pc = "lookup"]
        \/ rq' = [rq EXCEPT ![r].pc = "abort", ![r].todo = {}]
    BY <1>5 DEF Fetch
  <2> HIDE DEF more
  <2>2. rq'[r].q = rq[r].q /\ rq'[r].pc \in {"lookup", "abort"}
    BY <1>1, <2>1 DEF Req
  <2> QED
    BY <1>5, <2>2 DEF Fetch, RunCalls
<1>6. CASE Lookup(r)
  <2>1. PICK ev \in (SUBSET rq[r].ev) \ {{}} :
           \/ rq' = [rq EXCEPT ![r] = [[rq[r] EXCEPT !.ev = ev] EXCEPT !.pc = "provider"]]
           \/ \E e \in cache :
                 rq' = [rq EXCEPT ![r] = [[rq[r] EXCEPT !.ev = ev] EXCEPT
                            !.pc = "recheck", !.todo = ev, !.resp = e.resp, !.cached = TRUE]]
    BY <1>6 DEF Lookup
  <2>2. CASE rq' = [rq EXCEPT ![r] = [[rq[r] EXCEPT !.ev = ev] EXCEPT !.pc = "provider"]]
    <3>1. rq'[r].q = rq[r].q /\ rq'[r].pc = "provider"
      BY <1>1, <2>2 DEF Req
    <3> QED
      BY <1>6, <3>1 DEF Lookup, RunCalls
  <2>3. CASE \E e \in cache :
                 rq' = [rq EXCEPT ![r] = [[rq[r] EXCEPT !.ev = ev] EXCEPT
                            !.pc = "recheck", !.todo = ev, !.resp = e.resp, !.cached = TRUE]]
    <3>1. rq'[r].q = rq[r].q /\ rq'[r].pc = "recheck"
      BY <1>1, <2>3 DEF Req
    <3> QED
      BY <1>6, <3>1 DEF Lookup, RunCalls
  <2> QED
    BY <2>1, <2>2, <2>3
<1>7. CASE Respond(r)
  <2>1. rq'[r].q = rq[r].q /\ rq'[r].pc = "recheck"
    BY <1>1, <1>7 DEF Respond, Req
  <2> QED
    BY <1>7, <2>1 DEF Respond, RunCalls
<1>8. CASE Recheck(r)
  <2>1. PICK c \in rq[r].todo :
           IF StillTheSame(c) = {}
           THEN IF rq[r].pc = "recheck" THEN Goto(r, "abort") ELSE End(r)
           ELSE rq' = [rq EXCEPT ![r].todo = @ \ {c},
                                 ![r].ev = IF rq[r].pc = "recheck"
                                           THEN (@ \ {c}) \cup StillTheSame(c) ELSE @]
    BY <1>8 DEF Recheck
  <2>2. CASE StillTheSame(c) = {}
    <3>1. \/ rq'[r] = Idle
          \/ /\ rq[r].pc = "recheck" /\ rq'[r].pc = "abort" /\ rq'[r].q = rq[r].q
      BY <1>1, <2>1, <2>2 DEF Goto, End, Req
    <3> QED
      BY <3>1 DEF RunCalls
  <2>3. CASE StillTheSame(c) # {}
    <3> DEFINE same == StillTheSame(c)
               ev == IF rq[r].pc = "recheck" THEN (rq[r].ev \ {c}) \cup same ELSE rq[r].ev
    <3>1. rq' = [rq EXCEPT ![r].todo = rq[r].todo \ {c}, ![r].ev = ev]
      BY <1>1, <2>1, <2>3 DEF Req
    <3> HIDE DEF ev
    <3>2. rq'[r].q = rq[r].q /\ rq'[r].pc = rq[r].pc /\ rq'[r].sid = rq[r].sid
      BY <1>1, <3>1 DEF Req
    <3> QED
      BY <1>8, <3>2 DEF Recheck, RunCalls, Showing, Replaying
  <2> QED
    BY <2>2, <2>3
<1>9. CASE Bind(r)
  <2>1. rq'[r].q = rq[r].q /\ rq'[r].pc = "suggest"
    BY <1>1, <1>9 DEF Bind, Fresh
  <2> QED
    BY <1>9, <2>1 DEF Bind, RunCalls
<1>10. CASE Show(r)
  <2> DEFINE todo == bound[rq[r].sid]
  <2>1. rq' = [rq EXCEPT ![r].pc = "authorize", ![r].todo = todo]
    BY <1>10 DEF Show
  <2> HIDE DEF todo
  <2>2. rq'[r].q = rq[r].q /\ rq'[r].pc = "authorize" /\ rq'[r].sid = rq[r].sid
    BY <1>1, <2>1 DEF Req
  <2> QED
    BY <1>10, <2>2 DEF Show, Showing, Replaying
<1> QED
  BY <1>3, <1>4, <1>5, <1>6, <1>7, <1>8, <1>9, <1>10

-----------------------------------------------------------------------------
(* Only runs are at the calls of a run.                                    *)
CallsFit == \A r \in Slot : rq[r].pc \in RunCalls => rq[r].q \in Run

(* While no claim is old.                                                  *)
Tidy(r) ==
    /\ rq[r].pc # "takeover"
    /\ rq[r].pc \in Holding => claim[IdOf(rq[r].q)] = ClaimOf(rq[r].q, "in_progress", 0)
    /\ rq[r].pc \in Showing => claim[IdOf(rq[r].q)] = ClaimOf(rq[r].q, "complete", rq[r].sid)
    /\ rq[r] # Idle /\ rq[r].q \in Import => rq[r].sid = 0

ClaimsAreOwn ==
    \A i \in ClaimId :
        claim[i] # NoClaim => /\ claim[i].old = FALSE /\ IdOf(claim[i].q) = i
                              /\ claim[i].q \in Import => claim[i].sid = 0

OneHolder ==
    \A r, s \in Slot :
        rq[r].pc \in Holding /\ rq[s].pc \in Holding /\ IdOf(rq[r].q) = IdOf(rq[s].q)
            => r = s

AnswersAreClaims == \A a \in answered : claim[IdOf(a.q)] = ClaimOf(a.q, "complete", a.sid)

ClaimInv ==
    expiries = 0 => ClaimsAreOwn /\ OneHolder /\ AnswersAreClaims /\ \A r \in Slot : Tidy(r)

(* What a quiet step keeps.                                                *)
LEMMA QuietKeeps ==
    ASSUME TypeOK, CallsFit, NEW r \in Slot, rq[r] # Idle, Quiet(r),
           \A s \in Slot \ {r} : rq'[s] = rq[s]
    PROVE  /\ CallsFit'
           /\ ClaimInv /\ expiries' = 0 /\ expiries = 0 => ClaimInv'
<1>1. Idle.pc = "idle" /\ "idle" \notin RunCalls /\ "idle" \notin Holding /\ "idle" \notin Showing
  BY DEF Idle, RunCalls, Holding, Trying, Showing, Replaying
<1>2. CallsFit'
  BY <1>1 DEF CallsFit, Quiet
<1>3. ASSUME ClaimInv, expiries = 0 PROVE ClaimInv'
  <2>1. ClaimsAreOwn /\ OneHolder /\ AnswersAreClaims /\ \A s \in Slot : Tidy(s)
    BY <1>3 DEF ClaimInv
  <2>2. ClaimsAreOwn' /\ AnswersAreClaims'
    BY <2>1 DEF ClaimsAreOwn, AnswersAreClaims, Quiet
  <2>3. OneHolder'
    BY <1>1, <2>1 DEF OneHolder, Quiet
  <2>4. Tidy(r)'
    <3>1. CASE rq'[r] = Idle
      BY <1>1, <3>1 DEF Tidy
    <3>2. CASE rq'[r] # Idle
      <4>1. rq[r].pc \in RunCalls => rq[r].q \notin Import
        BY Apart DEF CallsFit
      <4> QED
        BY <2>1, <3>2, <4>1 DEF Tidy, Quiet
    <3> QED
      BY <3>1, <3>2
  <2>5. \A s \in Slot \ {r} : Tidy(s)'
    BY <2>1 DEF Tidy, Quiet
  <2> QED
    BY <2>2, <2>3, <2>4, <2>5 DEF ClaimInv
<1> QED
  BY <1>2, <1>3

(* A step that is not quiet: the calls that read or change claims.         *)
LEMMA LoudSteps ==
    ASSUME TypeOK, CallsFit, NEW r \in Slot, Serve(r) \/ StepFails(r), ~Quiet(r)
    PROVE  ReadClaim(r) \/ TakeOver(r) \/ PutClaim(r) \/ Complete(r) \/ Abort(r) \/ Reply(r)
BY QuietImports, QuietCalls, QuietReads, Zenon DEF Serve

LEMMA CallsFitStep ==
    ASSUME TypeOK, CallsFit, [Next]_vars
    PROVE  CallsFit'
<1>1. "idle" \notin RunCalls /\ "begin" \notin RunCalls /\ "report" \notin RunCalls
      /\ "claim" \notin RunCalls /\ "takeover" \notin RunCalls /\ "show" \notin RunCalls
      /\ "put" \notin RunCalls
  BY DEF RunCalls
<1>2. rq \in [Slot -> {Idle} \cup Req]
  BY DEF TypeOK
<1>3. ASSUME NEW r \in Slot, Call(r) \/ Serve(r) \/ StepFails(r) PROVE CallsFit'
  <2>1. \A s \in Slot \ {r} : rq'[s] = rq[s]
    BY <1>3, OneMoves
  <2>2. CASE Quiet(r) /\ rq[r] # Idle
    BY <2>1, <2>2, QuietKeeps
  <2>3. CASE Call(r)
    <3>1. rq'[r].pc = "begin"
      BY <1>2, <2>3 DEF Call, Fresh
    <3> QED
      BY <1>1, <2>1, <3>1 DEF CallsFit
  <2>4. ASSUME rq'[r] = Idle \/ rq'[r].pc \in {"begin", "claim", "takeover", "show", "report", "put"}
        PROVE CallsFit'
    <3>1. rq'[r].pc \notin RunCalls
      BY <1>1, <2>4 DEF Idle
    <3> QED
      BY <2>1, <3>1 DEF CallsFit
  <2>5. CASE Serve(r) /\ ~Quiet(r)
    <3>1. rq[r] \in Req /\ rq[r].q \in Request
      <4>1. rq[r].pc # "idle"
        BY <2>5, LoudSteps DEF ReadClaim, TakeOver, PutClaim, Complete, Abort, Reply
      <4> QED
        BY <1>2, <4>1, ReqFields DEF Idle
    <3>2. CASE ReadClaim(r)
      <4>1. rq'[r] = Idle \/ rq'[r].pc \in {"claim", "takeover", "show"}
        BY <1>2, <3>1, <3>2 DEF ReadClaim, Goto, End, Req
      <4> QED
        BY <2>4, <4>1
    <3>3. CASE TakeOver(r) \/ Abort(r) \/ Complete(r) \/ Reply(r)
      <4>1. rq'[r] = Idle \/ rq'[r].pc \in {"begin", "report"}
        BY <1>2, <3>1, <3>3 DEF TakeOver, Abort, Complete, Reply, Goto, End, Req
      <4> QED
        BY <2>4, <4>1
    <3>4. CASE PutClaim(r)
      <4> DEFINE todo == IF rq[r].q \in Import THEN rq[r].q.chunks ELSE {}
      <4>1. \/ Goto(r, "begin")
            \/ rq' = [rq EXCEPT ![r].pc = First(rq[r].q), ![r].todo = todo]
        BY <3>4 DEF PutClaim
      <4> HIDE DEF todo
      <4>2. rq'[r].q = rq[r].q /\ rq'[r].pc \in {"begin", First(rq[r].q)}
        BY <1>2, <3>1, <4>1 DEF Goto, Req
      <4>3. CASE rq[r].q \in Import
        BY <2>4, <4>2, <4>3 DEF First
      <4>4. CASE rq[r].q \notin Import
        <5>1. rq'[r].q \in Run
          BY <3>1, <4>2, <4>4, Apart
        <5> QED
          BY <2>1, <5>1 DEF CallsFit
      <4> QED
        BY <4>3, <4>4
    <3> QED
      BY <2>5, <3>2, <3>3, <3>4, LoudSteps
  <2>6. CASE StepFails(r)
    BY <1>2, <2>2, <2>6, QuietCalls DEF StepFails, Idle
  <2>7. Serve(r) /\ Quiet(r) => rq[r] # Idle
    <3>1. Serve(r) => rq[r].pc # "idle"
      BY DEF Serve, ReadClaim, TakeOver, PutClaim, Complete, Abort, Report, PutChunk,
         ListSuperseded, DeleteChunk, Announce, ReadEvidence, Search, Fetch, Lookup, Respond,
         Recheck, Gate, Bind, Suggest, Audit, Succeed, Remember, Show, Authorized, Reply
    <3> QED
      BY <3>1 DEF Idle
  <2> QED
    BY <1>3, <2>2, <2>3, <2>5, <2>6, <2>7
<1>4. CASE Restart
  BY <1>1, <1>4 DEF Restart, CallsFit, Idle
<1>5. CASE Evict \/ (\E i \in ClaimId : Expire(i)) \/ UNCHANGED vars
  BY <1>5 DEF Evict, Expire, vars, CallsFit
<1> QED
  BY <1>3, <1>4, <1>5, Zenon DEF Next

(* A claim is put where none is, and changed or removed by its holder.     *)
LEMMA ClaimStep ==
    ASSUME TypeOK, CallsFit, ClaimInv, [Next]_vars
    PROVE  ClaimInv'
<1>0. Idle.pc = "idle" /\ "idle" \notin Holding /\ "idle" \notin Showing
  BY DEF Idle, Holding, Trying, Showing, Replaying
<1>1. /\ rq \in [Slot -> {Idle} \cup Req] /\ claim \in [ClaimId -> {NoClaim} \cup Claim]
      /\ expiries \in Nat
  BY DEF TypeOK
<1>2. ASSUME NEW r \in Slot, Serve(r) \/ StepFails(r)
      PROVE rq[r] # Idle /\ rq[r] \in Req /\ rq[r].q \in Request /\ IdOf(rq[r].q) \in ClaimId
  <2>1. Serve(r) => rq[r].pc # "idle"
    BY DEF Serve, ReadClaim, TakeOver, PutClaim, Complete, Abort, Report, PutChunk,
       ListSuperseded, DeleteChunk, Announce, ReadEvidence, Search, Fetch, Lookup, Respond,
       Recheck, Gate, Bind, Suggest, Audit, Succeed, Remember, Show, Authorized, Reply
  <2>2. rq[r].pc # "idle"
    BY <1>2, <2>1 DEF StepFails
  <2> QED
    BY <1>0, <1>1, <2>2, ReqFields
<1>3. SUFFICES ASSUME expiries = 0, expiries' = 0,
                      ClaimsAreOwn, OneHolder, AnswersAreClaims, \A r \in Slot : Tidy(r)
               PROVE  ClaimsAreOwn' /\ OneHolder' /\ AnswersAreClaims' /\ \A r \in Slot : Tidy(r)'
  <2>1. expiries' = 0 => expiries = 0
    <3>1. ASSUME NEW r \in Slot, Call(r) \/ Serve(r) \/ StepFails(r) PROVE expiries' = expiries
      BY <3>1 DEF Call, StepFails, Others, Serve, ReadClaim, TakeOver, PutClaim, Complete, Abort,
         Report, PutChunk,
         ListSuperseded, DeleteChunk, Announce, ReadEvidence, Search, Fetch, Lookup, Respond,
         Recheck, Gate, Bind, Suggest, Audit, Succeed, Remember, Show, Authorized, Reply
    <3>2. expiries' = expiries \/ expiries' = expiries + 1
      BY <3>1 DEF Next, Restart, Evict, Expire, Others, vars
    <3> QED
      BY <1>1, <3>2
  <2> QED
    BY <1>3, <2>1 DEF ClaimInv
<1>4. ASSUME NEW r \in Slot, Call(r) \/ Serve(r) \/ StepFails(r)
      PROVE \A s \in Slot \ {r} : rq'[s] = rq[s]
  BY <1>4, OneMoves
<1>5. ASSUME NEW r \in Slot, Call(r) \/ Serve(r) \/ StepFails(r),
             claim' = claim, answered' = answered,
             rq'[r].pc \notin Holding, rq'[r].pc # "takeover", Tidy(r)'
      PROVE ClaimsAreOwn' /\ OneHolder' /\ AnswersAreClaims' /\ \A s \in Slot : Tidy(s)'
  <2>1. \A s \in Slot \ {r} : Tidy(s)'
    BY <1>3, <1>4, <1>5 DEF Tidy
  <2>2. OneHolder'
    BY <1>3, <1>4, <1>5 DEF OneHolder
  <2> QED
    BY <1>3, <1>5, <2>1, <2>2 DEF ClaimsAreOwn, AnswersAreClaims
<1>6. ASSUME NEW r \in Slot, rq'[r] = Idle PROVE Tidy(r)' /\ rq'[r].pc \notin Holding /\ rq'[r].pc # "takeover"
  BY <1>0, <1>6 DEF Tidy
<1>7. ASSUME NEW pc, NEW r \in Slot, Serve(r), Goto(r, pc)
      PROVE rq'[r].pc = pc /\ rq'[r].q = rq[r].q /\ rq'[r].sid = rq[r].sid
  BY <1>1, <1>2, <1>7 DEF Goto, Req
<1>8. ASSUME NEW r \in Slot, Serve(r), Goto(r, "begin") \/ Goto(r, "claim") \/ Goto(r, "report")
      PROVE Tidy(r)' /\ rq'[r].pc \notin Holding /\ rq'[r].pc # "takeover"
  <2>1. /\ rq'[r].pc \in {"begin", "claim", "report"} /\ rq'[r].q = rq[r].q
        /\ rq'[r].sid = rq[r].sid
    BY <1>7, <1>8
  <2>2. rq[r].q \in Import => rq[r].sid = 0
    BY <1>2, <1>3, <1>8 DEF Tidy
  <2> QED
    BY <2>1, <2>2 DEF Tidy, Holding, Trying, Showing, Replaying
(* The holder of a claim is the only one who knows it.                     *)
<1>9. ASSUME NEW r \in Slot, rq[r] \in Req, rq[r].pc \in Holding
      PROVE /\ claim[IdOf(rq[r].q)] = ClaimOf(rq[r].q, "in_progress", 0)
            /\ \A s \in Slot \ {r} : rq[s].pc \in Holding => IdOf(rq[s].q) # IdOf(rq[r].q)
            /\ \A s \in Slot : rq[s].pc \in Showing => IdOf(rq[s].q) # IdOf(rq[r].q)
            /\ \A a \in answered : IdOf(a.q) # IdOf(rq[r].q)
  <2>1. claim[IdOf(rq[r].q)] = ClaimOf(rq[r].q, "in_progress", 0)
    BY <1>3, <1>9 DEF Tidy
  <2>2. \A q, sid : ClaimOf(q, "complete", sid) # claim[IdOf(rq[r].q)]
    BY <2>1 DEF ClaimOf
  <2> QED
    BY <1>3, <1>9, <2>1, <2>2 DEF OneHolder, Tidy, AnswersAreClaims
<1>10. CASE \E r \in Slot : Call(r)
  <2>1. PICK r \in Slot : Call(r)
    BY <1>10
  <2>2. claim' = claim /\ answered' = answered
    BY <2>1 DEF Call, records
  <2>3. rq'[r].pc = "begin" /\ rq'[r].sid = 0
    BY <1>1, <2>1 DEF Call, Fresh
  <2>4. Tidy(r)' /\ rq'[r].pc \notin Holding /\ rq'[r].pc # "takeover"
    BY <2>3 DEF Tidy, Holding, Trying, Showing, Replaying
  <2> QED
    BY <1>5, <2>1, <2>2, <2>4
<1>11. ASSUME NEW r \in Slot, ReadClaim(r)
       PROVE ClaimsAreOwn' /\ OneHolder' /\ AnswersAreClaims' /\ \A s \in Slot : Tidy(s)'
  <2> DEFINE q == rq[r].q
             c == claim[IdOf(q)]
  <2>0. Serve(r)
    BY <1>11 DEF Serve
  <2>1. q \in Request /\ IdOf(q) \in ClaimId /\ rq[r] \in Req /\ c \in {NoClaim} \cup Claim
    BY <1>1, <1>2, <2>0
  <2>2. claim' = claim
    BY <1>11 DEF ReadClaim, records
  <2>3. CASE Goto(r, "claim") /\ answered' = answered
    BY <1>5, <1>8, <2>0, <2>2, <2>3
  <2>4. CASE End(r) /\ answered' = answered
    <3>1. rq'[r] = Idle
      BY <1>1, <2>4 DEF End
    <3> QED
      BY <1>5, <1>6, <2>0, <2>2, <2>4, <3>1
  <2>5. CASE c # NoClaim /\ c.q = q /\ c.state = "complete"
    <3>1. c = ClaimOf(q, "complete", c.sid)
      <4>1. c.old = FALSE /\ c \in Claim
        BY <1>3, <2>1, <2>5 DEF ClaimsAreOwn
      <4> QED
        BY <2>5, <4>1 DEF Claim, ClaimOf
    <3>2. CASE q \in Import
      <4>1. c.sid = 0
        BY <1>3, <2>1, <2>5, <3>2 DEF ClaimsAreOwn
      <4>2. rq'[r] = Idle /\ answered' = answered \cup {[q |-> q, sid |-> 0]}
        BY <1>1, <1>11, <2>5, <3>2 DEF ReadClaim, End, Answer
      <4>3. AnswersAreClaims'
        BY <1>3, <2>2, <3>1, <4>1, <4>2 DEF AnswersAreClaims
      <4>4. \A s \in Slot : Tidy(s)'
        <5>1. \A s \in Slot \ {r} : Tidy(s)'
          BY <1>3, <1>4, <2>0, <2>2 DEF Tidy
        <5> QED
          BY <1>6, <4>2, <5>1
      <4>5. OneHolder'
        BY <1>3, <1>4, <1>6, <2>0, <4>2 DEF OneHolder
      <4> QED
        BY <1>3, <2>2, <4>3, <4>4, <4>5 DEF ClaimsAreOwn
    <3>3. CASE q \notin Import
      <4>1. rq' = [rq EXCEPT ![r].pc = "show", ![r].sid = c.sid] /\ answered' = answered
        BY <1>11, <2>5, <3>3 DEF ReadClaim
      <4>2. rq'[r].pc = "show" /\ rq'[r].q = q /\ rq'[r].sid = c.sid
        BY <1>1, <2>1, <4>1 DEF Req
      <4>3. Tidy(r)' /\ rq'[r].pc \notin Holding /\ rq'[r].pc # "takeover"
        BY <2>2, <3>1, <3>3, <4>2 DEF Tidy, Holding, Trying, Showing, Replaying
      <4> QED
        BY <1>5, <2>0, <2>2, <4>1, <4>3
    <3> QED
      BY <3>2, <3>3
  <2>6. CASE c # NoClaim /\ c.state = "in_progress" /\ Goto(r, "takeover") /\ c.old
    BY <1>3, <2>1, <2>6 DEF ClaimsAreOwn
  <2> QED
    BY <1>11, <2>3, <2>4, <2>5, <2>6 DEF ReadClaim
<1>12. ASSUME NEW r \in Slot, PutClaim(r)
       PROVE ClaimsAreOwn' /\ OneHolder' /\ AnswersAreClaims' /\ \A s \in Slot : Tidy(s)'
  <2> DEFINE q == rq[r].q
             id == IdOf(q)
             todo == IF q \in Import THEN q.chunks ELSE {}
             new == ClaimOf(q, "in_progress", 0)
  <2>0. Serve(r)
    BY <1>12 DEF Serve
  <2>1. q \in Request /\ id \in ClaimId /\ rq[r] \in Req /\ answered' = answered
    BY <1>2, <1>12, <2>0 DEF PutClaim
  <2>2. CASE claim[id] = NoClaim
    <3>1. claim' = [claim EXCEPT ![id] = new]
      BY <1>12, <2>2 DEF PutClaim
    <3>2. rq' = [rq EXCEPT ![r].pc = First(q), ![r].todo = todo]
      BY <1>12, <2>2 DEF PutClaim
    <3>3. First(q) \in Holding /\ First(q) \notin Showing /\ First(q) # "takeover"
      BY DEF First, Holding, Trying, Showing, Replaying
    <3>4. new # NoClaim /\ new.old = FALSE /\ new.q = q /\ new.sid = 0
      BY DEF ClaimOf, NoClaim
    <3>5. \A p, state, sid : ClaimOf(p, state, sid) # NoClaim \/ state = "absent"
      BY DEF ClaimOf, NoClaim
    <3> HIDE DEF todo
    <3>6. rq'[r].pc = First(q) /\ rq'[r].q = q /\ rq'[r].sid = rq[r].sid
      BY <1>1, <2>1, <3>2 DEF Req
    <3>7. \A s \in Slot : rq[s].pc \in Holding \cup Showing => IdOf(rq[s].q) # id
      BY <1>3, <2>2, <3>5 DEF Tidy
    <3>8. \A a \in answered : IdOf(a.q) # id
      BY <1>3, <2>2, <3>5 DEF AnswersAreClaims
    <3> HIDE DEF new, id
    <3>9. claim'[id] = new /\ \A i : i # id => claim'[i] = claim[i]
      BY <1>1, <2>1, <3>1
    <3>10. ClaimsAreOwn'
      <4>1. new.q \in Import => new.sid = 0
        BY <3>4
      <4>2. IdOf(new.q) = id
        BY <3>4 DEF id
      <4> QED
        BY <1>3, <3>4, <3>9, <4>1, <4>2 DEF ClaimsAreOwn
    <3>11. AnswersAreClaims'
      BY <1>3, <2>1, <3>8, <3>9 DEF AnswersAreClaims
    <3>12. OneHolder'
      BY <1>3, <1>4, <2>0, <3>6, <3>7 DEF OneHolder, id
    <3>13. Tidy(r)'
      <4>1. rq[r].q \in Import => rq[r].sid = 0
        BY <1>2, <1>3, <2>0 DEF Tidy
      <4> QED
        BY <3>3, <3>6, <3>9, <4>1 DEF Tidy, new, id
    <3>14. \A s \in Slot \ {r} : Tidy(s)'
      BY <1>3, <1>4, <2>0, <3>7, <3>9 DEF Tidy
    <3> QED
      BY <3>10, <3>11, <3>12, <3>13, <3>14
  <2>3. CASE claim[id] # NoClaim
    <3>1. Goto(r, "begin") /\ claim' = claim
      BY <1>12, <2>3 DEF PutClaim
    <3> QED
      BY <1>5, <1>8, <2>0, <2>1, <3>1
  <2> QED
    BY <2>2, <2>3
<1>13. ASSUME NEW r \in Slot, Complete(r) \/ Abort(r)
       PROVE ClaimsAreOwn' /\ OneHolder' /\ AnswersAreClaims' /\ \A s \in Slot : Tidy(s)'
  <2> DEFINE q == rq[r].q
             id == IdOf(q)
             done == ClaimOf(q, "complete", rq[r].sid)
  <2>0. Serve(r)
    BY <1>13 DEF Serve
  <2>1. q \in Request /\ id \in ClaimId /\ rq[r] \in Req /\ rq[r].pc \in Holding
    BY <1>2, <1>13, <2>0 DEF Complete, Abort, Holding
  <2>2. /\ \A s \in Slot \ {r} : rq[s].pc \in Holding \cup Showing => IdOf(rq[s].q) # id
        /\ \A a \in answered : IdOf(a.q) # id
    BY <1>9, <2>1
  <2>3. Tidy(r)' /\ rq'[r].pc \notin Holding
    <3>1. CASE rq'[r] = Idle
      BY <1>6, <3>1
    <3>2. CASE rq'[r] # Idle
      <4>1. Goto(r, "report")
        BY <1>1, <1>13, <3>2 DEF Complete, Abort, End
      <4> QED
        BY <1>8, <2>0, <4>1
    <3> QED
      BY <3>1, <3>2
  <2>4. done # NoClaim /\ done.old = FALSE /\ IdOf(done.q) = id /\ (done.q \in Import => done.sid = 0)
    <3>1. q \in Import => rq[r].sid = 0
      BY <1>2, <1>3, <2>0 DEF Tidy
    <3> QED
      BY <3>1 DEF ClaimOf, NoClaim
  <2>5. \/ claim' = [claim EXCEPT ![id] = NoClaim] /\ answered' = answered
        \/ /\ claim' = [claim EXCEPT ![id] = done]
           /\ answered' = answered \cup {[q |-> q, sid |-> rq[r].sid]}
    BY <1>13 DEF Complete, Abort, Answer
  <2>6. IdOf([q |-> q, sid |-> rq[r].sid].q) = id
    OBVIOUS
  <2> HIDE DEF id
  <2>7. \A i : i # id => claim'[i] = claim[i]
    <3> HIDE DEF done
    <3>1. \A c : claim' = [claim EXCEPT ![id] = c] => \A i : i # id => claim'[i] = claim[i]
      BY <1>1, <2>1
    <3> QED
      BY <2>5, <3>1
  <2>8. ClaimsAreOwn'
    <3>1. claim'[id] \in {NoClaim, done}
      BY <1>1, <2>1, <2>5
    <3> HIDE DEF done
    <3> QED
      BY <1>3, <2>4, <2>7, <3>1 DEF ClaimsAreOwn
  <2>9. AnswersAreClaims'
    <3>1. \A a \in answered : claim'[IdOf(a.q)] = ClaimOf(a.q, "complete", a.sid)
      BY <1>3, <2>2, <2>7 DEF AnswersAreClaims
    <3>2. CASE answered' = answered
      BY <3>1, <3>2 DEF AnswersAreClaims
    <3>3. CASE /\ claim' = [claim EXCEPT ![id] = done]
               /\ answered' = answered \cup {[q |-> q, sid |-> rq[r].sid]}
      <4>1. claim'[id] = done
        BY <1>1, <2>1, <3>3
      <4> QED
        BY <2>6, <3>1, <3>3, <4>1 DEF AnswersAreClaims
    <3> QED
      BY <2>5, <3>2, <3>3
  <2>10. OneHolder'
    BY <1>3, <1>4, <2>0, <2>3 DEF OneHolder
  <2>11. \A s \in Slot \ {r} : Tidy(s)'
    BY <1>3, <1>4, <2>0, <2>2, <2>7 DEF Tidy
  <2> QED
    BY <2>3, <2>8, <2>9, <2>10, <2>11
<1>14. ASSUME NEW r \in Slot, Reply(r)
       PROVE ClaimsAreOwn' /\ OneHolder' /\ AnswersAreClaims' /\ \A s \in Slot : Tidy(s)'
  <2>0. Serve(r)
    BY <1>14 DEF Serve
  <2>1. /\ rq'[r] = Idle /\ claim' = claim
        /\ answered' = answered \cup {[q |-> rq[r].q, sid |-> rq[r].sid]}
    BY <1>1, <1>14 DEF Reply, End, Answer, records
  <2>2. claim[IdOf(rq[r].q)] = ClaimOf(rq[r].q, "complete", rq[r].sid)
    BY <1>3, <1>14 DEF Reply, Tidy, Showing, Replaying
  <2>3. AnswersAreClaims'
    BY <1>3, <2>1, <2>2 DEF AnswersAreClaims
  <2>4. OneHolder'
    BY <1>3, <1>4, <1>6, <2>0, <2>1 DEF OneHolder
  <2>5. \A s \in Slot \ {r} : Tidy(s)'
    BY <1>3, <1>4, <2>0, <2>1 DEF Tidy
  <2> QED
    BY <1>3, <1>6, <2>1, <2>3, <2>4, <2>5 DEF ClaimsAreOwn
<1>15. ASSUME NEW r \in Slot, TakeOver(r) PROVE FALSE
  BY <1>3, <1>15 DEF TakeOver, Tidy
<1>16. ASSUME NEW r \in Slot, Serve(r) \/ StepFails(r), Quiet(r)
       PROVE ClaimsAreOwn' /\ OneHolder' /\ AnswersAreClaims' /\ \A s \in Slot : Tidy(s)'
  BY <1>2, <1>3, <1>4, <1>16, QuietKeeps DEF ClaimInv
<1>17. CASE \E r \in Slot : Serve(r) \/ StepFails(r)
  BY <1>11, <1>12, <1>13, <1>14, <1>15, <1>16, <1>17, LoudSteps
<1>18. CASE Restart
  <2>1. \A r \in Slot : rq'[r] = Idle
    BY <1>18 DEF Restart
  <2>2. OneHolder' /\ \A r \in Slot : Tidy(r)'
    BY <1>6, <2>1 DEF OneHolder
  <2> QED
    BY <1>3, <1>18, <2>2 DEF Restart, records, ClaimsAreOwn, AnswersAreClaims
<1>19. CASE Evict \/ UNCHANGED vars
  <2>1. claim' = claim /\ rq' = rq /\ answered' = answered
    BY <1>19 DEF Evict, vars, records
  <2> QED
    BY <1>3, <2>1 DEF ClaimsAreOwn, OneHolder, AnswersAreClaims, Tidy
<1>20. CASE \E i \in ClaimId : Expire(i)
  BY <1>3, <1>20 DEF Expire
<1> QED
  BY <1>10, <1>17, <1>18, <1>19, <1>20 DEF Next

-----------------------------------------------------------------------------
(* While imports are sent one after the other.                             *)
Kept(doc) == \E p \in Import : p.doc = doc /\ Ids(p.chunks) \subseteq Ids(index)

Whole(r) == Ids(rq[r].q.chunks) \subseteq Ids(index)

(* How far the import in r has got.                                        *)
Progress(r) ==
    /\ rq[r].pc = "put"
          => rq[r].todo \subseteq rq[r].q.chunks /\ Ids(rq[r].q.chunks \ rq[r].todo) \subseteq Ids(index)
    /\ rq[r].pc \in {"list", "delete"} => Whole(r)
    /\ rq[r].pc \in {"remember", "complete"} /\ rq[r].q \in Import => Whole(r)
    /\ rq[r].pc = "delete"
          => \A c \in rq[r].todo : c.doc = rq[r].q.doc /\ c.id \notin Ids(rq[r].q.chunks)

Importing(r) == rq[r] # Idle /\ rq[r].q \in Import

OneImport == \A r, s \in Slot : Importing(r) /\ Importing(s) => r = s

AnswersAreKept == \A a \in answered : a.q \in Import => Kept(a.q.doc)

ClaimsAreKept ==
    \A i \in ClaimId :
        claim[i] # NoClaim /\ claim[i].state = "complete" /\ claim[i].q \in Import
            => Kept(claim[i].q.doc)

KeptInv == OneImport /\ AnswersAreKept /\ ClaimsAreKept /\ \A r \in Slot : Progress(r)

LEMMA IdsOfParts ==
    ASSUME NEW S, NEW T, NEW c
    PROVE  /\ Ids(S \cup T) = Ids(S) \cup Ids(T)
           /\ Ids({c}) = {c.id}
           /\ S \subseteq T => Ids(S) \subseteq Ids(T)
BY DEF Ids

(* No import that a step finds in a slot comes from nowhere.               *)
LEMMA OneImportStep ==
    ASSUME TypeOK, Serial, OneImport, [Next]_vars
    PROVE  OneImport'
<1>1. rq \in [Slot -> {Idle} \cup Req]
  BY DEF TypeOK
<1>2. ASSUME NEW r \in Slot, Serve(r) \/ StepFails(r)
      PROVE rq[r] # Idle /\ (rq'[r] = Idle \/ rq'[r].q = rq[r].q)
  <2>1. Serve(r) => rq[r].pc # "idle"
    BY DEF Serve, ReadClaim, TakeOver, PutClaim, Complete, Abort, Report, PutChunk,
       ListSuperseded, DeleteChunk, Announce, ReadEvidence, Search, Fetch, Lookup, Respond,
       Recheck, Gate, Bind, Suggest, Audit, Succeed, Remember, Show, Authorized, Reply
  <2>2. rq[r] # Idle /\ rq[r] \in Req
    BY <1>1, <1>2, <2>1 DEF StepFails, Idle
  <2>3. CASE Quiet(r)
    BY <2>2, <2>3 DEF Quiet
  <2>4. CASE ~Quiet(r) /\ (ReadClaim(r) \/ TakeOver(r) \/ Complete(r) \/ Abort(r) \/ Reply(r))
    BY <1>1, <2>2, <2>4 DEF ReadClaim, TakeOver, Complete, Abort, Reply, Goto, End, Req
  <2>5. CASE PutClaim(r)
    <3> DEFINE todo == IF rq[r].q \in Import THEN rq[r].q.chunks ELSE {}
    <3>1. \/ Goto(r, "begin")
          \/ rq' = [rq EXCEPT ![r].pc = First(rq[r].q), ![r].todo = todo]
      BY <2>5 DEF PutClaim
    <3> HIDE DEF todo
    <3> QED
      BY <1>1, <2>2, <3>1 DEF Goto, Req
  <2> QED
    BY <1>2, <2>3, <2>4, <2>5, QuietImports, QuietCalls, QuietReads, Zenon DEF Serve
<1>3. CASE \E r \in Slot : Serve(r) \/ StepFails(r)
  <2>1. PICK r \in Slot : Serve(r) \/ StepFails(r)
    BY <1>3
  <2>2. \A s \in Slot : rq'[s] = Idle \/ (rq[s] # Idle /\ rq'[s].q = rq[s].q) \/ rq'[s] = rq[s]
    BY <1>2, <2>1, OneMoves
  <2> QED
    BY <2>2 DEF OneImport, Importing
<1>4. CASE \E r \in Slot : Call(r)
  <2>1. PICK r \in Slot : Call(r)
    BY <1>4
  <2>2. PICK q \in Request : /\ q \in Import => \A s \in Slot : rq[s].pc # "idle" => rq[s].q \in Run
                             /\ rq' = [rq EXCEPT ![r] = Fresh(q)]
    BY <2>1 DEF Call
  <2>3. rq'[r].q = q /\ \A s \in Slot \ {r} : rq'[s] = rq[s]
    BY <1>1, <2>2 DEF Fresh
  <2>4. \A s \in Slot : rq[s] # Idle => rq[s].pc # "idle"
    BY <1>1, ReqFields
  <2>5. q \in Import => \A s \in Slot : ~Importing(s)
    BY <2>2, <2>4, Apart DEF Importing
  <2> QED
    BY <2>3, <2>5 DEF OneImport, Importing
<1>5. CASE Restart
  BY <1>5 DEF Restart, OneImport, Importing
<1>6. CASE Evict \/ (\E i \in ClaimId : Expire(i)) \/ UNCHANGED vars
  BY <1>6 DEF Evict, Expire, vars, OneImport, Importing
<1> QED
  BY <1>3, <1>4, <1>5, <1>6, Zenon DEF Next

(* Putting a chunk adds an id, removing one takes a single id away.        *)
LEMMA IndexIds ==
    ASSUME NEW r \in Slot
    PROVE  /\ PutChunk(r) => Ids(index) \subseteq Ids(index')
           /\ \A c : index' = Without({c.id}) \cup {c} => Ids(index') = Ids(index) \cup {c.id}
           /\ \A c : index' = Without({c.id}) => Ids(index') = Ids(index) \ {c.id}
<1>1. \A c : index' = Without({c.id}) \cup {c} => Ids(index') = Ids(index) \cup {c.id}
  BY DEF Without, Ids
<1>2. \A c : index' = Without({c.id}) => Ids(index') = Ids(index) \ {c.id}
  BY DEF Without, Ids
<1>3. PutChunk(r) => \E c : index' = Without({c.id}) \cup {c}
  BY DEF PutChunk
<1> QED
  BY <1>1, <1>2, <1>3

(* Imports alone write the index.                                          *)
LEMMA IndexStep ==
    ASSUME [Next]_vars
    PROVE  index' = index \/ \E r \in Slot : PutChunk(r) \/ DeleteChunk(r)
<1>1. ASSUME NEW r \in Slot, Serve(r), ~(PutChunk(r) \/ DeleteChunk(r)) PROVE index' = index
  BY <1>1 DEF Serve, ReadClaim, TakeOver, PutClaim, Complete, Abort, Report,
     ListSuperseded, Announce, ReadEvidence, Search, Fetch, Lookup, Respond,
     Recheck, Gate, Bind, Suggest, Audit, Succeed, Remember, Show, Authorized, Reply, records
<1> QED
  BY <1>1 DEF Next, Call, StepFails, Restart, Evict, Expire, vars, records

(* What is kept stays: an import removes only chunks of its own document,  *)
(* and of those none that it has put.                                      *)
LEMMA KeptLasts ==
    ASSUME RunInv, KeptInv, [Next]_vars
    PROVE  \A doc : Kept(doc) => Kept(doc)'
<1>1. CASE index' = index \/ \E r \in Slot : PutChunk(r)
  <2>1. Ids(index) \subseteq Ids(index')
    BY <1>1, IndexIds
  <2> QED
    BY <2>1 DEF Kept
<1>2. CASE \E r \in Slot : DeleteChunk(r)
  <2>1. PICK r \in Slot : DeleteChunk(r)
    BY <1>2
  <2>2. PICK c \in rq[r].todo : index' = Without({c.id})
    BY <2>1 DEF DeleteChunk
  <2>3. rq[r].pc = "delete" /\ rq[r].q \in Import /\ c \in Chunk /\ Progress(r)
    <3>1. rq[r].pc = "delete" /\ rq[r] \in Req /\ Knows(r)
      BY <2>1 DEF DeleteChunk, RunInv, TypeOK, RequestsKnow, Idle
    <3> QED
      BY <3>1, ReqFields DEF Knows, KeptInv
  <2>4. Ids(rq[r].q.chunks) \subseteq Ids(index) /\ c.doc = rq[r].q.doc /\ c.id \notin Ids(rq[r].q.chunks)
    BY <2>2, <2>3 DEF Progress, Whole
  <2>5. Ids(index') = Ids(index) \ {c.id}
    BY <2>2, IndexIds
  <2>6. ASSUME NEW doc, Kept(doc) PROVE Kept(doc)'
    <3>1. CASE doc = rq[r].q.doc
      BY <2>3, <2>4, <2>5, <3>1 DEF Kept
    <3>2. CASE doc # rq[r].q.doc
      <4>1. PICK p \in Import : p.doc = doc /\ Ids(p.chunks) \subseteq Ids(index)
        BY <2>6 DEF Kept
      <4>2. c.id \notin Ids(p.chunks)
        <5>1. PICK q \in Import : c \in q.chunks
          BY <2>3 DEF Chunk
        <5>2. ASSUME NEW d \in p.chunks, d.id = c.id PROVE FALSE
          <6>1. d.doc = p.doc /\ d.doc = c.doc
            BY <5>1, <5>2, RunAssumption
          <6> QED
            BY <2>4, <3>2, <4>1, <6>1
        <5> QED
          BY <5>2 DEF Ids
      <4> QED
        BY <2>5, <4>1, <4>2 DEF Kept
    <3> QED
      BY <3>1, <3>2
  <2> QED
    BY <2>6
<1> QED
  BY <1>1, <1>2, IndexStep

(* A request that does not move has got as far as before.                  *)
LEMMA ProgressLasts ==
    ASSUME RunInv, KeptInv, [Next]_vars, NEW s \in Slot, rq'[s] = rq[s],
           ~(PutChunk(s) \/ DeleteChunk(s))
    PROVE  Progress(s)'
<1>1. Progress(s)
  BY DEF KeptInv
<1>2. CASE index' = index \/ \E r \in Slot : PutChunk(r)
  <2>1. Ids(index) \subseteq Ids(index')
    BY <1>2, IndexIds
  <2> QED
    BY <1>1, <2>1 DEF Progress, Whole
<1>3. CASE \E r \in Slot : DeleteChunk(r)
  <2>1. PICK r \in Slot : DeleteChunk(r)
    BY <1>3
  <2>2. Importing(r)
    BY <2>1 DEF DeleteChunk, RunInv, RequestsKnow, Knows, Importing, Idle
  <2>3. ~Importing(s)
    BY <2>1, <2>2 DEF KeptInv, OneImport
  <2>4. rq[s].pc \notin {"put", "list", "delete"} /\ (rq[s].pc \in {"remember", "complete"} => rq[s].q \notin Import)
    BY <2>3 DEF Importing, RunInv, RequestsKnow, Knows, Idle
  <2> QED
    BY <2>4 DEF Progress
<1> QED
  BY <1>2, <1>3, IndexStep

(* The import that moves.                                                  *)
LEMMA ProgressMoves ==
    ASSUME RunInv, CallsFit, KeptInv, [Next]_vars, NEW r \in Slot,
           Call(r) \/ Serve(r) \/ StepFails(r)
    PROVE  Progress(r)'
<1>1. /\ rq \in [Slot -> {Idle} \cup Req] /\ TypeOK /\ Progress(r)
      /\ rq[r] # Idle => Knows(r)
  BY DEF RunInv, TypeOK, RequestsKnow, KeptInv
<1>2. ASSUME rq'[r].pc \notin ImportCalls PROVE Progress(r)'
  BY <1>2 DEF Progress, ImportCalls
<1>3. ASSUME rq[r].pc # "idle" PROVE rq[r] \in Req /\ Knows(r)
  BY <1>1, <1>3 DEF Idle
<1>4. Idle.pc \notin ImportCalls
  BY DEF Idle, ImportCalls
<1>5. CASE Call(r)
  <2>1. rq'[r].pc = "begin"
    BY <1>1, <1>5 DEF Call, Fresh
  <2> QED
    BY <1>2, <2>1 DEF ImportCalls
<1>6. CASE ReadClaim(r) \/ TakeOver(r) \/ Complete(r) \/ Abort(r) \/ Reply(r)
  <2>1. rq[r] \in Req
    BY <1>3, <1>6 DEF ReadClaim, TakeOver, Complete, Abort, Reply
  <2>2. rq'[r] = Idle \/ rq'[r].pc \in {"claim", "takeover", "show", "begin", "report"}
    BY <1>1, <1>6, <2>1 DEF ReadClaim, TakeOver, Complete, Abort, Reply, Goto, End, Req
  <2> QED
    BY <1>2, <1>4, <2>2 DEF ImportCalls
<1>7. CASE PutClaim(r)
  <2> DEFINE todo == IF rq[r].q \in Import THEN rq[r].q.chunks ELSE {}
  <2>1. rq[r] \in Req
    BY <1>3, <1>7 DEF PutClaim
  <2>2. \/ Goto(r, "begin")
        \/ rq' = [rq EXCEPT ![r].pc = First(rq[r].q), ![r].todo = todo]
    BY <1>7 DEF PutClaim
  <2> HIDE DEF todo
  <2>3. \/ rq'[r].pc = "begin"
        \/ rq'[r].pc = First(rq[r].q) /\ rq'[r].q = rq[r].q /\ rq'[r].todo = todo
    BY <1>1, <2>1, <2>2 DEF Goto, Req
  <2>4. CASE rq'[r].pc \in {"begin", "announce"}
    BY <1>2, <2>4 DEF ImportCalls
  <2>5. CASE rq'[r].pc = "put" /\ rq'[r].q = rq[r].q /\ rq'[r].todo = rq[r].q.chunks
    <3>1. Ids(rq[r].q.chunks \ rq[r].q.chunks) = {}
      BY DEF Ids
    <3> QED
      BY <2>5, <3>1 DEF Progress
  <2> QED
    BY <2>3, <2>4, <2>5 DEF First, todo
<1>8. CASE PutChunk(r)
  <2>1. /\ rq[r] \in Req /\ rq[r].pc = "put" /\ rq[r].q \in Import
        /\ rq[r].todo \subseteq rq[r].q.chunks
        /\ Ids(rq[r].q.chunks \ rq[r].todo) \subseteq Ids(index)
    BY <1>1, <1>3, <1>8 DEF PutChunk, Knows, Progress
  <2> DEFINE Q == rq[r].q.chunks
             T == rq[r].todo
  <2>2. PICK c \in T : /\ index' = Without({c.id}) \cup {c}
                       /\ rq' = [rq EXCEPT ![r].todo = @ \ {c},
                                           ![r].pc = IF T = {c} THEN "list" ELSE "put"]
    BY <1>8 DEF PutChunk
  <2>3. Ids(index') = Ids(index) \cup {c.id}
    BY <2>2, IndexIds
  <2>4. /\ rq'[r].todo = T \ {c} /\ rq'[r].q = rq[r].q
        /\ rq'[r].pc = IF T = {c} THEN "list" ELSE "put"
    BY <1>1, <2>1, <2>2 DEF Req
  <2>5. Ids(Q \ (T \ {c})) \subseteq Ids(index')
    <3>1. \A d \in Q \ (T \ {c}) : d \in Q \ T \/ d = c
      OBVIOUS
    <3> QED
      BY <2>1, <2>3, <3>1 DEF Ids
  <2>6. CASE T = {c}
    <3>1. Q \ (T \ {c}) = Q
      BY <2>6
    <3> QED
      BY <2>4, <2>5, <2>6, <3>1 DEF Progress, Whole
  <2>7. CASE T # {c}
    BY <2>1, <2>4, <2>5, <2>7 DEF Progress
  <2> QED
    BY <2>6, <2>7
<1>9. CASE ListSuperseded(r)
  <2> DEFINE todo == {c \in index : c.doc = rq[r].q.doc /\ c.id \notin Ids(rq[r].q.chunks)}
  <2>1. rq[r] \in Req /\ Whole(r) /\ index' = index
    BY <1>1, <1>3, <1>9 DEF ListSuperseded, Progress, records
  <2>2. \E pc \in {"delete", "remember"} : rq' = [rq EXCEPT ![r].todo = todo, ![r].pc = pc]
    BY <1>9 DEF ListSuperseded
  <2>3. \A c \in todo : c.doc = rq[r].q.doc /\ c.id \notin Ids(rq[r].q.chunks)
    OBVIOUS
  <2> HIDE DEF todo
  <2>4. rq'[r].q = rq[r].q /\ rq'[r].todo = todo /\ rq'[r].pc \in {"delete", "remember"}
    BY <1>1, <2>1, <2>2 DEF Req
  <2> QED
    BY <2>1, <2>3, <2>4 DEF Progress, Whole
<1>10. CASE DeleteChunk(r)
  <2>1. /\ rq[r] \in Req /\ Whole(r)
        /\ \A c \in rq[r].todo : c.doc = rq[r].q.doc /\ c.id \notin Ids(rq[r].q.chunks)
    BY <1>1, <1>3, <1>10 DEF DeleteChunk, Progress
  <2>2. PICK c \in rq[r].todo :
           /\ index' = Without({c.id})
           /\ rq' = [rq EXCEPT ![r].todo = @ \ {c},
                               ![r].pc = IF rq[r].todo = {c} THEN "remember" ELSE "delete"]
    BY <1>10 DEF DeleteChunk
  <2>3. Ids(rq[r].q.chunks) \subseteq Ids(index')
    <3>1. Ids(index') = Ids(index) \ {c.id}
      BY <2>2, IndexIds
    <3> QED
      BY <2>1, <3>1 DEF Whole
  <2>4. /\ rq'[r].todo = rq[r].todo \ {c} /\ rq'[r].q = rq[r].q
        /\ rq'[r].pc \in {"remember", "delete"}
    BY <1>1, <2>1, <2>2 DEF Req
  <2> QED
    BY <2>1, <2>3, <2>4 DEF Progress, Whole
<1>11. CASE Succeed(r)
  <2>1. rq[r] \in Req /\ rq[r].q \in Run
    BY <1>3, <1>11 DEF Succeed, CallsFit, RunCalls
  <2>2. rq'[r].pc = "remember" /\ rq'[r].q = rq[r].q
    BY <1>1, <1>11, <2>1 DEF Succeed, Goto, Req
  <2> QED
    BY <2>1, <2>2, Apart DEF Progress
<1>12. CASE Remember(r)
  <2>1. rq[r] \in Req /\ index' = index /\ (rq[r].q \in Import => Whole(r))
    BY <1>1, <1>3, <1>12 DEF Remember, Progress, records
  <2>2. rq'[r].pc = "complete" /\ rq'[r].q = rq[r].q
    BY <1>1, <1>12, <2>1 DEF Remember, Goto, Req
  <2> QED
    BY <2>1, <2>2 DEF Progress, Whole
<1>13. CASE Aside(r)
  BY <1>2, <1>13 DEF Aside
<1> QED
  BY <1>1, <1>5, <1>6, <1>7, <1>8, <1>9, <1>10, <1>11, <1>12, <1>13, QuietCalls, QuietReads, Zenon
     DEF Serve

(* Answers and complete claims tell of imports that are whole.             *)
LEMMA KeptStep ==
    ASSUME RunInv, CallsFit, Serial, KeptInv, [Next]_vars
    PROVE  KeptInv'
<1>1. TypeOK /\ rq \in [Slot -> {Idle} \cup Req] /\ claim \in [ClaimId -> {NoClaim} \cup Claim]
  BY DEF RunInv, TypeOK
<1>2. OneImport'
  BY <1>1, OneImportStep DEF KeptInv
<1>3. \A s \in Slot : Progress(s)'
  <2>1. CASE \E r \in Slot : Call(r) \/ Serve(r) \/ StepFails(r)
    <3>1. PICK r \in Slot : Call(r) \/ Serve(r) \/ StepFails(r)
      BY <2>1
    <3>2. Progress(r)'
      BY <3>1, ProgressMoves
    <3>3. ASSUME NEW s \in Slot \ {r} PROVE Progress(s)'
      <4>1. rq'[s] = rq[s]
        BY <1>1, <3>1, OneMoves
      <4>2. ~(PutChunk(s) \/ DeleteChunk(s))
        <5>1. PutChunk(s) \/ DeleteChunk(s) => rq'[s] # rq[s]
          <6>1. rq[s].pc # "idle" => rq[s] \in Req
            BY <1>1 DEF Idle
          <6>2. ASSUME PutChunk(s) \/ DeleteChunk(s) PROVE rq'[s].todo # rq[s].todo
            <7>1. PICK c \in rq[s].todo : \E pc :
                     rq' = [rq EXCEPT ![s].todo = @ \ {c}, ![s].pc = pc]
              BY <6>2 DEF PutChunk, DeleteChunk
            <7>2. rq[s] \in Req
              BY <6>1, <6>2 DEF PutChunk, DeleteChunk
            <7>3. rq'[s].todo = rq[s].todo \ {c}
              BY <1>1, <7>1, <7>2 DEF Req
            <7> QED
              BY <7>3
          <6> QED
            BY <6>2
        <5> QED
          BY <4>1, <5>1
      <4> QED
        BY <4>1, <4>2, ProgressLasts
    <3> QED
      BY <3>2, <3>3
  <2>2. CASE Restart
    BY <2>2 DEF Restart, Progress, Idle
  <2>3. CASE Evict \/ (\E i \in ClaimId : Expire(i)) \/ UNCHANGED vars
    <3>1. rq' = rq /\ index' = index
      BY <2>3 DEF Evict, Expire, vars, records
    <3> QED
      BY <3>1 DEF KeptInv, Progress, Whole
  <2> QED
    BY <2>1, <2>2, <2>3, Zenon DEF Next
<1>4. ASSUME NEW r \in Slot, Complete(r), rq[r].q \in Import PROVE Kept(rq[r].q.doc)
  <2>1. Whole(r)
    BY <1>4 DEF Complete, KeptInv, Progress
  <2> QED
    BY <1>4, <2>1 DEF Whole, Kept
<1>5. \A a \in answered' : a \in answered \/ (a.q \in Import => Kept(a.q.doc))
  <2>1. ASSUME NEW r \in Slot, ReadClaim(r)
        PROVE \/ answered' = answered
              \/ /\ answered' = answered \cup {[q |-> rq[r].q, sid |-> 0]}
                 /\ Kept(rq[r].q.doc)
    <3>1. rq[r] \in Req /\ IdOf(rq[r].q) \in ClaimId
      BY <1>1, <2>1, ReqFields DEF ReadClaim, Idle
    <3>2. CASE answered' # answered
      <4>1. /\ claim[IdOf(rq[r].q)] # NoClaim /\ claim[IdOf(rq[r].q)].q = rq[r].q
            /\ claim[IdOf(rq[r].q)].state = "complete" /\ rq[r].q \in Import
            /\ answered' = answered \cup {[q |-> rq[r].q, sid |-> 0]}
        BY <2>1, <3>2 DEF ReadClaim, Answer
      <4>2. Kept(rq[r].q.doc)
        BY <3>1, <4>1 DEF KeptInv, ClaimsAreKept
      <4> QED
        BY <4>1, <4>2
    <3> QED
      BY <3>2
  <2>2. ASSUME NEW r \in Slot, Complete(r)
        PROVE answered' = answered \cup {[q |-> rq[r].q, sid |-> rq[r].sid]}
    BY <2>2 DEF Complete, Answer
  <2>3. ASSUME NEW r \in Slot, Reply(r)
        PROVE /\ answered' = answered \cup {[q |-> rq[r].q, sid |-> rq[r].sid]}
              /\ rq[r].q \notin Import
    <3>1. rq[r] # Idle /\ rq[r].pc = "reply"
      BY <2>3 DEF Reply, Idle
    <3>2. rq[r].q \in Run
      BY <3>1 DEF RunInv, RequestsKnow, Knows
    <3> QED
      BY <2>3, <3>2, Apart DEF Reply, Answer
  <2>4. ASSUME NEW r \in Slot, Serve(r), ~(ReadClaim(r) \/ Complete(r) \/ Reply(r))
        PROVE answered' = answered
    BY <2>4 DEF Serve, TakeOver, PutClaim, Abort, Report, PutChunk,
       ListSuperseded, DeleteChunk, Announce, ReadEvidence, Search, Fetch, Lookup, Respond,
       Recheck, Gate, Bind, Suggest, Audit, Succeed, Remember, Show, Authorized
  <2>5. ASSUME NEW r \in Slot, Serve(r)
        PROVE \A a \in answered' : a \in answered \/ (a.q \in Import => Kept(a.q.doc))
    <3>1. CASE ReadClaim(r)
      BY <2>1, <3>1
    <3>2. CASE Complete(r)
      BY <1>4, <2>2, <3>2
    <3>3. CASE Reply(r)
      BY <2>3, <3>3
    <3>4. CASE ~(ReadClaim(r) \/ Complete(r) \/ Reply(r))
      BY <2>4, <2>5, <3>4
    <3> QED
      BY <3>1, <3>2, <3>3, <3>4
  <2>6. CASE ~ \E r \in Slot : Serve(r)
    BY <2>6 DEF Next, Call, StepFails, Restart, Evict, Expire, vars
  <2> QED
    BY <2>5, <2>6
<1>6. AnswersAreKept'
  BY <1>5, KeptLasts DEF AnswersAreKept, KeptInv
<1>7. ClaimsAreKept'
  <2>1. ASSUME NEW i \in ClaimId, claim'[i] # NoClaim, claim'[i].state = "complete",
               claim'[i].q \in Import
        PROVE Kept(claim'[i].q.doc)
    <3>1. ASSUME NEW r \in Slot, TakeOver(r) \/ PutClaim(r) \/ Abort(r)
          PROVE claim'[i] = claim[i]
      BY <1>1, <2>1, <3>1 DEF TakeOver, PutClaim, Abort, ClaimOf
    <3>2. ASSUME NEW r \in Slot, Complete(r)
          PROVE claim'[i] = claim[i] \/ claim'[i].q = rq[r].q
      BY <1>1, <3>2 DEF Complete, ClaimOf
    <3>3. ASSUME NEW r \in Slot, Serve(r),
                 ~(TakeOver(r) \/ PutClaim(r) \/ Abort(r) \/ Complete(r))
          PROVE claim' = claim
      BY <3>3 DEF Serve, ReadClaim, Report, PutChunk, ListSuperseded, DeleteChunk, Announce,
         ReadEvidence, Search, Fetch, Lookup, Respond, Recheck, Gate, Bind, Suggest, Audit,
         Succeed, Remember, Show, Authorized, Reply, records
    <3>4. ASSUME NEW j \in ClaimId, Expire(j) PROVE claim'[i] = claim[i]
      <4>1. claim[j] \in Claim /\ claim[j].state = "in_progress"
        BY <1>1, <3>4 DEF Expire
      <4>2. claim'[j].state = "in_progress"
        BY <1>1, <3>4, <4>1 DEF Expire, Claim
      <4> QED
        BY <1>1, <2>1, <3>4, <4>2 DEF Expire
    <3>5. claim'[i] = claim[i] => Kept(claim'[i].q.doc)
      BY <2>1 DEF KeptInv, ClaimsAreKept
    <3>6. CASE \E r \in Slot : Complete(r)
      BY <1>4, <2>1, <3>2, <3>5, <3>6
    <3>7. CASE ~ \E r \in Slot : Complete(r)
      <4>1. claim'[i] = claim[i]
        <5>1. CASE \E r \in Slot : Serve(r)
          BY <3>1, <3>3, <3>7, <5>1
        <5>2. CASE \E j \in ClaimId : Expire(j)
          BY <3>4, <5>2
        <5>3. CASE ~((\E r \in Slot : Serve(r)) \/ \E j \in ClaimId : Expire(j))
          BY <5>3 DEF Next, Call, StepFails, Restart, Evict, vars, records
        <5> QED
          BY <5>1, <5>2, <5>3
      <4> QED
        BY <3>5, <4>1
    <3> QED
      BY <3>6, <3>7
  <2> QED
    BY <2>1, KeptLasts DEF ClaimsAreKept
<1> QED
  BY <1>2, <1>3, <1>6, <1>7 DEF KeptInv

-----------------------------------------------------------------------------
(* The claims and the kept documents, together with the invariant above.   *)
WholeInv == RunInv /\ CallsFit /\ ClaimInv /\ (Serial => KeptInv)

LEMMA WholeInvHolds == Spec => []WholeInv
<1>1. Init => WholeInv
  <2> SUFFICES ASSUME Init PROVE WholeInv
    OBVIOUS
  <2>1. \A r \in Slot : rq[r] = Idle
    BY DEF Init
  <2>2. "idle" \notin RunCalls \cup Holding \cup Showing
    BY DEF RunCalls, Holding, Trying, Showing, Replaying
  <2>3. CallsFit /\ OneHolder /\ \A r \in Slot : Tidy(r)
    BY <2>1, <2>2 DEF CallsFit, OneHolder, Tidy, Idle
  <2>4. ClaimsAreOwn /\ AnswersAreClaims /\ ClaimsAreKept /\ AnswersAreKept
    BY DEF Init, ClaimsAreOwn, AnswersAreClaims, ClaimsAreKept, AnswersAreKept
  <2>5. OneImport /\ \A r \in Slot : Progress(r)
    BY <2>1 DEF OneImport, Importing, Progress, Idle
  <2> QED
    BY <2>3, <2>4, <2>5, RunInvInit DEF WholeInv, ClaimInv, KeptInv
<1>2. WholeInv /\ [Next]_vars => WholeInv'
  <2> SUFFICES ASSUME WholeInv, [Next]_vars PROVE WholeInv'
    OBVIOUS
  <2>1. RunInv /\ TypeOK /\ CallsFit /\ ClaimInv /\ (Serial => KeptInv)
    BY DEF WholeInv, RunInv
  <2>2. RunInv' /\ CallsFit' /\ ClaimInv'
    BY <2>1, RunInvNext, CallsFitStep, ClaimStep
  <2>3. Serial => KeptInv'
    BY <2>1, KeptStep
  <2> QED
    BY <2>2, <2>3 DEF WholeInv
<1> QED
  BY <1>1, <1>2, PTL DEF Spec

(* As long as no claim has reached its age limit, all answers under a key  *)
(* name one suggestion, whatever stopped or was retried in between         *)
(* (_begin_idempotency, _complete_idempotency).                            *)
THEOREM AgreeHolds == Spec => []AnswersAgree
<1>1. WholeInv => AnswersAgree
  <2> SUFFICES ASSUME WholeInv, expiries = 0, NEW a \in answered, NEW b \in answered,
                      a.q.op = b.q.op, a.q.key = b.q.key
               PROVE  a = b
    BY DEF AnswersAgree
  <2>1. a \in [q: Request, sid: 0..MaxRuns] /\ b \in [q: Request, sid: 0..MaxRuns]
    BY DEF WholeInv, RunInv, TypeOK
  <2>2. ClaimOf(a.q, "complete", a.sid) = ClaimOf(b.q, "complete", b.sid)
    BY DEF WholeInv, ClaimInv, AnswersAreClaims, IdOf
  <2>3. a.q = b.q /\ a.sid = b.sid
    BY <2>2 DEF ClaimOf
  <2> QED
    BY <2>1, <2>3
<1> QED
  BY <1>1, WholeInvHolds, PTL

(* If imports are sent one after the other, a document that was imported   *)
(* is never without all chunks of one of its versions, whichever step of a *)
(* later import fails or is the last before the worker stops               *)
(* (rag.py, import_document).                                              *)
THEOREM KeptHolds == ASSUME Serial PROVE Spec => []SourceIsKept
<1>1. WholeInv => SourceIsKept
  BY DEF WholeInv, KeptInv, AnswersAreKept, Kept, SourceIsKept
<1> QED
  BY <1>1, WholeInvHolds, PTL
=============================================================================
