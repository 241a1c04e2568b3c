------------------------------ MODULE AgentRun ------------------------------
(***************************************************************************)
(* Agent runs and the knowledge they cite (apps/ai-worker/src/             *)
(* edt_ai_worker/gateway.py, rag.py).  An import replaces the chunks of a  *)
(* document one store call at a time; a run reads chunks, asks a provider, *)
(* checks the chunks again and stores a suggestion, its evidence, its      *)
(* audit and its activity one after the other.  Every other request may    *)
(* run between two calls of the store, and the worker may stop there.      *)
(*                                                                         *)
(* One tenant.  All runs are of one actor; imports may be of others, and a *)
(* chunk is open if its ACL admits the actor of the runs.                  *)
(***************************************************************************)
EXTENDS Naturals, Sequences, FiniteSets

CONSTANTS
    Run,          \* requests to run an agent: key, input, evidence, search
    Import,       \* requests to import a document: key, document, chunks
    Slot,         \* requests in flight
    Serial,       \* are imports sent one after the other?
    LongRequests, \* may a claim reach its age limit while its request runs?
    MaxRuns,      \* bound: suggestion ids drawn
    MaxExpiries,  \* bound: claims that reach their age limit
    MaxFaults     \* bound: failed steps and restarts

(* A chunk's id comes from its document, position and content; an unsafe   *)
(* content is quarantined.  Its locator and ACL are those of the import.   *)
ASSUME RunAssumption ==
    /\ \A q \in Run : q.op = "run" /\ q.search \in BOOLEAN /\ IsFiniteSet(q.wants)
    /\ \A q \in Import :
          /\ q.op = "import" /\ q.chunks # {} /\ IsFiniteSet(q.chunks)
          /\ \A c \in q.chunks : c.doc = q.doc /\ c.open \in BOOLEAN /\ c.safe \in BOOLEAN
          /\ \A c \in q.chunks : c.pos \in Nat
          /\ \A c, d \in q.chunks : c.id = d.id \/ c.pos = d.pos => c = d
    /\ \A p, q \in Import : \A c \in p.chunks, d \in q.chunks : c.id = d.id => c.doc = d.doc
    /\ Serial \in BOOLEAN /\ LongRequests \in BOOLEAN
    /\ MaxRuns \in Nat /\ MaxExpiries \in Nat /\ MaxFaults \in Nat

VARIABLES
    claim,      \* the records of kind idempotency_agent_run, _document_import
    index,      \* the records of kind knowledge_chunk
    bound,      \* [suggestion id -> the bindings of its suggestion_evidence]
    suggestion, \* ids of the records of kind suggestion
    audit,      \* suggestion ids of the records of kind audit
    activity,   \* [key of a run -> state of its record of kind activity]
    cache,      \* responses in the worker's memory
    rq,         \* [Slot -> the request it serves and the call it is at]
    current,    \* history: [Slot -> chunks that were in the index since its
                \* provider answered, or since its replay began]
    answered,   \* history: requests answered with a success, and with which id
    expiries, faults

records == <<claim, index, bound, suggestion, audit, activity>>
vars == <<records, cache, rq, current, answered, expiries, faults>>

-----------------------------------------------------------------------------
Request == Run \cup Import
IdOf(q) == <<q.op, q.key>>
ClaimId == {IdOf(q) : q \in Request}
RunKey == {q.key : q \in Run}
Chunk == UNION {q.chunks : q \in Import}
Ids(chunks) == {c.id : c \in chunks}

NoClaim == [state |-> "absent"]
ClaimOf(q, state, sid) == [state |-> state, q |-> q, sid |-> sid, old |-> FALSE]
Claim == [state: {"in_progress", "complete"}, q: Request, sid: 0..MaxRuns, old: BOOLEAN]

Idle == [pc |-> "idle"]
Fresh(q) == [pc |-> "begin", q |-> q, ev |-> {}, todo |-> {}, sid |-> 0,
             resp |-> "none", cached |-> FALSE]

(* Inside the try block of import_document and run_agent; being checked.   *)
Trying == {"put", "list", "delete", "announce", "read", "search", "fetch", "lookup",
           "provider", "recheck", "bind", "suggest", "audit", "succeed", "remember"}
Replaying == {"authorize", "reply"}
Checking == {"recheck", "bind", "suggest"} \cup Replaying
Phase == {"begin", "takeover", "claim", "complete", "abort", "report", "show"}
             \cup Trying \cup Replaying

Req == [pc: Phase, q: Request, ev: SUBSET Chunk, todo: SUBSET Chunk, sid: 0..MaxRuns,
        resp: {"none", "valid", "invalid"}, cached: BOOLEAN]

Init ==
    /\ claim = [i \in ClaimId |-> NoClaim]
    /\ index = {} /\ bound = <<>> /\ suggestion = {} /\ audit = {}
    /\ activity = [k \in RunKey |-> "none"]
    /\ cache = {}
    /\ rq = [r \in Slot |-> Idle]
    /\ current = [r \in Slot |-> {}]
    /\ answered = {}
    /\ expiries = 0 /\ faults = 0

Goto(r, pc) == rq' = [rq EXCEPT ![r].pc = pc]
End(r) == rq' = [rq EXCEPT ![r] = Idle]
Answer(q, sid) == answered' = answered \cup {[q |-> q, sid |-> sid]}
Others == UNCHANGED <<expiries, faults>>

-----------------------------------------------------------------------------
(* _begin_idempotency, _complete_idempotency and _abort_idempotency.       *)

(* run_agent and import_document are called.                               *)
Call(r) ==
    /\ rq[r].pc = "idle"
    /\ \E q \in Request :
          /\ Serial /\ q \in Import => \A s \in Slot : rq[s].pc # "idle" => rq[s].q \in Run
          /\ rq' = [rq EXCEPT ![r] = Fresh(q)]
    /\ UNCHANGED <<records, cache, answered>> /\ Others

(* A complete claim answers an import; the suggestion of a run is shown.   *)
ReadClaim(r) ==
    LET q == rq[r].q
        c == claim[IdOf(q)]
    IN  /\ rq[r].pc = "begin"
        /\ \/ /\ c = NoClaim
              /\ Goto(r, "claim")
              /\ UNCHANGED answered
           \/ /\ c # NoClaim /\ c.q # q
              /\ End(r)
              /\ UNCHANGED answered
           \/ /\ c # NoClaim /\ c.q = q /\ c.state = "complete"
              /\ IF q \in Import
                 THEN End(r) /\ Answer(q, 0)
                 ELSE rq' = [rq EXCEPT ![r].pc = "show", ![r].sid = c.sid] /\ UNCHANGED answered
           \/ /\ c # NoClaim /\ c.q = q /\ c.state = "in_progress"
              /\ IF c.old THEN Goto(r, "takeover") ELSE End(r)
              /\ UNCHANGED answered
        /\ UNCHANGED <<records, cache>> /\ Others

TakeOver(r) ==
    /\ rq[r].pc = "takeover"
    /\ claim' = [claim EXCEPT ![IdOf(rq[r].q)] = NoClaim]
    /\ Goto(r, "begin")
    /\ UNCHANGED <<index, bound, suggestion, audit, activity, cache, answered>> /\ Others

First(q) == IF q \in Import THEN "put" ELSE "announce"

(* Mutant: the claim is put whichever record is there. *)
PutClaimBlindly(r) ==
    LET q == rq[r].q
    IN  /\ rq[r].pc = "claim"
        /\ claim' = [claim EXCEPT ![IdOf(q)] = ClaimOf(q, "in_progress", 0)]
        /\ rq' = [rq EXCEPT ![r].pc = First(q),
                            ![r].todo = IF q \in Import THEN q.chunks ELSE {}]
        /\ UNCHANGED <<index, bound, suggestion, audit, activity, cache, answered>> /\ Others

PutClaim(r) ==
    LET q == rq[r].q
    IN  /\ rq[r].pc = "claim"
        /\ IF claim[IdOf(q)] = NoClaim
           THEN /\ claim' = [claim EXCEPT ![IdOf(q)] = ClaimOf(q, "in_progress", 0)]
                /\ rq' = [rq EXCEPT ![r].pc = First(q),
                                    ![r].todo = IF q \in Import THEN q.chunks ELSE {}]
           ELSE Goto(r, "begin") /\ UNCHANGED claim
        /\ UNCHANGED <<index, bound, suggestion, audit, activity, cache, answered>> /\ Others

Complete(r) ==
    LET q == rq[r].q
    IN  /\ rq[r].pc = "complete"
        /\ claim' = [claim EXCEPT ![IdOf(q)] = ClaimOf(q, "complete", rq[r].sid)]
        /\ Answer(q, rq[r].sid)
        /\ End(r)
        /\ UNCHANGED <<index, bound, suggestion, audit, activity, cache>> /\ Others

(* The claim is released, and then the run reported as failed.             *)
Abort(r) ==
    /\ rq[r].pc = "abort"
    /\ claim' = [claim EXCEPT ![IdOf(rq[r].q)] = NoClaim]
    /\ IF rq[r].q \in Import THEN End(r) ELSE Goto(r, "report")
    /\ UNCHANGED <<index, bound, suggestion, audit, activity, cache, answered>> /\ Others

Report(r) ==
    /\ rq[r].pc = "report"
    /\ activity' = [activity EXCEPT ![rq[r].q.key] = "failed"]
    /\ End(r)
    /\ UNCHANGED <<claim, index, bound, suggestion, audit, cache, answered>> /\ Others

-----------------------------------------------------------------------------
(* KnowledgeIndex.import_document.                                         *)

(* Mutant: a chunk is put beside the record of the same id. *)
WithoutNone(ids) == index

(* The index without the records of these ids.                             *)
Without(ids) == {c \in index : c.id \notin ids}

(* Mutant: what is superseded is removed first. *)
PutChunkLast(r) ==
    LET q == rq[r].q
    IN  /\ rq[r].pc = "put"
        /\ \E c \in rq[r].todo :
              /\ index' = {d \in index : d.doc # q.doc \/ d.id \in Ids(q.chunks \ rq[r].todo)} \cup {c}
              /\ rq' = [rq EXCEPT ![r].todo = @ \ {c},
                                  ![r].pc = IF rq[r].todo = {c} THEN "list" ELSE "put"]
        /\ UNCHANGED <<claim, bound, suggestion, audit, activity, cache, answered>> /\ Others

(* The new chunks are put in order, over records of the same id.           *)
PutChunk(r) ==
    /\ rq[r].pc = "put"
    /\ \E c \in rq[r].todo :
          /\ \A d \in rq[r].todo : c.pos <= d.pos
          /\ index' = Without({c.id}) \cup {c}
          /\ rq' = [rq EXCEPT ![r].todo = @ \ {c},
                              ![r].pc = IF rq[r].todo = {c} THEN "list" ELSE "put"]
    /\ UNCHANGED <<claim, bound, suggestion, audit, activity, cache, answered>> /\ Others

(* The chunks are listed (fewer than max_candidates of them) ...           *)
ListSuperseded(r) ==
    LET q == rq[r].q
        superseded == {c \in index : c.doc = q.doc /\ c.id \notin Ids(q.chunks)}
    IN  /\ rq[r].pc = "list"
        /\ rq' = [rq EXCEPT ![r].todo = superseded,
                            ![r].pc = IF superseded = {} THEN "remember" ELSE "delete"]
        /\ UNCHANGED <<records, cache, answered>> /\ Others

(* ... and those of the document that are not of the import are removed.   *)
DeleteChunk(r) ==
    /\ rq[r].pc = "delete"
    /\ \E c \in rq[r].todo :
          /\ index' = Without({c.id})
          /\ rq' = [rq EXCEPT ![r].todo = @ \ {c},
                              ![r].pc = IF rq[r].todo = {c} THEN "remember" ELSE "delete"]
    /\ UNCHANGED <<claim, bound, suggestion, audit, activity, cache, answered>> /\ Others

-----------------------------------------------------------------------------
(* _context and _bounded_prompt: the evidence.                             *)
Visible == {c \in index : c.safe /\ c.open}

Announce(r) ==
    /\ rq[r].pc = "announce"
    /\ activity' = [activity EXCEPT ![rq[r].q.key] = "running"]
    /\ Goto(r, "read")
    /\ UNCHANGED <<claim, index, bound, suggestion, audit, cache, answered>> /\ Others

(* get_authorized of the evidence that the request names.                  *)
ReadEvidence(r) ==
    LET q == rq[r].q
    IN  /\ rq[r].pc = "read"
        /\ IF q.wants \subseteq Ids(Visible)
           THEN rq' = [rq EXCEPT ![r].ev = {c \in Visible : c.id \in q.wants},
                                 ![r].pc = IF q.search \/ q.wants = {} THEN "search" ELSE "lookup"]
           ELSE Goto(r, "abort")
        /\ UNCHANGED <<records, cache, answered>> /\ Others

(* search: any of the visible chunks may be relevant.                      *)
Search(r) ==
    /\ rq[r].pc = "search"
    /\ \E hits \in SUBSET Visible :
          rq' = [rq EXCEPT ![r].todo = hits,
                           ![r].pc = IF hits # {} THEN "fetch"
                                     ELSE IF rq[r].ev = {} THEN "abort" ELSE "lookup"]
    /\ UNCHANGED <<records, cache, answered>> /\ Others

(* get_authorized of the hits, which reads the chunks again; a chunk that  *)
(* was read with another locator is refused.                               *)
Fetch(r) ==
    LET hits == {c \in Visible : c.id \in Ids(rq[r].todo)}
        conflict == \E c \in hits, d \in rq[r].ev : c.id = d.id /\ c.locator # d.locator
    IN  /\ rq[r].pc = "fetch"
        /\ IF Ids(rq[r].todo) \subseteq Ids(Visible) /\ ~conflict
           THEN rq' = [rq EXCEPT ![r].ev = @ \cup {c \in hits : c.id \notin Ids(@)},
                                 ![r].todo = {}, ![r].pc = "lookup"]
           ELSE rq' = [rq EXCEPT ![r].pc = "abort", ![r].todo = {}]
        /\ UNCHANGED <<records, cache, answered>> /\ Others

-----------------------------------------------------------------------------
(* _run_agent, from the prompt on.                                         *)

(* What the prompt is made of.                                             *)
PromptOf(q, ev) == [input |-> q.input, of |-> {<<c.id, c.locator>> : c \in ev}]

(* Evidence that does not fit is left out, named evidence never; the cache *)
(* may know the response.                                                  *)
Lookup(r) ==
    LET q == rq[r].q
    IN  /\ rq[r].pc = "lookup"
        /\ \E ev \in (SUBSET rq[r].ev) \ {{}} :
              LET known == {e \in cache : e.prompt = PromptOf(q, ev)}
                  got == [rq[r] EXCEPT !.ev = ev]
              IN  /\ q.wants \subseteq Ids(ev)
                  /\ \/ /\ known = {}
                        /\ rq' = [rq EXCEPT ![r] = [got EXCEPT !.pc = "provider"]]
                     \/ \E e \in known :
                           rq' = [rq EXCEPT ![r] = [got EXCEPT !.pc = "recheck", !.todo = ev,
                                                               !.resp = e.resp, !.cached = TRUE]]
        /\ UNCHANGED <<records, cache, answered>> /\ Others

(* The provider's response satisfies the gates of the output or not.       *)
Respond(r) ==
    /\ rq[r].pc = "provider"
    /\ \E resp \in {"valid", "invalid"} :
          rq' = [rq EXCEPT ![r].pc = "recheck", ![r].resp = resp, ![r].todo = rq[r].ev]
    /\ UNCHANGED <<records, cache, answered>> /\ Others

(* Mutant: what was read before the call is taken for what is there. *)
StillTheSameAsRead(c) == {c}

(* The chunk as it is now, if the actor may cite it and it is the same.    *)
StillTheSame(c) == {d \in Visible : d.id = c.id /\ d.locator = c.locator}

(* _reauthorize_chunks, and _authorize_suggestion_evidence of a replay.    *)
Recheck(r) ==
    /\ rq[r].pc \in {"recheck", "authorize"} /\ rq[r].todo # {}
    /\ \E c \in rq[r].todo :
          IF StillTheSame(c) = {}
          THEN IF rq[r].pc = "recheck" THEN Goto(r, "abort") ELSE End(r)
          ELSE rq' = [rq EXCEPT ![r].todo = @ \ {c},
                                ![r].ev = IF rq[r].pc = "recheck"
                                          THEN (@ \ {c}) \cup StillTheSame(c) ELSE @]
    /\ UNCHANGED <<records, cache, answered>> /\ Others

(* Mutant: the response is kept before the gates. *)
KeepsAll(r) == ~rq[r].cached

(* Is the response put into the cache?                                     *)
Keeps(r) == rq[r].resp = "valid" /\ ~rq[r].cached

(* Schema, citations, secrets and budget; only what passes is cached.      *)
Gate(r) ==
    /\ rq[r].pc = "recheck" /\ rq[r].todo = {}
    /\ Goto(r, IF rq[r].resp = "valid" THEN "bind" ELSE "abort")
    /\ LET prompt == PromptOf(rq[r].q, rq[r].ev)
       IN  cache' = IF Keeps(r)
                    THEN {e \in cache : e.prompt # prompt}
                             \cup {[prompt |-> prompt, resp |-> rq[r].resp]}
                    ELSE cache
    /\ UNCHANGED <<records, answered>> /\ Others

(* Mutant: the suggestion is stored before its evidence. *)
BindWithSuggestion(r) ==
    /\ rq[r].pc = "bind" /\ Len(bound) < MaxRuns
    /\ bound' = Append(bound, {})
    /\ suggestion' = suggestion \cup {Len(bound) + 1}
    /\ rq' = [rq EXCEPT ![r] = [Fresh(rq[r].q) EXCEPT !.pc = "suggest", !.sid = Len(bound) + 1]]
    /\ UNCHANGED <<claim, index, audit, activity, cache, answered>> /\ Others

(* The evidence record is put under a new suggestion id.                   *)
Bind(r) ==
    /\ rq[r].pc = "bind" /\ Len(bound) < MaxRuns
    /\ bound' = Append(bound, rq[r].ev)
    /\ rq' = [rq EXCEPT ![r] = [Fresh(rq[r].q) EXCEPT !.pc = "suggest", !.sid = Len(bound) + 1]]
    /\ UNCHANGED <<claim, index, suggestion, audit, activity, cache, answered>> /\ Others

Suggest(r) ==
    /\ rq[r].pc = "suggest"
    /\ suggestion' = suggestion \cup {rq[r].sid}
    /\ Goto(r, "audit")
    /\ UNCHANGED <<claim, index, bound, audit, activity, cache, answered>> /\ Others

(* Mutant: a failure to audit is ignored. *)
AuditOrNot(r) ==
    /\ rq[r].pc = "audit"
    /\ audit' \in {audit, audit \cup {rq[r].sid}}
    /\ Goto(r, "succeed")
    /\ UNCHANGED <<claim, index, bound, suggestion, activity, cache, answered>> /\ Others

Audit(r) ==
    /\ rq[r].pc = "audit"
    /\ audit' = audit \cup {rq[r].sid}
    /\ Goto(r, "succeed")
    /\ UNCHANGED <<claim, index, bound, suggestion, activity, cache, answered>> /\ Others

Succeed(r) ==
    /\ rq[r].pc = "succeed"
    /\ activity' = [activity EXCEPT ![rq[r].q.key] = "succeeded"]
    /\ Goto(r, "remember")
    /\ UNCHANGED <<claim, index, bound, suggestion, audit, cache, answered>> /\ Others

(* The last call in the try block: session memory of a run, activity of an *)
(* import.                                                                 *)
Remember(r) ==
    /\ rq[r].pc = "remember"
    /\ Goto(r, "complete")
    /\ UNCHANGED <<records, cache, answered>> /\ Others

-----------------------------------------------------------------------------
(* suggestion(), of the replay of a run: the record, the authorization of  *)
(* its evidence (Recheck), and its reviews.                                *)
Show(r) ==
    /\ rq[r].pc = "show"
    /\ rq[r].sid \in suggestion
    /\ rq' = [rq EXCEPT ![r].pc = "authorize", ![r].todo = bound[rq[r].sid]]
    /\ UNCHANGED <<records, cache, answered>> /\ Others

Authorized(r) ==
    /\ rq[r].pc = "authorize" /\ rq[r].todo = {}
    /\ Goto(r, "reply")
    /\ UNCHANGED <<records, cache, answered>> /\ Others

Reply(r) ==
    /\ rq[r].pc = "reply"
    /\ Answer(rq[r].q, rq[r].sid)
    /\ End(r)
    /\ UNCHANGED <<records, cache>> /\ Others

-----------------------------------------------------------------------------
(* What goes wrong, and time.                                              *)

(* A check refuses (rate, budget, secrets) or a call fails.                *)
StepFails(r) ==
    /\ rq[r].pc # "idle" /\ faults < MaxFaults
    /\ IF rq[r].pc \in Trying THEN Goto(r, "abort") ELSE End(r)
    /\ faults' = faults + 1
    /\ UNCHANGED <<records, cache, answered, expiries>>

(* The worker stops and starts again, with an empty cache.                 *)
Restart ==
    /\ faults < MaxFaults
    /\ rq' = [r \in Slot |-> Idle]
    /\ cache' = {}
    /\ faults' = faults + 1
    /\ UNCHANGED <<records, answered, expiries>>

(* The time of a cached response is over, or others need its place.        *)
Evict ==
    /\ \E e \in cache : cache' = cache \ {e}
    /\ UNCHANGED <<records, rq, answered>> /\ Others

(* A claim reaches its age limit of at least twice what the provider may   *)
(* take.                                                                   *)
Working(i) == \E r \in Slot : /\ rq[r].pc \in Trying \cup {"complete", "abort"}
                              /\ IdOf(rq[r].q) = i

Expire(i) ==
    /\ claim[i] # NoClaim /\ claim[i].state = "in_progress" /\ ~claim[i].old
    /\ LongRequests \/ ~Working(i)
    /\ expiries < MaxExpiries
    /\ claim' = [claim EXCEPT ![i].old = TRUE]
    /\ expiries' = expiries + 1
    /\ UNCHANGED <<index, bound, suggestion, audit, activity, cache, rq, answered, faults>>

-----------------------------------------------------------------------------
Serve(r) == \/ ReadClaim(r) \/ TakeOver(r) \/ PutClaim(r) \/ Complete(r) \/ Abort(r) \/ Report(r)
            \/ PutChunk(r) \/ ListSuperseded(r) \/ DeleteChunk(r)
            \/ Announce(r) \/ ReadEvidence(r) \/ Search(r) \/ Fetch(r) \/ Lookup(r) \/ Respond(r)
            \/ Recheck(r) \/ Gate(r) \/ Bind(r) \/ Suggest(r) \/ Audit(r) \/ Succeed(r)
            \/ Remember(r) \/ Show(r) \/ Authorized(r) \/ Reply(r)

(* History: what a request has seen in the index since it began to check.  *)
Witness ==
    current' = [r \in Slot |->
        IF rq'[r].pc \notin Checking THEN {}
        ELSE index' \cup IF rq[r].pc \in Checking THEN current[r] ELSE {}]

Next == /\ \/ \E r \in Slot : Call(r) \/ Serve(r) \/ StepFails(r)
           \/ Restart
           \/ Evict
           \/ \E i \in ClaimId : Expire(i)
        /\ Witness

Spec == Init /\ [][Next]_vars

-----------------------------------------------------------------------------
(* Types.                                                                  *)
TypeOK ==
    /\ claim \in [ClaimId -> {NoClaim} \cup Claim]
    /\ index \subseteq Chunk /\ \A c, d \in index : c.id = d.id => c = d
    /\ bound \in Seq(SUBSET Chunk) /\ Len(bound) <= MaxRuns
    /\ suggestion \subseteq DOMAIN bound /\ audit \subseteq DOMAIN bound
    /\ activity \in [RunKey -> {"none", "running", "succeeded", "failed"}]
    /\ \A e \in cache : e.resp \in {"valid", "invalid"}
    /\ rq \in [Slot -> {Idle} \cup Req]
    /\ current \in [Slot -> SUBSET Chunk]
    /\ answered \subseteq [q: Request, sid: 0..MaxRuns]
    /\ expiries \in 0..MaxExpiries /\ faults \in 0..MaxFaults

(* Everything that a suggestion cites was in the index, open to the actor  *)
(* and under the same locator, at some time after the provider answered or *)
(* the cache was hit, whatever imports replaced meanwhile; so was, for a   *)
(* replay, everything that the shown suggestion cites, after the replay    *)
(* began (_reauthorize_chunks, _authorize_suggestion_evidence).            *)
CitesCurrent ==
    \A r \in Slot :
        rq[r].pc \in {"suggest", "reply"}
            => /\ bound[rq[r].sid] # {}
               /\ \A c \in bound[rq[r].sid] :
                     \E d \in current[r] : /\ d.id = c.id /\ d.locator = c.locator
                                           /\ d.open /\ d.safe

(* A suggestion that is stored can be authorized: whatever fails between   *)
(* two calls, its evidence record is there, and names some evidence.       *)
SuggestionsAreBound == \A s \in suggestion : bound[s] # {}

(* A run that was answered is on record: its suggestion, and its audit.    *)
AnsweredIsAudited ==
    \A a \in answered : a.q \in Run => a.sid \in suggestion \cap audit

(* Unless a claim was taken over, all answers under a key, replays too,    *)
(* name one suggestion: a retry after a crash or a lost answer runs the    *)
(* agent at most once more, and not after a success.                       *)
AnswersAgree ==
    expiries = 0 => \A a, b \in answered : a.q.op = b.q.op /\ a.q.key = b.q.key => a = b

(* Only responses that passed every gate are in the cache.                 *)
CacheIsValid == \A e \in cache : e.resp = "valid"

(* Once a document has been imported, all chunks of one of its versions    *)
(* are there, whatever step of a later import fails: rag.py,               *)
(* import_document, "so a failed import cannot erase the previous source". *)
SourceIsKept ==
    \A a \in answered : a.q \in Import =>
        \E q \in Import : q.doc = a.q.doc /\ Ids(q.chunks) \subseteq Ids(index)
=============================================================================
