# Enterprise Digital Twin: specifications, model checks and proofs

TLA+ models of the state-changing core of this repository, the TLC runs that
check them on small instances and the TLAPS proofs that hold for every instance.
`PROJECT.json` lists components, runs, mutants, the map from definitions to
source lines, hazards, findings and theorems.

    tlc -workers 2 -config MCMutationStore.cfg MCMutationStore
    tlapm MutationStore_proofs.tla

## 1. The system

A NestJS API (`apps/api`), a Python AI worker (`apps/ai-worker`), a sync worker
(`apps/sync-worker`) and a web client (`apps/web`), over PostgreSQL with row
level security, and optionally Neo4j and an object store.

| Part | State | Operations | Hard behaviour | What makes it correct |
|---|---|---|---|---|
| Record store, `database.service.ts`, `001_init.sql` | `records`, `audit_events`, `outbox`, `idempotency` per tenant | `put`, audit `put`, `commitEventMutation`, `get`, `list` | transactions of several statements, advisory and row locks, lost answers, retries, key expiry | one hash chain per tenant, one entry per live key, all or nothing, true answers, callers end |
| Event intelligence, `event-intelligence.service.ts` | maps of events, approvals, receipts, applications, audits, mirrored in the store | `interpret`, `review`, `requestApproval`, `decideApproval`, `apply`, `rollback`, reload, `onModuleInit` | handlers interleave at every `await`; the maps and the disk diverge on failure; unconditional puts | what is applied is what was approved; receipts are the history of the projection; a rollback undoes one application |
| Event projection, `event-projection.service.ts` | a versioned, hashed projection per tenant | `applyExact`, `rollbackExact`, `restoreUncommitted`, `hydrate` | changed before the commit, restored after a refusal | see above |
| Twin graph, `twin-graph.service.ts` | cached graph per tenant | node, relationship and type writes, traversals | a cache filled by several transactions, claimed by one metadata record | a commit is based on one whole version |
| Twin events, integration registry | as the twin graph | creates and updates | as the twin graph | as the twin graph |
| Prediction and simulation engines | runs, models, learning events | outcome, validation, learning | a worker call between reads | no learning step lost or counted twice |
| Remediation, `demo-store.service.ts` | previews, approvals, receipts, the Jira issue | preview, approve, execute, compensate | expiry, replay, partial persistence | one execution per two-person grant |
| Asset twin, `asset-twin.service.ts` | control state, previews, receipts | preview, execute | state changed before an awaited audit | one execution per preview |
| AI gateway worker: reviews, `gateway.py`, `storage.py`, `memory.py` | claims, suggestions, reviews, memories | review, outcome, learn | threads, claims that expire, several stores | one effective decision, memory only of what was approved |
| AI gateway worker: runs and imports, `gateway.py`, `rag.py` | claims, chunks, bindings, suggestions, audits, activities, a response cache | run, import, replay | evidence that changes while a provider answers, five puts per run, imports that fail half way or overlap | what is cited is current, bound and audited; one answer per key; no source is lost |
| Simulation worker, `simulation.py`, `snapshot.py`, `calendar_math.py` | none between requests | validate, compile, schedule, forecast | ties, lags, calendars, slots, order of interventions, shared samples | feasible and greedy schedules, no deadlock, one meaning of a date |
| Sync worker | observations, outbox, object store, graph | `syncTenant` | partial failure of three stores | a re-run converges |

Every service of the API writes through the record store. Event intelligence
calls the projection synchronously and the store at its awaits; six callers use
`commitEventMutation` (event apply and rollback, twin graph, twin events,
integration registry, prediction, simulation), all with a guard.
The hazards at their lines are in `PROJECT.json`.

## 2. Modules

    MutationLedger            what commitEventMutation promises (abstract)
      ^ refined by
    MutationStore             the store, statement by statement
      MutationStore_proofs        types, audit chain, answers, the refinement
      MCMutationStore             TLC instance
    EventHistory              what apply and rollback promise (abstract)
      ^ refined by
    EventIntelligence         review .. rollback over maps and disk
      EventIntelligence_proofs    its safety properties, the refinement
      MCEventIntelligence         TLC instances (_lifecycle, _races, _retries, _terminal)
    EventAudit                the audit chain in the memory of the event service
      EventAudit_proofs           types, and when it refuses
      MCEventAudit                TLC instance
    AiReview                  claims, reviews and memory of the AI worker
      AiReview_proofs             its safety properties
      MCAiReview                  TLC instances (.cfg, _rejected, _keys)
    AgentRun                  runs, imports and replays of the AI worker
      AgentRun_proofs             its safety properties
      MCAgentRun                  TLC instances (.cfg, _imports)
    WorkInstant               encoded working time
    WorkingCalendar           calendar arithmetic, to and from encoded time
    ListSchedule              one iteration of the list scheduler
      ListSchedule_proofs         its safety properties
    Interventions             plans, and what each intervention does to one
    Compilation               the loop that compiles a scenario
    PlanGraph                 the searches for cycles, turn by turn
    ScenarioPlan              validation of snapshots and plans
      ScenarioPlan_proofs         both searches, and what the compiled plan is
    Simulation                a request, composing the modules above
      Simulation_proofs           its safety properties
      MCSimulation                TLC instance

### MutationStore

A client is one call in flight; `txn[c].pc` is the statement it has reached.
`AdvisoryLock`, `ReserveIdempotency`, `AssertExpectedRecords`, `InsertOutbox`,
`UpsertRecord` and `Commit` are the statements of `commitEventMutation` in order
(`ReadAuditTail` for the audit put, `UpsertRecord` alone for a plain put).
Writes become visible at `Commit`, as PostgreSQL's read committed level has it;
each statement reads what is committed when it runs. `Abort` is any failure before
the commit, `LoseAnswer` one after it, `Retry` the client's second request with
the same key, from the same or a newly read version. `ExpireKey` is the passing
of `expires_at`; a transaction compares with its own start
(`transaction_timestamp()`), so what had expired is noted when it begins.

Choices:
- One record stands for the set a mutation compares and writes. Mutations are
  serialised by the advisory lock and a put locks one row, so the order in which a
  mutation takes several row locks cannot matter.
- A uuid, a content hash and a payload are the number of the request that drew
  them (`ref`); key stands for the pair of operation and Idempotency-Key.
- The outbox event id is fresh per request. The prediction and simulation engines
  derive it without the actor; that is a hazard of its own (section 7).
- The tenant's rows of one table are one value; row level security is taken to
  separate tenants.
- `idempotency_request_in_progress`, `_state_missing` and `_response_missing` are
  unreachable here: a row is committed as `succeeded` or not at all.

### EventIntelligence

One API process and the database. `m...` variables are the maps, `d...` the
committed records. A handler is atomic between two awaits; `rq[s].pc` says at
which await it is. The awaits are the audit put (`audit`), taking a connection
(`putAp`, `putEv`: the payload is serialised after it), the landing of the put
(`landAp`, `landEv`), the commit, and the reads of a reload.

- JavaScript objects are shared. `review` works on a clone; `requestApproval` and
  `decideApproval` change the map's object in place. `live` says that a handler
  still holds the map's object, `own` is the object it kept when the map got
  another (`DetachEvent`). With two requests in flight this is exact; of
  three, two that hold an object which the map has replaced would go on sharing it,
  and the model gives each its own.
- `commitEventMutation` is one action with its three outcomes (`CommitMutation`,
  `ReplayMutation`, `RefuseMutation`) and the failure without an answer
  (`LoseMutation`). MutationStore is the justification.
- `apply` moves the projection, then commits, then updates its maps; a refusal
  restores the projection and reloads. `UnwindThrows` and `HydrateThrows` are the
  exceptions of `restoreUncommitted` and `hydrate`, `UnwindAgain` what the catch
  block makes of a reload that failed inside the try block.
- `ApplyRefusedByAudit`, `RollbackRefusedByAudit`: `appendAudit` throws after the
  projection has moved and outside the try block. When it refuses depends on the
  audit chain in memory, which EventAudit models: any apply may meet it, within the
  fault bound.
- A projection is its version and the set of events whose facts it holds; a
  reviewed payload is mode, note and the snapshot it is bound to. Equal values
  stand for equal hashes.
- An application record keeps its mode. A rollback in reality compares the
  projection with what the record says the application left; a scenario's record
  names the state of its branch, a hash that no projection has
  (`event-intelligence.service.ts:829-834`, `1057`). An applied event whose review
  says reality and whose record is a scenario's is therefore refused
  (`RollbackGuards`).
- The idempotency row of a mutation lives for 24 hours
  (`event-intelligence.service.ts:2249`); here it never expires (`Reserved`), so the
  results are about requests within that time of the first use of their key. What
  expiry does to the store is in MutationStore (`ExpireKey`). A repeat of the same
  request after it is refused by the guards of its records; a new request under a
  reused key would get a second receipt under that key.
- A reload awaits the event, the application, the receipt and its approval one after
  the other and sets each in its map at once; the model reads the event in a step of
  its own and sets the others, as they are then, together with it (`SetEvent`).
- Memory-only replays of review, request and decide change nothing and are left
  out, as are `persistIdempotency`, timeline, branches and audit contents.

### EventAudit

`appendAudit` extends a list in memory, awaits the database, which binds the audit
to the tail it has there, and then reads the whole list again
(`refreshAuthoritativeAudits`) and assesses it. `chain` is `this.audits`, `issues`
is `this.auditHealth`; both decide whether the next audited request of the tenant
is `Refused`. `LandAudit` is the transaction (MutationStore shows that it takes the
tail of the chain on disk), `ListAudits` and `SetAudits` are the refresh, with an
await between them. `apply` and `rollback` leave the audit to their commit
(`mutate`): a replay or a conflict cuts the list back (`RefuseMutation`) and reads
it again, a replay whose reload fails cuts it once more (`CutAgain`), and a
`restoreUncommitted` or `hydrate` that throws leaves it (`ThrowMutation`,
`StopUnwinding`). `interpret` is the one request that may begin with an empty
chain; it puts the event it has made after its audit. `CommitOther` is a mutation
of another service of the tenant, which uses the same chain and the same kind of
record. Calls fail, answers are lost and the process restarts within `MaxFaults`.

- Hashes have no collisions, so an evidence record is the sequence of audits that
  its hash covers: its predecessor is the sequence without the last, its
  `tenant_sequence` the length. That makes gaps in the numbers (`sequence_gaps`)
  impossible here; the other five issues are the code's.
- The assessment returns clones, so what `bindAuditToTail` rewrites is the caller's
  object and never the list in memory.
- The shape of a record is `by`: which service made it, which decides whether its
  `resource_type` is one that `validAuditEvidence` knows.

### AiReview

The worker's endpoints run in threads and every call of `DurableRecordStore` is
one transaction, so a request is a sequence of store calls; `rq[r].pc` names the
next one. `ReadClaim`, `TakeOver` and `PutClaim` are `_begin_idempotency`;
`ListReviews`, `PersistApproved` and `InsertReview` are `_review`;
`CheckApproved` and `PersistOutcome` are `record_validated_outcome`;
`PutActivity`, `Complete` and `Abort` end both. `StepFails` is any exception:
inside the try block (`Trying`) it releases the claim, elsewhere it leaves it.
`Restart` ends all requests; the store stays.

- One actor: the id of a claim contains the actor, and `suggestion()` refuses
  everyone but the actor of the agent run. The race between decisions is between
  two requests of one person, or of one person's two windows.
- Ids derived with `uuid5` are what they are derived from: a review is keyed by
  its suggestion, an enterprise memory too, a learning memory by the key of its
  claim. A claim's request hash is its body; the note of a review is left out.
- A claim has no clock, it becomes `old` (`Expire`). `LongRequests` says whether
  it may while its own request still runs.
- A refusal of evidence, permission or an identity check is a step that fails.
- Suggestions exist from the start; AgentRun is about where they come from.

### AgentRun

The same way of looking at the worker: a request is a sequence of store calls.
`ReadClaim` .. `Abort` are the claims again, for the operations `agent_run` and
`document_import`; `Report` is the failed activity that `run_agent` puts after it
has released its claim. An import is `PutChunk` for each chunk, `ListSuperseded`,
`DeleteChunk` for each that was listed, `Remember`. A run is `Announce`,
`ReadEvidence`, `Search` and `Fetch`, `Lookup` (prompt and cache), `Respond` (the
provider), `Recheck` for each chunk (`_reauthorize_chunks`), `Gate`, and the puts
`Bind`, `Suggest`, `Audit`, `Succeed`, `Remember`. `Show`, `Recheck`, `Authorized`
and `Reply` are `suggestion()`, which answers a replay. `StepFails`, `Restart` and
`Expire` are as in AiReview; `Evict` is the cache's time and size limit.

- A chunk is its id (document, position, content), its locator and whether its
  ACL admits the actor of the runs (`open`) and its content was quarantined
  (`safe`). Relevance, ranking and trimming are choices: `Search` returns any
  visible chunks and `Lookup` drops any evidence that the request does not name.
- A provider's response passes the gates or not (`valid`); schema, citations,
  secrets and budget are one verdict.
- Two runs of one prompt with the same evidence hit the same cache entry.
- `Serial` says whether imports are sent one after the other.
- The evidence at `ReadEvidence` and `Fetch` is read by single transactions.

### Simulation

`run_simulation` has no state between requests and no concurrency; what is hard
is its data. `phase` is how far a request has come: `received` (`Receive` compares
tasks, dependencies and teams), `searching` (`_find_cycle`: `FromOrigin`, and for each
path of its queue `DropPath`, `CloseCycle` or `FollowPath`), `validating` (Kahn's loop
over the baseline plan, one `Visit` per turn), `compiling` (one `Intervene` per turn of
the loop over the interventions, which `RefuseScenario` may leave at any turn),
`revalidating` (Kahn's loop again, over the scenario's plan), `planned`, `baseline` and
`scenario` (both plans prepared, `Prepared`, and scheduled by `ListSchedule`, one
`Place` per turn of its loop, on the same samples, `Stream`), `done` or `refused`.

- The loops of the two searches are actions, those of the calendar
  (`add_workdays`, `working_days_between`) recursive functions: no module here
  declares a recursive operator, so all of them can be proved about.
- The other refusals of `_validate_plan` (`Consistent`) are looked at before Kahn's
  loop, in the code partly after it: only whether a plan is refused is told apart.
  `validate_scenario` (bindings, versions and hashes) holds.
- `RequestAssumption` is what the types of `models.py` guarantee of a request. That
  a calendar has a working day within `Guardrail` days of every day is a bound on
  the number of its holidays there; the code refuses a request that meets a day
  without one (`invalid_calendar`).
- The code keeps the dependencies in a dictionary by pair, the model in a set. That
  no pair is ever twice in it is proved (`PlanTyped`).
- A sampled duration is its lower or upper bound, the same choice for one stream
  in both schedules; the PERT shape is part of the stream's key only. The proofs
  about `ListSchedule` alone are for any durations.
- A work instant is encoded as worked time and a phase (`WorkInstant`), as the
  code does; a calendar has days of `DayTicks` ticks and one shift a day.
- One iteration stands for all of them; quantiles, counts, drivers and criticality
  over the iterations are left out. `Guardrail` stands for the code's limit of 3700
  days of search.
- Instants and work are exact ticks. The code computes in binary64: two instants are
  ordered by their parts (`key`), but finishes and the target's cutoff are compared as
  `encoded()` sums of working days and a phase of 1e-9 (`simulation.py:129`,
  `896-897`), and `add_workdays` and `_external_work_instant` have tolerances of
  1e-9 seconds (`calendar_math.py:61`, `simulation.py:490-494`). Rounding is not
  modelled: `OnTimeMeansOnTime` and the other results hold as far as it does not
  reorder instants. Nor are the bounds of two million turns of the calendar's loops.
- A completed task's finish may lie before the base, so an encoded instant may be
  negative.

## 3. Properties

MutationStore: `TypeOK`; `AuditChain` (no gap, no fork, every row names its
predecessor); `AnswersAreDurable` (an answered success is on disk under the
caller's own key and hash, a refusal left nothing); `OneTransaction` (record,
audit and outbox together); `LedgerSpec` (refinement: an entry needs a free key,
versions of a guarded record go one by one, positions grow in commit order);
`CallsEnd` (liveness).

EventIntelligence: `TypeOK`; `ReceiptChain` (the reality receipts on disk are
exactly the history of the projection); `RollbackRestores` (a rollback undoes the
one application that made its starting version); `OneReceiptPerRequest` (over
retries, replays and restarts); `AppliedAsApproved` (executed approval, both
roles for reality, the same payload, the same projection); `LegalOnDisk` (a
receipt is a legal step of the event on disk, not only of the maps);
`AppliedIsTerminal` (the service's own claim, violated); `HistorySpec` (the
refinement of EventHistory: every change on disk is one whole apply or rollback,
under a key that no receipt names yet, of the projection as it is then).

EventAudit: `TypeOK` and `NotRefusedAlone` (the chain on disk is complete, and while
only the event service commits to it no audited request is refused; both proved);
`RefusedOnlyIfBroken` (the same whoever commits; the service's own claim, violated).

AiReview: `TypeOK`; `AnswersAreEffective` (what was answered with a success is the
review, or the outcome, in effect); `ApprovedIsRemembered`; `LearningIsApproved`;
`ReviewsAreImmutable` (an action property); `RequestsEnd` (liveness, once no new
request arrives); `RejectedIsNotRemembered` and `KeysNameOneRequest` (claims of
the documentation, violated).

AgentRun: `TypeOK`; `CitesCurrent` (all that a stored suggestion or a replay cites
was in the index, open and under the same locator, after the provider answered or
the replay began); `SuggestionsAreBound` (a suggestion never lacks the evidence
that guards it); `AnsweredIsAudited`; `AnswersAgree` (all answers under one key
name one suggestion, as long as no claim expires); `CacheIsValid`; `SourceIsKept`
(an imported document stays whole in one of its versions; holds if imports come
one after the other, violated if they overlap).

Simulation: `TypeOK`; of every schedule `Feasible` (releases, dependencies, lags,
durations), `CapacityKept`, `ChainIsTight` (the critical chain has no gap),
`NoIdleWait` and `LowestFirst` (greedy, ties by id), `NeverStuck` (an accepted plan
can be scheduled); `CycleIsShortest` (against a reference by walks);
`PlanOfItsSet` (an accepted plan is the snapshot's but for what the set of
interventions says, against a definition that knows no order);
`OnTimeMeansOnTime` (the count of iterations on time and the reported dates
agree); `StartsAreTimely` (in calendar time, too, nothing starts before its
constraints and its lags are over; lags after scheduled tasks on every calendar as
working time since the base, and from the civil finish where no shift passes midnight);
`RelaxingNeverDelays` (with enough slots in the scenario, sample by sample).

## 4. Runs and bounds

| Run | Instance | Shows |
|---|---|---|
| store | 1 tenant, 2 clients, 2 keys, 2 hashes, a guarded and a puttable record, `MaxRef` 2; 32 thousand states | the four invariants, the refinement and `CallsEnd` |
| lifecycle | 2 events (one already approved), 3 approvals, 1 request at a time, both modes, 1 fault; 0.7 million states | the life of an event with failures, and the refinement of EventHistory |
| races | 2 events (one already approved), 2 approvals, 2 requests in flight, reality, no fault; 1.5 million states | interleavings at every await |
| retries | 1 event (already approved), 2 approvals, 2 requests in flight, later reviews as scenario, 2 faults; 0.2 million states | lost answers, replays, unwinding and reloading next to another request |
| terminal | 1 event, 2 approvals, 1 request, no fault | a finding (section 6) |
| event_audits | 1 request at a time, 3 audits, no fault | a finding |
| ai_review | 1 suggestion, 2 keys, 2 requests, 1 expiry of an abandoned claim, 1 fault; 1.3 million states | the safety properties and `RequestsEnd` |
| ai_rejected | 1 suggestion, 2 keys, 2 requests, no fault or expiry | a finding |
| ai_keys | 2 suggestions, 1 key, 2 requests, 1 expiry of an abandoned claim, 1 fault | a finding |
| agent_run | 1 run, 2 imports of 2 versions of a document, 2 requests in flight, imports one after the other, 2 suggestions, 1 expiry, 1 fault; 2 million states | the seven properties |
| agent_imports | the same with overlapping imports, no expiry, no fault | a finding |
| simulation | all graphs of 4 tasks, 4 calendars around shifts and holidays, 4 tasks of 2 teams with every mix of lags, slots and late releases, all pairs and some triples of 14 interventions, a correction of a finished task; 0.35 million states | the twelve properties |

One tenant is the unit of every lock, key and chain, so a second one adds
nothing to a run (the proofs are for any number). `MaxRef` 2 lets two requests
overlap and one of them be repeated; the four invariants and the refinement are
proved for every value, so the bound serves the liveness check and the mutants. The
same holds for the bounds of `lifecycle`, `races`, `retries`, `ai_review` and
`agent_run`, whose safety is proved for any number of faults and expiries. `MaxVer`, `MaxProj` and `MaxFaults` stop new
requests from starting; nothing in flight is cut off. They allow a review, an
approval, an apply and a rollback of one event around the apply of the other. Requests in flight are
symmetric in `races` and `retries`; in `ai_review` requests and keys are. In
`ai_review` two requests are enough for every race between store calls, and
because the number of requests one after the other has no bound, any history may
precede them. Deadlock is not checked, because at the bounds every request
has ended and none may start; in the real system there is always another request.

In `agent_run` two versions of a document share a chunk under two locators and
differ in one that the actor may not see, which is what makes rechecks and
overlaps matter. In `simulation` four tasks are enough for two teams to interleave
and for a cycle to have a shorter competitor; calendars have nights, weekends,
holidays and a day with a one-tick shift, and instants lie on all their borders;
`Guardrail` 21 is three weeks, enough for two holidays. The twelve properties are
proved for every request, so this instance is there for the model and its mutants.

Fairness (`store`) is strong for the statements that wait for a lock, since
PostgreSQL grants locks in queue order and every holder ends, and weak for the
others, since a connection executes its next statement. No client is assumed to
call, retry or hear an answer, and failures are never assumed to happen or not to.
In `ai_review` fairness is weak for each request: its thread goes on. That is
not enough if new requests keep claiming and releasing the key of a waiting one,
so `RequestsEnd` is about the time after the last call.

## 5. Proofs

For all constants that satisfy `StoreAssumption` (non-empty sets, `PutRecord`
among the records, `Nobody` not a client, `MaxRef` a natural number):

- `TypeCorrect`, `ChainCorrect` (`MutationStore_proofs`). `AuditChain` alone is
  not inductive: a commit appends after a tail read some statements earlier. The
  invariant `ChainInv` adds that a client past `AdvisoryLock` holds it
  (`LockHeld`), which statements an operation may be at (`Paths`), that a
  non-empty audit table has a row of the greatest number (`HasTail`), and that a
  tail once read is still the table's tail (`TailIsCurrent`). The last one is
  preserved because only a holder of the advisory lock adds rows
  (`Effects`, `ReadersHold`).
- `DurableCorrect`, `TransactionCorrect`, `LedgerCorrect`
  (`MutationStore_proofs`). `CommitInv` adds what a mutation knows at each
  phase: refs in use are below `nextRef` and no two live calls share one
  (`RefsAreFresh`), its key is reserved until its commit (`KeyIsReserved`), a
  record that put cannot write still has the compared version
  (`RecordIsExpected`), its position is beyond every committed one
  (`PositionsGrow`), and the idempotency table, the record versions and the
  outbox tell one story (`KeysNameEntries`, `EntriesAreKeyed`,
  `VersionsAreLedger`). Then a `Commit` of a mutation is `AddEntry`, `ExpireKey`
  is `Expire`, and every other step stutters.

For all constants that satisfy `EventAssumption` (the bounds are natural numbers;
there is an event, a key and a note, which a request at rest names), any number of
requests in flight:

- `TypeCorrect`, `ChainHolds`, `RestoresHolds`, `OneReceiptHolds`, `LegalHolds`,
  `ApprovedHolds` (`EventIntelligence_proofs`), all from one inductive invariant
  (`InvariantHolds`). A record has many copies: in a map, on disk, the object a
  handler kept when the map got another, the text it has serialised. `EventsOK`,
  `ApprovalsOK` and `RequestsOK` say of every copy that an approval granted or
  executed for reality has both roles and that an applied event was reviewed; a
  copy may be old, but none is ever wrong in itself, so that a put that compares
  nothing cannot make it so. `Prepared` is what a request's guards saw: before and
  while it commits it holds copies of its own, and the status, the payload, the
  approval and the projection that the guards compared still agree in them. The
  comparison inside the transaction (`AsExpected`) then carries this to the disk
  (`CommitFacts`): that is `LegalHolds` and `ApprovedHolds`. `ApplicationsOK` says
  that a record of an application in reality, in the map or on disk, names the
  projections of an apply that has its receipt (`Applied`), and `Undoes` that a
  rollback started from one; receipts are only added, so both last (`Grow`), and
  `RestoresHolds` follows at the commit. `Reviewed` says that no request for an
  approval is under way for an event without a review. The invariant and `ChainHolds`
  need nothing about the projection in memory but its type: it may be ahead of the
  disk, or behind, or unwound by the wrong request, and only a commit that finds it
  equal to the disk gets a receipt (`OnlyCommits`).

  `RollbackRestores` did not follow before the model kept the mode of an
  application: an applied reality event over a scenario's application record is
  excluded by no invariant of the copies, and only the guard, which compares with the
  hash of a branch, refuses its rollback.

- `HistoryHolds` (`EventIntelligence_proofs`): EventIntelligence implements
  EventHistory, with the projection and the receipts on disk as its state. Only
  `CommitMutation` changes either. It is an abstract `Apply` because the guard in the
  transaction (`AsExpected`) and the invariant (`Prepared`, `ApprovalsOK`) make the
  projection on disk the one that was reviewed, and an abstract `Rollback` because
  `Undoes` names the apply that left it; the key is free because the
  reservation in the same transaction found no receipt under it. Each other action, crash and failure stutters,
  whatever it does to the maps.

For all constants, without an assumption:

- `TypeCorrect`, `NotRefused` (`EventAudit_proofs`). The records on disk are always
  the beginnings of one sequence (`OneChain`, kept because a commit extends the
  tail). A list that was read is the beginnings of one, too, and a shorter or older
  one at worst: the assessment of such a list finds no issue if every audit in it
  is the event service's own (`Paths`, `CanonicalBeginning`, `NoIssues`), and a cut
  leaves a beginning. So the chain in memory has no issue but being empty
  (`Healthy`); and it is not empty once there is an event, because an event comes
  after an audit that is on disk, a refresh after it reads at least that one, and a
  request that cuts has found one before its own (`RequestInv`). A bounded instance
  (2 requests, 4 audits, 2 faults, 0.4 million states) agrees.

For all constants that satisfy `ReviewAssumption` (the bounds are natural numbers):

- `AnswersCorrect`, `RememberedCorrect`, `LearningCorrect`, `ImmutableCorrect`
  (`AiReview_proofs`). `ReviewInv` adds what a request knows at each store call
  (`RequestsKnow`: before the review of an approval is inserted its memory is
  there, before learning memory is written an approval was read) and that a
  complete claim holds a request that has taken effect (`ClaimsAreEffective`).
  The knowledge lasts because reviews and memory only grow (`Growth`,
  `EffectLasts`, `KnowledgeLasts`). Nothing is assumed about claims: the results
  hold although takeovers break their exclusiveness.

- `TypeCorrect` (`AiReview_proofs`).

For all constants that satisfy `RunAssumption` (the shape of requests; chunks of one
id are of one document, finitely many per import):

- `TypeCorrect`, `CitesHolds`, `BoundHolds`, `AuditedHolds`, `CacheHolds`,
  `AgreeHolds`, and `KeptHolds` if `Serial` (`AgentRun_proofs`). `RunInv` says what
  a request knows at each call (`Knows`: what it has rechecked is in `current`,
  what it has bound, stored or audited is there); it lasts because records and
  history only grow (`RecordsLast`, `KnowledgeLasts`). `ClaimInv` adds that without
  an expiry a claim has one holder and an answer is a complete claim (`OneHolder`,
  `ClaimsAreOwn`, `AnswersAreClaims`). `KeptInv` adds that the one import in flight
  has put all its chunks before it removes others (`OneImport`, `Progress`), and
  that every answered import is kept whole or superseded by one that is.

For all constants that satisfy `ScheduleAssumption` (finitely many tasks), every
prepared plan and any durations:

- `TypeCorrect`, `FeasibleHolds`, `CapacityHolds`, `ChainHolds`, `NoIdleHolds`,
  `LowestHolds`, `NeverStuckHolds` (`ListSchedule_proofs`). `ScheduleInv` adds to the
  types that the tasks of a slot follow one another and the slot is free when the
  last one ends (`SlotInv`), and that slots never become free earlier and no
  placement starts before an earlier one (`WaitInv`), which is what makes a greedy
  choice stay right. `NeverStuckHolds` uses that a plan is acyclic, which
  Simulation establishes (below).

For all constants, every snapshot that its types admit and every list of
interventions:

- `CompileInvariant`, `PlanOfItsSetHolds`, `OnePlan`, `PlanTyped`, `NoDanglingEdge`
  (`ScenarioPlan_proofs`). `PlanOfItsSet` is about the end of the loop; the
  invariant says the same of every turn, about the interventions `Done` so far. It
  is kept because no two that are applied change one attribute (`NewTarget`, from
  the key of `seen_operations` and the rule that removed scope is alone), so that
  each adds its own change (`TaskStep`, `EdgesStep`, `TeamsStep`). The one exception
  is a task that is marked as completed and also given a duration: these targets
  differ, the later one wins, and the order would matter. `TaskSoFar` therefore says
  nothing of the duration of a completed task; in the end validation refuses a
  completed task with a duration (`Consistent`), which is what `PlanOfItsSetHolds`
  needs it for. `OnePlan` adds that the set determines the plan. `NoDanglingEdge`
  shows that two of the refusals of `_validate_plan`, of an unknown endpoint and of
  a self-edge, never meet a scenario.

For all constants that satisfy `ScheduleAssumption`, `CalendarAssumption` and
`RequestAssumption` (every snapshot, scenario and calendar that the types admit), and
every choice of samples, the twelve properties of Simulation, from one inductive
invariant (`SimInvHolds`, `Simulation_proofs`), `PlansInv /\ SchedulesInv`:

- `CycleIsShortestHolds`. `SearchInv` (`ScenarioPlan_proofs`) says that the queue is
  sorted by length and spans two lengths at most (`QueueInv`), that each successor of
  a node that has been reached is accounted for by a path in the queue, by an earlier
  visit, or by a best cycle that is as short (`Frontier`), and that no closed walk
  through a node whose turn is over is shorter than the best cycle (`Covered`). A
  closed walk from the origin shorter than the best one is followed node by node
  (`FrontierCovers`): pruning by the best cycle of another origin never hides it.
- `ValidationDecides`: Kahn's loop visits all tasks exactly if there is no cycle.
  `OrderInv` counts predecessors that are not visited; when none is ready, those that
  are left each wait for another of them. `ScheduledIsValidated` carries that to the
  schedules, and `EveryScheduleHolds` needs it for `NeverStuck`: what the scheduler is
  handed satisfies all that ListSchedule assumes of a plan (`PreparedFacts`), so that
  its theorems hold inside a request as well. `SimPlanOfItsSet` and `SimTypeCorrect`
  are of the same invariant.
- `OnTimeHolds`, `StartsAreTimelyHolds`. The loops of the calendar are shown to end,
  with a rank that falls (`RankFalls`, from `WorkingDayWithin`: among as many weeks as
  there are holidays and one more, some working weekday is no holiday), so that the
  recursive functions are what their turns say (`LoopEnds`, `AfterUnfolds`,
  `UntilUnfolds`). Adding and counting work are then adjoint (`WorkFits`,
  `WorkFitsBetween`): work fits before an instant exactly if it is not more than the
  working time until then. Encoding keeps the order of civil instants and decoding
  gives it back (`EncodeInOrder`, `DecodeInOrder`, `EncodeOfSchedule`), for instants
  of a schedule, whose phase lies in the gap after their work (`InCalendar`, part of
  the invariant).
- `RelaxingHolds`. Both schedules are on the same samples, so a relaxed plan has no
  more of each day, lag and release (`PlanIsRelaxed`, `RelaxedDays`,
  `RelaxedRelease`, `DoneNoLater`), and with a slot for every task one starts when it is
  ready (`NoWaiting`). If tasks finished later than in the baseline, one of them would
  have no predecessor among them, because the plan has no cycle, and would start no
  later (`TaskNoLater`). The invariant remembers of the baseline's schedule what this
  compares with (`Kept`).

Two properties were false as first stated, on cases that no instance had, and were
found by these proofs. `StartsAreTimely` claimed that a lag is respected for shifts that
pass midnight: the hours of such a shift after midnight belong to the day before it, so
`add_workdays` counts them when work runs into them, and not when it begins there
(`normalize` looks at the local date). For lags after scheduled tasks on such calendars
it now claims only that they are over as working time since the base of the run
(`LagFromBase`), and the full claim where no shift passes midnight (`LagAfterPlaced`).
`RelaxingNeverDelays` took every
`completed` for a relaxation: one that corrects the finish of a finished task to a later
date delays what follows it with a lag. It now counts corrections to an earlier date
only, and the run has both.

The invariants were checked with TLC on a small instance before they were proved. Of
`SimInv` TLC can evaluate `OrderInv`, `DoneKept` and, with closed walks of up to five
steps, `SearchInv`; they hold on the instance of `simulation`. The rest quantifies over
infinite sets, and there TLC checks what follows from it.

Model-checked only: `CallsEnd` and `RequestsEnd` (liveness under fairness is out of
the prover's reach). Every safety invariant, action property and refinement of the
passing runs is proved.

## 6. Findings

`terminal`: `decideApproval` looks at the approval's status and never at the
event's. Review an event as reality and request approval a1 (two humans,
pending); review it again as scenario, request a2 (approved by policy) and apply
it; now deny a1. The denial sets the applied event to `reviewed`, in the map and
by an unconditional put on disk, and the event can be reviewed and applied a
second time. The service itself says that an applied status is terminal
(`event-intelligence.service.ts:504-509`), and its test does
(`event-intelligence.e2e-spec.ts:283`). No fault and no concurrency are needed.
The receipts stay a correct history of the projection all the same:
`ReceiptChain` and `AppliedAsApproved` hold in the runs that contain this
behaviour.

`event_audits`: all services of a tenant commit their audits to one chain and as
records of one kind, `event_audit_evidence` (`database.service.ts:418`); the twin
graph, twin events, the integration registry, prediction and simulation write their
`aggregateType` into `resource_type`. The event service lists all of them and takes
every `resource_type` but its own four for an invalid record
(`event-intelligence.service.ts:2202`). After one write of another service, the next
refresh or restart finds `invalid_records`, and every audited request of the event
service is answered 503 `audit_chain_unhealthy` from then on, although the chain on
disk is complete. An apply or rollback refused that way has already moved the
projection (`ApplyRefusedByAudit` in EventIntelligence). The tests run on the
in-memory profile, where `refreshAuthoritativeAudits` returns at once. Interpret,
then commit one mutation of another service, then audit once more: three steps, no
fault. While the event service is alone on its chain no interleaving or failure has
this effect (`NotRefused`, proved).

`ai_rejected`: `_review` persists the memory of an approval before it inserts the
review (`gateway.py:1222`). A rejection inserted in between wins; the approval is
answered with a conflict, and its memory stays and is offered to later prompts by
`validated_context`. The same happens one request after the other if the approval
fails between the two steps and the person then rejects; the repository's test
repeats the approval instead (`test_ai_gateway.py:667`). `docs/AI_ARCHITECTURE.md:47`:
"Approval additionally persists validated enterprise memory; rejection does not."

`ai_keys`: an old claim is read and deleted in two transactions
(`gateway.py:226-251`). Of two retries that both read it, the second deletes the
record the first has completed, and a request with another body finds the key
free. `apps/ai-worker/AI_SECURITY.md:32`: "Reuse with a different body returns
`409`."

`agent_imports`: an import puts its chunks and then deletes all others of the
document that it lists (`rag.py:228-241`). Two imports of one document with
different contents, in flight together, both put their chunks and then delete each
other's; both are answered with a success and no version is whole. The comment says
"so a failed import cannot erase the previous source": with imports one after the
other it cannot (`SourceIsKept` in `agent_run`, proved), with overlapping ones a
successful import can.

Smaller differences between documents and code, without a run:

- Chapter 08, line 271: "A task is critical when total slack is no more than `1e-9`
  workdays." The code has no backward pass: it counts the governing parents of one
  last task (`simulation.py:578-584`). Of two chains that end together one counts.
- Chapter 08, line 383: "Increasing aggregate parallel capacity cannot delay a
  fixture". List scheduling has anomalies (line 382 speaks of them), which is why
  `RelaxingNeverDelays` asks for enough slots.
- Chapter 08, lines 248 and 344: an empty project completes at `as_of`. The code
  takes the later of `as_of` and the project's start, moved into working time
  (`simulation.py:437`), and so does its test (`test_simulation.py:113`).
- Chapter 08, line 156: `mark_task_completed` requires `project_start <=
  actual_finish <= as_of`. The code compares with `as_of` only.
- Chapter 08, lines 213 and 217: "a changed distribution uses the same underlying
  uniform value." The code seeds a task's stream with the shape of its distribution,
  too (`simulation.py:406-414`), so that a `set_duration_estimate` which changes the
  shape draws anew, and one that shortens every duration may delay the project in a
  sample. This is why `RelaxingNeverDelays` leaves `set_duration_estimate` out.
- `docs/AI_ARCHITECTURE.md:149`: an agent run moves through `running` to `succeeded`
  or `failed`. `run_agent` releases its claim before it puts the failed activity
  (`gateway.py:711-726`): a retry may have succeeded by then, and the activity under
  the same id goes from `succeeded` to `failed`. AgentRun contains it (`Report`).

What the checks also taught: in one process the projection comparison of the
guard carries `ReceiptChain`; the event comparison carries `LegalOnDisk`, against
puts of other handlers that land late.

## 7. Not modelled

Parts with state of their own that a further development would take in this order:

1. Prediction and simulation records: `recordOutcome`, `validateOutcome` and the
   derived outbox ids.
2. Twin graph, twin events, integration registry: the cached state, its reload in
   several transactions and the metadata claim, with two replicas.
3. Remediation and asset control: one execution per grant and per preview.
4. Sync worker: convergence of a re-run, and outbox order next to the API.
5. Event intelligence with two replicas, `interpret`, the timeline and branches.

Within the modelled parts: what the event service shows of its audit chain (an apply
whose unwinding throws leaves its audit in the list until the next refresh, and a
slow refresh may show an older list for a moment); the in-memory profile of the
store (no `DATABASE_URL`); the worker's rate limiter, its limit of 10000 reviews in
one listing (`gateway.py:1018`) and of `max_candidates` chunks in one listing of an
import; session memory and validated memories as evidence of a run; the statistics
of a forecast.

Left out for good: the web client, request validation and proxies, parsing,
embeddings and provider adapters (text processing and external calls), the scoring
formulas of `decision_engines.py` and `business_intelligence.py` (closed
floating-point expressions over one request), deployment files, validation scripts
and vendored code (`get-pip.py`, two thirds of the repository's Python lines).
