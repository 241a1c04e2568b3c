----------------------------- MODULE Simulation -----------------------------
(***************************************************************************)
(* A simulation request of the AI worker (apps/ai-worker/src/              *)
(* edt_ai_worker/simulation.py, run_simulation): the snapshot is validated,*)
(* the baseline and the scenario are compiled into plans, and both are     *)
(* scheduled with common random numbers over working time.  It composes    *)
(* ScenarioPlan with PlanGraph, Compilation, WorkingCalendar and           *)
(* ListSchedule.                                                           *)
(*                                                                         *)
(* One iteration stands for the sample_count of the code, which do not     *)
(* influence each other; what is computed over all of them (quantiles,     *)
(* counts, correlations) is left out.                                      *)
(***************************************************************************)
EXTENDS ListSchedule, WorkingCalendar, ScenarioPlan, Compilation

CONSTANT Request   \* the requests that may arrive: [snap, scenario]

(* What models.py guarantees of a request; civil time is counted from a    *)
(* Monday before it.                                                       *)
ASSUME RequestAssumption ==
    \A r \in Request :
        /\ WellFormed(r)
        /\ DOMAIN r.snap.tasks \subseteq Task /\ DOMAIN r.snap.teams \subseteq Team
        /\ \A t \in DOMAIN r.snap.tasks : WellTyped(r.snap.tasks[t])
        /\ \A g \in DOMAIN r.snap.teams : r.snap.teams[g].capacity > 0
        /\ IsFiniteSet(r.snap.deps)
        /\ r.snap.asOf \in Nat /\ r.snap.start \in Nat /\ r.snap.cal \in Calendar
        /\ r.snap.target \in Int /\ r.scenario.target \in Int

VARIABLES
    phase,     \* see Phases
    unit,      \* [stream -> sample between 0 and 1]: the sample cache
    before     \* the finish of the baseline

iteration == <<unit, before, vars>>
simVars == <<compileVars, graphVars, phase, iteration>>

Phases == {"received", "searching", "validating", "compiling", "revalidating",
           "planned", "baseline", "scenario", "done", "refused"}

cal == snap.cal

LastOf(S) == CHOOSE x \in S : \A y \in S : y <= x

NoPlan == [tasks |-> <<>>, edges |-> {}, teams |-> <<>>, target |-> None]
NoSchedule == [team |-> <<>>, release |-> <<>>, days |-> <<>>, done |-> <<>>,
               edges |-> {}, capacity |-> <<>>]

Open(plan) == {t \in DOMAIN plan.tasks : plan.tasks[t].state = "open"}

-----------------------------------------------------------------------------
(* Common random numbers.                                                  *)

(* Mutant: a stream for every distribution, not for every shape. *)
StreamByBounds(plan, t) == <<t, plan.tasks[t].shape, plan.tasks[t].lo>>

(* The key of the sample cache.                                            *)
Stream(plan, t) == <<t, plan.tasks[t].shape>>

(* _warm_sample_cache: only distributions that have a width draw samples.  *)
Streams(plan) ==
    {Stream(plan, t) : t \in {u \in Open(plan) : plan.tasks[u].lo < plan.tasks[u].hi}}

(* _sample_duration over the team's availability (a slowdown, its inverse).*)
Days(plan, samples, t) ==
    LET task == plan.tasks[t]
        sampled == IF task.lo = task.hi THEN task.lo
                   ELSE task.lo + (task.hi - task.lo) * samples[Stream(plan, t)]
    IN  sampled * plan.teams[task.team].slowdown

-----------------------------------------------------------------------------
(* _prepare_schedule.                                                      *)

Base == Normalize(cal, LastOf({snap.asOf, snap.start}))

(* Mutant: a blocker does not hold a task back. *)
ConstraintsWithoutBlocker(task) == ({snap.asOf, snap.start, task.earliest}) \ {None}

Constraints(task) == {snap.asOf, snap.start, task.earliest, task.until} \ {None}

(* Mutant: dependencies of completed tasks are scheduled, too. *)
SchedulingAll(plan) == {e \in plan.edges : plan.tasks[e.from].state # "cancelled"}

(* The dependencies of unfinished tasks.                                   *)
Scheduling(plan) ==
    {e \in plan.edges : e.to \in Open(plan) /\ plan.tasks[e.from].state # "cancelled"}

Prepared(plan, samples) ==
    LET active == Open(plan)
        T == plan.tasks
    IN  [team |-> [t \in active |-> T[t].team],
         release |-> [t \in active |->
             Encode(cal, Base, Normalize(cal, LastOf(Constraints(T[t]))), TRUE)],
         days |-> [t \in active |-> Days(plan, samples, t)],
         done |-> [t \in {u \in DOMAIN T : T[u].state = "completed"} |->
             Encode(cal, Base, T[t].finish, FALSE)],
         edges |-> Scheduling(plan),
         capacity |-> [g \in DOMAIN plan.teams |-> plan.teams[g].capacity]]

Schedule(p) ==
    /\ prep' = p
    /\ start' = Begin(prep').start
    /\ finish' = Begin(prep').finish
    /\ slots' = Begin(prep').slots
    /\ place' = Begin(prep').place
    /\ parent' = Begin(prep').parent

-----------------------------------------------------------------------------
SimInit ==
    /\ request \in Request
    /\ phase = "received"
    /\ baseline = NoPlan /\ primary = NoPlan /\ at = 0
    /\ graph = [nodes |-> {}, pairs |-> {}]
    /\ origins = {} /\ origin = Nowhere /\ queue = <<>> /\ depth = <<>> /\ best = <<>>
    /\ indegree = <<>> /\ ready = {} /\ visited = 0
    /\ unit = <<>>
    /\ before = Zero
    /\ prep = NoSchedule
    /\ start = <<>> /\ finish = <<>> /\ slots = <<>> /\ place = <<>> /\ parent = <<>>

Refuse ==
    /\ phase' = "refused"
    /\ UNCHANGED <<compileVars, graphVars>>

(* parse_snapshot.                                                         *)
Receive ==
    /\ phase = "received"
    /\ IF SnapshotConsistent(snap)
       THEN /\ BeginSearch(GraphOf(snap.tasks, snap.deps))
            /\ phase' = "searching"
            /\ UNCHANGED compileVars
       ELSE Refuse
    /\ UNCHANGED iteration

SearchNext ==
    /\ phase = "searching"
    /\ Search
    /\ UNCHANGED <<compileVars, phase, iteration>>

(* The first call of _build_plan begins.                                   *)
EndSearch ==
    /\ phase = "searching" /\ Searched
    /\ IF best = <<>> /\ Consistent(Baseline(snap))
       THEN /\ BeginCompile
            /\ BeginOrder(GraphOf(Baseline(snap).tasks, Baseline(snap).edges))
            /\ phase' = "validating"
       ELSE Refuse
    /\ UNCHANGED iteration

(* _validate_plan, of the baseline and of the scenario.                    *)
OrderNext ==
    /\ phase \in {"validating", "revalidating"}
    /\ Visit
    /\ UNCHANGED <<compileVars, phase, iteration>>

EndValidate ==
    /\ phase = "validating" /\ Visited
    /\ IF Ordered
       THEN /\ phase' = IF ops = <<>> THEN "planned" ELSE "compiling"
            /\ UNCHANGED <<compileVars, graphVars>>
       ELSE Refuse
    /\ UNCHANGED iteration

(* The second call, one intervention at a time.                            *)
InterveneNext ==
    /\ phase = "compiling"
    /\ Intervene
    /\ UNCHANGED <<graphVars, phase, iteration>>

EndCompile ==
    /\ phase = "compiling"
    /\ Compiled /\ Consistent(primary)
    /\ BeginOrder(GraphOf(primary.tasks, primary.edges))
    /\ phase' = "revalidating"
    /\ UNCHANGED <<compileVars, iteration>>

RefuseScenario ==
    /\ phase = "compiling"
    /\ IF Compiled THEN ~Consistent(primary) ELSE ~MayIntervene
    /\ Refuse
    /\ UNCHANGED iteration

EndRevalidate ==
    /\ phase = "revalidating" /\ Visited
    /\ IF Ordered
       THEN /\ primary' = [primary EXCEPT !.target = request.scenario.target]
            /\ phase' = "planned"
            /\ UNCHANGED <<request, baseline, at, graphVars>>
       ELSE Refuse
    /\ UNCHANGED iteration

(* An iteration of the baseline begins.                                    *)
Sample ==
    /\ phase = "planned"
    /\ unit' \in [Streams(baseline) \cup Streams(primary) -> {0, 1}]
    /\ Schedule(Prepared(baseline, unit'))
    /\ phase' = "baseline"
    /\ UNCHANGED <<compileVars, graphVars, before>>

PlaceNext ==
    /\ phase \in {"baseline", "scenario"}
    /\ Next
    /\ UNCHANGED <<compileVars, graphVars, phase, unit, before>>

(* The iteration of the scenario follows, on the same samples.             *)
EndBaseline ==
    /\ phase = "baseline" /\ Unscheduled = {}
    /\ before' = ProjectFinish
    /\ unit' = unit
    /\ IF ops = <<>> THEN phase' = "done" /\ UNCHANGED vars
       ELSE phase' = "scenario" /\ Schedule(Prepared(primary, unit))
    /\ UNCHANGED <<compileVars, graphVars>>

EndScenario ==
    /\ phase = "scenario" /\ Unscheduled = {}
    /\ phase' = "done"
    /\ UNCHANGED <<compileVars, graphVars, iteration>>

SimNext ==
    \/ Receive \/ SearchNext \/ EndSearch \/ OrderNext \/ EndValidate
    \/ InterveneNext \/ EndCompile \/ RefuseScenario \/ EndRevalidate
    \/ Sample \/ PlaceNext \/ EndBaseline \/ EndScenario

SimSpec == SimInit /\ [][SimNext]_simVars

(* What is reported of the iteration: whether it is on time, and its date. *)
OnTime ==
    Later(Encode(cal, Base, TargetCutoff(primary.target), FALSE), ProjectFinish)

FinishDate == LocalDate(Decode(cal, Base, ProjectFinish))

-----------------------------------------------------------------------------
(* Properties.                                                             *)

TypeOK ==
    /\ \A t \in DOMAIN snap.tasks : WellTyped(snap.tasks[t])
    /\ phase \in Phases
    /\ ScheduleTypeOK
    /\ before \in Instant

(* What the search of a snapshot for cycles ends with.                     *)
CycleIsShortest == phase = "searching" => ShortestCycle

(* The iteration counts as on time exactly when the date that is reported  *)
(* for it is not after the target.                                         *)
OnTimeMeansOnTime ==
    phase = "done" /\ primary.target # None => (OnTime <=> FinishDate <= primary.target)

(* The civil time from which a task, or a successor of it, may proceed.    *)
Civil(a) == Normalize(cal, Decode(cal, Base, a))

(* In civil time, too, a task starts no earlier than its constraints and   *)
(* than the lag after a finished predecessor's actual finish.  The lag     *)
(* after a placed predecessor is over in the working time since the base;  *)
(* added to the civil instant of its finish, it is over where no shift     *)
(* passes midnight: what is left of one after midnight is working time for *)
(* what began before, and not for what begins in it.                       *)
EndsBeforeMidnight == cal.opens + cal.shift <= DayTicks

StartsAreTimely ==
    phase = "done" =>
        \A t \in Placed :
            LET task == primary.tasks[t]
            IN  /\ \A c \in {snap.asOf, snap.start, task.earliest, task.until} :
                      c <= Civil(start[t])
                /\ \A e \in primary.edges :
                      e.to = t /\ (e.from \in Placed => e.lag = 0 \/ EndsBeforeMidnight) =>
                        AddWork(cal, IF e.from \in Placed
                                     THEN Decode(cal, Base, finish[e.from])
                                     ELSE primary.tasks[e.from].finish, e.lag)
                            <= Civil(start[t])
                /\ \A e \in primary.edges :
                      e.to = t /\ e.from \in Placed =>
                        AddWork(cal, Base, finish[e.from].work + e.lag) <= Civil(start[t])

(* Interventions that take work, order or restrictions away: for a task    *)
(* that has finished, "completed" only corrects the date of its finish.    *)
Relaxing(op) ==
    \/ op.kind \in {"remove", "scope"}
    \/ /\ op.kind = "completed"
       /\ \/ snap.tasks[op.task].state # "completed"
          \/ op.finish <= snap.tasks[op.task].finish
    \/ op.kind = "shift" /\ op.delta <= 0
    \/ op.kind = "capacity" /\ op.delta >= 0
    \/ op.kind = "earliest" /\ op.at <= snap.tasks[op.task].earliest
    \/ op.kind = "blocker" /\ op.until <= snap.tasks[op.task].until

Unconstrained(plan) ==
    \A g \in DOMAIN plan.teams : plan.teams[g].capacity >= Cardinality(Open(plan))

(* Where the scenario leaves no team short of slots, one that only relaxes *)
(* the project finishes no later than the baseline, sample by sample.      *)
RelaxingNeverDelays ==
    phase = "done" /\ ops # <<>> /\ Unconstrained(primary)
        /\ (\A i \in DOMAIN ops : Relaxing(ops[i]))
        => NotLater(ProjectFinish, before)

=============================================================================
