---------------------------- MODULE Compilation ----------------------------
(***************************************************************************)
(* _build_plan (apps/ai-worker/src/edt_ai_worker/simulation.py): the plan  *)
(* of a snapshot, and the loop that applies the interventions of a         *)
(* confirmed scenario to it, one after the other in the order of the       *)
(* scenario, each to the plan that the earlier ones have left.             *)
(***************************************************************************)
EXTENDS Interventions

VARIABLES
    request,   \* [snap, scenario]
    baseline,  \* the plan of the snapshot
    primary,   \* the plan as the loop has left it
    at         \* the number of the intervention that comes next

compileVars == <<request, baseline, primary, at>>

snap == request.snap
ops == request.scenario.ops   \* empty: a request without a scenario

(* What the types of models.py guarantee of a request.                     *)
WellFormed(r) ==
    /\ r.snap.tasks \in [DOMAIN r.snap.tasks -> PlanTask] /\ DOMAIN r.snap.tasks \subseteq Nat
    /\ r.snap.deps \subseteq PlanEdge
    /\ r.snap.teams \in [DOMAIN r.snap.teams -> PlanTeam]
    /\ r.scenario.ops \in Seq(Intervention)

BeginCompile ==
    /\ baseline' = Baseline(snap)
    /\ primary' = Baseline(snap)
    /\ at' = 1
    /\ UNCHANGED request

CompileInit ==
    /\ WellFormed(request)
    /\ baseline = Baseline(snap)
    /\ primary = Baseline(snap)
    /\ at = 1

MayIntervene ==
    /\ ScopeIsAlone(ops)
    /\ Target(ops[at]) \notin {Target(ops[i]) : i \in 1..(at - 1)}
    /\ Applicable(primary, snap.asOf, ops[at])

Intervene ==
    /\ at <= Len(ops)
    /\ MayIntervene
    /\ primary' = Applied(primary, ops[at])
    /\ at' = at + 1
    /\ UNCHANGED <<request, baseline>>

CompileSpec == CompileInit /\ [][Intervene]_compileVars

Compiled == at = Len(ops) + 1

-----------------------------------------------------------------------------
(* What a plan is if nothing but the interventions of a set have changed   *)
(* it, in whatever order: every attribute is the baseline's, or what the   *)
(* intervention of the set that names it says.                             *)

ForTask(D, t) == {o \in D : o.kind \in TaskKinds /\ o.task = t}
Of(D, kinds) == {o \in D : o.kind \in kinds}

DurationReflects(was, D, task) ==
    /\ Of(D, {"completed"}) # {} => task.lo = 0 /\ task.hi = 0
    /\ Of(D, {"completed"}) = {} =>
          /\ \A o \in Of(D, {"duration"}) : task.lo = o.lo /\ task.hi = o.hi
          /\ \A o \in Of(D, {"shift"}) : task.lo = was.lo + o.delta /\ task.hi = was.hi + o.delta
          /\ Of(D, {"duration", "shift"}) = {} => task.lo = was.lo /\ task.hi = was.hi

AttributesReflect(was, D, task) ==
    /\ task.team = was.team
    /\ \A o \in Of(D, {"completed"}) : task.state = "completed" /\ task.finish = o.finish
    /\ Of(D, {"completed"}) = {} => task.state = was.state /\ task.finish = was.finish
    /\ \A o \in Of(D, {"duration"}) : task.shape = o.shape
    /\ Of(D, {"duration"}) = {} => task.shape = was.shape
    /\ \A o \in Of(D, {"earliest"}) : task.earliest = o.at
    /\ Of(D, {"earliest"}) = {} => task.earliest = was.earliest
    /\ \A o \in Of(D, {"blocker"}) : task.until = o.until
    /\ Of(D, {"blocker"}) = {} => task.until = was.until

Removed(D) == {o.task : o \in Of(D, {"scope"})}

TasksReflect(was, D, tasks) ==
    /\ DOMAIN tasks = DOMAIN was \ Removed(D)
    /\ \A t \in DOMAIN tasks : /\ DurationReflects(was[t], ForTask(D, t), tasks[t])
                               /\ AttributesReflect(was[t], ForTask(D, t), tasks[t])

EdgesReflect(was, D, edges) ==
    LET named == {Pair(o) : o \in Of(D, {"add", "remove"})}
        added == {Added(o) : o \in Of(D, {"add"})}
    IN  edges = {e \in {d \in was : Pair(d) \notin named} \cup added :
                    e.from \notin Removed(D) /\ e.to \notin Removed(D)}

TeamsReflect(was, D, teams) ==
    LET changing(g) == {o \in Of(D, {"capacity"}) : o.team = g}
    IN  /\ DOMAIN teams = DOMAIN was
        /\ \A g \in DOMAIN teams :
              /\ teams[g].slowdown = was[g].slowdown
              /\ \A o \in changing(g) : teams[g].capacity = was[g].capacity + o.delta
              /\ changing(g) = {} => teams[g].capacity = was[g].capacity

Reflects(was, D, plan) ==
    /\ TasksReflect(was.tasks, D, plan.tasks)
    /\ EdgesReflect(was.edges, D, plan.edges)
    /\ TeamsReflect(was.teams, D, plan.teams)

(* The plan of a scenario is made by the set of its interventions: it is   *)
(* accepted as the same plan in every order in which it is accepted,       *)
(* although the conditions are read off a plan that has been changed.      *)
PlanOfItsSet ==
    Compiled /\ Consistent(primary) => Reflects(baseline, {ops[i] : i \in DOMAIN ops}, primary)

=============================================================================
