--------------------------- MODULE Interventions ---------------------------
(***************************************************************************)
(* Execution plans and what each intervention of a confirmed scenario does *)
(* to one (apps/ai-worker/src/edt_ai_worker: models.py, _build_plan and    *)
(* _validate_plan in simulation.py).  Ids of tasks are numbers, in the     *)
(* order of their bytes; durations and lags are ticks of working time.     *)
(* Of the distribution of a duration a task keeps the bounds lo and hi and *)
(* the shape between them, which is all that the most likely value adds;   *)
(* "open" stands for the three states that are scheduled.                  *)
(***************************************************************************)
EXTENDS Integers, Sequences

CONSTANTS MaxDays, MaxCapacity   \* largest duration, and slots of a team

None == -1

PlanTask == [state: {"open", "completed", "cancelled"}, team: STRING,
             lo: Int, hi: Int, shape: Nat, earliest: Int, until: Int, finish: Int]
PlanEdge == [from: Nat, to: Nat, lag: Nat]
PlanTeam == [capacity: Int, slowdown: Nat]

ExecutionPlan(p) ==
    /\ p = [tasks |-> p.tasks, edges |-> p.edges, teams |-> p.teams, target |-> p.target]
    /\ DOMAIN p.tasks \subseteq Nat /\ p.tasks \in [DOMAIN p.tasks -> PlanTask]
    /\ p.edges \subseteq PlanEdge
    /\ p.teams \in [DOMAIN p.teams -> PlanTeam]

(* What the types of models.py guarantee of a task.                        *)
WellTyped(task) ==
    /\ task \in PlanTask
    /\ 0 <= task.lo /\ task.lo <= task.hi
    /\ task.state = "completed" <=> task.finish # None
    /\ task.state # "open" => task.hi = 0

Pair(d) == <<d.from, d.to>>

(* Of dependencies of one pair the greatest lag is kept.                   *)
GreatestLags(deps) ==
    {d \in deps : \A e \in deps : Pair(e) = Pair(d) => e.lag <= d.lag}

Baseline(snapshot) ==
    [tasks |-> snapshot.tasks, edges |-> GreatestLags(snapshot.deps),
     teams |-> snapshot.teams, target |-> snapshot.target]

-----------------------------------------------------------------------------
(* Interventions: of a task's own attributes, of dependencies, of scope and*)
(* of a team.                                                              *)
OnTask ==
    [kind: {"duration"}, task: Nat, lo: Nat, hi: Nat, shape: Nat]
        \cup [kind: {"shift"}, task: Nat, delta: Int]
        \cup [kind: {"earliest"}, task: Nat, at: Int]
        \cup [kind: {"blocker"}, task: Nat, until: Int]
        \cup [kind: {"completed"}, task: Nat, finish: Int]
OnEdge ==
    [kind: {"add"}, from: Nat, to: Nat, lag: Nat]
        \cup [kind: {"remove"}, from: Nat, to: Nat]
OnScope == [kind: {"scope"}, task: Nat]
OnTeam == [kind: {"capacity"}, team: STRING, delta: Int]

Intervention == OnTask \cup OnEdge \cup OnScope \cup OnTeam

TaskKinds == {"duration", "shift", "earliest", "blocker", "completed"}
OfTask(op) == op.kind \in TaskKinds \cup {"scope"}

(* Mutant: setting and shifting a duration are different targets. *)
TargetByKind(op) ==
    CASE op.kind \in {"add", "remove"} -> <<"dependency", op.from, op.to>>
      [] op.kind = "capacity" -> <<"capacity", op.team>>
      [] OTHER -> <<op.kind, op.task>>

(* What an intervention changes: no two of a scenario may share it.        *)
Target(op) ==
    CASE op.kind \in {"duration", "shift"} -> <<"duration", op.task>>
      [] op.kind \in {"add", "remove"} -> <<"dependency", op.from, op.to>>
      [] op.kind = "capacity" -> <<"capacity", op.team>>
      [] OTHER -> <<op.kind, op.task>>

(* Removed scope takes no other intervention.                              *)
ScopeIsAlone(ops) ==
    \A i, j \in DOMAIN ops :
        i # j /\ ops[i].kind = "scope" /\ OfTask(ops[j]) => ops[j].task # ops[i].task

(* The conditions on an intervention, in the plan as it is by then.        *)
Applicable(plan, asOf, op) ==
    /\ OfTask(op) => op.task \in DOMAIN plan.tasks
    /\ op.kind = "shift" => /\ plan.tasks[op.task].lo + op.delta >= 0
                            /\ plan.tasks[op.task].hi + op.delta <= MaxDays
    /\ op.kind = "add" => {op.from, op.to} \subseteq DOMAIN plan.tasks /\ op.from # op.to
    /\ op.kind = "capacity" => /\ op.team \in DOMAIN plan.teams
                               /\ plan.teams[op.team].capacity + op.delta \in 1..MaxCapacity
    /\ op.kind = "completed" => op.finish <= asOf

TaskAfter(task, op) ==
    CASE op.kind = "duration" ->
            [task EXCEPT !.lo = op.lo, !.hi = op.hi, !.shape = op.shape]
      [] op.kind = "shift" ->
            [task EXCEPT !.lo = task.lo + op.delta, !.hi = task.hi + op.delta]
      [] op.kind = "earliest" -> [task EXCEPT !.earliest = op.at]
      [] op.kind = "blocker" -> [task EXCEPT !.until = op.until]
      [] op.kind = "completed" ->
            [task EXCEPT !.state = "completed", !.lo = 0, !.hi = 0, !.finish = op.finish]

TasksAfter(tasks, op) ==
    CASE op.kind \in TaskKinds -> [tasks EXCEPT ![op.task] = TaskAfter(tasks[op.task], op)]
      [] op.kind = "scope" -> [t \in DOMAIN tasks \ {op.task} |-> tasks[t]]
      [] OTHER -> tasks

Added(op) == [from |-> op.from, to |-> op.to, lag |-> op.lag]

EdgesAfter(edges, op) ==
    CASE op.kind = "add" -> {e \in edges : Pair(e) # Pair(op)} \cup {Added(op)}
      [] op.kind = "remove" -> {e \in edges : Pair(e) # Pair(op)}
      [] op.kind = "scope" -> {e \in edges : op.task \notin {e.from, e.to}}
      [] OTHER -> edges

TeamsAfter(teams, op) ==
    IF op.kind = "capacity"
    THEN [teams EXCEPT ![op.team] =
             [teams[op.team] EXCEPT !.capacity = teams[op.team].capacity + op.delta]]
    ELSE teams

Applied(plan, op) ==
    [tasks |-> TasksAfter(plan.tasks, op), edges |-> EdgesAfter(plan.edges, op),
     teams |-> TeamsAfter(plan.teams, op), target |-> plan.target]

(* The conditions of _validate_plan other than that there is no cycle.     *)
Consistent(plan) ==
    LET T == DOMAIN plan.tasks
        tasks == plan.tasks
    IN  /\ \A e \in plan.edges :
              /\ e.from \in T /\ e.to \in T /\ e.from # e.to
              /\ tasks[e.from].state # "cancelled" /\ tasks[e.to].state # "cancelled"
        /\ \A t \in T : /\ tasks[t].lo <= tasks[t].hi
                        /\ tasks[t].state # "open" => tasks[t].lo = 0 /\ tasks[t].hi = 0
                        /\ tasks[t].state = "open" => tasks[t].team \in DOMAIN plan.teams

=============================================================================
