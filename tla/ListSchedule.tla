---------------------------- MODULE ListSchedule ----------------------------
(***************************************************************************)
(* One iteration of the Monte-Carlo scheduler (apps/ai-worker/src/         *)
(* edt_ai_worker/simulation.py, _schedule_iteration): the unfinished tasks *)
(* of a plan are placed one after the other, always the one that can start *)
(* first, on the slot of its team that is free first.  The durations of    *)
(* the iteration are given; any duration is possible.                      *)
(***************************************************************************)
EXTENDS WorkInstant, FiniteSets, Sequences

CONSTANTS
    Task,   \* work items; numbers, in the order of their bytes
    Team

ASSUME ScheduleAssumption == Task \subseteq Nat /\ IsFiniteSet(Task)

VARIABLES
    prep,   \* what _prepare_schedule computed, and the sampled durations
    start,  \* [placed task -> its start]
    finish, \* [finished: placed or completed task -> its finish]
    slots,  \* [Team -> its slots: when each is free and after which task]
    place,  \* history: [placed task -> the number of its slot]
    parent  \* [placed task -> the task its start waited for, or NoTask]

vars == <<prep, start, finish, slots, place, parent>>
placement == <<start, finish, slots, place, parent>>

NoTask == -1

(* Finish-to-start edges into unfinished tasks, at most one for a pair.    *)
Edge == [from: Task, to: Task, lag: Nat]

(* Every group of tasks has one that waits for none of the group.          *)
Acyclic(edges, nodes) ==
    \A S \in SUBSET nodes :
        S # {} => \E t \in S : \A e \in edges : e.to = t => e.from \notin S

(* Released: not before the base.  done: the completed tasks, which may    *)
(* lie before it.  days: the sampled duration over the team's availability.*)
PreparedSchedule(p) ==
    LET active == DOMAIN p.team
        groups == DOMAIN p.capacity
    IN  /\ active \subseteq Task /\ p.team \in [active -> groups] /\ groups \subseteq Team
        /\ p.release \in [active -> Instant] /\ p.days \in [active -> Nat]
        /\ \A t \in active : NotLater(Zero, p.release[t])
        /\ DOMAIN p.done \subseteq Task \ active
        /\ p.done \in [DOMAIN p.done -> Instant]
        /\ p.edges \subseteq Edge /\ IsFiniteSet(p.edges) /\ Acyclic(p.edges, active)
        /\ \A e \in p.edges : e.to \in active /\ e.from \in active \cup DOMAIN p.done
        /\ \A g \in groups : p.capacity[g] \in Nat /\ p.capacity[g] > 0
        /\ p.capacity = [g \in groups |-> p.capacity[g]]

Active == DOMAIN prep.team
Placed == DOMAIN start
Unscheduled == Active \ Placed
Into(t) == {e \in prep.edges : e.to = t}

(* The state in which the loop begins, for the schedule p.                 *)
Begin(p) ==
    [prep |-> p, start |-> <<>>, finish |-> p.done,
     slots |-> [g \in DOMAIN p.capacity |->
                   [i \in 1..p.capacity[g] |-> [free |-> Zero, after |-> NoTask]]],
     place |-> <<>>, parent |-> <<>>]

Init ==
    /\ PreparedSchedule(prep)
    /\ start = Begin(prep).start
    /\ finish = Begin(prep).finish
    /\ slots = Begin(prep).slots
    /\ place = Begin(prep).place
    /\ parent = Begin(prep).parent

-----------------------------------------------------------------------------
(* The predecessors of a task are completed or placed.                     *)
Enabled(t) == \A e \in Into(t) : e.from \in DOMAIN finish

Candidate == {t \in Unscheduled : Enabled(t)}

(* Mutant: the slot that is free last is taken. *)
LastSlotOf(g) ==
    CHOOSE i \in DOMAIN slots[g] :
        \A j \in DOMAIN slots[g] : NotLater(slots[g][j].free, slots[g][i].free)

(* The slot of a team that is free first, the lowest of several.           *)
SlotOf(g) ==
    CHOOSE i \in DOMAIN slots[g] :
        \A j \in DOMAIN slots[g] :
            \/ Later(slots[g][j].free, slots[g][i].free)
            \/ slots[g][j].free = slots[g][i].free /\ i <= j

(* Mutant: the lag of a dependency is not waited for. *)
DependencyReadyWithoutLag(t) == {finish[e.from] : e \in Into(t)}

DependencyReady(t) == {Advance(finish[e.from], e.lag) : e \in Into(t)}

FreeSlot(t) == slots[prep.team[t]][SlotOf(prep.team[t])]

(* Mutant: a task starts when its team has no slot. *)
StartWithoutSlot(t) == Latest({prep.release[t]} \cup DependencyReady(t))

StartOf(t) == Latest({prep.release[t], FreeSlot(t).free} \cup DependencyReady(t))

(* Mutant: only dependencies govern a start. *)
GoverningWithoutSlot(t) ==
    {e.from : e \in {d \in Into(t) : Advance(finish[d.from], d.lag) = StartOf(t)}}

(* The tasks for which the start waits: predecessors, and the task before  *)
(* it in its slot.                                                         *)
Governing(t) ==
    {e.from : e \in {d \in Into(t) : Advance(finish[d.from], d.lag) = StartOf(t)}}
        \cup {n \in {FreeSlot(t).after} : n # NoTask /\ FreeSlot(t).free = StartOf(t)}

(* Mutant: of the tasks that can start first the highest is placed. *)
SelectedHighest(t) ==
    /\ t \in Candidate
    /\ \A u \in Candidate : \/ Later(StartOf(u), StartOf(t))
                            \/ StartOf(u) = StartOf(t) /\ u <= t

Selected(t) ==
    /\ t \in Candidate
    /\ \A u \in Candidate : \/ Later(StartOf(u), StartOf(t))
                            \/ StartOf(u) = StartOf(t) /\ t <= u

With(f, t, v) == [u \in DOMAIN f \cup {t} |-> IF u = t THEN v ELSE f[u]]

(* One turn of the loop.                                                   *)
Place(t) ==
    LET g == prep.team[t]
        end == Advance(StartOf(t), prep.days[t])
    IN  /\ Selected(t)
        /\ start' = With(start, t, StartOf(t))
        /\ finish' = With(finish, t, end)
        /\ slots' = [slots EXCEPT ![g][SlotOf(g)] = [free |-> end, after |-> t]]
        /\ place' = With(place, t, SlotOf(g))
        /\ parent' = With(parent, t,
                          IF Governing(t) = {} THEN NoTask
                          ELSE CHOOSE n \in Governing(t) : \A m \in Governing(t) : n <= m)
        /\ prep' = prep

Next == \E t \in Task : Place(t)

Spec == Init /\ [][Next]_vars

-----------------------------------------------------------------------------
(* What the iteration returns.                                             *)

(* The placed task that finishes last, the highest of several.             *)
ProjectTask ==
    CHOOSE t \in Placed : \A u \in Placed :
        \/ Later(finish[t], finish[u])
        \/ finish[t] = finish[u] /\ u <= t

ProjectFinish == IF Placed = {} THEN Zero ELSE finish[ProjectTask]

-----------------------------------------------------------------------------
(* Properties.                                                             *)

(* When a task could start if a slot were free.                            *)
Ready(t) == Latest({prep.release[t]} \cup DependencyReady(t))

ScheduleTypeOK ==
    /\ PreparedSchedule(prep)
    /\ Placed \subseteq Active
    /\ start \in [Placed -> Instant]
    /\ finish \in [Placed \cup DOMAIN prep.done -> Instant]
    /\ DOMAIN slots = DOMAIN prep.capacity
    /\ \A g \in DOMAIN prep.capacity :
          slots[g] \in [1..prep.capacity[g] -> [free: Instant, after: Task \cup {NoTask}]]
    /\ DOMAIN place = Placed
    /\ \A t \in Placed : place[t] \in 1..prep.capacity[prep.team[t]]
    /\ parent \in [Placed -> Task \cup {NoTask}]

(* A task starts at or after its release and, for every dependency, the    *)
(* lag after its predecessor's finish, and ends its duration later.        *)
Feasible ==
    \A t \in Placed :
        /\ NotLater(prep.release[t], start[t])
        /\ \A e \in Into(t) : /\ e.from \in DOMAIN finish
                              /\ NotLater(Advance(finish[e.from], e.lag), start[t])
        /\ finish[t] = Advance(start[t], prep.days[t])

(* Tasks in progress at an instant.                                        *)
Running(g, a) ==
    {t \in Placed : prep.team[t] = g /\ NotLater(start[t], a) /\ Later(finish[t], a)}

(* A team never works on more tasks at once than it has slots.             *)
CapacityKept ==
    \A t \in Placed :
        Cardinality(Running(prep.team[t], start[t])) <= prep.capacity[prep.team[t]]

(* The critical chain explains the finish of the project without a gap:    *)
(* its first task starts with its release and every other one the moment   *)
(* its parent, or the lag after it, ends.                                  *)
ChainIsTight ==
    \A t \in Placed :
        IF parent[t] = NoTask
        THEN start[t] = prep.release[t]
        ELSE \/ /\ parent[t] \in Placed
                /\ prep.team[parent[t]] = prep.team[t]
                /\ place[parent[t]] = place[t]
                /\ start[t] = finish[parent[t]]
             \/ \E e \in Into(t) : /\ e.from = parent[t]
                                   /\ start[t] = Advance(finish[e.from], e.lag)

(* No ready task waits for a task that only becomes ready later: as long   *)
(* as it waits, all slots of its team are taken.                           *)
NoIdleWait ==
    \A t \in Placed :
        \A a \in {Ready(t)} \cup {finish[u] : u \in Placed} :
            NotLater(Ready(t), a) /\ Later(start[t], a)
                => Cardinality(Running(prep.team[t], a)) = prep.capacity[prep.team[t]]

(* When a task starts although another of its team has been waiting for a  *)
(* slot, it is the lower of the two.                                       *)
LowestFirst ==
    \A t, u \in Placed :
        prep.team[t] = prep.team[u] /\ Later(start[t], start[u])
            /\ Later(start[u], Ready(t))
            => u < t

(* A validated plan can be scheduled to its end (unschedulable_graph).     *)
NeverStuck == Unscheduled # {} => Candidate # {}

=============================================================================
