---------------------------- MODULE ScenarioPlan ----------------------------
(***************************************************************************)
(* Which snapshots are accepted (apps/ai-worker/src/edt_ai_worker: the     *)
(* semantic part of validate_snapshot in snapshot.py), and the graphs that *)
(* PlanGraph searches for cycles.                                          *)
(*                                                                         *)
(* A snapshot has as_of, start, target, tasks, dependencies (deps, which   *)
(* may name a pair twice) and teams.  Hashes, bindings, unique ids and the *)
(* limits on sizes hold.  The codes of the errors are not told apart: a    *)
(* snapshot or a plan is accepted or refused.                              *)
(***************************************************************************)
EXTENDS Interventions, PlanGraph

(* validate_snapshot, before it looks for a cycle.                         *)
SnapshotConsistent(snap) ==
    LET T == DOMAIN snap.tasks
        tasks == snap.tasks
    IN  /\ T = {} => snap.deps = {} /\ DOMAIN snap.teams = {}
        /\ \A t \in T : /\ tasks[t].state = "completed" => tasks[t].finish <= snap.asOf
                        /\ tasks[t].state = "open" => tasks[t].team \in DOMAIN snap.teams
        /\ \A d \in snap.deps :
              /\ d.from \in T /\ d.to \in T /\ d.from # d.to
              /\ tasks[d.from].state # "cancelled" /\ tasks[d.to].state # "cancelled"

(* adjacency, of a snapshot and of a plan.                                 *)
GraphOf(tasks, dependencies) ==
    [nodes |-> DOMAIN tasks, pairs |-> {Pair(d) : d \in dependencies}]

=============================================================================
