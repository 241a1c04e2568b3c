----------------------------- MODULE PlanGraph -----------------------------
(***************************************************************************)
(* The two searches for cycles among dependencies, turn by turn of their   *)
(* loops (apps/ai-worker/src/edt_ai_worker): _find_cycle in snapshot.py,   *)
(* which looks for a shortest cycle of a snapshot, and Kahn's algorithm in *)
(* _validate_plan of simulation.py, which orders the tasks of a plan.      *)
(*                                                                         *)
(* A graph has nodes, which are numbers in the order of their bytes, and   *)
(* pairs: <<n, m>> when m depends on n.                                    *)
(***************************************************************************)
EXTENDS Integers, Sequences, FiniteSets

VARIABLES
    graph,     \* [nodes, pairs]
    \* _find_cycle
    origins,   \* the nodes from which the search has not begun
    origin,    \* the node where the paths of the queue begin
    queue,     \* paths to follow
    depth,     \* [reached node -> length of the path that reached it]
    best,      \* a shortest cycle so far, or <<>>
    \* Kahn's algorithm
    indegree,  \* [node -> dependencies from nodes that are not visited]
    ready,     \* the queue: nodes to visit, sorted, none of them twice
    visited    \* the number of nodes visited

searchVars == <<origins, origin, queue, depth, best>>
orderVars == <<indegree, ready, visited>>
graphVars == <<graph, searchVars, orderVars>>

Nowhere == -1

Successors(n) == {m \in graph.nodes : <<n, m>> \in graph.pairs}

Lowest(S) == CHOOSE n \in S : \A m \in S : n <= m

LastNode(path) == path[Len(path)]

-----------------------------------------------------------------------------
(* _find_cycle: from every node in turn, breadth first over paths.         *)

(* sorted(S)                                                               *)
InOrder(S) ==
    CHOOSE s \in [1..Cardinality(S) -> S] :
        /\ \A n \in S : \E i \in DOMAIN s : s[i] = n
        /\ \A i, j \in DOMAIN s : i < j => s[i] < s[j]

Extensions(path) ==
    LET children == InOrder(Successors(LastNode(path)))
    IN  [i \in DOMAIN children |-> Append(path, children[i])]

(* Mutant: a path is given up one step too early. *)
OneShorter(path) == best # <<>> /\ Len(path) + 1 >= Len(best)

NoShorter(path) == best # <<>> /\ Len(path) >= Len(best)

Known(path) == LastNode(path) \in DOMAIN depth /\ Len(path) >= depth[LastNode(path)]

BeginSearch(g) ==
    /\ graph' = g
    /\ origins' = g.nodes
    /\ origin' = Nowhere /\ queue' = <<>> /\ depth' = <<>> /\ best' = <<>>
    /\ UNCHANGED orderVars

(* The search from the next node begins.                                   *)
FromOrigin ==
    /\ queue = <<>> /\ origins # {}
    /\ origin' = Lowest(origins)
    /\ origins' = origins \ {origin'}
    /\ queue' = Extensions(<<origin'>>)
    /\ depth' = [n \in {origin'} |-> 0]
    /\ UNCHANGED <<graph, best, orderVars>>

(* A path is not followed: the best cycle, or another path to its last     *)
(* node, is as short.                                                      *)
DropPath ==
    /\ queue # <<>>
    /\ NoShorter(Head(queue)) \/ (LastNode(Head(queue)) # origin /\ Known(Head(queue)))
    /\ queue' = Tail(queue)
    /\ UNCHANGED <<graph, origins, origin, depth, best, orderVars>>

CloseCycle ==
    /\ queue # <<>>
    /\ ~NoShorter(Head(queue)) /\ LastNode(Head(queue)) = origin
    /\ best' = Head(queue)
    /\ queue' = <<>>
    /\ UNCHANGED <<graph, origins, origin, depth, orderVars>>

FollowPath ==
    /\ queue # <<>>
    /\ ~NoShorter(Head(queue)) /\ LastNode(Head(queue)) # origin /\ ~Known(Head(queue))
    /\ depth' = [n \in DOMAIN depth \cup {LastNode(Head(queue))} |->
                    IF n = LastNode(Head(queue)) THEN Len(Head(queue)) ELSE depth[n]]
    /\ queue' = Tail(queue) \o Extensions(Head(queue))
    /\ UNCHANGED <<graph, origins, origin, best, orderVars>>

Search == FromOrigin \/ DropPath \/ CloseCycle \/ FollowPath

Searched == origins = {} /\ queue = <<>>

-----------------------------------------------------------------------------
(* Kahn's algorithm.                                                       *)

Predecessors(g, n) == {m \in g.nodes : <<m, n>> \in g.pairs}

BeginOrder(g) ==
    /\ graph' = g
    /\ indegree' = [n \in g.nodes |-> Cardinality(Predecessors(g, n))]
    /\ ready' = {n \in g.nodes : indegree'[n] = 0}
    /\ visited' = 0
    /\ UNCHANGED searchVars

Visit ==
    /\ ready # {}
    /\ LET n == Lowest(ready)
       IN  /\ indegree' = [m \in DOMAIN indegree |->
                              IF m \in Successors(n) THEN indegree[m] - 1 ELSE indegree[m]]
           /\ ready' = (ready \ {n}) \cup {m \in Successors(n) : indegree'[m] = 0}
    /\ visited' = visited + 1
    /\ UNCHANGED <<graph, searchVars>>

Visited == ready = {}

(* Mutant: a plan with a cycle is accepted. *)
OrderedInPart == visited <= Cardinality(graph.nodes)

Ordered == visited = Cardinality(graph.nodes)

-----------------------------------------------------------------------------
(* Properties.                                                             *)

Graph ==
    /\ graph = [nodes |-> graph.nodes, pairs |-> graph.pairs]
    /\ graph.nodes \subseteq Nat /\ IsFiniteSet(graph.nodes)
    /\ graph.pairs \subseteq graph.nodes \X graph.nodes

(* Every group of nodes has one without a predecessor in the group.        *)
WithoutCycle(g) ==
    \A S \in SUBSET g.nodes : S # {} => \E n \in S : Predecessors(g, n) \cap S = {}

Walk(path) ==
    \A i \in 1..(Len(path) - 1) : <<path[i], path[i + 1]>> \in graph.pairs

(* The walks of k steps that end where they begin.                         *)
ClosedWalks(k) ==
    {w \in [0..k -> graph.nodes] :
        w[k] = w[0] /\ \A i \in 0..(k - 1) : <<w[i], w[i + 1]>> \in graph.pairs}

(* The cycle that _find_cycle reports is a cycle, and none is shorter; it  *)
(* reports none only when there is none.                                   *)
ShortestCycle ==
    Searched =>
        IF best = <<>> THEN WithoutCycle(graph)
        ELSE /\ Len(best) > 1 /\ best[1] = best[Len(best)] /\ Walk(best)
             /\ \A k \in 1..(Len(best) - 2) : ClosedWalks(k) = {}

=============================================================================
