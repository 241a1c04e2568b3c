------------------------ MODULE ScenarioPlan_proofs -------------------------
(***************************************************************************)
(* The plans of a simulation request, for every snapshot and every list of *)
(* interventions: the search ends with a shortest cycle, the order exists  *)
(* exactly when there is no cycle, and the plan of a scenario is typed,    *)
(* has one lag for a pair of tasks, and is a function of the set of its    *)
(* interventions.                                                          *)
(***************************************************************************)
EXTENDS ScenarioPlan, Compilation, ListSchedule_proofs

-----------------------------------------------------------------------------
(* Sorted queues.                                                          *)

(* A finite set of numbers has a greatest one.                             *)
LEMMA GreatestNumber ==
    ASSUME NEW S, IsFiniteSet(S), S # {}, S \subseteq Nat
    PROVE  \E n \in S : \A m \in S : m <= n
<1> DEFINE R == {p \in S \X S : p[2] <= p[1]}
<1>1. \A x, y \in S : <<x, y>> \in R <=> y <= x
  OBVIOUS
<1> HIDE DEF R
<1>2. \A x, y \in S : <<x, y>> \in R \/ <<y, x>> \in R
  <2>1. \A x, y \in S : x <= y \/ y <= x
    OBVIOUS
  <2> QED
    BY <1>1, <2>1
<1>3. \A x, y, z \in S : <<x, y>> \in R /\ <<y, z>> \in R => <<x, z>> \in R
  <2>1. \A x, y, z \in S : x <= y /\ y <= z => x <= z
    OBVIOUS
  <2> QED
    BY <1>1, <2>1
<1> QED
  BY <1>1, <1>2, <1>3, LeastExists

(* The least number of a set of which an element is at most n.             *)
LEMMA LeastUpTo ==
    ASSUME NEW S, S \subseteq Nat, NEW n \in S
    PROVE  \E m \in S : \A k \in S : m <= k
<1> DEFINE T == S \cap (0..n)
<1>1. IsFiniteSet(T)
  BY FS_Interval, FS_Intersection, 0 \in Int, n \in Int
<1>2. T # {} /\ T \subseteq Nat
  OBVIOUS
<1>3. PICK m \in T : \A k \in T : m <= k
  <2> HIDE DEF T
  <2> QED
    BY <1>1, <1>2, LeastNumber
<1>4. \A k \in S : m <= k
  <2>1. SUFFICES ASSUME NEW k \in S PROVE m <= k
    OBVIOUS
  <2>2. CASE k <= n
    BY <1>3, <2>2
  <2>3. CASE k > n
    BY <2>3
  <2> QED
    BY <2>2, <2>3
<1> QED
  BY <1>4

(* A sequence of all elements of a set of numbers, in order.               *)
Ascending(s, S) ==
    /\ s \in [1..Cardinality(S) -> S]
    /\ \A n \in S : \E i \in DOMAIN s : s[i] = n
    /\ \A i, j \in DOMAIN s : i < j => s[i] < s[j]

(* A finite set of numbers can be sorted: a smallest one that cannot is    *)
(* sorted but for its greatest element.                                    *)
LEMMA CanBeSorted ==
    ASSUME NEW S, IsFiniteSet(S), S \subseteq Nat
    PROVE  \E s : Ascending(s, S)
<1> DEFINE CanSort(X) == \E s : Ascending(s, X)
           T == {X \in FiniteSubsetsOf(S) : ~CanSort(X)}
<1>1. SUFFICES ASSUME ~CanSort(S) PROVE FALSE
  OBVIOUS
<1>2. T # {} /\ T \subseteq FiniteSubsetsOf(S)
  BY <1>1 DEF FiniteSubsetsOf
<1>3. PICK X \in T : \A Y \in T : <<Y, X>> \notin StrictSubsetOrdering(S)
  <2>1. IsWellFoundedOn(StrictSubsetOrdering(S), FiniteSubsetsOf(S))
    BY FS_StrictSubsetOrderingWellFounded
  <2> HIDE DEF T
  <2> QED
    BY <1>2, <2>1, WFMin, Zenon
<1>4. X \subseteq S /\ ~CanSort(X) /\ IsFiniteSet(X)
  BY DEF FiniteSubsetsOf
<1>5. X # {}
  <2>1. SUFFICES ASSUME X = {} PROVE FALSE
    OBVIOUS
  <2>2. Cardinality({}) = 0
    BY FS_EmptySet
  <2>3. Ascending(<<>>, {})
    BY <2>2 DEF Ascending
  <2> QED
    BY <1>4, <2>1, <2>3
<1>6. PICK x \in X : \A y \in X : y <= x
  BY <1>4, <1>5, GreatestNumber
<1> DEFINE Y == X \ {x}
<1>7. IsFiniteSet(Y) /\ Cardinality(Y) = Cardinality(X) - 1 /\ Cardinality(X) \in Nat
  BY <1>4, <1>6, FS_RemoveElement, FS_CardinalityType
<1>8. Y \in FiniteSubsetsOf(S) /\ <<Y, X>> \in StrictSubsetOrdering(S)
  BY <1>4, <1>6, <1>7 DEF FiniteSubsetsOf, StrictSubsetOrdering
<1>9. PICK s : Ascending(s, Y)
  BY <1>3, <1>8
<1> DEFINE n == Cardinality(X)
           z == [i \in 1..n |-> IF i = n THEN x ELSE s[i]]
<1>10. n \in Nat \ {0} /\ 1..Cardinality(Y) = 1..(n - 1) /\ X \subseteq Nat
  <2>1. Cardinality(Y) \in Nat
    BY <1>7, FS_CardinalityType
  <2> QED
    BY <1>4, <1>7, <2>1
<1>11. Ascending(z, X)
  <2> HIDE DEF n
  <2>1. \A i \in 1..(n - 1) : s[i] \in Y /\ z[i] = s[i]
    <3>1. s \in [1..(n - 1) -> Y]
      BY <1>9, <1>10 DEF Ascending
    <3>2. \A i \in 1..(n - 1) : i \in 1..n /\ i # n
      BY <1>10
    <3> QED
      BY <3>1, <3>2
  <2>2. z[n] = x /\ n \in 1..n /\ DOMAIN z = 1..n /\ 1..n = 1..(n - 1) \cup {n}
    BY <1>10
  <2>3. z \in [1..n -> X]
    BY <1>6, <2>1, <2>2
  <2>4. \A m \in X : \E i \in DOMAIN z : z[i] = m
    <3>1. SUFFICES ASSUME NEW m \in Y PROVE \E i \in DOMAIN z : z[i] = m
      BY <1>6, <2>2
    <3>2. PICK i \in DOMAIN s : s[i] = m
      BY <1>9 DEF Ascending
    <3>3. i \in 1..(n - 1)
      BY <1>9, <1>10 DEF Ascending
    <3> QED
      BY <2>1, <2>2, <3>2, <3>3
  <2>5. \A i, j \in 1..n : i < j => z[i] < z[j]
    <3>1. SUFFICES ASSUME NEW i \in 1..n, NEW j \in 1..n, i < j PROVE z[i] < z[j]
      OBVIOUS
    <3>2. i \in 1..(n - 1)
      BY <1>10, <3>1
    <3>3. CASE j = n
      <4>1. s[i] \in X /\ s[i] # x
        BY <2>1, <3>2
      <4>2. s[i] <= x /\ s[i] \in Nat /\ x \in Nat
        BY <1>6, <1>10, <4>1
      <4> QED
        BY <2>1, <2>2, <3>2, <3>3, <4>1, <4>2
    <3>4. CASE j # n
      <4>1. j \in 1..(n - 1)
        BY <1>10, <3>4
      <4>2. i \in DOMAIN s /\ j \in DOMAIN s
        BY <1>9, <1>10, <3>2, <4>1 DEF Ascending
      <4>3. s[i] < s[j]
        BY <1>9, <3>1, <4>2 DEF Ascending
      <4> QED
        BY <2>1, <3>2, <4>1, <4>3
    <3> QED
      BY <3>3, <3>4
  <2> QED
    BY <2>2, <2>3, <2>4, <2>5 DEF Ascending, n
<1> QED
  BY <1>4, <1>11

(* InOrder lists every element.                                            *)
LEMMA SortedLists ==
    ASSUME NEW S, IsFiniteSet(S), S \subseteq Nat
    PROVE  Ascending(InOrder(S), S)
<1> DEFINE P(s) == /\ \A n \in S : \E i \in DOMAIN s : s[i] = n
                   /\ \A i, j \in DOMAIN s : i < j => s[i] < s[j]
<1>1. \E s \in [1..Cardinality(S) -> S] : P(s)
  BY CanBeSorted DEF Ascending
<1>2. InOrder(S) = CHOOSE s \in [1..Cardinality(S) -> S] : P(s)
  BY DEF InOrder
<1>3. InOrder(S) \in [1..Cardinality(S) -> S] /\ P(InOrder(S))
  <2> HIDE DEF P
  <2> QED
    BY <1>1, <1>2
<1> QED
  BY <1>3 DEF Ascending

(* The paths that are put into the queue: one for each successor.          *)
LEMMA ExtensionsFacts ==
    ASSUME Graph, NEW path \in Seq(graph.nodes), path # <<>>
    PROVE  /\ Extensions(path) \in Seq(Seq(graph.nodes))
           /\ LastNode(path) \in graph.nodes
           /\ \A i \in DOMAIN Extensions(path) :
                 \E c \in Successors(LastNode(path)) : Extensions(path)[i] = Append(path, c)
           /\ \A c \in Successors(LastNode(path)) :
                 \E i \in DOMAIN Extensions(path) : Extensions(path)[i] = Append(path, c)
<1> DEFINE S == Successors(LastNode(path))
<1>1. S \subseteq graph.nodes /\ IsFiniteSet(S) /\ S \subseteq Nat
  BY FS_Subset DEF Graph, Successors
<1>2. Ascending(InOrder(S), S)
  BY <1>1, SortedLists
<1>3. Cardinality(S) \in Nat
  BY <1>1, FS_CardinalityType
<1>4. DOMAIN InOrder(S) = 1..Cardinality(S) /\ \A i \in 1..Cardinality(S) : InOrder(S)[i] \in S
  BY <1>2 DEF Ascending
<1> DEFINE E == [i \in 1..Cardinality(S) |-> Append(path, InOrder(S)[i])]
<1>5. Extensions(path) = E
  BY <1>4 DEF Extensions
<1>6. \A c \in S : Append(path, c) \in Seq(graph.nodes)
  BY <1>1
<1>7. E \in Seq(Seq(graph.nodes))
  <2>1. E \in [1..Cardinality(S) -> Seq(graph.nodes)]
    BY <1>4, <1>6
  <2>2. \A n \in Nat : \A e : e \in [1..n -> Seq(graph.nodes)] => e \in Seq(Seq(graph.nodes))
    OBVIOUS
  <2> HIDE DEF E
  <2> QED
    BY <1>3, <2>1, <2>2
<1>8. LastNode(path) \in graph.nodes
  BY DEF LastNode
<1>9. \A c \in S : \E i \in DOMAIN E : E[i] = Append(path, c)
  BY <1>2, <1>4 DEF Ascending
<1>10. \A i \in DOMAIN E : \E c \in S : E[i] = Append(path, c)
  BY <1>4
<1> QED
  BY <1>5, <1>7, <1>8, <1>9, <1>10

-----------------------------------------------------------------------------
(* The inductive invariant of _find_cycle.                                 *)

(* A path from a node, with more than one node.                            *)
PathFrom(n, path) ==
    path \in Seq(graph.nodes) /\ Len(path) > 1 /\ path[1] = n /\ Walk(path)

(* Breadth first: paths are queued by length, and no two lengths apart.    *)
QueueInv ==
    /\ queue \in Seq(Seq(graph.nodes))
    /\ queue # <<>> => origin \in graph.nodes \ origins
    /\ \A i \in DOMAIN queue : PathFrom(origin, queue[i])
    /\ \A i, j \in DOMAIN queue : i < j => Len(queue[i]) <= Len(queue[j])
    /\ \A i, j \in DOMAIN queue : Len(queue[j]) <= Len(queue[i]) + 1

(* The cycle found so far is one.                                          *)
BestInv ==
    \/ best = <<>>
    \/ /\ best \in Seq(graph.nodes) /\ Len(best) > 1
       /\ best[1] = best[Len(best)] /\ Walk(best)

DepthInv == depth \in [DOMAIN depth -> Nat]

(* A node is accounted for by a path of d nodes: a path to it waits in the *)
(* queue, or it has been reached, or a cycle is as short.                  *)
Met(q, dp, b, s, c, d) ==
    \/ \E i \in DOMAIN q : LastNode(q[i]) = c /\ Len(q[i]) <= d
    \/ c # s /\ c \in DOMAIN dp /\ dp[c] <= d
    \/ b # <<>> /\ Len(b) <= d

(* The successors of reached nodes are accounted for.                      *)
Frontier(q, dp, b, s) ==
    /\ \A c \in Successors(s) : Met(q, dp, b, s, c, 2)
    /\ \A n \in DOMAIN dp \ {s} : \A c \in Successors(n) : Met(q, dp, b, s, c, dp[n] + 1)

(* No closed walk through s is shorter than the cycle b.                   *)
Covered(b, s) ==
    \A k \in Nat \ {0} : \A w \in ClosedWalks(k) :
        w[0] = s => b # <<>> /\ Len(b) <= k + 1

(* The search has covered every node from which it does not still begin,   *)
(* or is covering it.                                                      *)
SearchInv ==
    /\ Graph
    /\ origins \subseteq graph.nodes
    /\ QueueInv /\ BestInv /\ DepthInv
    /\ queue # <<>> => Frontier(queue, depth, best, origin)
    /\ \A s \in graph.nodes \ origins :
          (s = origin /\ queue # <<>>) \/ Covered(best, s)

(* When every path in the queue is longer than a closed walk from s, the   *)
(* best cycle is not: each node of the walk has been reached in time.      *)
LEMMA FrontierCovers ==
    ASSUME NEW s \in graph.nodes, NEW q \in Seq(Seq(graph.nodes)),
           NEW dp, dp \in [DOMAIN dp -> Nat],
           NEW b \in Seq(graph.nodes), Frontier(q, dp, b, s),
           NEW k \in Nat \ {0}, NEW w \in ClosedWalks(k), w[0] = s,
           \A i \in DOMAIN q : Len(q[i]) > k + 1
    PROVE  b # <<>> /\ Len(b) <= k + 1
<1>1. SUFFICES ASSUME ~(b # <<>> /\ Len(b) <= k + 1) PROVE FALSE
  OBVIOUS
<1> DEFINE InTime(i) == w[i] # s /\ w[i] \in DOMAIN dp /\ dp[w[i]] <= i + 1
           Late == {i \in 1..k : ~InTime(i)}
<1>2. w \in [0..k -> graph.nodes] /\ w[k] = w[0]
      /\ \A i \in 0..(k - 1) : <<w[i], w[i + 1]>> \in graph.pairs
  BY DEF ClosedWalks
<1>3. k \in Late /\ Late \subseteq Nat
  BY <1>2
<1>4. PICK i \in Late : \A j \in Late : i <= j
  <2> HIDE DEF Late
  <2> QED
    BY <1>3, LeastUpTo
<1>5. i \in 1..k /\ ~InTime(i)
  OBVIOUS
<1>6. w[i] \in Successors(w[i - 1])
  <2>1. i - 1 \in 0..(k - 1) /\ (i - 1) + 1 = i /\ i \in 0..k
    BY <1>5
  <2>2. <<w[i - 1], w[i]>> \in graph.pairs
    BY <1>2, <2>1
  <2> QED
    BY <1>2, <2>1, <2>2 DEF Successors
<1>7. \A d \in Nat : d <= i + 1 => ~Met(q, dp, b, s, w[i], d)
  <2>1. SUFFICES ASSUME NEW d \in Nat, d <= i + 1, Met(q, dp, b, s, w[i], d) PROVE FALSE
    OBVIOUS
  <2>2. \A j \in DOMAIN q : ~(Len(q[j]) <= d)
    <3>1. SUFFICES ASSUME NEW j \in DOMAIN q, Len(q[j]) <= d PROVE FALSE
      OBVIOUS
    <3>2. Len(q[j]) \in Nat /\ Len(q[j]) > k + 1
      OBVIOUS
    <3> QED
      BY <1>5, <2>1, <3>1, <3>2
  <2>3. ~(b # <<>> /\ Len(b) <= d)
    <3>1. Len(b) \in Nat
      OBVIOUS
    <3> QED
      BY <1>1, <1>5, <2>1, <3>1
  <2>4. ~(w[i] # s /\ w[i] \in DOMAIN dp /\ dp[w[i]] <= d)
    BY <1>5, <2>1
  <2> QED
    BY <2>1, <2>2, <2>3, <2>4 DEF Met
<1>8. CASE i = 1
  <2>1. Met(q, dp, b, s, w[i], 2)
    BY <1>6, <1>8 DEF Frontier
  <2> QED
    BY <1>7, <1>8, <2>1
<1>9. CASE i # 1
  <2>1. i - 1 \in 1..k /\ InTime(i - 1)
    BY <1>4, <1>5, <1>9
  <2>2. Met(q, dp, b, s, w[i], dp[w[i - 1]] + 1)
    BY <1>6, <2>1 DEF Frontier
  <2>3. dp[w[i - 1]] \in Nat /\ dp[w[i - 1]] + 1 <= i + 1
    BY <1>5, <2>1
  <2> QED
    BY <1>7, <2>2, <2>3
<1> QED
  BY <1>8, <1>9

(* An empty queue: nothing is left of the search from a node.              *)
LEMMA EmptyCovers ==
    ASSUME NEW s \in graph.nodes, NEW dp, dp \in [DOMAIN dp -> Nat],
           NEW b \in Seq(graph.nodes), Frontier(<<>>, dp, b, s)
    PROVE  Covered(b, s)
<1>1. SUFFICES ASSUME NEW k \in Nat \ {0}, NEW w \in ClosedWalks(k), w[0] = s
               PROVE  b # <<>> /\ Len(b) <= k + 1
  BY DEF Covered
<1>2. <<>> \in Seq(Seq(graph.nodes)) /\ DOMAIN <<>> = {}
  OBVIOUS
<1>3. \A i \in DOMAIN <<>> : Len((<<>>)[i]) > k + 1
  BY <1>2
<1> QED
  BY <1>1, <1>2, <1>3, FrontierCovers

(* What is left of a queue.                                                *)
LEMMA QueueRest ==
    ASSUME NEW S, NEW q \in Seq(S), q # <<>>
    PROVE  /\ Tail(q) \in Seq(S) /\ Head(q) = q[1] /\ q[1] \in S /\ 1 \in DOMAIN q
           /\ Len(Tail(q)) = Len(q) - 1 /\ Len(q) \in Nat /\ DOMAIN q = 1..Len(q)
           /\ DOMAIN Tail(q) = 1..(Len(q) - 1)
           /\ \A i \in DOMAIN Tail(q) : i + 1 \in DOMAIN q /\ Tail(q)[i] = q[i + 1]
           /\ \A i \in DOMAIN q : i = 1 \/ (i - 1 \in DOMAIN Tail(q) /\ Tail(q)[i - 1] = q[i])
<1>1. Tail(q) \in Seq(S) /\ Head(q) = q[1] /\ Len(q) \in Nat \ {0}
      /\ Len(Tail(q)) = Len(q) - 1 /\ DOMAIN q = 1..Len(q) /\ DOMAIN Tail(q) = 1..(Len(q) - 1)
  OBVIOUS
<1>2. \A i \in 1..(Len(q) - 1) : Tail(q)[i] = q[i + 1]
  OBVIOUS
<1>3. \A i \in 1..Len(q) : i = 1 \/ (i - 1 \in 1..(Len(q) - 1) /\ Tail(q)[i - 1] = q[i])
  BY <1>1, <1>2
<1> QED
  BY <1>1, <1>2, <1>3

(* The invariant of a next state, in terms of the same graph.              *)
LEMMA InvNext ==
    ASSUME Graph, graph' = graph, origins' \subseteq graph.nodes,
           queue' \in Seq(Seq(graph.nodes)),
           queue' # <<>> => origin' \in graph.nodes \ origins',
           \A i \in DOMAIN queue' : PathFrom(origin', queue'[i]),
           \A i, j \in DOMAIN queue' : i < j => Len(queue'[i]) <= Len(queue'[j]),
           \A i, j \in DOMAIN queue' : Len(queue'[j]) <= Len(queue'[i]) + 1,
           \/ best' = <<>>
           \/ /\ best' \in Seq(graph.nodes) /\ Len(best') > 1
              /\ best'[1] = best'[Len(best')] /\ Walk(best'),
           depth' \in [DOMAIN depth' -> Nat],
           queue' # <<>> => Frontier(queue', depth', best', origin'),
           \A s \in graph.nodes \ origins' :
              (s = origin' /\ queue' # <<>>) \/ Covered(best', s)
    PROVE  SearchInv'
<1>1. Graph'
  BY DEF Graph
<1>2. QueueInv'
  BY DEF QueueInv, PathFrom, Walk
<1>3. BestInv'
  BY DEF BestInv, Walk
<1>4. (queue # <<>> => Frontier(queue, depth, best, origin))'
  BY DEF Frontier, Met, Successors
<1>5. (\A s \in graph.nodes \ origins :
          (s = origin /\ queue # <<>>) \/ Covered(best, s))'
  BY DEF Covered, ClosedWalks
<1> QED
  BY <1>1, <1>2, <1>3, <1>4, <1>5 DEF SearchInv, DepthInv

(* The queue without its head.                                             *)
LEMMA QueueTail ==
    ASSUME SearchInv, queue # <<>>
    PROVE  /\ Tail(queue) \in Seq(Seq(graph.nodes))
           /\ origin \in graph.nodes \ origins
           /\ PathFrom(origin, Head(queue))
           /\ \A i \in DOMAIN Tail(queue) :
                 /\ PathFrom(origin, Tail(queue)[i])
                 /\ Len(Head(queue)) <= Len(Tail(queue)[i])
                 /\ Len(Tail(queue)[i]) <= Len(Head(queue)) + 1
           /\ \A i, j \in DOMAIN Tail(queue) :
                 /\ i < j => Len(Tail(queue)[i]) <= Len(Tail(queue)[j])
                 /\ Len(Tail(queue)[j]) <= Len(Tail(queue)[i]) + 1
           /\ \A c, d : Met(queue, depth, best, origin, c, d) =>
                 \/ Met(Tail(queue), depth, best, origin, c, d)
                 \/ LastNode(Head(queue)) = c /\ Len(Head(queue)) <= d
<1>1. QueueInv /\ queue \in Seq(Seq(graph.nodes))
  BY DEF SearchInv, QueueInv
<1>2. /\ Tail(queue) \in Seq(Seq(graph.nodes)) /\ Head(queue) = queue[1]
      /\ 1 \in DOMAIN queue /\ DOMAIN queue = 1..Len(queue) /\ Len(queue) \in Nat
      /\ DOMAIN Tail(queue) = 1..(Len(queue) - 1)
      /\ \A i \in DOMAIN Tail(queue) : i + 1 \in DOMAIN queue /\ Tail(queue)[i] = queue[i + 1]
      /\ \A i \in DOMAIN queue :
            i = 1 \/ (i - 1 \in DOMAIN Tail(queue) /\ Tail(queue)[i - 1] = queue[i])
  BY <1>1, QueueRest
<1>3. origin \in graph.nodes \ origins /\ PathFrom(origin, Head(queue))
  BY <1>1, <1>2 DEF QueueInv
<1>4. ASSUME NEW i \in DOMAIN Tail(queue)
      PROVE  /\ PathFrom(origin, Tail(queue)[i])
             /\ Len(Head(queue)) <= Len(Tail(queue)[i])
             /\ Len(Tail(queue)[i]) <= Len(Head(queue)) + 1
  <2>1. i + 1 \in DOMAIN queue /\ Tail(queue)[i] = queue[i + 1] /\ 1 < i + 1
    BY <1>2
  <2> QED
    BY <1>1, <1>2, <2>1 DEF QueueInv
<1>5. ASSUME NEW i \in DOMAIN Tail(queue), NEW j \in DOMAIN Tail(queue)
      PROVE  /\ i < j => Len(Tail(queue)[i]) <= Len(Tail(queue)[j])
             /\ Len(Tail(queue)[j]) <= Len(Tail(queue)[i]) + 1
  <2>1. /\ i + 1 \in DOMAIN queue /\ Tail(queue)[i] = queue[i + 1]
        /\ j + 1 \in DOMAIN queue /\ Tail(queue)[j] = queue[j + 1]
        /\ i < j => i + 1 < j + 1
    BY <1>2
  <2> QED
    BY <1>1, <2>1 DEF QueueInv
<1>6. ASSUME NEW c, NEW d, Met(queue, depth, best, origin, c, d)
      PROVE  \/ Met(Tail(queue), depth, best, origin, c, d)
             \/ LastNode(Head(queue)) = c /\ Len(Head(queue)) <= d
  <2>1. CASE \E i \in DOMAIN queue : LastNode(queue[i]) = c /\ Len(queue[i]) <= d
    <3>1. PICK i \in DOMAIN queue : LastNode(queue[i]) = c /\ Len(queue[i]) <= d
      BY <2>1
    <3>2. CASE i = 1
      BY <1>2, <3>1, <3>2
    <3>3. CASE i # 1
      <4>1. i - 1 \in DOMAIN Tail(queue) /\ Tail(queue)[i - 1] = queue[i]
        BY <1>2, <3>3
      <4> QED
        BY <3>1, <4>1 DEF Met
    <3> QED
      BY <3>2, <3>3
  <2> QED
    BY <1>6, <2>1 DEF Met
<1> QED
  BY <1>2, <1>3, <1>4, <1>5, <1>6

(* A path that reaches a node again, or is too long, is dropped.           *)
LEMMA DropStep == SearchInv /\ DropPath => SearchInv'
<1> SUFFICES ASSUME SearchInv, DropPath PROVE SearchInv'
  OBVIOUS
<1> DEFINE path == Head(queue)
           c == LastNode(path)
<1>1. /\ queue # <<>>
      /\ NoShorter(path) \/ (c # origin /\ Known(path))
      /\ queue' = Tail(queue)
      /\ graph' = graph /\ origins' = origins /\ origin' = origin
      /\ depth' = depth /\ best' = best
  BY DEF DropPath
<1>2. /\ Graph /\ origins \subseteq graph.nodes /\ BestInv /\ DepthInv
      /\ Frontier(queue, depth, best, origin)
      /\ \A s \in graph.nodes \ origins : s = origin \/ Covered(best, s)
  BY <1>1 DEF SearchInv
<1>3. best \in Seq(graph.nodes) /\ depth \in [DOMAIN depth -> Nat]
  <2>1. <<>> \in Seq(graph.nodes)
    OBVIOUS
  <2> QED
    BY <1>2, <2>1 DEF BestInv, DepthInv
<1>4. PathFrom(origin, path) /\ Len(path) \in Nat
  BY <1>1, QueueTail DEF PathFrom
<1>5. ASSUME NEW n, NEW d \in Nat, Met(queue, depth, best, origin, n, d)
      PROVE  Met(Tail(queue), depth, best, origin, n, d)
  <2>1. \/ Met(Tail(queue), depth, best, origin, n, d)
        \/ c = n /\ Len(path) <= d
    BY <1>1, <1>5, QueueTail
  <2>2. ASSUME c = n, Len(path) <= d, NoShorter(path)
        PROVE  Met(Tail(queue), depth, best, origin, n, d)
    <3>1. best # <<>> /\ Len(best) <= Len(path) /\ Len(best) \in Nat
      BY <1>3, <2>2 DEF NoShorter
    <3>2. Len(best) <= d
      BY <1>4, <2>2, <3>1
    <3> QED
      BY <3>1, <3>2 DEF Met
  <2>3. ASSUME c = n, Len(path) <= d, c # origin, Known(path)
        PROVE  Met(Tail(queue), depth, best, origin, n, d)
    <3>1. n \in DOMAIN depth /\ depth[n] <= Len(path) /\ depth[n] \in Nat
      BY <1>3, <2>3 DEF Known
    <3>2. depth[n] <= d
      BY <1>4, <2>3, <3>1
    <3> QED
      BY <2>3, <3>1, <3>2 DEF Met
  <2> QED
    BY <1>1, <2>1, <2>2, <2>3
<1>6. Frontier(Tail(queue), depth, best, origin)
  <2>1. \A n \in Successors(origin) : Met(Tail(queue), depth, best, origin, n, 2)
    BY <1>2, <1>5 DEF Frontier
  <2>2. ASSUME NEW m \in DOMAIN depth \ {origin}, NEW n \in Successors(m)
        PROVE  Met(Tail(queue), depth, best, origin, n, depth[m] + 1)
    <3>1. depth[m] + 1 \in Nat
      BY <1>3
    <3>2. Met(queue, depth, best, origin, n, depth[m] + 1)
      BY <1>2 DEF Frontier
    <3> QED
      BY <1>5, <3>1, <3>2
  <2> QED
    BY <2>1, <2>2 DEF Frontier
<1>7. queue' = <<>> => Covered(best, origin)
  <2>1. origin \in graph.nodes
    BY <1>1, QueueTail
  <2> QED
    BY <1>1, <1>3, <1>6, <2>1, EmptyCovers
<1>8. /\ queue' \in Seq(Seq(graph.nodes))
      /\ queue' # <<>> => origin' \in graph.nodes \ origins'
      /\ \A i \in DOMAIN queue' : PathFrom(origin', queue'[i])
      /\ \A i, j \in DOMAIN queue' : i < j => Len(queue'[i]) <= Len(queue'[j])
      /\ \A i, j \in DOMAIN queue' : Len(queue'[j]) <= Len(queue'[i]) + 1
  BY <1>1, QueueTail
<1>9. \A s \in graph.nodes \ origins' : (s = origin' /\ queue' # <<>>) \/ Covered(best', s)
  BY <1>1, <1>2, <1>7
<1>10. best' = <<>> \/ (best' \in Seq(graph.nodes) /\ Len(best') > 1
              /\ best'[1] = best'[Len(best')] /\ Walk(best'))
  BY <1>1, <1>2 DEF BestInv
<1>11. Frontier(queue', depth', best', origin')
  BY <1>1, <1>6
<1>12. /\ graph' = graph /\ origins' \subseteq graph.nodes
       /\ depth' \in [DOMAIN depth' -> Nat]
  BY <1>1, <1>2, <1>3
<1> HIDE DEF path, c
<1> QED
  BY <1>2, <1>8, <1>9, <1>10, <1>11, <1>12, InvNext

(* A closed path at the head of the queue: all longer paths come later, and*)
(* no closed walk from the origin is shorter.                              *)
LEMMA CloseStep == SearchInv /\ CloseCycle => SearchInv'
<1> SUFFICES ASSUME SearchInv, CloseCycle PROVE SearchInv'
  OBVIOUS
<1> DEFINE path == Head(queue)
<1>1. /\ queue # <<>> /\ ~NoShorter(path) /\ LastNode(path) = origin
      /\ queue' = <<>> /\ best' = path
      /\ graph' = graph /\ origins' = origins /\ origin' = origin /\ depth' = depth
  BY DEF CloseCycle
<1>2. /\ Graph /\ origins \subseteq graph.nodes /\ BestInv /\ DepthInv
      /\ Frontier(queue, depth, best, origin)
      /\ \A s \in graph.nodes \ origins : s = origin \/ Covered(best, s)
  BY <1>1 DEF SearchInv
<1>3. best \in Seq(graph.nodes) /\ depth \in [DOMAIN depth -> Nat]
      /\ queue \in Seq(Seq(graph.nodes))
  <2>1. <<>> \in Seq(graph.nodes)
    OBVIOUS
  <2> QED
    BY <1>2, <2>1 DEF BestInv, DepthInv, SearchInv, QueueInv
<1>4. path \in Seq(graph.nodes) /\ Len(path) > 1 /\ path[1] = origin /\ Walk(path)
      /\ Len(path) \in Nat /\ origin \in graph.nodes
  BY <1>1, QueueTail DEF PathFrom
<1>5. path[Len(path)] = path[1]
  BY <1>1, <1>4 DEF LastNode
<1>6. path # <<>> /\ (best # <<>> => Len(path) <= Len(best)) /\ Len(best) \in Nat
  BY <1>1, <1>3, <1>4 DEF NoShorter
<1>7. ASSUME NEW s \in graph.nodes, Covered(best, s) PROVE Covered(path, s)
  <2>1. SUFFICES ASSUME NEW k \in Nat \ {0}, NEW w \in ClosedWalks(k), w[0] = s
                 PROVE  path # <<>> /\ Len(path) <= k + 1
    BY DEF Covered
  <2>2. best # <<>> /\ Len(best) <= k + 1
    BY <1>7, <2>1 DEF Covered
  <2> QED
    BY <1>4, <1>6, <2>2
<1>8. Covered(path, origin)
  <2>1. SUFFICES ASSUME NEW k \in Nat \ {0}, NEW w \in ClosedWalks(k), w[0] = origin
                 PROVE  Len(path) <= k + 1
    BY <1>6 DEF Covered
  <2>2. SUFFICES ASSUME Len(path) > k + 1 PROVE FALSE
    BY <1>4
  <2>3. \A i \in DOMAIN queue : Len(queue[i]) > k + 1
    <3>1. SUFFICES ASSUME NEW i \in DOMAIN queue PROVE Len(queue[i]) > k + 1
      OBVIOUS
    <3>2. /\ Head(queue) = queue[1]
          /\ i = 1 \/ (i - 1 \in DOMAIN Tail(queue) /\ Tail(queue)[i - 1] = queue[i])
      BY <1>1, <1>3, QueueRest
    <3>3. Len(path) <= Len(queue[i])
      BY <1>1, <1>4, <3>2, QueueTail
    <3>4. Len(queue[i]) \in Nat
      BY <1>3
    <3> QED
      BY <1>4, <2>2, <3>3, <3>4
  <2>4. best # <<>> /\ Len(best) <= k + 1
    BY <1>2, <1>3, <1>4, <2>1, <2>3, FrontierCovers
  <2> QED
    BY <1>4, <1>6, <2>2, <2>4
<1>9. \A s \in graph.nodes \ origins' : Covered(best', s)
  BY <1>1, <1>2, <1>7, <1>8
<1>10. best' \in Seq(graph.nodes) /\ Len(best') > 1 /\ best'[1] = best'[Len(best')] /\ Walk(best')
  BY <1>1, <1>4, <1>5
<1>11. queue' = <<>> /\ queue' \in Seq(Seq(graph.nodes)) /\ DOMAIN queue' = {}
  BY <1>1
<1>12. /\ graph' = graph /\ origins' \subseteq graph.nodes
       /\ depth' \in [DOMAIN depth' -> Nat]
  BY <1>1, <1>2, <1>3
<1> HIDE DEF path
<1> QED
  BY <1>2, <1>9, <1>10, <1>11, <1>12, InvNext

(* Elements of a concatenation.                                            *)
LEMMA Concatenation ==
    ASSUME NEW S, NEW t \in Seq(S), NEW e \in Seq(S)
    PROVE  /\ t \o e \in Seq(S)
           /\ \A j \in DOMAIN (t \o e) :
                 \/ j \in DOMAIN t /\ (t \o e)[j] = t[j]
                 \/ /\ j > Len(t) /\ j - Len(t) \in DOMAIN e
                    /\ (t \o e)[j] = e[j - Len(t)]
           /\ \A i \in DOMAIN t : i <= Len(t) /\ i \in DOMAIN (t \o e) /\ (t \o e)[i] = t[i]
           /\ \A i \in DOMAIN e :
                 i + Len(t) \in DOMAIN (t \o e) /\ (t \o e)[i + Len(t)] = e[i]
<1>1. /\ t \o e \in Seq(S) /\ Len(t) \in Nat /\ Len(e) \in Nat
      /\ DOMAIN t = 1..Len(t) /\ DOMAIN e = 1..Len(e)
      /\ DOMAIN (t \o e) = 1..(Len(t) + Len(e))
  OBVIOUS
<1>2. \A j \in 1..(Len(t) + Len(e)) :
         (t \o e)[j] = IF j <= Len(t) THEN t[j] ELSE e[j - Len(t)]
  OBVIOUS
<1>3. \A i \in 1..Len(e) : i + Len(t) \in 1..(Len(t) + Len(e)) /\ ~(i + Len(t) <= Len(t))
                           /\ (i + Len(t)) - Len(t) = i
  BY <1>1
<1>4. \A i \in 1..Len(t) : i \in 1..(Len(t) + Len(e)) /\ i <= Len(t)
  BY <1>1
<1>5. \A j \in 1..(Len(t) + Len(e)) : j \in 1..Len(t) \/ (j > Len(t) /\ j - Len(t) \in 1..Len(e))
  BY <1>1
<1>6. ASSUME NEW j \in DOMAIN (t \o e)
      PROVE  \/ j \in DOMAIN t /\ (t \o e)[j] = t[j]
             \/ /\ j > Len(t) /\ j - Len(t) \in DOMAIN e
                /\ (t \o e)[j] = e[j - Len(t)]
  BY <1>1, <1>2, <1>5
<1>7. ASSUME NEW i \in DOMAIN e
      PROVE  i + Len(t) \in DOMAIN (t \o e) /\ (t \o e)[i + Len(t)] = e[i]
  BY <1>1, <1>2, <1>3
<1>8. \A i \in DOMAIN t : i <= Len(t) /\ i \in DOMAIN (t \o e) /\ (t \o e)[i] = t[i]
  BY <1>1, <1>2, <1>4
<1> QED
  BY <1>1, <1>6, <1>7, <1>8

(* A walk is extended by a successor of its last node.                     *)
LEMMA ExtendedPath ==
    ASSUME NEW path \in Seq(graph.nodes), path # <<>>, Walk(path),
           NEW c \in Successors(LastNode(path))
    PROVE  /\ PathFrom(path[1], Append(path, c))
           /\ Len(Append(path, c)) = Len(path) + 1
           /\ LastNode(Append(path, c)) = c
<1> DEFINE z == Append(path, c)
           n == Len(path)
<1>1. n \in Nat \ {0} /\ c \in graph.nodes /\ <<path[n], c>> \in graph.pairs
  BY DEF Successors, LastNode
<1>2. z \in Seq(graph.nodes) /\ Len(z) = n + 1 /\ z[n + 1] = c
      /\ \A i \in 1..n : z[i] = path[i]
  BY <1>1
<1>3. ASSUME NEW i \in 1..n PROVE <<z[i], z[i + 1]>> \in graph.pairs
  <2> HIDE DEF z
  <2>1. CASE i = n
    BY <1>1, <1>2, <2>1
  <2>2. CASE i # n
    <3>1. i \in 1..(n - 1) /\ i + 1 \in 1..n
      BY <1>1, <2>2
    <3>2. <<path[i], path[i + 1]>> \in graph.pairs
      BY <3>1 DEF Walk
    <3> QED
      BY <1>2, <3>1, <3>2
  <2> QED
    BY <2>1, <2>2
<1>4. Walk(z)
  <2> HIDE DEF z
  <2>1. 1..(Len(z) - 1) = 1..n
    BY <1>1, <1>2
  <2> QED
    BY <1>3, <2>1 DEF Walk
<1>5. z[1] = path[1] /\ Len(z) > 1
  BY <1>1, <1>2
<1>6. LastNode(z) = c
  BY <1>2 DEF LastNode
<1> QED
  BY <1>2, <1>4, <1>5, <1>6 DEF PathFrom

(* The paths put into the queue are walks, one node longer.                *)
LEMMA ExtendedPaths ==
    ASSUME Graph, NEW path \in Seq(graph.nodes), path # <<>>, Walk(path)
    PROVE  /\ Extensions(path) \in Seq(Seq(graph.nodes))
           /\ \A i \in DOMAIN Extensions(path) :
                 /\ PathFrom(path[1], Extensions(path)[i])
                 /\ Len(Extensions(path)[i]) = Len(path) + 1
           /\ \A c \in Successors(LastNode(path)) :
                 \E i \in DOMAIN Extensions(path) :
                    /\ LastNode(Extensions(path)[i]) = c
                    /\ Len(Extensions(path)[i]) = Len(path) + 1
<1>1. ASSUME NEW i \in DOMAIN Extensions(path)
      PROVE  /\ PathFrom(path[1], Extensions(path)[i])
             /\ Len(Extensions(path)[i]) = Len(path) + 1
  <2>1. PICK c \in Successors(LastNode(path)) : Extensions(path)[i] = Append(path, c)
    BY ExtensionsFacts
  <2> QED
    BY <2>1, ExtendedPath
<1>2. ASSUME NEW c \in Successors(LastNode(path))
      PROVE  \E i \in DOMAIN Extensions(path) :
                /\ LastNode(Extensions(path)[i]) = c
                /\ Len(Extensions(path)[i]) = Len(path) + 1
  <2>1. PICK i \in DOMAIN Extensions(path) : Extensions(path)[i] = Append(path, c)
    BY ExtensionsFacts
  <2> QED
    BY <2>1, ExtendedPath
<1> QED
  BY <1>1, <1>2, ExtensionsFacts

(* A path is followed: its extensions are queued.                          *)
LEMMA FollowStep == SearchInv /\ FollowPath => SearchInv'
<1> SUFFICES ASSUME SearchInv, FollowPath PROVE SearchInv'
  OBVIOUS
<1> DEFINE path == Head(queue)
           c == LastNode(path)
           L == Len(path)
           T == Tail(queue)
           E == Extensions(path)
<1>1. /\ queue # <<>> /\ ~NoShorter(path) /\ c # origin /\ ~Known(path)
      /\ queue' = T \o E
      /\ depth' = [n \in DOMAIN depth \cup {c} |-> IF n = c THEN L ELSE depth[n]]
      /\ graph' = graph /\ origins' = origins /\ origin' = origin /\ best' = best
  BY DEF FollowPath
<1>2. /\ Graph /\ origins \subseteq graph.nodes /\ BestInv /\ DepthInv
      /\ Frontier(queue, depth, best, origin)
      /\ \A s \in graph.nodes \ origins : s = origin \/ Covered(best, s)
  BY <1>1 DEF SearchInv
<1>3. best \in Seq(graph.nodes) /\ depth \in [DOMAIN depth -> Nat]
  <2>1. <<>> \in Seq(graph.nodes)
    OBVIOUS
  <2> QED
    BY <1>2, <2>1 DEF BestInv, DepthInv
<1>4. /\ T \in Seq(Seq(graph.nodes)) /\ origin \in graph.nodes \ origins
      /\ PathFrom(origin, path)
      /\ \A i \in DOMAIN T : /\ PathFrom(origin, T[i])
                             /\ L <= Len(T[i]) /\ Len(T[i]) <= L + 1
      /\ \A i, j \in DOMAIN T : i < j => Len(T[i]) <= Len(T[j])
      /\ \A n, d : Met(queue, depth, best, origin, n, d) =>
            Met(T, depth, best, origin, n, d) \/ (c = n /\ L <= d)
  BY <1>1, QueueTail
<1>5. path \in Seq(graph.nodes) /\ L > 1 /\ L \in Nat /\ path[1] = origin /\ Walk(path)
      /\ path # <<>>
  BY <1>4 DEF PathFrom
<1>6. /\ E \in Seq(Seq(graph.nodes))
      /\ \A i \in DOMAIN E : PathFrom(origin, E[i]) /\ Len(E[i]) = L + 1
      /\ \A n \in Successors(c) : \E i \in DOMAIN E : LastNode(E[i]) = n /\ Len(E[i]) = L + 1
  BY <1>2, <1>5, ExtendedPaths
<1> HIDE DEF T, E, path, c, L
<1> DEFINE q == T \o E
<1>7. /\ q \in Seq(Seq(graph.nodes))
      /\ \A j \in DOMAIN q :
            \/ j \in DOMAIN T /\ q[j] = T[j]
            \/ j > Len(T) /\ j - Len(T) \in DOMAIN E /\ q[j] = E[j - Len(T)]
      /\ \A i \in DOMAIN T : i <= Len(T) /\ i \in DOMAIN q /\ q[i] = T[i]
      /\ \A i \in DOMAIN E : i + Len(T) \in DOMAIN q /\ q[i + Len(T)] = E[i]
  <2>1. T \in Seq(Seq(graph.nodes)) /\ E \in Seq(Seq(graph.nodes))
    BY <1>4, <1>6
  <2> QED
    BY <2>1, Concatenation
<1> HIDE DEF q
<1>8. \A j \in DOMAIN q : /\ PathFrom(origin, q[j])
                          /\ L <= Len(q[j]) /\ Len(q[j]) <= L + 1 /\ Len(q[j]) \in Nat
  <2>1. SUFFICES ASSUME NEW j \in DOMAIN q
                 PROVE  PathFrom(origin, q[j]) /\ L <= Len(q[j]) /\ Len(q[j]) <= L + 1
    BY <1>7
  <2>3. CASE j \in DOMAIN T /\ q[j] = T[j]
    BY <1>4, <2>3
  <2>2. CASE j - Len(T) \in DOMAIN E /\ q[j] = E[j - Len(T)]
    <3>1. PathFrom(origin, q[j]) /\ Len(q[j]) = L + 1
      BY <1>6, <2>2
    <3> QED
      BY <1>5, <3>1
  <2> QED
    BY <1>7, <2>3, <2>2
<1>9. ASSUME NEW i \in DOMAIN q, NEW j \in DOMAIN q, i < j
      PROVE  Len(q[i]) <= Len(q[j])
  <2>0. i \in Nat /\ j \in Nat /\ Len(T) \in Nat
    BY <1>4, <1>7
  <2>1. CASE j \in DOMAIN T /\ q[j] = T[j]
    <3>1. i \in DOMAIN T /\ q[i] = T[i]
      BY <1>7, <1>9, <2>0, <2>1
    <3> QED
      BY <1>4, <1>9, <2>1, <3>1
  <2>2. CASE j - Len(T) \in DOMAIN E /\ q[j] = E[j - Len(T)]
    <3>1. Len(q[j]) = L + 1
      BY <1>6, <2>2
    <3> QED
      BY <1>8, <3>1
  <2> QED
    BY <1>7, <2>1, <2>2
<1>10. \A i, j \in DOMAIN q : Len(q[j]) <= Len(q[i]) + 1
  <2>1. SUFFICES ASSUME NEW i \in DOMAIN q, NEW j \in DOMAIN q
                 PROVE  Len(q[j]) <= Len(q[i]) + 1
    OBVIOUS
  <2>2. L <= Len(q[i]) /\ Len(q[j]) <= L + 1 /\ Len(q[i]) \in Nat /\ Len(q[j]) \in Nat
    BY <1>8
  <2> QED
    BY <1>5, <2>2
<1> DEFINE dp == [n \in DOMAIN depth \cup {c} |-> IF n = c THEN L ELSE depth[n]]
<1>11. /\ dp \in [DOMAIN dp -> Nat] /\ DOMAIN dp = DOMAIN depth \cup {c} /\ dp[c] = L
       /\ \A n \in DOMAIN depth : dp[n] <= depth[n] /\ depth[n] \in Nat
       /\ \A n \in DOMAIN depth \ {c} : dp[n] = depth[n]
  <2>1. c \in DOMAIN depth => L < depth[c]
    BY <1>1, <1>3, <1>5 DEF Known, c, L
  <2>2. \A n \in DOMAIN depth : depth[n] \in Nat
    BY <1>3
  <2> QED
    BY <1>5, <2>1, <2>2
<1>12. ASSUME NEW n, NEW d \in Nat, Met(queue, depth, best, origin, n, d)
       PROVE  Met(q, dp, best, origin, n, d)
  <2> HIDE DEF dp
  <2>1. Met(T, depth, best, origin, n, d) \/ (c = n /\ L <= d)
    BY <1>4, <1>12
  <2>2. CASE c = n /\ L <= d
    BY <1>1, <1>11, <2>2 DEF Met
  <2>3. CASE \E i \in DOMAIN T : LastNode(T[i]) = n /\ Len(T[i]) <= d
    <3>1. PICK i \in DOMAIN T : LastNode(T[i]) = n /\ Len(T[i]) <= d
      BY <2>3
    <3>2. i \in DOMAIN q /\ q[i] = T[i]
      BY <1>7
    <3> QED
      BY <3>1, <3>2 DEF Met
  <2>4. CASE n # origin /\ n \in DOMAIN depth /\ depth[n] <= d
    <3>1. n \in DOMAIN dp /\ dp[n] <= depth[n] /\ depth[n] \in Nat /\ dp[n] \in Nat
      BY <1>11, <2>4
    <3>2. dp[n] <= d
      BY <2>4, <3>1
    <3> QED
      BY <2>4, <3>1, <3>2 DEF Met
  <2>5. CASE best # <<>> /\ Len(best) <= d
    BY <2>5 DEF Met
  <2> QED
    BY <2>1, <2>2, <2>3, <2>4, <2>5 DEF Met
<1>13. Frontier(q, dp, best, origin)
  <2> HIDE DEF dp
  <2>1. \A n \in Successors(origin) : Met(q, dp, best, origin, n, 2)
    BY <1>2, <1>12 DEF Frontier
  <2>2. ASSUME NEW m \in DOMAIN dp \ {origin}, NEW n \in Successors(m)
        PROVE  Met(q, dp, best, origin, n, dp[m] + 1)
    <3>1. CASE m = c
      <4>1. PICK i \in DOMAIN E : LastNode(E[i]) = n /\ Len(E[i]) = L + 1
        BY <1>6, <3>1
      <4>2. i + Len(T) \in DOMAIN q /\ q[i + Len(T)] = E[i]
        BY <1>7
      <4>3. LastNode(q[i + Len(T)]) = n /\ Len(q[i + Len(T)]) <= dp[m] + 1
        BY <1>5, <1>11, <3>1, <4>1, <4>2
      <4> QED
        BY <4>2, <4>3 DEF Met
    <3>2. CASE m # c
      <4>1. m \in DOMAIN depth \ {origin} /\ dp[m] = depth[m] /\ depth[m] + 1 \in Nat
        BY <1>11, <2>2, <3>2
      <4>2. Met(queue, depth, best, origin, n, depth[m] + 1)
        BY <1>2, <2>2, <4>1 DEF Frontier
      <4> QED
        BY <1>12, <4>1, <4>2
    <3> QED
      BY <3>1, <3>2
  <2> QED
    BY <2>1, <2>2 DEF Frontier
<1>14. q = <<>> => Covered(best, origin)
  BY <1>3, <1>4, <1>11, <1>13, EmptyCovers
<1>15. queue' = q /\ depth' = dp
  BY <1>1 DEF q
<1> HIDE DEF dp
<1>16. \A s \in graph.nodes \ origins' : (s = origin' /\ queue' # <<>>) \/ Covered(best', s)
  BY <1>1, <1>2, <1>14, <1>15
<1>17. best' = <<>> \/ (best' \in Seq(graph.nodes) /\ Len(best') > 1
              /\ best'[1] = best'[Len(best')] /\ Walk(best'))
  BY <1>1, <1>2 DEF BestInv
<1>18. /\ graph' = graph /\ origins' \subseteq graph.nodes
       /\ depth' \in [DOMAIN depth' -> Nat]
       /\ origin' \in graph.nodes \ origins'
       /\ Frontier(queue', depth', best', origin')
  BY <1>1, <1>2, <1>4, <1>11, <1>13, <1>15
<1>19. /\ queue' \in Seq(Seq(graph.nodes))
       /\ \A i \in DOMAIN queue' : PathFrom(origin', queue'[i])
       /\ \A i, j \in DOMAIN queue' : i < j => Len(queue'[i]) <= Len(queue'[j])
       /\ \A i, j \in DOMAIN queue' : Len(queue'[j]) <= Len(queue'[i]) + 1
  BY <1>1, <1>7, <1>8, <1>9, <1>10, <1>15
<1> QED
  BY <1>2, <1>16, <1>17, <1>18, <1>19, InvNext

(* When the queue is empty, the last origin is covered.                    *)
LEMMA OriginStep == SearchInv /\ FromOrigin => SearchInv'
<1> SUFFICES ASSUME SearchInv, FromOrigin PROVE SearchInv'
  OBVIOUS
<1> DEFINE o == Lowest(origins)
           E == Extensions(<<o>>)
           dp == [n \in {o} |-> 0]
<1>1. /\ queue = <<>> /\ origins # {} /\ origin' = o /\ origins' = origins \ {o}
      /\ queue' = E /\ depth' = dp /\ graph' = graph /\ best' = best
  BY DEF FromOrigin
<1>2. /\ Graph /\ origins \subseteq graph.nodes /\ BestInv
      /\ \A s \in graph.nodes \ origins : Covered(best, s)
  BY <1>1 DEF SearchInv
<1>3. best \in Seq(graph.nodes)
  <2>1. <<>> \in Seq(graph.nodes)
    OBVIOUS
  <2> QED
    BY <1>2, <2>1 DEF BestInv
<1>4. o \in origins
  <2>1. IsFiniteSet(origins) /\ origins \subseteq Nat
    BY <1>2, FS_Subset DEF Graph
  <2>2. \E n \in origins : \A m \in origins : n <= m
    BY <1>1, <2>1, LeastNumber
  <2> QED
    BY <2>2 DEF Lowest
<1>5. <<o>> \in Seq(graph.nodes) /\ <<o>> # <<>> /\ Walk(<<o>>) /\ Len(<<o>>) = 1
      /\ LastNode(<<o>>) = o /\ (<<o>>)[1] = o
  <2> HIDE DEF o
  <2>1. <<o>> \in Seq(graph.nodes) /\ <<o>> # <<>> /\ Len(<<o>>) = 1 /\ (<<o>>)[1] = o
    <3>1. \A S, x : x \in S => <<x>> \in Seq(S) /\ <<x>> # <<>> /\ Len(<<x>>) = 1 /\ (<<x>>)[1] = x
      OBVIOUS
    <3>2. o \in graph.nodes
      BY <1>2, <1>4
    <3> QED
      BY <3>1, <3>2
  <2>2. 1..(1 - 1) = {}
    OBVIOUS
  <2> QED
    BY <2>1, <2>2 DEF Walk, LastNode
<1>6. /\ E \in Seq(Seq(graph.nodes))
      /\ \A i \in DOMAIN E : PathFrom(o, E[i]) /\ Len(E[i]) = 2
      /\ \A n \in Successors(o) : \E i \in DOMAIN E : LastNode(E[i]) = n /\ Len(E[i]) = 2
  <2> DEFINE p == <<o>>
  <2>1. p \in Seq(graph.nodes) /\ p # <<>> /\ Walk(p) /\ E = Extensions(p)
        /\ Len(p) + 1 = 2 /\ LastNode(p) = o /\ p[1] = o
    BY <1>5
  <2> HIDE DEF p, E, o
  <2> QED
    BY <1>2, <2>1, ExtendedPaths
<1> HIDE DEF E, o
<1>7. dp \in [DOMAIN dp -> Nat] /\ DOMAIN dp \ {o} = {}
  OBVIOUS
<1> HIDE DEF dp
<1>8. Frontier(E, dp, best, o)
  <2>1. ASSUME NEW n \in Successors(o) PROVE Met(E, dp, best, o, n, 2)
    <3>1. PICK i \in DOMAIN E : LastNode(E[i]) = n /\ Len(E[i]) = 2
      BY <1>6
    <3>2. Len(E[i]) <= 2
      BY <3>1
    <3> QED
      BY <3>1, <3>2 DEF Met
  <2> QED
    BY <1>7, <2>1 DEF Frontier
<1>9. E = <<>> => Covered(best, o)
  BY <1>2, <1>3, <1>4, <1>7, <1>8, EmptyCovers
<1>10. \A s \in graph.nodes \ origins' : (s = origin' /\ queue' # <<>>) \/ Covered(best', s)
  BY <1>1, <1>2, <1>9
<1>11. best' = <<>> \/ (best' \in Seq(graph.nodes) /\ Len(best') > 1
              /\ best'[1] = best'[Len(best')] /\ Walk(best'))
  BY <1>1, <1>2 DEF BestInv
<1>12. /\ graph' = graph /\ origins' \subseteq graph.nodes
       /\ depth' \in [DOMAIN depth' -> Nat]
       /\ origin' \in graph.nodes \ origins'
       /\ Frontier(queue', depth', best', origin')
  BY <1>1, <1>2, <1>4, <1>7, <1>8
<1>13. /\ queue' \in Seq(Seq(graph.nodes))
       /\ \A i \in DOMAIN queue' : PathFrom(origin', queue'[i])
       /\ \A i, j \in DOMAIN queue' : i < j => Len(queue'[i]) <= Len(queue'[j])
       /\ \A i, j \in DOMAIN queue' : Len(queue'[j]) <= Len(queue'[i]) + 1
  BY <1>1, <1>6
<1> QED
  BY <1>2, <1>10, <1>11, <1>12, <1>13, InvNext

(* Every turn of the search keeps its invariant.                           *)
LEMMA SearchStep == SearchInv /\ Search => SearchInv'
BY DropStep, CloseStep, FollowStep, OriginStep DEF Search

(* If every node of a group had a predecessor in the group, a longest path *)
(* back through the group would run into itself.                           *)
LEMMA NoWalkNoCycle ==
    ASSUME Graph, \A k \in Nat \ {0} : ClosedWalks(k) = {}
    PROVE  WithoutCycle(graph)
<1>1. SUFFICES ASSUME NEW S \in SUBSET graph.nodes, S # {},
                      \A n \in S : Predecessors(graph, n) \cap S # {}
               PROVE  FALSE
  BY DEF WithoutCycle
<1>2. IsFiniteSet(S) /\ S \subseteq graph.nodes /\ Cardinality(S) \in Nat
  BY <1>1, FS_Subset, FS_CardinalityType DEF Graph
<1> DEFINE BackPath(w, k) ==
               /\ w \in [0..k -> S]
               /\ \A i \in 0..(k - 1) : <<w[i + 1], w[i]>> \in graph.pairs
               /\ \A i, j \in 0..k : w[i] = w[j] => i = j
           K == {k \in Nat : \E w : BackPath(w, k)}
<1>3. K # {}
  <2>1. PICK n \in S : TRUE
    BY <1>1
  <2> DEFINE w == [i \in 0..0 |-> n]
  <2>2. 0..(0 - 1) = {} /\ 0..0 = {0}
    OBVIOUS
  <2>3. BackPath(w, 0)
    BY <2>2
  <2> QED
    BY <2>3
<1>4. \A k \in K : k <= Cardinality(S)
  <2>1. SUFFICES ASSUME NEW k \in Nat, NEW w, BackPath(w, k), k > Cardinality(S)
                 PROVE  FALSE
    BY <1>2
  <2>2. IsFiniteSet(0..k) /\ Cardinality(0..k) = k + 1
    BY FS_Interval
  <2>3. \E i, j \in 0..k : i # j /\ w[i] = w[j]
    BY <1>2, <2>1, <2>2, FS_PigeonHole
  <2> QED
    BY <2>1, <2>3
<1>5. PICK k \in K : \A l \in K : l <= k
  <2>1. IsFiniteSet(K) /\ K \subseteq Nat
    BY <1>2, <1>4, FS_BoundedSetOfNaturals
  <2> HIDE DEF K
  <2> QED
    BY <1>3, <2>1, GreatestNumber
<1>6. PICK w : BackPath(w, k)
  OBVIOUS
<1>7. k \in Nat /\ k \in 0..k /\ w[k] \in S
  BY <1>6
<1>8. PICK p \in S : <<p, w[k]>> \in graph.pairs
  BY <1>1, <1>7 DEF Predecessors
<1>9. CASE \A i \in 0..k : w[i] # p
  <2> DEFINE z == [i \in 0..(k + 1) |-> IF i = k + 1 THEN p ELSE w[i]]
  <2>1. \A i \in 0..(k + 1) : i = k + 1 \/ (i \in 0..k /\ i # k + 1)
    BY <1>7
  <2>2. z \in [0..(k + 1) -> S]
    BY <1>6, <1>8, <2>1
  <2>3. ASSUME NEW i \in 0..((k + 1) - 1) PROVE <<z[i + 1], z[i]>> \in graph.pairs
    <3>1. i \in 0..k /\ i \in 0..(k + 1) /\ i + 1 \in 0..(k + 1) /\ i # k + 1
      BY <1>7
    <3>2. z[i] = w[i]
      BY <3>1
    <3>3. CASE i = k
      BY <1>8, <3>1, <3>2, <3>3
    <3>4. CASE i # k
      <4>1. i \in 0..(k - 1) /\ i + 1 # k + 1
        BY <1>7, <3>1, <3>4
      <4> QED
        BY <1>6, <3>1, <3>2, <4>1
    <3> QED
      BY <3>3, <3>4
  <2>4. ASSUME NEW i \in 0..(k + 1), NEW j \in 0..(k + 1), z[i] = z[j] PROVE i = j
    BY <1>6, <1>9, <2>1, <2>4
  <2>5. k + 1 \in K
    <3> HIDE DEF z
    <3>1. BackPath(z, k + 1)
      BY <2>2, <2>3, <2>4
    <3> HIDE DEF BackPath
    <3>2. k + 1 \in Nat /\ \E v : BackPath(v, k + 1)
      BY <1>7, <3>1
    <3> QED
      BY <3>2
  <2> HIDE DEF K
  <2>6. k + 1 <= k
    BY <1>5, <2>5
  <2> QED
    BY <1>7, <2>6
<1>10. CASE \E j \in 0..k : w[j] = p
  <2>1. PICK j \in 0..k : w[j] = p
    BY <1>10
  <2> DEFINE n == (k - j) + 1
             z == [i \in 0..n |-> IF i = 0 THEN p ELSE w[(k - i) + 1]]
  <2>2. n \in Nat \ {0} /\ 0 \in 0..n /\ n \in 0..n /\ (k - n) + 1 = j
    BY <1>7, <2>1
  <2>3. \A i \in 0..n : i = 0 \/ (k - i) + 1 \in 0..k
    BY <1>7, <2>1
  <2>4. z \in [0..n -> graph.nodes]
    <3>1. w \in [0..k -> S]
      BY <1>6
    <3> QED
      BY <1>2, <1>8, <2>3, <3>1
  <2>5. z[n] = z[0]
    BY <2>1, <2>2
  <2>6. ASSUME NEW i \in 0..(n - 1) PROVE <<z[i], z[i + 1]>> \in graph.pairs
    <3>1. i \in 0..n /\ i + 1 \in 0..n /\ i + 1 # 0 /\ (k - (i + 1)) + 1 = k - i
      BY <1>7, <2>1
    <3>2. z[i + 1] = w[k - i]
      BY <3>1
    <3>3. CASE i = 0
      <4>1. z[i] = p /\ z[i + 1] = w[k]
        BY <1>7, <3>1, <3>2, <3>3
      <4> QED
        BY <1>8, <4>1
    <3>4. CASE i # 0
      <4>1. z[i] = w[(k - i) + 1] /\ k - i \in 0..(k - 1)
        BY <1>7, <2>1, <3>1, <3>4
      <4>2. \A l \in 0..(k - 1) : <<w[l + 1], w[l]>> \in graph.pairs
        BY <1>6
      <4>3. <<w[(k - i) + 1], w[k - i]>> \in graph.pairs
        BY <4>1, <4>2
      <4> QED
        BY <3>2, <4>1, <4>3
    <3> QED
      BY <3>3, <3>4
  <2>7. z \in ClosedWalks(n)
    <3> HIDE DEF z, n
    <3> QED
      BY <2>4, <2>5, <2>6 DEF ClosedWalks
  <2> QED
    BY <1>1, <2>2, <2>7
<1> QED
  BY <1>9, <1>10

(* A search that has ended has covered every node: its cycle is a shortest *)
(* one, and there is no cycle if it has none.                              *)
LEMMA ShortestFollows == SearchInv => ShortestCycle
<1> SUFFICES ASSUME SearchInv, Searched PROVE ShortestCycle
  BY DEF ShortestCycle
<1>1. /\ Graph /\ BestInv
      /\ \A s \in graph.nodes : Covered(best, s)
  BY DEF SearchInv, Searched
<1>2. ASSUME NEW k \in Nat \ {0}, NEW w \in ClosedWalks(k)
      PROVE  best # <<>> /\ Len(best) <= k + 1
  <2>1. w \in [0..k -> graph.nodes] /\ 0 \in 0..k
    BY DEF ClosedWalks
  <2>2. w[0] \in graph.nodes
    BY <2>1
  <2> QED
    BY <1>1, <2>2 DEF Covered
<1>3. CASE best = <<>>
  <2>1. \A k \in Nat \ {0} : ClosedWalks(k) = {}
    BY <1>2, <1>3
  <2>2. WithoutCycle(graph)
    BY <1>1, <2>1, NoWalkNoCycle
  <2> QED
    BY <1>3, <2>2 DEF ShortestCycle
<1>4. CASE best # <<>>
  <2>1. Len(best) > 1 /\ best[1] = best[Len(best)] /\ Walk(best) /\ Len(best) \in Nat
    BY <1>1, <1>4 DEF BestInv
  <2>2. ASSUME NEW k \in 1..(Len(best) - 2) PROVE ClosedWalks(k) = {}
    <3>1. k \in Nat \ {0} /\ ~(Len(best) <= k + 1)
      BY <2>1
    <3> QED
      BY <1>2, <3>1
  <2> QED
    BY <1>4, <2>1, <2>2 DEF ShortestCycle
<1> QED
  BY <1>3, <1>4

-----------------------------------------------------------------------------
(* The inductive invariant of Kahn's algorithm.                            *)

(* The nodes that have been visited.                                       *)
Popped == {n \in graph.nodes : indegree[n] = 0} \ ready

(* Counts are those of predecessors not yet visited; the visited ones have *)
(* no cycle among them.                                                    *)
OrderInv ==
    /\ Graph
    /\ indegree \in [graph.nodes -> Nat] /\ ready \subseteq graph.nodes
    /\ \A n \in graph.nodes :
          indegree[n] = Cardinality(Predecessors(graph, n) \ Popped)
    /\ \A n \in ready : indegree[n] = 0
    /\ visited = Cardinality(Popped)
    /\ \A S \in SUBSET Popped : S # {} => \E n \in S : Predecessors(graph, n) \cap S = {}

(* A node is ready when its predecessors have been visited.                *)
LEMMA PredecessorsPopped ==
    ASSUME OrderInv, NEW n \in graph.nodes, indegree[n] = 0
    PROVE  Predecessors(graph, n) \subseteq Popped
<1>1. IsFiniteSet(Predecessors(graph, n) \ Popped)
  <2>1. Predecessors(graph, n) \ Popped \in SUBSET graph.nodes
    BY DEF Predecessors
  <2> QED
    BY <2>1, FS_Subset DEF OrderInv, Graph
<1>2. Cardinality(Predecessors(graph, n) \ Popped) = 0
  BY DEF OrderInv
<1>3. Predecessors(graph, n) \ Popped = {}
  BY <1>1, <1>2, FS_EmptySet
<1> QED
  BY <1>3

(* Every turn of the order keeps its invariant.                            *)
LEMMA VisitStep == OrderInv /\ Visit => OrderInv'
<1> SUFFICES ASSUME OrderInv, Visit PROVE OrderInv'
  OBVIOUS
<1> DEFINE n == Lowest(ready)
<1>1. /\ indegree' = [m \in DOMAIN indegree |->
                         IF m \in Successors(n) THEN indegree[m] - 1 ELSE indegree[m]]
      /\ ready' = (ready \ {n}) \cup {m \in Successors(n) : indegree'[m] = 0}
      /\ visited' = visited + 1 /\ graph' = graph /\ ready # {}
  BY DEF Visit
<1>2. /\ Graph /\ IsFiniteSet(graph.nodes) /\ graph.nodes \subseteq Nat
      /\ indegree \in [graph.nodes -> Nat] /\ ready \subseteq graph.nodes
      /\ \A m \in graph.nodes : indegree[m] = Cardinality(Predecessors(graph, m) \ Popped)
      /\ \A m \in ready : indegree[m] = 0
      /\ visited = Cardinality(Popped)
  BY DEF OrderInv, Graph
<1>3. n \in ready /\ n \in graph.nodes
  <2>1. IsFiniteSet(ready) /\ ready \subseteq Nat
    BY <1>2, FS_Subset
  <2>2. \E x \in ready : \A y \in ready : x <= y
    BY <1>1, <2>1, LeastNumber
  <2> QED
    BY <1>2, <2>2 DEF Lowest
<1> HIDE DEF n
<1>4. n \notin Popped /\ Popped \subseteq graph.nodes /\ IsFiniteSet(Popped)
  <2>1. Popped \in SUBSET graph.nodes
    BY DEF Popped
  <2> QED
    BY <1>2, <1>3, <2>1, FS_Subset DEF Popped
<1>5. \A m \in graph.nodes : m \in Successors(n) <=> n \in Predecessors(graph, m)
  BY <1>3 DEF Successors, Predecessors
<1>6. \A m \in graph.nodes : indegree[m] = 0 => m \notin Successors(n)
  BY <1>4, <1>5, PredecessorsPopped
<1>7. \A m \in graph.nodes :
         indegree'[m] = IF m \in Successors(n) THEN indegree[m] - 1 ELSE indegree[m]
  BY <1>1, <1>2
<1>8. Popped' = Popped \cup {n}
  <2>1. Popped' = {m \in graph.nodes : indegree'[m] = 0} \ ready'
    BY <1>1 DEF Popped
  <2>2. ASSUME NEW m \in graph.nodes, m \in Popped \/ m = n
        PROVE  indegree'[m] = 0 /\ m \notin ready'
    <3>1. indegree[m] = 0 /\ (m = n \/ m \notin ready)
      BY <1>2, <1>3, <2>2 DEF Popped
    <3> QED
      BY <1>1, <1>6, <1>7, <3>1
  <2>3. ASSUME NEW m \in graph.nodes, m \notin Popped, m # n, indegree'[m] = 0
        PROVE  m \in ready'
    <3>1. CASE m \in ready
      BY <1>1, <2>3, <3>1
    <3>2. CASE m \notin ready
      <4>1. indegree[m] # 0
        BY <2>3, <3>2 DEF Popped
      <4>2. m \in Successors(n)
        BY <1>7, <2>3, <4>1
      <4> QED
        BY <1>1, <2>3, <4>2
    <3> QED
      BY <3>1, <3>2
  <2>4. \A m : m \in Popped' <=> m \in Popped \cup {n}
    BY <1>3, <1>4, <2>1, <2>2, <2>3
  <2> QED
    BY <2>4
<1>9. \A m \in graph.nodes : Predecessors(graph, m)' = Predecessors(graph, m)
  BY <1>1 DEF Predecessors
<1>10. ASSUME NEW m \in graph.nodes
       PROVE  /\ indegree'[m] \in Nat
              /\ indegree'[m] = Cardinality(Predecessors(graph, m) \ (Popped \cup {n}))
  <2> DEFINE P == Predecessors(graph, m) \ Popped
  <2>1. IsFiniteSet(P) /\ P \ {n} = Predecessors(graph, m) \ (Popped \cup {n})
    <3>1. P \in SUBSET graph.nodes
      BY DEF Predecessors
    <3> QED
      BY <1>2, <3>1, FS_Subset
  <2>2. Cardinality(P \ {n}) = IF n \in P THEN Cardinality(P) - 1 ELSE Cardinality(P)
    BY <2>1, FS_RemoveElement
  <2>3. n \in P <=> m \in Successors(n)
    BY <1>4, <1>5
  <2>4. Cardinality(P \ {n}) \in Nat
    <3>1. IsFiniteSet(P \ {n})
      BY <2>1, FS_RemoveElement
    <3> QED
      BY <3>1, FS_CardinalityType
  <2>5. indegree[m] = Cardinality(P)
    BY <1>2
  <2> HIDE DEF P
  <2>6. indegree'[m] = Cardinality(P \ {n})
    BY <1>7, <2>2, <2>3, <2>5
  <2> QED
    BY <2>1, <2>4, <2>6
<1>11. Graph'
  BY <1>1, <1>2 DEF Graph
<1>12. indegree' \in [graph'.nodes -> Nat] /\ ready' \subseteq graph'.nodes
  <2>1. Successors(n) \subseteq graph.nodes
    BY DEF Successors
  <2> QED
    BY <1>1, <1>2, <1>7, <1>10, <2>1
<1>13. (\A m \in graph.nodes : indegree[m] = Cardinality(Predecessors(graph, m) \ Popped))'
  <2>1. ASSUME NEW m \in graph.nodes
        PROVE  indegree'[m] = Cardinality(Predecessors(graph', m) \ Popped')
    BY <1>1, <1>8, <1>10
  <2> QED
    BY <1>1, <2>1
<1>14. \A m \in ready' : indegree'[m] = 0
  <2>1. \A m \in ready : m \in graph.nodes /\ indegree'[m] = 0
    BY <1>2, <1>6, <1>7
  <2> QED
    BY <1>1, <2>1
<1>15. visited' = Cardinality(Popped')
  BY <1>1, <1>2, <1>4, <1>8, FS_AddElement
<1>16. ASSUME NEW S \in SUBSET Popped', S # {}
       PROVE  \E m \in S : Predecessors(graph', m) \cap S = {}
  <2>1. n \notin Predecessors(graph, n) /\ Predecessors(graph, n) \subseteq Popped
    BY <1>2, <1>3, <1>4, PredecessorsPopped
  <2>2. CASE S \cap Popped = {}
    <3>1. S = {n}
      BY <1>8, <1>16, <2>2
    <3> QED
      BY <1>1, <2>1, <3>1
  <2>3. CASE S \cap Popped # {}
    <3>1. PICK m \in S \cap Popped : Predecessors(graph, m) \cap (S \cap Popped) = {}
      <4>1. S \cap Popped \in SUBSET Popped
        OBVIOUS
      <4> QED
        BY <2>3, <4>1 DEF OrderInv
    <3>2. Predecessors(graph, m) \subseteq Popped
      BY PredecessorsPopped DEF Popped
    <3> QED
      BY <1>1, <3>1, <3>2
  <2> QED
    BY <2>2, <2>3
<1> QED
  BY <1>11, <1>12, <1>13, <1>14, <1>15, <1>16 DEF OrderInv

(* When no node is left to visit, all were visited exactly if there is no  *)
(* cycle: of the others each would still wait for another.                 *)
LEMMA OrderedFollows == OrderInv /\ Visited => (Ordered <=> WithoutCycle(graph))
<1> SUFFICES ASSUME OrderInv, Visited PROVE Ordered <=> WithoutCycle(graph)
  OBVIOUS
<1>1. /\ IsFiniteSet(graph.nodes) /\ Popped \in SUBSET graph.nodes
      /\ ready = {} /\ visited = Cardinality(Popped)
  BY DEF OrderInv, Graph, Popped, Visited
<1>2. Ordered <=> Popped = graph.nodes
  BY <1>1, FS_Subset DEF Ordered
<1>3. Popped = graph.nodes => WithoutCycle(graph)
  BY DEF OrderInv, WithoutCycle
<1>4. ASSUME WithoutCycle(graph), Popped # graph.nodes PROVE FALSE
  <2>1. graph.nodes \ Popped # {} /\ graph.nodes \ Popped \in SUBSET graph.nodes
    BY <1>1, <1>4
  <2>2. PICK n \in graph.nodes \ Popped :
            Predecessors(graph, n) \cap (graph.nodes \ Popped) = {}
    BY <1>4, <2>1 DEF WithoutCycle
  <2>3. Predecessors(graph, n) \ Popped = {}
    BY <2>2 DEF Predecessors
  <2>4. indegree[n] = 0
    BY <2>2, <2>3, FS_EmptySet DEF OrderInv
  <2> QED
    BY <1>1, <2>2, <2>4 DEF Popped
<1> QED
  BY <1>2, <1>3, <1>4

(* A finite graph.                                                         *)
IsGraph(g) ==
    /\ g = [nodes |-> g.nodes, pairs |-> g.pairs]
    /\ g.nodes \subseteq Nat /\ IsFiniteSet(g.nodes)
    /\ g.pairs \subseteq g.nodes \X g.nodes

(* A search begins with its invariant.                                     *)
LEMMA SearchBegins ==
    ASSUME NEW g, IsGraph(g), BeginSearch(g)
    PROVE  SearchInv'
<1>1. /\ graph' = g /\ origins' = g.nodes /\ origin' = Nowhere /\ queue' = <<>>
      /\ depth' = <<>> /\ best' = <<>>
  BY DEF BeginSearch
<1>2. Graph'
  BY <1>1 DEF Graph, IsGraph
<1>3. QueueInv'
  <2>1. queue' \in Seq(Seq(graph'.nodes)) /\ DOMAIN queue' = {}
    BY <1>1
  <2> QED
    BY <1>1, <2>1 DEF QueueInv
<1>4. BestInv' /\ DepthInv'
  BY <1>1 DEF BestInv, DepthInv
<1> QED
  BY <1>1, <1>2, <1>3, <1>4 DEF SearchInv

(* An order begins with its invariant.                                     *)
LEMMA OrderBegins ==
    ASSUME NEW g, IsGraph(g), BeginOrder(g)
    PROVE  OrderInv' /\ graph' = g
<1>1. /\ graph' = g
      /\ indegree' = [n \in g.nodes |-> Cardinality(Predecessors(g, n))]
      /\ ready' = {n \in g.nodes : indegree'[n] = 0} /\ visited' = 0
  BY DEF BeginOrder
<1>2. Graph'
  BY <1>1 DEF Graph, IsGraph
<1>3. Popped' = {}
  BY <1>1 DEF Popped
<1>4. indegree' \in [graph'.nodes -> Nat] /\ ready' \subseteq graph'.nodes
  <2>1. ASSUME NEW n \in g.nodes PROVE Cardinality(Predecessors(g, n)) \in Nat
    <3>1. Predecessors(g, n) \in SUBSET g.nodes
      BY DEF Predecessors
    <3>2. IsFiniteSet(Predecessors(g, n))
      BY <3>1, FS_Subset DEF IsGraph
    <3> QED
      BY <3>2, FS_CardinalityType
  <2> QED
    BY <1>1, <2>1
<1>5. \A n \in graph'.nodes : indegree'[n] = Cardinality(Predecessors(graph', n) \ Popped')
  <2>1. \A S : S \ {} = S
    OBVIOUS
  <2> QED
    BY <1>1, <1>3, <2>1
<1>6. visited' = Cardinality(Popped')
  BY <1>1, <1>3, FS_EmptySet
<1>7. \A S \in SUBSET Popped' : S # {} => \E n \in S : Predecessors(graph', n) \cap S = {}
  BY <1>3
<1> QED
  BY <1>1, <1>2, <1>4, <1>5, <1>6, <1>7 DEF OrderInv

-----------------------------------------------------------------------------
(* The interventions of a scenario.                                        *)

(* The interventions that the loop has applied.                            *)
Done == {ops[i] : i \in 1..(at - 1)}

(* A completed task may be given a duration on the way; validation refuses *)
(* it in the end.                                                          *)
TaskSoFar(was, D, task) ==
    /\ Of(D, {"completed"}) = {} => DurationReflects(was, D, task)
    /\ AttributesReflect(was, D, task)

(* The tasks, but for those taken out of scope.                            *)
TasksSoFar(was, D, tasks) ==
    /\ DOMAIN tasks = DOMAIN was \ Removed(D)
    /\ \A t \in DOMAIN tasks : TaskSoFar(was[t], ForTask(D, t), tasks[t])

(* A pair of tasks has one dependency.                                     *)
OneLag(edges) == \A d, e \in edges : Pair(d) = Pair(e) => d = e

(* The inductive invariant of the loop over the interventions.             *)
CompileInv ==
    /\ WellFormed(request)
    /\ baseline = Baseline(snap)
    /\ ExecutionPlan(baseline) /\ ExecutionPlan(primary)
    /\ at \in 1..(Len(ops) + 1)
    /\ TasksSoFar(baseline.tasks, Done, primary.tasks)
    /\ EdgesReflect(baseline.edges, Done, primary.edges)
    /\ TeamsReflect(baseline.teams, Done, primary.teams)
    /\ OneLag(primary.edges)

-----------------------------------------------------------------------------
(* What an intervention is, and what it means that its target is new.      *)

(* The attributes of an intervention, by kind.                             *)
LEMMA Kinds ==
    ASSUME NEW o \in Intervention
    PROVE  /\ o.kind \in TaskKinds \cup {"add", "remove", "scope", "capacity"}
           /\ o.kind \in TaskKinds \cup {"scope"} => o.task \in Nat
           /\ o.kind = "duration" => o.lo \in Nat /\ o.hi \in Nat /\ o.shape \in Nat
           /\ o.kind = "shift" => o.delta \in Int
           /\ o.kind = "earliest" => o.at \in Int
           /\ o.kind = "blocker" => o.until \in Int
           /\ o.kind = "completed" => o.finish \in Int
           /\ o.kind = "add" => Added(o) \in PlanEdge
           /\ o.kind = "capacity" => o.delta \in Int
<1>1. CASE o \in OnTask
  BY <1>1 DEF OnTask, TaskKinds
<1>2. CASE o \in OnEdge
  BY <1>2 DEF OnEdge, TaskKinds, Added, PlanEdge
<1>3. CASE o \in OnScope \cup OnTeam
  BY <1>3 DEF OnScope, OnTeam, TaskKinds
<1> QED
  BY <1>1, <1>2, <1>3 DEF Intervention

(* o changes nothing that one of D changes.                                *)
Fresh(D, o) ==
    /\ o.kind \in {"duration", "shift"} =>
          \A x \in D : x.kind \in {"duration", "shift"} => x.task # o.task
    /\ o.kind \in {"earliest", "blocker", "completed"} =>
          \A x \in D : x.kind = o.kind => x.task # o.task
    /\ o.kind \in {"add", "remove"} =>
          \A x \in D : x.kind \in {"add", "remove"} => Pair(x) # Pair(o)
    /\ o.kind = "capacity" => \A x \in D : x.kind = "capacity" => x.team # o.team
    /\ o.kind \in TaskKinds => \A x \in D : x.kind = "scope" => x.task # o.task
    /\ o.kind = "scope" => \A x \in D : x.kind \in TaskKinds => x.task # o.task

(* An intervention that may be applied has a target of its own.            *)
LEMMA NewTarget ==
    ASSUME CompileInv, at <= Len(ops), MayIntervene
    PROVE  Fresh(Done, ops[at]) /\ ops[at] \in Intervention /\ Done \subseteq Intervention
<1> DEFINE o == ops[at]
<1>1. at \in Nat /\ at >= 1 /\ Len(ops) \in Nat /\ ops \in Seq(Intervention)
  BY DEF CompileInv, WellFormed, ops
<1>2. DOMAIN ops = 1..Len(ops) /\ at \in DOMAIN ops /\ \A i \in DOMAIN ops : ops[i] \in Intervention
  BY <1>1
<1>3. \A i \in 1..(at - 1) : i \in DOMAIN ops /\ i # at
  BY <1>1, <1>2
<1>4. o \in Intervention /\ Done \subseteq Intervention
  BY <1>2, <1>3 DEF Done
<1>5. \A x \in Done : Target(x) # Target(o)
  BY DEF MayIntervene, Done
<1>6. /\ o.kind = "scope" => \A x \in Done : OfTask(x) => x.task # o.task
      /\ OfTask(o) => \A x \in Done : x.kind = "scope" => x.task # o.task
  BY <1>2, <1>3 DEF MayIntervene, ScopeIsAlone, Done
<1>7. ASSUME NEW x \in Done
      PROVE  /\ (o.kind \in {"duration", "shift"} /\ x.kind \in {"duration", "shift"})
                   => x.task # o.task
             /\ (o.kind \in {"earliest", "blocker", "completed"} /\ x.kind = o.kind)
                   => x.task # o.task
             /\ (o.kind \in {"add", "remove"} /\ x.kind \in {"add", "remove"})
                   => Pair(x) # Pair(o)
             /\ (o.kind = "capacity" /\ x.kind = "capacity") => x.team # o.team
  <2>1. Target(x) # Target(o)
    BY <1>5
  <2> HIDE DEF o
  <2> QED
    BY <2>1 DEF Target, Pair
<1> QED
  BY <1>4, <1>6, <1>7 DEF Fresh, OfTask

-----------------------------------------------------------------------------
(* One intervention, attribute by attribute.                               *)

(* One more intervention.                                                  *)
LEMMA OfWith ==
    ASSUME NEW D, NEW o, NEW K
    PROVE  /\ o.kind \in K => Of(D \cup {o}, K) = Of(D, K) \cup {o}
           /\ o.kind \notin K => Of(D \cup {o}, K) = Of(D, K)
  BY DEF Of

(* A task with other durations is a task.                                  *)
LEMMA Estimated ==
    ASSUME NEW task \in PlanTask, NEW lo \in Int, NEW hi \in Int, NEW shape \in Nat
    PROVE  [task EXCEPT !.lo = lo, !.hi = hi, !.shape = shape] \in PlanTask
  BY DEF PlanTask

(* A task with shifted durations is a task.                                *)
LEMMA Shifted ==
    ASSUME NEW task \in PlanTask, NEW delta \in Int
    PROVE  [task EXCEPT !.lo = task.lo + delta, !.hi = task.hi + delta] \in PlanTask
<1>1. task.lo + delta \in Int /\ task.hi + delta \in Int
  BY DEF PlanTask
<1> QED
  BY <1>1 DEF PlanTask

(* A completed task is a task.                                             *)
LEMMA Completed ==
    ASSUME NEW task \in PlanTask, NEW day \in Int
    PROVE  [task EXCEPT !.state = "completed", !.lo = 0, !.hi = 0, !.finish = day] \in PlanTask
<1>1. PICK new : new = [task EXCEPT !.state = "completed", !.lo = 0, !.hi = 0, !.finish = day]
  OBVIOUS
<1>2. new = [state |-> new.state, team |-> new.team, lo |-> new.lo, hi |-> new.hi,
             shape |-> new.shape, earliest |-> new.earliest, until |-> new.until,
             finish |-> new.finish]
  BY <1>1 DEF PlanTask
<1>3. /\ new.state = "completed" /\ new.team = task.team /\ new.lo = 0 /\ new.hi = 0
      /\ new.shape = task.shape /\ new.earliest = task.earliest /\ new.until = task.until
      /\ new.finish = day
  BY <1>1 DEF PlanTask
<1>4. /\ new.state \in {"open", "completed", "cancelled"} /\ new.team \in STRING
      /\ new.lo \in Int /\ new.hi \in Int /\ new.shape \in Nat
      /\ new.earliest \in Int /\ new.until \in Int /\ new.finish \in Int
  BY <1>3 DEF PlanTask
<1> QED
  BY <1>1, <1>2, <1>4 DEF PlanTask

(* A task reflects the interventions on it, one more included.             *)
LEMMA TaskStep ==
    ASSUME NEW was \in PlanTask, NEW task \in PlanTask,
           NEW o \in Intervention, o.kind \in TaskKinds,
           NEW D, \A x \in D : x.task = o.task, Fresh(D, o),
           TaskSoFar(was, D, task)
    PROVE  /\ TaskAfter(task, o) \in PlanTask
           /\ TaskSoFar(was, D \cup {o}, TaskAfter(task, o))
<1> DEFINE E == D \cup {o}
           new == TaskAfter(task, o)
<1>1. CASE o.kind = "duration"
  <2>1. /\ new.lo = o.lo /\ new.hi = o.hi /\ new.shape = o.shape
        /\ new.state = task.state /\ new.team = task.team /\ new.earliest = task.earliest
        /\ new.until = task.until /\ new.finish = task.finish
        /\ new \in PlanTask
    <3>1. o.lo \in Int /\ o.hi \in Int /\ o.shape \in Nat
      BY <1>1, Kinds
    <3>2. new = [task EXCEPT !.lo = o.lo, !.hi = o.hi, !.shape = o.shape]
      BY <1>1 DEF TaskAfter
    <3> HIDE DEF new
    <3>3. new \in PlanTask
      BY <3>1, <3>2, Estimated
    <3>4. new.lo = o.lo
      BY <3>2 DEF PlanTask
    <3> QED
      BY <3>2, <3>3 DEF PlanTask
  <2>2. Of(D, {"duration"}) = {} /\ Of(D, {"shift"}) = {}
    BY <1>1 DEF Fresh, Of
  <2>3. /\ Of(E, {"duration"}) = {o} /\ Of(E, {"shift"}) = {}
        /\ o \in Of(E, {"duration", "shift"})
        /\ Of(E, {"completed"}) = Of(D, {"completed"})
        /\ Of(E, {"earliest"}) = Of(D, {"earliest"})
        /\ Of(E, {"blocker"}) = Of(D, {"blocker"})
    BY <1>1, <2>2 DEF Of
  <2> HIDE DEF E, new
  <2>4. DurationReflects(was, E, new)  \/ Of(E, {"completed"}) # {}
    BY <2>1, <2>3 DEF DurationReflects
  <2>5. AttributesReflect(was, E, new)
    BY <2>1, <2>2, <2>3 DEF AttributesReflect, TaskSoFar
  <2> QED
    BY <2>1, <2>4, <2>5 DEF TaskSoFar, E, new
<1>2. CASE o.kind = "shift"
  <2>1. /\ new.lo = task.lo + o.delta /\ new.hi = task.hi + o.delta /\ new.shape = task.shape
        /\ new.state = task.state /\ new.team = task.team /\ new.earliest = task.earliest
        /\ new.until = task.until /\ new.finish = task.finish
        /\ new \in PlanTask
    <3>1. o.delta \in Int
      BY <1>2, Kinds
    <3>2. new = [task EXCEPT !.lo = task.lo + o.delta, !.hi = task.hi + o.delta]
      BY <1>2 DEF TaskAfter
    <3> HIDE DEF new
    <3>3. new \in PlanTask
      BY <3>1, <3>2, Shifted
    <3>4. new.lo = task.lo + o.delta
      BY <3>2 DEF PlanTask
    <3> QED
      BY <3>2, <3>3 DEF PlanTask
  <2>2. Of(D, {"duration", "shift"}) = {} /\ Of(D, {"duration"}) = {} /\ Of(D, {"shift"}) = {}
    BY <1>2 DEF Fresh, Of
  <2>3. /\ Of(E, {"duration"}) = {} /\ Of(E, {"shift"}) = {o}
        /\ o \in Of(E, {"duration", "shift"})
        /\ Of(E, {"completed"}) = Of(D, {"completed"})
        /\ Of(E, {"earliest"}) = Of(D, {"earliest"})
        /\ Of(E, {"blocker"}) = Of(D, {"blocker"})
    BY <1>2, <2>2 DEF Of
  <2> HIDE DEF E, new
  <2>4. DurationReflects(was, E, new)  \/ Of(E, {"completed"}) # {}
    BY <2>1, <2>2, <2>3 DEF DurationReflects, TaskSoFar
  <2>5. AttributesReflect(was, E, new)
    BY <2>1, <2>2, <2>3 DEF AttributesReflect, TaskSoFar
  <2> QED
    BY <2>1, <2>4, <2>5 DEF TaskSoFar, E, new
<1>3. CASE o.kind = "earliest"
  BY <1>3, Kinds DEF TaskAfter, PlanTask, TaskSoFar, DurationReflects, AttributesReflect, Of, Fresh
<1>4. CASE o.kind = "blocker"
  BY <1>4, Kinds DEF TaskAfter, PlanTask, TaskSoFar, DurationReflects, AttributesReflect, Of, Fresh
<1>5. CASE o.kind = "completed"
  <2>1. /\ new.shape = task.shape /\ new.finish = o.finish
        /\ new.state = "completed" /\ new.team = task.team /\ new.earliest = task.earliest
        /\ new.until = task.until
        /\ new \in PlanTask
    <3>1. o.finish \in Int
      BY <1>5, Kinds
    <3>2. new = [task EXCEPT !.state = "completed", !.lo = 0, !.hi = 0, !.finish = o.finish]
      BY <1>5 DEF TaskAfter
    <3> HIDE DEF new
    <3>3. new \in PlanTask
      BY <3>1, <3>2, Completed
    <3>4. new.lo = 0
      BY <3>2 DEF PlanTask
    <3> QED
      BY <3>2, <3>3 DEF PlanTask
  <2>2. Of(D, {"completed"}) = {}
    BY <1>5 DEF Fresh, Of
  <2>3. /\ Of(E, {"completed"}) = {o}
        /\ Of(E, {"duration"}) = Of(D, {"duration"})
        /\ Of(E, {"earliest"}) = Of(D, {"earliest"})
        /\ Of(E, {"blocker"}) = Of(D, {"blocker"})
    BY <1>5, <2>2 DEF Of
  <2> HIDE DEF E, new
  <2>5. AttributesReflect(was, E, new)
    BY <2>1, <2>2, <2>3 DEF AttributesReflect, TaskSoFar
  <2> QED
    BY <2>1, <2>3, <2>5 DEF TaskSoFar, E, new
<1> QED
  BY <1>1, <1>2, <1>3, <1>4, <1>5 DEF TaskKinds

(* Tasks and teams of a plan.                                              *)
TypedTasks(tasks) == DOMAIN tasks \subseteq Nat /\ tasks \in [DOMAIN tasks -> PlanTask]
TypedTeams(teams) == teams \in [DOMAIN teams -> PlanTeam]

(* So do the tasks of a plan,                                              *)
LEMMA TasksStep ==
    ASSUME NEW was, TypedTasks(was), NEW tasks, TypedTasks(tasks),
           NEW o \in Intervention, NEW D, D \subseteq Intervention,
           Fresh(D, o), OfTask(o) => o.task \in DOMAIN tasks,
           TasksSoFar(was, D, tasks)
    PROVE  /\ TypedTasks(TasksAfter(tasks, o))
           /\ TasksSoFar(was, D \cup {o}, TasksAfter(tasks, o))
<1> DEFINE E == D \cup {o}
           new == TasksAfter(tasks, o)
<1>1. CASE o.kind \in TaskKinds
  <2>1. o.task \in DOMAIN tasks
    BY <1>1 DEF OfTask
  <2>2. o.kind \notin {"scope", "add", "remove", "capacity"}
    BY <1>1 DEF TaskKinds
  <2>3. new = [tasks EXCEPT ![o.task] = TaskAfter(tasks[o.task], o)]
    BY <1>1, <2>2 DEF TasksAfter
  <2>4. Removed(E) = Removed(D)
    BY <2>2 DEF Removed, Of
  <2>5. DOMAIN new = DOMAIN tasks /\ DOMAIN tasks = DOMAIN was \ Removed(D)
    BY <2>3 DEF TasksSoFar
  <2>6. ForTask(E, o.task) = ForTask(D, o.task) \cup {o}
    BY <1>1 DEF ForTask
  <2>7. \A t : t # o.task => ForTask(E, t) = ForTask(D, t)
    BY DEF ForTask
  <2>8. Fresh(ForTask(D, o.task), o) /\ \A x \in ForTask(D, o.task) : x.task = o.task
    BY DEF Fresh, ForTask
  <2>9. /\ was[o.task] \in PlanTask /\ tasks[o.task] \in PlanTask
        /\ TaskSoFar(was[o.task], ForTask(D, o.task), tasks[o.task])
    BY <2>1, <2>5 DEF TypedTasks, TasksSoFar
  <2>10. /\ TaskAfter(tasks[o.task], o) \in PlanTask
         /\ TaskSoFar(was[o.task], ForTask(E, o.task), TaskAfter(tasks[o.task], o))
    <3> HIDE DEF E
    <3> QED
      BY <1>1, <2>6, <2>8, <2>9, TaskStep
  <2> HIDE DEF E, new
  <2>11. TypedTasks(new)
    BY <2>3, <2>10 DEF TypedTasks
  <2>12. ASSUME NEW t \in DOMAIN new
         PROVE  TaskSoFar(was[t], ForTask(E, t), new[t])
    <3>1. CASE t = o.task
      BY <3>1, <2>1, <2>3, <2>10
    <3>2. CASE t # o.task
      BY <3>2, <2>3, <2>5, <2>7 DEF TasksSoFar
    <3> QED
      BY <3>1, <3>2
  <2> QED
    BY <2>4, <2>5, <2>11, <2>12 DEF TasksSoFar, E, new
<1>2. CASE o.kind = "scope"
  <2>1. new = [t \in DOMAIN tasks \ {o.task} |-> tasks[t]]
    BY <1>2 DEF TasksAfter, TaskKinds
  <2>2. Removed(E) = Removed(D) \cup {o.task}
    BY <1>2 DEF Removed, Of
  <2>3. \A t : ForTask(E, t) = ForTask(D, t)
    BY <1>2 DEF ForTask, TaskKinds
  <2> HIDE DEF E, new
  <2>4. TypedTasks(new)
    BY <2>1 DEF TypedTasks
  <2>5. TasksSoFar(was, E, new)
    BY <2>1, <2>2, <2>3 DEF TasksSoFar
  <2> QED
    BY <2>4, <2>5 DEF E, new
<1>3. CASE o.kind \in {"add", "remove", "capacity"}
  <2>1. new = tasks
    BY <1>3 DEF TasksAfter, TaskKinds
  <2>2. Removed(E) = Removed(D)
    BY <1>3 DEF Removed, Of
  <2>3. \A t : ForTask(E, t) = ForTask(D, t)
    BY <1>3 DEF ForTask, TaskKinds
  <2> HIDE DEF E, new
  <2>4. TasksSoFar(was, E, new)
    BY <2>1, <2>2, <2>3 DEF TasksSoFar
  <2> QED
    BY <2>1, <2>4 DEF E, new
<1> QED
  BY <1>1, <1>2, <1>3, Kinds

(* its dependencies,                                                       *)
LEMMA EdgesStep ==
    ASSUME NEW was, NEW edges, NEW o \in Intervention, NEW D, D \subseteq Intervention,
           Fresh(D, o), o.kind = "add" => o.from \notin Removed(D) /\ o.to \notin Removed(D),
           EdgesReflect(was, D, edges)
    PROVE  EdgesReflect(was, D \cup {o}, EdgesAfter(edges, o))
<1> DEFINE E == D \cup {o}
           new == EdgesAfter(edges, o)
           Named(S) == {Pair(x) : x \in Of(S, {"add", "remove"})}
           AddedBy(S) == {Added(x) : x \in Of(S, {"add"})}
           Kept(S) == {e \in {d \in was : Pair(d) \notin Named(S)} \cup AddedBy(S) :
                          e.from \notin Removed(S) /\ e.to \notin Removed(S)}
<1>1. edges = Kept(D)
  BY DEF EdgesReflect
<1>2. SUFFICES new = Kept(E)
  BY DEF EdgesReflect
<1>3. CASE o.kind = "add"
  <2>1. new = {e \in edges : Pair(e) # Pair(o)} \cup {Added(o)}
    BY <1>3 DEF EdgesAfter
  <2>2. Removed(E) = Removed(D)
    BY <1>3 DEF Removed, Of
  <2>3. Named(E) = Named(D) \cup {Pair(o)} /\ AddedBy(E) = AddedBy(D) \cup {Added(o)}
    BY <1>3 DEF Of
  <2>4. \A e \in AddedBy(D) : Pair(e) # Pair(o)
    BY <1>3 DEF Of, Fresh, Pair, Added
  <2>5. Added(o).from \notin Removed(D) /\ Added(o).to \notin Removed(D)
    BY <1>3 DEF Added
  <2> HIDE DEF E, new, Named, AddedBy
  <2> QED
    BY <1>1, <2>1, <2>2, <2>3, <2>4, <2>5
<1>4. CASE o.kind = "remove"
  <2>1. new = {e \in edges : Pair(e) # Pair(o)}
    BY <1>4 DEF EdgesAfter
  <2>2. Removed(E) = Removed(D)
    BY <1>4 DEF Removed, Of
  <2>3. Named(E) = Named(D) \cup {Pair(o)} /\ AddedBy(E) = AddedBy(D)
    BY <1>4 DEF Of
  <2>4. \A e \in AddedBy(D) : Pair(e) # Pair(o)
    BY <1>4 DEF Of, Fresh, Pair, Added
  <2> HIDE DEF E, new, Named, AddedBy
  <2> QED
    BY <1>1, <2>1, <2>2, <2>3, <2>4
<1>5. CASE o.kind = "scope"
  <2>1. new = {e \in edges : o.task \notin {e.from, e.to}}
    BY <1>5 DEF EdgesAfter
  <2>2. Removed(E) = Removed(D) \cup {o.task}
    BY <1>5 DEF Removed, Of
  <2>3. Named(E) = Named(D) /\ AddedBy(E) = AddedBy(D)
    BY <1>5 DEF Of
  <2> HIDE DEF E, new, Named, AddedBy
  <2> QED
    BY <1>1, <2>1, <2>2, <2>3
<1>6. CASE o.kind \in TaskKinds \cup {"capacity"}
  <2>1. new = edges
    BY <1>6 DEF EdgesAfter, TaskKinds
  <2>2. Removed(E) = Removed(D)
    BY <1>6 DEF Removed, Of, TaskKinds
  <2>3. Named(E) = Named(D) /\ AddedBy(E) = AddedBy(D)
    BY <1>6 DEF Of, TaskKinds
  <2> HIDE DEF E, new, Named, AddedBy
  <2> QED
    BY <1>1, <2>1, <2>2, <2>3
<1> QED
  BY <1>3, <1>4, <1>5, <1>6, Kinds

(* which keep one lag for a pair,                                          *)
LEMMA LagsStep ==
    ASSUME NEW edges, edges \subseteq PlanEdge, OneLag(edges), NEW o \in Intervention
    PROVE  EdgesAfter(edges, o) \subseteq PlanEdge /\ OneLag(EdgesAfter(edges, o))
<1>1. CASE o.kind = "add"
  <2>1. Added(o) \in PlanEdge /\ Pair(Added(o)) = Pair(o)
    BY <1>1, Kinds DEF Added, Pair
  <2>2. EdgesAfter(edges, o) = {e \in edges : Pair(e) # Pair(o)} \cup {Added(o)}
    BY <1>1 DEF EdgesAfter
  <2> QED
    BY <2>1, <2>2 DEF OneLag
<1>2. CASE o.kind # "add"
  <2>1. EdgesAfter(edges, o) \subseteq edges
    BY <1>2, Kinds DEF EdgesAfter
  <2> QED
    BY <2>1 DEF OneLag
<1> QED
  BY <1>1, <1>2

(* and its teams.                                                          *)
LEMMA TeamsStep ==
    ASSUME NEW was, NEW teams, TypedTeams(teams),
           NEW o \in Intervention, NEW D, D \subseteq Intervention, Fresh(D, o),
           o.kind = "capacity" => o.team \in DOMAIN teams,
           TeamsReflect(was, D, teams)
    PROVE  /\ TypedTeams(TeamsAfter(teams, o))
           /\ TeamsReflect(was, D \cup {o}, TeamsAfter(teams, o))
<1> DEFINE E == D \cup {o}
           new == TeamsAfter(teams, o)
           Changing(S, g) == {x \in Of(S, {"capacity"}) : x.team = g}
<1>1. CASE o.kind = "capacity"
  <2>1. PICK changed :
          changed = [teams[o.team] EXCEPT !.capacity = teams[o.team].capacity + o.delta]
    OBVIOUS
  <2>2. new = [teams EXCEPT ![o.team] = changed]
    BY <1>1, <2>1 DEF TeamsAfter
  <2>3. teams[o.team] \in PlanTeam /\ o.delta \in Int
    BY <1>1, Kinds DEF TypedTeams
  <2>4. /\ changed.capacity = teams[o.team].capacity + o.delta
        /\ changed.slowdown = teams[o.team].slowdown
        /\ changed \in PlanTeam
    BY <2>1, <2>3 DEF PlanTeam
  <2>5. Changing(D, o.team) = {} /\ Changing(E, o.team) = {o}
    BY <1>1 DEF Of, Fresh
  <2>6. \A g : g # o.team => Changing(E, g) = Changing(D, g)
    BY DEF Of
  <2>7. teams[o.team].capacity = was[o.team].capacity /\ DOMAIN teams = DOMAIN was
    BY <1>1, <2>5 DEF TeamsReflect
  <2> HIDE DEF new
  <2>8. DOMAIN new = DOMAIN teams /\ TypedTeams(new)
    BY <2>2, <2>4 DEF TypedTeams
  <2>9. ASSUME NEW g \in DOMAIN new
        PROVE  /\ new[g].slowdown = was[g].slowdown
               /\ \A x \in Changing(E, g) : new[g].capacity = was[g].capacity + x.delta
               /\ Changing(E, g) = {} => new[g].capacity = was[g].capacity
    <3> HIDE DEF E, Changing
    <3>1. CASE g = o.team
      <4>1. new[g] = changed
        BY <3>1, <2>2, <2>8
      <4>2. teams[g].slowdown = was[g].slowdown
        BY <2>8 DEF TeamsReflect
      <4> QED
        BY <3>1, <4>1, <4>2, <2>4, <2>5, <2>7
    <3>2. CASE g # o.team
      <4>1. new[g] = teams[g] /\ g \in DOMAIN teams
        BY <3>2, <2>2, <2>8
      <4> QED
        BY <3>2, <4>1, <2>6 DEF TeamsReflect, Changing
    <3> QED
      BY <3>1, <3>2
  <2> QED
    BY <2>7, <2>8, <2>9 DEF TeamsReflect, new
<1>2. CASE o.kind # "capacity"
  <2>1. new = teams
    BY <1>2 DEF TeamsAfter
  <2>2. Of(E, {"capacity"}) = Of(D, {"capacity"})
    BY <1>2 DEF Of
  <2> HIDE DEF E, new
  <2>3. TeamsReflect(was, E, new)
    BY <2>1, <2>2 DEF TeamsReflect
  <2> QED
    BY <2>1, <2>3 DEF E, new
<1> QED
  BY <1>1, <1>2

(* The parts of a plan after an intervention.                              *)
LEMMA PlanAfter ==
    ASSUME NEW plan, NEW o
    PROVE  /\ Applied(plan, o).tasks = TasksAfter(plan.tasks, o)
           /\ Applied(plan, o).edges = EdgesAfter(plan.edges, o)
           /\ Applied(plan, o).teams = TeamsAfter(plan.teams, o)
           /\ Applied(plan, o).target = plan.target
           /\ Applied(plan, o) =
                 [tasks |-> Applied(plan, o).tasks, edges |-> Applied(plan, o).edges,
                  teams |-> Applied(plan, o).teams, target |-> Applied(plan, o).target]
  BY DEF Applied

-----------------------------------------------------------------------------
(* The invariant.                                                          *)

(* The invariant holds when no intervention has been applied,              *)
LEMMA Beginning ==
    ASSUME WellFormed(request), baseline = Baseline(snap), primary = Baseline(snap), at = 1
    PROVE  CompileInv
<1>1. Done = {}
  BY DEF Done
<1>2. \A K, t : Of({}, K) = {} /\ ForTask({}, t) = {} /\ Removed({}) = {}
  BY DEF Of, ForTask, Removed
<1>3. /\ TypedTasks(snap.tasks) /\ snap.deps \subseteq PlanEdge /\ TypedTeams(snap.teams)
      /\ ops \in Seq(Intervention)
  BY DEF WellFormed, TypedTasks, TypedTeams, snap, ops
<1>4. /\ primary.tasks = snap.tasks /\ primary.edges = GreatestLags(snap.deps)
      /\ primary.teams = snap.teams
      /\ primary = [tasks |-> primary.tasks, edges |-> primary.edges, teams |-> primary.teams,
                    target |-> primary.target]
  BY DEF Baseline
<1>5. primary.edges \subseteq PlanEdge /\ OneLag(primary.edges)
  <2>1. primary.edges \subseteq snap.deps
    BY <1>4 DEF GreatestLags
  <2>2. ASSUME NEW d \in primary.edges, NEW e \in primary.edges, Pair(d) = Pair(e)
        PROVE  d = e
    <3>1. d \in PlanEdge /\ e \in PlanEdge
      BY <1>3, <2>1
    <3>2. d.lag <= e.lag /\ e.lag <= d.lag
      BY <1>4, <2>1, <2>2 DEF GreatestLags
    <3>3. d.lag = e.lag /\ d.from = e.from /\ d.to = e.to
      BY <3>1, <3>2, <2>2 DEF PlanEdge, Pair
    <3> QED
      BY <3>1, <3>3 DEF PlanEdge
  <2> QED
    BY <2>1, <2>2, <1>3 DEF OneLag
<1>6. ExecutionPlan(primary)
  BY <1>3, <1>4, <1>5 DEF ExecutionPlan, TypedTasks, TypedTeams
<1>7. TasksSoFar(baseline.tasks, Done, primary.tasks)
  BY <1>1, <1>2 DEF TasksSoFar, TaskSoFar, DurationReflects, AttributesReflect
<1>8. EdgesReflect(baseline.edges, Done, primary.edges)
  BY <1>1, <1>2 DEF EdgesReflect
<1>9. TeamsReflect(baseline.teams, Done, primary.teams)
  BY <1>1, <1>2 DEF TeamsReflect
<1>10. at \in 1..(Len(ops) + 1)
  BY <1>3
<1> QED
  BY <1>5, <1>6, <1>7, <1>8, <1>9, <1>10 DEF CompileInv

(* and after each one.                                                     *)
LEMMA Intervening ==
    ASSUME CompileInv, Intervene
    PROVE  CompileInv'
<1> DEFINE o == ops[at]
<1>1. Fresh(Done, o) /\ o \in Intervention /\ Done \subseteq Intervention
  BY NewTarget DEF Intervene
<1>2. /\ primary' = Applied(primary, o) /\ at' = at + 1
      /\ request' = request /\ baseline' = baseline
      /\ ops' = ops /\ snap' = snap
      /\ Applicable(primary, snap.asOf, o) /\ ScopeIsAlone(ops) /\ at <= Len(ops)
  BY DEF Intervene, MayIntervene, ops, snap
<1>3. Done' = Done \cup {o}
  <2>1. at \in Nat /\ at >= 1
    BY DEF CompileInv, WellFormed, ops
  <2>2. 1..(at' - 1) = 1..(at - 1) \cup {at}
    BY <2>1, <1>2
  <2> QED
    BY <2>2, <1>2 DEF Done
<1>4. ExecutionPlan(primary) /\ ExecutionPlan(baseline)
  BY DEF CompileInv
<1>5. /\ primary'.tasks = TasksAfter(primary.tasks, o)
      /\ primary'.edges = EdgesAfter(primary.edges, o)
      /\ primary'.teams = TeamsAfter(primary.teams, o)
      /\ primary' = [tasks |-> primary'.tasks, edges |-> primary'.edges, teams |-> primary'.teams,
                     target |-> primary'.target]
  BY <1>2, <1>4, PlanAfter
<1> HIDE DEF o
<1>6. /\ TypedTasks(baseline.tasks) /\ TypedTasks(primary.tasks) /\ primary.edges \subseteq PlanEdge
      /\ TypedTeams(primary.teams)
  BY <1>4 DEF ExecutionPlan, TypedTasks, TypedTeams
<1>7. /\ OfTask(o) => o.task \in DOMAIN primary.tasks
      /\ o.kind = "add" => o.from \in DOMAIN primary.tasks /\ o.to \in DOMAIN primary.tasks
      /\ o.kind = "capacity" => o.team \in DOMAIN primary.teams
  BY <1>2 DEF Applicable
<1>8. TypedTasks(primary'.tasks) /\ TasksSoFar(baseline'.tasks, Done', primary'.tasks)
  <2>1. TasksSoFar(baseline.tasks, Done, primary.tasks)
    BY DEF CompileInv
  <2> QED
    BY <2>1, <1>1, <1>2, <1>3, <1>5, <1>6, <1>7, TasksStep
<1>9. EdgesReflect(baseline'.edges, Done', primary'.edges)
  <2>1. EdgesReflect(baseline.edges, Done, primary.edges)
    BY DEF CompileInv
  <2>2. o.kind = "add" => o.from \notin Removed(Done) /\ o.to \notin Removed(Done)
    BY <1>7 DEF CompileInv, TasksSoFar
  <2> QED
    BY <2>1, <2>2, <1>1, <1>2, <1>3, <1>5, EdgesStep
<1>10. TypedTeams(primary'.teams) /\ TeamsReflect(baseline'.teams, Done', primary'.teams)
  <2>1. TeamsReflect(baseline.teams, Done, primary.teams)
    BY DEF CompileInv
  <2> QED
    BY <2>1, <1>1, <1>2, <1>3, <1>5, <1>6, <1>7, TeamsStep
<1>11. primary'.edges \subseteq PlanEdge /\ OneLag(primary'.edges)
  <2>1. OneLag(primary.edges)
    BY DEF CompileInv
  <2> QED
    BY <2>1, <1>1, <1>5, <1>6, LagsStep
<1>12. ExecutionPlan(primary')
  BY <1>5, <1>8, <1>10, <1>11 DEF ExecutionPlan, TypedTasks, TypedTeams
<1>13. WellFormed(request') /\ baseline' = Baseline(snap') /\ ExecutionPlan(baseline')
  BY <1>2 DEF CompileInv
<1>14. at' \in 1..(Len(ops') + 1)
  BY <1>2 DEF CompileInv, WellFormed, ops
<1> QED
  BY <1>2, <1>8, <1>9, <1>10, <1>11, <1>12, <1>13, <1>14 DEF CompileInv

(* For every snapshot and every scenario, at every step of the loop: the   *)
(* plan is typed, every attribute of it is what the interventions so far   *)
(* make of the baseline's, and a pair of tasks has one lag.                *)
THEOREM CompileInvariant == CompileSpec => []CompileInv
<1>1. CompileInit => CompileInv
  BY Beginning DEF CompileInit
<1>2. CompileInv /\ [Intervene]_compileVars => CompileInv'
  <2>1. ASSUME CompileInv, Intervene PROVE CompileInv'
    BY <2>1, Intervening
  <2>2. ASSUME CompileInv, UNCHANGED compileVars PROVE CompileInv'
    BY <2>2 DEF compileVars, CompileInv, snap, ops, Done, WellFormed
  <2> QED
    BY <2>1, <2>2
<1> QED
  BY <1>1, <1>2, PTL DEF CompileSpec

-----------------------------------------------------------------------------
(* What the invariant gives.                                               *)

(* A compiled and consistent plan is made by the set of interventions.     *)
LEMMA ItsSetFollows == CompileInv => PlanOfItsSet
<1>1. SUFFICES ASSUME CompileInv, Compiled, Consistent(primary)
               PROVE  Reflects(baseline, {ops[i] : i \in DOMAIN ops}, primary)
  BY DEF PlanOfItsSet
<1>2. Done = {ops[i] : i \in DOMAIN ops}
  <2>1. ops \in Seq(Intervention) /\ DOMAIN ops = 1..Len(ops) /\ Len(ops) \in Nat
    BY <1>1 DEF CompileInv, WellFormed, ops
  <2>2. at - 1 = Len(ops)
    BY <1>1, <2>1 DEF Compiled
  <2> QED
    BY <2>1, <2>2 DEF Done
<1>3. TasksReflect(baseline.tasks, Done, primary.tasks)
  <2>1. TasksSoFar(baseline.tasks, Done, primary.tasks)
    BY <1>1 DEF CompileInv
  <2>2. ASSUME NEW t \in DOMAIN primary.tasks
        PROVE  DurationReflects(baseline.tasks[t], ForTask(Done, t), primary.tasks[t])
    <3>1. TaskSoFar(baseline.tasks[t], ForTask(Done, t), primary.tasks[t])
      BY <2>1 DEF TasksSoFar
    <3>2. CASE Of(ForTask(Done, t), {"completed"}) = {}
      BY <3>1, <3>2 DEF TaskSoFar
    <3>3. CASE Of(ForTask(Done, t), {"completed"}) # {}
      <4>1. primary.tasks[t].state = "completed"
        BY <3>1, <3>3 DEF TaskSoFar, AttributesReflect
      <4>2. primary.tasks[t].lo = 0 /\ primary.tasks[t].hi = 0
        BY <1>1, <4>1 DEF Consistent
      <4> QED
        BY <3>3, <4>2 DEF DurationReflects
    <3> QED
      BY <3>2, <3>3
  <2> QED
    BY <2>1, <2>2 DEF TasksReflect, TasksSoFar, TaskSoFar
<1> QED
  BY <1>1, <1>2, <1>3 DEF Reflects, CompileInv

(* A compiled plan that _validate_plan lets pass is made by the set of the *)
(* scenario's interventions alone: whatever of a task, a dependency or a   *)
(* team they do not name is the snapshot's.                                *)
THEOREM PlanOfItsSetHolds == CompileSpec => []PlanOfItsSet
BY ItsSetFollows, CompileInvariant, PTL

(* Two plans that reflect one set of interventions are the same plan: with *)
(* PlanOfItsSetHolds, every order of the interventions that is accepted is *)
(* accepted as the same tasks, dependencies and teams.                     *)
THEOREM OnePlan ==
    ASSUME NEW was, NEW D,
           NEW p, ExecutionPlan(p), Reflects(was, D, p),
           NEW q, ExecutionPlan(q), Reflects(was, D, q)
    PROVE  p.tasks = q.tasks /\ p.edges = q.edges /\ p.teams = q.teams
<1>1. p.edges = q.edges
  BY DEF Reflects, EdgesReflect
<1>2. ASSUME NEW a \in PlanTask, NEW b \in PlanTask, NEW c, NEW S,
             DurationReflects(c, S, a), AttributesReflect(c, S, a),
             DurationReflects(c, S, b), AttributesReflect(c, S, b)
      PROVE  a = b
  <2>1. a.lo = b.lo /\ a.hi = b.hi
    <3>1. CASE Of(S, {"completed"}) # {}
      BY <1>2, <3>1 DEF DurationReflects
    <3>2. CASE Of(S, {"completed"}) = {} /\ Of(S, {"duration", "shift"}) = {}
      BY <1>2, <3>2 DEF DurationReflects
    <3>3. CASE Of(S, {"completed"}) = {} /\ Of(S, {"duration", "shift"}) # {}
      <4>1. PICK o : o \in Of(S, {"duration"}) \/ o \in Of(S, {"shift"})
        BY <3>3 DEF Of
      <4> QED
        BY <1>2, <3>3, <4>1 DEF DurationReflects
    <3> QED
      BY <3>1, <3>2, <3>3
  <2>2. a.team = b.team /\ a.state = b.state /\ a.finish = b.finish
    BY <1>2 DEF AttributesReflect
  <2>3. a.shape = b.shape
    BY <1>2 DEF AttributesReflect
  <2>4. a.earliest = b.earliest /\ a.until = b.until
    BY <1>2 DEF AttributesReflect
  <2> QED
    BY <2>1, <2>2, <2>3, <2>4 DEF PlanTask
<1>3. p.tasks = q.tasks
  <2>1. /\ DOMAIN p.tasks = DOMAIN q.tasks
        /\ p.tasks \in [DOMAIN p.tasks -> PlanTask] /\ q.tasks \in [DOMAIN q.tasks -> PlanTask]
    BY DEF Reflects, TasksReflect, ExecutionPlan
  <2>2. ASSUME NEW t \in DOMAIN p.tasks
        PROVE  p.tasks[t] = q.tasks[t]
    <3>1. p.tasks[t] \in PlanTask /\ q.tasks[t] \in PlanTask
      BY <2>1
    <3>2. /\ DurationReflects(was.tasks[t], ForTask(D, t), p.tasks[t])
          /\ AttributesReflect(was.tasks[t], ForTask(D, t), p.tasks[t])
      BY DEF Reflects, TasksReflect
    <3>3. /\ DurationReflects(was.tasks[t], ForTask(D, t), q.tasks[t])
          /\ AttributesReflect(was.tasks[t], ForTask(D, t), q.tasks[t])
      BY <2>1 DEF Reflects, TasksReflect
    <3> QED
      BY <3>1, <3>2, <3>3, <1>2
  <2> QED
    BY <2>1, <2>2
<1>4. p.teams = q.teams
  <2>1. /\ DOMAIN p.teams = DOMAIN q.teams
        /\ p.teams \in [DOMAIN p.teams -> PlanTeam] /\ q.teams \in [DOMAIN q.teams -> PlanTeam]
    BY DEF Reflects, TeamsReflect, ExecutionPlan
  <2>2. ASSUME NEW g \in DOMAIN p.teams
        PROVE  p.teams[g] = q.teams[g]
    <3>1. p.teams[g] \in PlanTeam /\ q.teams[g] \in PlanTeam
      BY <2>1
    <3>2. p.teams[g].slowdown = q.teams[g].slowdown
      BY <2>1 DEF Reflects, TeamsReflect
    <3>3. p.teams[g].capacity = q.teams[g].capacity
      BY <2>1 DEF Reflects, TeamsReflect
    <3> QED
      BY <3>1, <3>2, <3>3 DEF PlanTeam
  <2> QED
    BY <2>1, <2>2
<1> QED
  BY <1>1, <1>3, <1>4

(* The plan is an execution plan throughout, and holds one dependency for  *)
(* a pair of tasks, although a set stands for the edge_map of the code.    *)
THEOREM PlanTyped == CompileSpec => [](ExecutionPlan(primary) /\ OneLag(primary.edges))
<1>1. CompileInv => ExecutionPlan(primary) /\ OneLag(primary.edges)
  BY DEF CompileInv
<1> QED
  BY <1>1, CompileInvariant, PTL

-----------------------------------------------------------------------------
(* Two refusals of _validate_plan that no scenario can meet.               *)

(* Dependencies are between two tasks of the plan.                         *)
Sound(plan) ==
    \A e \in plan.edges :
        e.from \in DOMAIN plan.tasks /\ e.to \in DOMAIN plan.tasks /\ e.from # e.to

(* The invariant, with the soundness that the interventions keep.          *)
EndpointsInv == CompileInv /\ (Sound(baseline) => Sound(primary))

(* Where the snapshot's dependencies are between two of its tasks, the     *)
(* loop never leaves a dependency whose task is gone, nor makes one of a   *)
(* task on itself, before _validate_plan looks for either.                 *)
THEOREM NoDanglingEdge == CompileSpec => [](Sound(baseline) => Sound(primary))
<1>1. CompileInit => EndpointsInv
  BY Beginning DEF CompileInit, EndpointsInv
<1>2. EndpointsInv /\ [Intervene]_compileVars => EndpointsInv'
  <2>1. ASSUME EndpointsInv, Intervene PROVE EndpointsInv'
    <3> DEFINE o == ops[at]
    <3>1. CompileInv' /\ baseline' = baseline
      BY <2>1, Intervening DEF EndpointsInv, Intervene
    <3>2. o \in Intervention
      BY <2>1, NewTarget DEF EndpointsInv, Intervene
    <3>3. /\ primary'.tasks = TasksAfter(primary.tasks, o)
          /\ primary'.edges = EdgesAfter(primary.edges, o)
      BY <2>1, PlanAfter DEF Intervene
    <3>4. o.kind = "add" => /\ o.from \in DOMAIN primary.tasks /\ o.to \in DOMAIN primary.tasks
                            /\ o.from # o.to
      BY <2>1 DEF Intervene, MayIntervene, Applicable
    <3> HIDE DEF o
    <3>5. ASSUME Sound(primary) PROVE Sound(primary')
      <4>1. CASE o.kind = "scope"
        <5>1. DOMAIN primary'.tasks = DOMAIN primary.tasks \ {o.task}
          BY <3>3, <4>1 DEF TasksAfter, TaskKinds
        <5>2. primary'.edges = {e \in primary.edges : o.task \notin {e.from, e.to}}
          BY <3>3, <4>1 DEF EdgesAfter
        <5> QED
          BY <3>5, <5>1, <5>2 DEF Sound
      <4>2. CASE o.kind = "add"
        <5>1. primary'.tasks = primary.tasks
          BY <3>3, <4>2 DEF TasksAfter, TaskKinds
        <5>2. primary'.edges = {e \in primary.edges : Pair(e) # Pair(o)} \cup {Added(o)}
          BY <3>3, <4>2 DEF EdgesAfter
        <5>3. Added(o).from = o.from /\ Added(o).to = o.to
          BY DEF Added
        <5> QED
          BY <3>4, <3>5, <4>2, <5>1, <5>2, <5>3 DEF Sound
      <4>3. CASE o.kind \in TaskKinds \cup {"remove", "capacity"}
        <5>1. DOMAIN primary'.tasks = DOMAIN primary.tasks
          BY <3>3, <4>3 DEF TasksAfter, TaskKinds
        <5>2. primary'.edges \subseteq primary.edges
          BY <3>3, <4>3 DEF EdgesAfter, TaskKinds
        <5> QED
          BY <3>5, <5>1, <5>2 DEF Sound
      <4> QED
        BY <3>2, <4>1, <4>2, <4>3, Kinds
    <3> QED
      BY <2>1, <3>1, <3>5 DEF EndpointsInv
  <2>2. ASSUME EndpointsInv, UNCHANGED compileVars PROVE EndpointsInv'
    <3>1. CompileInv'
      BY <2>2 DEF compileVars, EndpointsInv, CompileInv, snap, ops, Done, WellFormed
    <3> QED
      BY <2>2, <3>1 DEF compileVars, EndpointsInv
  <2> QED
    BY <2>1, <2>2
<1>3. EndpointsInv => (Sound(baseline) => Sound(primary))
  BY DEF EndpointsInv
<1> QED
  BY <1>1, <1>2, <1>3, PTL DEF CompileSpec

=============================================================================
