------------------------ MODULE ListSchedule_proofs -------------------------
(***************************************************************************)
(* Every schedule that the list scheduler builds is feasible, keeps the    *)
(* capacities, leaves no ready task waiting for a free slot, and is        *)
(* explained by its chain of parents: for all tasks, teams, capacities,    *)
(* dependencies, releases and sampled durations.                           *)
(***************************************************************************)
EXTENDS ListSchedule, FiniteSetTheorems, TLAPS

-----------------------------------------------------------------------------
(* Orders.                                                                 *)

(* A finite set that is totally ordered by a relation has a least element. *)
(* A smallest subset without one would, less one element, have one.        *)
LEMMA LeastExists ==
    ASSUME NEW S, IsFiniteSet(S), S # {}, NEW R,
           \A x, y \in S : <<x, y>> \in R \/ <<y, x>> \in R,
           \A x, y, z \in S : <<x, y>> \in R /\ <<y, z>> \in R => <<x, z>> \in R
    PROVE  \E x \in S : \A y \in S : <<x, y>> \in R
<1> DEFINE HasLeast(X) == \E x \in X : \A y \in X : <<x, y>> \in R
           T == {X \in FiniteSubsetsOf(S) : X # {} /\ ~HasLeast(X)}
<1>1. SUFFICES ASSUME ~HasLeast(S) PROVE FALSE
  OBVIOUS
<1>2. T # {} /\ T \subseteq FiniteSubsetsOf(S)
  BY <1>1 DEF FiniteSubsetsOf
<1>3. PICK X \in T : \A Y \in T : <<Y, X>> \notin StrictSubsetOrdering(S)
  <2>1. IsWellFoundedOn(StrictSubsetOrdering(S), FiniteSubsetsOf(S))
    BY FS_StrictSubsetOrderingWellFounded
  <2> HIDE DEF T
  <2> QED
    BY <1>2, <2>1, WFMin, Zenon
<1>4. X \subseteq S /\ X # {} /\ ~HasLeast(X) /\ IsFiniteSet(X)
  BY DEF FiniteSubsetsOf
<1>5. PICK x \in X : TRUE
  BY <1>4
<1> DEFINE Y == X \ {x}
<1>6. Y \in FiniteSubsetsOf(S) /\ <<Y, X>> \in StrictSubsetOrdering(S)
  <2>1. IsFiniteSet(Y)
    BY <1>4, FS_RemoveElement
  <2> QED
    BY <1>4, <1>5, <2>1 DEF FiniteSubsetsOf, StrictSubsetOrdering
<1>7. Y = {} \/ HasLeast(Y)
  BY <1>3, <1>6
<1>8. CASE Y = {}
  BY <1>4, <1>5, <1>8
<1>9. CASE HasLeast(Y)
  <2>1. PICK y \in Y : \A z \in Y : <<y, z>> \in R
    BY <1>9
  <2>2. CASE <<x, y>> \in R
    BY <1>4, <1>5, <2>1, <2>2
  <2>3. CASE <<y, x>> \in R
    BY <1>4, <1>5, <2>1, <2>3
  <2> QED
    BY <1>4, <1>5, <2>2, <2>3
<1> QED
  BY <1>7, <1>8, <1>9

(* The order of instants is total.                                         *)
LEMMA InstantOrder ==
    /\ Zero \in Instant
    /\ \A a, b \in Instant : NotLater(a, b) \/ NotLater(b, a)
    /\ \A a \in Instant : NotLater(a, a)
    /\ \A a, b \in Instant : NotLater(a, b) /\ NotLater(b, a) => a = b
    /\ \A a, b, c \in Instant : NotLater(a, b) /\ NotLater(b, c) => NotLater(a, c)
    /\ \A a, b, c \in Instant : Later(b, a) /\ NotLater(b, c) => Later(c, a)
    /\ \A a, b, c \in Instant : NotLater(a, b) /\ Later(c, b) => Later(c, a)
    /\ \A a, b \in Instant : NotLater(a, b) <=> ~Later(a, b)
BY DEF Instant, Zero, NotLater, Later

(* Work does not lead back.                                                *)
LEMMA AdvanceForward ==
    ASSUME NEW a \in Instant, NEW d \in Nat
    PROVE  Advance(a, d) \in Instant /\ NotLater(a, Advance(a, d))
BY DEF Instant, Advance, NotLater, Later

(* Latest is the maximum of a finite set of instants.                      *)
LEMMA LatestIsLast ==
    ASSUME NEW S, IsFiniteSet(S), S # {}, S \subseteq Instant
    PROVE  Latest(S) \in S /\ \A a \in S : NotLater(a, Latest(S))
<1> DEFINE R == {p \in S \X S : NotLater(p[2], p[1])}
<1>1. \A x, y \in S : <<x, y>> \in R <=> NotLater(y, x)
  OBVIOUS
<1>2. \E x \in S : \A y \in S : <<x, y>> \in R
  <2> HIDE DEF R
  <2>1. \A x, y \in S : <<x, y>> \in R \/ <<y, x>> \in R
    BY <1>1, InstantOrder
  <2>2. \A x, y, z \in S : <<x, y>> \in R /\ <<y, z>> \in R => <<x, z>> \in R
    BY <1>1, InstantOrder
  <2> QED
    BY <2>1, <2>2, LeastExists
<1> QED
  BY <1>1, <1>2 DEF Latest

(* A finite, nonempty set of numbers has a least one.                      *)
LEMMA LeastNumber ==
    ASSUME NEW S, IsFiniteSet(S), S # {}, S \subseteq Nat
    PROVE  \E n \in S : \A m \in S : n <= m
<1> DEFINE R == {p \in S \X S : p[1] <= p[2]}
<1>1. \A x, y \in S : <<x, y>> \in R <=> x <= y
  OBVIOUS
<1> HIDE DEF R
<1>2. \A x, y \in S : <<x, y>> \in R \/ <<y, x>> \in R
  <2>1. \A x, y \in S : x <= y \/ y <= x
    OBVIOUS
  <2> QED
    BY <1>1, <2>1
<1>3. \A x, y, z \in S : <<x, y>> \in R /\ <<y, z>> \in R => <<x, z>> \in R
  <2>1. \A x, y, z \in S : x <= y /\ y <= z => x <= z
    OBVIOUS
  <2> QED
    BY <1>1, <2>1
<1> QED
  BY <1>1, <1>2, <1>3, LeastExists

-----------------------------------------------------------------------------
(* One turn of the loop.                                                   *)

(* SlotOf finds a slot that is free first.                                 *)
LEMMA SlotIsFirst ==
    ASSUME ScheduleTypeOK, NEW g \in DOMAIN prep.capacity
    PROVE  /\ SlotOf(g) \in 1..prep.capacity[g]
           /\ \A j \in 1..prep.capacity[g] :
                 NotLater(slots[g][SlotOf(g)].free, slots[g][j].free)
<1> DEFINE S == 1..prep.capacity[g]
           Before(i, j) == \/ Later(slots[g][j].free, slots[g][i].free)
                           \/ slots[g][j].free = slots[g][i].free /\ i <= j
           R == {p \in S \X S : Before(p[1], p[2])}
<1>1. prep.capacity[g] \in Nat /\ prep.capacity[g] > 0
  BY DEF ScheduleTypeOK, PreparedSchedule
<1>2. DOMAIN slots[g] = S /\ \A i \in S : slots[g][i].free \in Instant
  BY DEF ScheduleTypeOK
<1>3. IsFiniteSet(S) /\ S # {}
  <2>1. IsFiniteSet(1..prep.capacity[g])
    BY <1>1, FS_Interval
  <2>2. 1 \in S
    BY <1>1
  <2> QED
    BY <2>1, <2>2
<1>4. \A i, j \in S : <<i, j>> \in R <=> Before(i, j)
  OBVIOUS
<1>5. \A i, j \in S : Before(i, j) \/ Before(j, i)
  <2>1. \A a, b \in Instant : Later(a, b) \/ Later(b, a) \/ a = b
    BY DEF Instant, Later
  <2> SUFFICES ASSUME NEW i \in S, NEW j \in S PROVE Before(i, j) \/ Before(j, i)
    OBVIOUS
  <2>2. i <= j \/ j <= i
    BY <1>1
  <2> QED
    BY <1>2, <2>1, <2>2
<1>6. \A i, j, k \in S : Before(i, j) /\ Before(j, k) => Before(i, k)
  <2> SUFFICES ASSUME NEW i \in S, NEW j \in S, NEW k \in S, Before(i, j), Before(j, k)
               PROVE  Before(i, k)
    OBVIOUS
  <2>1. /\ slots[g][i].free \in Instant /\ slots[g][j].free \in Instant
        /\ slots[g][k].free \in Instant
    BY <1>2
  <2>2. i \in Int /\ j \in Int /\ k \in Int
    BY <1>1
  <2> QED
    BY <2>1, <2>2 DEF Instant, Later
<1>7. \A i, j \in S : Before(i, j) => NotLater(slots[g][i].free, slots[g][j].free)
  BY <1>2 DEF Instant, Later, NotLater
<1>8. \E i \in S : \A j \in S : Before(i, j)
  <2> HIDE DEF R, Before, S
  <2>1. \E i \in S : \A j \in S : <<i, j>> \in R
    BY <1>3, <1>4, <1>5, <1>6, LeastExists
  <2> QED
    BY <1>4, <2>1
<1>9. SlotOf(g) = CHOOSE i \in S : \A j \in S : Before(i, j)
  BY <1>2 DEF SlotOf
<1> HIDE DEF Before, S
<1>10. SlotOf(g) \in S /\ \A j \in S : Before(SlotOf(g), j)
  BY <1>8, <1>9
<1> QED
  BY <1>7, <1>10 DEF S

(* When the predecessors of an unfinished task are finished, its start is  *)
(* the latest of the instants it waits for.                                *)
StartIsLatest ==
    \A t \in Active : Enabled(t) =>
        LET waits == {prep.release[t], FreeSlot(t).free} \cup DependencyReady(t)
        IN  /\ prep.team[t] \in DOMAIN prep.capacity
            /\ FreeSlot(t) \in [free: Instant, after: Task \cup {NoTask}]
            /\ DependencyReady(t) \subseteq Instant
            /\ waits \subseteq Instant
            /\ StartOf(t) \in waits
            /\ \A a \in waits : NotLater(a, StartOf(t))

(* It is ready at the latest of those that do not depend on a slot.        *)
ReadyIsLatest ==
    \A t \in Active : Enabled(t) =>
        /\ Ready(t) \in {prep.release[t]} \cup DependencyReady(t)
        /\ Ready(t) \in Instant
        /\ \A a \in {prep.release[t]} \cup DependencyReady(t) : NotLater(a, Ready(t))

LEMMA LatestHolds == ScheduleTypeOK => StartIsLatest /\ ReadyIsLatest
<1> SUFFICES ASSUME ScheduleTypeOK, NEW t \in Active, Enabled(t)
             PROVE  LET waits == {prep.release[t], FreeSlot(t).free} \cup DependencyReady(t)
                    IN  /\ prep.team[t] \in DOMAIN prep.capacity
                        /\ FreeSlot(t) \in [free: Instant, after: Task \cup {NoTask}]
                        /\ DependencyReady(t) \subseteq Instant
                        /\ waits \subseteq Instant
                        /\ StartOf(t) \in waits
                        /\ \A a \in waits : NotLater(a, StartOf(t))
                        /\ Ready(t) \in {prep.release[t]} \cup DependencyReady(t)
                        /\ Ready(t) \in Instant
                        /\ \A a \in {prep.release[t]} \cup DependencyReady(t) :
                              NotLater(a, Ready(t))
  BY DEF StartIsLatest, ReadyIsLatest
<1> USE DEF Enabled
<1> DEFINE waits == {prep.release[t], FreeSlot(t).free} \cup DependencyReady(t)
<1>1. prep.team[t] \in DOMAIN prep.capacity /\ prep.release[t] \in Instant
  BY DEF ScheduleTypeOK, PreparedSchedule, Active
<1>2. FreeSlot(t) \in [free: Instant, after: Task \cup {NoTask}]
  BY <1>1, SlotIsFirst DEF FreeSlot, ScheduleTypeOK
<1>3. Into(t) \subseteq prep.edges /\ prep.edges \subseteq Edge /\ IsFiniteSet(prep.edges)
  BY DEF ScheduleTypeOK, PreparedSchedule, Into
<1>4. \A e \in Into(t) : Advance(finish[e.from], e.lag) \in Instant
  BY <1>3, AdvanceForward DEF ScheduleTypeOK, Edge
<1>5. DependencyReady(t) \subseteq Instant
  BY <1>4 DEF DependencyReady
<1>6. IsFiniteSet(DependencyReady(t))
  <2>1. IsFiniteSet(Into(t))
    BY <1>3, FS_Subset
  <2>2. IsFiniteSet({Advance(finish[e.from], e.lag) : e \in Into(t)})
    <3> DEFINE f == [e \in Into(t) |-> Advance(finish[e.from], e.lag)]
    <3>1. f \in Surjection(Into(t), DependencyReady(t))
      BY DEF Surjection, DependencyReady
    <3> QED
      BY <2>1, <3>1, FS_Surjection DEF DependencyReady
  <2> QED
    BY <2>2 DEF DependencyReady
<1>7. IsFiniteSet(waits)
  <2>1. IsFiniteSet(DependencyReady(t) \cup {prep.release[t]})
    BY <1>6, FS_AddElement
  <2>2. IsFiniteSet((DependencyReady(t) \cup {prep.release[t]}) \cup {FreeSlot(t).free})
    BY <2>1, FS_AddElement
  <2>3. waits = (DependencyReady(t) \cup {prep.release[t]}) \cup {FreeSlot(t).free}
    OBVIOUS
  <2> QED
    BY <2>2, <2>3
<1>8. waits \subseteq Instant /\ waits # {}
  BY <1>1, <1>2, <1>5
<1>9. StartOf(t) = Latest(waits)
  BY DEF StartOf
<1>10. StartOf(t) \in waits /\ \A a \in waits : NotLater(a, StartOf(t))
  <2> HIDE DEF waits
  <2> QED
    BY <1>7, <1>8, <1>9, LatestIsLast
<1>11. /\ Ready(t) \in {prep.release[t]} \cup DependencyReady(t)
       /\ \A a \in {prep.release[t]} \cup DependencyReady(t) : NotLater(a, Ready(t))
  <2> DEFINE S == DependencyReady(t) \cup {prep.release[t]}
  <2>1. IsFiniteSet(S) /\ S # {} /\ S \subseteq Instant
    BY <1>1, <1>5, <1>6, FS_AddElement
  <2>2. S = {prep.release[t]} \cup DependencyReady(t)
    OBVIOUS
  <2> HIDE DEF S
  <2>3. Latest(S) \in S /\ \A a \in S : NotLater(a, Latest(S))
    BY <2>1, LatestIsLast
  <2> QED
    BY <2>2, <2>3 DEF Ready
<1> QED
  BY <1>1, <1>2, <1>5, <1>8, <1>10, <1>11

(* What a turn does to the state.                                          *)
LEMMA PlaceFacts ==
    ASSUME ScheduleTypeOK, NEW t \in Task, Place(t)
    PROVE  LET g == prep.team[t]
               end == Advance(StartOf(t), prep.days[t])
           IN  /\ t \in Active /\ t \notin Placed /\ t \notin DOMAIN prep.done
               /\ t \notin DOMAIN finish /\ Enabled(t)
               /\ g \in DOMAIN prep.capacity /\ SlotOf(g) \in 1..prep.capacity[g]
               /\ StartOf(t) \in Instant /\ end \in Instant /\ NotLater(StartOf(t), end)
               /\ NotLater(FreeSlot(t).free, StartOf(t))
               /\ prep' = prep
               /\ start' = [u \in Placed \cup {t} |-> IF u = t THEN StartOf(t) ELSE start[u]]
               /\ finish' = [u \in DOMAIN finish \cup {t} |-> IF u = t THEN end ELSE finish[u]]
               /\ place' = [u \in Placed \cup {t} |-> IF u = t THEN SlotOf(g) ELSE place[u]]
               /\ slots' = [slots EXCEPT ![g][SlotOf(g)] = [free |-> end, after |-> t]]
               /\ DOMAIN parent' = Placed \cup {t} /\ \A u \in Placed : parent'[u] = parent[u]
               /\ Governing(t) = {} => parent'[t] = NoTask
               /\ Governing(t) # {} => parent'[t] \in Governing(t)
               /\ Governing(t) \subseteq Task
<1> DEFINE g == prep.team[t]
           end == Advance(StartOf(t), prep.days[t])
<1>1. t \in Active /\ t \notin Placed /\ Enabled(t) /\ t \in Candidate
  BY DEF Place, Selected, Candidate, Unscheduled
<1>2. /\ DOMAIN finish = Placed \cup DOMAIN prep.done /\ DOMAIN parent = Placed
      /\ DOMAIN place = Placed /\ DOMAIN start = Placed
  BY DEF ScheduleTypeOK, Placed
<1>3. t \notin DOMAIN prep.done /\ prep.days[t] \in Nat
  BY <1>1 DEF ScheduleTypeOK, PreparedSchedule, Active
<1>4. t \notin DOMAIN finish
  BY <1>1, <1>2, <1>3
<1>5. g \in DOMAIN prep.capacity /\ StartOf(t) \in Instant
      /\ NotLater(FreeSlot(t).free, StartOf(t))
  BY <1>1, LatestHolds DEF StartIsLatest
<1>6. SlotOf(g) \in 1..prep.capacity[g]
  BY <1>5, SlotIsFirst
<1>7. end \in Instant /\ NotLater(StartOf(t), end)
  BY <1>3, <1>5, AdvanceForward
<1>8. Governing(t) \subseteq Task
  <2>1. FreeSlot(t).after \in Task \cup {NoTask}
    BY <1>1, LatestHolds DEF StartIsLatest
  <2>2. \A e \in Into(t) : e.from \in Task
    BY DEF ScheduleTypeOK, PreparedSchedule, Into, Edge
  <2> QED
    BY <2>1, <2>2 DEF Governing
<1>9. Governing(t) # {} =>
        (CHOOSE n \in Governing(t) : \A m \in Governing(t) : n <= m) \in Governing(t)
  <2>1. IsFiniteSet(Governing(t)) /\ Governing(t) \subseteq Nat
    BY <1>8, ScheduleAssumption, FS_Subset
  <2> QED
    BY <2>1, LeastNumber
<1>10. /\ prep' = prep
       /\ start' = With(start, t, StartOf(t))
       /\ finish' = With(finish, t, end)
       /\ place' = With(place, t, SlotOf(g))
       /\ slots' = [slots EXCEPT ![g][SlotOf(g)] = [free |-> end, after |-> t]]
       /\ parent' = With(parent, t,
                         IF Governing(t) = {} THEN NoTask
                         ELSE CHOOSE n \in Governing(t) : \A m \in Governing(t) : n <= m)
  BY DEF Place
<1>11. DOMAIN parent' = Placed \cup {t} /\ \A u \in Placed : parent'[u] = parent[u]
  BY <1>1, <1>2, <1>10 DEF With
<1>12. /\ Governing(t) = {} => parent'[t] = NoTask
       /\ Governing(t) # {} => parent'[t] \in Governing(t)
  BY <1>9, <1>10 DEF With
<1>13. /\ start' = [u \in Placed \cup {t} |-> IF u = t THEN StartOf(t) ELSE start[u]]
       /\ finish' = [u \in DOMAIN finish \cup {t} |-> IF u = t THEN end ELSE finish[u]]
       /\ place' = [u \in Placed \cup {t} |-> IF u = t THEN SlotOf(g) ELSE place[u]]
  BY <1>2, <1>10 DEF With
<1> QED
  BY <1>1, <1>3, <1>4, <1>5, <1>6, <1>7, <1>8, <1>10, <1>11, <1>12, <1>13

-----------------------------------------------------------------------------
(* Types.                                                                  *)

LEMMA TypeInit == Init => ScheduleTypeOK
<1> SUFFICES ASSUME Init PROVE ScheduleTypeOK
  OBVIOUS
<1>1. PreparedSchedule(prep)
  BY DEF Init
<1>2. /\ start = <<>> /\ place = <<>> /\ parent = <<>> /\ finish = prep.done
      /\ slots = [g \in DOMAIN prep.capacity |->
                     [i \in 1..prep.capacity[g] |-> [free |-> Zero, after |-> NoTask]]]
  BY DEF Init, Begin
<1>3. DOMAIN start = {} /\ DOMAIN place = {} /\ DOMAIN parent = {}
  BY <1>2
<1>4. prep.done \in [DOMAIN prep.done -> Instant]
  BY <1>1 DEF PreparedSchedule
<1>5. \A g \in DOMAIN prep.capacity :
         slots[g] \in [1..prep.capacity[g] -> [free: Instant, after: Task \cup {NoTask}]]
  BY <1>2, InstantOrder
<1>6. start \in [{} -> Instant] /\ parent \in [{} -> Task \cup {NoTask}]
  BY <1>2, <1>3
<1> QED
  BY <1>1, <1>2, <1>3, <1>4, <1>5, <1>6 DEF ScheduleTypeOK, Placed

LEMMA TypeStep == ScheduleTypeOK /\ [Next]_vars => ScheduleTypeOK'
<1> SUFFICES ASSUME ScheduleTypeOK, [Next]_vars PROVE ScheduleTypeOK'
  OBVIOUS
<1>1. CASE UNCHANGED vars
  BY <1>1 DEF vars, ScheduleTypeOK, Placed, Active, PreparedSchedule
<1>2. ASSUME NEW t \in Task, Place(t) PROVE ScheduleTypeOK'
  <2> DEFINE g == prep.team[t]
             end == Advance(StartOf(t), prep.days[t])
             i == SlotOf(g)
  <2>1. /\ t \in Active /\ g \in DOMAIN prep.capacity /\ i \in 1..prep.capacity[g]
        /\ StartOf(t) \in Instant /\ end \in Instant /\ prep' = prep
        /\ start' = [u \in Placed \cup {t} |-> IF u = t THEN StartOf(t) ELSE start[u]]
        /\ finish' = [u \in DOMAIN finish \cup {t} |-> IF u = t THEN end ELSE finish[u]]
        /\ place' = [u \in Placed \cup {t} |-> IF u = t THEN i ELSE place[u]]
        /\ slots' = [slots EXCEPT ![g][i] = [free |-> end, after |-> t]]
        /\ DOMAIN parent' = Placed \cup {t} /\ \A u \in Placed : parent'[u] = parent[u]
        /\ parent'[t] \in Task \cup {NoTask}
    BY <1>2, PlaceFacts
  <2>2. PreparedSchedule(prep)' /\ Active' = Active
    BY <2>1 DEF ScheduleTypeOK, PreparedSchedule, Active
  <2> HIDE DEF end, i, g
  <2>3. Placed' = Placed \cup {t}
    BY <2>1 DEF Placed
  <2>4. Placed' \subseteq Active' /\ start' \in [Placed' -> Instant]
    BY <2>1, <2>2, <2>3 DEF ScheduleTypeOK
  <2>5. finish' \in [Placed' \cup DOMAIN prep'.done -> Instant]
    BY <2>1, <2>3 DEF ScheduleTypeOK
  <2>6. DOMAIN slots' = DOMAIN prep'.capacity
    BY <2>1 DEF ScheduleTypeOK
  <2>7. \A h \in DOMAIN prep'.capacity :
           slots'[h] \in [1..prep'.capacity[h] -> [free: Instant, after: Task \cup {NoTask}]]
    <3> SUFFICES ASSUME NEW h \in DOMAIN prep.capacity
                 PROVE slots'[h] \in [1..prep.capacity[h] -> [free: Instant, after: Task \cup {NoTask}]]
      BY <2>1
    <3>1. slots[h] \in [1..prep.capacity[h] -> [free: Instant, after: Task \cup {NoTask}]]
      BY DEF ScheduleTypeOK
    <3>2. h # g => slots'[h] = slots[h]
      BY <2>1 DEF ScheduleTypeOK
    <3>3. h = g => slots'[h] = [slots[h] EXCEPT ![i] = [free |-> end, after |-> t]]
      BY <2>1 DEF ScheduleTypeOK
    <3>4. [free |-> end, after |-> t] \in [free: Instant, after: Task \cup {NoTask}]
      BY <2>1
    <3> QED
      BY <3>1, <3>2, <3>3, <3>4
  <2>8. DOMAIN place' = Placed' /\ \A u \in Placed' : place'[u] \in 1..prep'.capacity[prep'.team[u]]
    BY <2>1, <2>3 DEF ScheduleTypeOK, g
  <2>9. parent' \in [Placed' -> Task \cup {NoTask}]
    <3>1. parent' = [u \in Placed' |-> parent'[u]]
      BY <1>2, <2>3 DEF Place, With, ScheduleTypeOK, Placed
    <3>2. \A u \in Placed' : parent'[u] \in Task \cup {NoTask}
      BY <2>1, <2>3 DEF ScheduleTypeOK
    <3> QED
      BY <3>1, <3>2
  <2> QED
    BY <2>2, <2>4, <2>5, <2>6, <2>7, <2>8, <2>9 DEF ScheduleTypeOK
<1> QED
  BY <1>1, <1>2 DEF Next

-----------------------------------------------------------------------------
(* Feasibility and slots.                                                  *)

(* A slot is free from the finish of its last task on, and nothing that    *)
(* was placed on it finishes later.                                        *)
SlotsFollow ==
    \A g \in DOMAIN prep.capacity : \A i \in 1..prep.capacity[g] :
        /\ slots[g][i].after = NoTask => slots[g][i].free = Zero
        /\ slots[g][i].after # NoTask =>
              /\ slots[g][i].after \in Placed
              /\ prep.team[slots[g][i].after] = g
              /\ place[slots[g][i].after] = i
              /\ finish[slots[g][i].after] = slots[g][i].free
        /\ \A t \in Placed :
              prep.team[t] = g /\ place[t] = i => NotLater(finish[t], slots[g][i].free)

(* Tasks on one slot follow each other.                                    *)
Exclusive ==
    \A t, u \in Placed :
        t # u /\ prep.team[t] = prep.team[u] /\ place[t] = place[u]
            => NotLater(finish[t], start[u]) \/ NotLater(finish[u], start[t])

SlotInv == SlotsFollow /\ Feasible /\ Exclusive /\ ChainIsTight

LEMMA SlotInit == Init => SlotInv
<1> SUFFICES ASSUME Init PROVE SlotInv
  OBVIOUS
<1>1. /\ start = <<>>
      /\ slots = [g \in DOMAIN prep.capacity |->
                     [i \in 1..prep.capacity[g] |-> [free |-> Zero, after |-> NoTask]]]
  BY DEF Init, Begin
<1>2. Placed = {}
  BY <1>1 DEF Placed
<1> QED
  BY <1>1, <1>2 DEF SlotInv, SlotsFollow, Feasible, Exclusive, ChainIsTight

LEMMA SlotStep ==
    ScheduleTypeOK /\ SlotInv /\ [Next]_vars => SlotInv'
<1> SUFFICES ASSUME ScheduleTypeOK, SlotInv, [Next]_vars PROVE SlotInv'
  OBVIOUS
<1> USE DEF SlotInv
<1>1. CASE UNCHANGED vars
  BY <1>1 DEF vars, SlotsFollow, Feasible, Exclusive, ChainIsTight, Placed, Into
<1>2. ASSUME NEW t \in Task, Place(t) PROVE SlotInv'
  <2> DEFINE g == prep.team[t]
             end == Advance(StartOf(t), prep.days[t])
             i == SlotOf(g)
  <2>1. /\ t \in Active /\ t \notin Placed /\ t \notin DOMAIN finish /\ Enabled(t)
        /\ g \in DOMAIN prep.capacity /\ i \in 1..prep.capacity[g]
        /\ StartOf(t) \in Instant /\ end \in Instant /\ NotLater(StartOf(t), end)
        /\ NotLater(slots[g][i].free, StartOf(t))
        /\ prep' = prep
        /\ start' = [u \in Placed \cup {t} |-> IF u = t THEN StartOf(t) ELSE start[u]]
        /\ finish' = [u \in DOMAIN finish \cup {t} |-> IF u = t THEN end ELSE finish[u]]
        /\ place' = [u \in Placed \cup {t} |-> IF u = t THEN i ELSE place[u]]
        /\ slots' = [slots EXCEPT ![g][i] = [free |-> end, after |-> t]]
        /\ \A u \in Placed : parent'[u] = parent[u]
    BY <1>2, PlaceFacts DEF FreeSlot
  <2>2. /\ Placed' = Placed \cup {t} /\ \A u : Into(u)' = Into(u)
        /\ Placed \subseteq DOMAIN finish /\ Placed \subseteq Active
        /\ \A u \in Placed : start[u] \in Instant /\ finish[u] \in Instant
        /\ \A h \in DOMAIN prep.capacity : \A j \in 1..prep.capacity[h] :
              slots[h][j].free \in Instant
    BY <2>1 DEF Placed, Into, ScheduleTypeOK
  <2>3. /\ start'[t] = StartOf(t) /\ finish'[t] = end /\ place'[t] = i
        /\ \A u \in Placed : start'[u] = start[u] /\ finish'[u] = finish[u] /\ place'[u] = place[u]
        /\ \A u \in DOMAIN finish : finish'[u] = finish[u] /\ u # t
        /\ DOMAIN finish \subseteq DOMAIN finish'
    BY <2>1, <2>2
  <2>4. /\ slots'[g][i] = [free |-> end, after |-> t]
        /\ \A h \in DOMAIN prep.capacity : \A j \in 1..prep.capacity[h] :
              h # g \/ j # i => slots'[h][j] = slots[h][j]
    BY <2>1 DEF ScheduleTypeOK
  <2>5. t # NoTask
    BY ScheduleAssumption DEF NoTask
  <2>6. StartOf(t) \in {prep.release[t], slots[g][i].free} \cup DependencyReady(t)
        /\ \A a \in {prep.release[t], slots[g][i].free} \cup DependencyReady(t) :
              a \in Instant /\ NotLater(a, StartOf(t))
    BY <2>1, LatestHolds DEF StartIsLatest, FreeSlot
  <2> DEFINE s == StartOf(t)
  <2> HIDE DEF end, i, g, s
  <2>7. SlotsFollow'
    <3> SUFFICES ASSUME NEW h \in DOMAIN prep'.capacity, NEW j \in 1..prep'.capacity[h]
                 PROVE  /\ slots'[h][j].after = NoTask => slots'[h][j].free = Zero
                        /\ slots'[h][j].after # NoTask =>
                              /\ slots'[h][j].after \in Placed'
                              /\ prep'.team[slots'[h][j].after] = h
                              /\ place'[slots'[h][j].after] = j
                              /\ finish'[slots'[h][j].after] = slots'[h][j].free
                        /\ \A u \in Placed' : prep'.team[u] = h /\ place'[u] = j
                              => NotLater(finish'[u], slots'[h][j].free)
      BY Zenon DEF SlotsFollow
    <3>0. h \in DOMAIN prep.capacity /\ j \in 1..prep.capacity[h] /\ prep' = prep
      BY <2>1
    <3>1. CASE h = g /\ j = i
      <4>1. \A u \in Placed : prep.team[u] = g /\ place[u] = i => NotLater(finish[u], end)
        <5> SUFFICES ASSUME NEW u \in Placed, prep.team[u] = g, place[u] = i
                     PROVE NotLater(finish[u], end)
          OBVIOUS
        <5>1. NotLater(finish[u], slots[g][i].free)
          BY <2>1 DEF SlotsFollow
        <5>2. NotLater(finish[u], StartOf(t))
          BY <2>1, <2>2, <5>1, InstantOrder
        <5> QED
          BY <2>1, <2>2, <5>2, InstantOrder
      <4>2. NotLater(end, end)
        BY <2>1, InstantOrder
      <4> QED
        BY <2>2, <2>3, <2>4, <2>5, <3>0, <3>1, <4>1, <4>2 DEF g
    <3>2. CASE ~(h = g /\ j = i)
      <4>1. slots'[h][j] = slots[h][j]
        BY <2>4, <3>0, <3>2
      <4>2. ~(prep.team[t] = h /\ place'[t] = j)
        BY <2>3, <3>2 DEF g
      <4> QED
        BY <2>2, <2>3, <3>0, <4>1, <4>2 DEF SlotsFollow
    <3> QED
      BY <3>1, <3>2
  <2>8. Feasible'
    <3> SUFFICES ASSUME NEW u \in Placed'
                 PROVE  /\ NotLater(prep.release[u], start'[u])
                        /\ \A e \in Into(u) : /\ e.from \in DOMAIN finish'
                                              /\ NotLater(Advance(finish'[e.from], e.lag), start'[u])
                        /\ finish'[u] = Advance(start'[u], prep.days[u])
      BY <2>1, <2>2 DEF Feasible
    <3>1. CASE u \in Placed
      BY <2>3, <3>1 DEF Feasible
    <3>2. CASE u = t
      <4>1. \A e \in Into(t) : e.from \in DOMAIN finish /\ Advance(finish[e.from], e.lag) \in DependencyReady(t)
        BY <2>1 DEF Enabled, DependencyReady
      <4> QED
        BY <2>3, <2>6, <3>2, <4>1 DEF end
    <3> QED
      BY <2>2, <3>1, <3>2
  <2>9. Exclusive'
    <3>1. \A u \in Placed : prep.team[u] = prep.team[t] /\ place[u] = i => NotLater(finish[u], StartOf(t))
      <4> SUFFICES ASSUME NEW u \in Placed, prep.team[u] = prep.team[t], place[u] = i
                   PROVE NotLater(finish[u], StartOf(t))
        OBVIOUS
      <4>1. NotLater(finish[u], slots[g][i].free)
        BY <2>1 DEF SlotsFollow, g
      <4> QED
        BY <2>1, <2>2, <4>1, InstantOrder
    <3> QED
      BY <2>1, <2>2, <2>3, <3>1 DEF Exclusive
  <2>10. ChainIsTight'
    <3> DEFINE Tight(u) == IF parent'[u] = NoTask
                           THEN start'[u] = prep.release[u]
                           ELSE \/ /\ parent'[u] \in Placed'
                                   /\ prep.team[parent'[u]] = prep.team[u]
                                   /\ place'[parent'[u]] = place'[u]
                                   /\ start'[u] = finish'[parent'[u]]
                                \/ \E e \in Into(u) : /\ e.from = parent'[u]
                                                     /\ start'[u] = Advance(finish'[e.from], e.lag)
    <3> SUFFICES ASSUME NEW u \in Placed' PROVE Tight(u)
      BY <2>1, <2>2 DEF ChainIsTight
    <3>1. CASE u \in Placed
      <4>1. \A e \in Into(u) : finish'[e.from] = finish[e.from]
        <5>1. \A e \in Into(u) : e.from \in DOMAIN finish
          BY <3>1 DEF Feasible
        <5>2. \A x \in DOMAIN finish : finish'[x] = finish[x]
          BY <2>3
        <5> QED
          BY <5>1, <5>2, Zenon
      <4>2. parent'[u] = parent[u] /\ start'[u] = start[u] /\ place'[u] = place[u]
        BY <2>1, <2>3, <3>1
      <4>3. CASE parent[u] = NoTask
        BY <3>1, <4>2, <4>3 DEF ChainIsTight
      <4>4. CASE /\ parent[u] \in Placed /\ prep.team[parent[u]] = prep.team[u]
                 /\ place[parent[u]] = place[u] /\ start[u] = finish[parent[u]]
        <5>1. /\ parent[u] \in Placed' /\ place'[parent[u]] = place[parent[u]]
              /\ finish'[parent[u]] = finish[parent[u]]
          BY <2>1, <2>2, <2>3, <4>4
        <5> QED
          BY <3>1, <4>2, <4>4, <5>1 DEF ChainIsTight
      <4>5. CASE \E e \in Into(u) : e.from = parent[u] /\ start[u] = Advance(finish[e.from], e.lag)
        BY <3>1, <4>1, <4>2, <4>5 DEF ChainIsTight
      <4> QED
        BY <3>1, <4>3, <4>4, <4>5 DEF ChainIsTight
    <3>2. CASE u = t
      <4>1. /\ Governing(t) = {} => parent'[t] = NoTask
            /\ Governing(t) # {} => parent'[t] \in Governing(t)
            /\ Governing(t) \subseteq Task
        BY <1>2, PlaceFacts
      <4>2. NoTask \notin Task
        BY ScheduleAssumption DEF NoTask
      <4>3. \A e \in Into(t) : e.from \in DOMAIN finish /\ finish'[e.from] = finish[e.from]
        BY <2>1, <2>3 DEF Enabled
      <4>4. CASE Governing(t) = {}
        <5>1. StartOf(t) \notin DependencyReady(t)
          BY <4>4 DEF Governing, DependencyReady
        <5>2. StartOf(t) = slots[g][i].free => slots[g][i].after = NoTask
          BY <4>4 DEF Governing, FreeSlot, g, i
        <5>3. StartOf(t) = slots[g][i].free => StartOf(t) = Zero
          BY <2>1, <5>2 DEF SlotsFollow
        <5>4. StartOf(t) = Zero => StartOf(t) = prep.release[t]
          <6>1. NotLater(Zero, prep.release[t])
            BY <2>1 DEF ScheduleTypeOK, PreparedSchedule, Active
          <6>2. NotLater(prep.release[t], StartOf(t)) /\ prep.release[t] \in Instant
            BY <2>6
          <6> QED
            BY <6>1, <6>2, InstantOrder
        <5> QED
          BY <2>3, <2>6, <3>2, <4>1, <4>4, <5>1, <5>3, <5>4
      <4>5. CASE Governing(t) # {}
        <5>1. PICK n \in Governing(t) : n = parent'[t]
          BY <4>1, <4>5
        <5>2. n # NoTask
          BY <4>1, <4>2, <5>1
        <5>3. CASE \E e \in Into(t) : e.from = n /\ Advance(finish[e.from], e.lag) = StartOf(t)
          BY <2>3, <3>2, <4>3, <5>1, <5>2, <5>3
        <5>4. CASE n = slots[g][i].after /\ slots[g][i].free = StartOf(t)
          <6>1. n \in Placed /\ prep.team[n] = g /\ place[n] = i /\ finish[n] = StartOf(t)
            BY <2>1, <5>2, <5>4 DEF SlotsFollow
          <6> QED
            BY <2>2, <2>3, <3>2, <5>1, <5>2, <6>1 DEF g
        <5> QED
          BY <5>3, <5>4 DEF Governing, FreeSlot, g, i
      <4> QED
        BY <4>4, <4>5
    <3> QED
      BY <2>2, <3>1, <3>2
  <2> QED
    BY <2>7, <2>8, <2>9, <2>10
<1> QED
  BY <1>1, <1>2 DEF Next

-----------------------------------------------------------------------------
(* Waiting.                                                                *)

(* A task in progress at an instant on every slot of a team.               *)
Full(g, a) == \A i \in 1..prep.capacity[g] : \E w \in Running(g, a) : place[w] = i

(* Tasks are placed in the order of their starts.                          *)
InTurn == \A t \in Candidate, u \in Placed : NotLater(start[u], StartOf(t))

(* Since a candidate is ready, and as long as its team went on to start    *)
(* other tasks, all slots were taken ...                                   *)
NoGap ==
    \A t \in Candidate, u \in Placed, a \in Instant :
        prep.team[t] = prep.team[u] /\ NotLater(Ready(t), a) /\ Later(start[u], a)
            => Full(prep.team[t], a)

(* ... by lower tasks.                                                     *)
LowestNext ==
    \A t \in Candidate, u \in Placed :
        prep.team[t] = prep.team[u] /\ Later(start[u], Ready(t)) => u < t

(* So it was for the placed tasks before they started.                     *)
Waited ==
    \A t \in Placed, a \in Instant :
        NotLater(Ready(t), a) /\ Later(start[t], a) => Full(prep.team[t], a)

WaitInv == InTurn /\ NoGap /\ LowestNext /\ Waited /\ LowestFirst

LEMMA WaitInit == Init => WaitInv
<1> SUFFICES ASSUME Init PROVE WaitInv
  OBVIOUS
<1>1. Placed = {}
  BY DEF Init, Begin, Placed
<1> QED
  BY <1>1 DEF WaitInv, InTurn, NoGap, LowestNext, Waited, LowestFirst

(* A candidate that is ready and cannot start finds all slots taken.       *)
LEMMA WaitingIsFull ==
    ASSUME ScheduleTypeOK, SlotInv, NoGap, NEW t \in Candidate, NEW a \in Instant,
           NotLater(Ready(t), a), Later(StartOf(t), a)
    PROVE  Full(prep.team[t], a)
<1> DEFINE g == prep.team[t]
<1>1. t \in Active /\ Enabled(t)
  BY DEF Candidate, Unscheduled
<1>2. /\ g \in DOMAIN prep.capacity /\ SlotOf(g) \in 1..prep.capacity[g]
      /\ \A j \in 1..prep.capacity[g] : NotLater(FreeSlot(t).free, slots[g][j].free)
  BY <1>1, LatestHolds, SlotIsFirst DEF StartIsLatest, FreeSlot
<1>3. /\ StartOf(t) \in {prep.release[t], FreeSlot(t).free} \cup DependencyReady(t)
      /\ {prep.release[t], FreeSlot(t).free} \cup DependencyReady(t) \subseteq Instant
  BY <1>1, LatestHolds DEF StartIsLatest
<1>4. /\ \A b \in {prep.release[t]} \cup DependencyReady(t) : NotLater(b, Ready(t))
      /\ Ready(t) \in Instant
  BY <1>1, LatestHolds DEF ReadyIsLatest
<1>5. Later(FreeSlot(t).free, a)
  <2>1. \A b \in {prep.release[t]} \cup DependencyReady(t) : ~Later(b, a)
    BY <1>3, <1>4, InstantOrder
  <2> QED
    BY <1>3, <2>1
<1>6. \A j \in 1..prep.capacity[g] : slots[g][j].free \in Instant /\ Later(slots[g][j].free, a)
  <2>1. \A j \in 1..prep.capacity[g] : slots[g][j].free \in Instant
    BY <1>2 DEF ScheduleTypeOK
  <2> QED
    BY <1>2, <1>3, <1>5, <2>1, InstantOrder
<1>7. NotLater(Zero, a)
  <2>1. NotLater(Zero, prep.release[t]) /\ prep.release[t] \in Instant
    BY <1>1 DEF ScheduleTypeOK, PreparedSchedule, Active
  <2>2. NotLater(Zero, Ready(t))
    BY <1>4, <2>1, InstantOrder
  <2> QED
    BY <1>4, <2>2, InstantOrder
<1>8. \A j \in 1..prep.capacity[g] :
        /\ slots[g][j].after \in Placed
        /\ prep.team[slots[g][j].after] = g
        /\ place[slots[g][j].after] = j
        /\ Later(finish[slots[g][j].after], a)
  <2> TAKE j \in 1..prep.capacity[g]
  <2>1. slots[g][j].after # NoTask
    <3>1. slots[g][j].free # Zero
      BY <1>6, <1>7, InstantOrder
    <3> QED
      BY <1>2, <3>1 DEF SlotInv, SlotsFollow
  <2> QED
    BY <1>2, <1>6, <2>1 DEF SlotInv, SlotsFollow
<1>9. CASE \E j \in 1..prep.capacity[g] : Later(start[slots[g][j].after], a)
  BY <1>8, <1>9 DEF NoGap
<1>10. CASE \A j \in 1..prep.capacity[g] : ~Later(start[slots[g][j].after], a)
  BY <1>8, <1>10 DEF Full, Running, NotLater
<1> QED
  BY <1>9, <1>10

(* The slot that SlotOf finds is one of the team's.                        *)
SlotsInRange == \A g \in DOMAIN prep.capacity : SlotOf(g) \in 1..prep.capacity[g]

LEMMA SlotsInRangeHolds == ScheduleTypeOK => SlotsInRange
BY SlotIsFirst DEF SlotsInRange

(* A turn changes the wait of no task whose predecessors were finished.    *)
LEMMA ReadyIsKept ==
    ASSUME ScheduleTypeOK, NEW v \in Task, Place(v), NEW t, Enabled(t)
    PROVE  DependencyReady(t)' = DependencyReady(t) /\ Ready(t)' = Ready(t) /\ Enabled(t)'
<1>1. /\ prep' = prep /\ v \notin DOMAIN finish
      /\ DOMAIN finish \subseteq DOMAIN finish'
      /\ \A u \in DOMAIN finish : finish'[u] = finish[u]
  <2> DEFINE end == Advance(StartOf(v), prep.days[v])
  <2>1. /\ prep' = prep /\ v \notin DOMAIN finish
        /\ finish' = [u \in DOMAIN finish \cup {v} |-> IF u = v THEN end ELSE finish[u]]
    BY PlaceFacts
  <2> HIDE DEF end
  <2> QED
    BY <2>1
<1>2. Into(t)' = Into(t)
  BY <1>1 DEF Into
<1>3. \A e \in Into(t) : e.from \in DOMAIN finish /\ finish'[e.from] = finish[e.from]
  BY <1>1 DEF Enabled
<1>4. DependencyReady(t)' = DependencyReady(t)
  BY <1>2, <1>3 DEF DependencyReady
<1>5. Enabled(t)'
  BY <1>1, <1>2 DEF Enabled
<1> QED
  BY <1>1, <1>4, <1>5 DEF Ready

(* A task that becomes a candidate by a turn waits at least for the task   *)
(* that was placed.                                                        *)
LEMMA NewCandidate ==
    ASSUME ScheduleTypeOK, NEW v \in Task, Place(v), NEW t \in Candidate', ~Enabled(t)
    PROVE  NotLater(StartOf(v), Ready(t)') /\ NotLater(StartOf(v), StartOf(t)')
<1> DEFINE end == Advance(StartOf(v), prep.days[v])
<1>1. /\ prep' = prep /\ v \notin DOMAIN finish
      /\ StartOf(v) \in Instant /\ end \in Instant /\ NotLater(StartOf(v), end)
      /\ finish' = [u \in DOMAIN finish \cup {v} |-> IF u = v THEN end ELSE finish[u]]
  BY PlaceFacts
<1> HIDE DEF end
<1>2. ScheduleTypeOK' /\ t \in Active' /\ Enabled(t)'
  BY TypeStep DEF Candidate, Unscheduled, Next
<1>3. Into(t)' = Into(t)
  BY <1>1 DEF Into
<1>4. PICK e \in Into(t) : e.from = v
  <2>1. PICK e \in Into(t) : e.from \notin DOMAIN finish
    BY DEF Enabled
  <2>2. e.from \in DOMAIN finish'
    BY <1>2, <1>3 DEF Enabled
  <2> QED
    BY <1>1, <2>1, <2>2
<1>5. e.lag \in Nat
  BY <1>4 DEF ScheduleTypeOK, PreparedSchedule, Into, Edge
<1> DEFINE ready == Advance(finish'[e.from], e.lag)
<1>6. ready \in Instant /\ NotLater(StartOf(v), ready)
  <2>1. finish'[e.from] = end
    BY <1>1, <1>4
  <2>2. Advance(end, e.lag) \in Instant /\ NotLater(end, Advance(end, e.lag))
    BY <1>1, <1>5, AdvanceForward
  <2> QED
    BY <1>1, <2>1, <2>2, InstantOrder
<1>7. ready \in DependencyReady(t)'
  BY <1>3 DEF DependencyReady
<1> HIDE DEF ready
<1>8. StartIsLatest' /\ ReadyIsLatest'
  BY <1>2, LatestHolds, PTL
<1>9. Ready(t)' \in Instant /\ NotLater(ready, Ready(t)')
  BY <1>2, <1>7, <1>8 DEF ReadyIsLatest
<1>10. StartOf(t)' \in Instant /\ NotLater(ready, StartOf(t)')
  BY <1>2, <1>7, <1>8 DEF StartIsLatest
<1> QED
  BY <1>1, <1>6, <1>9, <1>10, InstantOrder

LEMMA WaitStep ==
    ScheduleTypeOK /\ SlotInv /\ WaitInv /\ [Next]_vars => WaitInv'
<1> SUFFICES ASSUME ScheduleTypeOK, SlotInv, WaitInv, [Next]_vars PROVE WaitInv'
  OBVIOUS
<1>1. CASE UNCHANGED vars
  <2>1. /\ Placed' = Placed /\ Candidate' = Candidate /\ prep' = prep
        /\ \A t : StartOf(t)' = StartOf(t) /\ Ready(t)' = Ready(t)
        /\ \A g, a : Full(g, a)' = Full(g, a)
    BY <1>1 DEF vars, Placed, Candidate, Unscheduled, Active, Enabled, Into, StartOf, Ready,
                FreeSlot, SlotOf, DependencyReady, Full, Running
  <2>2. start' = start
    BY <1>1 DEF vars
  <2> QED
    BY <2>1, <2>2 DEF WaitInv, InTurn, NoGap, LowestNext, Waited, LowestFirst
<1>2. ASSUME NEW v \in Task, Place(v) PROVE WaitInv'
  <2> DEFINE g == prep.team[v]
             end == Advance(StartOf(v), prep.days[v])
             i == SlotOf(g)
  <2>1. /\ v \in Active /\ v \notin Placed /\ v \notin DOMAIN finish /\ Enabled(v)
        /\ g \in DOMAIN prep.capacity /\ i \in 1..prep.capacity[g]
        /\ StartOf(v) \in Instant /\ end \in Instant /\ NotLater(StartOf(v), end)
        /\ NotLater(slots[g][i].free, StartOf(v))
        /\ prep' = prep
        /\ start' = [u \in Placed \cup {v} |-> IF u = v THEN StartOf(v) ELSE start[u]]
        /\ finish' = [u \in DOMAIN finish \cup {v} |-> IF u = v THEN end ELSE finish[u]]
        /\ place' = [u \in Placed \cup {v} |-> IF u = v THEN i ELSE place[u]]
        /\ slots' = [slots EXCEPT ![g][i] = [free |-> end, after |-> v]]
    BY <1>2, PlaceFacts DEF FreeSlot
  <2>2. /\ v \in Candidate
        /\ \A u \in Candidate :
              \/ Later(StartOf(u), StartOf(v))
              \/ StartOf(u) = StartOf(v) /\ v <= u
    BY <1>2 DEF Place, Selected
  <2> HIDE DEF end, i
  <2>3. /\ Placed' = Placed \cup {v} /\ v \notin Placed
        /\ start'[v] = StartOf(v) /\ \A u \in Placed : start'[u] = start[u]
        /\ \A u \in Placed : finish'[u] = finish[u] /\ place'[u] = place[u]
        /\ \A u \in Placed : start[u] \in Instant
    BY <2>1 DEF Placed, ScheduleTypeOK
  <2>4. /\ \A t \in Candidate' : t \in Active /\ t \notin Placed /\ t # v
        /\ \A t \in Candidate' : Enabled(t) => t \in Candidate
        /\ \A t \in Candidate : t \in Active /\ Enabled(t)
    BY <2>1, <2>3 DEF Candidate, Unscheduled, Active
  <2>5. \A t : Enabled(t) => DependencyReady(t)' = DependencyReady(t) /\ Ready(t)' = Ready(t)
    BY <1>2, ReadyIsKept
  <2>6. ScheduleTypeOK' /\ StartIsLatest' /\ ReadyIsLatest'
    <3>1. ScheduleTypeOK'
      BY <1>2, TypeStep DEF Next
    <3> QED
      BY <3>1, LatestHolds, PTL
  <2>7. /\ \A t \in Candidate : StartOf(t) \in Instant /\ Ready(t) \in Instant
        /\ \A t \in Candidate' : StartOf(t)' \in Instant /\ Ready(t)' \in Instant
    BY <2>1, <2>4, <2>6, LatestHolds DEF StartIsLatest, ReadyIsLatest, Candidate, Unscheduled
  (* Tasks on the slots stay where they are. *)
  <2>8. \A h \in DOMAIN prep.capacity, a \in Instant : Full(h, a) => Full(h, a)'
    <3>1. \A h, a : Running(h, a) \subseteq Running(h, a)'
      BY <2>1, <2>3 DEF Running
    <3>2. \A h, a : \A w \in Running(h, a) : place'[w] = place[w]
      BY <2>3 DEF Running
    <3> TAKE h \in DOMAIN prep.capacity, a \in Instant
    <3> HAVE Full(h, a)
    <3>3. \A k \in 1..prep.capacity[h] : \E w \in Running(h, a)' : place'[w] = k
      BY <3>1, <3>2 DEF Full
    <3>4. prep'.capacity[h] = prep.capacity[h]
      BY <2>1
    <3> QED
      BY <3>3, <3>4 DEF Full
  (* A task that was a candidate can start no earlier than before. *)
  <2>9. \A t \in Candidate' : Enabled(t) => NotLater(StartOf(t), StartOf(t)')
    <3> SUFFICES ASSUME NEW t \in Candidate', Enabled(t) PROVE NotLater(StartOf(t), StartOf(t)')
      OBVIOUS
    <3> DEFINE h == prep.team[t]
    <3>1. t \in Candidate /\ t \in Active /\ h \in DOMAIN prep.capacity
      BY <2>4, LatestHolds DEF StartIsLatest
    <3>2. /\ StartOf(t) \in {prep.release[t], FreeSlot(t).free} \cup DependencyReady(t)
          /\ FreeSlot(t).free \in Instant
      BY <3>1, LatestHolds DEF StartIsLatest
    <3>3. \A a \in {prep'.release[t], FreeSlot(t)'.free} \cup DependencyReady(t)' :
             NotLater(a, StartOf(t)') /\ a \in Instant
      <4>1. t \in Active' /\ Enabled(t)'
        BY DEF Candidate, Unscheduled
      <4> QED
        BY <2>6, <4>1 DEF StartIsLatest
    <3>4. NotLater(FreeSlot(t).free, FreeSlot(t)'.free)
      <4>1. SlotOf(h)' \in 1..prep.capacity[h] /\ FreeSlot(t)' = slots'[h][SlotOf(h)']
        <5>1. SlotsInRange'
          BY <2>6, SlotsInRangeHolds, PTL
        <5>2. SlotOf(h)' \in 1..prep.capacity[h]
          BY <2>1, <3>1, <5>1 DEF SlotsInRange
        <5> QED
          BY <2>1, <3>1, <5>2 DEF FreeSlot
      <4>2. \A j \in 1..prep.capacity[h] : NotLater(slots[h][j].free, slots'[h][j].free)
        <5> TAKE j \in 1..prep.capacity[h]
        <5>1. slots[h][j].free \in Instant
          BY <3>1 DEF ScheduleTypeOK
        <5>2. CASE h = g /\ j = i
          <6>1. slots'[h][j].free = end
            BY <2>1, <5>2 DEF ScheduleTypeOK
          <6>2. slots[h][j].free \in Instant /\ NotLater(slots[h][j].free, StartOf(v))
            BY <2>1, <5>1, <5>2
          <6> QED
            BY <2>1, <6>1, <6>2, InstantOrder
        <5>3. CASE ~(h = g /\ j = i)
          <6>1. slots'[h][j] = slots[h][j]
            BY <2>1, <3>1, <5>3 DEF ScheduleTypeOK
          <6> QED
            BY <5>1, <6>1, InstantOrder
        <5> QED
          BY <5>2, <5>3
      <4>3. \A j \in 1..prep.capacity[h] : slots[h][j].free \in Instant /\ slots'[h][j].free \in Instant
        <5>1. \A j \in 1..prep.capacity[h] : slots[h][j].free \in Instant
          BY <3>1 DEF ScheduleTypeOK
        <5>2. slots'[h] \in [1..prep.capacity[h] -> [free: Instant, after: Task \cup {NoTask}]]
          <6>1. prep' = prep /\ ScheduleTypeOK'
            BY <2>1, <2>6
          <6> QED
            BY <3>1, <6>1 DEF ScheduleTypeOK
        <5> QED
          BY <5>1, <5>2
      <4>4. \A j \in 1..prep.capacity[h] : NotLater(FreeSlot(t).free, slots[h][j].free)
        BY <3>1, SlotIsFirst DEF FreeSlot
      <4> QED
        BY <3>2, <4>1, <4>2, <4>3, <4>4, InstantOrder
    <3>5. prep'.release[t] = prep.release[t] /\ DependencyReady(t)' = DependencyReady(t)
      BY <2>1, <2>5
    <3>6. CASE StartOf(t) = FreeSlot(t).free
      BY <2>4, <2>7, <3>2, <3>3, <3>4, <3>6, InstantOrder
    <3>7. CASE StartOf(t) \in {prep.release[t]} \cup DependencyReady(t)
      BY <3>3, <3>5, <3>7
    <3> QED
      BY <3>2, <3>6, <3>7
  <2>10. \A u \in Placed' : NotLater(start'[u], StartOf(v)) /\ start'[u] \in Instant
    BY <2>1, <2>2, <2>3, InstantOrder DEF WaitInv, InTurn
  (* A new candidate waits for v and so for everything placed. *)
  <2>11. \A t \in Candidate' : ~Enabled(t) =>
            \A u \in Placed' : NotLater(start'[u], Ready(t)') /\ NotLater(start'[u], StartOf(t)')
    <3> SUFFICES ASSUME NEW t \in Candidate', ~Enabled(t), NEW u \in Placed'
                 PROVE NotLater(start'[u], Ready(t)') /\ NotLater(start'[u], StartOf(t)')
      OBVIOUS
    <3>1. NotLater(StartOf(v), Ready(t)') /\ NotLater(StartOf(v), StartOf(t)')
      BY <1>2, NewCandidate
    <3> QED
      BY <2>1, <2>7, <2>10, <3>1, InstantOrder
  <2>12. \A t \in Candidate : NotLater(StartOf(v), StartOf(t))
    BY <2>1, <2>2, <2>7, InstantOrder
  <2>13. InTurn'
    <3> SUFFICES ASSUME NEW t \in Candidate', NEW u \in Placed' PROVE NotLater(start'[u], StartOf(t)')
      BY DEF InTurn
    <3>1. CASE Enabled(t)
      <4>1. t \in Candidate /\ NotLater(StartOf(v), StartOf(t)) /\ NotLater(StartOf(t), StartOf(t)')
        BY <2>4, <2>9, <2>12, <3>1
      <4> QED
        BY <2>1, <2>7, <2>10, <4>1, InstantOrder
    <3>2. CASE ~Enabled(t)
      BY <2>11, <3>2
    <3> QED
      BY <3>1, <3>2
  <2>14. NoGap'
    <3> SUFFICES ASSUME NEW t \in Candidate', NEW u \in Placed', NEW a \in Instant,
                        prep.team[t] = prep.team[u], NotLater(Ready(t)', a), Later(start'[u], a)
                 PROVE  Full(prep.team[t], a)'
      BY <2>1, Zenon DEF NoGap
    <3>1. CASE Enabled(t)
      <4>1. t \in Candidate /\ Ready(t)' = Ready(t) /\ prep.team[t] \in DOMAIN prep.capacity
        BY <2>4, <2>5, <3>1, LatestHolds DEF StartIsLatest
      <4>2. Full(prep.team[t], a)
        <5>1. CASE u \in Placed
          BY <2>3, <4>1, <5>1 DEF WaitInv, NoGap
        <5>2. CASE u = v
          <6>1. Later(StartOf(t), a)
            BY <2>1, <2>3, <2>7, <2>12, <4>1, <5>2, InstantOrder
          <6> QED
            BY <4>1, <6>1, WaitingIsFull DEF WaitInv
        <5> QED
          BY <2>3, <5>1, <5>2
      <4> QED
        BY <2>1, <2>8, <4>1, <4>2
    <3>2. CASE ~Enabled(t)
      <4>1. NotLater(start'[u], Ready(t)')
        BY <2>11, <3>2
      <4> QED
        BY <2>7, <2>10, <4>1, InstantOrder
    <3> QED
      BY <3>1, <3>2
  <2>15. LowestNext'
    <3> SUFFICES ASSUME NEW t \in Candidate', NEW u \in Placed',
                        prep.team[t] = prep.team[u], Later(start'[u], Ready(t)')
                 PROVE  u < t
      BY <2>1, Zenon DEF LowestNext
    <3>1. CASE Enabled(t)
      <4>1. t \in Candidate /\ Ready(t)' = Ready(t)
        BY <2>4, <2>5, <3>1
      <4>2. CASE u \in Placed
        BY <2>3, <4>1, <4>2 DEF WaitInv, LowestNext
      <4>3. CASE u = v
        <5>1. NotLater(StartOf(t), StartOf(v))
          <6>1. /\ StartOf(t) \in {prep.release[t], FreeSlot(t).free} \cup DependencyReady(t)
                /\ \A a \in {prep.release[t]} \cup DependencyReady(t) :
                      a \in Instant /\ NotLater(a, Ready(t))
            BY <2>4, <4>1, LatestHolds DEF StartIsLatest, ReadyIsLatest
          <6>2. FreeSlot(t) = slots[g][i]
            BY <4>3 DEF FreeSlot, i
          <6>3. \A a \in {prep.release[t]} \cup DependencyReady(t) : NotLater(a, StartOf(v))
            BY <2>1, <2>3, <2>7, <4>1, <4>3, <6>1, InstantOrder
          <6> QED
            BY <2>1, <6>1, <6>2, <6>3
        <5>2. ~Later(StartOf(t), StartOf(v))
          BY <2>1, <2>7, <4>1, <5>1, InstantOrder
        <5>3. v <= t /\ v # t
          BY <2>2, <2>4, <4>1, <5>2
        <5>4. v \in Nat /\ t \in Nat
          BY <2>4, ScheduleAssumption DEF ScheduleTypeOK, PreparedSchedule, Active
        <5> QED
          BY <4>3, <5>3, <5>4
      <4> QED
        BY <2>3, <4>2, <4>3
    <3>2. CASE ~Enabled(t)
      <4>1. NotLater(start'[u], Ready(t)')
        BY <2>11, <3>2
      <4> QED
        BY <2>7, <2>10, <4>1, InstantOrder
    <3> QED
      BY <3>1, <3>2
  (* Placed tasks had their predecessors finished. *)
  <2>16. \A t \in Placed' : Enabled(t) /\ Ready(t)' = Ready(t)
    BY <2>1, <2>3, <2>5 DEF SlotInv, Feasible, Enabled
  <2>17. Waited'
    <3> SUFFICES ASSUME NEW t \in Placed', NEW a \in Instant,
                        NotLater(Ready(t)', a), Later(start'[t], a)
                 PROVE  Full(prep.team[t], a)'
      BY <2>1, Zenon DEF Waited
    <3>1. Full(prep.team[t], a)
      <4>1. CASE t \in Placed
        BY <2>3, <2>16, <4>1 DEF WaitInv, Waited
      <4>2. CASE t = v
        BY <2>2, <2>3, <2>16, <4>2, WaitingIsFull DEF WaitInv
      <4> QED
        BY <2>3, <4>1, <4>2
    <3>2. prep.team[t] \in DOMAIN prep.capacity
      BY <2>1, <2>3 DEF ScheduleTypeOK, PreparedSchedule, Active
    <3> QED
      BY <2>1, <2>8, <3>1, <3>2
  <2>18. LowestFirst'
    <3> SUFFICES ASSUME NEW t \in Placed', NEW u \in Placed', prep.team[t] = prep.team[u],
                        Later(start'[t], start'[u]), Later(start'[u], Ready(t)')
                 PROVE  u < t
      BY <2>1, Zenon DEF LowestFirst
    <3>1. u # v
      BY <2>1, <2>3, <2>10, InstantOrder
    <3>2. CASE t \in Placed
      BY <2>3, <2>16, <3>1, <3>2 DEF WaitInv, LowestFirst
    <3>3. CASE t = v
      BY <2>2, <2>3, <2>16, <3>1, <3>3 DEF WaitInv, LowestNext
    <3> QED
      BY <2>3, <3>2, <3>3
  <2> QED
    BY <2>13, <2>14, <2>15, <2>17, <2>18 DEF WaitInv
<1> QED
  BY <1>1, <1>2 DEF Next

-----------------------------------------------------------------------------
(* What the invariants say about the numbers of running tasks.             *)

(* Tasks that run at one instant are on different slots.                   *)
LEMMA RunningOnSlots ==
    ASSUME ScheduleTypeOK, SlotInv, NEW g \in DOMAIN prep.capacity, NEW a \in Instant
    PROVE  /\ Cardinality(Running(g, a)) <= prep.capacity[g]
           /\ Full(g, a) => Cardinality(Running(g, a)) = prep.capacity[g]
<1> DEFINE S == Running(g, a)
           T == 1..prep.capacity[g]
           f == [t \in S |-> place[t]]
<1>1. prep.capacity[g] \in Nat /\ prep.capacity[g] > 0
  BY DEF ScheduleTypeOK, PreparedSchedule
<1>2. IsFiniteSet(T) /\ Cardinality(T) = prep.capacity[g]
  <2> DEFINE n == prep.capacity[g]
  <2> HIDE DEF n
  <2>1. n \in Nat /\ n > 0
    BY <1>1 DEF n
  <2>2. IsFiniteSet(1..n) /\ Cardinality(1..n) = IF 1 > n THEN 0 ELSE n - 1 + 1
    BY <2>1, FS_Interval
  <2> QED
    BY <2>1, <2>2 DEF n
<1>3. \A t \in S : /\ t \in Placed /\ prep.team[t] = g /\ place[t] \in T
                   /\ start[t] \in Instant /\ finish[t] \in Instant
                   /\ ~Later(start[t], a) /\ Later(finish[t], a)
  BY DEF Running, NotLater, ScheduleTypeOK
<1>4. \A t, u \in S : place[t] = place[u] => t = u
  <2> SUFFICES ASSUME NEW t \in S, NEW u \in S, place[t] = place[u], t # u PROVE FALSE
    OBVIOUS
  <2>1. NotLater(finish[t], start[u]) \/ NotLater(finish[u], start[t])
    BY <1>3 DEF SlotInv, Exclusive
  <2> QED
    BY <1>3, <2>1, InstantOrder
<1> HIDE DEF S, T
<1>5. f \in Injection(S, T)
  BY <1>3, <1>4 DEF Injection, IsInjective
<1>6. Full(g, a) => f \in Surjection(S, T)
  BY <1>3 DEF Full, Surjection, S, T
<1> HIDE DEF f
<1>7. Cardinality(S) <= Cardinality(T) /\ (Cardinality(S) = Cardinality(T) <=> f \in Surjection(S, T))
  BY <1>2, <1>5, FS_Injection
<1> QED
  BY <1>2, <1>6, <1>7 DEF S

LEMMA CapacityFollows == ScheduleTypeOK /\ SlotInv => CapacityKept
<1> SUFFICES ASSUME ScheduleTypeOK, SlotInv, NEW t \in Placed
             PROVE  Cardinality(Running(prep.team[t], start[t])) <= prep.capacity[prep.team[t]]
  BY DEF CapacityKept
<1>1. prep.team[t] \in DOMAIN prep.capacity /\ start[t] \in Instant
  BY DEF ScheduleTypeOK, PreparedSchedule, Active
<1> QED
  BY <1>1, RunningOnSlots

LEMMA NoIdleFollows == ScheduleTypeOK /\ SlotInv /\ WaitInv => NoIdleWait
<1> SUFFICES ASSUME ScheduleTypeOK, SlotInv, WaitInv, NEW t \in Placed,
                    NEW a \in {Ready(t)} \cup {finish[u] : u \in Placed},
                    NotLater(Ready(t), a), Later(start[t], a)
             PROVE  Cardinality(Running(prep.team[t], a)) = prep.capacity[prep.team[t]]
  BY DEF NoIdleWait
<1>1. prep.team[t] \in DOMAIN prep.capacity /\ t \in Active
  BY DEF ScheduleTypeOK, PreparedSchedule, Active
<1>2. a \in Instant
  <2>1. Ready(t) \in Instant
    <3>1. Enabled(t)
      BY DEF SlotInv, Feasible, Enabled
    <3> QED
      BY <1>1, <3>1, LatestHolds DEF ReadyIsLatest
  <2>2. \A u \in Placed : finish[u] \in Instant
    BY DEF ScheduleTypeOK
  <2> QED
    BY <2>1, <2>2
<1>3. Full(prep.team[t], a)
  BY <1>2 DEF WaitInv, Waited
<1> QED
  BY <1>1, <1>2, <1>3, RunningOnSlots

(* Of the unscheduled tasks of an acyclic plan one waits for none.         *)
LEMMA NeverStuckFollows == ScheduleTypeOK => NeverStuck
<1> SUFFICES ASSUME ScheduleTypeOK, Unscheduled # {} PROVE Candidate # {}
  BY DEF NeverStuck
<1>1. PICK t \in Unscheduled : \A e \in prep.edges : e.to = t => e.from \notin Unscheduled
  <2>1. Acyclic(prep.edges, Active)
    BY DEF ScheduleTypeOK, PreparedSchedule, Active
  <2>2. Unscheduled \in SUBSET Active
    BY DEF Unscheduled
  <2> QED
    BY <2>1, <2>2 DEF Acyclic
<1>2. \A e \in Into(t) : e.from \in Active \cup DOMAIN prep.done
  BY DEF ScheduleTypeOK, PreparedSchedule, Active, Into
<1>3. DOMAIN finish = Placed \cup DOMAIN prep.done
  BY DEF ScheduleTypeOK
<1>4. Enabled(t)
  BY <1>1, <1>2, <1>3 DEF Enabled, Into, Unscheduled
<1> QED
  BY <1>1, <1>4 DEF Candidate

-----------------------------------------------------------------------------
(* The theorems.                                                           *)

ScheduleInv == ScheduleTypeOK /\ SlotInv /\ WaitInv

LEMMA ScheduleInvHolds == Spec => []ScheduleInv
<1>1. Init => ScheduleInv
  BY TypeInit, SlotInit, WaitInit DEF ScheduleInv
<1>2. ScheduleInv /\ [Next]_vars => ScheduleInv'
  BY TypeStep, SlotStep, WaitStep DEF ScheduleInv
<1> QED
  BY <1>1, <1>2, PTL DEF Spec

(* Type correctness of the scheduler's loop (_schedule_iteration): every   *)
(* placed task has a start and a finish, and a slot that its team has.     *)
THEOREM TypeCorrect == Spec => []ScheduleTypeOK
<1>1. ScheduleInv => ScheduleTypeOK
  BY DEF ScheduleInv
<1> QED
  BY <1>1, ScheduleInvHolds, PTL

(* The schedule keeps the releases, dependencies, lags and durations.      *)
THEOREM FeasibleHolds == Spec => []Feasible
<1>1. ScheduleInv => Feasible
  BY DEF ScheduleInv, SlotInv
<1> QED
  BY <1>1, ScheduleInvHolds, PTL

(* A team never works on more tasks at once than it has slots.             *)
THEOREM CapacityHolds == Spec => []CapacityKept
<1>1. ScheduleInv => CapacityKept
  BY CapacityFollows DEF ScheduleInv
<1> QED
  BY <1>1, ScheduleInvHolds, PTL

(* The chain of parents that the criticality counts explains the finish of *)
(* every task without a gap.                                               *)
THEOREM ChainHolds == Spec => []ChainIsTight
<1>1. ScheduleInv => ChainIsTight
  BY DEF ScheduleInv, SlotInv
<1> QED
  BY <1>1, ScheduleInvHolds, PTL

(* Greedy selection leaves no slot of a team free while a task of the team *)
(* is ready.                                                               *)
THEOREM NoIdleHolds == Spec => []NoIdleWait
<1>1. ScheduleInv => NoIdleWait
  BY NoIdleFollows DEF ScheduleInv
<1> QED
  BY <1>1, ScheduleInvHolds, PTL

(* Of the tasks of a team that wait for a slot, the lowest gets it.        *)
THEOREM LowestHolds == Spec => []LowestFirst
<1>1. ScheduleInv => LowestFirst
  BY DEF ScheduleInv, WaitInv
<1> QED
  BY <1>1, ScheduleInvHolds, PTL

(* The loop never finds itself without a candidate: the code's             *)
(* unschedulable_graph error is unreachable for an acyclic plan.           *)
THEOREM NeverStuckHolds == Spec => []NeverStuck
<1>1. ScheduleInv => NeverStuck
  BY NeverStuckFollows DEF ScheduleInv
<1> QED
  BY <1>1, ScheduleInvHolds, PTL

=============================================================================
