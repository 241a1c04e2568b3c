------------------------- MODULE Simulation_proofs --------------------------
(***************************************************************************)
(* A simulation request, for every request, calendar, plan and sample: the *)
(* plans that are scheduled are validated ones, their schedules are        *)
(* feasible, capacity-respecting and explained; what is reported of them   *)
(* in civil time is right; and interventions that only relax a plan never  *)
(* delay it.                                                               *)
(***************************************************************************)
EXTENDS Simulation, ScenarioPlan_proofs

-----------------------------------------------------------------------------
(* Loops as recursive functions.                                           *)

(* A loop in D of which every turn lowers a rank.                          *)
IsLoop(D, rank, step, stop, last, gain) ==
    /\ rank \in [D -> Nat] /\ step \in [D -> D] /\ stop \in SUBSET D
    /\ last \in [D -> Int] /\ gain \in [D -> Int]
    /\ \A x \in D \ stop : rank[step[x]] < rank[x]

(* The results of a loop, for every argument.                              *)
HasResults(D, step, stop, last, gain) ==
    \E f \in [D -> Int] :
        \A x \in D : f[x] = IF x \in stop THEN last[x] ELSE gain[x] + f[step[x]]

(* Such a loop has results.  They exist for the ranks below every n, and   *)
(* agree where they overlap.                                               *)
LEMMA LoopEnds ==
    ASSUME NEW D, NEW rank, NEW step, NEW stop, NEW last, NEW gain,
           IsLoop(D, rank, step, stop, last, gain)
    PROVE  HasResults(D, step, stop, last, gain)
<1> USE DEF IsLoop
<1> DEFINE Below(n) == {x \in D : rank[x] < n}
           Turn(x, g) == IF x \in stop THEN last[x] ELSE gain[x] + g[step[x]]
           Result(n, g) == /\ g \in [Below(n) -> Int]
                           /\ \A x \in Below(n) : g[x] = Turn(x, g)
           Missing == {n \in Nat : ~\E g : Result(n, g)}
<1>1. \A n \in Nat : \A x \in Below(n) : x \notin stop => step[x] \in Below(n)
  OBVIOUS
<1>2. Missing = {}
  <2>1. SUFFICES ASSUME Missing # {} PROVE FALSE
    OBVIOUS
  <2>2. PICK n \in Missing : \A m \in Missing : n <= m
    <3>1. Missing \subseteq Nat
      OBVIOUS
    <3> HIDE DEF Missing
    <3> QED
      BY <2>1, <3>1, LeastUpTo
  <2>3. n # 0
    <3>1. Below(0) = {}
      OBVIOUS
    <3> DEFINE g == [x \in {} |-> 0]
    <3>2. Result(0, g)
      BY <3>1
    <3> HIDE DEF Result, g
    <3>3. 0 \notin Missing
      BY <3>2
    <3> HIDE DEF Missing
    <3> QED
      BY <2>2, <3>3
  <2>4. n \in Nat /\ n - 1 \in Nat /\ n - 1 \notin Missing
    <3>1. n \in Nat
      OBVIOUS
    <3> HIDE DEF Missing
    <3>2. n - 1 \in Nat /\ ~(n <= n - 1)
      BY <2>3, <3>1
    <3> QED
      BY <2>2, <3>1, <3>2
  <2>5. PICK g : Result(n - 1, g)
    BY <2>4
  <2> DEFINE h == [x \in Below(n) |-> Turn(x, g)]
  <2>6. \A x \in Below(n) : x \notin stop => step[x] \in Below(n - 1)
    BY <2>4
  <2>7. h \in [Below(n) -> Int]
    <3>1. ASSUME NEW x \in Below(n) PROVE Turn(x, g) \in Int
      <4>1. CASE x \in stop
        BY <4>1
      <4>2. CASE x \notin stop
        <5>1. g[step[x]] \in Int /\ gain[x] \in Int
          BY <2>5, <2>6, <4>2
        <5> QED
          BY <4>2, <5>1
      <4> QED
        BY <4>1, <4>2
    <3> HIDE DEF Turn
    <3> QED
      BY <3>1
  <2>8. \A x \in Below(n - 1) : x \in Below(n) /\ h[x] = g[x]
    BY <2>4, <2>5
  <2>9. ASSUME NEW x \in Below(n) PROVE h[x] = Turn(x, h)
    <3>1. x \notin stop => h[step[x]] = g[step[x]]
      BY <2>6, <2>8
    <3>2. h[x] = Turn(x, g)
      OBVIOUS
    <3> HIDE DEF h
    <3> QED
      BY <3>1, <3>2
  <2>10. Result(n, h)
    <3> HIDE DEF h
    <3> QED
      BY <2>7, <2>9
  <2> HIDE DEF Result
  <2> QED
    BY <2>4, <2>10
<1>3. ASSUME NEW n \in Nat, NEW m \in Nat, NEW g, NEW h, Result(n, g), Result(m, h),
             NEW x \in Below(n) \cap Below(m)
      PROVE  g[x] = h[x]
  <2> DEFINE Differ == {r \in Nat : \E y \in Below(n) \cap Below(m) :
                                        rank[y] = r /\ g[y] # h[y]}
  <2>1. SUFFICES ASSUME Differ # {} PROVE FALSE
    <3>1. rank[x] \in Nat
      OBVIOUS
    <3> QED
      BY <2>1, <3>1
  <2>2. PICK r \in Differ : \A s \in Differ : r <= s
    <3>1. Differ \subseteq Nat
      OBVIOUS
    <3> HIDE DEF Differ
    <3> QED
      BY <2>1, <3>1, LeastUpTo
  <2>3. PICK y \in Below(n) \cap Below(m) : rank[y] = r /\ g[y] # h[y]
    OBVIOUS
  <2>4. g[y] = Turn(y, g) /\ h[y] = Turn(y, h)
    BY <1>3
  <2>5. y \notin stop /\ g[step[y]] # h[step[y]]
    BY <2>3, <2>4
  <2>6. /\ step[y] \in Below(n) \cap Below(m)
        /\ rank[step[y]] \in Nat /\ rank[step[y]] < r /\ r \in Nat
    BY <1>1, <2>3, <2>5
  <2>7. rank[step[y]] \in Differ
    BY <2>5, <2>6
  <2> HIDE DEF Differ
  <2> QED
    BY <2>2, <2>6, <2>7
<1> DEFINE G(n) == CHOOSE g : Result(n, g)
<1>4. \A n \in Nat : Result(n, G(n))
  <2> HIDE DEF Result
  <2> QED
    BY <1>2
<1> DEFINE f == [x \in D |-> G(rank[x] + 1)[x]]
<1> HIDE DEF G
<1>5. ASSUME NEW x \in D PROVE f[x] \in Int /\ f[x] = Turn(x, f)
  <2> DEFINE n == rank[x] + 1
  <2>1. n \in Nat /\ x \in Below(n)
    OBVIOUS
  <2>2. G(n) \in [Below(n) -> Int] /\ G(n)[x] = Turn(x, G(n))
    BY <1>4, <2>1
  <2>3. f[x] = G(n)[x] /\ f[x] \in Int
    BY <2>1, <2>2
  <2>4. ASSUME x \notin stop PROVE f[step[x]] = G(n)[step[x]]
    <3> DEFINE y == step[x]
               m == rank[y] + 1
    <3>1. y \in D /\ m \in Nat /\ y \in Below(m) /\ y \in Below(n)
      BY <1>1, <2>1, <2>4
    <3>2. f[y] = G(m)[y]
      BY <3>1
    <3>3. Result(n, G(n)) /\ Result(m, G(m))
      BY <1>4, <2>1, <3>1
    <3>4. y \in Below(n) \cap Below(m)
      BY <3>1
    <3> HIDE DEF Result, Below, n, m, y
    <3>5. G(n)[y] = G(m)[y]
      BY <1>3, <2>1, <3>1, <3>3, <3>4
    <3> QED
      BY <3>2, <3>5 DEF y
  <2> HIDE DEF f
  <2> QED
    BY <2>2, <2>3, <2>4
<1>6. f \in [D -> Int]
  BY <1>5
<1> HIDE DEF f, IsLoop
<1> QED
  BY <1>5, <1>6 DEF HasResults

-----------------------------------------------------------------------------
(* Days and shifts.                                                        *)

(* Products with the length of a day.                                      *)
LEMMA Products ==
    ASSUME NEW p \in Int, NEW q \in Int, NEW d \in Nat \ {0}
    PROVE  /\ p * d < (q + 1) * d => p <= q
           /\ p <= q => p * d <= q * d
           /\ (p + 1) * d = p * d + d
           /\ p * d \in Int
OBVIOUS

(* An instant lies in its day,                                             *)
LEMMA DayOf ==
    ASSUME NEW t \in Int
    PROVE  /\ LocalDate(t) \in Int
           /\ LocalDate(t) * DayTicks <= t
           /\ t < LocalDate(t) * DayTicks + DayTicks
BY CalendarAssumption DEF LocalDate

(* and in no other.                                                        *)
LEMMA DayIs ==
    ASSUME NEW t \in Int, NEW d \in Int, d * DayTicks <= t, t < d * DayTicks + DayTicks
    PROVE  LocalDate(t) = d
<1> DEFINE e == LocalDate(t)
<1>1. e \in Int /\ e * DayTicks <= t /\ t < e * DayTicks + DayTicks
  BY DayOf
<1> HIDE DEF e
<1>2. DayTicks \in Nat \ {0}
  BY CalendarAssumption
<1>3. e * DayTicks < (d + 1) * DayTicks /\ d * DayTicks < (e + 1) * DayTicks
  <2>1. (e + 1) * DayTicks = e * DayTicks + DayTicks /\ (d + 1) * DayTicks = d * DayTicks + DayTicks
    BY <1>1, <1>2, Products
  <2>2. d * DayTicks \in Int /\ e * DayTicks \in Int
    BY <1>1, <1>2, Products
  <2> QED
    BY <1>1, <1>2, <2>1, <2>2
<1>4. e <= d /\ d <= e
  BY <1>1, <1>2, <1>3, Products
<1> QED
  BY <1>1, <1>4 DEF e

(* Days are in the order of their instants.                                *)
LEMMA DaysInOrder ==
    ASSUME NEW s \in Int, NEW t \in Int, s <= t
    PROVE  LocalDate(s) <= LocalDate(t)
<1> DEFINE d == LocalDate(s)
           e == LocalDate(t)
<1>1. /\ d \in Int /\ d * DayTicks <= s
      /\ e \in Int /\ t < e * DayTicks + DayTicks
  BY DayOf
<1> HIDE DEF d, e
<1>2. DayTicks \in Nat \ {0}
  BY CalendarAssumption
<1>3. (e + 1) * DayTicks = e * DayTicks + DayTicks /\ d * DayTicks \in Int /\ e * DayTicks \in Int
  BY <1>1, <1>2, Products
<1>4. d * DayTicks < (e + 1) * DayTicks
  BY <1>1, <1>2, <1>3
<1>5. d <= e
  BY <1>1, <1>2, <1>4, Products
<1> QED
  BY <1>5 DEF d, e

(* Shifts follow one another, and begin on their day.                      *)
LEMMA Shifts ==
    ASSUME NEW c \in Calendar, NEW d \in Int
    PROVE  /\ ShiftStart(c, d) \in Int /\ ShiftEnd(c, d) \in Int
           /\ d * DayTicks <= ShiftStart(c, d)
           /\ ShiftStart(c, d) < d * DayTicks + DayTicks
           /\ LocalDate(ShiftStart(c, d)) = d
           /\ ShiftStart(c, d) < ShiftEnd(c, d)
           /\ ShiftEnd(c, d) = ShiftStart(c, d) + c.shift
           /\ ShiftStart(c, d + 1) = ShiftStart(c, d) + DayTicks
           /\ \A e \in Int : d < e => ShiftEnd(c, d) <= ShiftStart(c, e)
           /\ \A e \in Int : d <= e => ShiftStart(c, d) <= ShiftStart(c, e)
<1>1. /\ c.opens \in Nat /\ c.opens < DayTicks
      /\ c.shift \in Nat /\ 1 <= c.shift /\ c.shift <= DayTicks
      /\ DayTicks \in Nat \ {0}
  BY CalendarAssumption DEF Calendar
<1>2. d * DayTicks \in Int /\ (d + 1) * DayTicks = d * DayTicks + DayTicks
  BY <1>1, Products
<1>3. /\ ShiftStart(c, d) = d * DayTicks + c.opens
      /\ ShiftEnd(c, d) = d * DayTicks + c.opens + c.shift
      /\ ShiftStart(c, d + 1) = (d + 1) * DayTicks + c.opens
  BY DEF ShiftStart, ShiftEnd
<1>4. /\ ShiftStart(c, d) \in Int /\ ShiftEnd(c, d) \in Int
      /\ d * DayTicks <= ShiftStart(c, d)
      /\ ShiftStart(c, d) < d * DayTicks + DayTicks
      /\ ShiftStart(c, d) < ShiftEnd(c, d)
      /\ ShiftEnd(c, d) = ShiftStart(c, d) + c.shift
      /\ ShiftStart(c, d + 1) = ShiftStart(c, d) + DayTicks
  BY <1>1, <1>2, <1>3
<1>5. ASSUME NEW e \in Int, d <= e PROVE ShiftStart(c, d) <= ShiftStart(c, e)
  <2>1. d * DayTicks <= e * DayTicks /\ e * DayTicks \in Int
    BY <1>1, <1>5, Products
  <2>2. ShiftStart(c, e) = e * DayTicks + c.opens
    BY DEF ShiftStart
  <2> QED
    BY <1>1, <1>2, <1>3, <2>1, <2>2
<1>6. ASSUME NEW e \in Int, d < e PROVE ShiftEnd(c, d) <= ShiftStart(c, e)
  <2>1. d + 1 <= e /\ d + 1 \in Int
    BY <1>6
  <2>2. (d + 1) * DayTicks <= e * DayTicks /\ e * DayTicks \in Int
    BY <1>1, <2>1, Products
  <2>3. ShiftStart(c, e) = e * DayTicks + c.opens
    BY DEF ShiftStart
  <2> QED
    BY <1>1, <1>2, <1>3, <2>2, <2>3
<1>7. LocalDate(ShiftStart(c, d)) = d
  BY <1>4, DayIs
<1> QED
  BY <1>4, <1>5, <1>6, <1>7

(* Some day of the next Guardrail ones is a working day: a working weekday *)
(* comes more often than there are holidays.                               *)
LEMMA WorkingDayWithin ==
    ASSUME NEW c \in Calendar, NEW day \in Int
    PROVE  \E d \in day..(day + Guardrail - 1) : IsWorkingDay(c, d)
<1> DEFINE H == c.holidays
           n == Cardinality(H)
<1>1. IsFiniteSet(H) /\ n \in Nat /\ 7 * (n + 1) <= Guardrail /\ c.weekdays # {}
      /\ c.weekdays \subseteq 1..7 /\ Guardrail \in Nat
  <2>1. /\ c.weekdays \in (SUBSET (1..7)) \ {{}} /\ IsFiniteSet(H)
        /\ 7 * (n + 1) <= Guardrail
    BY DEF Calendar
  <2>2. n \in Nat
    BY <2>1, FS_CardinalityType
  <2>3. c.weekdays # {} /\ c.weekdays \subseteq 1..7
    BY <2>1
  <2>4. Guardrail \in Nat
    BY CalendarAssumption
  <2> HIDE DEF H, n
  <2> QED
    BY <2>1, <2>2, <2>3, <2>4
<1>2. PICK w \in c.weekdays : TRUE
  BY <1>1
<1>3. PICK first \in day..(day + 6) : (first % 7) + 1 = w
  <2>1. w \in 1..7
    BY <1>1
  <2> DEFINE r == day % 7
  <2>2. r \in 0..6 /\ day \in Int
    OBVIOUS
  <2>3. \A i \in 0..6 : (day + i) % 7 = IF r + i < 7 THEN r + i ELSE r + i - 7
    OBVIOUS
  <2> DEFINE i == IF w - 1 >= r THEN w - 1 - r ELSE w + 6 - r
  <2> HIDE DEF r
  <2>4. i \in 0..6 /\ (IF r + i < 7 THEN r + i ELSE r + i - 7) = w - 1
    BY <2>1, <2>2
  <2>5. day + i \in day..(day + 6) /\ (day + i) % 7 = w - 1
    <3> HIDE DEF i
    <3> QED
      BY <2>2, <2>3, <2>4
  <2> HIDE DEF i
  <2>6. ((day + i) % 7) + 1 = w
    BY <2>1, <2>5
  <2> QED
    BY <2>5, <2>6
<1> DEFINE f == [i \in 0..n |-> first + 7 * i]
<1>4. CASE \E i \in 0..n : f[i] \notin H
  <2>1. PICK i \in 0..n : f[i] \notin H
    BY <1>4
  <2>2. f[i] = first + 7 * i /\ first + 7 * i \in Int
    BY <1>1
  <2>3. (f[i] % 7) + 1 = w
    BY <1>1, <1>3, <2>2
  <2>4. f[i] \in day..(day + Guardrail - 1)
    BY <1>1, <2>2
  <2> QED
    BY <2>1, <2>3, <2>4 DEF IsWorkingDay
<1>5. CASE \A i \in 0..n : f[i] \in H
  <2>1. f \in [0..n -> H]
    BY <1>5
  <2>2. IsFiniteSet(0..n) /\ Cardinality(0..n) = n + 1
    BY <1>1, FS_Interval
  <2> HIDE DEF f, n, H
  <2>3. n < n + 1
    BY <1>1
  <2>4. \E i, j \in 0..n : i # j /\ f[i] = f[j]
    BY <1>1, <2>1, <2>2, <2>3, FS_PigeonHole DEF n
  <2> QED
    BY <1>1, <2>4 DEF f
<1> QED
  BY <1>4, <1>5

(* The first working day from a day on.                                    *)
NextDay(c, day) ==
    CHOOSE d \in day..(day + Guardrail - 1) :
        IsWorkingDay(c, d) /\ \A e \in day..(d - 1) : ~IsWorkingDay(c, e)

(* next_working_start finds the first working day.                         *)
LEMMA NextDayIsFirst ==
    ASSUME NEW c \in Calendar, NEW day \in Int
    PROVE  /\ NextDay(c, day) \in Int /\ day <= NextDay(c, day)
           /\ IsWorkingDay(c, NextDay(c, day))
           /\ \A e \in Int : day <= e /\ IsWorkingDay(c, e) => NextDay(c, day) <= e
           /\ NextWorkingStart(c, day) = ShiftStart(c, NextDay(c, day))
<1> DEFINE S == {k \in Nat : IsWorkingDay(c, day + k)}
           P(d) == IsWorkingDay(c, d) /\ \A e \in day..(d - 1) : ~IsWorkingDay(c, e)
<1>1. PICK d \in day..(day + Guardrail - 1) : IsWorkingDay(c, d)
  BY WorkingDayWithin
<1>2. d \in Int /\ day <= d /\ d <= day + Guardrail - 1 /\ Guardrail \in Nat
  BY CalendarAssumption
<1>3. d - day \in S
  <2>1. d - day \in Nat /\ day + (d - day) = d
    BY <1>2
  <2> QED
    BY <1>1, <2>1
<1>4. PICK k \in S : \A l \in S : k <= l
  <2>1. S \subseteq Nat
    OBVIOUS
  <2> HIDE DEF S
  <2> QED
    BY <1>3, <2>1, LeastUpTo
<1>5. k \in Nat /\ k <= d - day /\ IsWorkingDay(c, day + k)
  BY <1>3, <1>4
<1>6. \A e \in Int : day <= e /\ IsWorkingDay(c, e) => day + k <= e
  <2>1. SUFFICES ASSUME NEW e \in Int, day <= e, IsWorkingDay(c, e) PROVE day + k <= e
    OBVIOUS
  <2>2. e - day \in Nat /\ day + (e - day) = e
    BY <2>1
  <2>3. k <= e - day
    BY <1>4, <2>1, <2>2
  <2> QED
    BY <1>5, <2>3
<1>7. day + k \in day..(day + Guardrail - 1) /\ P(day + k)
  <2>1. \A e \in day..(day + k - 1) : ~IsWorkingDay(c, e)
    <3>1. SUFFICES ASSUME NEW e \in day..(day + k - 1), IsWorkingDay(c, e) PROVE FALSE
      OBVIOUS
    <3>2. day + k <= e
      BY <1>5, <1>6, <3>1
    <3> QED
      BY <1>5, <3>2
  <2> QED
    BY <1>2, <1>5, <2>1
<1>8. NextDay(c, day) \in day..(day + Guardrail - 1) /\ P(NextDay(c, day))
  <2>1. NextDay(c, day) = CHOOSE x \in day..(day + Guardrail - 1) : P(x)
    BY DEF NextDay
  <2> HIDE DEF P
  <2> QED
    BY <1>7, <2>1
<1>9. ASSUME NEW e \in Int, day <= e, IsWorkingDay(c, e) PROVE NextDay(c, day) <= e
  <2>1. NextDay(c, day) \in Int
    BY <1>8
  <2>2. ~(e \in day..(NextDay(c, day) - 1))
    BY <1>8, <1>9
  <2> QED
    BY <1>9, <2>1, <2>2
<1>10. NextWorkingStart(c, day) = ShiftStart(c, NextDay(c, day))
  BY DEF NextWorkingStart, NextDay
<1> QED
  BY <1>8, <1>9, <1>10

(* A working instant of the shift that began on its day.                   *)
InShift(c, t) ==
    /\ IsWorkingDay(c, LocalDate(t))
    /\ ShiftStart(c, LocalDate(t)) <= t /\ t < ShiftEnd(c, LocalDate(t))

(* The start of the shift after the one of an instant's day.               *)
NextShift(c, t) == NextWorkingStart(c, LocalDate(t) + 1)

(* The next shift is the first one of a later day.                         *)
LEMMA NextShiftFacts ==
    ASSUME NEW c \in Calendar, NEW t \in Int
    PROVE  /\ NextShift(c, t) \in Int /\ t < NextShift(c, t)
           /\ ShiftEnd(c, LocalDate(t)) <= NextShift(c, t)
           /\ InShift(c, NextShift(c, t))
           /\ \A u \in Int : InShift(c, u) /\ LocalDate(t) < LocalDate(u) => NextShift(c, t) <= u
<1> DEFINE d == LocalDate(t)
           e == NextDay(c, d + 1)
           n == NextShift(c, t)
<1>1. d \in Int /\ t < d * DayTicks + DayTicks
  BY DayOf
<1> HIDE DEF d
<1>2. /\ e \in Int /\ d + 1 <= e /\ IsWorkingDay(c, e) /\ n = ShiftStart(c, e)
      /\ \A x \in Int : d + 1 <= x /\ IsWorkingDay(c, x) => e <= x
  <2>1. d + 1 \in Int
    BY <1>1
  <2> QED
    BY <2>1, NextDayIsFirst DEF NextShift, d
<1> HIDE DEF e, n
<1>3. d < e
  BY <1>1, <1>2
<1>4. n \in Int /\ LocalDate(n) = e /\ n < ShiftEnd(c, e) /\ e * DayTicks <= n
  BY <1>2, Shifts
<1>5. ShiftEnd(c, d) <= n
  BY <1>1, <1>2, <1>3, Shifts
<1>6. t < n
  <2>1. (d + 1) * DayTicks <= e * DayTicks /\ (d + 1) * DayTicks = d * DayTicks + DayTicks
        /\ d * DayTicks \in Int /\ e * DayTicks \in Int /\ DayTicks \in Int
    <3>1. DayTicks \in Nat \ {0} /\ d + 1 \in Int
      BY <1>1, CalendarAssumption
    <3> QED
      BY <1>1, <1>2, <3>1, Products
  <2> QED
    BY <1>1, <1>4, <2>1
<1>7. InShift(c, n)
  BY <1>2, <1>4 DEF InShift
<1>8. ASSUME NEW u \in Int, InShift(c, u), d < LocalDate(u) PROVE n <= u
  <2>1. LocalDate(u) \in Int /\ IsWorkingDay(c, LocalDate(u)) /\ ShiftStart(c, LocalDate(u)) <= u
    BY <1>8, DayOf DEF InShift
  <2>2. e <= LocalDate(u)
    BY <1>1, <1>2, <1>8, <2>1
  <2>3. ShiftStart(c, e) <= ShiftStart(c, LocalDate(u)) /\ ShiftStart(c, LocalDate(u)) \in Int
    BY <1>2, <2>1, <2>2, Shifts
  <2> QED
    BY <1>2, <1>4, <2>1, <2>3
<1> QED
  BY <1>4, <1>5, <1>6, <1>7, <1>8 DEF d, n

(* Normalize gives the first instant in a shift that is not before t.      *)
LEMMA NormalizeFacts ==
    ASSUME NEW c \in Calendar, NEW t \in Int
    PROVE  /\ Normalize(c, t) \in Int /\ t <= Normalize(c, t) /\ InShift(c, Normalize(c, t))
           /\ InShift(c, t) => Normalize(c, t) = t
           /\ \A u \in Int : t <= u /\ InShift(c, u) => Normalize(c, t) <= u
<1> DEFINE d == LocalDate(t)
<1>1. d \in Int /\ d * DayTicks <= t /\ t < d * DayTicks + DayTicks
  BY DayOf
<1>2. /\ ShiftStart(c, d) \in Int /\ ShiftEnd(c, d) \in Int
      /\ LocalDate(ShiftStart(c, d)) = d /\ ShiftStart(c, d) < ShiftEnd(c, d)
      /\ \A e \in Int : d <= e => ShiftStart(c, d) <= ShiftStart(c, e)
  BY <1>1, Shifts
<1>3. Normalize(c, t) = IF ~IsWorkingDay(c, d) \/ t >= ShiftEnd(c, d) THEN NextShift(c, t)
                        ELSE IF t < ShiftStart(c, d) THEN ShiftStart(c, d) ELSE t
  BY DEF Normalize, NextShift
<1>4. /\ NextShift(c, t) \in Int /\ t < NextShift(c, t) /\ InShift(c, NextShift(c, t))
      /\ \A u \in Int : InShift(c, u) /\ d < LocalDate(u) => NextShift(c, t) <= u
  BY NextShiftFacts
<1>5. \A u \in Int : t <= u => d <= LocalDate(u) /\ LocalDate(u) \in Int
  BY DaysInOrder, DayOf
<1>6. InShift(c, t) <=> IsWorkingDay(c, d) /\ ShiftStart(c, d) <= t /\ t < ShiftEnd(c, d)
  BY DEF InShift
<1>7. IsWorkingDay(c, d) => InShift(c, ShiftStart(c, d))
  BY <1>2 DEF InShift
<1>8. \A u \in Int : InShift(c, u) => /\ IsWorkingDay(c, LocalDate(u))
                                      /\ ShiftStart(c, LocalDate(u)) <= u
                                      /\ u < ShiftEnd(c, LocalDate(u))
  BY DEF InShift
<1> HIDE DEF d
<1>9. CASE ~IsWorkingDay(c, d) \/ t >= ShiftEnd(c, d)
  <2>1. Normalize(c, t) = NextShift(c, t) /\ ~InShift(c, t)
    BY <1>1, <1>2, <1>3, <1>6, <1>9
  <2>2. ASSUME NEW u \in Int, t <= u, InShift(c, u) PROVE d < LocalDate(u)
    <3>1. d # LocalDate(u)
      BY <1>2, <1>8, <1>9, <2>2
    <3> QED
      BY <1>1, <1>5, <2>2, <3>1
  <2> QED
    BY <1>4, <2>1, <2>2
<1>10. CASE IsWorkingDay(c, d) /\ t < ShiftEnd(c, d)
  <2>1. CASE t < ShiftStart(c, d)
    <3>1. Normalize(c, t) = ShiftStart(c, d) /\ ~InShift(c, t)
      BY <1>2, <1>3, <1>6, <1>10, <2>1
    <3>2. ASSUME NEW u \in Int, t <= u, InShift(c, u) PROVE ShiftStart(c, d) <= u
      <4>1. LocalDate(u) \in Int /\ d <= LocalDate(u) /\ ShiftStart(c, LocalDate(u)) <= u
        BY <1>5, <1>8, <3>2
      <4>2. ShiftStart(c, LocalDate(u)) \in Int /\ ShiftStart(c, d) <= ShiftStart(c, LocalDate(u))
        BY <1>2, <4>1, Shifts
      <4> QED
        BY <1>2, <4>1, <4>2
    <3> QED
      BY <1>2, <1>7, <1>10, <2>1, <3>1, <3>2
  <2>2. CASE t >= ShiftStart(c, d)
    <3>1. Normalize(c, t) = t /\ InShift(c, t)
      BY <1>2, <1>3, <1>6, <1>10, <2>2
    <3> QED
      BY <3>1
  <2> QED
    BY <1>2, <2>1, <2>2
<1> QED
  BY <1>2, <1>9, <1>10

(* Normalizing keeps the order of instants.                                *)
LEMMA NormalizeInOrder ==
    ASSUME NEW c \in Calendar, NEW s \in Int, NEW t \in Int, s <= t
    PROVE  Normalize(c, s) <= Normalize(c, t)
<1>1. Normalize(c, t) \in Int /\ t <= Normalize(c, t) /\ InShift(c, Normalize(c, t))
  BY NormalizeFacts
<1>2. s <= Normalize(c, t)
  BY <1>1
<1> QED
  BY <1>1, <1>2, NormalizeFacts

-----------------------------------------------------------------------------
(* The two loops.                                                          *)

(* The working time that is left of an instant's shift.                    *)
Available(c, t) ==
    IF ShiftEnd(c, LocalDate(t)) > t THEN ShiftEnd(c, LocalDate(t)) - t ELSE 0

(* What is left of a shift leads to its end.                               *)
LEMMA AvailableFacts ==
    ASSUME NEW c \in Calendar, NEW t \in Int
    PROVE  /\ Available(c, t) \in Nat
           /\ InShift(c, t) => /\ Available(c, t) > 0
                               /\ t + Available(c, t) = ShiftEnd(c, LocalDate(t))
           /\ Available(c, t) > 0 => t + Available(c, t) = ShiftEnd(c, LocalDate(t))
           /\ t + Available(c, t) <= NextShift(c, t)
           /\ Available(c, t) >= ShiftEnd(c, LocalDate(t)) - t
           /\ ShiftEnd(c, LocalDate(t)) \in Int
<1>1. ShiftEnd(c, LocalDate(t)) \in Int
  BY DayOf, Shifts
<1>2. NextShift(c, t) \in Int /\ t < NextShift(c, t) /\ ShiftEnd(c, LocalDate(t)) <= NextShift(c, t)
  BY NextShiftFacts
<1>3. InShift(c, t) => t < ShiftEnd(c, LocalDate(t))
  BY DEF InShift
<1> QED
  BY <1>1, <1>2, <1>3 DEF Available

(* add_workdays from an instant in a shift.                                *)
After(c) ==
    CHOOSE f : f = [x \in Int \X Nat |->
        LET cur == x[1]
            end == ShiftEnd(c, LocalDate(cur))
            available == IF end > cur THEN end - cur ELSE 0
        IN  IF x[2] <= available THEN cur + x[2]
            ELSE f[<<NextWorkingStart(c, LocalDate(cur) + 1), x[2] - available>>]]

(* working_days_between from an instant in a shift.                        *)
Until(c, t) ==
    CHOOSE f : f = [cur \in Int |->
        LET end == ShiftEnd(c, LocalDate(cur))
        IN  IF cur >= t THEN 0
            ELSE IF end >= t THEN t - cur
            ELSE (IF end > cur THEN end - cur ELSE 0)
                    + f[NextWorkingStart(c, LocalDate(cur) + 1)]]

(* AddWork and WorkUntil are these loops.                                  *)
LEMMA AddWorkIs ==
    ASSUME NEW c, NEW t, NEW work
    PROVE  AddWork(c, t, work) = After(c)[<<Normalize(c, t), work>>]
BY DEF AddWork, After

(* The second of them.                                                     *)
LEMMA WorkUntilIs ==
    ASSUME NEW c, NEW s, NEW t
    PROVE  WorkUntil(c, s, t) = Until(c, t)[Normalize(c, s)]
BY DEF WorkUntil, Until

(* Turns of the loop of After: work remains, or the shift has begun.       *)
Rank(c, x) == 2 * x[2] + (IF Available(c, x[1]) > 0 THEN 0 ELSE 1)
(* What the next turn is called with.                                      *)
Rest(c, x) == <<NextShift(c, x[1]), x[2] - Available(c, x[1])>>

(* Every turn but the last lowers the rank.                                *)
LEMMA RankFalls ==
    ASSUME NEW c \in Calendar, NEW x \in Int \X Nat, x[2] > Available(c, x[1])
    PROVE  /\ Rest(c, x) \in Int \X Nat /\ Rest(c, x)[2] > 0
           /\ Rank(c, x) \in Nat /\ Rank(c, Rest(c, x)) \in Nat
           /\ Rank(c, Rest(c, x)) < Rank(c, x)
<1> DEFINE n == NextShift(c, x[1])
           a == Available(c, x[1])
<1>1. a \in Nat /\ x[1] \in Int /\ x[2] \in Nat /\ x[2] > a
  BY AvailableFacts
<1>2. n \in Int /\ InShift(c, n)
  BY <1>1, NextShiftFacts
<1>3. Available(c, n) > 0
  BY <1>2, AvailableFacts
<1>4. Rest(c, x) = <<n, x[2] - a>>
  BY DEF Rest
<1> HIDE DEF n, a
<1>5. Rest(c, x) \in Int \X Nat /\ Rest(c, x)[1] = n /\ Rest(c, x)[2] = x[2] - a
  BY <1>1, <1>2, <1>4
<1>6. Rank(c, Rest(c, x)) = 2 * (x[2] - a)
  BY <1>3, <1>5, <1>1 DEF Rank
<1>7. Rank(c, x) = 2 * x[2] + (IF a > 0 THEN 0 ELSE 1)
  BY DEF Rank, a
<1> QED
  BY <1>1, <1>5, <1>6, <1>7

(* So add_workdays has a result, of which one turn is this.                *)
LEMMA AfterUnfolds ==
    ASSUME NEW c \in Calendar
    PROVE  \A t \in Int, w \in Nat :
              /\ After(c)[<<t, w>>] \in Int
              /\ After(c)[<<t, w>>] =
                    IF w <= Available(c, t) THEN t + w
                    ELSE After(c)[<<NextShift(c, t), w - Available(c, t)>>]
<1> DEFINE D == Int \X Nat
           stop == {x \in D : x[2] <= Available(c, x[1])}
           step == [x \in D |-> IF x \in stop THEN x ELSE Rest(c, x)]
           rank == [x \in D |-> Rank(c, x)]
           last == [x \in D |-> x[1] + x[2]]
           gain == [x \in D |-> 0]
           IsAfter(f) == f = [x \in D |->
              LET cur == x[1]
                  end == ShiftEnd(c, LocalDate(cur))
                  available == IF end > cur THEN end - cur ELSE 0
              IN  IF x[2] <= available THEN cur + x[2]
                  ELSE f[<<NextWorkingStart(c, LocalDate(cur) + 1), x[2] - available>>]]
<1>1. \A x \in D : Available(c, x[1]) \in Nat
  BY AvailableFacts
<1>2. \A x \in D \ stop : Rest(c, x) \in D /\ rank[Rest(c, x)] < rank[x]
  <2>1. SUFFICES ASSUME NEW x \in D \ stop
                 PROVE  Rest(c, x) \in D /\ rank[Rest(c, x)] < rank[x]
    OBVIOUS
  <2>2. x[2] > Available(c, x[1])
    BY <1>1
  <2> QED
    BY <2>2, RankFalls
<1>3. step \in [D -> D]
  BY <1>2
<1>4. rank \in [D -> Nat]
  <2>1. \A x \in D : Rank(c, x) \in Nat
    BY <1>1 DEF Rank
  <2> QED
    BY <2>1
<1>5. last \in [D -> Int] /\ gain \in [D -> Int]
  OBVIOUS
<1>6. \A x \in D \ stop : rank[step[x]] < rank[x] /\ step[x] = Rest(c, x)
  BY <1>2
<1>7. stop \in SUBSET D
  OBVIOUS
<1>8. PICK f \in [D -> Int] :
          \A x \in D : f[x] = IF x \in stop THEN last[x] ELSE gain[x] + f[step[x]]
  <2>1. IsLoop(D, rank, step, stop, last, gain)
    <3> HIDE DEF D, stop, step, rank, last, gain
    <3> QED
      BY <1>3, <1>4, <1>5, <1>6, <1>7 DEF IsLoop
  <2>2. HasResults(D, step, stop, last, gain)
    <3> HIDE DEF D, stop, step, rank, last, gain
    <3> QED
      BY <2>1, LoopEnds
  <2> QED
    BY <2>2 DEF HasResults
<1>9. \A x \in D : f[x] = IF x[2] <= Available(c, x[1]) THEN x[1] + x[2] ELSE f[Rest(c, x)]
  <2>1. SUFFICES ASSUME NEW x \in D
                 PROVE  f[x] = IF x[2] <= Available(c, x[1]) THEN x[1] + x[2] ELSE f[Rest(c, x)]
    OBVIOUS
  <2>2. CASE x \in stop
    BY <1>8, <2>2
  <2>3. CASE x \notin stop
    <3>1. f[x] = gain[x] + f[step[x]] /\ gain[x] = 0 /\ step[x] = Rest(c, x)
      BY <1>6, <1>8, <2>3
    <3>2. f[Rest(c, x)] \in Int
      BY <1>2, <1>8, <2>3
    <3> QED
      BY <2>3, <3>1, <3>2
  <2> QED
    BY <2>2, <2>3
<1>10. IsAfter(f)
  <2>1. f = [x \in D |-> IF x[2] <= Available(c, x[1]) THEN x[1] + x[2] ELSE f[Rest(c, x)]]
    BY <1>8, <1>9
  <2> QED
    BY <2>1 DEF Available, Rest, NextShift
<1>11. After(c) = CHOOSE g : IsAfter(g)
  BY DEF After
<1>12. IsAfter(After(c))
  <2> HIDE DEF IsAfter
  <2> QED
    BY <1>10, <1>11
<1> DEFINE A == After(c)
<1>13. A = [x \in D |-> IF x[2] <= Available(c, x[1]) THEN x[1] + x[2] ELSE A[Rest(c, x)]]
  <2> HIDE DEF A
  <2>1. IsAfter(A)
    BY <1>12 DEF A
  <2> QED
    BY <2>1 DEF Available, Rest, NextShift
<1> HIDE DEF A
<1>14. \A x \in D : A[x] = IF x[2] <= Available(c, x[1]) THEN x[1] + x[2] ELSE A[Rest(c, x)]
  BY <1>13
<1>15. \A x \in D : A[x] \in Int
  <2> DEFINE Bad == {r \in Nat : \E x \in D : rank[x] = r /\ A[x] \notin Int}
  <2>1. SUFFICES ASSUME Bad # {} PROVE FALSE
    BY <1>4
  <2>2. PICK r \in Bad : \A s \in Bad : r <= s
    <3>1. Bad \subseteq Nat
      OBVIOUS
    <3> HIDE DEF Bad
    <3> QED
      BY <2>1, <3>1, LeastUpTo
  <2>3. PICK x \in D : rank[x] = r /\ A[x] \notin Int
    OBVIOUS
  <2>4. x \notin stop /\ A[x] = A[Rest(c, x)]
    <3>1. x[1] + x[2] \in Int
      OBVIOUS
    <3> QED
      BY <1>14, <2>3, <3>1
  <2>5. Rest(c, x) \in D /\ rank[Rest(c, x)] < r /\ A[Rest(c, x)] \notin Int
    BY <1>2, <2>3, <2>4
  <2>6. rank[Rest(c, x)] \in Bad
    BY <1>4, <2>5
  <2>7. rank[Rest(c, x)] \in Nat /\ r \in Nat
    BY <1>4, <2>5
  <2> HIDE DEF Bad, rank, D
  <2> QED
    BY <2>2, <2>5, <2>6, <2>7
<1>16. ASSUME NEW t \in Int, NEW w \in Nat
       PROVE  /\ A[<<t, w>>] \in Int
              /\ A[<<t, w>>] = IF w <= Available(c, t) THEN t + w
                               ELSE A[<<NextShift(c, t), w - Available(c, t)>>]
  <2>1. <<t, w>> \in D
    OBVIOUS
  <2>2. Rest(c, <<t, w>>) = <<NextShift(c, t), w - Available(c, t)>>
    BY DEF Rest
  <2> HIDE DEF D
  <2>3. A[<<t, w>>] = IF <<t, w>>[2] <= Available(c, <<t, w>>[1]) THEN <<t, w>>[1] + <<t, w>>[2]
                      ELSE A[Rest(c, <<t, w>>)]
    BY <1>14, <2>1
  <2> QED
    BY <1>15, <2>1, <2>2, <2>3
<1> QED
  BY <1>16 DEF A

(* What holds of a turn of add_workdays if it holds of the next one.       *)
AfterKeeps(c, G) ==
    \A t \in Int, w \in Nat :
        (w > Available(c, t) => <<NextShift(c, t), w - Available(c, t)>> \in G)
            => <<t, w>> \in G

(* What a turn of add_workdays hands on from the next one holds of all.    *)
LEMMA AfterInduction ==
    ASSUME NEW c \in Calendar, NEW G, AfterKeeps(c, G)
    PROVE  \A t \in Int, w \in Nat : <<t, w>> \in G
<1> DEFINE D == Int \X Nat
           Bad == {r \in Nat : \E x \in D : Rank(c, x) = r /\ x \notin G}
<1>1. \A x \in D : Rank(c, x) \in Nat
  <2>1. \A x \in D : Available(c, x[1]) \in Nat
    BY AvailableFacts
  <2> QED
    BY <2>1 DEF Rank
<1>2. Bad = {}
  <2>1. SUFFICES ASSUME Bad # {} PROVE FALSE
    OBVIOUS
  <2>2. PICK r \in Bad : \A s \in Bad : r <= s
    <3>1. Bad \subseteq Nat
      OBVIOUS
    <3> HIDE DEF Bad
    <3> QED
      BY <2>1, <3>1, LeastUpTo
  <2>3. PICK x \in D : Rank(c, x) = r /\ x \notin G
    OBVIOUS
  <2>4. x = <<x[1], x[2]>> /\ x[1] \in Int /\ x[2] \in Nat
    OBVIOUS
  <2>5. x[2] > Available(c, x[1]) /\ Rest(c, x) \notin G
    BY <2>3, <2>4 DEF Rest, AfterKeeps
  <2>6. /\ Rest(c, x) \in D /\ Rank(c, Rest(c, x)) < r
        /\ Rank(c, Rest(c, x)) \in Nat
    BY <2>3, <2>5, RankFalls
  <2>7. Rank(c, Rest(c, x)) \in Bad
    BY <2>5, <2>6
  <2>8. r \in Nat
    OBVIOUS
  <2> HIDE DEF Bad
  <2> QED
    BY <2>2, <2>6, <2>7, <2>8
<1>3. ASSUME NEW t \in Int, NEW w \in Nat PROVE <<t, w>> \in G
  <2>1. <<t, w>> \in D
    OBVIOUS
  <2> HIDE DEF D
  <2> QED
    BY <1>1, <1>2, <2>1
<1> QED
  BY <1>3

(* Work takes time.                                                        *)
LEMMA AfterForward ==
    ASSUME NEW c \in Calendar
    PROVE  \A t \in Int, w \in Nat :
              /\ After(c)[<<t, w>>] \in Int
              /\ t <= After(c)[<<t, w>>] /\ (w > 0 => t < After(c)[<<t, w>>])
              /\ After(c)[<<t, 0>>] = t
<1> DEFINE A == After(c)
           G == {x \in Int \X Nat : x[1] <= A[x] /\ (x[2] > 0 => x[1] < A[x])}
<1>1. \A t \in Int, w \in Nat :
          /\ A[<<t, w>>] \in Int
          /\ A[<<t, w>>] = IF w <= Available(c, t) THEN t + w
                           ELSE A[<<NextShift(c, t), w - Available(c, t)>>]
  BY AfterUnfolds
<1> HIDE DEF A
<1>2. ASSUME NEW t \in Int, NEW w \in Nat,
             w > Available(c, t) => <<NextShift(c, t), w - Available(c, t)>> \in G
      PROVE  <<t, w>> \in G
  <2> SUFFICES t <= A[<<t, w>>] /\ (w > 0 => t < A[<<t, w>>])
    OBVIOUS
  <2>1. Available(c, t) \in Nat
    BY AvailableFacts
  <2>2. NextShift(c, t) \in Int /\ t < NextShift(c, t)
    BY NextShiftFacts
  <2>3. CASE w <= Available(c, t)
    <3>1. A[<<t, w>>] = t + w
      BY <1>1, <2>3
    <3> QED
      BY <3>1
  <2>4. CASE w > Available(c, t)
    <3>1. w - Available(c, t) \in Nat
      BY <2>1, <2>4
    <3>2. NextShift(c, t) <= A[<<NextShift(c, t), w - Available(c, t)>>]
      BY <1>2, <2>4
    <3>3. A[<<t, w>>] = A[<<NextShift(c, t), w - Available(c, t)>>]
      BY <1>1, <2>1, <2>4
    <3>4. A[<<t, w>>] \in Int
      BY <1>1
    <3> QED
      BY <2>2, <3>2, <3>3, <3>4
  <2> QED
    BY <2>1, <2>3, <2>4
<1>3. \A t \in Int, w \in Nat : <<t, w>> \in G
  <2>1. AfterKeeps(c, G)
    BY <1>2 DEF AfterKeeps
  <2>2. \A t \in Int, w \in Nat : <<t, w>> \in G
    <3> HIDE DEF G
    <3> QED
      BY <2>1, AfterInduction
  <2> QED
    BY <2>2
<1>4. ASSUME NEW t \in Int PROVE A[<<t, 0>>] = t
  <2>1. 0 <= Available(c, t) /\ 0 \in Nat
    BY AvailableFacts
  <2>2. A[<<t, 0>>] = IF 0 <= Available(c, t) THEN t + 0
                      ELSE A[<<NextShift(c, t), 0 - Available(c, t)>>]
    BY <1>1, <2>1
  <2> QED
    BY <2>1, <2>2
<1> QED
  BY <1>1, <1>3, <1>4 DEF A

(* working_days_between has a result, of which one turn is this.           *)
LEMMA UntilUnfolds ==
    ASSUME NEW c \in Calendar, NEW t \in Int
    PROVE  \A s \in Int :
              /\ Until(c, t)[s] \in Int
              /\ Until(c, t)[s] =
                    IF s >= t THEN 0
                    ELSE IF ShiftEnd(c, LocalDate(s)) >= t THEN t - s
                    ELSE Available(c, s) + Until(c, t)[NextShift(c, s)]
<1> DEFINE stop == {s \in Int : s >= t \/ ShiftEnd(c, LocalDate(s)) >= t}
           step == [s \in Int |-> NextShift(c, s)]
           rank == [s \in Int |-> IF s >= t THEN 0 ELSE t - s]
           last == [s \in Int |-> IF s >= t THEN 0 ELSE t - s]
           gain == [s \in Int |-> Available(c, s)]
           IsUntil(f) == f = [cur \in Int |->
              LET end == ShiftEnd(c, LocalDate(cur))
              IN  IF cur >= t THEN 0
                  ELSE IF end >= t THEN t - cur
                  ELSE (IF end > cur THEN end - cur ELSE 0)
                          + f[NextWorkingStart(c, LocalDate(cur) + 1)]]
<1>1. \A s \in Int : /\ Available(c, s) \in Nat
                     /\ NextShift(c, s) \in Int /\ s < NextShift(c, s)
  BY AvailableFacts, NextShiftFacts
<1>2. \A s \in Int \ stop : rank[step[s]] < rank[s]
  BY <1>1
<1>3. step \in [Int -> Int] /\ gain \in [Int -> Int]
  BY <1>1
<1>4. rank \in [Int -> Nat] /\ last \in [Int -> Int] /\ stop \in SUBSET Int
  OBVIOUS
<1>5. PICK f \in [Int -> Int] :
          \A s \in Int : f[s] = IF s \in stop THEN last[s] ELSE gain[s] + f[step[s]]
  <2>1. IsLoop(Int, rank, step, stop, last, gain)
    <3> HIDE DEF stop, step, rank, last, gain
    <3> QED
      BY <1>2, <1>3, <1>4 DEF IsLoop
  <2>2. HasResults(Int, step, stop, last, gain)
    <3> HIDE DEF stop, step, rank, last, gain
    <3> QED
      BY <2>1, LoopEnds
  <2> QED
    BY <2>2 DEF HasResults
<1> DEFINE Turn(g, s) == IF s >= t THEN 0
                         ELSE IF ShiftEnd(c, LocalDate(s)) >= t THEN t - s
                         ELSE Available(c, s) + g[NextShift(c, s)]
<1>6. \A s \in Int : f[s] = Turn(f, s)
  <2>1. SUFFICES ASSUME NEW s \in Int PROVE f[s] = Turn(f, s)
    OBVIOUS
  <2>2. CASE s \in stop
    <3>1. f[s] = last[s]
      BY <1>5, <2>2
    <3> QED
      BY <2>2, <3>1
  <2>3. CASE s \notin stop
    <3>1. f[s] = gain[s] + f[step[s]]
      BY <1>5, <2>3
    <3> QED
      BY <2>3, <3>1
  <2> QED
    BY <2>2, <2>3
<1>7. IsUntil(f)
  <2>1. f = [s \in Int |-> Turn(f, s)]
    <3> HIDE DEF Turn
    <3> QED
      BY <1>5, <1>6
  <2> QED
    BY <2>1 DEF Available, NextShift
<1>8. Until(c, t) = CHOOSE g : IsUntil(g)
  BY DEF Until
<1>9. IsUntil(Until(c, t))
  <2> HIDE DEF IsUntil
  <2> QED
    BY <1>7, <1>8
<1> DEFINE U == Until(c, t)
<1>10. U = [s \in Int |-> Turn(U, s)]
  <2> HIDE DEF U
  <2>1. IsUntil(U)
    BY <1>9 DEF U
  <2> QED
    BY <2>1 DEF Available, NextShift
<1> HIDE DEF U
<1>11. \A s \in Int : U[s] = Turn(U, s)
  <2> HIDE DEF Turn
  <2> QED
    BY <1>10
<1>12. \A s \in Int : U[s] \in Int
  <2> DEFINE Bad == {r \in Nat : \E s \in Int : rank[s] = r /\ U[s] \notin Int}
  <2>1. SUFFICES ASSUME Bad # {} PROVE FALSE
    BY <1>4
  <2>2. PICK r \in Bad : \A q \in Bad : r <= q
    <3>1. Bad \subseteq Nat
      OBVIOUS
    <3> HIDE DEF Bad
    <3> QED
      BY <2>1, <3>1, LeastUpTo
  <2>3. PICK s \in Int : rank[s] = r /\ U[s] \notin Int
    OBVIOUS
  <2>4. s \notin stop /\ U[step[s]] \notin Int
    <3>1. CASE s \in stop
      BY <1>11, <2>3, <3>1
    <3>2. CASE s \notin stop
      <4>1. U[s] = Available(c, s) + U[NextShift(c, s)] /\ Available(c, s) \in Int
        BY <1>1, <1>11, <3>2
      <4> QED
        BY <2>3, <3>2, <4>1
    <3> QED
      BY <3>1, <3>2
  <2>5. step[s] \in Int /\ rank[step[s]] < r /\ rank[step[s]] \in Nat
    <3>1. step[s] \in Int
      BY <1>3
    <3>2. rank[step[s]] < rank[s]
      BY <1>2, <2>4
    <3> HIDE DEF step, rank
    <3> QED
      BY <1>4, <2>3, <3>1, <3>2
  <2>6. rank[step[s]] \in Bad /\ r \in Nat
    BY <2>4, <2>5
  <2> HIDE DEF Bad, rank, step
  <2> QED
    BY <2>2, <2>5, <2>6
<1> QED
  BY <1>11, <1>12 DEF U

(* What holds of a turn of working_days_between if it holds of the next.   *)
UntilKeeps(c, t, G) ==
    \A s \in Int :
        (s < t /\ ShiftEnd(c, LocalDate(s)) < t => NextShift(c, s) \in G) => s \in G

(* What a turn of working_days_between hands on from the next one holds of *)
(* all.                                                                    *)
LEMMA UntilInduction ==
    ASSUME NEW c \in Calendar, NEW t \in Int, NEW G, UntilKeeps(c, t, G)
    PROVE  \A s \in Int : s \in G
<1> DEFINE Bad == {r \in Nat : \E s \in Int : r = t - s /\ s \notin G}
<1>1. ASSUME NEW s \in Int, s \notin G PROVE s < t /\ NextShift(c, s) \notin G
  BY <1>1 DEF UntilKeeps
<1>2. SUFFICES ASSUME Bad # {} PROVE FALSE
  <2>1. SUFFICES ASSUME NEW s \in Int, s \notin G PROVE FALSE
    OBVIOUS
  <2>2. t - s \in Nat
    BY <1>1, <2>1
  <2>3. t - s \in Bad
    BY <2>1, <2>2
  <2> HIDE DEF Bad
  <2> QED
    BY <1>2, <2>3
<1>3. PICK r \in Bad : \A q \in Bad : r <= q
  <2>1. Bad \subseteq Nat
    OBVIOUS
  <2> HIDE DEF Bad
  <2> QED
    BY <1>2, <2>1, LeastUpTo
<1>4. PICK s \in Int : r = t - s /\ s \notin G
  OBVIOUS
<1> DEFINE n == NextShift(c, s)
<1>5. n \in Int /\ s < n /\ n \notin G
  BY <1>1, <1>4, NextShiftFacts
<1> HIDE DEF n
<1>6. n < t
  BY <1>1, <1>5
<1>7. t - n \in Bad /\ t - n < r
  BY <1>4, <1>5, <1>6
<1>8. r \in Nat /\ t - n \in Nat
  BY <1>5, <1>6
<1> HIDE DEF Bad
<1> QED
  BY <1>3, <1>7, <1>8

(* Until counts the work that is done by t.                                *)
LEMMA WorkFits ==
    ASSUME NEW c \in Calendar, NEW t \in Int
    PROVE  \A s \in Int : s <= t =>
              /\ Until(c, t)[s] \in Nat
              /\ \A w \in Nat : w <= Until(c, t)[s] <=> After(c)[<<s, w>>] <= t
<1> DEFINE A == After(c)
           U == Until(c, t)
           Fits(s) == s <= t => /\ U[s] \in Nat
                                /\ \A w \in Nat : w <= U[s] <=> A[<<s, w>>] <= t
           G == {s \in Int : Fits(s)}
<1>1. \A s \in Int, w \in Nat :
          A[<<s, w>>] = IF w <= Available(c, s) THEN s + w
                        ELSE A[<<NextShift(c, s), w - Available(c, s)>>]
  BY AfterUnfolds
<1>2. \A s \in Int, w \in Nat :
          A[<<s, w>>] \in Int /\ s <= A[<<s, w>>] /\ (w > 0 => s < A[<<s, w>>])
  BY AfterForward
<1>3. \A s \in Int : U[s] = IF s >= t THEN 0
                            ELSE IF ShiftEnd(c, LocalDate(s)) >= t THEN t - s
                            ELSE Available(c, s) + U[NextShift(c, s)]
  BY UntilUnfolds
<1> HIDE DEF A, U
<1>4. ASSUME NEW s \in Int, s <= t,
             s < t /\ ShiftEnd(c, LocalDate(s)) < t => Fits(NextShift(c, s))
      PROVE  U[s] \in Nat /\ \A w \in Nat : w <= U[s] <=> A[<<s, w>>] <= t
  <2> DEFINE end == ShiftEnd(c, LocalDate(s))
             a == Available(c, s)
             n == NextShift(c, s)
  <2>1. /\ a \in Nat /\ s + a <= n /\ end \in Int /\ a >= end - s
        /\ a > 0 => s + a = end
    BY AvailableFacts
  <2>2. n \in Int /\ s < n /\ end <= n
    BY NextShiftFacts
  <2>3. \A w \in Nat : /\ w <= a => A[<<s, w>>] = s + w
                       /\ w > a => w - a \in Nat /\ w - a > 0 /\ A[<<s, w>>] = A[<<n, w - a>>]
    BY <1>1, <2>1
  <2>4. U[s] = IF s >= t THEN 0 ELSE IF end >= t THEN t - s ELSE a + U[n]
    BY <1>3
  <2>5. s < t /\ end < t => Fits(n)
    BY <1>4
  <2> HIDE DEF end, a, n, Fits
  <2>6. \A w \in Nat : w > a => n < A[<<s, w>>]
    BY <1>2, <2>2, <2>3
  <2>7. \A w \in Nat : A[<<s, w>>] \in Int
    BY <1>2
  <2>8. CASE s = t
    <3>1. U[s] = 0
      BY <2>4, <2>8
    <3>2. ASSUME NEW w \in Nat PROVE w <= U[s] <=> A[<<s, w>>] <= t
      <4>1. CASE w = 0
        <5>1. w <= a
          BY <2>1, <4>1
        <5>2. A[<<s, w>>] = s + w
          BY <2>3, <5>1
        <5> QED
          BY <2>8, <3>1, <4>1, <5>2
      <4>2. CASE w > 0
        <5>1. s < A[<<s, w>>]
          BY <1>2, <4>2
        <5> QED
          BY <2>7, <2>8, <3>1, <4>2, <5>1
      <4> QED
        BY <4>1, <4>2
    <3> QED
      BY <3>1, <3>2
  <2>9. CASE s < t /\ end >= t
    <3>1. U[s] = t - s /\ t - s <= a
      BY <2>1, <2>4, <2>9
    <3>2. ASSUME NEW w \in Nat PROVE w <= U[s] <=> A[<<s, w>>] <= t
      <4>1. CASE w <= a
        <5>1. A[<<s, w>>] = s + w
          BY <2>3, <4>1
        <5> QED
          BY <3>1, <5>1
      <4>2. CASE w > a
        <5>1. n < A[<<s, w>>]
          BY <2>6, <4>2
        <5>2. t < A[<<s, w>>] /\ ~(w <= U[s])
          BY <2>1, <2>2, <2>7, <2>9, <3>1, <4>2, <5>1
        <5> QED
          BY <2>7, <5>2
      <4> QED
        BY <2>1, <4>1, <4>2
    <3> QED
      BY <2>9, <3>1, <3>2
  <2>10. CASE s < t /\ end < t
    <3>1. U[s] = a + U[n] /\ s + a <= t
      BY <2>1, <2>4, <2>10
    <3>2. n <= t => U[n] \in Nat /\ \A w \in Nat : w <= U[n] <=> A[<<n, w>>] <= t
      BY <2>5, <2>10 DEF Fits
    <3>3. n >= t => U[n] = 0
      BY <1>3, <2>2
    <3>4. U[n] \in Nat
      BY <2>2, <3>2, <3>3
    <3>5. ASSUME NEW w \in Nat PROVE w <= U[s] <=> A[<<s, w>>] <= t
      <4>1. CASE w <= a
        <5>1. A[<<s, w>>] = s + w
          BY <2>3, <4>1
        <5> QED
          BY <2>1, <3>1, <3>4, <4>1, <5>1
      <4>2. CASE w > a /\ n > t
        <5>1. n < A[<<s, w>>]
          BY <2>6, <4>2
        <5>2. U[n] = 0
          BY <2>2, <3>3, <4>2
        <5> QED
          BY <2>1, <2>2, <2>7, <3>1, <4>2, <5>1, <5>2
      <4>3. CASE w > a /\ n <= t
        <5>1. w - a \in Nat /\ A[<<s, w>>] = A[<<n, w - a>>]
          BY <2>3, <4>3
        <5>2. w - a <= U[n] <=> A[<<n, w - a>>] <= t
          BY <3>2, <4>3, <5>1
        <5>3. w <= U[s] <=> w - a <= U[n]
          BY <2>1, <3>1, <3>4
        <5> QED
          BY <5>1, <5>2, <5>3
      <4> QED
        BY <2>1, <2>2, <4>1, <4>2, <4>3
    <3> QED
      BY <2>1, <3>1, <3>4, <3>5
  <2> QED
    BY <1>4, <2>1, <2>8, <2>9, <2>10
<1>5. UntilKeeps(c, t, G)
  <2>1. \A s \in Int : NextShift(c, s) \in Int
    BY NextShiftFacts
  <2> QED
    BY <1>4, <2>1 DEF UntilKeeps
<1>6. \A s \in Int : s \in G
  <2> HIDE DEF G
  <2> QED
    BY <1>5, UntilInduction
<1>7. \A s \in Int : Fits(s)
  <2> HIDE DEF Fits
  <2> QED
    BY <1>6
<1> QED
  BY <1>7 DEF A, U

(* One more tick of work: the next instant, or the end of the first tick   *)
(* of the next shift; the latter after every shift that ends on its day.   *)
LEMMA OneMoreTick ==
    ASSUME NEW c \in Calendar
    PROVE  \A s \in Int, w \in Nat : InShift(c, s) =>
              LET a == After(c)[<<s, w>>]
                  b == After(c)[<<s, w + 1>>]
              IN  /\ b = a + 1 \/ b = Normalize(c, a) + 1
                  /\ c.opens + c.shift <= DayTicks => b = Normalize(c, a) + 1
<1> DEFINE A == After(c)
           Tick(s, w) == InShift(c, s) =>
              /\ \/ A[<<s, w + 1>>] = A[<<s, w>>] + 1
                 \/ A[<<s, w + 1>>] = Normalize(c, A[<<s, w>>]) + 1
              /\ c.opens + c.shift <= DayTicks => A[<<s, w + 1>>] = Normalize(c, A[<<s, w>>]) + 1
           G == {x \in Int \X Nat : Tick(x[1], x[2])}
<1>1. \A s \in Int, w \in Nat :
          A[<<s, w>>] = IF w <= Available(c, s) THEN s + w
                        ELSE A[<<NextShift(c, s), w - Available(c, s)>>]
  BY AfterUnfolds
<1> HIDE DEF A
<1>2. ASSUME NEW s \in Int, NEW w \in Nat, InShift(c, s),
             w > Available(c, s) => Tick(NextShift(c, s), w - Available(c, s))
      PROVE  Tick(s, w)
  <2> DEFINE d == LocalDate(s)
             end == ShiftEnd(c, d)
             a == Available(c, s)
             n == NextShift(c, s)
  <2>1. a \in Nat /\ a > 0 /\ s + a = end /\ end \in Int
    BY <1>2, AvailableFacts
  <2>2. /\ n \in Int /\ s < n /\ end <= n /\ InShift(c, n)
        /\ \A u \in Int : InShift(c, u) /\ d < LocalDate(u) => n <= u
    BY NextShiftFacts
  <2>3. /\ \A v \in Nat : v <= a => A[<<s, v>>] = s + v
        /\ \A v \in Nat : v > a => A[<<s, v>>] = A[<<n, v - a>>]
    <3>1. \A v \in Nat : A[<<s, v>>] = IF v <= a THEN s + v ELSE A[<<n, v - a>>]
      BY <1>1
    <3> HIDE DEF a, n
    <3>2. \A v \in Nat : v > a => ~(v <= a)
      BY <2>1
    <3> QED
      BY <3>1, <3>2
  <2>4. d \in Int /\ IsWorkingDay(c, d) /\ ShiftStart(c, d) <= s /\ s < end
    BY <1>2, DayOf DEF InShift
  <2>5. CASE w + 1 <= a
    <3>1. A[<<s, w>>] = s + w /\ A[<<s, w + 1>>] = s + w + 1
      <4>1. w <= a /\ w + 1 \in Nat /\ s + (w + 1) = s + w + 1
        BY <2>1, <2>5
      <4>2. A[<<s, w + 1>>] = s + (w + 1)
        <5> DEFINE v == w + 1
        <5>1. v \in Nat /\ v <= a
          BY <2>5, <4>1
        <5> HIDE DEF v, a
        <5>2. A[<<s, v>>] = s + v
          BY <2>3, <5>1
        <5> QED
          BY <5>2 DEF v
      <4> QED
        BY <2>3, <4>1, <4>2
    <3>2. ASSUME c.opens + c.shift <= DayTicks PROVE Normalize(c, s + w) = s + w
      <4>1. /\ ShiftStart(c, d) \in Int /\ d * DayTicks <= ShiftStart(c, d)
            /\ end = ShiftStart(c, d) + c.shift
        BY <2>4, Shifts
      <4>2. /\ ShiftStart(c, d) = d * DayTicks + c.opens /\ d * DayTicks \in Int
            /\ c.opens \in Int /\ c.shift \in Int /\ DayTicks \in Int
        BY <2>4, CalendarAssumption DEF ShiftStart, Calendar
      <4>3. /\ ShiftStart(c, d) <= s + w /\ s + w < end
            /\ d * DayTicks <= s + w /\ s + w < d * DayTicks + DayTicks
        BY <2>1, <2>4, <2>5, <3>2, <4>1, <4>2
      <4>4. LocalDate(s + w) = d /\ s + w \in Int
        BY <2>4, <4>3, DayIs
      <4>5. InShift(c, s + w)
        BY <2>4, <4>3, <4>4 DEF InShift
      <4> QED
        BY <4>4, <4>5, NormalizeFacts
    <3> QED
      BY <3>1, <3>2
  <2>6. CASE w = a
    <3>1. A[<<s, w>>] = end
      <4>1. A[<<s, w>>] = s + w
        BY <2>1, <2>3, <2>6
      <4> QED
        BY <2>1, <2>6, <4>1
    <3>2. A[<<s, w + 1>>] = n + 1
      <4>1. A[<<s, w + 1>>] = A[<<n, 1>>]
        <5> DEFINE v == w + 1
        <5>1. v \in Nat /\ v > a /\ v - a = 1
          BY <2>1, <2>6
        <5> HIDE DEF v, a, n
        <5>2. A[<<s, v>>] = A[<<n, v - a>>]
          BY <2>3, <5>1
        <5> QED
          BY <5>1, <5>2 DEF v
      <4>2. Available(c, n) \in Nat /\ Available(c, n) > 0
        BY <2>2, AvailableFacts
      <4>3. A[<<n, 1>>] = IF 1 <= Available(c, n) THEN n + 1
                          ELSE A[<<NextShift(c, n), 1 - Available(c, n)>>]
        BY <1>1, <2>2
      <4> QED
        BY <4>1, <4>2, <4>3
    <3>3. Normalize(c, end) = n
      <4> DEFINE m == Normalize(c, end)
      <4>1. m \in Int /\ end <= m /\ InShift(c, m) /\ m <= n
        BY <2>1, <2>2, NormalizeFacts
      <4>2. LocalDate(m) \in Int /\ m < ShiftEnd(c, LocalDate(m))
        BY <4>1, DayOf DEF InShift
      <4>3. d <= LocalDate(m) /\ d # LocalDate(m)
        <5>1. s <= m
          BY <2>1, <4>1
        <5> HIDE DEF m
        <5>2. d <= LocalDate(m)
          BY <4>1, <5>1, DaysInOrder
        <5> QED
          BY <2>1, <4>1, <4>2, <5>2
      <4>4. n <= m
        BY <2>2, <2>4, <4>1, <4>2, <4>3
      <4> HIDE DEF m, n
      <4> QED
        BY <2>2, <4>1, <4>4 DEF m
    <3> QED
      BY <3>1, <3>2, <3>3
  <2>7. CASE w > a
    <3>1. A[<<s, w>>] = A[<<n, w - a>>] /\ A[<<s, w + 1>>] = A[<<n, (w - a) + 1>>]
      <4> DEFINE v == w + 1
      <4>1. v \in Nat /\ v > a /\ v - a = (w - a) + 1
        BY <2>1, <2>7
      <4> HIDE DEF v, a, n
      <4>2. A[<<s, v>>] = A[<<n, v - a>>] /\ A[<<s, w>>] = A[<<n, w - a>>]
        BY <2>3, <2>7, <4>1
      <4> QED
        BY <4>1, <4>2 DEF v
    <3>2. Tick(n, w - a)
      BY <1>2, <2>7
    <3> HIDE DEF n, a
    <3> QED
      BY <2>2, <3>1, <3>2
  <2> QED
    BY <2>1, <2>5, <2>6, <2>7
<1>3. AfterKeeps(c, G)
  <2>1. \A s \in Int : Available(c, s) \in Nat
    BY AvailableFacts
  <2>2. ASSUME NEW s \in Int, NEW w \in Nat,
               w > Available(c, s) => <<NextShift(c, s), w - Available(c, s)>> \in G
        PROVE  Tick(s, w)
    <3>1. w > Available(c, s) => Tick(NextShift(c, s), w - Available(c, s))
      <4> HIDE DEF Tick
      <4> QED
        BY <2>2
    <3>2. CASE InShift(c, s)
      <4> HIDE DEF Tick
      <4> QED
        BY <1>2, <3>1, <3>2
    <3>3. CASE ~InShift(c, s)
      BY <3>3
    <3> QED
      BY <3>2, <3>3
  <2> HIDE DEF Tick
  <2> QED
    BY <2>2 DEF AfterKeeps
<1>4. \A s \in Int, w \in Nat : <<s, w>> \in G
  <2> HIDE DEF G
  <2> QED
    BY <1>3, AfterInduction
<1>5. \A s \in Int, w \in Nat : Tick(s, w)
  <2> HIDE DEF Tick
  <2> QED
    BY <1>4
<1> QED
  BY <1>5 DEF A

(* Work that leads past a working instant goes on from there.              *)
LEMMA WorkContinues ==
    ASSUME NEW c \in Calendar, NEW b \in Int, InShift(c, b)
    PROVE  \A s \in Int, l \in Nat : s <= b /\ InShift(c, s) /\ l > 0 =>
              After(c)[<<s, Until(c, b)[s] + l>>] = After(c)[<<b, l>>]
<1> DEFINE A == After(c)
           U == Until(c, b)
           Joins(s) == s <= b /\ InShift(c, s) =>
              \A l \in Nat : l > 0 => A[<<s, U[s] + l>>] = A[<<b, l>>]
           G == {s \in Int : Joins(s)}
<1>1. \A s \in Int, w \in Nat :
          A[<<s, w>>] = IF w <= Available(c, s) THEN s + w
                        ELSE A[<<NextShift(c, s), w - Available(c, s)>>]
  BY AfterUnfolds
<1>2. \A s \in Int : U[s] = IF s >= b THEN 0
                            ELSE IF ShiftEnd(c, LocalDate(s)) >= b THEN b - s
                            ELSE Available(c, s) + U[NextShift(c, s)]
  BY UntilUnfolds
<1>3. \A s \in Int : s <= b => U[s] \in Nat
  BY WorkFits
<1> HIDE DEF A, U
<1>4. ASSUME NEW s \in Int, s <= b, InShift(c, s),
             s < b /\ ShiftEnd(c, LocalDate(s)) < b => Joins(NextShift(c, s)),
             NEW l \in Nat, l > 0
      PROVE  A[<<s, U[s] + l>>] = A[<<b, l>>]
  <2> DEFINE d == LocalDate(s)
             e == LocalDate(b)
             end == ShiftEnd(c, d)
             a == Available(c, s)
             n == NextShift(c, s)
             w == U[s] + l
  <2>1. a \in Nat /\ a > 0 /\ s + a = end /\ end \in Int
    BY <1>4, AvailableFacts
  <2>2. /\ n \in Int /\ s < n /\ end <= n /\ InShift(c, n)
        /\ d < e => n <= b
    BY NextShiftFacts
  <2>3. d \in Int /\ e \in Int /\ d <= e
    BY <1>4, DayOf, DaysInOrder
  <2>4. w \in Nat /\ U[s] \in Nat
    BY <1>3, <1>4
  <2>5. A[<<s, w>>] = IF w <= a THEN s + w ELSE A[<<n, w - a>>]
    BY <1>1, <2>4
  <2>6. d < e => end <= b
    <3>1. ShiftStart(c, e) <= b /\ ShiftStart(c, e) \in Int
      BY <2>3, Shifts DEF InShift
    <3>2. d < e => end <= ShiftStart(c, e)
      BY <2>3, Shifts
    <3> HIDE DEF d, e, end
    <3> QED
      BY <2>1, <3>1, <3>2
  <2>7. d = e => b < end
    BY DEF InShift
  <2>8. U[s] = IF s >= b THEN 0 ELSE IF end >= b THEN b - s ELSE a + U[n]
    BY <1>2
  <2>9. s < b /\ end < b => Joins(n)
    BY <1>4
  <2>10. CASE s = b
    <3>1. U[s] = 0 /\ w = l
      <4>1. U[s] = 0
        BY <2>8, <2>10
      <4> QED
        BY <4>1
    <3> QED
      BY <2>10, <3>1
  <2>11. CASE s < b /\ d = e
    <3>1. U[s] = b - s /\ w = b - s + l
      <4>1. U[s] = b - s
        <5> HIDE DEF end, d, e, a, n
        <5> QED
          BY <2>1, <2>7, <2>8, <2>11
      <4> QED
        BY <4>1
    <3>2. Available(c, b) = end - b /\ NextShift(c, b) = n
      <4>1. Available(c, b) > 0 /\ b + Available(c, b) = end /\ Available(c, b) \in Nat
        BY <2>11, AvailableFacts
      <4>2. NextShift(c, b) = n
        BY <2>11 DEF NextShift
      <4> QED
        BY <2>1, <4>1, <4>2
    <3>3. A[<<b, l>>] = IF l <= end - b THEN b + l ELSE A[<<n, l - (end - b)>>]
      <4>1. A[<<b, l>>] = IF l <= Available(c, b) THEN b + l
                          ELSE A[<<NextShift(c, b), l - Available(c, b)>>]
        BY <1>1
      <4> HIDE DEF end, n
      <4> QED
        BY <3>2, <4>1
    <3> HIDE DEF end, n, a, w, d, e
    <3>4. (w <= a <=> l <= end - b) /\ w - a = l - (end - b) /\ s + w = b + l
      BY <2>1, <3>1
    <3>5. A[<<s, w>>] = A[<<b, l>>]
      BY <2>5, <3>3, <3>4
    <3> QED
      BY <3>5 DEF w
  <2>12. CASE s < b /\ d < e
    <3>1. n <= b /\ end <= b
      BY <2>2, <2>6, <2>12
    <3>2. CASE end = b
      <4>1. n = b
        <5> HIDE DEF n, end
        <5> QED
          BY <2>1, <2>2, <3>1, <3>2
      <4>2. U[s] = b - s
        <5> HIDE DEF n, end, a
        <5> QED
          BY <2>8, <2>12, <3>2
      <4>3. ~(w <= a) /\ w - a = l
        <5>1. U[s] = a
          <6> HIDE DEF end, a
          <6> QED
            BY <2>1, <3>2, <4>2
        <5>2. w = a + l
          BY <5>1
        <5> HIDE DEF a, w
        <5> QED
          BY <1>4, <2>1, <5>2
      <4>4. A[<<s, w>>] = A[<<n, w - a>>]
        <5> HIDE DEF a, w, n
        <5> QED
          BY <2>5, <4>3
      <4> HIDE DEF n, a
      <4> QED
        BY <4>1, <4>3, <4>4
    <3>3. CASE end < b
      <4>1. U[s] = a + U[n]
        <5> HIDE DEF end, a, n
        <5> QED
          BY <2>1, <2>8, <2>12, <3>3
      <4>2. U[n] \in Nat
        BY <1>3, <2>2, <3>1
      <4>3. ~(w <= a) /\ w - a = U[n] + l
        <5>1. w = a + U[n] + l
          BY <4>1
        <5> HIDE DEF a, n, w
        <5> QED
          BY <1>4, <2>1, <4>2, <5>1
      <4>4. A[<<s, w>>] = A[<<n, w - a>>]
        <5> HIDE DEF a, w, n
        <5> QED
          BY <2>5, <4>3
      <4>5. A[<<n, U[n] + l>>] = A[<<b, l>>]
        <5>1. Joins(n)
          BY <2>9, <2>12, <3>3
        <5> HIDE DEF n
        <5> QED
          BY <1>4, <2>2, <3>1, <5>1
      <4> HIDE DEF n, a
      <4> QED
        BY <4>3, <4>4, <4>5
    <3> HIDE DEF end
    <3> QED
      BY <2>1, <3>1, <3>2, <3>3
  <2> HIDE DEF d, e
  <2> QED
    BY <1>4, <2>3, <2>10, <2>11, <2>12
<1>5. UntilKeeps(c, b, G)
  <2>1. \A s \in Int : NextShift(c, s) \in Int
    BY NextShiftFacts
  <2>2. ASSUME NEW s \in Int,
               s < b /\ ShiftEnd(c, LocalDate(s)) < b => NextShift(c, s) \in G
        PROVE  Joins(s)
    <3>1. s < b /\ ShiftEnd(c, LocalDate(s)) < b => Joins(NextShift(c, s))
      <4> HIDE DEF Joins
      <4> QED
        BY <2>2
    <3>2. SUFFICES ASSUME s <= b, InShift(c, s), NEW l \in Nat, l > 0
                   PROVE  A[<<s, U[s] + l>>] = A[<<b, l>>]
      OBVIOUS
    <3> HIDE DEF Joins
    <3> QED
      BY <1>4, <3>1, <3>2
  <2> HIDE DEF Joins
  <2> QED
    BY <2>2 DEF UntilKeeps
<1>6. \A s \in Int : s \in G
  <2> HIDE DEF G
  <2> QED
    BY <1>5, UntilInduction
<1>7. \A s \in Int : Joins(s)
  <2> HIDE DEF Joins
  <2> QED
    BY <1>6
<1> QED
  BY <1>7 DEF A, U

(* More work takes longer.                                                 *)
LEMMA AfterInOrder ==
    ASSUME NEW c \in Calendar, NEW s \in Int, InShift(c, s), NEW v \in Nat, NEW w \in Nat
    PROVE  /\ v <= w => After(c)[<<s, v>>] <= After(c)[<<s, w>>]
           /\ v < w => After(c)[<<s, v>>] < After(c)[<<s, w>>]
           /\ v < w => After(c)[<<s, v + 1>>] <= After(c)[<<s, w>>]
           /\ After(c)[<<s, v + 1>>] <= Normalize(c, After(c)[<<s, v>>]) + 1
<1> DEFINE A(x) == After(c)[<<s, x>>]
<1>1. \A x \in Nat : A(x) \in Int /\ s <= A(x)
  BY AfterForward
<1>2. ASSUME NEW x \in Nat, NEW y \in Nat, x <= y PROVE A(x) <= A(y)
  <2> DEFINE t == A(y)
  <2>1. t \in Int /\ s <= t
    BY <1>1
  <2>2. /\ Until(c, t)[s] \in Nat
        /\ \A z \in Nat : z <= Until(c, t)[s] <=> A(z) <= t
    <3> HIDE DEF t
    <3> QED
      BY <2>1, WorkFits
  <2>3. y <= Until(c, t)[s]
    <3>1. A(y) <= t
      BY <2>1
    <3> HIDE DEF t, A
    <3> QED
      BY <2>2, <3>1
  <2>4. x <= Until(c, t)[s]
    <3> HIDE DEF t
    <3> QED
      BY <1>2, <2>2, <2>3
  <2> HIDE DEF t, A
  <2>5. A(x) <= t
    BY <2>2, <2>4
  <2> QED
    BY <2>5 DEF t
<1>3. /\ A(v + 1) = A(v) + 1 \/ A(v + 1) = Normalize(c, A(v)) + 1
      /\ A(v) \in Int /\ A(v) <= Normalize(c, A(v)) /\ Normalize(c, A(v)) \in Int
  <2>1. A(v + 1) = A(v) + 1 \/ A(v + 1) = Normalize(c, A(v)) + 1
    BY OneMoreTick
  <2>2. A(v) \in Int
    BY <1>1
  <2> HIDE DEF A
  <2> QED
    BY <2>1, <2>2, NormalizeFacts
<1>4. v < w => A(v + 1) <= A(w)
  <2> HIDE DEF A
  <2> QED
    BY <1>2
<1>5. A(w) \in Int
  BY <1>1
<1>6. /\ v <= w => A(v) <= A(w)
      /\ v < w => A(v) < A(w)
      /\ v < w => A(v + 1) <= A(w)
      /\ A(v + 1) <= Normalize(c, A(v)) + 1
  <2> HIDE DEF A
  <2> QED
    BY <1>2, <1>3, <1>4, <1>5
<1> QED
  BY <1>6

(* Working time from and to a base.                                        *)
LEMMA BetweenIs ==
    ASSUME NEW c \in Calendar, NEW b \in Int, InShift(c, b), NEW t \in Int
    PROVE  /\ b <= t => WorkBetween(c, b, t) = Until(c, t)[b] /\ Until(c, t)[b] \in Nat
           /\ t <= b => /\ WorkBetween(c, b, t) = -Until(c, b)[Normalize(c, t)]
                        /\ Until(c, b)[Normalize(c, t)] \in Nat
<1>1. Normalize(c, b) = b
  BY NormalizeFacts
<1>2. ASSUME b <= t PROVE WorkBetween(c, b, t) = Until(c, t)[b] /\ Until(c, t)[b] \in Nat
  <2>1. Until(c, t)[b] \in Nat
    BY <1>2, WorkFits
  <2>2. WorkBetween(c, b, t) = WorkUntil(c, b, t)
    BY <1>2 DEF WorkBetween
  <2> QED
    BY <1>1, <2>1, <2>2, WorkUntilIs
<1>3. ASSUME t <= b
      PROVE  /\ WorkBetween(c, b, t) = -Until(c, b)[Normalize(c, t)]
             /\ Until(c, b)[Normalize(c, t)] \in Nat
  <2> DEFINE n == Normalize(c, t)
  <2>1. n \in Int /\ n <= b
    BY <1>3, NormalizeFacts
  <2>2. Until(c, b)[n] \in Nat
    <3> HIDE DEF n
    <3> QED
      BY <2>1, WorkFits
  <2>3. CASE t < b
    <3>1. WorkBetween(c, b, t) = -WorkUntil(c, t, b)
      BY <2>3 DEF WorkBetween
    <3> QED
      BY <2>2, <3>1, WorkUntilIs
  <2>4. CASE t = b
    <3>1. n = b
      BY <1>1, <2>4
    <3>2. Until(c, b)[b] = 0
      <4>1. Until(c, b)[b] = IF b >= b THEN 0
                             ELSE IF ShiftEnd(c, LocalDate(b)) >= b THEN b - b
                             ELSE Available(c, b) + Until(c, b)[NextShift(c, b)]
        BY UntilUnfolds
      <4> QED
        BY <4>1
    <3>3. WorkBetween(c, b, t) = Until(c, b)[b]
      BY <1>2, <2>4
    <3>4. Until(c, b)[n] = 0 /\ WorkBetween(c, b, t) = 0
      BY <3>1, <3>2, <3>3
    <3> DEFINE u == Until(c, b)[n]
    <3>5. u \in Int /\ u <= 0 /\ u >= 0
      BY <2>2, <3>4
    <3> HIDE DEF u
    <3>6. -u <= 0 /\ -u >= 0 /\ -u \in Int
      BY <3>5
    <3>7. WorkBetween(c, b, t) = -u
      BY <3>4, <3>6
    <3> QED
      BY <2>2, <3>7 DEF u
  <2> QED
    BY <1>3, <2>3, <2>4
<1> QED
  BY <1>2, <1>3

(* An instant at or after the base.                                        *)
LEMMA EncodeLate ==
    ASSUME NEW c \in Calendar, NEW b \in Int, InShift(c, b), NEW t \in Int, b <= t,
           NEW f \in BOOLEAN
    PROVE  LET u == Until(c, t)[b]
               a == After(c)[<<b, u>>]
               n == Normalize(c, a)
           IN  /\ u \in Nat /\ a \in Int /\ n \in Int /\ a <= t /\ a <= n
               /\ Encode(c, b, t, f) =
                     [work |-> u,
                      phase |-> IF t <= a \/ n <= a THEN 0 ELSE (IF t < n THEN t ELSE n) - a]
<1> DEFINE u == Until(c, t)[b]
           a == After(c)[<<b, u>>]
           n == Normalize(c, a)
<1>1. u \in Nat /\ WorkBetween(c, b, t) = u
  BY BetweenIs
<1> HIDE DEF u
<1>2. a \in Int
  BY <1>1, AfterForward
<1>3. a <= t
  <2>1. \A w \in Nat : w <= Until(c, t)[b] <=> After(c)[<<b, w>>] <= t
    BY WorkFits
  <2>2. u <= Until(c, t)[b]
    BY <1>1 DEF u
  <2> QED
    BY <1>1, <2>1, <2>2
<1>4. AddWork(c, b, u) = a
  <2>1. Normalize(c, b) = b
    BY NormalizeFacts
  <2> QED
    BY <2>1, AddWorkIs
<1> HIDE DEF a
<1>5. n \in Int /\ a <= n
  BY <1>2, NormalizeFacts
<1>6. (IF f /\ u < 0 THEN 0 ELSE u) = u /\ ~(u < 0)
  BY <1>1
<1>7. Encode(c, b, t, f) =
         [work |-> u, phase |-> IF t <= a \/ n <= a THEN 0 ELSE (IF t < n THEN t ELSE n) - a]
  BY <1>1, <1>4, <1>6 DEF Encode
<1> QED
  BY <1>1, <1>2, <1>3, <1>5, <1>7 DEF a, u

(* An instant at or before the base.                                       *)
LEMMA EncodeEarly ==
    ASSUME NEW c \in Calendar, NEW b \in Int, InShift(c, b), NEW t \in Int, t <= b,
           NEW f \in BOOLEAN
    PROVE  /\ Encode(c, b, t, f) =
                 [work |-> IF f THEN 0 ELSE -Until(c, b)[Normalize(c, t)], phase |-> 0]
           /\ Until(c, b)[Normalize(c, t)] \in Nat
<1> DEFINE u == Until(c, b)[Normalize(c, t)]
           w == IF f /\ -u < 0 THEN 0 ELSE -u
<1>1. u \in Nat /\ WorkBetween(c, b, t) = -u
  BY BetweenIs
<1> HIDE DEF u
<1>2. AddWork(c, b, 0) = b
  <2>1. Normalize(c, b) = b /\ After(c)[<<b, 0>>] = b
    BY NormalizeFacts, AfterForward
  <2> QED
    BY <2>1, AddWorkIs
<1>3. w = IF f THEN 0 ELSE -u
  BY <1>1
<1>4. w < 0 \/ w = 0
  BY <1>1
<1>5. Encode(c, b, t, f) =
         [work |-> w,
          phase |-> IF w < 0 \/ t <= AddWork(c, b, w)
                          \/ Normalize(c, AddWork(c, b, w)) <= AddWork(c, b, w) THEN 0
                    ELSE (IF t < Normalize(c, AddWork(c, b, w)) THEN t
                          ELSE Normalize(c, AddWork(c, b, w))) - AddWork(c, b, w)]
  BY <1>1 DEF Encode
<1> HIDE DEF w
<1>6. w < 0 \/ t <= AddWork(c, b, w)
  BY <1>2, <1>4
<1>7. Encode(c, b, t, f) = [work |-> w, phase |-> 0]
  BY <1>5, <1>6
<1> QED
  BY <1>1, <1>3, <1>7 DEF u

(* What is encoded is an instant, and not before the base if floored.      *)
LEMMA EncodeTyped ==
    ASSUME NEW c \in Calendar, NEW b \in Int, InShift(c, b), NEW t \in Int, NEW f \in BOOLEAN
    PROVE  /\ Encode(c, b, t, f) \in Instant
           /\ f => NotLater(Zero, Encode(c, b, t, f))
<1>1. CASE b <= t
  <2> DEFINE u == Until(c, t)[b]
             a == After(c)[<<b, u>>]
             n == Normalize(c, a)
             p == IF t <= a \/ n <= a THEN 0 ELSE (IF t < n THEN t ELSE n) - a
  <2>1. /\ u \in Nat /\ a \in Int /\ n \in Int /\ a <= t /\ a <= n
        /\ Encode(c, b, t, f) = [work |-> u, phase |-> p]
    BY <1>1, EncodeLate
  <2> HIDE DEF u, a, n
  <2>2. p \in Nat
    BY <2>1
  <2> HIDE DEF p
  <2> QED
    BY <2>1, <2>2 DEF Instant, NotLater, Later, Zero
<1>2. CASE t <= b
  <2> DEFINE u == Until(c, b)[Normalize(c, t)]
             w == IF f THEN 0 ELSE -u
  <2>1. Encode(c, b, t, f) = [work |-> w, phase |-> 0] /\ u \in Nat
    BY <1>2, EncodeEarly
  <2> HIDE DEF u
  <2>2. w \in Int /\ (f => w = 0)
    BY <2>1
  <2> HIDE DEF w
  <2> QED
    BY <2>1, <2>2 DEF Instant, NotLater, Later, Zero
<1> QED
  BY <1>1, <1>2

(* The instants of a schedule: at or after the base; a phase fills the gap *)
(* between two shifts.                                                     *)
OfSchedule(c, b, a) ==
    /\ a \in Instant /\ a.work >= 0
    /\ a.phase > 0 =>
          LET end == After(c)[<<b, a.work>>]
          IN  /\ a.phase = Normalize(c, end) - end
              /\ After(c)[<<b, a.work + 1>>] = Normalize(c, end) + 1

(* A working instant from the base on is encoded as an instant of a        *)
(* schedule.                                                               *)
LEMMA EncodeOfSchedule ==
    ASSUME NEW c \in Calendar, NEW b \in Int, InShift(c, b), NEW t \in Int, b <= t,
           InShift(c, t), NEW f \in BOOLEAN
    PROVE  OfSchedule(c, b, Encode(c, b, t, f))
<1> DEFINE u == Until(c, t)[b]
           A(w) == After(c)[<<b, w>>]
           n == Normalize(c, A(u))
           p == IF t <= A(u) \/ n <= A(u) THEN 0 ELSE (IF t < n THEN t ELSE n) - A(u)
           r == Encode(c, b, t, f)
<1>1. /\ u \in Nat /\ A(u) \in Int /\ n \in Int /\ A(u) <= t /\ A(u) <= n
      /\ r = [work |-> u, phase |-> p]
  BY EncodeLate
<1>2. r \in Instant
  BY EncodeTyped
<1>3. \A w \in Nat : w <= u <=> A(w) <= t
  BY WorkFits
<1> HIDE DEF u, r
<1>4. A(u + 1) = A(u) + 1 \/ A(u + 1) = n + 1
  BY <1>1, OneMoreTick
<1>5. A(u + 1) \in Int
  <2>1. u + 1 \in Nat
    BY <1>1
  <2> QED
    BY <2>1, AfterForward
<1>6. n <= t
  <2> HIDE DEF A
  <2> QED
    BY <1>1, NormalizeFacts
<1>7. t < A(u + 1)
  <2>1. u + 1 \in Nat /\ ~(u + 1 <= u)
    BY <1>1
  <2> HIDE DEF A
  <2> QED
    BY <1>3, <1>5, <2>1
<1>8. p > 0 => p = n - A(u) /\ A(u + 1) = n + 1
  <2> HIDE DEF A, n
  <2> QED
    BY <1>1, <1>4, <1>5, <1>6, <1>7
<1>9. r.work = u /\ r.phase = p /\ u >= 0
  BY <1>1
<1> HIDE DEF p
<1> QED
  BY <1>2, <1>8, <1>9 DEF OfSchedule, r

(* Work leads from an instant of a schedule to another.                    *)
LEMMA AdvanceOfSchedule ==
    ASSUME NEW c, NEW b, NEW a, OfSchedule(c, b, a), NEW d \in Nat
    PROVE  OfSchedule(c, b, Advance(a, d))
<1>1. CASE d = 0
  BY <1>1 DEF Advance
<1>2. CASE d # 0
  BY <1>2 DEF Advance, OfSchedule, Instant
<1> QED
  BY <1>1, <1>2

(* The civil instant of an instant of a schedule.                          *)
LEMMA DecodeIs ==
    ASSUME NEW c \in Calendar, NEW b \in Int, InShift(c, b), NEW a, OfSchedule(c, b, a)
    PROVE  LET end == After(c)[<<b, a.work>>]
           IN  /\ end \in Int /\ b <= end /\ a.work \in Nat /\ a.phase \in Nat
               /\ Normalize(c, end) \in Int /\ end <= Normalize(c, end)
               /\ Decode(c, b, a) = IF a.phase > 0 THEN Normalize(c, end) ELSE end
               /\ Decode(c, b, a) \in Int /\ b <= Decode(c, b, a)
               /\ Decode(c, b, a) = end + a.phase
<1> DEFINE end == After(c)[<<b, a.work>>]
<1>1. a.work \in Nat /\ a.phase \in Nat
  BY DEF OfSchedule, Instant
<1>2. end \in Int /\ b <= end
  BY <1>1, AfterForward
<1>3. AddWork(c, b, a.work) = end
  <2>1. Normalize(c, b) = b
    BY NormalizeFacts
  <2> QED
    BY <2>1, AddWorkIs
<1>4. a.phase > 0 => a.phase = Normalize(c, end) - end
  BY DEF OfSchedule
<1> HIDE DEF end
<1>5. Normalize(c, end) \in Int /\ end <= Normalize(c, end)
  BY <1>2, NormalizeFacts
<1>6. Decode(c, b, a) = IF a.phase > 0 THEN Normalize(c, end) ELSE end
  BY <1>3 DEF Decode
<1>7. /\ Decode(c, b, a) \in Int /\ b <= Decode(c, b, a)
      /\ Decode(c, b, a) = end + a.phase
  BY <1>1, <1>2, <1>4, <1>5, <1>6
<1> QED
  BY <1>1, <1>2, <1>5, <1>6, <1>7 DEF end

(* Encoding and decoding agree on what is later.                           *)
LEMMA DecodeBefore ==
    ASSUME NEW c \in Calendar, NEW b \in Int, InShift(c, b), NEW a, OfSchedule(c, b, a),
           NEW t \in Int, NEW f \in BOOLEAN
    PROVE  Decode(c, b, a) < t <=> Later(Encode(c, b, t, f), a)
<1> DEFINE w == a.work
           A(x) == After(c)[<<b, x>>]
           n == Normalize(c, A(w))
           D == Decode(c, b, a)
           r == Encode(c, b, t, f)
<1>1. /\ A(w) \in Int /\ b <= A(w) /\ w \in Nat /\ a.phase \in Nat
      /\ n \in Int /\ A(w) <= n
      /\ D = IF a.phase > 0 THEN n ELSE A(w)
      /\ D \in Int /\ b <= D /\ D = A(w) + a.phase
  BY DecodeIs
<1>2. a.phase > 0 => A(w + 1) = n + 1
  BY DEF OfSchedule
<1>3. A(w + 1) \in Int /\ A(w + 1) <= n + 1
  <2>1. w + 1 \in Nat
    BY <1>1
  <2>2. A(w + 1) \in Int
    BY <2>1, AfterForward
  <2> QED
    BY <1>1, <2>2, AfterInOrder
<1>4. CASE t <= b
  <2>1. r \in Instant /\ r.work <= 0 /\ r.phase = 0
    <3> DEFINE u == Until(c, b)[Normalize(c, t)]
               v == IF f THEN 0 ELSE -u
    <3>1. r = [work |-> v, phase |-> 0] /\ u \in Nat
      BY <1>4, EncodeEarly
    <3> HIDE DEF u, r
    <3>2. v \in Int /\ v <= 0
      BY <3>1
    <3> HIDE DEF v
    <3> QED
      BY <3>1, <3>2 DEF Instant
  <2> HIDE DEF r, D, A, n, w
  <2>2. ~(D < t)
    BY <1>1, <1>4
  <2>3. ~Later(r, a)
    BY <1>1, <2>1 DEF Later, Instant, w
  <2> QED
    BY <2>2, <2>3 DEF r, D
<1>5. CASE b <= t
  <2> DEFINE u == Until(c, t)[b]
             m == Normalize(c, A(u))
             p == IF t <= A(u) \/ m <= A(u) THEN 0 ELSE (IF t < m THEN t ELSE m) - A(u)
  <2>1. /\ u \in Nat /\ A(u) \in Int /\ m \in Int /\ A(u) <= t /\ A(u) <= m
        /\ r = [work |-> u, phase |-> p]
    BY <1>5, EncodeLate
  <2>2. \A x \in Nat : x <= u <=> A(x) <= t
    BY <1>5, WorkFits
  <2>3. u < w => t < A(w)
    <3> HIDE DEF A, u, w
    <3> QED
      BY <1>1, <2>1, <2>2
  <2>4. u > w => A(w + 1) <= t /\ A(w) < t
    <3>1. u > w => A(w + 1) <= t
      <4>1. w + 1 \in Nat /\ (u > w => w + 1 <= u)
        BY <1>1, <2>1
      <4> HIDE DEF A, u, w
      <4> QED
        BY <2>2, <4>1
    <3>2. A(w) < A(w + 1)
      <4>1. w + 1 \in Nat /\ w < w + 1
        BY <1>1
      <4> QED
        BY <1>1, <4>1, AfterInOrder
    <3> HIDE DEF A, u, w
    <3> QED
      BY <1>1, <1>3, <3>1, <3>2
  <2>5. u = w => t < A(w + 1)
    <3>1. w + 1 \in Nat /\ (u = w => ~(w + 1 <= u))
      BY <1>1
    <3> HIDE DEF A, u, w
    <3> QED
      BY <1>3, <2>2, <3>1
  <2>6. Later(r, a) <=> u > w \/ (u = w /\ p > a.phase)
    <3> HIDE DEF u, p
    <3> QED
      BY <2>1 DEF Later
  <2>7. CASE u < w
    <3> HIDE DEF A, u, w, r, n, p, m, D
    <3> QED
      BY <1>1, <2>1, <2>3, <2>6, <2>7 DEF r, D
  <2>8. CASE u > w
    <3>1. D < t
      <4> HIDE DEF A, u, w, n
      <4> QED
        BY <1>1, <1>2, <1>3, <2>4, <2>8
    <3> HIDE DEF A, u, w, r, n, p, m, D
    <3> QED
      BY <2>6, <2>8, <3>1 DEF r, D
  <2>9. CASE u = w
    <3>1. m = n /\ A(u) = A(w)
      BY <2>9
    <3>2. t <= n
      <4> HIDE DEF A, u, w, n
      <4> QED
        BY <1>1, <1>3, <2>5, <2>9
    <3>3. A(w) < t => t - A(w) = p /\ p > 0
      <4> HIDE DEF A, u, w, n, m
      <4> QED
        BY <1>1, <2>1, <3>1, <3>2
    <3>4. t <= A(w) => p = 0
      <4> HIDE DEF A, u, w, n, m
      <4> QED
        BY <2>1, <3>1
    <3>5. D < t <=> p > a.phase
      <4> HIDE DEF A, u, w, n, m, p, D
      <4> QED
        BY <1>1, <3>3, <3>4
    <3> HIDE DEF A, u, w, r, n, p, m, D
    <3> QED
      BY <1>1, <2>6, <2>9, <3>5 DEF r, D
  <2> HIDE DEF u, w
  <2> QED
    BY <1>1, <2>1, <2>7, <2>8, <2>9
<1> QED
  BY <1>4, <1>5

(* A later instant decodes to a later civil instant.                       *)
LEMMA DecodeInOrder ==
    ASSUME NEW c \in Calendar, NEW b \in Int, InShift(c, b),
           NEW x, OfSchedule(c, b, x), NEW y, OfSchedule(c, b, y), NotLater(x, y)
    PROVE  /\ Decode(c, b, x) <= Decode(c, b, y)
           /\ Normalize(c, Decode(c, b, x)) <= Normalize(c, Decode(c, b, y))
<1> DEFINE A(w) == After(c)[<<b, w>>]
           n == Normalize(c, A(x.work))
<1>1. /\ A(x.work) \in Int /\ x.work \in Nat /\ x.phase \in Nat /\ n \in Int
      /\ Decode(c, b, x) = A(x.work) + x.phase
      /\ Decode(c, b, x) = IF x.phase > 0 THEN n ELSE A(x.work)
  BY DecodeIs
<1>2. /\ A(y.work) \in Int /\ y.work \in Nat /\ y.phase \in Nat
      /\ Decode(c, b, y) = A(y.work) + y.phase
  BY DecodeIs
<1>3. x.phase > 0 => A(x.work + 1) = n + 1
  BY DEF OfSchedule
<1>4. x.work < y.work => A(x.work + 1) <= A(y.work) /\ A(x.work) <= A(y.work)
  BY <1>1, <1>2, AfterInOrder
<1>5. \/ x.work < y.work
      \/ x.work = y.work /\ x.phase <= y.phase
  BY <1>1, <1>2 DEF NotLater, Later
<1>6. Decode(c, b, x) <= Decode(c, b, y)
  <2>1. CASE x.work < y.work
    <3> HIDE DEF A, n
    <3> QED
      BY <1>1, <1>2, <1>3, <1>4, <2>1
  <2>2. CASE x.work = y.work /\ x.phase <= y.phase
    <3>1. A(x.work) = A(y.work)
      BY <2>2
    <3> HIDE DEF A, n
    <3> QED
      BY <1>1, <1>2, <2>2, <3>1
  <2> QED
    BY <1>5, <2>1, <2>2
<1>7. Decode(c, b, x) \in Int /\ Decode(c, b, y) \in Int
  BY <1>1, <1>2
<1> QED
  BY <1>6, <1>7, NormalizeInOrder

(* A later civil instant is encoded as a later one.                        *)
LEMMA EncodeInOrder ==
    ASSUME NEW c \in Calendar, NEW b \in Int, InShift(c, b), NEW f \in BOOLEAN,
           NEW s \in Int, NEW t \in Int, b <= s, s <= t
    PROVE  NotLater(Encode(c, b, s, f), Encode(c, b, t, f))
<1> DEFINE A(w) == After(c)[<<b, w>>]
           u == Until(c, s)[b]
           v == Until(c, t)[b]
           m == Normalize(c, A(u))
           n == Normalize(c, A(v))
           p == IF s <= A(u) \/ m <= A(u) THEN 0 ELSE (IF s < m THEN s ELSE m) - A(u)
           q == IF t <= A(v) \/ n <= A(v) THEN 0 ELSE (IF t < n THEN t ELSE n) - A(v)
<1>1. /\ u \in Nat /\ A(u) \in Int /\ m \in Int /\ A(u) <= s
      /\ Encode(c, b, s, f) = [work |-> u, phase |-> p]
  BY EncodeLate
<1>2. /\ v \in Nat /\ A(v) \in Int /\ n \in Int
      /\ Encode(c, b, t, f) = [work |-> v, phase |-> q]
  <2>1. b <= t
    OBVIOUS
  <2> QED
    BY <2>1, EncodeLate
<1>3. u <= v
  <2>1. b <= t
    OBVIOUS
  <2>2. \A w \in Nat : w <= v <=> A(w) <= t
    BY <2>1, WorkFits
  <2>3. A(u) <= t
    <3> HIDE DEF A, u
    <3> QED
      BY <1>1
  <2> HIDE DEF A, u, v
  <2> QED
    BY <1>1, <2>2, <2>3
<1>4. u = v => p <= q
  <2>1. ASSUME u = v PROVE A(u) = A(v) /\ m = n
    BY <2>1
  <2> HIDE DEF A, u, v, m, n
  <2> QED
    BY <1>1, <1>2, <2>1
<1>5. p \in Int /\ q \in Int
  <2> HIDE DEF A, u, v, m, n
  <2> QED
    BY <1>1, <1>2
<1> HIDE DEF p, q, u, v, A, m, n
<1> QED
  BY <1>1, <1>2, <1>3, <1>4, <1>5 DEF NotLater, Later

-----------------------------------------------------------------------------
(* A plan that can be scheduled, but for its order.                        *)
Schedulable(plan, asOf) ==
    /\ ExecutionPlan(plan)
    /\ DOMAIN plan.tasks \subseteq Task /\ DOMAIN plan.teams \subseteq Team
    /\ IsFiniteSet(plan.edges)
    /\ \A t \in DOMAIN plan.tasks :
          /\ plan.tasks[t].lo >= 0
          /\ plan.tasks[t].state = "completed" => plan.tasks[t].finish <= asOf
    /\ \A g \in DOMAIN plan.teams : plan.teams[g].capacity > 0

(* What a request guarantees.                                              *)
LEMMA RequestFacts ==
    ASSUME request \in Request
    PROVE  /\ WellFormed(request)
           /\ DOMAIN snap.tasks \subseteq Task /\ DOMAIN snap.teams \subseteq Team
           /\ \A t \in DOMAIN snap.tasks : WellTyped(snap.tasks[t])
           /\ \A g \in DOMAIN snap.teams : snap.teams[g].capacity > 0
           /\ IsFiniteSet(snap.deps)
           /\ snap.asOf \in Nat /\ snap.start \in Nat /\ cal \in Calendar
           /\ snap.target \in Int /\ request.scenario.target \in Int
           /\ ops \in Seq(Intervention)
<1> DEFINE P(r) ==
        /\ WellFormed(r)
        /\ DOMAIN r.snap.tasks \subseteq Task /\ DOMAIN r.snap.teams \subseteq Team
        /\ \A t \in DOMAIN r.snap.tasks : WellTyped(r.snap.tasks[t])
        /\ \A g \in DOMAIN r.snap.teams : r.snap.teams[g].capacity > 0
        /\ IsFiniteSet(r.snap.deps)
        /\ r.snap.asOf \in Nat /\ r.snap.start \in Nat /\ r.snap.cal \in Calendar
        /\ r.snap.target \in Int /\ r.scenario.target \in Int
<1>1. \A r \in Request : P(r)
  BY RequestAssumption
<1>2. P(request)
  <2> HIDE DEF P
  <2> QED
    BY <1>1
<1>3. ops \in Seq(Intervention)
  BY <1>2 DEF WellFormed, ops
<1> QED
  BY <1>2, <1>3 DEF snap, cal

(* The baseline of an accepted snapshot can be scheduled, but for its      *)
(* order.                                                                  *)
LEMMA SchedulableBegins ==
    ASSUME request \in Request, SnapshotConsistent(snap)
    PROVE  Schedulable(Baseline(snap), snap.asOf)
<1> DEFINE p == Baseline(snap)
<1>1. /\ p.tasks = snap.tasks /\ p.edges = GreatestLags(snap.deps) /\ p.teams = snap.teams
      /\ p = [tasks |-> p.tasks, edges |-> p.edges, teams |-> p.teams, target |-> p.target]
  BY DEF Baseline
<1> HIDE DEF p
<1>2. /\ snap.tasks \in [DOMAIN snap.tasks -> PlanTask] /\ DOMAIN snap.tasks \subseteq Nat
      /\ snap.deps \subseteq PlanEdge
      /\ snap.teams \in [DOMAIN snap.teams -> PlanTeam]
  BY RequestFacts DEF WellFormed, snap
<1>3. p.edges \subseteq snap.deps
  BY <1>1 DEF GreatestLags
<1>4. ExecutionPlan(p)
  BY <1>1, <1>2, <1>3 DEF ExecutionPlan
<1>5. IsFiniteSet(p.edges)
  BY <1>3, RequestFacts, FS_Subset
<1>6. ASSUME NEW t \in DOMAIN p.tasks
      PROVE  /\ p.tasks[t].lo >= 0
             /\ p.tasks[t].state = "completed" => p.tasks[t].finish <= snap.asOf
  <2>1. WellTyped(snap.tasks[t]) /\ snap.tasks[t] \in PlanTask
    BY <1>1, <1>2, RequestFacts
  <2>2. snap.tasks[t].lo >= 0
    BY <2>1 DEF WellTyped, PlanTask
  <2>3. snap.tasks[t].state = "completed" => snap.tasks[t].finish <= snap.asOf
    BY <1>1 DEF SnapshotConsistent
  <2> QED
    BY <1>1, <2>2, <2>3
<1> QED
  BY <1>1, <1>4, <1>5, <1>6, RequestFacts DEF Schedulable, p

(* Interventions keep a plan so.                                           *)
LEMMA SchedulableKept ==
    ASSUME NEW plan, NEW asOf, Schedulable(plan, asOf),
           NEW o \in Intervention, Applicable(plan, asOf, o), ExecutionPlan(Applied(plan, o))
    PROVE  Schedulable(Applied(plan, o), asOf)
<1> DEFINE q == Applied(plan, o)
<1>1. /\ q.tasks = TasksAfter(plan.tasks, o)
      /\ q.edges = EdgesAfter(plan.edges, o)
      /\ q.teams = TeamsAfter(plan.teams, o)
  BY PlanAfter
<1> HIDE DEF q
<1>2. /\ plan.tasks \in [DOMAIN plan.tasks -> PlanTask]
      /\ plan.teams \in [DOMAIN plan.teams -> PlanTeam]
      /\ \A t \in DOMAIN plan.tasks :
            /\ plan.tasks[t].lo >= 0
            /\ plan.tasks[t].state = "completed" => plan.tasks[t].finish <= asOf
      /\ \A g \in DOMAIN plan.teams : plan.teams[g].capacity > 0
      /\ DOMAIN plan.tasks \subseteq Task /\ DOMAIN plan.teams \subseteq Team
      /\ IsFiniteSet(plan.edges)
  BY DEF Schedulable, ExecutionPlan
<1>3. IsFiniteSet(q.edges)
  <2>1. q.edges \subseteq plan.edges \cup {Added(o)}
    BY <1>1 DEF EdgesAfter
  <2>2. IsFiniteSet(plan.edges \cup {Added(o)})
    BY <1>2, FS_AddElement
  <2> QED
    BY <2>1, <2>2, FS_Subset
<1>4. DOMAIN q.teams = DOMAIN plan.teams
  BY <1>1 DEF TeamsAfter
<1>5. ASSUME NEW g \in DOMAIN plan.teams PROVE q.teams[g].capacity > 0
  <2>1. CASE o.kind = "capacity" /\ g = o.team
    <3>1. plan.teams[g].capacity + o.delta \in 1..MaxCapacity
      BY <2>1 DEF Applicable
    <3>2. q.teams[g] = [plan.teams[g] EXCEPT !.capacity = plan.teams[g].capacity + o.delta]
      BY <1>1, <2>1 DEF TeamsAfter
    <3>3. plan.teams[g] \in PlanTeam
      BY <1>2
    <3>4. q.teams[g].capacity = plan.teams[g].capacity + o.delta
      BY <3>2, <3>3 DEF PlanTeam
    <3>5. o.delta \in Int /\ plan.teams[g].capacity \in Int
      BY <2>1, <3>3, Kinds DEF PlanTeam
    <3> QED
      BY <3>1, <3>4, <3>5
  <2>2. CASE ~(o.kind = "capacity" /\ g = o.team)
    <3>1. q.teams[g] = plan.teams[g]
      BY <1>1, <2>2 DEF TeamsAfter
    <3> QED
      BY <1>2, <3>1
  <2> QED
    BY <2>1, <2>2
<1>6. DOMAIN q.tasks \subseteq DOMAIN plan.tasks
  <2>1. CASE o.kind \in TaskKinds
    BY <1>1, <2>1 DEF TasksAfter
  <2>2. CASE o.kind = "scope"
    BY <1>1, <2>2 DEF TasksAfter, TaskKinds
  <2>3. CASE o.kind \notin TaskKinds \cup {"scope"}
    BY <1>1, <2>3 DEF TasksAfter
  <2> QED
    BY <2>1, <2>2, <2>3
<1>7. ASSUME NEW t \in DOMAIN q.tasks
      PROVE  /\ q.tasks[t].lo >= 0
             /\ q.tasks[t].state = "completed" => q.tasks[t].finish <= asOf
  <2> DEFINE task == plan.tasks[t]
  <2>1. task \in PlanTask /\ task.lo >= 0 /\ (task.state = "completed" => task.finish <= asOf)
    BY <1>2, <1>6
  <2>2. CASE o.kind \in TaskKinds /\ t = o.task
    <3>1. q.tasks[t] = TaskAfter(task, o)
      <4>1. q.tasks = [plan.tasks EXCEPT ![o.task] = TaskAfter(plan.tasks[o.task], o)]
        BY <1>1, <2>2 DEF TasksAfter
      <4> QED
        BY <1>6, <2>2, <4>1
    <3> HIDE DEF task
    <3>2. CASE o.kind = "duration"
      <4>1. q.tasks[t] = [task EXCEPT !.lo = o.lo, !.hi = o.hi, !.shape = o.shape] /\ o.lo \in Nat
        BY <3>1, <3>2, Kinds DEF TaskAfter
      <4> QED
        BY <2>1, <4>1 DEF PlanTask
    <3>3. CASE o.kind = "shift"
      <4>1. q.tasks[t] = [task EXCEPT !.lo = task.lo + o.delta, !.hi = task.hi + o.delta]
        BY <3>1, <3>3 DEF TaskAfter
      <4>2. task.lo + o.delta >= 0
        BY <2>2, <3>3 DEF Applicable, task
      <4> QED
        BY <2>1, <4>1, <4>2 DEF PlanTask
    <3>4. CASE o.kind = "earliest"
      <4>1. q.tasks[t] = [task EXCEPT !.earliest = o.at]
        BY <3>1, <3>4 DEF TaskAfter
      <4> QED
        BY <2>1, <4>1 DEF PlanTask
    <3>5. CASE o.kind = "blocker"
      <4>1. q.tasks[t] = [task EXCEPT !.until = o.until]
        BY <3>1, <3>5 DEF TaskAfter
      <4> QED
        BY <2>1, <4>1 DEF PlanTask
    <3>6. CASE o.kind = "completed"
      <4>1. q.tasks[t] =
                [task EXCEPT !.state = "completed", !.lo = 0, !.hi = 0, !.finish = o.finish]
        BY <3>1, <3>6 DEF TaskAfter
      <4>2. o.finish <= asOf
        BY <3>6 DEF Applicable
      <4> QED
        BY <2>1, <4>1, <4>2 DEF PlanTask
    <3> QED
      BY <2>2, <3>2, <3>3, <3>4, <3>5, <3>6 DEF TaskKinds
  <2>3. CASE ~(o.kind \in TaskKinds /\ t = o.task)
    <3>1. q.tasks[t] = task
      <4>1. CASE o.kind \in TaskKinds
        BY <1>1, <1>2, <1>6, <2>3, <4>1 DEF TasksAfter
      <4>2. CASE o.kind = "scope"
        BY <1>1, <4>2 DEF TasksAfter, TaskKinds
      <4>3. CASE o.kind \notin TaskKinds \cup {"scope"}
        BY <1>1, <4>3 DEF TasksAfter
      <4> QED
        BY <4>1, <4>2, <4>3
    <3> HIDE DEF task
    <3> QED
      BY <2>1, <3>1
  <2> QED
    BY <2>2, <2>3
<1>8. DOMAIN q.tasks \subseteq Task /\ DOMAIN q.teams \subseteq Team
  BY <1>2, <1>4, <1>6
<1>9. \A g \in DOMAIN q.teams : q.teams[g].capacity > 0
  BY <1>4, <1>5
<1> QED
  BY <1>3, <1>7, <1>8, <1>9 DEF Schedulable, q

(* The graph of a plan whose dependencies are among its tasks.             *)
LEMMA GraphOfTasks ==
    ASSUME NEW tasks, NEW edges, DOMAIN tasks \subseteq Task,
           \A e \in edges : e.from \in DOMAIN tasks /\ e.to \in DOMAIN tasks
    PROVE  IsGraph(GraphOf(tasks, edges))
<1> DEFINE D == DOMAIN tasks
<1>1. D \in SUBSET Task /\ \A e \in edges : e.from \in D /\ e.to \in D
  OBVIOUS
<1>2. GraphOf(tasks, edges) = [nodes |-> D, pairs |-> {Pair(d) : d \in edges}]
  BY DEF GraphOf
<1> HIDE DEF D
<1>3. IsFiniteSet(D) /\ D \subseteq Nat
  BY <1>1, ScheduleAssumption, FS_Subset
<1>4. {Pair(d) : d \in edges} \subseteq D \X D
  BY <1>1 DEF Pair
<1> QED
  BY <1>2, <1>3, <1>4 DEF IsGraph

(* A finite, nonempty set of integers has a last one.                      *)
LEMMA LastExists ==
    ASSUME NEW S, IsFiniteSet(S), S # {}, S \subseteq Int
    PROVE  LastOf(S) \in S /\ \A y \in S : y <= LastOf(S)
<1> DEFINE R == {p \in S \X S : p[2] <= p[1]}
<1>1. \A x, y \in S : <<x, y>> \in R <=> y <= x
  OBVIOUS
<1> HIDE DEF R
<1>2. \A x, y \in S : <<x, y>> \in R \/ <<y, x>> \in R
  <2>1. \A x, y \in S : x <= y \/ y <= x
    OBVIOUS
  <2> QED
    BY <1>1, <2>1
<1>3. \A x, y, z \in S : <<x, y>> \in R /\ <<y, z>> \in R => <<x, z>> \in R
  <2>1. \A x, y, z \in S : x <= y /\ y <= z => x <= z
    OBVIOUS
  <2> QED
    BY <1>1, <2>1
<1>4. \E x \in S : \A y \in S : y <= x
  BY <1>1, <1>2, <1>3, LeastExists
<1> QED
  BY <1>4 DEF LastOf

(* Sets of at most four elements are finite.                               *)
LEMMA FiniteOfFour ==
    ASSUME NEW a, NEW b, NEW c, NEW d, NEW S, S \subseteq {a, b, c, d}
    PROVE  IsFiniteSet(S)
<1>1. IsFiniteSet({a})
  BY FS_Singleton
<1>2. IsFiniteSet({a} \cup {b})
  BY <1>1, FS_AddElement
<1>3. IsFiniteSet({a} \cup {b} \cup {c})
  BY <1>2, FS_AddElement
<1>4. IsFiniteSet({a} \cup {b} \cup {c} \cup {d})
  BY <1>3, FS_AddElement
<1>5. {a, b, c, d} = {a} \cup {b} \cup {c} \cup {d}
  OBVIOUS
<1> QED
  BY <1>4, <1>5, FS_Subset

(* The base of a run.                                                      *)
LEMMA BaseFacts ==
    ASSUME request \in Request
    PROVE  /\ cal \in Calendar /\ Base \in Int /\ InShift(cal, Base)
           /\ snap.asOf <= Base /\ snap.start <= Base
           /\ snap.asOf \in Nat /\ snap.start \in Nat
           /\ \A x \in Int : snap.asOf <= x /\ snap.start <= x => Base <= Normalize(cal, x)
<1>1. cal \in Calendar /\ snap.asOf \in Nat /\ snap.start \in Nat
  BY RequestFacts
<1> DEFINE S == {snap.asOf, snap.start}
           x == LastOf(S)
<1>2. x \in S /\ \A y \in S : y <= x
  <2>1. S \subseteq {snap.asOf, snap.asOf, snap.start, snap.start}
    OBVIOUS
  <2>2. IsFiniteSet(S)
    BY <2>1, FiniteOfFour
  <2>3. S # {} /\ S \subseteq Int
    BY <1>1
  <2> HIDE DEF S
  <2> QED
    BY <2>2, <2>3, LastExists
<1>3. Base = Normalize(cal, x)
  BY DEF Base
<1>4. x \in Int /\ snap.asOf <= x /\ snap.start <= x
  BY <1>1, <1>2
<1>5. \A y \in Int : snap.asOf <= y /\ snap.start <= y => x <= y
  BY <1>2
<1> HIDE DEF x
<1>6. Base \in Int /\ x <= Base /\ InShift(cal, Base)
  BY <1>1, <1>3, <1>4, NormalizeFacts
<1>7. \A y \in Int : snap.asOf <= y /\ snap.start <= y => Base <= Normalize(cal, y)
  BY <1>1, <1>3, <1>4, <1>5, NormalizeInOrder
<1> QED
  BY <1>1, <1>4, <1>6, <1>7

(* A task is released at a working instant, after all its constraints.     *)
LEMMA ReleaseFacts ==
    ASSUME request \in Request, NEW task \in PlanTask
    PROVE  LET x == Normalize(cal, LastOf(Constraints(task)))
           IN  /\ x \in Int /\ Base <= x /\ InShift(cal, x)
               /\ \A y \in {snap.asOf, snap.start, task.earliest, task.until} : y <= x
               /\ LastOf(Constraints(task)) \in Constraints(task)
               /\ \A y \in Constraints(task) : y <= LastOf(Constraints(task))
<1> DEFINE S == Constraints(task)
           m == LastOf(S)
           x == Normalize(cal, m)
<1>1. /\ cal \in Calendar /\ Base \in Int /\ snap.asOf \in Nat /\ snap.start \in Nat
      /\ \A y \in Int : snap.asOf <= y /\ snap.start <= y => Base <= Normalize(cal, y)
  BY BaseFacts
<1>2. task.earliest \in Int /\ task.until \in Int
  BY DEF PlanTask
<1>3. /\ S = {snap.asOf, snap.start, task.earliest, task.until} \ {None}
      /\ None = -1
  BY DEF Constraints, None
<1>4. m \in S /\ \A y \in S : y <= m
  <2>1. IsFiniteSet(S)
    <3>1. S \subseteq {snap.asOf, snap.start, task.earliest, task.until}
      BY <1>3
    <3> HIDE DEF S
    <3> QED
      BY <3>1, FiniteOfFour
  <2>2. S # {} /\ S \subseteq Int
    BY <1>1, <1>2, <1>3
  <2> HIDE DEF S
  <2> QED
    BY <2>1, <2>2, LastExists
<1> HIDE DEF m, S
<1>5. snap.asOf \in S /\ snap.start \in S
  BY <1>1, <1>3
<1>6. m \in Int /\ snap.asOf <= m /\ snap.start <= m
  BY <1>1, <1>2, <1>3, <1>4, <1>5
<1>7. x \in Int /\ m <= x /\ InShift(cal, x)
  BY <1>1, <1>6, NormalizeFacts
<1>8. Base <= x
  BY <1>1, <1>6
<1> HIDE DEF x
<1>9. ASSUME NEW y \in {snap.asOf, snap.start, task.earliest, task.until} PROVE y <= x
  <2>1. CASE y = None
    BY <1>1, <1>3, <1>6, <1>7, <2>1
  <2>2. CASE y # None
    <3>1. y \in S /\ y \in Int
      BY <1>1, <1>2, <1>3, <2>2
    <3> QED
      BY <1>4, <1>6, <1>7, <3>1
  <2> QED
    BY <2>1, <2>2
<1> QED
  BY <1>4, <1>7, <1>8, <1>9 DEF m, S, x

(* Every open task whose duration has a width has a sample.                *)
Sampled(plan, samples) ==
    \A t \in Open(plan) :
        plan.tasks[t].lo < plan.tasks[t].hi => samples[Stream(plan, t)] \in {0, 1}

(* A sampled duration is a natural number of ticks.                        *)
LEMMA DaysTyped ==
    ASSUME NEW plan, NEW asOf, Schedulable(plan, asOf), Consistent(plan),
           NEW samples, Sampled(plan, samples), NEW t \in Open(plan)
    PROVE  /\ Days(plan, samples, t) \in Nat
           /\ plan.tasks[t] \in PlanTask
           /\ plan.tasks[t].team \in DOMAIN plan.teams
<1> DEFINE task == plan.tasks[t]
           team == plan.teams[task.team]
           x == samples[Stream(plan, t)]
           y == IF task.lo = task.hi THEN task.lo ELSE task.lo + (task.hi - task.lo) * x
<1>1. t \in DOMAIN plan.tasks /\ task.state = "open"
  BY DEF Open
<1>2. task \in PlanTask /\ task.lo >= 0
  BY <1>1 DEF Schedulable, ExecutionPlan
<1>3. task.lo <= task.hi /\ task.team \in DOMAIN plan.teams
  BY <1>1 DEF Consistent
<1>4. team \in PlanTeam
  BY <1>3 DEF Schedulable, ExecutionPlan
<1>5. task.lo \in Nat /\ task.hi \in Nat /\ team.slowdown \in Nat
  BY <1>2, <1>3, <1>4 DEF PlanTask, PlanTeam
<1>6. task.lo < task.hi => x \in {0, 1}
  BY DEF Sampled
<1>7. Days(plan, samples, t) = y * team.slowdown
  BY DEF Days
<1> HIDE DEF x
<1>8. y \in Nat
  <2>1. CASE task.lo = task.hi
    BY <1>5, <2>1
  <2>2. CASE task.lo < task.hi /\ x = 0
    <3>1. (task.hi - task.lo) * x = 0
      BY <1>5, <2>2
    <3> QED
      BY <1>5, <2>2, <3>1
  <2>3. CASE task.lo < task.hi /\ x = 1
    <3>1. (task.hi - task.lo) * x = task.hi - task.lo
      BY <1>5, <2>3
    <3> QED
      BY <1>5, <2>3, <3>1
  <2> QED
    BY <1>3, <1>5, <1>6, <2>1, <2>2, <2>3
<1> HIDE DEF y
<1>9. \A i, j \in Nat : i * j \in Nat
  OBVIOUS
<1>10. Days(plan, samples, t) \in Nat
  <2> HIDE DEF team, task
  <2> QED
    BY <1>5, <1>7, <1>8, <1>9
<1> QED
  BY <1>2, <1>3, <1>10

(* What _prepare_schedule makes of a validated plan can be scheduled.      *)
LEMMA PreparedFacts ==
    ASSUME request \in Request, NEW plan, Schedulable(plan, snap.asOf), Consistent(plan),
           WithoutCycle(GraphOf(plan.tasks, plan.edges)),
           NEW samples, Sampled(plan, samples)
    PROVE  PreparedSchedule(Prepared(plan, samples))
<1> DEFINE p == Prepared(plan, samples)
           T == plan.tasks
           active == Open(plan)
           groups == DOMAIN plan.teams
           completed == {u \in DOMAIN T : T[u].state = "completed"}
<1>1. /\ p.team = [t \in active |-> T[t].team]
      /\ p.release = [t \in active |->
             Encode(cal, Base, Normalize(cal, LastOf(Constraints(T[t]))), TRUE)]
      /\ p.days = [t \in active |-> Days(plan, samples, t)]
      /\ p.done = [t \in completed |-> Encode(cal, Base, T[t].finish, FALSE)]
      /\ p.edges = Scheduling(plan)
      /\ p.capacity = [g \in groups |-> plan.teams[g].capacity]
  BY DEF Prepared
<1> HIDE DEF p
<1>2. /\ DOMAIN T \subseteq Task /\ groups \subseteq Team /\ IsFiniteSet(plan.edges)
      /\ \A t \in DOMAIN T : T[t] \in PlanTask
      /\ \A g \in groups : plan.teams[g] \in PlanTeam /\ plan.teams[g].capacity > 0
      /\ plan.edges \subseteq PlanEdge
  BY DEF Schedulable, ExecutionPlan
<1>3. active = {t \in DOMAIN T : T[t].state = "open"}
  BY DEF Open
<1>4. \A t \in active : /\ Days(plan, samples, t) \in Nat /\ T[t].team \in groups
                        /\ T[t] \in PlanTask
  BY DaysTyped
<1>5. cal \in Calendar /\ Base \in Int /\ InShift(cal, Base)
  BY BaseFacts
<1>6. active \subseteq Task /\ p.team \in [active -> groups] /\ DOMAIN p.team = active
  BY <1>1, <1>2, <1>3, <1>4
<1>7. p.release \in [active -> Instant] /\ \A t \in active : NotLater(Zero, p.release[t])
  <2>1. ASSUME NEW t \in active
        PROVE  /\ Encode(cal, Base, Normalize(cal, LastOf(Constraints(T[t]))), TRUE) \in Instant
               /\ NotLater(Zero, Encode(cal, Base, Normalize(cal, LastOf(Constraints(T[t]))), TRUE))
    <3>1. Normalize(cal, LastOf(Constraints(T[t]))) \in Int
      BY <1>4, ReleaseFacts
    <3> QED
      BY <1>5, <3>1, EncodeTyped
  <2> HIDE DEF active
  <2> QED
    BY <1>1, <2>1
<1>8. DOMAIN p.done \subseteq Task \ active /\ p.done \in [DOMAIN p.done -> Instant]
      /\ DOMAIN p.done = completed
  <2>1. ASSUME NEW t \in completed PROVE Encode(cal, Base, T[t].finish, FALSE) \in Instant
    <3>1. T[t].finish \in Int
      BY <1>2 DEF PlanTask
    <3> QED
      BY <1>5, <3>1, EncodeTyped
  <2>2. completed \subseteq Task \ active
    BY <1>2, <1>3
  <2> HIDE DEF completed, active
  <2> QED
    BY <1>1, <2>1, <2>2
<1>9. p.edges \subseteq Edge /\ IsFiniteSet(p.edges)
      /\ \A e \in p.edges : e.to \in active /\ e.from \in active \cup completed
  <2>1. p.edges \subseteq plan.edges
    BY <1>1 DEF Scheduling
  <2>2. IsFiniteSet(p.edges)
    BY <1>2, <2>1, FS_Subset
  <2>3. ASSUME NEW e \in p.edges
        PROVE  e \in Edge /\ e.to \in active /\ e.from \in active \cup completed
    <3>1. e \in PlanEdge /\ e.to \in active /\ T[e.from].state # "cancelled"
      BY <1>1, <1>2, <2>1 DEF Scheduling
    <3>2. e.from \in DOMAIN T /\ e.to \in DOMAIN T
      BY <2>1 DEF Consistent
    <3>3. T[e.from].state \in {"open", "completed", "cancelled"}
      BY <1>2, <3>2 DEF PlanTask
    <3>4. e.from \in active \cup completed
      BY <1>3, <3>1, <3>2, <3>3
    <3>5. e \in Edge
      BY <1>2, <3>1, <3>2 DEF PlanEdge, Edge
    <3> QED
      BY <3>1, <3>4, <3>5
  <2> QED
    BY <2>2, <2>3
<1>10. Acyclic(p.edges, active)
  <2>1. SUFFICES ASSUME NEW S \in SUBSET active, S # {}
                 PROVE  \E t \in S : \A e \in p.edges : e.to = t => e.from \notin S
    BY DEF Acyclic
  <2> DEFINE g == GraphOf(plan.tasks, plan.edges)
  <2>2. g.nodes = DOMAIN T /\ g.pairs = {Pair(d) : d \in plan.edges}
    BY DEF GraphOf
  <2>3. S \in SUBSET g.nodes
    BY <1>3, <2>2
  <2>4. PICK t \in S : Predecessors(g, t) \cap S = {}
    BY <2>1, <2>3 DEF WithoutCycle
  <2>5. ASSUME NEW e \in p.edges, e.to = t, e.from \in S PROVE FALSE
    <3>1. e \in plan.edges
      BY <1>1 DEF Scheduling
    <3>2. Pair(e) = <<e.from, t>> /\ Pair(e) \in g.pairs
      BY <2>2, <2>5, <3>1 DEF Pair
    <3>3. e.from \in Predecessors(g, t)
      BY <2>3, <2>5, <3>2 DEF Predecessors
    <3> QED
      BY <2>4, <2>5, <3>3
  <2> QED
    BY <2>5
<1>11. /\ \A g \in groups : p.capacity[g] \in Nat /\ p.capacity[g] > 0
       /\ p.capacity = [g \in groups |-> p.capacity[g]] /\ DOMAIN p.capacity = groups
  <2>1. \A g \in groups : plan.teams[g].capacity \in Nat
    BY <1>2 DEF PlanTeam
  <2> QED
    BY <1>1, <1>2, <2>1
<1>12. p.days \in [active -> Nat]
  <2> HIDE DEF active
  <2> QED
    BY <1>1, <1>4
<1> HIDE DEF active, groups, completed
<1>13. PreparedSchedule(p)
  BY <1>2, <1>6, <1>7, <1>8, <1>9, <1>10, <1>11, <1>12 DEF PreparedSchedule
<1> QED
  BY <1>13 DEF p

(* A plan that _validate_plan has let pass.                                *)
Validated(plan) ==
    /\ Schedulable(plan, snap.asOf) /\ Consistent(plan)
    /\ WithoutCycle(GraphOf(plan.tasks, plan.edges))

(* The order of a plan's tasks is being searched for.                      *)
Ordering(plan) ==
    /\ Schedulable(plan, snap.asOf) /\ Consistent(plan)
    /\ OrderInv /\ graph = GraphOf(plan.tasks, plan.edges)

(* The phases in which both plans have been validated.                     *)
PlannedPhases == {"planned", "baseline", "scenario", "done"}

(* What is known of the plans in every phase.                              *)
PlansInv ==
    /\ request \in Request /\ phase \in Phases
    /\ \/ at = 0 /\ phase \in {"received", "searching", "refused"}
       \/ CompileInv
    /\ phase = "searching" => SnapshotConsistent(snap) /\ SearchInv
    /\ phase = "validating" => at = 1 /\ primary = baseline /\ Ordering(baseline)
    /\ phase \in {"compiling", "revalidating"} =>
          ops # <<>> /\ Validated(baseline) /\ Schedulable(primary, snap.asOf)
    /\ phase = "revalidating" => Compiled /\ Ordering(primary)
    /\ phase \in PlannedPhases =>
          /\ Validated(baseline) /\ Validated(primary) /\ primary.target \in Int
          /\ ops = <<>> => primary = baseline
          /\ ops # <<>> => Compiled
    /\ phase = "scenario" => ops # <<>>

(* The invariant of the plans holds when a request is received.            *)
LEMMA PlansInit == SimInit => PlansInv
<1> SUFFICES ASSUME SimInit PROVE PlansInv
  OBVIOUS
<1>1. request \in Request /\ phase = "received" /\ at = 0
  BY DEF SimInit
<1> QED
  BY <1>1 DEF PlansInv, Phases, PlannedPhases

(* Steps that compile nothing keep what is known of the compilation.       *)
LEMMA CompileSame == CompileInv /\ UNCHANGED compileVars => CompileInv'
  BY DEF compileVars, CompileInv, snap, ops, Done, WellFormed

(* A compilation begins with its invariant.                                *)
LEMMA CompileBegins == request \in Request /\ BeginCompile => CompileInv'
<1> DEFINE Begun ==
        /\ WellFormed(request) /\ baseline = Baseline(snap) /\ primary = Baseline(snap) /\ at = 1
<1>1. Begun => CompileInv
  BY Beginning
<1>2. Begun' => CompileInv'
  BY <1>1, PTL
<1>3. request \in Request /\ BeginCompile => Begun'
  <2>1. request \in Request => WellFormed(request)
    BY RequestFacts
  <2> QED
    BY <2>1 DEF BeginCompile, snap
<1> QED
  BY <1>2, <1>3

(* The target of a scenario is no matter of its interventions.             *)
LEMMA TargetChanges ==
    ASSUME CompileInv, NEW x, primary' = [primary EXCEPT !.target = x],
           UNCHANGED <<request, baseline, at>>
    PROVE  /\ CompileInv'
           /\ primary'.tasks = primary.tasks /\ primary'.edges = primary.edges
           /\ primary'.teams = primary.teams /\ primary'.target = x
<1>1. primary = [tasks |-> primary.tasks, edges |-> primary.edges, teams |-> primary.teams,
                 target |-> primary.target]
  BY DEF CompileInv, ExecutionPlan
<1>2. primary' = [tasks |-> primary.tasks, edges |-> primary.edges, teams |-> primary.teams,
                  target |-> x]
  <2> DEFINE a == primary.tasks
             b == primary.edges
             c == primary.teams
             d == primary.target
  <2>1. primary = [tasks |-> a, edges |-> b, teams |-> c, target |-> d]
    BY <1>1
  <2> HIDE DEF a, b, c, d
  <2>2. primary' = [[tasks |-> a, edges |-> b, teams |-> c, target |-> d] EXCEPT !.target = x]
    BY <2>1
  <2>3. primary' = [tasks |-> a, edges |-> b, teams |-> c, target |-> x]
    BY <2>2
  <2> QED
    BY <2>3 DEF a, b, c
<1>3. /\ primary'.tasks = primary.tasks /\ primary'.edges = primary.edges
      /\ primary'.teams = primary.teams /\ primary'.target = x
      /\ primary' = [tasks |-> primary'.tasks, edges |-> primary'.edges,
                     teams |-> primary'.teams, target |-> primary'.target]
  BY <1>2
<1>4. Done' = Done /\ snap' = snap /\ ops' = ops
  BY DEF Done, snap, ops
<1>5. ExecutionPlan(primary')
  BY <1>3 DEF CompileInv, ExecutionPlan
<1> QED
  BY <1>3, <1>4, <1>5 DEF CompileInv

(* Snapshot, interventions and calendar are the request's.                 *)
LEMMA SameSnap ==
    request' = request => snap' = snap /\ ops' = ops /\ cal' = cal
  BY DEF snap, ops, cal

(* A request is refused in any phase.                                      *)
LEMMA RefuseKeeps == PlansInv /\ Refuse => PlansInv'
<1> SUFFICES ASSUME PlansInv, Refuse PROVE PlansInv'
  OBVIOUS
<1>1. phase' = "refused" /\ UNCHANGED compileVars
  BY DEF Refuse
<1>2. request' = request /\ at' = at
  BY <1>1 DEF compileVars
<1>3. at' = 0 \/ CompileInv'
  BY <1>1, <1>2, CompileSame DEF PlansInv
<1>4. request' \in Request
  BY <1>2 DEF PlansInv
<1> QED
  BY <1>1, <1>3, <1>4 DEF PlansInv, Phases, PlannedPhases

(* One lemma for each step on the plans.                                   *)
LEMMA ReceiveStep == PlansInv /\ Receive => PlansInv'
<1> SUFFICES ASSUME PlansInv, Receive PROVE PlansInv'
  OBVIOUS
<1>1. CASE SnapshotConsistent(snap)
  <2>1. /\ BeginSearch(GraphOf(snap.tasks, snap.deps)) /\ phase' = "searching" /\ request' = request
        /\ UNCHANGED compileVars /\ at' = at
    BY <1>1 DEF Receive, compileVars
  <2>2. request \in Request
    BY DEF PlansInv
  <2>3. IsGraph(GraphOf(snap.tasks, snap.deps))
    <3>1. \A d \in snap.deps : d.from \in DOMAIN snap.tasks /\ d.to \in DOMAIN snap.tasks
      BY <1>1 DEF SnapshotConsistent
    <3>2. DOMAIN snap.tasks \subseteq Task
      BY <2>2, RequestFacts
    <3> QED
      BY <3>1, <3>2, GraphOfTasks
  <2>4. SearchInv'
    BY <2>1, <2>3, SearchBegins
  <2>5. at' = 0 \/ CompileInv'
    BY <2>1, CompileSame DEF PlansInv
  <2>6. SnapshotConsistent(snap)' /\ request' \in Request
    BY <1>1, <2>1, <2>2, SameSnap DEF SnapshotConsistent
  <2> QED
    BY <2>1, <2>4, <2>5, <2>6 DEF PlansInv, Phases, PlannedPhases
<1>2. CASE ~SnapshotConsistent(snap)
  BY <1>2, RefuseKeeps DEF Receive
<1> QED
  BY <1>1, <1>2

(* A turn of the search.                                                   *)
LEMMA SearchNextStep == PlansInv /\ SearchNext => PlansInv'
<1> SUFFICES ASSUME PlansInv, SearchNext PROVE PlansInv'
  OBVIOUS
<1>1. /\ phase = "searching" /\ phase' = phase /\ Search /\ UNCHANGED compileVars
      /\ request' = request /\ at' = at
  BY DEF SearchNext, compileVars
<1>2. SearchInv'
  BY <1>1, SearchStep DEF PlansInv
<1>3. at' = 0 \/ CompileInv'
  BY <1>1, CompileSame DEF PlansInv
<1>4. SnapshotConsistent(snap)' /\ request' \in Request
  BY <1>1, SameSnap DEF PlansInv, SnapshotConsistent
<1> QED
  BY <1>1, <1>2, <1>3, <1>4 DEF PlansInv, Phases, PlannedPhases

(* The search for the order of a plan begins.                              *)
LEMMA OrderingBegins ==
    ASSUME NEW plan, NEW asOf, Schedulable(plan, asOf), Consistent(plan),
           BeginOrder(GraphOf(plan.tasks, plan.edges))
    PROVE  OrderInv' /\ graph' = GraphOf(plan.tasks, plan.edges)
<1>1. \A e \in plan.edges : e.from \in DOMAIN plan.tasks /\ e.to \in DOMAIN plan.tasks
  BY DEF Consistent
<1>2. DOMAIN plan.tasks \subseteq Task
  BY DEF Schedulable
<1>3. IsGraph(GraphOf(plan.tasks, plan.edges))
  BY <1>1, <1>2, GraphOfTasks
<1> QED
  BY <1>3, OrderBegins

(* The search ends: the baseline is compiled.                              *)
LEMMA EndSearchStep == PlansInv /\ EndSearch => PlansInv'
<1> SUFFICES ASSUME PlansInv, EndSearch PROVE PlansInv'
  OBVIOUS
<1>1. CASE best = <<>> /\ Consistent(Baseline(snap))
  <2>1. /\ BeginCompile /\ phase = "searching" /\ phase' = "validating"
        /\ BeginOrder(GraphOf(Baseline(snap).tasks, Baseline(snap).edges))
    BY <1>1 DEF EndSearch
  <2>2. /\ baseline' = Baseline(snap) /\ primary' = Baseline(snap) /\ at' = 1 /\ request' = request
    BY <2>1 DEF BeginCompile
  <2>3. request \in Request /\ SnapshotConsistent(snap)
    BY <2>1 DEF PlansInv
  <2>4. Schedulable(Baseline(snap), snap.asOf)
    BY <2>3, SchedulableBegins
  <2>5. OrderInv' /\ graph' = GraphOf(Baseline(snap).tasks, Baseline(snap).edges)
    BY <1>1, <2>1, <2>4, OrderingBegins
  <2>6. snap' = snap
    BY <2>2, SameSnap
  <2>7. Ordering(baseline)'
    BY <1>1, <2>2, <2>4, <2>5, <2>6 DEF Ordering
  <2>8. CompileInv'
    BY <2>1, <2>3, CompileBegins
  <2> QED
    BY <2>1, <2>2, <2>3, <2>7, <2>8 DEF PlansInv, Phases, PlannedPhases
<1>2. CASE ~(best = <<>> /\ Consistent(Baseline(snap)))
  BY <1>2, RefuseKeeps DEF EndSearch
<1> QED
  BY <1>1, <1>2

(* A turn of the order.                                                    *)
LEMMA OrderNextStep == PlansInv /\ OrderNext => PlansInv'
<1> SUFFICES ASSUME PlansInv, OrderNext PROVE PlansInv'
  OBVIOUS
<1>1. /\ phase \in {"validating", "revalidating"} /\ phase' = phase /\ Visit
      /\ UNCHANGED compileVars /\ graph' = graph
      /\ request' = request /\ at' = at /\ baseline' = baseline /\ primary' = primary
  BY DEF OrderNext, compileVars, Visit
<1>2. OrderInv /\ CompileInv
  BY <1>1 DEF PlansInv, Ordering
<1>3. OrderInv' /\ CompileInv'
  BY <1>1, <1>2, VisitStep, CompileSame
<1>4. snap' = snap /\ ops' = ops /\ Compiled' = Compiled /\ request' \in Request
  BY <1>1, SameSnap DEF PlansInv, Compiled
<1>5. phase = "validating" => Ordering(baseline)'
  BY <1>1, <1>3, <1>4 DEF PlansInv, Ordering
<1>6. phase = "revalidating" => /\ Ordering(primary)' /\ Validated(baseline)'
                                /\ Schedulable(primary, snap.asOf)'
  BY <1>1, <1>3, <1>4 DEF PlansInv, Ordering, Validated
<1> QED
  BY <1>1, <1>3, <1>4, <1>5, <1>6 DEF PlansInv, Phases, PlannedPhases

(* A plan all of whose tasks were ordered has no cycle.                    *)
LEMMA OrderingEnds ==
    ASSUME NEW plan, Ordering(plan), Visited, Ordered
    PROVE  Validated(plan)
  BY OrderedFollows DEF Ordering, Validated

(* The baseline is validated.                                              *)
LEMMA EndValidateStep == PlansInv /\ EndValidate => PlansInv'
<1> SUFFICES ASSUME PlansInv, EndValidate PROVE PlansInv'
  OBVIOUS
<1>1. CASE Ordered
  <2>1. /\ phase = "validating" /\ phase' = (IF ops = <<>> THEN "planned" ELSE "compiling")
        /\ Visited /\ UNCHANGED compileVars
        /\ request' = request /\ at' = at /\ baseline' = baseline /\ primary' = primary
    BY <1>1 DEF EndValidate, compileVars
  <2>2. Ordering(baseline) /\ primary = baseline /\ CompileInv /\ request \in Request
    BY <2>1 DEF PlansInv
  <2>3. Validated(baseline)
    BY <1>1, <2>1, <2>2, OrderingEnds
  <2>4. snap' = snap /\ ops' = ops /\ CompileInv'
    BY <2>1, <2>2, SameSnap, CompileSame
  <2>5. Validated(baseline)' /\ Validated(primary)' /\ Schedulable(primary, snap.asOf)'
    BY <2>1, <2>2, <2>3, <2>4 DEF Validated
  <2>6. primary'.target \in Int
    <3>1. baseline = Baseline(snap)
      BY <2>2 DEF CompileInv
    <3>2. baseline.target = snap.target
      BY <3>1 DEF Baseline
    <3> QED
      BY <2>1, <2>2, <3>2, RequestFacts
  <2> QED
    BY <2>1, <2>2, <2>4, <2>5, <2>6 DEF PlansInv, Phases, PlannedPhases
<1>2. CASE ~Ordered
  BY <1>2, RefuseKeeps DEF EndValidate
<1> QED
  BY <1>1, <1>2

(* An intervention is applied.                                             *)
LEMMA InterveneStep == PlansInv /\ InterveneNext => PlansInv'
<1> SUFFICES ASSUME PlansInv, InterveneNext PROVE PlansInv'
  OBVIOUS
<1>1. /\ phase = "compiling" /\ phase' = phase /\ Intervene
      /\ request' = request /\ baseline' = baseline /\ primary' = Applied(primary, ops[at])
      /\ Applicable(primary, snap.asOf, ops[at]) /\ at <= Len(ops)
  BY DEF InterveneNext, Intervene, MayIntervene
<1>2. /\ CompileInv /\ Schedulable(primary, snap.asOf) /\ Validated(baseline) /\ ops # <<>>
      /\ request \in Request
  BY <1>1 DEF PlansInv
<1>3. CompileInv'
  BY <1>1, <1>2, Intervening
<1>4. snap' = snap /\ ops' = ops
  BY <1>1, SameSnap
<1>5. ops[at] \in Intervention
  <2>1. ops \in Seq(Intervention)
    BY <1>2, RequestFacts
  <2>2. at \in 1..(Len(ops) + 1)
    BY <1>2 DEF CompileInv
  <2> QED
    BY <1>1, <2>1, <2>2
<1>6. ExecutionPlan(primary')
  BY <1>3 DEF CompileInv
<1>7. Schedulable(primary', snap.asOf)
  BY <1>1, <1>2, <1>5, <1>6, SchedulableKept
<1>8. Validated(baseline)' /\ Schedulable(primary, snap.asOf)'
  BY <1>1, <1>2, <1>4, <1>7 DEF Validated
<1> QED
  BY <1>1, <1>2, <1>3, <1>4, <1>8 DEF PlansInv, Phases, PlannedPhases

(* All interventions have been applied.                                    *)
LEMMA EndCompileStep == PlansInv /\ EndCompile => PlansInv'
<1> SUFFICES ASSUME PlansInv, EndCompile PROVE PlansInv'
  OBVIOUS
<1>1. /\ phase = "compiling" /\ phase' = "revalidating" /\ Compiled /\ Consistent(primary)
      /\ BeginOrder(GraphOf(primary.tasks, primary.edges)) /\ UNCHANGED compileVars
      /\ request' = request /\ at' = at /\ baseline' = baseline /\ primary' = primary
  BY DEF EndCompile, compileVars
<1>2. /\ CompileInv /\ Schedulable(primary, snap.asOf) /\ Validated(baseline) /\ ops # <<>>
      /\ request \in Request
  BY <1>1 DEF PlansInv
<1>3. OrderInv' /\ graph' = GraphOf(primary.tasks, primary.edges)
  BY <1>1, <1>2, OrderingBegins
<1>4. snap' = snap /\ ops' = ops /\ CompileInv' /\ Compiled'
  BY <1>1, <1>2, SameSnap, CompileSame DEF Compiled
<1>5. Validated(baseline)' /\ Schedulable(primary, snap.asOf)' /\ Ordering(primary)'
  BY <1>1, <1>2, <1>3, <1>4 DEF Validated, Ordering
<1> QED
  BY <1>1, <1>2, <1>4, <1>5 DEF PlansInv, Phases, PlannedPhases

(* The scenario's plan is validated.                                       *)
LEMMA EndRevalidateStep == PlansInv /\ EndRevalidate => PlansInv'
<1> SUFFICES ASSUME PlansInv, EndRevalidate PROVE PlansInv'
  OBVIOUS
<1>1. CASE Ordered
  <2>1. /\ phase = "revalidating" /\ phase' = "planned" /\ Visited
        /\ primary' = [primary EXCEPT !.target = request.scenario.target]
        /\ request' = request /\ at' = at /\ baseline' = baseline
    BY <1>1 DEF EndRevalidate
  <2>2. /\ CompileInv /\ Ordering(primary) /\ Validated(baseline) /\ ops # <<>> /\ Compiled
        /\ request \in Request
    BY <2>1 DEF PlansInv
  <2>3. /\ CompileInv'
        /\ primary'.tasks = primary.tasks /\ primary'.edges = primary.edges
        /\ primary'.teams = primary.teams /\ primary'.target = request.scenario.target
    BY <2>1, <2>2, TargetChanges
  <2>4. Validated(primary)
    BY <1>1, <2>1, <2>2, OrderingEnds
  <2>5. snap' = snap /\ ops' = ops /\ Compiled'
    BY <2>1, <2>2, SameSnap DEF Compiled
  <2>6. ExecutionPlan(primary')
    BY <2>3 DEF CompileInv
  <2>7. Validated(primary)'
    BY <2>3, <2>4, <2>5, <2>6 DEF Validated, Schedulable, Consistent
  <2>8. Validated(baseline)' /\ primary'.target \in Int
    BY <2>1, <2>2, <2>3, <2>5, RequestFacts DEF Validated
  <2> QED
    BY <2>1, <2>2, <2>3, <2>5, <2>7, <2>8 DEF PlansInv, Phases, PlannedPhases
<1>2. CASE ~Ordered
  BY <1>2, RefuseKeeps DEF EndRevalidate
<1> QED
  BY <1>1, <1>2

(* Scheduling leaves the plans alone.                                      *)
LEMMA PlannedStep ==
    ASSUME PlansInv, phase \in PlannedPhases, phase' \in PlannedPhases, UNCHANGED compileVars,
           phase' = "scenario" => ops # <<>>
    PROVE  PlansInv'
<1>1. request' = request /\ at' = at /\ baseline' = baseline /\ primary' = primary
  BY DEF compileVars
<1>2. CompileInv /\ Validated(baseline) /\ Validated(primary) /\ primary.target \in Int
      /\ (ops = <<>> => primary = baseline) /\ (ops # <<>> => Compiled) /\ request \in Request
  BY DEF PlansInv, PlannedPhases
<1>3. snap' = snap /\ ops' = ops /\ CompileInv' /\ Compiled' = Compiled
  BY <1>1, <1>2, SameSnap, CompileSame DEF Compiled
<1>4. Validated(baseline)' /\ Validated(primary)'
  BY <1>1, <1>2, <1>3 DEF Validated
<1>5. phase' \in Phases
  BY DEF Phases, PlannedPhases
<1>6. phase' \notin {"searching", "validating", "compiling", "revalidating"}
  BY DEF PlannedPhases
<1> QED
  BY <1>1, <1>2, <1>3, <1>4, <1>5, <1>6 DEF PlansInv

(* Every step keeps the invariant of the plans.                            *)
LEMMA PlansStep == PlansInv /\ [SimNext]_simVars => PlansInv'
<1> SUFFICES ASSUME PlansInv, [SimNext]_simVars PROVE PlansInv'
  OBVIOUS
<1>1. CASE Receive \/ SearchNext \/ EndSearch \/ OrderNext \/ EndValidate
  BY <1>1, ReceiveStep, SearchNextStep, EndSearchStep, OrderNextStep, EndValidateStep
<1>2. CASE InterveneNext \/ EndCompile \/ RefuseScenario \/ EndRevalidate
  BY <1>2, InterveneStep, EndCompileStep, EndRevalidateStep, RefuseKeeps DEF RefuseScenario
<1>3. CASE Sample
  BY <1>3, PlannedStep DEF Sample, PlannedPhases
<1>4. CASE PlaceNext
  <2>1. phase \in PlannedPhases /\ phase' = phase /\ UNCHANGED compileVars
    BY <1>4 DEF PlaceNext, PlannedPhases
  <2>2. phase' = "scenario" => ops # <<>>
    BY <2>1 DEF PlansInv
  <2> QED
    BY <2>1, <2>2, PlannedStep
<1>5. CASE EndBaseline
  BY <1>5, PlannedStep DEF EndBaseline, PlannedPhases
<1>6. CASE EndScenario
  BY <1>6, PlannedStep DEF EndScenario, PlannedPhases
<1>7. CASE UNCHANGED simVars
  <2>1. /\ UNCHANGED compileVars /\ phase' = phase /\ UNCHANGED graphVars
        /\ request' = request /\ at' = at /\ baseline' = baseline /\ primary' = primary
        /\ graph' = graph
    BY <1>7 DEF simVars, compileVars, graphVars
  <2>2. snap' = snap /\ ops' = ops /\ Compiled' = Compiled
    BY <2>1, SameSnap DEF Compiled
  <2>3. CompileInv => CompileInv'
    BY <2>1, CompileSame
  <2>4. SearchInv => SearchInv'
    <3>1. /\ graph' = graph /\ origins' = origins /\ origin' = origin /\ queue' = queue
          /\ depth' = depth /\ best' = best
      BY <2>1 DEF graphVars, searchVars
    <3>2. Graph => Graph'
      BY <3>1 DEF Graph
    <3>3. QueueInv => QueueInv'
      BY <3>1 DEF QueueInv, PathFrom, Walk
    <3>4. BestInv => BestInv'
      BY <3>1 DEF BestInv, Walk
    <3>5. DepthInv => DepthInv'
      BY <3>1 DEF DepthInv
    <3>6. Frontier(queue, depth, best, origin) => Frontier(queue, depth, best, origin)'
      BY <3>1 DEF Frontier, Met, Successors
    <3>7. \A s : Covered(best, s) => Covered(best, s)'
      BY <3>1 DEF Covered, ClosedWalks
    <3> QED
      BY <3>1, <3>2, <3>3, <3>4, <3>5, <3>6, <3>7 DEF SearchInv
  <2>5. OrderInv => OrderInv'
    BY <2>1 DEF graphVars, orderVars, OrderInv, Graph, Popped
  <2>7. (Ordering(baseline) => Ordering(baseline)') /\ (Ordering(primary) => Ordering(primary)')
    BY <2>1, <2>2, <2>5 DEF Ordering
  <2>8. /\ Validated(baseline) => Validated(baseline)'
        /\ Validated(primary) => Validated(primary)'
        /\ Schedulable(primary, snap.asOf)' <=> Schedulable(primary, snap.asOf)
        /\ SnapshotConsistent(snap)' <=> SnapshotConsistent(snap)
    BY <2>1, <2>2 DEF Validated
  <2> QED
    BY <2>1, <2>2, <2>3, <2>4, <2>7, <2>8 DEF PlansInv
<1> QED
  BY <1>1, <1>2, <1>3, <1>4, <1>5, <1>6, <1>7 DEF SimNext

(* Completed tasks keep the finish they were prepared with.                *)
DoneKept == \A t \in DOMAIN prep.done : finish[t] = prep.done[t]

(* Starts and finishes are instants that a calendar can give.              *)
InCalendar ==
    \A t \in Placed : OfSchedule(cal, Base, start[t]) /\ OfSchedule(cal, Base, finish[t])

(* The project finishes with the last of its tasks.                        *)
LEMMA LastFinish ==
    ASSUME ScheduleTypeOK
    PROVE  /\ ProjectFinish \in Instant
           /\ \A t \in Placed : NotLater(finish[t], ProjectFinish)
           /\ \/ Placed = {} /\ ProjectFinish = Zero
              \/ \E t \in Placed : ProjectFinish = finish[t]
<1>1. Placed \subseteq Task /\ \A t \in Placed : finish[t] \in Instant
  BY DEF ScheduleTypeOK, PreparedSchedule, Active
<1>2. IsFiniteSet(Placed) /\ \A t \in Placed : t \in Nat
  BY <1>1, ScheduleAssumption, FS_Subset
<1> DEFINE S == Placed
           Before(t, u) == Later(finish[t], finish[u]) \/ (finish[t] = finish[u] /\ u <= t)
           R == {p \in S \X S : Before(p[1], p[2])}
<1>3. CASE Placed = {}
  BY <1>3, InstantOrder DEF ProjectFinish
<1>4. CASE Placed # {}
  <2>1. \A t, u \in S : <<t, u>> \in R <=> Before(t, u)
    OBVIOUS
  <2>2. \A t, u \in S : Before(t, u) \/ Before(u, t)
    <3> SUFFICES ASSUME NEW t \in S, NEW u \in S PROVE Before(t, u) \/ Before(u, t)
      OBVIOUS
    <3>1. finish[t] \in Instant /\ finish[u] \in Instant /\ t \in Nat /\ u \in Nat
      BY <1>1, <1>2
    <3> QED
      BY <3>1 DEF Instant, Later
  <2>3. \A t, u, v \in S : Before(t, u) /\ Before(u, v) => Before(t, v)
    <3> SUFFICES ASSUME NEW t \in S, NEW u \in S, NEW v \in S, Before(t, u), Before(u, v)
                 PROVE  Before(t, v)
      OBVIOUS
    <3>1. /\ finish[t] \in Instant /\ finish[u] \in Instant /\ finish[v] \in Instant
          /\ t \in Nat /\ u \in Nat /\ v \in Nat
      BY <1>1, <1>2
    <3> QED
      BY <3>1 DEF Instant, Later
  <2>4. \A t, u \in S : Before(t, u) => NotLater(finish[u], finish[t])
    <3> SUFFICES ASSUME NEW t \in S, NEW u \in S, Before(t, u)
                 PROVE  NotLater(finish[u], finish[t])
      OBVIOUS
    <3>1. finish[t] \in Instant /\ finish[u] \in Instant
      BY <1>1
    <3> QED
      BY <3>1 DEF Instant, Later, NotLater
  <2>5. ProjectTask = CHOOSE t \in S : \A u \in S : Before(t, u)
    BY DEF ProjectTask
  <2>6. S # {} /\ IsFiniteSet(S)
    BY <1>2, <1>4
  <2> HIDE DEF R, Before, S
  <2>7. \E t \in S : \A u \in S : <<t, u>> \in R
    BY <2>1, <2>2, <2>3, <2>6, LeastExists
  <2>8. \E t \in S : \A u \in S : Before(t, u)
    BY <2>1, <2>7
  <2>9. ProjectTask \in S /\ \A u \in S : Before(ProjectTask, u)
    BY <2>5, <2>8
  <2>10. ProjectFinish = finish[ProjectTask]
    BY <1>4 DEF ProjectFinish
  <2>11. ProjectTask \in Placed /\ \A u \in Placed : NotLater(finish[u], finish[ProjectTask])
    BY <2>4, <2>9 DEF S
  <2> QED
    BY <1>1, <2>10, <2>11
<1> QED
  BY <1>3, <1>4

(* Releases lie in the run, finishes of completed tasks before it.         *)
LEMMA PreparedInCalendar ==
    ASSUME request \in Request, NEW plan, Schedulable(plan, snap.asOf), NEW samples
    PROVE  LET p == Prepared(plan, samples)
           IN  /\ \A t \in DOMAIN p.team : OfSchedule(cal, Base, p.release[t])
               /\ DOMAIN p.team = Open(plan)
               /\ DOMAIN p.done = {u \in DOMAIN plan.tasks : plan.tasks[u].state = "completed"}
               /\ \A t \in DOMAIN p.done :
                     LET f == plan.tasks[t].finish
                     IN  /\ f \in Int /\ f <= Base
                         /\ p.done[t] = [work |-> -Until(cal, Base)[Normalize(cal, f)], phase |-> 0]
                         /\ Until(cal, Base)[Normalize(cal, f)] \in Nat
<1> DEFINE p == Prepared(plan, samples)
           T == plan.tasks
           active == Open(plan)
           completed == {u \in DOMAIN T : T[u].state = "completed"}
<1>1. /\ p.team = [t \in active |-> T[t].team]
      /\ p.release = [t \in active |->
             Encode(cal, Base, Normalize(cal, LastOf(Constraints(T[t]))), TRUE)]
      /\ p.done = [t \in completed |-> Encode(cal, Base, T[t].finish, FALSE)]
  BY DEF Prepared
<1> HIDE DEF p
<1>2. /\ cal \in Calendar /\ Base \in Int /\ InShift(cal, Base)
      /\ snap.asOf <= Base /\ snap.asOf \in Nat
  BY BaseFacts
<1>3. \A t \in DOMAIN T : T[t] \in PlanTask
  BY DEF Schedulable, ExecutionPlan
<1>4. ASSUME NEW t \in active
      PROVE  OfSchedule(cal, Base,
                        Encode(cal, Base, Normalize(cal, LastOf(Constraints(T[t]))), TRUE))
  <2>1. T[t] \in PlanTask
    BY <1>3 DEF Open
  <2>2. LET x == Normalize(cal, LastOf(Constraints(T[t])))
        IN  x \in Int /\ Base <= x /\ InShift(cal, x)
    BY <2>1, ReleaseFacts
  <2> QED
    BY <1>2, <2>2, EncodeOfSchedule
<1>5. \A t \in active : OfSchedule(cal, Base, p.release[t])
  <2> HIDE DEF active
  <2> QED
    BY <1>1, <1>4
<1>6. ASSUME NEW t \in completed
      PROVE  /\ T[t].finish \in Int /\ T[t].finish <= Base
             /\ p.done[t] =
                    [work |-> -Until(cal, Base)[Normalize(cal, T[t].finish)], phase |-> 0]
             /\ Until(cal, Base)[Normalize(cal, T[t].finish)] \in Nat
  <2>1. T[t].finish \in Int /\ T[t].finish <= snap.asOf
    BY <1>3 DEF Schedulable, PlanTask
  <2>2. T[t].finish <= Base
    BY <1>2, <2>1
  <2>3. p.done[t] = Encode(cal, Base, T[t].finish, FALSE)
    BY <1>1
  <2>4. FALSE \in BOOLEAN
    OBVIOUS
  <2> DEFINE x == T[t].finish
  <2>5. x \in Int /\ x <= Base
    BY <2>1, <2>2
  <2> HIDE DEF x
  <2>6. Encode(cal, Base, x, FALSE) = [work |-> -Until(cal, Base)[Normalize(cal, x)], phase |-> 0]
        /\ Until(cal, Base)[Normalize(cal, x)] \in Nat
    BY <1>2, <2>4, <2>5, EncodeEarly
  <2> QED
    BY <2>1, <2>2, <2>3, <2>6 DEF x
<1>7. DOMAIN p.team = active /\ DOMAIN p.done = completed
  BY <1>1
<1> QED
  BY <1>5, <1>6, <1>7 DEF p

(* Where a task can start, among the instants it waits for.                *)
LEMMA WaitsInCalendar ==
    ASSUME request \in Request, NEW plan, Schedulable(plan, snap.asOf), NEW samples,
           prep = Prepared(plan, samples),
           ScheduleTypeOK, SlotsFollow, DoneKept, InCalendar,
           NEW t \in Active, Enabled(t)
    PROVE  OfSchedule(cal, Base, StartOf(t))
<1>1. /\ cal \in Calendar /\ Base \in Int /\ InShift(cal, Base)
  BY BaseFacts
<1> DEFINE b == Base
<1>2. /\ \A u \in Active : OfSchedule(cal, b, prep.release[u])
      /\ \A u \in DOMAIN prep.done : prep.done[u].phase = 0
  <2>1. \A u \in Active : OfSchedule(cal, Base, prep.release[u])
    BY PreparedInCalendar DEF Active
  <2>2. ASSUME NEW u \in DOMAIN prep.done PROVE prep.done[u].phase = 0
    <3> DEFINE w == -Until(cal, Base)[Normalize(cal, plan.tasks[u].finish)]
    <3>1. prep.done[u] = [work |-> w, phase |-> 0]
      BY PreparedInCalendar
    <3> HIDE DEF w
    <3> QED
      BY <3>1
  <2> QED
    BY <2>1, <2>2
<1>3. /\ StartOf(t) \in {prep.release[t], FreeSlot(t).free} \cup DependencyReady(t)
      /\ StartOf(t) \in Instant /\ prep.team[t] \in DOMAIN prep.capacity
      /\ NotLater(prep.release[t], StartOf(t))
  BY LatestHolds DEF StartIsLatest
<1>4. NotLater(Zero, StartOf(t))
  <2>1. prep.release[t] \in Instant /\ NotLater(Zero, prep.release[t])
    BY DEF ScheduleTypeOK, PreparedSchedule, Active
  <2> QED
    BY <1>3, <2>1, InstantOrder
<1> HIDE DEF b
<1>5. CASE StartOf(t) = prep.release[t]
  BY <1>2, <1>5 DEF b
<1>6. CASE StartOf(t) = FreeSlot(t).free
  <2>1. SlotOf(prep.team[t]) \in 1..prep.capacity[prep.team[t]]
    BY <1>3, SlotIsFirst
  <2>2. /\ FreeSlot(t).after = NoTask => FreeSlot(t).free = Zero
        /\ FreeSlot(t).after # NoTask => /\ FreeSlot(t).after \in Placed
                                         /\ finish[FreeSlot(t).after] = FreeSlot(t).free
    BY <1>3, <2>1 DEF SlotsFollow, FreeSlot
  <2>3. OfSchedule(cal, b, Zero)
    BY DEF OfSchedule, Zero, Instant
  <2> QED
    BY <1>6, <2>2, <2>3 DEF InCalendar, b
<1>7. CASE StartOf(t) \in DependencyReady(t)
  <2>1. PICK e \in Into(t) : StartOf(t) = Advance(finish[e.from], e.lag)
    BY <1>7 DEF DependencyReady
  <2>2. e.from \in Placed \cup DOMAIN prep.done /\ e.lag \in Nat
    BY DEF Enabled, ScheduleTypeOK, PreparedSchedule, Into, Edge
  <2>3. CASE e.from \in Placed
    BY <2>1, <2>2, <2>3, AdvanceOfSchedule DEF InCalendar
  <2>4. CASE e.from \in DOMAIN prep.done
    <3>1. finish[e.from].phase = 0
      BY <1>2, <2>4 DEF DoneKept
    <3>2. StartOf(t).phase = 0
      BY <2>1, <2>2, <3>1 DEF Advance
    <3>3. StartOf(t).work >= 0
      BY <1>3, <1>4, <3>2 DEF NotLater, Later, Zero, Instant
    <3> QED
      BY <1>3, <3>2, <3>3 DEF OfSchedule
  <2> QED
    BY <2>2, <2>3, <2>4
<1> QED
  BY <1>3, <1>5, <1>6, <1>7

(* So they stay when a task is placed,                                     *)
LEMMA PlaceInCalendar ==
    ASSUME request \in Request, NEW plan, Schedulable(plan, snap.asOf), NEW samples,
           prep = Prepared(plan, samples),
           ScheduleTypeOK, SlotsFollow, DoneKept, InCalendar, Next,
           request' = request
    PROVE  InCalendar'
<1>1. PICK t \in Task : Place(t)
  BY DEF Next
<1>2. /\ t \in Active /\ Enabled(t) /\ prep.days[t] \in Nat
  BY <1>1, PlaceFacts DEF ScheduleTypeOK, PreparedSchedule, Active
<1> DEFINE s == StartOf(t)
           end == Advance(s, prep.days[t])
<1>3. /\ start' = [u \in Placed \cup {t} |-> IF u = t THEN s ELSE start[u]]
      /\ finish' = [u \in DOMAIN finish \cup {t} |-> IF u = t THEN end ELSE finish[u]]
      /\ DOMAIN finish = Placed \cup DOMAIN prep.done
  BY <1>1, PlaceFacts DEF ScheduleTypeOK
<1>4. OfSchedule(cal, Base, s)
  BY <1>2, WaitsInCalendar
<1>5. OfSchedule(cal, Base, end)
  BY <1>2, <1>4, AdvanceOfSchedule
<1>6. cal' = cal /\ snap' = snap
  BY SameSnap
<1>7. Base' = Base
  BY <1>6 DEF Base
<1> HIDE DEF s, end
<1>8. Placed' = Placed \cup {t}
  BY <1>3 DEF Placed
<1>9. ASSUME NEW u \in Placed'
      PROVE  OfSchedule(cal, Base, start'[u]) /\ OfSchedule(cal, Base, finish'[u])
  <2>1. CASE u = t
    BY <1>3, <1>4, <1>5, <1>8, <2>1
  <2>2. CASE u # t
    <3>1. u \in Placed /\ start'[u] = start[u] /\ finish'[u] = finish[u]
      BY <1>3, <1>8, <2>2
    <3> QED
      BY <3>1 DEF InCalendar
  <2> QED
    BY <2>1, <2>2
<1> QED
  BY <1>6, <1>7, <1>9 DEF InCalendar

(* and completed tasks keep their finish.                                  *)
LEMMA PlaceKeepsDone ==
    ASSUME ScheduleTypeOK, DoneKept, Next
    PROVE  DoneKept'
<1>1. PICK t \in Task : Place(t)
  BY DEF Next
<1>2. /\ prep' = prep /\ t \notin DOMAIN prep.done
      /\ finish' = [u \in DOMAIN finish \cup {t} |->
                       IF u = t THEN Advance(StartOf(t), prep.days[t]) ELSE finish[u]]
      /\ DOMAIN finish = Placed \cup DOMAIN prep.done
  BY <1>1, PlaceFacts DEF ScheduleTypeOK
<1> QED
  BY <1>2 DEF DoneKept

(* The phases in which there is a schedule.                                *)
RunPhases == {"baseline", "scenario", "done"}

(* The plan that is being scheduled, or was scheduled last.                *)
ScheduledPlan == IF phase = "baseline" THEN baseline ELSE primary

(* Starts and finishes that keep what a schedule prepares, and an end.     *)
Keeps(p, s, f, end) ==
    /\ \A t \in DOMAIN p.team :
          /\ s[t] \in Instant /\ f[t] \in Instant
          /\ NotLater(p.release[t], s[t])
          /\ f[t] = Advance(s[t], p.days[t])
          /\ NotLater(f[t], end)
    /\ \A t \in DOMAIN p.done : f[t] = p.done[t]
    /\ \A e \in p.edges : NotLater(Advance(f[e.from], e.lag), s[e.to])

(* A schedule with this end keeps what was prepared.                       *)
Kept(p, end) == \E s, f : Keeps(p, s, f, end)

(* What is known of the schedules in every phase.                          *)
SchedulesInv ==
    /\ ScheduleInv /\ DoneKept
    /\ before \in Instant /\ NotLater(Zero, before)
    /\ phase \in RunPhases =>
          /\ Sampled(baseline, unit) /\ Sampled(primary, unit)
          /\ prep = Prepared(ScheduledPlan, unit)
          /\ InCalendar
    /\ phase = "done" => Unscheduled = {}
    /\ phase \in {"scenario", "done"} /\ ops # <<>> => Kept(Prepared(baseline, unit), before)

(* A schedule that has begun.                                              *)
Begun == ScheduleInv /\ DoneKept /\ Placed = {}

(* A schedule begins with its invariant,                                   *)
LEMMA InitInv == Init => Begun
<1>1. Init => DoneKept /\ Placed = {}
  BY DEF Init, Begin, DoneKept, Placed
<1> QED
  BY <1>1, TypeInit, SlotInit, WaitInit DEF ScheduleInv, Begun

(* also in the next state.                                                 *)
LEMMA InitInvNext == Init' => ScheduleInv' /\ DoneKept' /\ Placed' = {}
<1>1. Init' => Begun'
  BY InitInv, PTL
<1> QED
  BY <1>1 DEF Begun

(* The invariant of the schedules holds when a request is received.        *)
LEMMA SchedulesInit == SimInit => SchedulesInv
<1> SUFFICES ASSUME SimInit PROVE SchedulesInv
  OBVIOUS
<1>1. /\ prep = NoSchedule /\ phase = "received" /\ before = Zero
      /\ start = <<>> /\ finish = <<>> /\ slots = <<>> /\ place = <<>> /\ parent = <<>>
  BY DEF SimInit
<1>2. /\ prep.team = <<>> /\ prep.release = <<>> /\ prep.days = <<>> /\ prep.done = <<>>
      /\ prep.edges = {} /\ prep.capacity = <<>>
  BY <1>1 DEF NoSchedule
<1>3. <<>> \in [{} -> {}] /\ <<>> \in [{} -> Instant] /\ <<>> \in [{} -> Nat] /\ DOMAIN <<>> = {}
      /\ <<>> = [g \in {} |-> 0]
  OBVIOUS
<1>4. PreparedSchedule(prep)
  <2>1. IsFiniteSet({})
    BY FS_EmptySet
  <2>2. prep.capacity = [g \in DOMAIN prep.capacity |-> prep.capacity[g]]
    BY <1>2, <1>3
  <2>3. Acyclic(prep.edges, DOMAIN prep.team)
    BY <1>2, <1>3 DEF Acyclic
  <2> QED
    BY <1>2, <1>3, <2>1, <2>2, <2>3 DEF PreparedSchedule
<1>5. Begin(prep).slots = <<>>
  BY <1>2, <1>3 DEF Begin
<1>6. Init
  BY <1>1, <1>2, <1>4, <1>5 DEF Init, Begin
<1>7. ScheduleInv /\ DoneKept
  BY <1>6, InitInv DEF Begun
<1> QED
  BY <1>1, <1>7, InstantOrder DEF SchedulesInv, RunPhases

(* A schedule of a validated plan begins.                                  *)
LEMMA ScheduleBegins ==
    ASSUME request \in Request, NEW plan, Validated(plan), NEW samples, Sampled(plan, samples),
           Schedule(Prepared(plan, samples))
    PROVE  ScheduleInv' /\ DoneKept' /\ InCalendar' /\ prep' = Prepared(plan, samples)
<1> DEFINE p == Prepared(plan, samples)
<1>1. PreparedSchedule(p)
  BY PreparedFacts DEF Validated
<1> HIDE DEF p
<1>2. /\ prep' = p /\ start' = Begin(prep').start /\ finish' = Begin(prep').finish
      /\ slots' = Begin(prep').slots /\ place' = Begin(prep').place
      /\ parent' = Begin(prep').parent
  BY DEF Schedule, p
<1>3. Init'
  BY <1>1, <1>2 DEF Init
<1>4. ScheduleInv' /\ DoneKept' /\ Placed' = {}
  BY <1>3, InitInvNext
<1> QED
  BY <1>2, <1>4 DEF InCalendar, p

(* What Prepared makes of a plan depends on the request alone.             *)
LEMMA SamePrepared ==
    request' = request /\ baseline' = baseline /\ primary' = primary =>
        /\ unit' = unit =>
              /\ Prepared(baseline, unit)' = Prepared(baseline, unit)
              /\ Prepared(primary, unit)' = Prepared(primary, unit)
        /\ Prepared(baseline, unit)' = Prepared(baseline, unit')
<1> SUFFICES ASSUME request' = request, baseline' = baseline, primary' = primary
             PROVE  /\ unit' = unit =>
                          /\ Prepared(baseline, unit)' = Prepared(baseline, unit)
                          /\ Prepared(primary, unit)' = Prepared(primary, unit)
                    /\ Prepared(baseline, unit)' = Prepared(baseline, unit')
  OBVIOUS
<1>1. cal' = cal /\ snap' = snap
  BY SameSnap
<1>2. Base' = Base
  BY <1>1 DEF Base
<1>3. \A task : Constraints(task)' = Constraints(task)
  BY <1>1 DEF Constraints
<1> QED
  BY <1>1, <1>2, <1>3 DEF Prepared, Constraints

(* The samples of both plans' streams are samples of each.                 *)
LEMMA SampleTyped ==
    ASSUME NEW samples \in [Streams(baseline) \cup Streams(primary) -> {0, 1}]
    PROVE  Sampled(baseline, samples) /\ Sampled(primary, samples)
<1>1. ASSUME NEW plan, Streams(plan) \subseteq Streams(baseline) \cup Streams(primary)
      PROVE  Sampled(plan, samples)
  <2>1. ASSUME NEW t \in Open(plan), plan.tasks[t].lo < plan.tasks[t].hi
        PROVE  Stream(plan, t) \in Streams(plan)
    BY <2>1 DEF Streams
  <2> QED
    BY <1>1, <2>1 DEF Sampled
<1> QED
  BY <1>1

(* The baseline's schedule begins.                                         *)
LEMMA SampleStep == PlansInv /\ SchedulesInv /\ Sample => SchedulesInv'
<1> SUFFICES ASSUME PlansInv, SchedulesInv, Sample PROVE SchedulesInv'
  OBVIOUS
<1>1. /\ phase = "planned" /\ phase' = "baseline" /\ UNCHANGED compileVars /\ before' = before
      /\ unit' \in [Streams(baseline) \cup Streams(primary) -> {0, 1}]
      /\ Schedule(Prepared(baseline, unit'))
      /\ request' = request /\ baseline' = baseline /\ primary' = primary
  BY DEF Sample, compileVars
<1>2. Validated(baseline) /\ request \in Request
  BY <1>1 DEF PlansInv, PlannedPhases
<1>3. Sampled(baseline, unit') /\ Sampled(primary, unit')
  BY <1>1, SampleTyped
<1>4. ScheduleInv' /\ DoneKept' /\ InCalendar' /\ prep' = Prepared(baseline, unit')
  BY <1>1, <1>2, <1>3, ScheduleBegins
<1>5. Prepared(baseline, unit)' = Prepared(baseline, unit')
  BY <1>1, SamePrepared
<1>6. Sampled(baseline, unit)' /\ Sampled(primary, unit)'
  BY <1>1, <1>3 DEF Sampled
<1> QED
  BY <1>1, <1>4, <1>5, <1>6 DEF SchedulesInv, ScheduledPlan, RunPhases

(* A task is placed.                                                       *)
LEMMA PlaceNextStep == PlansInv /\ SchedulesInv /\ PlaceNext => SchedulesInv'
<1> SUFFICES ASSUME PlansInv, SchedulesInv, PlaceNext PROVE SchedulesInv'
  OBVIOUS
<1>1. /\ phase \in {"baseline", "scenario"} /\ phase' = phase /\ Next /\ before' = before
      /\ unit' = unit /\ request' = request /\ baseline' = baseline /\ primary' = primary
  BY DEF PlaceNext, compileVars
<1>2. prep' = prep
  BY <1>1 DEF Next, Place
<1>3. /\ ScheduleInv /\ DoneKept /\ InCalendar /\ prep = Prepared(ScheduledPlan, unit)
      /\ ScheduleTypeOK /\ SlotsFollow
  BY <1>1 DEF SchedulesInv, RunPhases, ScheduleInv, SlotInv
<1>4. ScheduleInv'
  BY <1>1, <1>3, TypeStep, SlotStep, WaitStep DEF ScheduleInv
<1>5. request \in Request /\ Schedulable(ScheduledPlan, snap.asOf)
  BY <1>1 DEF PlansInv, PlannedPhases, Validated, ScheduledPlan
<1>6. InCalendar' /\ DoneKept'
  BY <1>1, <1>3, <1>5, PlaceInCalendar, PlaceKeepsDone
<1>7. /\ Prepared(baseline, unit)' = Prepared(baseline, unit)
      /\ Prepared(primary, unit)' = Prepared(primary, unit)
  BY <1>1, SamePrepared
<1>8. prep' = Prepared(ScheduledPlan, unit)'
  BY <1>1, <1>2, <1>3, <1>7 DEF ScheduledPlan
<1>9. Sampled(baseline, unit)' /\ Sampled(primary, unit)'
  BY <1>1 DEF SchedulesInv, RunPhases, Sampled
<1>10. ops' = ops
  BY <1>1, SameSnap
<1>11. phase' = "scenario" /\ ops' # <<>> => Kept(Prepared(baseline, unit), before)'
  BY <1>1, <1>7, <1>10 DEF SchedulesInv, Kept, Keeps
<1> QED
  BY <1>1, <1>4, <1>6, <1>8, <1>9, <1>11 DEF SchedulesInv, RunPhases

(* The schedule of the baseline keeps what it was prepared from.           *)
LEMMA BaselineKept ==
    ASSUME ScheduleInv, DoneKept, Unscheduled = {}
    PROVE  Kept(prep, ProjectFinish)
<1>1. ScheduleTypeOK /\ Feasible
  BY DEF ScheduleInv, SlotInv
<1>2. Active = Placed
  BY <1>1 DEF Unscheduled, ScheduleTypeOK
<1>3. ASSUME NEW t \in DOMAIN prep.team
      PROVE  /\ start[t] \in Instant /\ finish[t] \in Instant
             /\ NotLater(prep.release[t], start[t])
             /\ finish[t] = Advance(start[t], prep.days[t])
             /\ NotLater(finish[t], ProjectFinish)
  <2>1. t \in Placed
    BY <1>2 DEF Active
  <2> QED
    BY <1>1, <2>1, LastFinish DEF ScheduleTypeOK, Feasible
<1>4. ASSUME NEW e \in prep.edges PROVE NotLater(Advance(finish[e.from], e.lag), start[e.to])
  <2>1. e.to \in Placed /\ e \in Into(e.to)
    BY <1>1, <1>2 DEF ScheduleTypeOK, PreparedSchedule, Active, Into
  <2> QED
    BY <1>1, <2>1 DEF Feasible
<1>5. Keeps(prep, start, finish, ProjectFinish)
  BY <1>3, <1>4 DEF Keeps, DoneKept
<1> QED
  BY <1>5 DEF Kept

(* The baseline's schedule ends.                                           *)
LEMMA EndBaselineStep == PlansInv /\ SchedulesInv /\ EndBaseline => SchedulesInv'
<1> SUFFICES ASSUME PlansInv, SchedulesInv, EndBaseline PROVE SchedulesInv'
  OBVIOUS
<1>1. /\ phase = "baseline" /\ Unscheduled = {} /\ before' = ProjectFinish /\ unit' = unit
      /\ request' = request /\ baseline' = baseline /\ primary' = primary
  BY DEF EndBaseline, compileVars
<1>2. /\ ScheduleInv /\ DoneKept /\ InCalendar /\ prep = Prepared(baseline, unit)
      /\ Sampled(baseline, unit) /\ Sampled(primary, unit) /\ ScheduleTypeOK
  BY <1>1 DEF SchedulesInv, RunPhases, ScheduledPlan, ScheduleInv
<1>3. /\ request \in Request /\ Validated(baseline) /\ Validated(primary)
      /\ ops = <<>> => primary = baseline
  BY <1>1 DEF PlansInv, PlannedPhases
<1>4. ops' = ops /\ cal' = cal /\ snap' = snap
  BY <1>1, SameSnap
<1>5. Sampled(baseline, unit)' /\ Sampled(primary, unit)'
  BY <1>1, <1>2 DEF Sampled
<1>6. /\ Prepared(baseline, unit)' = Prepared(baseline, unit)
      /\ Prepared(primary, unit)' = Prepared(primary, unit)
  BY <1>1, SamePrepared
<1>7. before' \in Instant /\ NotLater(Zero, before')
  <2>1. ASSUME NEW t \in Placed PROVE NotLater(Zero, finish[t])
    <3>1. OfSchedule(cal, Base, finish[t])
      BY <1>2 DEF InCalendar
    <3> QED
      BY <3>1 DEF OfSchedule, Zero, Instant, NotLater, Later
  <2>2. NotLater(Zero, Zero)
    BY InstantOrder
  <2> QED
    BY <1>1, <1>2, <2>1, <2>2, LastFinish
<1>8. CASE ops = <<>>
  <2>1. phase' = "done" /\ UNCHANGED vars
    BY <1>8 DEF EndBaseline
  <2>2. ScheduleInv' /\ Unscheduled' = {}
    <3>1. ScheduleInv /\ [Next]_vars
      BY <1>2, <2>1
    <3>2. ScheduleInv'
      BY <3>1, TypeStep, SlotStep, WaitStep DEF ScheduleInv
    <3> QED
      BY <1>1, <2>1, <3>2 DEF vars, Unscheduled, Active, Placed
  <2>3. DoneKept'
    BY <1>2, <2>1 DEF vars, DoneKept
  <2>4. InCalendar'
    BY <1>2, <1>4, <2>1 DEF vars, InCalendar, Base, Placed
  <2>5. prep' = Prepared(ScheduledPlan, unit)'
    BY <1>1, <1>2, <1>3, <1>6, <1>8, <2>1 DEF vars, ScheduledPlan
  <2> QED
    BY <1>4, <1>5, <1>7, <1>8, <2>1, <2>2, <2>3, <2>4, <2>5 DEF SchedulesInv, RunPhases
<1>9. CASE ops # <<>>
  <2>1. phase' = "scenario" /\ Schedule(Prepared(primary, unit))
    BY <1>9 DEF EndBaseline
  <2>2. ScheduleInv' /\ DoneKept' /\ InCalendar' /\ prep' = Prepared(primary, unit)
    BY <1>2, <1>3, <2>1, ScheduleBegins
  <2>3. prep' = Prepared(ScheduledPlan, unit)'
    BY <1>6, <2>1, <2>2 DEF ScheduledPlan
  <2>4. Kept(Prepared(baseline, unit), ProjectFinish)
    BY <1>1, <1>2, BaselineKept
  <2>5. Kept(Prepared(baseline, unit), before)'
    BY <1>1, <1>6, <2>4 DEF Kept, Keeps
  <2> QED
    BY <1>5, <1>7, <2>1, <2>2, <2>3, <2>5 DEF SchedulesInv, RunPhases
<1> QED
  BY <1>8, <1>9

(* Nothing but the phase, or what only plans depend on, changes.           *)
LEMMA SchedulesSame ==
    ASSUME SchedulesInv, UNCHANGED iteration,
           \/ phase' \notin RunPhases
           \/ /\ phase \in RunPhases /\ UNCHANGED compileVars
              /\ phase' = phase \/ (phase = "scenario" /\ phase' = "done" /\ Unscheduled = {})
    PROVE  SchedulesInv'
<1>1. UNCHANGED vars /\ before' = before /\ unit' = unit
  BY DEF iteration
<1>2. ScheduleInv'
  <2>1. ScheduleInv /\ [Next]_vars
    BY <1>1 DEF SchedulesInv
  <2> QED
    BY <2>1, TypeStep, SlotStep, WaitStep DEF ScheduleInv
<1>3. DoneKept'
  BY <1>1 DEF SchedulesInv, vars, DoneKept
<1>4. before' \in Instant /\ NotLater(Zero, before')
  BY <1>1 DEF SchedulesInv
<1>5. CASE phase' \notin RunPhases
  BY <1>2, <1>3, <1>4, <1>5 DEF SchedulesInv, RunPhases
<1>6. CASE phase \in RunPhases /\ UNCHANGED compileVars
           /\ (phase' = phase \/ (phase = "scenario" /\ phase' = "done" /\ Unscheduled = {}))
  <2>1. request' = request /\ baseline' = baseline /\ primary' = primary
    BY <1>6 DEF compileVars
  <2>2. ops' = ops /\ cal' = cal /\ snap' = snap
    BY <2>1, SameSnap
  <2>3. /\ Prepared(baseline, unit)' = Prepared(baseline, unit)
        /\ Prepared(primary, unit)' = Prepared(primary, unit)
    BY <1>1, <2>1, SamePrepared
  <2>4. Sampled(baseline, unit)' /\ Sampled(primary, unit)'
    BY <1>1, <1>6, <2>1 DEF SchedulesInv, Sampled
  <2>5. InCalendar'
    BY <1>1, <1>6, <2>2 DEF SchedulesInv, vars, InCalendar, Base, Placed
  <2>6. prep' = Prepared(ScheduledPlan, unit)'
    BY <1>1, <1>6, <2>3 DEF SchedulesInv, vars, ScheduledPlan, RunPhases
  <2>7. phase' = "done" => Unscheduled' = {}
    BY <1>1, <1>6 DEF SchedulesInv, vars, Unscheduled, Active, Placed
  <2>8. phase' \in {"scenario", "done"} /\ ops' # <<>> => Kept(Prepared(baseline, unit), before)'
    <3>1. phase' \in {"scenario", "done"} /\ ops # <<>> => Kept(Prepared(baseline, unit), before)
      BY <1>6 DEF SchedulesInv
    <3> QED
      BY <1>1, <2>2, <2>3, <3>1 DEF Kept, Keeps
  <2> QED
    BY <1>2, <1>3, <1>4, <2>4, <2>5, <2>6, <2>7, <2>8 DEF SchedulesInv
<1> QED
  BY <1>5, <1>6

(* Every step keeps the invariant of the schedules.                        *)
LEMMA SchedulesStep == PlansInv /\ SchedulesInv /\ [SimNext]_simVars => SchedulesInv'
<1> SUFFICES ASSUME PlansInv, SchedulesInv, [SimNext]_simVars PROVE SchedulesInv'
  OBVIOUS
<1>1. CASE Receive \/ SearchNext \/ EndSearch \/ OrderNext \/ EndValidate
  <2>1. UNCHANGED iteration /\ phase' \notin RunPhases
    BY <1>1 DEF Receive, SearchNext, EndSearch, OrderNext, EndValidate, Refuse, RunPhases
  <2> QED
    BY <2>1, SchedulesSame
<1>2. CASE InterveneNext \/ EndCompile \/ RefuseScenario \/ EndRevalidate
  <2>1. UNCHANGED iteration /\ phase' \notin RunPhases
    BY <1>2 DEF InterveneNext, EndCompile, RefuseScenario, EndRevalidate, Refuse, RunPhases
  <2> QED
    BY <2>1, SchedulesSame
<1>3. CASE EndScenario
  <2>1. /\ UNCHANGED iteration /\ phase \in RunPhases /\ UNCHANGED compileVars
        /\ phase = "scenario" /\ phase' = "done" /\ Unscheduled = {}
    BY <1>3 DEF EndScenario, RunPhases
  <2> QED
    BY <2>1, SchedulesSame
<1>4. CASE UNCHANGED simVars
  <2>1. UNCHANGED iteration /\ phase' = phase /\ UNCHANGED compileVars
    BY <1>4 DEF simVars
  <2>2. phase' \notin RunPhases \/ phase \in RunPhases
    BY <2>1
  <2> QED
    BY <2>1, <2>2, SchedulesSame
<1> QED
  BY <1>1, <1>2, <1>3, <1>4, SampleStep, PlaceNextStep, EndBaselineStep DEF SimNext

(* The inductive invariant of a request.                                   *)
SimInv == PlansInv /\ SchedulesInv

(* In every phase of every request the plans and the schedules are as the  *)
(* phases promise: SimInv is inductive.                                    *)
THEOREM SimInvHolds == SimSpec => []SimInv
<1>1. SimInit => SimInv
  BY PlansInit, SchedulesInit DEF SimInv
<1>2. SimInv /\ [SimNext]_simVars => SimInv'
  BY PlansStep, SchedulesStep DEF SimInv
<1> QED
  BY <1>1, <1>2, PTL DEF SimSpec

(* What does not wait for an instant does not precede it in civil time.    *)
LEMMA ReleasedInTime ==
    ASSUME NEW c \in Calendar, NEW b \in Int, InShift(c, b), NEW s, OfSchedule(c, b, s),
           NEW x \in Int, NotLater(Encode(c, b, x, TRUE), s)
    PROVE  /\ x <= Normalize(c, Decode(c, b, s)) /\ Normalize(c, Decode(c, b, s)) \in Int
           /\ Decode(c, b, s) \in Int /\ b <= Decode(c, b, s)
           /\ Decode(c, b, s) <= Normalize(c, Decode(c, b, s))
<1>1. TRUE \in BOOLEAN
  OBVIOUS
<1>2. Decode(c, b, s) \in Int /\ b <= Decode(c, b, s)
  BY DecodeIs
<1>3. ~(Decode(c, b, s) < x)
  <2>1. ~Later(Encode(c, b, x, TRUE), s)
    BY DEF NotLater
  <2> QED
    BY <1>1, <2>1, DecodeBefore
<1> DEFINE y == Decode(c, b, s)
<1>4. y \in Int /\ b <= y /\ x <= y
  BY <1>2, <1>3
<1> HIDE DEF y
<1>5. Normalize(c, y) \in Int /\ y <= Normalize(c, y)
  BY <1>4, NormalizeFacts
<1> QED
  BY <1>4, <1>5 DEF y

(* A lag after an instant of a schedule ends, in civil time, too, before   *)
(* what waits for it.                                                      *)
LEMMA LagAfterPlaced ==
    ASSUME NEW c \in Calendar, NEW b \in Int, InShift(c, b), NEW f, OfSchedule(c, b, f),
           NEW s, OfSchedule(c, b, s), NEW l \in Nat, NotLater(Advance(f, l), s),
           l = 0 \/ c.opens + c.shift <= DayTicks
    PROVE  AddWork(c, Decode(c, b, f), l) <= Normalize(c, Decode(c, b, s))
<1> DEFINE end == After(c)[<<b, f.work>>]
           df == Decode(c, b, f)
           n == Normalize(c, df)
           ds == Decode(c, b, s)
           m == Normalize(c, ds)
<1>1. /\ end \in Int /\ b <= end /\ f.work \in Nat /\ f.phase \in Nat
      /\ Normalize(c, end) \in Int /\ end <= Normalize(c, end)
      /\ df = IF f.phase > 0 THEN Normalize(c, end) ELSE end
      /\ df \in Int
  BY DecodeIs
<1>2. ds \in Int
  BY DecodeIs
<1>3. AddWork(c, df, l) = After(c)[<<n, l>>]
  BY AddWorkIs
<1> HIDE DEF ds, df, end
<1>4. m \in Int /\ ds <= m
  BY <1>2, NormalizeFacts
<1>5. n = Normalize(c, end)
  <2>1. InShift(c, Normalize(c, end))
    BY <1>1, NormalizeFacts
  <2>2. Normalize(c, Normalize(c, end)) = Normalize(c, end)
    BY <1>1, <2>1, NormalizeFacts
  <2> QED
    BY <1>1, <2>2
<1>6. n \in Int /\ end <= n /\ b <= n /\ InShift(c, n)
  BY <1>1, <1>5, NormalizeFacts
<1>7. CASE l = 0
  <2>1. Advance(f, l) = f
    BY <1>7 DEF Advance
  <2>2. n <= m
    BY <2>1, DecodeInOrder DEF df, ds
  <2>3. After(c)[<<n, 0>>] = n
    BY <1>6, AfterForward
  <2> QED
    BY <1>3, <1>7, <2>2, <2>3 DEF df, ds
<1>8. CASE l > 0 /\ c.opens + c.shift <= DayTicks
  <2> DEFINE w == f.work
             u == Until(c, n)[b]
  <2>1. w \in Nat /\ w + 1 \in Nat /\ end = After(c)[<<b, w>>]
    BY <1>1 DEF end
  <2> HIDE DEF w
  <2>2. After(c)[<<b, w + 1>>] = n + 1
    BY <1>5, <1>8, <2>1, OneMoreTick
  <2>3. u \in Nat /\ \A v \in Nat : v <= u <=> After(c)[<<b, v>>] <= n
    BY <1>6, WorkFits
  <2> HIDE DEF n
  <2>4. w <= u
    BY <1>6, <2>1, <2>3
  <2>5. ~(w + 1 <= u)
    <3>1. ~(n + 1 <= n)
      BY <1>6
    <3> QED
      BY <2>1, <2>2, <2>3, <3>1
  <2>6. u = w
    BY <2>1, <2>3, <2>4, <2>5
  <2>7. After(c)[<<b, u + l>>] = After(c)[<<n, l>>]
    BY <1>6, <1>8, WorkContinues
  <2> HIDE DEF u
  <2>8. After(c)[<<b, w + l>>] = After(c)[<<n, l>>]
    BY <2>6, <2>7
  <2> DEFINE x == Advance(f, l)
  <2>9. x = [work |-> w + l, phase |-> 0]
    BY <1>8 DEF Advance, w
  <2>10. OfSchedule(c, b, x)
    BY AdvanceOfSchedule
  <2>11. Decode(c, b, x) <= ds /\ NotLater(x, s)
    BY <2>10, DecodeInOrder DEF ds
  <2> HIDE DEF x
  <2>12. x.work = w + l /\ x.phase = 0
    BY <2>9
  <2>13. Decode(c, b, x) = After(c)[<<b, w + l>>] /\ Decode(c, b, x) \in Int
    BY <2>10, <2>12, DecodeIs
  <2> QED
    BY <1>2, <1>3, <1>4, <2>8, <2>11, <2>13 DEF df, ds, n
<1> QED
  BY <1>7, <1>8

(* Counted from the base it does so on every calendar.                     *)
LEMMA LagFromBase ==
    ASSUME NEW c \in Calendar, NEW b \in Int, InShift(c, b), NEW f, OfSchedule(c, b, f),
           NEW s, OfSchedule(c, b, s), NEW l \in Nat, NotLater(Advance(f, l), s)
    PROVE  AddWork(c, b, f.work + l) <= Normalize(c, Decode(c, b, s))
<1> DEFINE x == Advance(f, l)
           dx == Decode(c, b, x)
           ds == Decode(c, b, s)
<1>1. OfSchedule(c, b, x)
  BY AdvanceOfSchedule
<1>2. f.work \in Nat /\ x.work = f.work + l
  <2>1. f.work \in Nat
    BY DecodeIs
  <2> QED
    BY <2>1 DEF Advance
<1>3. AddWork(c, b, f.work + l) = After(c)[<<b, f.work + l>>]
  <2>1. f.work + l \in Nat
    BY <1>2
  <2> QED
    BY <2>1, AddWorkIs, NormalizeFacts
<1> HIDE DEF x
<1>4. /\ After(c)[<<b, x.work>>] \in Int /\ dx \in Int /\ x.phase \in Nat
      /\ dx = After(c)[<<b, x.work>>] + x.phase
  BY <1>1, DecodeIs
<1>5. After(c)[<<b, x.work>>] <= dx
  BY <1>4
<1>6. dx <= ds /\ ds \in Int
  BY <1>1, DecodeInOrder, DecodeIs DEF x
<1> HIDE DEF ds, dx
<1>7. Normalize(c, ds) \in Int /\ ds <= Normalize(c, ds)
  BY <1>6, NormalizeFacts
<1> QED
  BY <1>2, <1>3, <1>4, <1>5, <1>6, <1>7 DEF ds

(* So does a lag after the actual finish of a completed task.              *)
LEMMA LagAfterCompleted ==
    ASSUME NEW c \in Calendar, NEW b \in Int, InShift(c, b), NEW t \in Int, t <= b,
           NEW s, OfSchedule(c, b, s), NEW l \in Nat,
           NotLater(Advance([work |-> -Until(c, b)[Normalize(c, t)], phase |-> 0], l), s)
    PROVE  AddWork(c, t, l) <= Normalize(c, Decode(c, b, s))
<1> DEFINE m == Normalize(c, t)
           u == Until(c, b)[m]
           d == Decode(c, b, s)
<1>1. m \in Int /\ m <= b /\ InShift(c, m)
  BY NormalizeFacts
<1>2. AddWork(c, t, l) = After(c)[<<m, l>>]
  BY AddWorkIs
<1>3. d \in Int /\ b <= d
  BY DecodeIs
<1> HIDE DEF d
<1>4. Normalize(c, d) \in Int /\ d <= Normalize(c, d)
  BY <1>3, NormalizeFacts
<1> HIDE DEF m
<1>5. u \in Nat /\ \A v \in Nat : v <= u <=> After(c)[<<m, v>>] <= b
  BY <1>1, WorkFits
<1>6. After(c)[<<m, l>>] \in Int
  BY <1>1, AfterForward
<1>7. CASE l <= u
  <2>1. After(c)[<<m, l>>] <= b
    BY <1>5, <1>7
  <2> QED
    BY <1>2, <1>3, <1>4, <1>6, <2>1 DEF d
<1>8. CASE u < l
  <2> DEFINE k == l - u
             x == [work |-> k, phase |-> 0]
  <2>1. k \in Nat /\ k > 0 /\ l = u + k
    BY <1>5, <1>8
  <2>2. Advance([work |-> -u, phase |-> 0], l) = x
    <3>1. l # 0 /\ -u + l = k
      BY <1>5, <1>8
    <3> QED
      BY <3>1 DEF Advance
  <2>3. NotLater(x, s)
    BY <2>2 DEF u, m
  <2> HIDE DEF k
  <2>4. After(c)[<<m, u + k>>] = After(c)[<<b, k>>]
    BY <1>1, <2>1, WorkContinues
  <2>5. x \in Instant /\ x.work = k /\ x.phase = 0
    BY <2>1 DEF Instant
  <2>6. OfSchedule(c, b, x)
    BY <2>1, <2>5 DEF OfSchedule
  <2> HIDE DEF x
  <2>7. Decode(c, b, x) <= d
    BY <2>3, <2>6, DecodeInOrder DEF d
  <2>8. Decode(c, b, x) = After(c)[<<b, k>>] /\ Decode(c, b, x) \in Int
    BY <2>5, <2>6, DecodeIs
  <2> HIDE DEF u
  <2> QED
    BY <1>2, <1>3, <1>4, <2>1, <2>4, <2>7, <2>8 DEF d
<1> QED
  BY <1>5, <1>7, <1>8

(* What every schedule keeps in working time it keeps in civil time.       *)
LEMMA TimelyFollows == SimInv => StartsAreTimely
<1> SUFFICES ASSUME SimInv, phase = "done", NEW t \in Placed
             PROVE  /\ \A x \in {snap.asOf, snap.start, primary.tasks[t].earliest,
                                 primary.tasks[t].until} : x <= Civil(start[t])
                    /\ \A e \in primary.edges :
                          e.to = t /\ (e.from \in Placed => e.lag = 0 \/ EndsBeforeMidnight) =>
                            AddWork(cal, IF e.from \in Placed
                                         THEN Decode(cal, Base, finish[e.from])
                                         ELSE primary.tasks[e.from].finish, e.lag)
                                <= Civil(start[t])
                    /\ \A e \in primary.edges :
                          e.to = t /\ e.from \in Placed =>
                            AddWork(cal, Base, finish[e.from].work + e.lag) <= Civil(start[t])
  BY DEF StartsAreTimely
<1>1. /\ request \in Request /\ Validated(primary)
      /\ prep = Prepared(primary, unit) /\ InCalendar /\ DoneKept
      /\ ScheduleTypeOK /\ Feasible /\ Unscheduled = {}
  BY DEF SimInv, PlansInv, PlannedPhases, SchedulesInv, RunPhases, ScheduledPlan, ScheduleInv,
         SlotInv
<1>2. cal \in Calendar /\ Base \in Int /\ InShift(cal, Base)
  BY <1>1, BaseFacts
<1>3. /\ Schedulable(primary, snap.asOf) /\ Consistent(primary)
  BY <1>1 DEF Validated
<1>4. /\ DOMAIN prep.team = Open(primary) /\ Active = Open(primary) /\ Placed = Open(primary)
      /\ DOMAIN prep.done = {u \in DOMAIN primary.tasks : primary.tasks[u].state = "completed"}
  <2>1. /\ DOMAIN prep.team = Open(primary)
        /\ DOMAIN prep.done = {u \in DOMAIN primary.tasks : primary.tasks[u].state = "completed"}
    BY <1>1, <1>3, PreparedInCalendar
  <2>2. Active = Open(primary)
    BY <2>1 DEF Active
  <2>3. Placed = Active
    BY <1>1 DEF Unscheduled, ScheduleTypeOK
  <2> QED
    BY <2>1, <2>2, <2>3
<1>5. OfSchedule(cal, Base, start[t])
  BY <1>1 DEF InCalendar
<1> DEFINE task == primary.tasks[t]
           x == Normalize(cal, LastOf(Constraints(task)))
           s == start[t]
<1>6. task \in PlanTask
  BY <1>3, <1>4 DEF Open, Schedulable, ExecutionPlan
<1>7. /\ x \in Int /\ \A y \in {snap.asOf, snap.start, task.earliest, task.until} : y <= x
      /\ task.earliest \in Int /\ task.until \in Int /\ snap.asOf \in Nat /\ snap.start \in Nat
  BY <1>1, <1>6, ReleaseFacts, RequestFacts DEF PlanTask
<1>8. prep.release[t] = Encode(cal, Base, x, TRUE)
  BY <1>1, <1>4 DEF Prepared
<1>9. NotLater(Encode(cal, Base, x, TRUE), s)
  BY <1>1, <1>8 DEF Feasible
<1> HIDE DEF x, s
<1>10. /\ x <= Normalize(cal, Decode(cal, Base, s)) /\ Normalize(cal, Decode(cal, Base, s)) \in Int
  BY <1>2, <1>5, <1>7, <1>9, ReleasedInTime DEF s
<1>11. Civil(start[t]) = Normalize(cal, Decode(cal, Base, s))
  BY DEF Civil, s
<1>12. ASSUME NEW y \in {snap.asOf, snap.start, primary.tasks[t].earliest, primary.tasks[t].until}
       PROVE  y <= Civil(start[t])
  <2>1. y \in Int /\ y <= x
    BY <1>7
  <2> QED
    BY <1>7, <1>10, <1>11, <2>1
<1>13. ASSUME NEW e \in primary.edges, e.to = t,
              e.from \in Placed => e.lag = 0 \/ EndsBeforeMidnight
       PROVE  AddWork(cal, IF e.from \in Placed THEN Decode(cal, Base, finish[e.from])
                           ELSE primary.tasks[e.from].finish, e.lag) <= Civil(start[t])
  <2>1. /\ e.from \in DOMAIN primary.tasks /\ primary.tasks[e.from].state # "cancelled"
        /\ e \in PlanEdge /\ primary.tasks[e.from] \in PlanTask
    BY <1>3 DEF Consistent, Schedulable, ExecutionPlan
  <2>2. e \in Into(t)
    <3>1. prep.edges = Scheduling(primary)
      BY <1>1 DEF Prepared
    <3> QED
      BY <1>4, <1>13, <2>1, <3>1 DEF Scheduling, Into
  <2>3. NotLater(Advance(finish[e.from], e.lag), s) /\ e.lag \in Nat
    BY <1>1, <2>1, <2>2 DEF Feasible, PlanEdge, s
  <2>4. CASE e.from \in Placed
    <3>1. OfSchedule(cal, Base, finish[e.from])
      BY <1>1, <2>4 DEF InCalendar
    <3>2. e.lag = 0 \/ cal.opens + cal.shift <= DayTicks
      BY <1>13, <2>4 DEF EndsBeforeMidnight
    <3>3. AddWork(cal, Decode(cal, Base, finish[e.from]), e.lag)
            <= Normalize(cal, Decode(cal, Base, s))
      BY <1>2, <1>5, <2>3, <3>1, <3>2, LagAfterPlaced DEF s
    <3> QED
      BY <1>11, <2>4, <3>3
  <2>5. CASE e.from \notin Placed
    <3>1. e.from \in DOMAIN prep.done
      BY <1>4, <2>1, <2>5 DEF Open, PlanTask
    <3> DEFINE f == primary.tasks[e.from].finish
               w == -Until(cal, Base)[Normalize(cal, f)]
    <3>2. f \in Int /\ f <= Base /\ prep.done[e.from] = [work |-> w, phase |-> 0]
      BY <1>1, <1>3, <3>1, PreparedInCalendar
    <3>3. finish[e.from] = [work |-> w, phase |-> 0]
      BY <1>1, <3>1, <3>2 DEF DoneKept
    <3>4. AddWork(cal, f, e.lag) <= Normalize(cal, Decode(cal, Base, s))
      <4> HIDE DEF f
      <4> QED
        BY <1>2, <1>5, <2>3, <3>2, <3>3, LagAfterCompleted DEF s
    <3> QED
      BY <1>11, <2>5, <3>4
  <2> QED
    BY <2>4, <2>5
<1>14. ASSUME NEW e \in primary.edges, e.to = t, e.from \in Placed
       PROVE  AddWork(cal, Base, finish[e.from].work + e.lag) <= Civil(start[t])
  <2>1. e \in PlanEdge /\ primary.tasks[e.from].state # "cancelled"
    BY <1>3 DEF Consistent, Schedulable, ExecutionPlan
  <2>2. e \in Into(t)
    <3>1. prep.edges = Scheduling(primary)
      BY <1>1 DEF Prepared
    <3> QED
      BY <1>4, <1>14, <2>1, <3>1 DEF Scheduling, Into
  <2>3. NotLater(Advance(finish[e.from], e.lag), s) /\ e.lag \in Nat
    BY <1>1, <2>1, <2>2 DEF Feasible, PlanEdge, s
  <2>4. OfSchedule(cal, Base, finish[e.from])
    BY <1>1, <1>14 DEF InCalendar
  <2> QED
    BY <1>2, <1>5, <1>11, <2>3, <2>4, LagFromBase DEF s
<1> QED
  BY <1>12, <1>13, <1>14

(* Less work from an earlier instant ends earlier.                         *)
LEMMA AdvanceInOrder ==
    ASSUME NEW a \in Instant, NEW b \in Instant, NotLater(a, b),
           NEW d \in Nat, NEW e \in Nat, d <= e
    PROVE  NotLater(Advance(a, d), Advance(b, e))
<1>1. a.work \in Int /\ b.work \in Int /\ a.phase \in Nat /\ b.phase \in Nat
  BY DEF Instant
<1>2. CASE e = 0
  <2>1. d = 0
    BY <1>2
  <2> QED
    BY <1>2, <2>1 DEF Advance
<1>3. CASE d = 0 /\ e > 0
  <2>1. Advance(a, d) = a /\ Advance(b, e) = [work |-> b.work + e, phase |-> 0]
    BY <1>3 DEF Advance
  <2> QED
    BY <1>1, <1>3, <2>1 DEF NotLater, Later
<1>4. CASE d > 0 /\ e > 0
  <2>1. /\ Advance(a, d) = [work |-> a.work + d, phase |-> 0]
        /\ Advance(b, e) = [work |-> b.work + e, phase |-> 0]
    BY <1>4 DEF Advance
  <2> QED
    BY <1>1, <1>4, <2>1 DEF NotLater, Later
<1> QED
  BY <1>2, <1>3, <1>4

(* The earlier of two instants before the base is the earlier of the       *)
(* encoded ones.                                                           *)
LEMMA EarlyInOrder ==
    ASSUME NEW c \in Calendar, NEW b \in Int, InShift(c, b), NEW s \in Int, NEW t \in Int,
           s <= t, t <= b
    PROVE  Until(c, b)[Normalize(c, t)] <= Until(c, b)[Normalize(c, s)]
<1> DEFINE m == Normalize(c, s)
           n == Normalize(c, t)
<1>1. m \in Int /\ n \in Int /\ m <= n /\ n <= b /\ InShift(c, m) /\ InShift(c, n)
  BY NormalizeFacts, NormalizeInOrder
<1> HIDE DEF m, n
<1> DEFINE v == Until(c, b)[n]
           u == Until(c, b)[m]
           w == Until(c, n)[m]
<1>2. v \in Nat /\ After(c)[<<n, v>>] <= b
  <2>1. v \in Nat /\ \A x \in Nat : x <= v <=> After(c)[<<n, x>>] <= b
    BY <1>1, WorkFits
  <2> HIDE DEF v
  <2> QED
    BY <2>1
<1>3. u \in Nat /\ \A x \in Nat : x <= u <=> After(c)[<<m, x>>] <= b
  BY <1>1, WorkFits
<1>4. w \in Nat
  BY <1>1, WorkFits
<1> HIDE DEF u, w
<1>5. CASE v = 0
  <2> HIDE DEF v
  <2> QED
    BY <1>3, <1>5 DEF u, v, m, n
<1>6. CASE v > 0
  <2> HIDE DEF v
  <2>1. After(c)[<<m, w + v>>] = After(c)[<<n, v>>]
    BY <1>1, <1>2, <1>6, WorkContinues DEF w
  <2>2. w + v \in Nat
    BY <1>2, <1>4
  <2>3. w + v <= u
    BY <1>2, <1>3, <2>1, <2>2
  <2>4. v <= u
    BY <1>2, <1>3, <1>4, <2>3
  <2> QED
    BY <2>4 DEF u, v, m, n
<1> QED
  BY <1>2, <1>5, <1>6

(* A task whose team has a slot for every task starts when it is ready.    *)
LEMMA NoWaiting ==
    ASSUME ScheduleInv, NEW t \in Placed, Cardinality(Active) <= prep.capacity[prep.team[t]]
    PROVE  start[t] = Ready(t)
<1>1. ScheduleTypeOK /\ Feasible /\ NoIdleWait
  BY NoIdleFollows DEF ScheduleInv, SlotInv
<1>2. t \in Active /\ Enabled(t) /\ start[t] \in Instant
      /\ prep.team[t] \in DOMAIN prep.capacity /\ prep.capacity[prep.team[t]] \in Nat
  BY <1>1 DEF ScheduleTypeOK, PreparedSchedule, Active, Feasible, Enabled
<1>3. Ready(t) \in {prep.release[t]} \cup DependencyReady(t) /\ Ready(t) \in Instant
  BY <1>1, <1>2, LatestHolds DEF ReadyIsLatest
<1>4. NotLater(Ready(t), start[t])
  BY <1>1, <1>3 DEF Feasible, DependencyReady
<1>5. ASSUME Later(start[t], Ready(t)) PROVE FALSE
  <2> DEFINE R == Running(prep.team[t], Ready(t))
             C == prep.capacity[prep.team[t]]
  <2>1. Cardinality(R) = C
    <3> DEFINE r == Ready(t)
               S == {r} \cup {finish[u] : u \in Placed}
               Q(a) == Cardinality(Running(prep.team[t], a)) = C
    <3>1. \A a \in S : NotLater(r, a) /\ Later(start[t], a) => Q(a)
      BY <1>1 DEF NoIdleWait
    <3>2. r \in S /\ NotLater(r, r) /\ Later(start[t], r)
      BY <1>3, <1>5, InstantOrder
    <3> HIDE DEF S, r, Q
    <3>3. Q(r)
      BY <3>1, <3>2
    <3> QED
      BY <3>3 DEF Q, r
  <2>2. R \subseteq Active \ {t}
    BY <1>1, <1>5 DEF Running, NotLater, ScheduleTypeOK
  <2>3. IsFiniteSet(Active)
    BY <1>1, ScheduleAssumption, FS_Subset DEF ScheduleTypeOK, PreparedSchedule, Active
  <2>4. /\ IsFiniteSet(Active \ {t})
        /\ Cardinality(Active \ {t}) = Cardinality(Active) - 1
        /\ Cardinality(Active) \in Nat
    BY <1>2, <2>3, FS_RemoveElement, FS_CardinalityType
  <2> HIDE DEF R
  <2>5. Cardinality(R) <= Cardinality(Active \ {t}) /\ Cardinality(R) \in Nat
    BY <2>2, <2>4, FS_Subset, FS_CardinalityType
  <2> DEFINE k == Cardinality(R)
             n == Cardinality(Active)
  <2>6. k = C /\ k <= n - 1 /\ n \in Nat /\ k \in Nat /\ n <= C /\ C \in Nat
    BY <1>2, <2>1, <2>4, <2>5
  <2> HIDE DEF k, n, C
  <2> QED
    BY <2>6
<1> QED
  BY <1>2, <1>3, <1>4, <1>5, InstantOrder

(* A task after interventions that only relax.                             *)
Relaxed(was, task) ==
    /\ task.state = "open" =>
          /\ was.state = "open" /\ task.team = was.team /\ task.shape = was.shape
          /\ \E d \in Int : d <= 0 /\ task.lo = was.lo + d /\ task.hi = was.hi + d
          /\ task.earliest <= was.earliest /\ task.until <= was.until
    /\ task.state = "completed" =>
          was.state # "completed" \/ task.finish <= was.finish

(* Relaxing interventions relax a task.                                    *)
LEMMA RelaxedTask ==
    ASSUME NEW was \in PlanTask, NEW task \in PlanTask, NEW D, D \subseteq Intervention,
           DurationReflects(was, D, task), AttributesReflect(was, D, task),
           \A o \in D : /\ o.kind # "duration"
                        /\ o.kind = "shift" => o.delta <= 0
                        /\ o.kind = "earliest" => o.at <= was.earliest
                        /\ o.kind = "blocker" => o.until <= was.until
                        /\ o.kind = "completed" =>
                              was.state # "completed" \/ o.finish <= was.finish
    PROVE  Relaxed(was, task)
<1>1. was.lo \in Int /\ was.hi \in Int /\ was.earliest \in Int /\ was.until \in Int
      /\ was.finish \in Int
  BY DEF PlanTask
<1>2. ASSUME task.state = "open"
      PROVE  /\ was.state = "open" /\ task.team = was.team /\ task.shape = was.shape
             /\ \E d \in Int : d <= 0 /\ task.lo = was.lo + d /\ task.hi = was.hi + d
             /\ task.earliest <= was.earliest /\ task.until <= was.until
  <2>1. Of(D, {"completed"}) = {}
    BY <1>2 DEF AttributesReflect
  <2>2. Of(D, {"duration"}) = {}
    BY DEF Of
  <2>3. was.state = "open" /\ task.team = was.team /\ task.shape = was.shape
    BY <1>2, <2>1, <2>2 DEF AttributesReflect
  <2>4. \E d \in Int : d <= 0 /\ task.lo = was.lo + d /\ task.hi = was.hi + d
    <3>1. CASE Of(D, {"shift"}) = {}
      <4>1. Of(D, {"duration", "shift"}) = {}
        BY <2>2, <3>1 DEF Of
      <4>2. task.lo = was.lo + 0 /\ task.hi = was.hi + 0
        BY <1>1, <2>1, <4>1 DEF DurationReflects
      <4> QED
        BY <4>2
    <3>2. CASE Of(D, {"shift"}) # {}
      <4>1. PICK o : o \in Of(D, {"shift"})
        BY <3>2
      <4>2. o \in D /\ o.kind = "shift"
        BY <4>1 DEF Of
      <4>3. o.delta \in Int /\ o.delta <= 0
        BY <4>2, Kinds
      <4>4. task.lo = was.lo + o.delta /\ task.hi = was.hi + o.delta
        BY <2>1, <4>1 DEF DurationReflects
      <4> QED
        BY <4>3, <4>4
    <3> QED
      BY <3>1, <3>2
  <2>5. task.earliest <= was.earliest
    <3>1. CASE Of(D, {"earliest"}) = {}
      BY <1>1, <3>1 DEF AttributesReflect
    <3>2. CASE Of(D, {"earliest"}) # {}
      <4>1. PICK o : o \in Of(D, {"earliest"})
        BY <3>2
      <4>2. o \in D /\ o.kind = "earliest"
        BY <4>1 DEF Of
      <4> QED
        BY <4>1, <4>2 DEF AttributesReflect
    <3> QED
      BY <3>1, <3>2
  <2>6. task.until <= was.until
    <3>1. CASE Of(D, {"blocker"}) = {}
      BY <1>1, <3>1 DEF AttributesReflect
    <3>2. CASE Of(D, {"blocker"}) # {}
      <4>1. PICK o : o \in Of(D, {"blocker"})
        BY <3>2
      <4>2. o \in D /\ o.kind = "blocker"
        BY <4>1 DEF Of
      <4> QED
        BY <4>1, <4>2 DEF AttributesReflect
    <3> QED
      BY <3>1, <3>2
  <2> QED
    BY <2>3, <2>4, <2>5, <2>6
<1>3. ASSUME task.state = "completed"
      PROVE  was.state # "completed" \/ task.finish <= was.finish
  <2>1. CASE Of(D, {"completed"}) = {}
    BY <1>1, <2>1 DEF AttributesReflect
  <2>2. CASE Of(D, {"completed"}) # {}
    <3>1. PICK o : o \in Of(D, {"completed"})
      BY <2>2
    <3>2. o \in D /\ o.kind = "completed"
      BY <3>1 DEF Of
    <3>3. task.finish = o.finish
      BY <3>1 DEF AttributesReflect
    <3> QED
      BY <3>2, <3>3
  <2> QED
    BY <2>1, <2>2
<1> QED
  BY <1>2, <1>3 DEF Relaxed

(* A plan whose tasks and dependencies are relaxed ones.                   *)
RelaxedPlan(was, plan) ==
    /\ \A t \in DOMAIN plan.tasks : t \in DOMAIN was.tasks /\ Relaxed(was.tasks[t], plan.tasks[t])
    /\ plan.edges \subseteq was.edges
    /\ \A g \in DOMAIN plan.teams :
          g \in DOMAIN was.teams /\ plan.teams[g].slowdown = was.teams[g].slowdown

(* Relaxing interventions relax a plan.                                    *)
LEMMA PlanIsRelaxed ==
    ASSUME CompileInv, Compiled, Consistent(primary), \A i \in DOMAIN ops : Relaxing(ops[i])
    PROVE  RelaxedPlan(baseline, primary)
<1> DEFINE D == {ops[i] : i \in DOMAIN ops}
<1>1. Reflects(baseline, D, primary)
  BY ItsSetFollows DEF PlanOfItsSet
<1>2. D \subseteq Intervention /\ \A o \in D : Relaxing(o)
  <2>1. ops \in Seq(Intervention)
    BY DEF CompileInv, WellFormed, ops
  <2> QED
    BY <2>1
<1> HIDE DEF D
<1>3. /\ TasksReflect(baseline.tasks, D, primary.tasks)
      /\ EdgesReflect(baseline.edges, D, primary.edges)
      /\ TeamsReflect(baseline.teams, D, primary.teams)
  BY <1>1 DEF Reflects
<1>4. /\ baseline.tasks \in [DOMAIN baseline.tasks -> PlanTask]
      /\ primary.tasks \in [DOMAIN primary.tasks -> PlanTask]
      /\ baseline.tasks = snap.tasks
  BY DEF CompileInv, ExecutionPlan, Baseline
<1>5. ASSUME NEW t \in DOMAIN primary.tasks
      PROVE  t \in DOMAIN baseline.tasks /\ Relaxed(baseline.tasks[t], primary.tasks[t])
  <2> DEFINE was == baseline.tasks[t]
             task == primary.tasks[t]
             E == ForTask(D, t)
  <2>1. /\ t \in DOMAIN baseline.tasks
        /\ DurationReflects(was, E, task) /\ AttributesReflect(was, E, task)
    BY <1>3 DEF TasksReflect
  <2>2. was \in PlanTask /\ task \in PlanTask /\ was = snap.tasks[t]
    BY <1>4, <2>1
  <2>3. E \subseteq Intervention
    BY <1>2 DEF ForTask
  <2> HIDE DEF was, task
  <2>4. ASSUME NEW o \in E
        PROVE  /\ o.kind # "duration"
               /\ o.kind = "shift" => o.delta <= 0
               /\ o.kind = "earliest" => o.at <= was.earliest
               /\ o.kind = "blocker" => o.until <= was.until
               /\ o.kind = "completed" => was.state # "completed" \/ o.finish <= was.finish
    <3>1. o \in D /\ o.kind \in TaskKinds /\ o.task = t
      BY DEF ForTask
    <3>2. Relaxing(o)
      BY <1>2, <3>1
    <3> QED
      BY <2>2, <3>1, <3>2 DEF Relaxing
  <2> HIDE DEF E
  <2>5. Relaxed(was, task)
    BY <2>1, <2>2, <2>3, <2>4, RelaxedTask
  <2> QED
    BY <2>1, <2>5 DEF was, task
<1>6. primary.edges \subseteq baseline.edges
  <2>1. Of(D, {"add"}) = {}
    BY <1>2 DEF Relaxing, Of
  <2> QED
    BY <1>3, <2>1 DEF EdgesReflect
<1>7. \A g \in DOMAIN primary.teams :
          g \in DOMAIN baseline.teams /\ primary.teams[g].slowdown = baseline.teams[g].slowdown
  BY <1>3 DEF TeamsReflect
<1> QED
  BY <1>5, <1>6, <1>7 DEF RelaxedPlan

(* Products keep an order.                                                 *)
LEMMA ProductsInOrder ==
    ASSUME NEW i \in Nat, NEW j \in Nat, i <= j, NEW k \in Nat
    PROVE  i * k <= j * k
OBVIOUS

(* On the same samples, a relaxed task takes no longer.                    *)
LEMMA RelaxedDays ==
    ASSUME NEW asOf, NEW was, Schedulable(was, asOf), Consistent(was),
           NEW plan, Schedulable(plan, asOf), Consistent(plan), RelaxedPlan(was, plan),
           NEW samples, Sampled(was, samples), Sampled(plan, samples),
           NEW t \in Open(plan)
    PROVE  t \in Open(was) /\ Days(plan, samples, t) <= Days(was, samples, t)
           /\ Days(plan, samples, t) \in Nat /\ Days(was, samples, t) \in Nat
<1> DEFINE b == was.tasks[t]
           p == plan.tasks[t]
           y == samples[Stream(was, t)]
           i == IF p.lo = p.hi THEN p.lo ELSE p.lo + (p.hi - p.lo) * y
           j == IF b.lo = b.hi THEN b.lo ELSE b.lo + (b.hi - b.lo) * y
           k == was.teams[b.team].slowdown
<1>1. /\ t \in DOMAIN plan.tasks /\ t \in DOMAIN was.tasks /\ p.state = "open"
      /\ Relaxed(b, p)
  BY DEF Open, RelaxedPlan
<1>2. t \in Open(was) /\ p.team = b.team /\ p.shape = b.shape
  BY <1>1 DEF Relaxed, Open
<1>3. PICK d \in Int : d <= 0 /\ p.lo = b.lo + d /\ p.hi = b.hi + d
  BY <1>1 DEF Relaxed
<1>4. /\ Days(plan, samples, t) \in Nat /\ Days(was, samples, t) \in Nat
      /\ p \in PlanTask /\ b \in PlanTask /\ b.team \in DOMAIN was.teams
      /\ p.team \in DOMAIN plan.teams
  BY <1>2, DaysTyped
<1>5. Stream(plan, t) = Stream(was, t)
  BY <1>2 DEF Stream
<1>6. plan.teams[p.team].slowdown = k /\ k \in Nat
  <2>1. was.teams[b.team] \in PlanTeam
    BY <1>4 DEF Schedulable, ExecutionPlan
  <2> QED
    BY <1>2, <1>4, <2>1 DEF RelaxedPlan, PlanTeam
<1>7. Days(plan, samples, t) = i * k /\ Days(was, samples, t) = j * k
  BY <1>5, <1>6 DEF Days
<1>8. p.lo \in Nat /\ p.hi \in Int /\ b.lo \in Nat /\ b.hi \in Int /\ p.lo <= p.hi /\ b.lo <= b.hi
      /\ (b.lo < b.hi => y \in {0, 1})
  BY <1>1, <1>2, <1>4 DEF Schedulable, Consistent, PlanTask, Sampled
<1> HIDE DEF b, p, y, k
<1>9. i \in Nat /\ j \in Nat /\ i <= j
  <2>1. CASE b.lo = b.hi
    BY <1>3, <1>8, <2>1
  <2>2. CASE b.lo < b.hi
    <3>1. p.lo < p.hi /\ y \in {0, 1}
      BY <1>3, <1>8, <2>2
    <3>2. i = IF y = 0 THEN p.lo ELSE p.hi
      <4>1. i = p.lo + (p.hi - p.lo) * y
        BY <1>8, <3>1
      <4> HIDE DEF i
      <4> QED
        BY <1>8, <3>1, <4>1
    <3>3. j = IF y = 0 THEN b.lo ELSE b.hi
      <4>1. j = b.lo + (b.hi - b.lo) * y
        BY <1>8, <2>2
      <4> HIDE DEF j
      <4> QED
        BY <1>8, <3>1, <4>1
    <3> HIDE DEF i, j
    <3> QED
      BY <1>3, <1>8, <3>1, <3>2, <3>3
  <2> QED
    BY <1>8, <2>1, <2>2
<1> HIDE DEF i, j
<1> QED
  BY <1>2, <1>4, <1>6, <1>7, <1>9, ProductsInOrder

(* A relaxed task is released no later.                                    *)
LEMMA RelaxedRelease ==
    ASSUME request \in Request, NEW was \in PlanTask, NEW task \in PlanTask,
           task.earliest <= was.earliest, task.until <= was.until
    PROVE  NotLater(Encode(cal, Base, Normalize(cal, LastOf(Constraints(task))), TRUE),
                    Encode(cal, Base, Normalize(cal, LastOf(Constraints(was))), TRUE))
<1> DEFINE S == Constraints(was)
           T == Constraints(task)
           m == LastOf(S)
           n == LastOf(T)
           x == Normalize(cal, m)
           y == Normalize(cal, n)
<1>1. /\ cal \in Calendar /\ Base \in Int /\ InShift(cal, Base)
      /\ snap.asOf \in Nat /\ snap.start \in Nat
  BY BaseFacts
<1>2. /\ x \in Int /\ Base <= x /\ m \in S /\ \A z \in S : z <= m
  BY ReleaseFacts
<1>3. /\ y \in Int /\ Base <= y /\ n \in T
  BY ReleaseFacts
<1>4. /\ S = {snap.asOf, snap.start, was.earliest, was.until} \ {None}
      /\ T = {snap.asOf, snap.start, task.earliest, task.until} \ {None}
      /\ None = -1
      /\ was.earliest \in Int /\ was.until \in Int /\ task.earliest \in Int /\ task.until \in Int
  BY DEF Constraints, None, PlanTask
<1> HIDE DEF S, T, m, n
<1>5. snap.asOf \in S /\ m \in Int /\ n \in Int
  BY <1>1, <1>2, <1>3, <1>4
<1>6. 0 <= m
  BY <1>1, <1>2, <1>5
<1>7. was.earliest <= m /\ was.until <= m /\ snap.asOf <= m /\ snap.start <= m
  BY <1>1, <1>2, <1>4, <1>6
<1>8. n <= m
  BY <1>1, <1>3, <1>4, <1>5, <1>7
<1>9. y <= x
  BY <1>1, <1>5, <1>8, NormalizeInOrder
<1>10. TRUE \in BOOLEAN
  OBVIOUS
<1> HIDE DEF x, y
<1>11. NotLater(Encode(cal, Base, y, TRUE), Encode(cal, Base, x, TRUE))
  BY <1>1, <1>2, <1>3, <1>9, <1>10, EncodeInOrder
<1> QED
  BY <1>11 DEF x, y, m, n, S, T

(* What is completed in a relaxed plan finished no later in the other.     *)
LEMMA DoneNoLater ==
    ASSUME request \in Request, NEW was, Schedulable(was, snap.asOf),
           NEW plan, Schedulable(plan, snap.asOf), RelaxedPlan(was, plan),
           NEW samples, PreparedSchedule(Prepared(was, samples)),
           PreparedSchedule(Prepared(plan, samples)),
           NEW s, NEW f, NEW end, Keeps(Prepared(was, samples), s, f, end),
           NEW u \in DOMAIN Prepared(plan, samples).done, was.tasks[u].state # "cancelled"
    PROVE  /\ Prepared(plan, samples).done[u] \in Instant /\ f[u] \in Instant
           /\ NotLater(Prepared(plan, samples).done[u], f[u])
<1> DEFINE p == Prepared(plan, samples)
           b == Prepared(was, samples)
           t == plan.tasks[u].finish
           w == Until(cal, Base)[Normalize(cal, t)]
           z == was.tasks[u].finish
           v == Until(cal, Base)[Normalize(cal, z)]
<1>1. cal \in Calendar /\ Base \in Int /\ InShift(cal, Base)
  BY BaseFacts
<1>2. /\ DOMAIN p.done = {x \in DOMAIN plan.tasks : plan.tasks[x].state = "completed"}
      /\ u \in DOMAIN p.done => t \in Int /\ t <= Base /\ p.done[u] = [work |-> -w, phase |-> 0]
      /\ u \in DOMAIN p.done => w \in Nat
  BY PreparedInCalendar
<1>3. /\ DOMAIN b.done = {x \in DOMAIN was.tasks : was.tasks[x].state = "completed"}
      /\ DOMAIN b.team = Open(was)
      /\ u \in DOMAIN b.done => z \in Int /\ z <= Base /\ b.done[u] = [work |-> -v, phase |-> 0]
      /\ u \in DOMAIN b.done => v \in Nat
  BY PreparedInCalendar
<1>4. /\ u \in DOMAIN plan.tasks /\ plan.tasks[u].state = "completed"
      /\ u \in DOMAIN was.tasks /\ Relaxed(was.tasks[u], plan.tasks[u])
  BY <1>2 DEF RelaxedPlan
<1>5. was.tasks[u].state \in {"open", "completed"}
  BY <1>4 DEF Schedulable, ExecutionPlan, PlanTask
<1>6. w \in Nat /\ p.done[u] = [work |-> -w, phase |-> 0] /\ t \in Int /\ t <= Base
  BY <1>2
<1>7. CASE was.tasks[u].state = "completed"
  <2>1. u \in DOMAIN b.done /\ t <= z
    BY <1>3, <1>4, <1>7 DEF Relaxed
  <2>2. f[u] = [work |-> -v, phase |-> 0] /\ v \in Nat /\ z \in Int /\ z <= Base
    BY <1>3, <2>1 DEF Keeps
  <2>3. v <= w
    <3> HIDE DEF t, z
    <3> QED
      BY <1>1, <1>6, <2>1, <2>2, EarlyInOrder
  <2> HIDE DEF p, b, v, w
  <2> QED
    BY <1>6, <2>2, <2>3 DEF Instant, NotLater, Later, p
<1>8. CASE was.tasks[u].state = "open"
  <2>1. u \in DOMAIN b.team
    BY <1>3, <1>4, <1>8 DEF Open
  <2>2. /\ s[u] \in Instant /\ f[u] \in Instant /\ NotLater(b.release[u], s[u])
        /\ f[u] = Advance(s[u], b.days[u])
    BY <2>1 DEF Keeps
  <2>3. b.release[u] \in Instant /\ NotLater(Zero, b.release[u]) /\ b.days[u] \in Nat
    BY <2>1 DEF PreparedSchedule
  <2>4. NotLater(s[u], f[u])
    BY <2>2, <2>3, AdvanceForward
  <2> HIDE DEF p, b, w
  <2>5. NotLater(Zero, f[u])
    BY <2>2, <2>3, <2>4, InstantOrder
  <2> QED
    BY <1>6, <2>2, <2>5 DEF Instant, NotLater, Later, Zero, p
<1> QED
  BY <1>5, <1>7, <1>8

(* A task that is not placed later than in the other schedule, when none   *)
(* of those it depends on finishes later.                                  *)
LEMMA TaskNoLater ==
    ASSUME request \in Request, NEW was, Validated(was), NEW plan, Validated(plan),
           RelaxedPlan(was, plan), NEW samples, Sampled(was, samples), Sampled(plan, samples),
           ScheduleInv, DoneKept, prep = Prepared(plan, samples),
           NEW s, NEW f, NEW end, Keeps(Prepared(was, samples), s, f, end),
           NEW t \in Placed, Cardinality(Active) <= prep.capacity[prep.team[t]],
           \A e \in Into(t) : e.from \in Active => NotLater(finish[e.from], f[e.from])
    PROVE  /\ finish[t] \in Instant /\ f[t] \in Instant /\ NotLater(finish[t], f[t])
           /\ NotLater(f[t], end)
<1> DEFINE b == Prepared(was, samples)
<1>1. PreparedSchedule(prep) /\ PreparedSchedule(b)
  BY PreparedFacts DEF Validated
<1>2. /\ Schedulable(was, snap.asOf) /\ Schedulable(plan, snap.asOf)
      /\ Consistent(was) /\ Consistent(plan)
  BY DEF Validated
<1>3. /\ ScheduleTypeOK /\ Feasible
      /\ t \in Active /\ Enabled(t) /\ start[t] \in Instant /\ finish[t] \in Instant
      /\ finish[t] = Advance(start[t], prep.days[t])
  BY DEF ScheduleInv, SlotInv, ScheduleTypeOK, Feasible, Enabled
<1>4. /\ prep.release = [u \in Open(plan) |->
             Encode(cal, Base, Normalize(cal, LastOf(Constraints(plan.tasks[u]))), TRUE)]
      /\ prep.days = [u \in Open(plan) |-> Days(plan, samples, u)]
      /\ prep.edges = Scheduling(plan)
      /\ prep.team = [u \in Open(plan) |-> plan.tasks[u].team]
      /\ b.release = [u \in Open(was) |->
             Encode(cal, Base, Normalize(cal, LastOf(Constraints(was.tasks[u]))), TRUE)]
      /\ b.days = [u \in Open(was) |-> Days(was, samples, u)]
      /\ b.edges = Scheduling(was)
      /\ b.team = [u \in Open(was) |-> was.tasks[u].team]
  BY DEF Prepared
<1> HIDE DEF b
<1>5. t \in Open(plan)
  BY <1>3, <1>4 DEF Active
<1>6. /\ t \in Open(was) /\ prep.days[t] <= b.days[t]
      /\ prep.days[t] \in Nat /\ b.days[t] \in Nat
  BY <1>2, <1>4, <1>5, RelaxedDays
<1>7. /\ s[t] \in Instant /\ f[t] \in Instant /\ NotLater(b.release[t], s[t])
      /\ f[t] = Advance(s[t], b.days[t]) /\ NotLater(f[t], end)
  BY <1>4, <1>6 DEF Keeps, b
<1>8. NotLater(prep.release[t], s[t])
  <2>1. /\ t \in DOMAIN plan.tasks /\ plan.tasks[t].state = "open" /\ t \in DOMAIN was.tasks
        /\ Relaxed(was.tasks[t], plan.tasks[t])
    BY <1>5 DEF Open, RelaxedPlan
  <2>2. /\ plan.tasks[t] \in PlanTask /\ was.tasks[t] \in PlanTask
        /\ plan.tasks[t].earliest <= was.tasks[t].earliest
        /\ plan.tasks[t].until <= was.tasks[t].until
    BY <1>2, <2>1 DEF Schedulable, ExecutionPlan, Relaxed
  <2>3. NotLater(prep.release[t], b.release[t])
    BY <1>4, <1>5, <1>6, <2>2, RelaxedRelease
  <2>4. prep.release[t] \in Instant /\ b.release[t] \in Instant
    BY <1>1, <1>4, <1>5, <1>6 DEF PreparedSchedule
  <2> QED
    BY <1>7, <2>3, <2>4, InstantOrder
<1>9. ASSUME NEW e \in Into(t)
      PROVE  NotLater(Advance(finish[e.from], e.lag), s[t])
  <2>1. e \in plan.edges /\ e.to = t /\ e \in prep.edges
    BY <1>4 DEF Into, Scheduling
  <2>2. e \in was.edges /\ was.tasks[e.from].state # "cancelled" /\ e \in Scheduling(was)
    BY <1>2, <1>6, <2>1 DEF RelaxedPlan, Consistent, Scheduling
  <2>3. NotLater(Advance(f[e.from], e.lag), s[t])
    BY <1>4, <2>1, <2>2 DEF Keeps, b
  <2>4. e.lag \in Nat /\ e.from \in Active \cup DOMAIN prep.done
    BY <1>1, <2>1 DEF PreparedSchedule, Edge, Active
  <2>5. finish[e.from] \in Instant /\ f[e.from] \in Instant /\ NotLater(finish[e.from], f[e.from])
    <3>1. CASE e.from \in Active
      <4>1. finish[e.from] \in Instant
        BY <1>3 DEF Enabled, ScheduleTypeOK
      <4>2. e.from \in Open(plan)
        BY <1>4, <3>1 DEF Active
      <4>3. e.from \in Open(was)
        BY <1>2, <4>2, RelaxedDays
      <4>4. f[e.from] \in Instant
        BY <1>4, <4>3 DEF Keeps, b
      <4> QED
        BY <3>1, <4>1, <4>4
    <3>2. CASE e.from \in DOMAIN prep.done
      <4>1. finish[e.from] = prep.done[e.from]
        BY <3>2 DEF DoneKept
      <4> QED
        BY <1>1, <1>2, <2>2, <3>2, <4>1, DoneNoLater DEF b
    <3> QED
      BY <2>4, <3>1, <3>2
  <2>6. /\ NotLater(Advance(finish[e.from], e.lag), Advance(f[e.from], e.lag))
        /\ Advance(finish[e.from], e.lag) \in Instant /\ Advance(f[e.from], e.lag) \in Instant
    <3>1. e.lag <= e.lag
      BY <2>4
    <3> QED
      BY <2>4, <2>5, <3>1, AdvanceInOrder, AdvanceForward
  <2> QED
    BY <1>7, <2>3, <2>6, InstantOrder
<1>10. NotLater(start[t], s[t])
  <2>1. start[t] = Ready(t)
    BY NoWaiting
  <2>2. Ready(t) \in {prep.release[t]} \cup DependencyReady(t)
    BY <1>3, LatestHolds DEF ReadyIsLatest
  <2> QED
    BY <1>8, <1>9, <2>1, <2>2 DEF DependencyReady
<1>11. NotLater(Advance(start[t], prep.days[t]), Advance(s[t], b.days[t]))
  BY <1>3, <1>6, <1>7, <1>10, AdvanceInOrder
<1> QED
  BY <1>3, <1>7, <1>11

(* No task finishes later than in the baseline: of those that did, one     *)
(* would have no predecessor among them.                                   *)
LEMMA RelaxingFollows == SimInv => RelaxingNeverDelays
<1> SUFFICES ASSUME SimInv, phase = "done", ops # <<>>, Unconstrained(primary),
                    \A i \in DOMAIN ops : Relaxing(ops[i])
             PROVE  NotLater(ProjectFinish, before)
  BY DEF RelaxingNeverDelays
<1>1. /\ request \in Request /\ Validated(baseline) /\ Validated(primary) /\ Compiled /\ CompileInv
  BY DEF SimInv, PlansInv, PlannedPhases
<1>2. /\ ScheduleInv /\ DoneKept /\ Unscheduled = {} /\ ScheduleTypeOK
      /\ Sampled(baseline, unit) /\ Sampled(primary, unit)
      /\ prep = Prepared(primary, unit)
      /\ before \in Instant /\ NotLater(Zero, before)
      /\ Kept(Prepared(baseline, unit), before)
  BY DEF SimInv, SchedulesInv, RunPhases, ScheduledPlan, ScheduleInv
<1>3. RelaxedPlan(baseline, primary)
  BY <1>1, PlanIsRelaxed DEF Validated
<1>4. PICK s, f : Keeps(Prepared(baseline, unit), s, f, before)
  BY <1>2 DEF Kept
<1>5. Placed = Active /\ Active = Open(primary)
  BY <1>2 DEF Unscheduled, ScheduleTypeOK, Prepared, Active
<1>6. ASSUME NEW t \in Placed PROVE Cardinality(Active) <= prep.capacity[prep.team[t]]
  <2>1. prep.capacity = [g \in DOMAIN primary.teams |-> primary.teams[g].capacity]
    BY <1>2 DEF Prepared
  <2>2. prep.team[t] \in DOMAIN prep.capacity
    BY <1>2 DEF ScheduleTypeOK, PreparedSchedule, Active
  <2>3. prep.team[t] \in DOMAIN primary.teams
    BY <2>1, <2>2
  <2>4. primary.teams[prep.team[t]].capacity >= Cardinality(Open(primary))
    BY <2>3 DEF Unconstrained
  <2> QED
    BY <1>5, <2>1, <2>3, <2>4
<1> DEFINE S == {t \in Active : Later(finish[t], f[t])}
<1>7. S = {}
  <2> SUFFICES ASSUME S # {} PROVE FALSE
    OBVIOUS
  <2>1. Acyclic(prep.edges, Active)
    BY <1>2 DEF ScheduleTypeOK, PreparedSchedule, Active
  <2>2. S \in SUBSET Active
    OBVIOUS
  <2>3. PICK t \in S : \A e \in prep.edges : e.to = t => e.from \notin S
    <3> HIDE DEF S
    <3> QED
      BY <2>1, <2>2 DEF Acyclic
  <2>4. t \in Placed /\ Later(finish[t], f[t])
    BY <1>5
  <2>5. \A e \in Into(t) : e.from \in Active => NotLater(finish[e.from], f[e.from])
    BY <2>3 DEF Into, NotLater
  <2>6. NotLater(finish[t], f[t])
    <3> HIDE DEF S
    <3> QED
      BY <1>1, <1>2, <1>3, <1>4, <1>6, <2>4, <2>5, TaskNoLater
  <2> QED
    BY <2>4, <2>6 DEF NotLater
<1>8. ASSUME NEW t \in Placed PROVE NotLater(finish[t], before)
  <2>1. \A e \in Into(t) : e.from \in Active => NotLater(finish[e.from], f[e.from])
    BY <1>7 DEF NotLater
  <2>2. /\ finish[t] \in Instant /\ f[t] \in Instant /\ NotLater(finish[t], f[t])
        /\ NotLater(f[t], before)
    <3> HIDE DEF S
    <3> QED
      BY <1>1, <1>2, <1>3, <1>4, <1>6, <2>1, TaskNoLater
  <2> QED
    BY <1>2, <2>2, InstantOrder
<1> QED
  BY <1>2, <1>8, LastFinish

-----------------------------------------------------------------------------
(* Every state of a request is typed (models.py, simulation.py).           *)
THEOREM SimTypeCorrect == SimSpec => []TypeOK
<1>1. SimInv => TypeOK
  <2> SUFFICES ASSUME SimInv PROVE TypeOK
    OBVIOUS
  <2>1. request \in Request /\ phase \in Phases /\ ScheduleTypeOK /\ before \in Instant
    BY DEF SimInv, PlansInv, SchedulesInv, ScheduleInv
  <2> QED
    BY <2>1, RequestFacts DEF TypeOK
<1> QED
  BY <1>1, SimInvHolds, PTL

(* For every snapshot: _find_cycle ends with a shortest cycle, and with    *)
(* none only if the dependencies have none.                                *)
THEOREM CycleIsShortestHolds == SimSpec => []CycleIsShortest
<1>1. SimInv => CycleIsShortest
  BY ShortestFollows DEF SimInv, PlansInv, CycleIsShortest
<1> QED
  BY <1>1, SimInvHolds, PTL

(* The plan of the scenario is made by the set of its interventions, in    *)
(* the whole request, too.                                                 *)
THEOREM SimPlanOfItsSet == SimSpec => []PlanOfItsSet
<1>1. SimInv => PlanOfItsSet
  <2> SUFFICES ASSUME SimInv PROVE PlanOfItsSet
    OBVIOUS
  <2>1. CASE at = 0
    <3>1. ops \in Seq(Intervention)
      BY RequestFacts DEF SimInv, PlansInv
    <3>2. ~Compiled
      BY <2>1, <3>1 DEF Compiled
    <3> QED
      BY <3>2 DEF PlanOfItsSet
  <2>2. CASE CompileInv
    BY <2>2, ItsSetFollows
  <2> QED
    BY <2>1, <2>2 DEF SimInv, PlansInv
<1> QED
  BY <1>1, SimInvHolds, PTL

(* Both schedules of a request are feasible, keep the capacities, are      *)
(* explained by their chains, leave no ready task waiting and end with     *)
(* every task placed: run_simulation only schedules what                   *)
(* _schedule_iteration presumes.                                           *)
THEOREM EveryScheduleHolds ==
    SimSpec => [](/\ Feasible /\ CapacityKept /\ ChainIsTight
                  /\ NoIdleWait /\ LowestFirst /\ NeverStuck)
<1>1. SimInv => Feasible /\ CapacityKept /\ ChainIsTight /\ NoIdleWait /\ LowestFirst /\ NeverStuck
  BY CapacityFollows, NoIdleFollows, NeverStuckFollows
     DEF SimInv, SchedulesInv, ScheduleInv, SlotInv, WaitInv
<1> QED
  BY <1>1, SimInvHolds, PTL

(* For every calendar, plan and sample: an iteration counts as on time     *)
(* exactly when the date that _forecast reports for it is not after the    *)
(* target.                                                                 *)
THEOREM OnTimeHolds == SimSpec => []OnTimeMeansOnTime
<1>1. SimInv => OnTimeMeansOnTime
  <2> SUFFICES ASSUME SimInv, phase = "done"
               PROVE  OnTime <=> FinishDate <= primary.target
    BY DEF OnTimeMeansOnTime
  <2> DEFINE t == TargetCutoff(primary.target)
             a == ProjectFinish
  <2>1. request \in Request /\ primary.target \in Int /\ ScheduleTypeOK /\ InCalendar
    BY DEF SimInv, PlansInv, PlannedPhases, SchedulesInv, RunPhases, ScheduleInv
  <2>2. cal \in Calendar /\ Base \in Int /\ InShift(cal, Base)
    BY <2>1, BaseFacts
  <2>3. OfSchedule(cal, Base, a)
    <3>1. OfSchedule(cal, Base, Zero)
      BY DEF OfSchedule, Zero, Instant
    <3> QED
      BY <2>1, <3>1, LastFinish DEF InCalendar
  <2>4. t \in Int /\ t = (primary.target + 1) * DayTicks
    BY <2>1, CalendarAssumption DEF TargetCutoff
  <2>5. OnTime <=> Later(Encode(cal, Base, t, FALSE), a)
    BY DEF OnTime
  <2>6. FinishDate = LocalDate(Decode(cal, Base, a))
    BY DEF FinishDate
  <2> HIDE DEF t, a
  <2>7. Decode(cal, Base, a) \in Int
    BY <2>2, <2>3, DecodeIs
  <2>8. Decode(cal, Base, a) < t <=> Later(Encode(cal, Base, t, FALSE), a)
    <3>1. FALSE \in BOOLEAN /\ t \in Int
      BY <2>4
    <3> QED
      BY <2>2, <2>3, <3>1, DecodeBefore
  <2> DEFINE x == Decode(cal, Base, a)
             d == LocalDate(x)
             n == primary.target
  <2>10. x \in Int /\ n \in Int
    BY <2>1, <2>7
  <2> HIDE DEF x
  <2>9. d \in Int /\ d * DayTicks <= x /\ x < d * DayTicks + DayTicks
    BY <2>10, DayOf
  <2> HIDE DEF d, n
  <2>11. DayTicks \in Nat \ {0}
    BY CalendarAssumption
  <2>12. d * DayTicks + DayTicks = (d + 1) * DayTicks
    BY <2>9, <2>11, Products
  <2>13. /\ d * DayTicks \in Int /\ (d + 1) * DayTicks \in Int /\ (n + 1) * DayTicks \in Int
        /\ d + 1 \in Int /\ n + 1 \in Int
    BY <2>9, <2>10, <2>11, Products
  <2>14. CASE d <= n
    <3>1. (d + 1) * DayTicks <= (n + 1) * DayTicks
      BY <2>9, <2>10, <2>11, <2>13, <2>14, Products
    <3>2. d <= n /\ x < (n + 1) * DayTicks
      <4> DEFINE p == (d + 1) * DayTicks
                 q == (n + 1) * DayTicks
      <4>1. p \in Int /\ q \in Int /\ p <= q /\ x < p
        BY <2>9, <2>12, <2>13, <3>1
      <4> HIDE DEF p, q
      <4>2. x < q
        BY <2>10, <4>1
      <4> QED
        BY <2>14, <4>2 DEF q
    <3> QED
      BY <2>4, <2>5, <2>6, <2>8, <3>2 DEF x, d, n
  <2>15. CASE n < d
    <3>1. (n + 1) * DayTicks <= d * DayTicks
      BY <2>9, <2>10, <2>11, <2>13, <2>15, Products
    <3>2. ~(d <= n) /\ ~(x < (n + 1) * DayTicks)
      <4> DEFINE p == d * DayTicks
                 q == (n + 1) * DayTicks
      <4>1. p \in Int /\ q \in Int /\ q <= p /\ p <= x
        BY <2>9, <2>13, <3>1
      <4> HIDE DEF p, q
      <4>2. ~(x < q) /\ ~(d <= n)
        BY <2>9, <2>10, <2>15, <4>1
      <4> QED
        BY <4>2 DEF q
    <3> QED
      BY <2>4, <2>5, <2>6, <2>8, <3>2 DEF x, d, n
  <2> QED
    BY <2>9, <2>10, <2>14, <2>15
<1> QED
  BY <1>1, SimInvHolds, PTL

(* For every plan and sample: on every calendar a task starts, in civil    *)
(* time, no earlier than its constraints, than the lags after completed    *)
(* tasks, and than the lags after scheduled ones as working time since the *)
(* base; where no shift passes midnight, nor than these lags added to the  *)
(* civil instants at which the scheduled tasks finish.                     *)
THEOREM StartsAreTimelyHolds == SimSpec => []StartsAreTimely
BY TimelyFollows, SimInvHolds, PTL

(* For every request and sample: interventions that only relax a plan      *)
(* never delay the project where the scenario leaves no team short of      *)
(* slots.                                                                  *)
THEOREM RelaxingHolds == SimSpec => []RelaxingNeverDelays
BY RelaxingFollows, SimInvHolds, PTL

(* Only plans without a cycle, whose dependencies are among their tasks    *)
(* and whose teams have slots, are sampled and scheduled; the scenario's   *)
(* with all of its interventions applied.                                  *)
THEOREM ScheduledIsValidated ==
    SimSpec => [](phase \in PlannedPhases =>
                    /\ Validated(baseline) /\ Validated(primary)
                    /\ ops = <<>> => primary = baseline
                    /\ ops # <<>> => Compiled)
<1>1. SimInv => (phase \in PlannedPhases =>
                    /\ Validated(baseline) /\ Validated(primary)
                    /\ ops = <<>> => primary = baseline
                    /\ ops # <<>> => Compiled)
  BY DEF SimInv, PlansInv
<1> QED
  BY <1>1, SimInvHolds, PTL

(* _validate_plan refuses a plan as cyclic exactly if it has a cycle: when *)
(* no task is ready any more, all have been visited or some wait for each  *)
(* other.                                                                  *)
THEOREM ValidationDecides ==
    SimSpec => [](phase \in {"validating", "revalidating"} /\ Visited =>
                    (Ordered <=> WithoutCycle(GraphOf(primary.tasks, primary.edges))))
<1>1. SimInv => (phase \in {"validating", "revalidating"} /\ Visited =>
                    (Ordered <=> WithoutCycle(GraphOf(primary.tasks, primary.edges))))
  <2> SUFFICES ASSUME SimInv, phase \in {"validating", "revalidating"}, Visited
               PROVE  Ordered <=> WithoutCycle(GraphOf(primary.tasks, primary.edges))
    OBVIOUS
  <2>1. OrderInv /\ graph = GraphOf(primary.tasks, primary.edges)
    BY DEF SimInv, PlansInv, Ordering
  <2> QED
    BY <2>1, OrderedFollows
<1> QED
  BY <1>1, SimInvHolds, PTL

(* What working_days_between counts is what add_workdays adds: in every    *)
(* calendar, work fits between two instants exactly if it is not more than *)
(* the work between them.                                                  *)
THEOREM WorkFitsBetween ==
    ASSUME NEW c \in Calendar, NEW s \in Int, NEW t \in Int, Normalize(c, s) <= t, NEW w \in Nat
    PROVE  AddWork(c, s, w) <= t <=> w <= WorkBetween(c, s, t)
<1> DEFINE m == Normalize(c, s)
<1>1. m \in Int /\ s <= m /\ m <= t
  BY NormalizeFacts
<1>2. s <= t
  BY <1>1
<1>3. WorkBetween(c, s, t) = Until(c, t)[m] /\ AddWork(c, s, w) = After(c)[<<m, w>>]
  BY <1>2, WorkUntilIs, AddWorkIs DEF WorkBetween
<1> HIDE DEF m
<1> QED
  BY <1>1, <1>3, WorkFits

=============================================================================
