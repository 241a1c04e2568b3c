---------------------------- MODULE MCSimulation ----------------------------
(***************************************************************************)
(* Requests for TLC.  A day has four ticks; day 0 is a Monday.             *)
(***************************************************************************)
EXTENDS Simulation

Weekdays == 1..5
Office == [weekdays |-> Weekdays, holidays |-> {}, opens |-> 1, shift |-> 2]
Nights == [weekdays |-> Weekdays, holidays |-> {}, opens |-> 3, shift |-> 3]
Sparse == [weekdays |-> {1, 3, 7}, holidays |-> {2, 7}, opens |-> 0, shift |-> 1]
Always == [weekdays |-> 1..7, holidays |-> {}, opens |-> 0, shift |-> 4]

Work(team, lo, hi) ==
    [state |-> "open", team |-> team, lo |-> lo, hi |-> hi, shape |-> 0,
     earliest |-> None, until |-> None, finish |-> None]
Finished(when) == [Work("A", 0, 0) EXCEPT !.state = "completed", !.finish = when]
Cancelled == [Work("A", 0, 0) EXCEPT !.state = "cancelled"]

Slots(n) == [capacity |-> n, slowdown |-> 1]
Dep(a, b, lag) == [from |-> a, to |-> b, lag |-> lag]

(* A snapshot taken on the first Monday, when work begins.                 *)
Snapshot(tasks, deps, teams) ==
    [asOf |-> 1, start |-> 1, target |-> None, cal |-> Office,
     tasks |-> tasks, deps |-> deps, teams |-> teams]

Plain(s) == [snap |-> s, scenario |-> [ops |-> <<>>, target |-> None]]
WithOps(s, seq) == [snap |-> s, scenario |-> [ops |-> seq, target |-> s.target]]

-----------------------------------------------------------------------------
(* Every graph without self-edges on four tasks.                           *)
GraphRequests ==
    {Plain(Snapshot([t \in 1..4 |-> Work("A", 0, 0)], deps, [g \in {"A"} |-> Slots(1)])) :
        deps \in SUBSET {Dep(p[1], p[2], 0) : p \in {q \in (1..4) \X (1..4) : q[1] # q[2]}}}

(* Instants around shifts, nights, weekends and holidays: an empty project,*)
(* and two tasks, one of them released late, after a finished one.         *)
CalendarRequests ==
    {Plain([asOf |-> asOf, start |-> begin, target |-> target, cal |-> c,
            tasks |-> <<>>, deps |-> {}, teams |-> <<>>]) :
        asOf \in 12..30, begin \in {9, 20, 26}, target \in 3..8,
        c \in {Office, Nights, Sparse, Always}}
    \cup
    {Plain([asOf |-> asOf, start |-> 13, target |-> target, cal |-> c,
            tasks |-> <<Finished(asOf - ago), Work("A", d, d),
                        [Work("A", 0, 2) EXCEPT !.earliest = late, !.until = blocked]>>,
            deps |-> {Dep(1, 2, lag), Dep(2, 3, lag \div 2)},
            teams |-> [g \in {"A"} |-> Slots(1)]]) :
        asOf \in {12, 17, 19, 23, 24}, ago \in {0, 3}, target \in {4, 5, 6, 7}, lag \in {0, 2},
        d \in {0, 1, 3}, late \in {None, 21, 28}, blocked \in {None, 26},
        c \in {Office, Nights, Sparse, Always}}

(* Four tasks of two teams: dependencies against and along the order of    *)
(* the ids, with lags, with few and enough slots, and a later release.     *)
ScheduleRequests ==
    {Plain(Snapshot(
        [t \in 1..4 |-> [Work(IF t \in inA THEN "A" ELSE "B", lo[t], 3)
                            EXCEPT !.earliest = IF t = 1 THEN late ELSE None]],
        deps, [A |-> Slots(n), B |-> [capacity |-> 1, slowdown |-> 2]])) :
        inA \in {{1, 2, 3, 4}, {1, 2, 4}, {2, 3}}, lo \in {<<0, 1, 1, 0>>, <<1, 0, 2, 3>>},
        late \in {None, 6}, n \in 1..3,
        deps \in {{Dep(a[1], a[2], lag) : a \in S} :
                    S \in SUBSET {<<3, 1>>, <<4, 2>>, <<1, 4>>, <<2, 3>>}, lag \in {0, 1}}}

(* Interventions, applicable and not, alone, in pairs and in triples.      *)
Changes ==
    {[kind |-> "duration", task |-> 1, lo |-> 1, hi |-> 3, shape |-> 1],
     [kind |-> "shift", task |-> 1, delta |-> 1],
     [kind |-> "shift", task |-> 2, delta |-> -1],
     [kind |-> "earliest", task |-> 3, at |-> 2],
     [kind |-> "add", from |-> 3, to |-> 1, lag |-> 1],
     [kind |-> "add", from |-> 1, to |-> 2, lag |-> 0],
     [kind |-> "remove", from |-> 1, to |-> 2],
     [kind |-> "scope", task |-> 1],
     [kind |-> "scope", task |-> 2],
     [kind |-> "capacity", team |-> "A", delta |-> 1],
     [kind |-> "capacity", team |-> "A", delta |-> -1],
     [kind |-> "blocker", task |-> 2, until |-> 5],
     [kind |-> "completed", task |-> 1, finish |-> 0],
     [kind |-> "completed", task |-> 4, finish |-> 3]}

Project(n) ==
    Snapshot(<<Work("A", 0, 2), [Work("A", 1, 3) EXCEPT !.until = 9],
               [Work("B", 1, 1) EXCEPT !.earliest = 6], Cancelled>>,
             {Dep(1, 2, 0), Dep(1, 2, 2), Dep(2, 3, 0)},
             [A |-> Slots(n), B |-> Slots(3)])

ScenarioRequests ==
    {WithOps(Project(n), <<o>>) : n \in {1, 3}, o \in Changes}
    \cup {WithOps(Project(n), <<o, p>>) : n \in {1, 3}, o \in Changes, p \in Changes}
    \cup {WithOps(Project(3), <<o, p, q>>) :
            o \in {i \in Changes : i.kind \in {"add", "scope"}},
            p \in Changes, q \in Changes}
    \cup {WithOps([Project(3) EXCEPT !.asOf = 5, !.tasks[1] = Finished(1)],
                  <<[kind |-> "completed", task |-> 1, finish |-> when]>>) : when \in {0, 5}}

MCRequest == GraphRequests \cup CalendarRequests \cup ScheduleRequests \cup ScenarioRequests

=============================================================================
