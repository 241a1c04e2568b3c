-------------------------- MODULE WorkingCalendar --------------------------
(***************************************************************************)
(* Working time over civil time (calendar_math.py), and the encoding of    *)
(* civil instants as working time since a base (simulation.py,             *)
(* _external_work_instant).  A civil instant is a number of ticks, a local *)
(* date a number of days, of DayTicks each; day 0 is a Monday.  A calendar *)
(* has the ISO numbers of its working weekdays, its holidays, and the      *)
(* start and length of a shift, which may pass midnight.                   *)
(*                                                                         *)
(* Calendars have so few holidays that there is a working day within       *)
(* Guardrail days of every day; others are refused when such a day is asked*)
(* for (invalid_calendar).  Local time has no daylight saving here.        *)
(***************************************************************************)
EXTENDS WorkInstant, FiniteSets

CONSTANTS DayTicks, Guardrail

ASSUME CalendarAssumption == DayTicks \in Nat \ {0} /\ Guardrail \in Nat \ {0}

Calendar ==
    {c \in [weekdays: (SUBSET (1..7)) \ {{}}, holidays: SUBSET Nat,
            opens: 0..(DayTicks - 1), shift: 1..DayTicks] :
        IsFiniteSet(c.holidays) /\ 7 * (Cardinality(c.holidays) + 1) <= Guardrail}

LocalDate(t) == t \div DayTicks

IsWorkingDay(cal, day) ==
    (day % 7) + 1 \in cal.weekdays /\ day \notin cal.holidays

ShiftStart(cal, day) == day * DayTicks + cal.opens
ShiftEnd(cal, day) == ShiftStart(cal, day) + cal.shift

NextWorkingStart(cal, day) ==
    ShiftStart(cal, CHOOSE d \in day..(day + Guardrail - 1) :
                        /\ IsWorkingDay(cal, d)
                        /\ \A e \in day..(d - 1) : ~IsWorkingDay(cal, e))

(* The first working instant that is not before t.                         *)
Normalize(cal, t) ==
    LET day == LocalDate(t)
    IN  IF ~IsWorkingDay(cal, day) \/ t >= ShiftEnd(cal, day)
        THEN NextWorkingStart(cal, day + 1)
        ELSE IF t < ShiftStart(cal, day) THEN ShiftStart(cal, day) ELSE t

(* add_workdays: shift by shift; work that fills a shift ends with it, not *)
(* at the start of the next one.                                           *)
AddWork(cal, t, work) ==
    LET after[x \in Int \X Nat] ==
            LET cur == x[1]
                end == ShiftEnd(cal, LocalDate(cur))
                available == IF end > cur THEN end - cur ELSE 0
            IN  IF x[2] <= available THEN cur + x[2]
                ELSE after[<<NextWorkingStart(cal, LocalDate(cur) + 1), x[2] - available>>]
    IN  after[<<Normalize(cal, t), work>>]

(* The loop of working_days_between, to t.                                 *)
WorkUntil(cal, s, t) ==
    LET until[cur \in Int] ==
            LET end == ShiftEnd(cal, LocalDate(cur))
            IN  IF cur >= t THEN 0
                ELSE IF end >= t THEN t - cur
                ELSE (IF end > cur THEN end - cur ELSE 0)
                        + until[NextWorkingStart(cal, LocalDate(cur) + 1)]
    IN  until[Normalize(cal, s)]

(* working_days_between: work from one instant to another, negative when   *)
(* the second is earlier.                                                  *)
WorkBetween(cal, s, t) ==
    IF s <= t THEN WorkUntil(cal, s, t) ELSE -WorkUntil(cal, t, s)

(* Mutant: the gap before the next shift is not encoded. *)
EncodeWithoutPhase(cal, base, t, floored) ==
    LET between == WorkBetween(cal, base, t)
    IN  [work |-> IF floored /\ between < 0 THEN 0 ELSE between, phase |-> 0]

(* _external_work_instant: a civil instant as working time since base.     *)
Encode(cal, base, t, floored) ==
    LET between == WorkBetween(cal, base, t)
        work == IF floored /\ between < 0 THEN 0 ELSE between
        canonical == AddWork(cal, base, work)
        next == Normalize(cal, canonical)
    IN  [work |-> work,
         phase |-> IF work < 0 \/ t <= canonical \/ next <= canonical THEN 0
                   ELSE (IF t < next THEN t ELSE next) - canonical]

(* The civil instant that _forecast makes of an encoded instant: any       *)
(* phase is beyond the tolerance of add_workdays and so in the next shift. *)
Decode(cal, base, a) ==
    LET t == AddWork(cal, base, a.work)
    IN  IF a.phase > 0 THEN Normalize(cal, t) ELSE t

(* target_cutoff: the start of the civil day after the target.             *)
TargetCutoff(day) == (day + 1) * DayTicks

=============================================================================
