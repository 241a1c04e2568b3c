---------------------------- MODULE WorkInstant ----------------------------
(***************************************************************************)
(* Instants of the simulation engine (apps/ai-worker/src/edt_ai_worker/    *)
(* simulation.py): working time since the base of a run, and a phase that  *)
(* orders the civil instants of the non-working gap that follows it.       *)
(* Working time is counted in ticks, the phase in ticks of civil time      *)
(* since the gap began.  The code divides the phase by the length of the   *)
(* gap; phases are only compared within one gap.                           *)
(***************************************************************************)
EXTENDS Integers

Instant == [work: Int, phase: Nat]

Zero == [work |-> 0, phase |-> 0]

(* key(): lexicographic order, which encoded() keeps.                      *)
Later(a, b) == \/ a.work > b.work
               \/ a.work = b.work /\ a.phase > b.phase

NotLater(a, b) == ~Later(a, b)

(* No work keeps the instant, any work leaves the gap.                     *)
Advance(a, days) ==
    IF days = 0 THEN a ELSE [work |-> a.work + days, phase |-> 0]

(* The last of a set of instants.                                          *)
Latest(S) == CHOOSE a \in S : \A b \in S : NotLater(b, a)

=============================================================================
