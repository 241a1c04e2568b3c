------------------------ MODULE MCEventIntelligence -------------------------
(* Instances of EventIntelligence for TLC.                                 *)
EXTENDS EventIntelligence, TLC

(* Requests in flight are interchangeable.                                 *)
Slots == Permutations(Slot)
=============================================================================
