---------------------------- MODULE EventHistory ----------------------------
(***************************************************************************)
(* What apply and rollback promise about a tenant's committed state, with  *)
(* no map, approval, request in flight or idempotency row in sight: each   *)
(* call adds one receipt, and moves the projection by exactly what the     *)
(* receipt says - by its own event's facts, or back by what one earlier    *)
(* apply had added, when nothing has been applied on top of it.            *)
(***************************************************************************)
EXTENDS Naturals

CONSTANT Empty      \* the projection of a tenant that has none

VARIABLES
    projection,     \* its version, and the events whose facts it holds
    receipts        \* of all applies and rollbacks

vars == <<projection, receipts>>

Init == projection = Empty /\ receipts = {}

(* An Idempotency-Key names one call of an operation on an event.          *)
KeyIsFree(x) == \A y \in receipts : ~(y.op = x.op /\ y.ev = x.ev /\ y.key = x.key)

(* The projection is the one that the apply y has left.                    *)
LeftBy(y) == y \in receipts /\ y.op = "apply" /\ y.rv.mode = "reality" /\ y.after = projection

Move(x, facts) ==
    /\ x.before = projection
    /\ x.after = [ver |-> projection.ver + 1, facts |-> facts]
    /\ projection' = x.after

(* An apply is of the reviewed payload, to the projection it was reviewed  *)
(* against; a scenario branches off and leaves it.                         *)
Apply(x) ==
    /\ x.op = "apply"
    /\ x.rv.snap = projection
    /\ \/ x.rv.mode = "reality" /\ Move(x, projection.facts \cup {x.ev})
       \/ x.rv.mode # "reality" /\ x.before = projection /\ UNCHANGED projection

Rollback(x) ==
    /\ x.op = "rollback"
    /\ \/ /\ x.rv.mode = "reality"
          /\ \E y \in receipts : /\ LeftBy(y)
                                 /\ y.ev = x.ev /\ y.ap = x.ap
                                 /\ Move(x, y.before.facts)
       \/ x.rv.mode # "reality" /\ UNCHANGED projection

(* The new receipts determine the call, drawn from an infinite set.        *)
Next ==
    \E x \in receipts' \ receipts :
        /\ KeyIsFree(x)
        /\ receipts' = receipts \cup {x}
        /\ Apply(x) \/ Rollback(x)

Spec == Init /\ [][Next]_vars
=============================================================================
