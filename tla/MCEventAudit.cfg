CONSTANTS
    Slot = {s1}
    MaxAudits = 3
    MaxFaults = 0
SPECIFICATION Spec
INVARIANT RefusedOnlyIfBroken
CHECK_DEADLOCK FALSE
