CONSTANTS
    Suggestion = {s1}
    Key = {k1, k2}
    Slot = {r1, r2}
    LongRequests = FALSE
    MaxExpiries = 0
    MaxFaults = 0
SPECIFICATION Spec
INVARIANT RejectedIsNotRemembered
CHECK_DEADLOCK FALSE
