CONSTANTS
    Suggestion = {s1, s2}
    Key = {k1}
    Slot = {r1, r2}
    LongRequests = FALSE
    MaxExpiries = 1
    MaxFaults = 1
SPECIFICATION Spec
INVARIANT KeysNameOneRequest
CHECK_DEADLOCK FALSE
