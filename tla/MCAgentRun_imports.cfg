SPECIFICATION Spec
CONSTANTS
    Run <- MCRun
    Import <- MCImport
    Slot = {s1, s2}
    Serial = FALSE
    LongRequests = FALSE
    MaxRuns = 2
    MaxExpiries = 0
    MaxFaults = 0
SYMMETRY Slots
INVARIANT SourceIsKept
CHECK_DEADLOCK FALSE
