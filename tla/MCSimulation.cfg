CONSTANTS
    Task = {1, 2, 3, 4}
    Team = {"A", "B"}
    DayTicks = 4
    Guardrail = 21
    MaxDays = 4
    MaxCapacity = 3
    Request <- MCRequest
SPECIFICATION SimSpec
INVARIANTS TypeOK Feasible CapacityKept ChainIsTight NoIdleWait LowestFirst NeverStuck
INVARIANTS CycleIsShortest PlanOfItsSet OnTimeMeansOnTime StartsAreTimely RelaxingNeverDelays
CHECK_DEADLOCK FALSE
