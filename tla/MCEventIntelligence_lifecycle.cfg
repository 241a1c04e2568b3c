CONSTANTS
    Event = {e1, e2}
    Approval = {a1, a2, a3}
    Slot = {s1}
    Key = {k1}
    Verdict = {"reality", "scenario"}
    Note = {n1}
    Ready = {e1}
    MaxVer = 5
    MaxProj = 4
    MaxFaults = 1
    NoReview = NoReview
    NoApproval = NoApproval
    NoApplication = NoApplication
SPECIFICATION Spec
INVARIANTS TypeOK RollbackRestores
PROPERTIES AppliedAsApproved HistorySpec
CHECK_DEADLOCK FALSE
