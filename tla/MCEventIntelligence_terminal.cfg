CONSTANTS
    Event = {e1}
    Approval = {a1, a2}
    Slot = {s1}
    Key = {k1}
    Verdict = {"reality", "scenario", "rejected"}
    Note = {n1}
    Ready = {}
    MaxVer = 10
    MaxProj = 3
    MaxFaults = 0
    NoReview = NoReview
    NoApproval = NoApproval
    NoApplication = NoApplication
SPECIFICATION Spec

PROPERTY AppliedIsTerminal
CHECK_DEADLOCK FALSE
