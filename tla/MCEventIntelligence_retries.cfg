CONSTANTS
    Event = {e1}
    Approval = {a1, a2}
    Slot = {s1, s2}
    Key = {k1}
    Verdict = {"scenario"}
    Note = {n1}
    Ready = {e1}
    MaxVer = 6
    MaxProj = 4
    MaxFaults = 2
    NoReview = NoReview
    NoApproval = NoApproval
    NoApplication = NoApplication
SPECIFICATION Spec
SYMMETRY Slots
INVARIANT OneReceiptPerRequest
PROPERTY LegalOnDisk
CHECK_DEADLOCK FALSE
