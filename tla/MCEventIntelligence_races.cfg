CONSTANTS
    Event = {e1, e2}
    Approval = {a1, a2}
    Slot = {s1, s2}
    Key = {k1}
    Verdict = {"reality"}
    Note = {n1}
    Ready = {e2}
    MaxVer = 4
    MaxProj = 4
    MaxFaults = 0
    NoReview = NoReview
    NoApproval = NoApproval
    NoApplication = NoApplication
SPECIFICATION Spec
SYMMETRY Slots
INVARIANT ReceiptChain
PROPERTIES AppliedAsApproved LegalOnDisk
CHECK_DEADLOCK FALSE
