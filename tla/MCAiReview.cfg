CONSTANTS
    Suggestion = {s1}
    Key = {k1, k2}
    Slot = {r1, r2}
    LongRequests = FALSE
    MaxExpiries = 1
    MaxFaults = 1
SPECIFICATION FairSpec
INVARIANTS TypeOK AnswersAreEffective ApprovedIsRemembered LearningIsApproved
PROPERTIES RequestsEnd ReviewsAreImmutable
CHECK_DEADLOCK FALSE
