SPECIFICATION Spec
CONSTANTS
    Run <- MCRun
    Import <- MCImport
    Slot = {s1, s2}
    Serial = TRUE
    LongRequests = FALSE
    MaxRuns = 2
    MaxExpiries = 1
    MaxFaults = 1
SYMMETRY Slots
INVARIANTS TypeOK CitesCurrent SuggestionsAreBound AnsweredIsAudited AnswersAgree CacheIsValid SourceIsKept
CHECK_DEADLOCK FALSE
