SPECIFICATION Spec
CONSTANTS
    Counts = {0, 2, 3}
    Timeouts = {1, 2}
    Limits = {2, 3}
    MaxSeq = 3
    Fails = TRUE
INVARIANTS
    AnsweredOnce
    PageAgrees
    SummaryAgrees
PROPERTY
    KeepsContract
CHECK_DEADLOCK FALSE
