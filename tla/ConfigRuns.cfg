SPECIFICATION Spec
CONSTANTS
    Requests = {r1, r2}
    MaxOps = 3
    MaxLimit = 2
    Batches <- MCBatches
    MaxItems = 2
    MaxStarts = 2
INVARIANTS
    RowsBounded
    LimitInForce
    RunsPermitted
PROPERTIES
    ForceChangedByBatch
    OffStaysOff
    ExceedsUncompared
    RequestsEnd
CHECK_DEADLOCK FALSE
