SPECIFICATION Spec
CONSTANTS
    Types <- AllTypes
    Requests <- MergeRequests
    Scheme <- MergeScheme
    MaxEvents = 5
    SutMayCrash = FALSE
INVARIANT PassedRanAll
CHECK_DEADLOCK FALSE
