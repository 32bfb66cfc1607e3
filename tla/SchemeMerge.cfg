SPECIFICATION Spec
CONSTANTS
    Types <- AllTypes
    Requests <- MergeRequests
    Scheme <- MergeScheme
    MaxEvents = 6
    SutMayCrash = TRUE
INVARIANT StartedOnce
CHECK_DEADLOCK FALSE
