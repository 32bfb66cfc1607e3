SPECIFICATION Spec
CONSTANTS
    Types <- AllTypes
    Requests <- PingRequests
    Scheme <- PingScheme
    MaxEvents = 3
    SutMayCrash = TRUE
INVARIANT CrashNeverPasses
CHECK_DEADLOCK FALSE
