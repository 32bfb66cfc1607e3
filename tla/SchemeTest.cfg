SPECIFICATION FairSpec
CONSTANTS
    Types <- AllTypes
    Requests <- TestRequests
    Scheme <- TestScheme
    MaxEvents = 6
    SutMayCrash = TRUE
INVARIANTS TypeOK SingleFlight EventConservation NoWedge NoMissedWakeup PassedRanAll EndsOnce AllEventsExpected
PROPERTIES DeadlineStops ImplementsContract TestEnds
CHECK_DEADLOCK FALSE
