SPECIFICATION FairSpec
CONSTANTS
    N = 2
    MaxPids = 2
    MaxExits = 1
    Digits = {0, 1}
    MaxDigits = 2
    MaxCalls = 1
INVARIANTS TypeOK OneFullSummary TwoQuitsQuit
PROPERTIES KeysDriveTable HitsAsTyped CallsEnd
CHECK_DEADLOCK FALSE
