SPECIFICATION FairSpec
CONSTANTS
    N = 2
    MaxPids = 4
    MaxExits = 1
INVARIANTS TypeOK NoTwins SuspendedIsStopped ExitLeavesNone
PROPERTY TerminatedDies
CHECK_DEADLOCK FALSE
