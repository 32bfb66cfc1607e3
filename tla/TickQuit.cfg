SPECIFICATION Spec
CONSTANTS
    N = 2
    MaxPids = 2
    MaxExits = 1
INVARIANT QuitLeavesNone
CHECK_DEADLOCK FALSE
