SPECIFICATION FairSpec
CONSTANTS
    Hosts = {"h1", "h2"}
    Commands <- KillAndStart
    Waves = 1
    NetCap = 1
    MaxLosses = 1
INVARIANTS TypeOK FileExplainsEstimate EachReturnEarned BlindAtMostOnce
PROPERTY ScriptEnds
CHECK_DEADLOCK FALSE
