SPECIFICATION Spec
CONSTANTS
    Hosts = {"h1", "h2"}
    Commands <- TwoDrops
    Waves = 1
    NetCap = 1
    MaxLosses = 0
INVARIANT EffectBeforeNext
CHECK_DEADLOCK FALSE
