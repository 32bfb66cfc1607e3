SPECIFICATION Spec
CONSTANTS
    Hosts = {"h1", "h2"}
    Commands <- KillAndStart
    Waves = 1
    NetCap = 1
    MaxLosses = 0
PROPERTY ForgetsOnlyWhenStable
CHECK_DEADLOCK FALSE
