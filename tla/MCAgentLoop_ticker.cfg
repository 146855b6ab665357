SPECIFICATION Spec
CONSTANTS
    Hint = 15
    StaleMultiplier = 3
    MaxAnswer = 1
    MaxWork = 1
    Tolerated = 14
    Recovery = 44
PROPERTY HeartbeatRunsOn
