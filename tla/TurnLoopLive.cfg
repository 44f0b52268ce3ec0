\* Liveness: a death, a wall or an error; no operator.
SPECIFICATION FairSpec
CONSTANTS
    Channels = {c1, c2}
    Steering = TRUE
    MaxLines = 2
    BatchLimit = 2
    RespawnMax = 1
    OpKinds = {}
    MaxRows = 3
    MaxDrains = 2
    MaxDeaths = 1
    MaxOps = 0
    MaxErrors = 1
    MaxSelf = 0
PROPERTIES EveryRowSettles
CHECK_DEADLOCK FALSE
