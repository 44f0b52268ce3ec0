\* Steering on, two channels, four rows; the process dies twice and is given up,
\* turns fail or hit the usage wall.
SPECIFICATION Spec
CONSTANTS
    Channels = {c1, c2}
    Steering = TRUE
    MaxLines = 2
    BatchLimit = 2
    RespawnMax = 1
    OpKinds = {}
    MaxRows = 4
    MaxDrains = 2
    MaxDeaths = 2
    MaxOps = 0
    MaxErrors = 2
    MaxSelf = 0
SYMMETRY ChannelSymmetry
INVARIANTS CompleteConsumed AnsweredWhereAsked NoneStranded
CHECK_DEADLOCK FALSE
