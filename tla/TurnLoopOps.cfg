\* Two operator requests of any kind, a death, a turn the CLI starts, a failed turn;
\* one row may be steered into a turn.
SPECIFICATION Spec
CONSTANTS
    Channels = {c1, c2}
    Steering = TRUE
    MaxLines = 1
    BatchLimit = 2
    RespawnMax = 1
    OpKinds = {"interrupt", "message", "reload", "kill", "flush"}
    MaxRows = 2
    MaxDrains = 2
    MaxDeaths = 1
    MaxOps = 2
    MaxErrors = 1
    MaxSelf = 1
SYMMETRY ChannelSymmetry
INVARIANTS TypeOK OwnedInProgress
CHECK_DEADLOCK FALSE
