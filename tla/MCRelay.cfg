\* The relay's duties, each on its own small instance.
SPECIFICATION RelaySpec
INVARIANTS MessagesArrive DutiesAreKept
CONSTANTS
    \* Inbound: one channel, three messages, one fault
    Channel <- OwnChannel
    MaxMsgs = 3
    GuestLimit = 0
    VolleyLimit = 3
    MaxCalls = 1
    InDepth = 2
    MaxFaults = 1
    \* Edits
    MaxEdits = 4
    MaxFollowups = 2
    MaxReleases = 1
    Overlap = FALSE
    \* Reactions
    Keys = {1, 2, 3}
    Cooldown = 2
    Rate = 2
    MaxEvents = 3
    MaxNow = 3
    \* RelayConfig
    MaxConfigEdits = 3
    \* Watch
    MaxOutages = 2
    MaxDeadRise = 1
    MaxRefused = 2
    MaxRetries = 1
    \* Sends
    Channels = {"c", "d"}
    Configs <- SendConfigs
    Window = 3
    DefaultPer = 3
    MaxPer = 4
    MaxSendsNow = 8
    MaxSends = 5
    MaxReloads = 1
    MaxRestarts = 1
    \* Dispatch: two kinds of brief
    Builders = {"b1"}
    Reviewers = {"b1", "b2", "b3"}
    Slots <- FewSlots
    MaxRestartsD = 1
    HasScript = {"builder", "reviewer"}
CHECK_DEADLOCK FALSE
