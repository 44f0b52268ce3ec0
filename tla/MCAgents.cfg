\* The agent server's components, each on its own small instance.
SPECIFICATION AgentsSpec
INVARIANTS CallsAreRight StealsAreRight RepliesSurvive HeldAreWoken SessionsCarryOver
    ShardsComeBack MembersAgree KillsAndPagesAreSpared ChangesAreUsed TurnsAreShown
CONSTANTS
    \* Hive: two agents of a shard each; a process dies, or the server restarts
    HShards = {1, 2}
    AgentOf <- AgentOfShard
    MaxCalls = 2
    MaxTurns = 1
    MaxCrashes = 1
    HMaxRestarts = 1
    HMaxFaults = 1
    MaxDepth = 2
    DepthLimit = 2
    MayPause = {2}
    \* Shards: a thief and its victim
    SShards = {1, 2}
    Arrivals <- TwoRows
    MaxRows = 3
    MaxWalls = 0
    MaxDeaths = 1
    MaxStolen = 1
    \* Recovery: two turns, the server boots twice
    Turns = {1, 2}
    BatchRows = 2
    MaxBoots = 2
    MaxBroken = 1
    MaxDiscards = 1
    MaxEra = 1
    \* Gates
    GShards = {1, 2}
    MaxTime = 3
    MaxMsgs = 2
    MaxEvents = 2
    DefaultPause = 2
    MinPause = 2
    Recheck = 1
    Rejections = {0, 1}
    PauseFor = {0, 1}
    \* Session: a trigger, an effort change or a death each
    Slots = 4
    MaxArrivals = 2
    MaxTriggers = 2
    MaxEfforts = 1
    MaxOperator = 0
    MaxSessionDeaths = 1
    MaxRequests = 2
    EarlyDeaths = FALSE
    Coalesce = FALSE
    HandoffOn = TRUE
    \* Lifecycle: two operator requests that cross
    Ops = {1, 2}
    Kinds = {"reload", "reset", "kill"}
    MaxProcs = 4
    MaxExits = 1
    MaxLifeTurns = 1
    GiveUp = 3
    RespawnMax = 3
    MayRefuse = TRUE
    \* Members: an agent that stays, one that comes and goes
    AgentIds = {"p", "x"}
    AtBoot = {"p"}
    Requests = {1, 2}
    MaxMemberRequests = 3
    MaxEdits = 2
    MaxMemberRows = 1
    MaxSpawnFails = 1
    \* Wedge: a hung turn and a failed write, a page lost or not remembered
    WedgeShards = {1, 2}
    Keep = 2
    MaxWedgeTurns = 1
    MaxFaults = 1
    MaxSlips = 1
    MaxPages = 1
    \* Reaper
    Pids = {1, 2, 3}
    MaxBirths = 3
    MaxKills = 1
    \* Switches
    SwitchShards = {1}
    Handlers = {"h1", "h2"}
    MaxSets = 2
    MaxSwitchTurns = 2
    MaxSwitchDeaths = 1
    \* ToolLines
    MaxNow = 7
    MaxTools = 6
    MinInterval = 1
    BaseCap = 2
    MaxLines = 4
    AfterS = 2
    MaxAttempts = 2
    \* ChatStream
    MaxChatTurns = 2
    MaxBlocks = 2
    MaxDrops = 1
    Retries = 2
CHECK_DEADLOCK FALSE
