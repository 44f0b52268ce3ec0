--------------------------- MODULE MCLiveAgents ---------------------------
(***************************************************************************)
(* What happens in the end, each component on a small instance with its    *)
(* own fairness.  A behaviour is one component's: the others keep their    *)
(* initial state.  Variables that two modules call alike are renamed.      *)
(***************************************************************************)
EXTENDS Naturals

VARIABLES
    part,       \* the component that runs in this behaviour
    count, stream, total, status, done, attempts, due, up, inline, batch, idx, landed, log,
    nonces, forgot, retried, crashes, retries, abandons,
    buildStatus, host, brief, execHost, buildAttempts, ref, inbox, buildUp, recovered,
    sweep, task, killing, issued, unreach, run, exitFile, spawned, recorded, gone, asked,
    cancels, restarts, outages,
    hstate, hturn, made, call, callRow, replyRow, body, open, age, poll, asking, turns,
    hiveCrashes, hiveRestarts,
    sent, rstat, aged, held, sstate, shardsBatch, drains, looking, tried, wakes, timers,
    holdWake, walls, deaths,
    sessionTask, sessionDrains, holder, rows, hrow, turn, inflight, resetting, requested,
    recent, effortPending, effortRespawning, sess, started, proc, noteAt, carries, handed,
    noted, wasted, quick, arrivals, triggers, efforts, operator, sessionDeaths,
    processes, births, root, work, was, hit, kills

outboxVars == <<count, stream, total, status, done, attempts, due, up, inline, batch, idx,
                 landed, log, nonces, forgot, retried, crashes, retries, abandons>>
buildVars == <<buildStatus, host, brief, execHost, buildAttempts, ref, inbox, buildUp,
                recovered, sweep, task, killing, issued, unreach, run, exitFile, spawned,
                recorded, gone, asked, cancels, restarts, outages>>
hiveVars == <<hstate, hturn, made, call, callRow, replyRow, body, open, age, poll, asking,
               turns, hiveCrashes, hiveRestarts>>
shardsVars == <<sent, rstat, aged, held, sstate, shardsBatch, drains, looking, tried, wakes,
                 timers, holdWake, walls, deaths>>
sessionVars == <<sessionTask, sessionDrains, holder, rows, hrow, turn, inflight, resetting,
                  requested, recent, effortPending, effortRespawning, sess, started, proc,
                  noteAt, carries, handed, noted, wasted, quick, arrivals, triggers, efforts,
                  operator, sessionDeaths>>
reaperVars == <<processes, births, root, work, was, hit, kills>>

Row(s, c, k) == [shard |-> s, chan |-> c, kind |-> k]
Arrivals == {Row(1, 1, "person"), Row(1, 2, "person"), Row(1, 2, "urgent"), Row(2, 1, "person")}

Q == INSTANCE Outbox WITH Streams <- {"s1"}, MaxRows <- 2, MaxChunks <- 1, MaxAttempts <- 2,
    ClaimLimit <- 2, MaxCrashes <- 1, MaxRetries <- 0, MaxForgets <- 0, MaxAbandons <- 0,
    MaxFaults <- 1
B == INSTANCE BuildQueue WITH status <- buildStatus, attempts <- buildAttempts, up <- buildUp,
    MaxRows <- 2, Hosts <- {"local", "remote"}, SshHosts <- {"remote"}, Probed <- {"remote"},
    Concurrency <- [local |-> 1, remote |-> 1], HostNames <- {"local", "remote", "retired"},
    MaxAttempts <- 1, Unkillable <- {"remote"}, Briefs <- {},
    DefaultHost <- "local", CancelKinds <- {"cli"}, MaxCancels <- 0, MaxRestarts <- 1,
    MaxOutages <- 1
H == INSTANCE Hive WITH crashes <- hiveCrashes, restarts <- hiveRestarts, HShards <- {1, 2},
    AgentOf <- [s \in {1, 2} |-> 10 + s], MaxCalls <- 2, MaxTurns <- 1, MaxCrashes <- 0,
    HMaxRestarts <- 0, HMaxFaults <- 0, MaxDepth <- 2, DepthLimit <- 2, MayPause <- {}
S == INSTANCE Shards WITH batch <- shardsBatch, SShards <- {1, 2}, Arrivals <- Arrivals,
    MaxRows <- 2, MaxWalls <- 0, MaxDeaths <- 0, MaxStolen <- 1
P == INSTANCE Session WITH task <- sessionTask, Slots <- 4, MaxArrivals <- 2, MaxTriggers <- 1,
    MaxEfforts <- 1, MaxOperator <- 0, MaxSessionDeaths <- 0, MaxRequests <- 1,
    EarlyDeaths <- FALSE, Coalesce <- FALSE, HandoffOn <- TRUE
X == INSTANCE Reaper WITH Pids <- {1, 2}, MaxBirths <- 3, MaxKills <- 1

ASSUME LiveAssumptions == H!HiveAssumption /\ S!ShardsAssumption /\ P!SessionAssumption

Parts == {"outbox", "build", "hive", "shards", "session", "reaper"}

vars == <<part, outboxVars, buildVars, hiveVars, shardsVars, sessionVars, reaperVars>>

LiveInit ==
    /\ part \in Parts
    /\ Q!Init
    /\ B!Init
    /\ H!HiveInit
    /\ S!ShardsInit
    /\ P!SessionInit
    /\ X!ReapInit

LiveNext ==
    /\ UNCHANGED part
    /\ IF part = "outbox" THEN Q!Next ELSE UNCHANGED outboxVars
    /\ IF part = "build" THEN B!Next ELSE UNCHANGED buildVars
    /\ IF part = "hive" THEN H!HiveNext ELSE UNCHANGED hiveVars
    /\ IF part = "shards" THEN S!ShardsNext ELSE UNCHANGED shardsVars
    /\ IF part = "session" THEN P!SessionNext ELSE UNCHANGED sessionVars
    /\ IF part = "reaper" THEN X!ReapNext ELSE UNCHANGED reaperVars

LiveSpec == LiveInit /\ [][LiveNext]_vars

-----------------------------------------------------------------------------
(* What happens in the end *)

\* Through a crash of the server, a restart of the relay and an outage of the remote host, a
\* reply in the outbox settles and a queued build ends.
RowsSettle ==
    /\ part = "outbox" /\ Q!Fairness => Q!EverySettled
    /\ part = "build" /\ B!Fairness => B!EveryRowEnds

\* A hive call returns to its caller, a row behind a busy shard is taken by its sibling,
\* and rows that wait behind a session's work are taken, an orphan process goes.
AgentsGoOn ==
    /\ part = "hive" /\ H!HiveFairness => H!CallsReturn
    /\ part = "shards" /\ S!ShardsFairness(1) => S!TakenInTheEnd(1)
    /\ part = "session" /\ P!SessionFairness => P!RowsTaken
    /\ part = "reaper" /\ X!ReapFair => X!OrphansGo
=============================================================================
