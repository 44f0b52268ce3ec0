-------------------------- MODULE MCLiveServices --------------------------
(***************************************************************************)
(* What happens in the end, each component on a small instance with its    *)
(* own fairness.  A behaviour is one component's: the others keep their    *)
(* initial state.  Variables that two modules call alike are renamed.      *)
(***************************************************************************)
EXTENDS Naturals

VARIABLES
    part,       \* the component that runs in this behaviour
    wedgeTurn, doing, st, wedgeProc, young, beacon, wedgePosting, owed, wedgePaused, serves,
    adrift, found, episode, alerted, checking, reports, pages, unsaved,
    crowdedOut, wedgeLeft,
    itask, humans, spoke, asks, classifying, guestTurns, announced, told, file, old, firing,
    irow, runs, up, faults, vanished,
    agents, channels, bad, held, mtimes, failed, step, read, saved, current, configTold, crossed,
    linked, outages, overdue, downSince, watchAlerted, alertedDead, dead, pending, walk, posted,
    refused, retries,
    presenceLinked, drops, busy, applied, recentSend, heldIdle, sending, displayed, changes,
    brief, active, dtask, procs, drestarts,
    registry, shown, creating, asker, askTurn, askedIn, tool, acked, hit, restarts,
    asksFile, asksOverdue, reacted, asksProc, todo, woken, refusals, unheard, kills,
    table, jobsUp, loaded, live, since, wait, pass, jobsBusy, health, hb, broken, report, slow,
    edited, jobsLeft,
    cond, audited, n, monitorFound, keys, recent, late, monitorPass, heard, said, blurred,
    monitorChanges, monitorFaults,
    spool, age, calling, spoolPass, fate, fired, made, byHand, crashes,
    pin, tag, running, request, status, asking, host, swept, noWayBack, asked,
    hostFaults,
    installed, knownGood, hand, dog, arrivals, upgrades, cliFaults

wedgeVars == <<wedgeTurn, doing, st, wedgeProc, young, beacon, wedgePosting, owed,
                wedgePaused, serves, adrift, found, episode, alerted, checking, reports, pages,
                unsaved, crowdedOut, wedgeLeft>>
inboundVars == <<itask, humans, spoke, asks, classifying, guestTurns, announced, told, file,
                  old, firing, irow, runs, up, faults, vanished>>
configVars == <<agents, channels, bad, held, mtimes, failed, step, read, saved, current,
                 configTold, crossed>>
watchVars == <<linked, outages, overdue, downSince, watchAlerted, alertedDead, dead, pending,
                walk, posted, refused, retries>>
presenceVars == <<presenceLinked, drops, busy, applied, recentSend, heldIdle, sending,
                   displayed, changes>>
dispatchVars == <<brief, active, dtask, procs, drestarts>>
askVars == <<registry, shown, creating, asker, askTurn, askedIn, tool, acked, hit, restarts>>
asksVars == <<asksFile, asksOverdue, reacted, asksProc, todo, woken, refusals, unheard, kills>>
jobsVars == <<table, jobsUp, loaded, live, since, wait, pass, jobsBusy, health, hb, broken,
               report, slow, edited, jobsLeft>>
monitorVars == <<cond, audited, n, monitorFound, keys, recent, late, monitorPass, heard, said,
                  blurred, monitorChanges, monitorFaults>>
spoolVars == <<spool, age, calling, spoolPass, fate, fired, made, byHand, crashes>>
hostVars == <<pin, tag, running, request, status, asking, host, swept, noWayBack, asked,
               hostFaults>>
cliVars == <<installed, knownGood, hand, dog, arrivals, upgrades, cliFaults>>

Channel == [listed |-> TRUE, mentionOnly |-> FALSE, owned |-> TRUE, optOut |-> FALSE,
            unlistedOk |-> FALSE]

W == INSTANCE Wedge WITH WedgeShards <- {1}, Keep <- 2, MaxWedgeTurns <- 2, MaxFaults <- 1,
    MaxSlips <- 1, MaxPages <- 1
I == INSTANCE Inbound WITH Channel <- Channel, MaxMsgs <- 2, GuestLimit <- 0, VolleyLimit <- 1,
    MaxCalls <- 1, InDepth <- 1, MaxFaults <- 1
F == INSTANCE RelayConfig WITH MaxConfigEdits <- 3
A == INSTANCE Watch WITH alerted <- watchAlerted, MaxOutages <- 1, MaxDeadRise <- 1,
    MaxRefused <- 1, MaxRetries <- 1
E == INSTANCE Presence WITH linked <- presenceLinked, MaxDrops <- 2, MaxChanges <- 4
D == INSTANCE Dispatch WITH Builders <- {"b1"}, Reviewers <- {"b1", "b2"}, Slots <- [builder |->
    1, reviewer |-> 2], MaxRestartsD <- 1, HasScript <- {"builder", "reviewer"}
U == INSTANCE AskUser WITH turn <- askTurn, Shards <- {"s1", "s2"}, Asks <- {"q1"},
    Users <- {"ann"}, Allowed <- {"ann"}, MaxTurns <- 2, MaxFaults <- 1, MaxRestarts <- 1
K == INSTANCE Asks WITH file <- asksFile, overdue <- asksOverdue, proc <- asksProc,
    AskIds <- {"a1"}, Options <- {"yes"}, Presses <- {"p1"}, MaxRefusals <- 1, MaxUnheard <- 1,
    MaxKills <- 1
J == INSTANCE Jobs WITH up <- jobsUp, busy <- jobsBusy, left <- jobsLeft, Jobs <- {"m", "b"},
    Monitor <- "m", Period <- [m |-> 1, b |-> 2], MaxAge <- [m |-> 2, b |-> 3], HealthAge <- 2,
    Swallows <- {}, Cap <- 4, MaxEdits <- 1, MaxDeaths <- 1, MaxFails <- 1, MaxSlow <- 0
M == INSTANCE Monitor WITH found <- monitorFound, pass <- monitorPass,
    changes <- monitorChanges, faults <- monitorFaults, Stalls <- {"s1"}, SlowEvery <- 2,
    MaxPosts <- 1, MaxRepeats <- 1, MaxChanges <- 1, MaxFaults <- 1
O == INSTANCE Oneshots WITH pass <- spoolPass, Labels <- {"l1"}, MaxEntries <- 2,
    Callers <- {"c1"}, MaxCrashes <- 1, MaxByHand <- 1
G == INSTANCE HostUpgrade WITH Versions <- {1, 2}, Unhealthy <- {2}, NeedMigration <- {},
    MaxRequests <- 2, MaxHostFaults <- 1
C == INSTANCE CliGuard WITH Releases <- {1, 2, 3}, Broken <- {2}, FirstRelease <- 1,
    Attempts <- 2, MaxArrivals <- 2, MaxUpgrades <- 1, MaxCliFaults <- 2

ASSUME LiveAssumptions ==
    /\ I!InboundAssumption /\ A!WatchAssumption /\ E!PresenceAssumption /\ D!DispatchAssumption
    /\ J!JobsAssumption /\ G!HostAssumption

Parts == {"wedge", "inbound", "config", "watch", "presence", "dispatch", "ask", "asks",
          "jobs", "monitor", "spool", "host", "cli"}

vars == <<part, wedgeVars, inboundVars, configVars, watchVars, presenceVars, dispatchVars,
          askVars, asksVars, jobsVars, monitorVars, spoolVars, hostVars, cliVars>>

LiveInit ==
    /\ part \in Parts
    /\ W!WedgeInit
    /\ I!InboundInit
    /\ F!ConfigInit
    /\ A!WatchInit
    /\ E!PresenceInit
    /\ D!DispatchInit
    /\ U!AskInit
    /\ K!AsksInit
    /\ J!JobsInit
    /\ M!MonitorInit
    /\ O!SpoolInit
    /\ G!HostInit /\ (part = "host" \/ pin = 1)
    /\ C!CliInit

LiveNext ==
    /\ UNCHANGED part
    /\ IF part = "wedge" THEN W!WedgeNext ELSE UNCHANGED wedgeVars
    /\ IF part = "inbound" THEN I!InboundNext ELSE UNCHANGED inboundVars
    /\ IF part = "config" THEN F!ConfigNext ELSE UNCHANGED configVars
    /\ IF part = "watch" THEN A!WatchNext ELSE UNCHANGED watchVars
    /\ IF part = "presence" THEN E!PresenceNext ELSE UNCHANGED presenceVars
    /\ IF part = "dispatch" THEN D!DispatchNext ELSE UNCHANGED dispatchVars
    /\ IF part = "ask" THEN U!AskNext ELSE UNCHANGED askVars
    /\ IF part = "asks" THEN K!AsksNext ELSE UNCHANGED asksVars
    /\ IF part = "jobs" THEN J!JobsNext ELSE UNCHANGED jobsVars
    /\ IF part = "monitor" THEN M!MonitorNext ELSE UNCHANGED monitorVars
    /\ IF part = "spool" THEN O!SpoolNext ELSE UNCHANGED spoolVars
    /\ IF part = "host" THEN G!HostNext ELSE UNCHANGED hostVars
    /\ IF part = "cli" THEN C!CliNext ELSE UNCHANGED cliVars

LiveSpec == LiveInit /\ [][LiveNext]_vars

-----------------------------------------------------------------------------
(* What happens in the end *)

\* The relay gives its lock back, empties its spool, tells of an outage and its end, shows
\* the presence of a quiet server, archives every brief and loads a changed configuration;
\* ask_user returns, an answered ask wakes its agent, a due one-shot entry is served.
WorkIsServed ==
    /\ part = "inbound" /\ I!InboundFairness => I!LockReturns
    /\ part = "inbound" /\ I!InboundFairness => I!SpoolDrains
    /\ part = "watch" /\ A!WatchFairness => A!AlertsArrive
    /\ part = "presence" /\ E!PresenceFairness => E!PresenceSettles
    /\ part = "dispatch" /\ D!DispatchFairness => D!BriefsArchived
    /\ part = "config" /\ F!ConfigFairness => F!ChangeTakesEffect
    /\ part = "ask" /\ U!AskFairness => U!ToolReturns
    /\ part = "asks" /\ K!AsksFairness => K!AnswerWakes
    /\ part = "spool" /\ O!SpoolFairness => O!DueIsServed

\* A hung turn is found and an idle agent is not; a skipped or failing job and a lasting
\* condition are told.
TroubleIsHeard ==
    /\ part = "wedge" /\ W!WedgeFair => W!HangIsFound
    /\ W!IdleIsQuiet
    /\ part = "jobs" /\ J!JobsFair => J!SkippedIsTold
    /\ part = "jobs" /\ J!JobsFair => J!FailureIsSeen
    /\ part = "monitor" /\ M!MonitorFairness => M!LastingIsHeard

\* An upgrade request ends, and a broken CLI is replaced by the known good one.
UpgradesEnd ==
    /\ part = "host" /\ G!HostFairness => G!RequestEnds
    /\ part = "cli" /\ C!CliFairness => C!BrokenIsReplaced
=============================================================================
