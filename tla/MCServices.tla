---------------------------- MODULE MCServices ----------------------------
(***************************************************************************)
(* What stands around the turn loop, each on a small instance: questions   *)
(* to people, the jobs and their monitor, the upgrades, the memory.  A     *)
(* behaviour is one component's: the others keep their initial state.      *)
(* The upgrades are extended and get their constants from the .cfg; the    *)
(* others are instances, with their variables renamed where two modules    *)
(* call one alike.                                                         *)
(***************************************************************************)
EXTENDS HostUpgrade, CliGuard, Migrate

VARIABLES
    part,       \* the component that runs in this behaviour
    registry, shown, creating, asker, turn, askedIn, tool, acked, hit, restarts,
    file, overdue, reacted, proc, todo, woken, refusals, unheard, kills,
    table, up, loaded, live, since, wait, pass, busy, health, hb, broken, report, slow, edited,
    left,
    cond, audited, n, found, keys, recent, late, monitorPass, heard, said, blurred, changes,
    faults,
    spool, age, calling, spoolPass, fate, fired, made, byHand, crashes,
    ents, obs, edges, writer, pairs, night, draft, told, ops,
    boardFile, boardTorn, call, read, step, boardOps, boardKills, promised, raced, hurt,
    personaFiles, snaps, doing, crossed, personaTorn, lost, missed, ids, edits, calls,
    personaKills

askVars == <<registry, shown, creating, asker, turn, askedIn, tool, acked, hit, restarts>>
asksVars == <<file, overdue, reacted, proc, todo, woken, refusals, unheard, kills>>
jobsVars == <<table, up, loaded, live, since, wait, pass, busy, health, hb, broken, report,
               slow, edited, left>>
monitorVars == <<cond, audited, n, found, keys, recent, late, monitorPass, heard, said,
                  blurred, changes, faults>>
spoolVars == <<spool, age, calling, spoolPass, fate, fired, made, byHand, crashes>>
graphVars == <<ents, obs, edges, writer, pairs, night, draft, told, ops>>
boardVars == <<boardFile, boardTorn, call, read, step, boardOps, boardKills, promised, raced,
                hurt>>
personaVars == <<personaFiles, snaps, doing, crossed, personaTorn, lost, missed, ids, edits,
                  calls, personaKills>>

U == INSTANCE AskUser WITH Shards <- {"s1", "s2"}, Asks <- {"q1", "q2"}, Users <- {"ann",
    "bob"}, Allowed <- {"ann"}, MaxTurns <- 2, MaxFaults <- 1, MaxRestarts <- 1
K == INSTANCE Asks WITH AskIds <- {"a1"}, Options <- {"yes", "no"}, Presses <- {"p1", "p2"},
    MaxRefusals <- 1, MaxUnheard <- 1, MaxKills <- 1
J == INSTANCE Jobs WITH Jobs <- {"m", "b"}, Monitor <- "m", Period <- [m |-> 1, b |-> 2],
    MaxAge <- [m |-> 2, b |-> 3], HealthAge <- 2, Swallows <- {"b"}, Cap <- 4, MaxEdits <- 1,
    MaxDeaths <- 1, MaxFails <- 1, MaxSlow <- 3
M == INSTANCE Monitor WITH pass <- monitorPass, Stalls <- {"s1"}, SlowEvery <- 2, MaxPosts <- 2,
    MaxRepeats <- 1, MaxChanges <- 2, MaxFaults <- 1
O == INSTANCE Oneshots WITH pass <- spoolPass, Labels <- {"l1", "l2"}, MaxEntries <- 2,
    Callers <- {"c1", "c2"}, MaxCrashes <- 1, MaxByHand <- 1
G == INSTANCE Graph WITH Names <- {"a", "b"}, Texts <- {"t"}, Episodes <- {"t"}, Alike <- {},
    MaxObs <- 3, MaxEnts <- 3, MaxOps <- 4
B == INSTANCE Taskboard WITH file <- boardFile, torn <- boardTorn, ops <- boardOps,
    kills <- boardKills, Servers <- {1, 2}, Seconds <- {1}, MaxOps <- 4, MaxKills <- 1
P == INSTANCE Persona WITH files <- personaFiles, torn <- personaTorn, kills <- personaKills,
    Callers <- {1}, Keep <- 2, MaxSnaps <- 3, MaxEdits <- 2, MaxCalls <- 3, MaxKills <- 1

ASSUME ServicesAssumptions == J!JobsAssumption /\ HostAssumption /\ CliAssumption

ServiceParts == {"ask", "asks", "jobs", "monitor", "spool", "host", "cli", "migrate", "graph",
                 "board", "persona"}

servicesVars == <<part, askVars, asksVars, jobsVars, monitorVars, spoolVars, HostVars, CliVars,
                  MigVars, graphVars, boardVars, personaVars>>

ServicesInit ==
    /\ part \in ServiceParts
    /\ U!AskInit
    /\ K!AsksInit
    /\ J!JobsInit
    /\ M!MonitorInit
    /\ O!SpoolInit
    /\ HostInit /\ (part = "host" \/ pin = 1)
    /\ CliInit
    /\ MigInit
    /\ G!Init
    /\ B!BoardInit
    /\ P!PersonaInit

ServicesNext ==
    /\ UNCHANGED part
    /\ IF part = "ask" THEN U!AskNext ELSE UNCHANGED askVars
    /\ IF part = "asks" THEN K!AsksNext ELSE UNCHANGED asksVars
    /\ IF part = "jobs" THEN J!JobsNext ELSE UNCHANGED jobsVars
    /\ IF part = "monitor" THEN M!MonitorNext ELSE UNCHANGED monitorVars
    /\ IF part = "spool" THEN O!SpoolNext ELSE UNCHANGED spoolVars
    /\ IF part = "host" THEN HostNext ELSE UNCHANGED HostVars
    /\ IF part = "cli" THEN CliNext ELSE UNCHANGED CliVars
    /\ IF part = "migrate" THEN MigNext ELSE UNCHANGED MigVars
    /\ IF part = "graph" THEN G!GraphNext ELSE UNCHANGED graphVars
    /\ IF part = "board" THEN B!BoardNext ELSE UNCHANGED boardVars
    /\ IF part = "persona" THEN P!PersonaNext ELSE UNCHANGED personaVars

ServicesSpec == ServicesInit /\ [][ServicesNext]_servicesVars

-----------------------------------------------------------------------------
(* What each component promises *)

\* A question put to people: an answer reaches the turn that asks and no other, one
\* press decides an ask, and the agent is woken with what was pressed.
AnswersAreRight ==
    /\ [](part = "ask" => U!AnswerReaches)
    /\ [](part = "asks" => K!WokenRight)
    /\ U!AnsweredInItsTurn
    /\ K!DecidedOnce

\* Jobs: a job that runs in time raises no finding; what the channel was told is what the
\* monitor remembers, and repeats end; a one-shot entry runs once.
JobsAreHeard ==
    /\ J!OnTimeIsQuiet
    /\ [](part = "monitor" => M!ChannelAgrees /\ M!RepeatsEnd)
    /\ [](part = "spool" => O!EachOnce)

\* Upgrades: a failed host upgrade leaves what ran before, where the pin named the image that
\* ran when it began and the rollback's make up worked; a done one is healthy; the CLI
\* is reverted only for a cause; a migration stamped done is whole, applied once, and no
\* later work is overwritten by a restore.
UpgradesAreSafe ==
    /\ [](part = "host" => FailureRestores /\ DoneIsHealthy)
    /\ [](part = "cli" => RevertHasCause)
    /\ [](part = "migrate" => StampedIsWhole /\ NeverTwice)
    /\ WorkIsKept

\* What an agent remembers: merged entities end in a living one that has their rows and
\* names; a task board promise survives other servers' writes or was told broken; a
\* persona restored is one that was saved, and nothing unsaved is lost.
MemoryIsWhole ==
    /\ [](part = "graph" => G!ChainsEnd /\ G!NothingUnderMerged /\ G!EdgesJoinLiving)
    /\ G!NamesKept
    /\ [](part = "board" => B!PromisesKept)
    /\ [](part = "persona" => P!NothingLost /\ P!RestoredWhole)
=============================================================================
