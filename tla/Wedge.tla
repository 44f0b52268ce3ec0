------------------------------- MODULE Wedge -------------------------------
(***************************************************************************)
(* Telling that an agent is alive and stuck.  The agent server writes a    *)
(* beacon file per shard: its state and the time of its last activity.     *)
(* bin/wedge-check.py and the stall stage of the monitor read the files    *)
(* from outside, diagnose a shard that claims a turn and is silent         *)
(* (lib/stall.py), and wedge-check pages each episode once.  It sends, and  *)
(* remembers what it sent only then: a run that is killed, or takes a page  *)
(* that landed for one that failed, pages again.                           *)
(*                                                                         *)
(* Shards are numbers in the order of their names.  A process has its MCP  *)
(* servers as children from the start; young means its oldest child has    *)
(* not reached tool_stall_s.                                               *)
(***************************************************************************)
EXTENDS Naturals, FiniteSets, FiniteSetsExt

CONSTANTS WedgeShards,
          Keep,  \* alert keys wedge-check remembers (the code: 100)
          MaxWedgeTurns, MaxFaults, MaxSlips, MaxPages

WedgeAssumption == WedgeShards \subseteq Nat /\ IsFiniteSet(WedgeShards) /\ Keep \in Nat

VARIABLES wedgeTurn,     \* "no", "runs", or "rests": read to its end, not settled
          doing,         \* what a running turn does
          st,            \* agent_states
          wedgeProc,     \* "up", "down"
          young,
          beacon,        \* the file of each shard
          wedgePosting,  \* shards whose question is on its way to Discord
          owed,          \* shards with rows a failed write gave back
          wedgePaused,   \* operator pause
          serves,        \* the agent server is up
          adrift,        \* shards whose last turn ended without an IDLE beacon
          found,         \* severity of the last diagnosis, "none" when not reported
          episode,       \* number of the beacon's timestamp among those paged
          alerted,       \* wedge-check-state.json
          checking,      \* a run of wedge-check: "idle", "sends", "sent"
          reports,       \* the episodes it reports
          pages,         \* how often each episode was paged
          unsaved,       \* history: episodes whose page landed and was not remembered
          crowdedOut,    \* history: keys the file has dropped
          wedgeLeft

WedgeVars == <<wedgeTurn, doing, st, wedgeProc, young, beacon, wedgePosting, owed, wedgePaused,
               serves, adrift, found, episode, alerted, checking, reports, pages, unsaved,
               crowdedOut, wedgeLeft>>

wedgeTurns  == <<wedgeTurn, doing, owed, adrift>>
asks   == <<wedgePosting>>
procs  == <<wedgeProc, young>>
pager  == <<alerted, checking, reports, pages, unsaved, crowdedOut>>
checks == <<found, pager>>

Fresh(state, dead, ask, pause) ==
  [state |-> state, age |-> 0, gone |-> dead, ask |-> ask, paused |-> pause]

WedgeInit ==
  /\ wedgeTurn = [a \in WedgeShards |-> "no"]
  /\ doing = [a \in WedgeShards |-> "nothing"]
  /\ st = [a \in WedgeShards |-> "IDLE"]
  /\ wedgeProc = [a \in WedgeShards |-> "up"]
  /\ young = [a \in WedgeShards |-> TRUE]
  /\ beacon = [a \in WedgeShards |-> Fresh("IDLE", FALSE, FALSE, FALSE)]
  /\ wedgePosting = {}
  /\ owed = {}
  /\ wedgePaused = {}
  /\ serves = TRUE
  /\ adrift = {}
  /\ found = [a \in WedgeShards |-> "none"]
  /\ episode = [a \in WedgeShards |-> 1]
  /\ alerted = {} /\ checking = "idle" /\ reports = {}
  /\ pages = [k \in WedgeShards \X (1..MaxPages) |-> 0]
  /\ unsaved = {} /\ crowdedOut = {}
  /\ wedgeLeft = [turns |-> MaxWedgeTurns, faults |-> MaxFaults, slips |-> MaxSlips]

SpendWedge(what) == wedgeLeft[what] > 0 /\ wedgeLeft' = [wedgeLeft EXCEPT ![what] = @ - 1]

---------------------------------------------------------------------------
\* Writing the beacon.

\* write_agent_beacon: the state it is given, the time, and what is true of
\* the shard now.  A timestamp that was paged for, or is being, gives way to a
\* new one.
Seen(k) == k \in reports \/ \E l \in DOMAIN pages : l = k /\ pages[l] > 0

Beacons(S, state) ==
  /\ beacon' = [a \in WedgeShards |->
                 IF a \in S
                 THEN Fresh(state[a], wedgeProc'[a] = "down", state[a] = "AWAITING_USER",
                            a \in wedgePaused')
                 ELSE beacon[a]]
  /\ episode' = [a \in WedgeShards |->
                 IF a \in S /\ Seen(<<a, episode[a]>>) THEN episode[a] + 1 ELSE episode[a]]

Writes(a, state) == Beacons({a}, [s \in WedgeShards |-> state])

SamePages == UNCHANGED <<beacon, episode>>

---------------------------------------------------------------------------
\* Turns.

\* write_user_line, and beacon_on_turn_start.  Rows given back run first.
TurnStarts(a) ==
  /\ serves /\ wedgeTurn[a] = "no" /\ wedgeProc[a] = "up" /\ a \notin wedgePaused
  /\ IF a \in owed THEN UNCHANGED wedgeLeft ELSE SpendWedge("turns")
  /\ wedgeTurn' = [wedgeTurn EXCEPT ![a] = "runs"]
  /\ doing' = [doing EXCEPT ![a] = "moves"]
  /\ st' = [st EXCEPT ![a] = "PROCESSING"]
  /\ owed' = owed \ {a}
  /\ adrift' = adrift \ {a}
  /\ UNCHANGED <<procs, wedgePosting, wedgePaused, serves, checks>>
  /\ Writes(a, "PROCESSING")

\* The line does not reach the process, which dies: the rows go back, the
\* state is ERROR_RECOVERY and the turn's end leaves it so.
WriteFails(a) ==
  /\ SpendWedge("faults")
  /\ serves /\ wedgeTurn[a] = "no" /\ wedgeProc[a] = "up" /\ a \notin wedgePaused
  /\ st' = [st EXCEPT ![a] = "ERROR_RECOVERY"]
  /\ wedgeProc' = [wedgeProc EXCEPT ![a] = "down"]
  /\ owed' = owed \union {a}
  /\ adrift' = adrift \union {a}
  /\ UNCHANGED <<wedgeTurn, doing, young, wedgePosting, wedgePaused, serves, checks>>
  /\ Writes(a, "ERROR_RECOVERY")

\* An event of the stream.  From here the turn thinks or runs tools, asks the
\* user, or hangs.
Event(a, next) ==
  /\ wedgeTurn[a] = "runs" /\ doing[a] \in {"moves", "asks"}
  /\ (doing[a] = "asks" => next = "asks" /\ beacon[a].age > 0)
  /\ (next = "asks" /\ doing[a] # "asks" => a \notin wedgePosting)
  /\ doing' = [doing EXCEPT ![a] = next]
  /\ wedgePosting' = IF next = "asks" /\ doing[a] # "asks" THEN wedgePosting \union {a} ELSE wedgePosting
  /\ UNCHANGED <<wedgeTurn, owed, adrift, st, procs, wedgePaused, serves, checks, wedgeLeft>>
  /\ Writes(a, "PROCESSING")

\* read_events reaches the result: IDLE, unless a background task makes more
\* of this process's work likely.  The question is discarded.
Finishes(a, lingers) ==
  /\ wedgeTurn[a] = "runs" /\ doing[a] = "moves"
  /\ wedgeTurn' = [wedgeTurn EXCEPT ![a] = IF lingers THEN "rests" ELSE "no"]
  /\ doing' = [doing EXCEPT ![a] = "nothing"]
  /\ UNCHANGED <<owed, adrift, wedgePosting, procs, wedgePaused, serves, checks, wedgeLeft>>
  /\ IF lingers
     THEN UNCHANGED <<st, beacon, episode>>
     ELSE st' = [st EXCEPT ![a] = "IDLE"] /\ Writes(a, "IDLE")

\* settle: nothing came, and the process is there.
Settles_Quietly(a) == st' = [st EXCEPT ![a] = "IDLE"] /\ SamePages
Settles(a) == st' = [st EXCEPT ![a] = "IDLE"] /\ Writes(a, "IDLE")

SettleIdle(a) ==
  /\ wedgeTurn[a] = "rests" /\ wedgeProc[a] = "up"
  /\ wedgeTurn' = [wedgeTurn EXCEPT ![a] = "no"]
  /\ UNCHANGED <<doing, owed, adrift, wedgePosting, procs, wedgePaused, serves, checks, wedgeLeft>>
  /\ Settles(a)

\* settle gives up at once when the process is gone.
SettleGone(a) ==
  /\ wedgeTurn[a] = "rests" /\ wedgeProc[a] = "down"
  /\ wedgeTurn' = [wedgeTurn EXCEPT ![a] = "no"]
  /\ adrift' = adrift \union {a}
  /\ UNCHANGED <<doing, owed, st, wedgePosting, procs, wedgePaused, serves, checks, wedgeLeft>>
  /\ SamePages

\* It started a turn of its own.
SettleFollows(a) ==
  /\ wedgeTurn[a] = "rests" /\ wedgeProc[a] = "up"
  /\ SpendWedge("turns")
  /\ wedgeTurn' = [wedgeTurn EXCEPT ![a] = "runs"]
  /\ doing' = [doing EXCEPT ![a] = "moves"]
  /\ UNCHANGED <<owed, adrift, st, wedgePosting, procs, wedgePaused, serves, checks>>
  /\ Writes(a, "PROCESSING")

\* The process dies, of itself or in a bounce.  A turn that was reading meets
\* the end of the stream and ends.
Dies(a) ==
  /\ SpendWedge("faults")
  /\ wedgeProc[a] = "up"
  /\ wedgeProc' = [wedgeProc EXCEPT ![a] = "down"]
  /\ wedgeTurn' = [wedgeTurn EXCEPT ![a] = IF @ = "runs" THEN "no" ELSE @]
  /\ doing' = [doing EXCEPT ![a] = "nothing"]
  /\ UNCHANGED <<young, owed, adrift, wedgePosting, wedgePaused, serves, checks>>
  /\ IF wedgeTurn[a] = "runs"
     THEN st' = [st EXCEPT ![a] = "IDLE"] /\ Writes(a, "IDLE")
     ELSE /\ beacon' = [beacon EXCEPT ![a].gone = TRUE]
          /\ UNCHANGED <<st, episode>>

\* start_agent_subprocess writes no beacon.
WedgeRespawns(a) ==
  /\ serves /\ wedgeProc[a] = "down" /\ wedgeTurn[a] # "rests"
  /\ wedgeProc' = [wedgeProc EXCEPT ![a] = "up"]
  /\ young' = [young EXCEPT ![a] = TRUE]
  /\ st' = [st EXCEPT ![a] = "IDLE"]
  /\ beacon' = [beacon EXCEPT ![a].gone = TRUE]
  /\ UNCHANGED <<wedgeTurns, wedgePosting, wedgePaused, serves, checks, episode, wedgeLeft>>

---------------------------------------------------------------------------
\* Questions, pauses, the server's restart, the operator.

\* handle_ask_create after its await: the turn that asked may be over.
AskPosted(a) ==
  /\ a \in wedgePosting
  /\ wedgePosting' = wedgePosting \ {a}
  /\ UNCHANGED <<wedgeTurns, st, procs, wedgePaused, serves, checks, wedgeLeft>>
  /\ Writes(a, "AWAITING_USER")

\* Answered, or swept as expired: only while the registry has it.
AskEnds(a) ==
  /\ wedgeTurn[a] = "runs" /\ doing[a] = "asks" /\ a \notin wedgePosting
  /\ doing' = [doing EXCEPT ![a] = "moves"]
  /\ UNCHANGED <<wedgeTurn, owed, adrift, st, procs, wedgePosting, wedgePaused, serves, checks,
                 wedgeLeft>>
  /\ Writes(a, "PROCESSING")

Pauses(a) ==
  /\ serves
  /\ IF a \in wedgePaused THEN wedgePaused' = wedgePaused \ {a} /\ UNCHANGED wedgeLeft
                     ELSE wedgePaused' = wedgePaused \union {a} /\ SpendWedge("faults")
  /\ UNCHANGED <<wedgeTurns, st, procs, wedgePosting, serves, checks>>
  /\ Writes(a, st[a])

\* The rows given back are withdrawn by the operator.
Withdrawn(a) ==
  /\ SpendWedge("faults")
  /\ a \in owed
  /\ owed' = owed \ {a}
  /\ UNCHANGED <<wedgeTurn, doing, adrift, st, procs, wedgePosting, wedgePaused, serves, checks>>
  /\ SamePages

ServerDies ==
  /\ SpendWedge("faults")
  /\ serves
  /\ serves' = FALSE
  /\ wedgeProc' = [a \in WedgeShards |-> "down"]
  /\ wedgeTurn' = [a \in WedgeShards |-> "no"]
  /\ doing' = [a \in WedgeShards |-> "nothing"]
  /\ wedgePosting' = {}
  /\ beacon' = [a \in WedgeShards |-> [beacon[a] EXCEPT !.gone = TRUE]]
  /\ UNCHANGED <<young, owed, adrift, st, wedgePaused, checks, episode>>

Startup_Keeps == SamePages
Startup == Beacons(WedgeShards, [a \in WedgeShards |-> "IDLE"])

ServerStarts ==
  /\ ~ serves
  /\ serves' = TRUE
  /\ st' = [a \in WedgeShards |-> "IDLE"]
  /\ adrift' = {}
  /\ UNCHANGED <<wedgeTurn, doing, owed, procs, wedgePosting, wedgePaused, checks, wedgeLeft>>
  /\ Startup

---------------------------------------------------------------------------
\* Time.  Whatever takes seconds has happened before two minutes are over:
\* an event of a turn that moves, a settle, a respawn, a post, the turn of rows
\* that were given back.
Prompt(a) ==
  /\ doing[a] # "moves" /\ wedgeTurn[a] # "rests" /\ a \notin wedgePosting
  /\ serves => wedgeProc[a] = "up" /\ (a \in owed => a \in wedgePaused)

Ages ==
  /\ \A a \in WedgeShards : Prompt(a)
  /\ \E a \in WedgeShards : beacon[a].age < 2
  /\ beacon' = [a \in WedgeShards |-> [beacon[a] EXCEPT !.age = IF @ < 2 THEN @ + 1 ELSE 2]]
  /\ young' = [a \in WedgeShards |-> young[a] /\ beacon[a].age = 0]
  /\ UNCHANGED <<wedgeTurns, st, wedgeProc, wedgePosting, wedgePaused, serves, checks, episode,
                 wedgeLeft>>

---------------------------------------------------------------------------
\* The checks.

Active_Recovery == {"ERROR_RECOVERY"}
Active == {"PROCESSING", "ERROR_RECOVERY"}

Silent(a) == beacon[a].state \in Active /\ beacon[a].age > 0

\* diagnose: the severity of the first cause that matches.
Diagnose(a) ==
  CASE beacon[a].state = "PROCESSING" /\ beacon[a].gone -> "critical"
    [] beacon[a].paused -> "info"
    [] ~ beacon[a].gone -> IF young[a] THEN "info" ELSE "warn"
    [] OTHER -> IF beacon[a].age > 1 THEN "critical" ELSE "warn"

\* stall_stage.
Stage ==
  /\ found' = [a \in WedgeShards |-> IF Silent(a) THEN Diagnose(a) ELSE "none"]
  /\ found' # found
  /\ UNCHANGED <<wedgeTurns, st, procs, beacon, wedgePosting, wedgePaused, serves, episode, pager,
                 wedgeLeft>>

Key(a) == <<a, episode[a]>>

Paged == {a \in WedgeShards : Silent(a) /\ Diagnose(a) # "info" /\ Key(a) \notin alerted}

BirthBefore(k, l) == k[1] < l[1] \/ (k[1] = l[1] /\ k[2] < l[2])

\* sorted(...)[-100:]
LastOf(K) == {k \in K : Cardinality({l \in K : BirthBefore(k, l)}) < Keep}

Remembered_Fresh(F) == F
Remembered(F) == LastOf(alerted \cup F)

\* main: one message for all that are new ...
WedgeCheck ==
  /\ checking = "idle"
  /\ Paged # {}
  /\ \A a \in Paged : episode[a] <= MaxPages /\ pages[Key(a)] < 2
  /\ checking' = "sends" /\ reports' = {Key(a) : a \in Paged}
  /\ UNCHANGED <<wedgeTurns, st, procs, beacon, wedgePosting, wedgePaused, serves, found, episode,
                 alerted, pages, unsaved, crowdedOut, wedgeLeft>>

\* ... which lands ...
AlertLands ==
  /\ checking = "sends"
  /\ checking' = "sent"
  /\ pages' = [k \in DOMAIN pages |-> IF k \in reports THEN pages[k] + 1 ELSE pages[k]]
  /\ UNCHANGED <<wedgeTurns, st, procs, beacon, wedgePosting, wedgePaused, serves, found, episode,
                 alerted, reports, unsaved, crowdedOut, wedgeLeft>>

\* ... or does not: nothing is remembered, and the next check tries again ...
AlertFails ==
  /\ SpendWedge("slips")
  /\ checking = "sends"
  /\ checking' = "idle" /\ reports' = {}
  /\ UNCHANGED <<wedgeTurns, st, procs, beacon, wedgePosting, wedgePaused, serves, found, episode,
                 alerted, pages, unsaved, crowdedOut>>

\* ... and once sent is written down.  The file keeps the last keys.
Remembers ==
  /\ checking = "sent"
  /\ checking' = "idle" /\ reports' = {}
  /\ alerted' = Remembered(reports)
  /\ crowdedOut' = crowdedOut \cup ((alerted \cup reports) \ LastOf(alerted \cup reports))
  /\ UNCHANGED <<wedgeTurns, st, procs, beacon, wedgePosting, wedgePaused, serves, found, episode,
                 pages, unsaved, wedgeLeft>>

\* Instead send_alert runs into its timeout and says it failed, the run is killed
\* before the file is written, or _save_state swallows the error.
Forgets ==
  /\ SpendWedge("slips")
  /\ checking = "sent"
  /\ checking' = "idle" /\ reports' = {}
  /\ unsaved' = unsaved \cup reports
  /\ UNCHANGED <<wedgeTurns, st, procs, beacon, wedgePosting, wedgePaused, serves, found, episode,
                 alerted, pages, crowdedOut>>

---------------------------------------------------------------------------

WedgeNext ==
  \/ \E a \in WedgeShards : \/ TurnStarts(a) \/ WriteFails(a)
                         \/ \E next \in {"moves", "asks", "hangs"} : Event(a, next)
                         \/ \E lingers \in BOOLEAN : Finishes(a, lingers)
                         \/ SettleIdle(a) \/ SettleGone(a) \/ SettleFollows(a)
                         \/ Dies(a) \/ WedgeRespawns(a)
                         \/ AskPosted(a) \/ AskEnds(a) \/ Pauses(a) \/ Withdrawn(a)
  \/ ServerDies \/ ServerStarts \/ Ages \/ Stage
  \/ WedgeCheck \/ AlertLands \/ AlertFails \/ Remembers \/ Forgets

WedgeSpec == WedgeInit /\ [][WedgeNext]_WedgeVars

\* The checks run every minute; what takes seconds happens; time passes.
WedgeFair ==
  /\ WF_WedgeVars(Ages) /\ WF_WedgeVars(Stage) /\ WF_WedgeVars(ServerStarts)
  /\ \A a \in WedgeShards :
       /\ WF_WedgeVars(SettleIdle(a)) /\ WF_WedgeVars(SettleGone(a))
       /\ WF_WedgeVars(WedgeRespawns(a)) /\ WF_WedgeVars(AskPosted(a))
       /\ WF_WedgeVars(TurnStarts(a))
       /\ WF_WedgeVars(Event(a, "hangs")) /\ WF_WedgeVars(Finishes(a, FALSE))

---------------------------------------------------------------------------

\* What the checks say of an agent that is up and has no turn: nothing, however
\* long it is silent.  Excused: a turn whose end wrote no IDLE beacon (the
\* process died before settle looked, or the line could not be written).
IdleIsQuiet ==
  [][Stage => \A a \in WedgeShards :
        serves /\ wedgeTurn[a] = "no" /\ wedgeProc[a] = "up" /\ a \notin adrift
          => found'[a] = "none"]_WedgeVars

\* One page for one episode of silence, however many checks see it and however the
\* beacon changes while the page is on its way.  Excused: a page that landed and
\* was not remembered (a timeout, a kill, a file that could not be written), and an
\* episode the file has had to drop.
PagedOnce == \A k \in DOMAIN pages : pages[k] > 1 => k \in unsaved \cup crowdedOut

\* A turn that hangs is reported, or does not stay hung.  Excused: the parking
\* of a beacon whose turn was over before its question was on the screen.
HangIsFound ==
  \A a \in WedgeShards :
    (wedgeTurn[a] = "runs" /\ doing[a] = "hangs" /\ ~ beacon[a].ask /\ a \notin wedgePaused)
       ~> (found[a] # "none" \/ doing[a] # "hangs" \/ beacon[a].ask)

=============================================================================
