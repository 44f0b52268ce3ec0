------------------------------ MODULE Switches ------------------------------
(***************************************************************************)
(* /effort and /model: an agent-level override (lib/runtime_overrides.py)  *)
(* that every shard of the agent takes at its next spawn.  The handlers of *)
(* bin/agent-server.py respawn an idle shard at once and leave a busy one  *)
(* to the on_turn_end hook, whose followup respawns it after the turn.     *)
(*                                                                         *)
(* The override is a number that grows with every change, of either kind;  *)
(* a process is the number its spawn read.                                 *)
(***************************************************************************)
EXTENDS Naturals, FiniteSets

CONSTANTS
    SwitchShards,     \* of one agent
    Handlers,         \* requests at once
    MaxSets,          \* bound: changes
    MaxSwitchTurns,   \* bound: turns of all shards
    MaxSwitchDeaths   \* bound: processes that die by themselves

\* The followup of a turn and the watcher of deaths are doers of their own.
SwitchAssumption == Handlers \cap {"followup", "watcher"} = {}

Doers == Handlers \cup {"followup", "watcher"}

VARIABLES
    want,             \* runtime-overrides.json
    switchProc,       \* agent_processes: 0, or what the process was spawned with
    switchBusy,       \* agent_states is PROCESSING
    switchTurn,       \* none, running, read (its result is there), closing (its hooks are through)
    pending,          \* effort_pending
    respawning,       \* effort_respawning
    follow,           \* shards whose drain has a respawn among its followups
    todo,             \* per handler: the shards it has not looked at yet
    step,             \* per shard and doer: none, killing, killed, spawning
    read,             \* per shard and doer: the override its spawn read
    switchTurns, switchDeaths,  \* bounds
    switchRaced,      \* history: shards with a spawn on its way when the last change came
    missed            \* history: shards whose pending change the turn in flight did not take

SwitchVars == <<want, switchProc, switchBusy, switchTurn, pending, respawning, follow, todo, step,
                read, switchTurns, switchDeaths, switchRaced, missed>>

SwitchInit ==
    /\ want = 1 /\ switchProc = [s \in SwitchShards |-> 1]
    /\ switchBusy = {} /\ switchTurn = [s \in SwitchShards |-> "none"]
    /\ pending = {} /\ respawning = {} /\ follow = {}
    /\ todo = [h \in Handlers |-> {}]
    /\ step = [s \in SwitchShards |-> [d \in Doers |-> "none"]]
    /\ read = [s \in SwitchShards |-> [d \in Doers |-> 0]]
    /\ switchTurns = 0 /\ switchDeaths = 0 /\ switchRaced = {} /\ missed = {}

-----------------------------------------------------------------------------
(* Faulty variants of definitions below: each breaks a property. *)

\* before_claim lets a drain through while its shard respawns
Deferred_Not(s) == FALSE

\* an idle shard is left to its next turn's end and called applied
SwitchIdle_Left(s) == FALSE

\* the hook forgets the shard when its turn ends
Hooked_Forgets(s) == FALSE

\* a shard that has its respawn stays pending
Undeferred_Not(s) == pending

-----------------------------------------------------------------------------
(* Changes *)

Spawning(s) == \E d \in Doers : step[s][d] = "spawning"

\* set_effort or set_model: the file is rewritten whole and renamed into place,
\* with no await in between; then the shards are looked at, one after the other.
SetOverride(h) ==
    /\ todo[h] = {} /\ \A s \in SwitchShards : step[s][h] = "none"
    /\ want < MaxSets + 1
    /\ want' = want + 1
    /\ todo' = [todo EXCEPT ![h] = SwitchShards]
    /\ switchRaced' = {s \in SwitchShards : Spawning(s)}
    /\ UNCHANGED <<switchProc, switchBusy, switchTurn, pending, respawning, follow, step, read,
                   switchTurns, switchDeaths, missed>>

\* A shard with a process and no turn is respawned by the handler itself.
SwitchIdle(s) == switchProc[s] # 0 /\ s \notin switchBusy
InTurn(s) == switchProc[s] # 0 /\ s \in switchBusy
\* The handler looks at its next shard: respawn, defer, or "nothing running: the
\* next spawn reads it".
Look(h, s) ==
    /\ s \in todo[h] /\ \A o \in SwitchShards : step[o][h] = "none"
    /\ todo' = [todo EXCEPT ![h] = @ \ {s}]
    /\ step' = IF SwitchIdle(s) THEN [step EXCEPT ![s][h] = "killing"] ELSE step
    /\ pending' = IF InTurn(s) THEN pending \cup {s} ELSE pending
    /\ missed' = IF InTurn(s) /\ switchTurn[s] = "closing" THEN missed \cup {s} ELSE missed
    /\ UNCHANGED <<want, switchProc, switchBusy, switchTurn, respawning, follow, read,
                   switchTurns, switchDeaths, switchRaced>>

-----------------------------------------------------------------------------
(* reload_agent *)

\* kill_agent_subprocess has waited for the process: it is out of the table.
KillEnds(s, d) ==
    /\ step[s][d] = "killing"
    /\ step' = [step EXCEPT ![s][d] = "killed"]
    /\ switchProc' = [switchProc EXCEPT ![s] = 0]
    /\ UNCHANGED <<want, switchBusy, switchTurn, pending, respawning, follow, todo, read,
                   switchTurns, switchDeaths, switchRaced, missed>>

\* start_agent_subprocess reads effective_model and effective_effort, and goes on
\* to await the CLI's help text and the spawn.
SpawnReads(s, d) ==
    /\ step[s][d] = "killed"
    /\ step' = [step EXCEPT ![s][d] = "spawning"]
    /\ read' = [read EXCEPT ![s][d] = want]
    /\ UNCHANGED <<want, switchProc, switchBusy, switchTurn, pending, respawning, follow, todo,
                   switchTurns, switchDeaths, switchRaced, missed>>

\* The new process is in the table and the shard IDLE; the followup's respawn ends
\* the shard's deferral.
SpawnLands(s, d) ==
    /\ step[s][d] = "spawning"
    /\ step' = [step EXCEPT ![s][d] = "none"]
    /\ read' = [read EXCEPT ![s][d] = 0]
    /\ switchProc' = [switchProc EXCEPT ![s] = read[s][d]]
    /\ switchBusy' = switchBusy \ {s}
    /\ respawning' = IF d = "followup" THEN respawning \ {s} ELSE respawning
    /\ UNCHANGED <<want, switchTurn, pending, follow, todo, switchTurns, switchDeaths,
                   switchRaced, missed>>

\* The process dies by itself; respawn_watcher starts another.
Die(s) ==
    /\ switchDeaths < MaxSwitchDeaths /\ switchProc[s] # 0
    /\ \A d \in Doers : step[s][d] = "none"
    /\ switchDeaths' = switchDeaths + 1
    /\ step' = [step EXCEPT ![s]["watcher"] = "killed"]
    /\ switchProc' = [switchProc EXCEPT ![s] = 0]
    /\ UNCHANGED <<want, switchBusy, switchTurn, pending, respawning, follow, todo, read,
                   switchTurns, switchRaced, missed>>

-----------------------------------------------------------------------------
(* Turns *)

\* effort_before_claim.
Deferred(s) == s \in respawning

\* A drain claims: the lock is free, the shard IDLE, its process there.
SwitchTurnBegins(s) ==
    /\ switchTurn[s] = "none" /\ s \notin switchBusy /\ s \notin follow
    /\ switchProc[s] # 0 /\ ~Deferred(s) /\ switchTurns < MaxSwitchTurns
    /\ switchTurns' = switchTurns + 1
    /\ switchTurn' = [switchTurn EXCEPT ![s] = "running"]
    /\ switchBusy' = switchBusy \cup {s}
    /\ UNCHANGED <<want, switchProc, pending, respawning, follow, todo, step, read, switchDeaths,
                   switchRaced, missed>>

\* run_turn has the result: the shard is IDLE from here on, lock and all, unless the
\* process is known to have more to say.
ResultRead(s, more) ==
    /\ switchTurn[s] = "running"
    /\ switchTurn' = [switchTurn EXCEPT ![s] = "read"]
    /\ switchBusy' = IF more /\ switchProc[s] # 0 THEN switchBusy ELSE switchBusy \ {s}
    /\ UNCHANGED <<want, switchProc, pending, respawning, follow, todo, step, read, switchTurns,
                   switchDeaths, switchRaced, missed>>

\* effort_on_turn_end: a pending shard is deferred from here on.
Hooked(s) == s \in pending

Undeferred(s) == pending \ {s}

\* finish_turn reaches its hooks, after a reply, an error or a death.
HookFires(s) ==
    /\ switchTurn[s] = "read"
    /\ switchTurn' = [switchTurn EXCEPT ![s] = "closing"]
    /\ pending' = Undeferred(s)
    /\ respawning' = IF Hooked(s) THEN respawning \cup {s} ELSE respawning
    /\ follow' = IF Hooked(s) THEN follow \cup {s} ELSE follow
    /\ UNCHANGED <<want, switchProc, switchBusy, todo, step, read, switchTurns, switchDeaths,
                   switchRaced, missed>>

\* finish_turn returns before its hooks: a usage wall, or a batch given back.
NoHook(s) ==
    /\ switchTurn[s] = "read"
    /\ switchTurn' = [switchTurn EXCEPT ![s] = "closing"]
    /\ missed' = IF s \in pending THEN missed \cup {s} ELSE missed
    /\ UNCHANGED <<want, switchProc, switchBusy, pending, respawning, follow, todo, step, read,
                   switchTurns, switchDeaths, switchRaced>>

\* settle reads one more turn of this process before the lock is released.
SettlesOne(s) ==
    /\ switchTurn[s] = "closing" /\ switchProc[s] # 0 /\ switchTurns < MaxSwitchTurns
    /\ switchTurns' = switchTurns + 1
    /\ switchTurn' = [switchTurn EXCEPT ![s] = "running"]
    /\ switchBusy' = switchBusy \cup {s}
    /\ UNCHANGED <<want, switchProc, pending, respawning, follow, todo, step, read, switchDeaths,
                   switchRaced, missed>>

\* The shard is IDLE, or its process gone, and the lock free; the followups run.
LoopEnds(s) ==
    /\ switchTurn[s] = "closing"
    /\ switchTurn' = [switchTurn EXCEPT ![s] = "none"]
    /\ switchBusy' = IF switchProc[s] = 0 THEN switchBusy ELSE switchBusy \ {s}
    /\ step' = IF s \in follow THEN [step EXCEPT ![s]["followup"] = "killing"] ELSE step
    /\ follow' = follow \ {s}
    /\ UNCHANGED <<want, switchProc, pending, respawning, todo, read, switchTurns, switchDeaths,
                   switchRaced, missed>>

-----------------------------------------------------------------------------
SwitchNext ==
    \/ \E h \in Handlers : SetOverride(h) \/ \E s \in SwitchShards : Look(h, s)
    \/ \E s \in SwitchShards :
         \/ \E d \in Doers : KillEnds(s, d) \/ SpawnReads(s, d) \/ SpawnLands(s, d)
         \/ \E more \in BOOLEAN : ResultRead(s, more)
         \/ Die(s) \/ SwitchTurnBegins(s) \/ HookFires(s) \/ NoHook(s) \/ SettlesOne(s) \/ LoopEnds(s)

SwitchSpec == SwitchInit /\ [][SwitchNext]_SwitchVars

-----------------------------------------------------------------------------
(* Properties *)

SwitchAtRest(s) ==
    /\ switchTurn[s] = "none" /\ s \notin follow
    /\ \A d \in Doers : step[s][d] = "none"
    /\ \A h \in Handlers : s \notin todo[h]

\* A shard at rest runs with the latest change, whichever handlers, deaths and
\* turns crossed, or the change waits for its next turn.  Not when a spawn that had
\* read the older override was on its way as the change came.
AppliedIsUsed ==
    \A s \in SwitchShards :
        SwitchAtRest(s) /\ s \notin switchRaced => switchProc[s] = want \/ s \in pending

\* The same of every shard at rest, whatever was on its way.
\* Does not hold: see the README.
AppliedAlways == \A s \in SwitchShards : SwitchAtRest(s) => switchProc[s] = want \/ s \in pending

\* The followup's respawn never kills a turn: from the end of the turn it waited
\* for, no drain claims for the shard.
RespawnIsAlone == \A s \in SwitchShards : step[s]["followup"] # "none" => switchTurn[s] = "none"

\* A deferred change does not outlast the turn in flight, except when that turn
\* ended without its hooks or they had fired when the change came.
DeferredLands == \A s \in SwitchShards : (SwitchAtRest(s) /\ s \in pending) => s \in missed

\* "a change lands after the turn in flight" (docs/ARCHITECTURE.md).
\* Does not hold: see the README.
LandsAfterTurn == \A s \in SwitchShards : SwitchAtRest(s) => s \notin pending
=============================================================================
