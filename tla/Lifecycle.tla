------------------------------ MODULE Lifecycle ------------------------------
(***************************************************************************)
(* The life of one shard's subprocess, await by await: start, kill and the *)
(* respawn watcher of bin/agent-server.py 801-1240 under operators' verbs  *)
(* that take no lock (reload, reset, interrupt, kill), with the resume     *)
(* fallback and the crashloop brake.  A spawn that raises is left out.     *)
(***************************************************************************)
EXTENDS Integers, FiniteSets

CONSTANTS
  Ops,           \* bound: operator requests, each a task
  Kinds,         \* their kinds, of "reload", "reset", "kill"
  MaxProcs,      \* bound: processes spawned
  MaxExits,      \* bound: exits nobody asked for and no refusal caused
  MaxLifeTurns,  \* bound: turns
  GiveUp,        \* RESUME_FAIL_GIVEUP
  RespawnMax,    \* RESPAWN_MAX_IN_WINDOW
  MayRefuse      \* may the CLI refuse to resume the session there is at the start?

\* The resume is given up before the brake: both numbers are 3 in the code.
LifecycleAssumption ==
  /\ Kinds \subseteq {"reload", "reset", "kill"} /\ MayRefuse \in BOOLEAN
  /\ {MaxProcs, MaxExits, MaxLifeTurns, GiveUp, RespawnMax} \subseteq Nat
  /\ MaxProcs # 0 /\ RespawnMax # 0 /\ GiveUp <= RespawnMax

Procs == 1..MaxProcs

VARIABLES
  live,        \* the processes that run
  spawned,     \* how many were spawned
  tracked,     \* agent_processes[shard], 0 for none
  watcher,     \* [Procs -> where the process' respawn_watcher is]
  watchTask,   \* respawn_watcher_tasks[shard]: whose watcher, 0 for none
  deliberate,  \* shard in deliberate_kills
  lock,        \* "free", "turn" or "watcher"
  op,          \* [Ops -> kind, where it is, the process it kills]
  begun,       \* sessions.started
  refused,     \* the CLI does not know the session (any more)
  resumed,     \* resume_spawn_info[shard] holds the running spawn
  streak,      \* resume_fail_streak
  history,     \* exits in the window of the brake
  braked,      \* the watcher has left the shard down
  exits, lifeTurns

LifeVars == <<live, spawned, tracked, watcher, watchTask, deliberate, lock, op, begun, refused,
              resumed, streak, history, braked, exits, lifeTurns>>

session == <<begun, refused>>
fallback == <<resumed, streak, history, braked>>

LifeInit ==
  /\ live = {1} /\ spawned = 1 /\ tracked = 1
  /\ watcher = [p \in Procs |-> IF p = 1 THEN "wait" ELSE "none"] /\ watchTask = 1
  /\ deliberate = FALSE /\ lock = "free"
  /\ op = [o \in Ops |-> [kind |-> "none", pc |-> "idle", victim |-> 0]]
  /\ begun \in BOOLEAN /\ refused = FALSE
  /\ resumed = begun /\ streak = 0 /\ history = 0 /\ braked = FALSE
  /\ exits = 0 /\ lifeTurns = 0

At(o, pc) == op[o].pc = pc
Goto(o, pc) == op' = [op EXCEPT ![o].pc = pc]

\* A cancelled watcher ends at the await it is at, and gives the lock back.
CancelWatcher(p) ==
  /\ watcher' = IF p = 0 THEN watcher ELSE [watcher EXCEPT ![p] = "none"]
  /\ lock' = IF p # 0 /\ watcher[p] \in {"marks", "start"} THEN "free" ELSE lock

----------------------------------------------------------------------------
(* start_agent_subprocess *)

\* The process runs; a resume the CLI refuses exits at once.
SpawnedAs(p) ==
  /\ spawned' = p /\ tracked' = p
  /\ live' = IF begun /\ refused THEN live ELSE live \cup {p}
  /\ watchTask' = p /\ deliberate' = FALSE /\ resumed' = begun

\* The stale watcher is cancelled, unless it is the task that spawns.
StopsStale_Always(own) == TRUE
StopsStale(own) == watchTask # own

----------------------------------------------------------------------------
(* An operator's request *)

\* handle_agent_reload, handle_agent_reset, handle_agent_interrupt, handle_agent_kill.
Asked(o) ==
  /\ At(o, "idle")
  /\ \E k \in Kinds : op' = [op EXCEPT ![o] = [kind |-> k, pc |-> "kill", victim |-> 0]]
  /\ UNCHANGED <<live, spawned, tracked, watcher, watchTask, deliberate, lock, session, fallback,
                 exits, lifeTurns>>

AfterKill(o) == CASE op[o].kind = "kill" -> "end"
                  [] op[o].kind = "reset" -> "clear"
                  [] OTHER -> "start"

\* kill_agent_subprocess up to proc.wait(): nothing to kill, or terminate.
KillBegins(o) ==
  /\ At(o, "kill")
  /\ IF tracked = 0
     THEN /\ Goto(o, AfterKill(o)) /\ UNCHANGED <<live, deliberate>>
     ELSE /\ op' = [op EXCEPT ![o].pc = "gone", ![o].victim = tracked]
          /\ deliberate' = TRUE /\ live' = live \ {tracked}
  /\ UNCHANGED <<spawned, tracked, watcher, watchTask, lock, session, fallback, exits, lifeTurns>>

\* The wait returns: agent_processes.pop, whatever it holds by now.
KillPops(o) ==
  /\ At(o, "gone") /\ op[o].victim \notin live
  /\ tracked' = 0 /\ Goto(o, "reap")
  /\ UNCHANGED <<live, spawned, watcher, watchTask, deliberate, lock, session, fallback, exits,
                 lifeTurns>>

\* After procreap: the watcher that is registered is cancelled.
KillReaps(o) ==
  /\ At(o, "reap")
  /\ CancelWatcher(watchTask) /\ watchTask' = 0 /\ Goto(o, AfterKill(o))
  /\ UNCHANGED <<live, spawned, tracked, deliberate, session, fallback, exits, lifeTurns>>

\* clear_session of restart_agent.
OpClears(o) ==
  /\ At(o, "clear")
  /\ begun' = FALSE /\ refused' = FALSE /\ resumed' = FALSE /\ streak' = 0
  /\ Goto(o, "start")
  /\ UNCHANGED <<live, spawned, tracked, watcher, watchTask, deliberate, lock, history, braked,
                 exits, lifeTurns>>

\* start_agent_subprocess up to create_subprocess_exec.
OpStarts(o) ==
  /\ At(o, "start")
  /\ CancelWatcher(watchTask) /\ watchTask' = 0 /\ Goto(o, "exec")
  /\ UNCHANGED <<live, spawned, tracked, deliberate, session, fallback, exits, lifeTurns>>

OpSpawns(o) ==
  /\ At(o, "exec") /\ spawned < MaxProcs
  /\ SpawnedAs(spawned + 1)
  /\ watcher' = [watcher EXCEPT ![spawned + 1] = "wait"]
  /\ Goto(o, "end")
  /\ UNCHANGED <<lock, session, streak, history, braked, exits, lifeTurns>>

----------------------------------------------------------------------------
(* respawn_watcher *)

\* proc.wait() returns; the first look at the flag.
WatcherWakes(p) ==
  /\ watcher[p] = "wait" /\ p \in 1..spawned \ live
  /\ watcher' = [watcher EXCEPT ![p] = IF deliberate THEN "none" ELSE "lock"]
  /\ UNCHANGED <<live, spawned, tracked, watchTask, deliberate, lock, op, session, fallback,
                 exits, lifeTurns>>

\* The second look, under the lock.
StillMine(p) == ~deliberate /\ tracked = p

WatcherLocks(p) ==
  /\ watcher[p] = "lock" /\ lock = "free"
  /\ IF StillMine(p)
     THEN watcher' = [watcher EXCEPT ![p] = "marks"] /\ lock' = "watcher"
     ELSE watcher' = [watcher EXCEPT ![p] = "none"] /\ UNCHANGED lock
  /\ UNCHANGED <<live, spawned, tracked, watchTask, deliberate, op, session, fallback, exits,
                 lifeTurns>>

\* resume_fail_streak >= RESUME_FAIL_GIVEUP.
GivesUp_Late(n) == n > GiveUp
GivesUp(n) == n >= GiveUp

\* The resume fallback and the brake; fast is whether the process died fast.
WatcherJudges(p) ==
  /\ watcher[p] = "marks"
  /\ \E fast \in (IF begun /\ refused THEN {TRUE} ELSE BOOLEAN), fresh \in BOOLEAN :
       LET fails == IF resumed /\ fast THEN streak + 1 ELSE 0
           old == IF fresh /\ ~(begun /\ refused) THEN 0 ELSE history
           n == (IF GivesUp(fails) THEN 0 ELSE old) + 1
       IN /\ streak' = IF GivesUp(fails) THEN 0 ELSE fails
          /\ begun' = (begun /\ ~GivesUp(fails)) /\ refused' = (refused /\ ~GivesUp(fails))
          /\ history' = n /\ resumed' = FALSE
          /\ IF n > RespawnMax
             THEN /\ braked' = TRUE /\ lock' = "free"
                  /\ watcher' = [watcher EXCEPT ![p] = "none"]
             ELSE /\ watcher' = [watcher EXCEPT ![p] = "start"] /\ UNCHANGED <<braked, lock>>
  /\ UNCHANGED <<live, spawned, tracked, watchTask, deliberate, op, exits, lifeTurns>>

\* start_agent_subprocess, called by the watcher of p itself.
WatcherStarts(p) ==
  /\ watcher[p] = "start"
  /\ LET stale == IF watchTask # 0 /\ StopsStale(p) THEN watchTask ELSE 0 IN
     IF stale = p
     THEN watcher' = [watcher EXCEPT ![p] = "none"] /\ lock' = "free"
     ELSE /\ watcher' = [q \in Procs |-> IF q = p THEN "exec"
                                         ELSE IF q = stale THEN "none" ELSE watcher[q]]
          /\ UNCHANGED lock
  /\ watchTask' = 0
  /\ UNCHANGED <<live, spawned, tracked, deliberate, op, session, fallback, exits, lifeTurns>>

WatcherSpawns(p) ==
  /\ watcher[p] = "exec" /\ spawned < MaxProcs
  /\ SpawnedAs(spawned + 1)
  /\ watcher' = [watcher EXCEPT ![p] = "none", ![spawned + 1] = "wait"] /\ lock' = "free"
  /\ UNCHANGED <<op, session, streak, history, braked, exits, lifeTurns>>

----------------------------------------------------------------------------
(* The process and its turns *)

LifeTurnBegins ==
  /\ lock = "free" /\ lifeTurns < MaxLifeTurns /\ tracked # 0
  /\ lock' = "turn" /\ lifeTurns' = lifeTurns + 1
  /\ begun' = (begun \/ tracked \in live)
  /\ UNCHANGED <<live, spawned, tracked, watcher, watchTask, deliberate, op, refused, fallback,
                 exits>>

TurnOver ==
  /\ lock = "turn" /\ lock' = "free"
  /\ UNCHANGED <<live, spawned, tracked, watcher, watchTask, deliberate, op, session, fallback,
                 exits, lifeTurns>>

\* The process exits, and perhaps its transcript is lost with it.
Exits ==
  /\ exits < MaxExits /\ tracked \in live
  /\ exits' = exits + 1 /\ live' = live \ {tracked}
  /\ refused' \in {refused, MayRefuse}
  /\ UNCHANGED <<spawned, tracked, watcher, watchTask, deliberate, lock, op, begun, fallback,
                 lifeTurns>>

OpStep(o) == \/ Asked(o) \/ KillBegins(o) \/ KillPops(o) \/ KillReaps(o) \/ OpClears(o)
             \/ OpStarts(o) \/ OpSpawns(o)
WatcherStep(p) == \/ WatcherWakes(p) \/ WatcherLocks(p) \/ WatcherJudges(p)
                  \/ WatcherStarts(p) \/ WatcherSpawns(p)

LifeNext == \/ \E o \in Ops : OpStep(o)
            \/ \E p \in Procs : WatcherStep(p)
            \/ LifeTurnBegins \/ TurnOver \/ Exits

LifeSpec == LifeInit /\ [][LifeNext]_LifeVars

----------------------------------------------------------------------------
(* Properties *)

Quiet == /\ \A o \in Ops : op[o].pc \in {"idle", "end"}
         /\ \A p \in Procs : watcher[p] \in {"none", "wait"} /\ (watcher[p] = "wait" => p \in live)
Killed == \E o \in Ops : op[o].kind = "kill"

\* Whatever requests and exits overlap, when all of them are over the shard has a process
\* that runs and is watched, unless it was killed or the brake left it down.
BackAtRest ==
  Quiet /\ ~Killed /\ ~braked => tracked \in live /\ watcher[tracked] = "wait"

\* A session the CLI refuses to resume does not run into the brake: it is given up for a
\* fresh one before (with no other exit than the one that lost it, and no request).
RefusalIsSurvived ==
  braked => exits > 1 \/ \E o \in Ops : op[o].pc # "idle"

\* A shard has one process.
\* Does not hold: see the README.
OneProcess == Cardinality(live) <= 1

\* POST /kill leaves the agent down.
\* Does not hold: see the README.
KillSticks == Quiet /\ (\A o \in Ops : op[o].kind \in {"kill", "none"}) /\ Killed => live = {}
=============================================================================
