------------------------------ MODULE TurnLoop ------------------------------
(***************************************************************************)
(* The turn loop of one shard: lib/turn_loop.py (drain, one turn, steering,*)
(* settle), the message_queue rows it claims (lib/msgqueue.py), its ledger *)
(* (lib/steering.py), and the subprocess lifecycle that runs concurrently  *)
(* with it in bin/agent-server.py (death and respawn_watcher, interrupt,   *)
(* reload, kill, hold and wake).                                           *)
(*                                                                         *)
(* Everything runs on one asyncio loop, so a step here is the code between *)
(* two awaits at which another task can run and matter.  The shard lock is *)
(* held by the drain from BeginDrain until pc is "free" again; the steer   *)
(* lock is held by the steer task while `steering` is not empty.  The      *)
(* claude CLI is external: it consumes the lines on its stdin at the start *)
(* of a turn or at a tool boundary, replays what it consumed, and ends a   *)
(* turn with a result.                                                     *)
(*                                                                         *)
(* The rows are people's messages and interrupts: calls, replies, edits,   *)
(* expiry, stealing and the hooks of the usage gate are not modelled.      *)
(***************************************************************************)
EXTENDS Naturals, Sequences, FiniteSets

CONSTANTS
    Channels,       \* Discord channels
    Steering,       \* steering.enabled of the shard
    MaxLines,       \* max_lines_per_turn
    BatchLimit,     \* rows one claim takes (20)
    RespawnMax,     \* RESPAWN_MAX_IN_WINDOW
    OpKinds,        \* operator requests exercised: subset of {"interrupt", "message", "reload", "kill", "flush"}
    MaxRows,        \* bound: rows ever inserted
    MaxDrains,      \* bound: drain tasks waiting for the shard lock
    MaxDeaths,      \* bound: unexpected exits of the subprocess
    MaxOps,         \* bound: operator requests
    MaxErrors,      \* bound: turns that end in an error or at a usage wall
    MaxSelf         \* bound: turns the CLI starts by itself

ASSUME TurnLoopAssumption ==
    /\ Steering \in BOOLEAN
    /\ MaxLines \in Nat /\ BatchLimit \in Nat \ {0} /\ RespawnMax \in Nat
    /\ OpKinds \subseteq {"interrupt", "message", "reload", "kill", "flush"}
    /\ MaxRows \in Nat /\ MaxDrains \in Nat \ {0} /\ MaxDeaths \in Nat
    /\ MaxOps \in Nat /\ MaxErrors \in Nat /\ MaxSelf \in Nat

Rows == 1..MaxRows
NoChannel == "none"

VARIABLES
    \* message_queue
    count,      \* rows 1..count exist, in created_at order
    status,     \* processed column
    chan,       \* channel_id
    prio,       \* priority = INTERRUPT_PRIORITY
    held,       \* not_before is in the future
    \* the server's state of the shard
    agent,      \* agent_states: IDLE, PROCESSING, ERROR_RECOVERY
    drains,     \* drain_shard tasks waiting for the shard lock
    pc,         \* where the task holding the shard lock is ("free": nobody)
    resume,     \* the drain reads a stale self turn and has yet to claim
    batch,      \* the turn being run or finished
    ledger,     \* lines written and not yet replayed
    flag,       \* shard in interrupted_agents
    bgseen,     \* bg_seen: a backgrounded task was started
    steerers,   \* a steer task waits to run
    steering,   \* rows the running steer task has claimed and not yet written
    redrain,    \* _redrain_when_alive waits
    waiter,     \* the control request interrupt_with_message waits on (0: none)
    \* the subprocess
    proc,       \* agent_processes: none, alive, dead (exited, still registered)
    op,         \* the operator request in progress: none, kill, killonly, start
    gaveup,     \* the respawn watcher left the shard down
    attached,   \* the reader reads the registered process ("cur") or a killed one ("old")
    tail,       \* what the killed process wrote and the reader has not read
    out,        \* stdout of the registered process, unread
    inq,        \* stdin lines the CLI has not consumed
    running,    \* the CLI is in a turn
    ate,        \* rows the CLI consumed in its current turn
    bgtask,     \* a background task may start a turn
    control,    \* the control request on the CLI's stdin (0: none)
    \* bounds
    deaths, ops, errors, selves

queue == <<count, status, chan, prio, held>>
turn == <<pc, resume, batch>>
marks == <<flag, bgseen>>
steer == <<steerers, steering>>
waits == <<redrain, waiter>>
process == <<proc, op, gaveup>>
reader == <<attached, tail>>
model == <<running, ate, bgtask, control>>
cli == <<out, inq, model>>
bounds == <<deaths, ops, errors, selves>>
vars == <<queue, agent, drains, turn, ledger, marks, steer, waits, process, reader, cli, bounds>>

-----------------------------------------------------------------------------
(* Values *)

\* A TurnBatch.  `result`: how reading ended; `ate`: the rows the CLI consumed in
\* the turn whose result was read.
Batch(rs, c, org) ==
    [rows |-> rs, merged |-> {}, chan |-> c, origin |-> org, awaiting |-> org = "followon",
     bg |-> FALSE, cut |-> FALSE, steered |-> 0, result |-> "none", ate |-> {}]

\* A ledger entry (kind: "primary" or "steer"); its text is told by its rows.
Line(k, rs, c) == [kind |-> k, rows |-> rs, chan |-> c]

\* Lines of stdout.
Replay(texts) == [t |-> "replay", texts |-> texts]
Result(k, rs, b) == [t |-> "result", kind |-> k, ate |-> rs, bg |-> b]
Init0 == [t |-> "init"]
Answer(n) == [t |-> "control_response", id |-> n]

Queued == {r \in Rows : status[r] = "queued"}
AnyHeld == \E r \in Queued : held[r]

\* Claim order: priority first, then age.
Ahead(a, b) == (prio[a] /\ ~prio[b]) \/ (prio[a] = prio[b] /\ a < b)
Foremost(S, n) == {r \in S : Cardinality({q \in S : Ahead(q, r)}) < n}
Head0 == CHOOSE r \in Queued : \A q \in Queued \ {r} : Ahead(r, q)

\* Faulty variants of definitions below, for testing the properties: a batch
\* that mixes channels, a replay that stands for every line sent so far, released
\* rows forgotten, no recount after a turn, no drain after a respawn, a steering
\* claim of a whole batch.
ClaimSet_Mixed == Foremost(Queued, BatchLimit)
Matched_All(texts) == Len(ledger)
ReleasePending_Forgets == ledger' = <<>> /\ UNCHANGED queue
Recount_Never == drains
AfterRespawn_Quiet == drains
Allowance_Batch == BatchLimit

\* claim_batch: up to a batch of rows of the head's channel.
ClaimSet == Foremost({r \in Queued : chan[r] = chan[Head0]}, BatchLimit)

\* The CLI lines of a process that is gone.
CliReset == /\ inq' = <<>> /\ running' = FALSE /\ ate' = {} /\ bgtask' = FALSE /\ control' = 0

SetStatus(S, v) == status' = [r \in Rows |-> IF r \in S THEN v ELSE status[r]]

\* spawn(drain_shard(...)), up to the bound.
Spawned == IF drains < MaxDrains THEN drains + 1 ELSE drains

Init ==
    /\ count = 0
    /\ status = [r \in Rows |-> "none"] /\ chan = [r \in Rows |-> NoChannel]
    /\ prio = [r \in Rows |-> FALSE] /\ held = [r \in Rows |-> FALSE]
    /\ agent = "IDLE" /\ drains = 0 /\ pc = "free" /\ resume = FALSE
    /\ batch = Batch({}, NoChannel, "queue")
    /\ ledger = <<>> /\ flag = FALSE /\ bgseen = FALSE
    /\ steerers = FALSE /\ steering = {} /\ redrain = FALSE /\ waiter = 0
    /\ proc = "alive" /\ op = "none" /\ gaveup = FALSE /\ attached = "cur" /\ tail = <<>>
    /\ out = <<>> /\ inq = <<>> /\ running = FALSE /\ ate = {} /\ bgtask = FALSE /\ control = 0
    /\ deaths = 0 /\ ops = 0 /\ errors = 0 /\ selves = 0

-----------------------------------------------------------------------------
(* Rows arrive *)

\* An insert in message_queue followed by notify_enqueued.
Insert(c, p) ==
    /\ count < MaxRows
    /\ LET r == count + 1
       IN  /\ count' = r
           /\ status' = [status EXCEPT ![r] = "queued"]
           /\ chan' = [chan EXCEPT ![r] = c]
           /\ prio' = [prio EXCEPT ![r] = p]
    /\ UNCHANGED held

\* notify_enqueued: a drain for an IDLE shard, a steer task for a busy one.
Notify ==
    /\ drains' = IF agent = "IDLE" THEN Spawned ELSE drains
    /\ steerers' = (steerers \/ (Steering /\ agent = "PROCESSING"))

Enqueue(c) ==
    /\ Insert(c, FALSE) /\ Notify
    /\ UNCHANGED <<agent, turn, ledger, marks, steering, waits, process, reader, cli, bounds>>

\* A hold ends: not_before is past and the wake timer drains the shard.
HoldWake ==
    /\ AnyHeld
    /\ held' = [r \in Rows |-> FALSE]
    /\ drains' = Spawned
    /\ UNCHANGED <<count, status, chan, prio, agent, turn, ledger, marks, steer, waits, process,
                   reader, cli, bounds>>

-----------------------------------------------------------------------------
(* drain_shard *)

\* The lock is free; what the drain does before it claims.
DrainStart(next) ==
    /\ drains > 0 /\ pc = "free"
    /\ drains' = drains - 1
    /\ pc' = next

\* The guards that end a drain at once: the shard is not IDLE, a row is held (the
\* wake timer is armed), or the process exited (the watcher brings it back).
MustNotDrain == agent # "IDLE" \/ AnyHeld \/ (Steering /\ proc = "dead")

DrainDropped ==
    /\ MustNotDrain /\ DrainStart("free")
    /\ UNCHANGED <<queue, agent, resume, batch, ledger, marks, steer, waits, process, reader, cli,
                   bounds>>

\* The position of the first init on stdout, 0 if there is none.
InitAt ==
    LET At == {i \in 1..Len(out) : out[i] = Init0}
    IN  IF At = {} THEN 0 ELSE CHOOSE i \in At : \A j \in At : i <= j

\* Reading a turn the CLI started: what came before its init is dropped.
SelfTurn ==
    /\ agent' = "PROCESSING"
    /\ batch' = Batch({}, batch.chan, "self")
    /\ out' = SubSeq(out, InitAt, Len(out))

\* _drain_stale_self_turn, then _coalesce.  bg_seen is forgotten either way.
DrainRuns ==
    /\ ~MustNotDrain
    /\ bgseen' = (bgseen /\ ~Steering)
    /\ LET stale == bgseen /\ Steering /\ proc = "alive"
       IN  IF stale /\ InitAt > 0
           THEN DrainStart("read") /\ resume' = TRUE /\ SelfTurn
           ELSE /\ DrainStart("claim")
                /\ out' = IF stale THEN <<>> ELSE out
                /\ UNCHANGED <<resume, agent, batch>>
    /\ UNCHANGED <<queue, ledger, flag, steer, waits, process, reader, inq, model, bounds>>

\* claim_next.
Claim ==
    /\ pc = "claim"
    /\ IF Queued = {}
       THEN pc' = "free" /\ UNCHANGED <<status, batch>>
       ELSE /\ pc' = "write"
            /\ SetStatus(ClaimSet, "running")
            /\ batch' = Batch(ClaimSet, chan[Head0], "queue")
    /\ UNCHANGED <<count, chan, prio, held, agent, drains, resume, ledger, marks, steer, waits,
                   process, reader, cli, bounds>>

-----------------------------------------------------------------------------
(* run_turn: the write *)

Primary == Line("primary", batch.rows, batch.chan)

\* The line is on the pipe; a dead process never reads it.
WriteLands ==
    /\ pc = "write" /\ steering = {} /\ proc # "none"
    /\ pc' = "written" /\ agent' = "PROCESSING"
    /\ ledger' = IF Steering THEN Append(ledger, Primary) ELSE ledger
    /\ inq' = IF proc = "alive" THEN Append(inq, batch.rows) ELSE inq
    /\ UNCHANGED <<queue, drains, resume, batch, marks, steer, waits, process, reader, out, model,
                   bounds>>

\* No process after wait_for_process (or a broken pipe, which also puts the shard
\* in ERROR_RECOVERY): the rows go back, _redrain_when_alive waits.
WriteFails ==
    /\ pc = "write" /\ steering = {} /\ proc # "alive"
    /\ proc = "none" => op = "none"
    /\ pc' = "settle"
    /\ SetStatus({r \in batch.rows : status[r] = "running"}, "queued")
    /\ agent' = IF proc = "dead" THEN "ERROR_RECOVERY"
                ELSE IF agent = "PROCESSING" THEN "IDLE" ELSE agent
    /\ redrain' = TRUE
    /\ batch' = Batch({}, batch.chan, "queue")
    /\ UNCHANGED <<count, chan, prio, held, drains, resume, ledger, marks, steer, waiter, process,
                   reader, cli, bounds>>

\* _redrain_when_alive.
Redrain ==
    /\ redrain /\ (proc = "alive" \/ (op = "none" /\ (proc = "none" \/ gaveup)))
    /\ redrain' = FALSE
    /\ drains' = IF proc = "alive" THEN Spawned ELSE drains
    /\ UNCHANGED <<queue, agent, turn, ledger, marks, steer, waiter, process, reader, cli, bounds>>

\* read_events looks the process up again (the session row was written in
\* between): it reads whatever is registered now, or returns at once.
ReadBegins ==
    /\ pc = "written"
    /\ IF proc = "none"
       THEN pc' = "finish" /\ batch' = [batch EXCEPT !.result = "nothing"]
       ELSE pc' = "read" /\ UNCHANGED batch
    /\ UNCHANGED <<queue, agent, drains, resume, ledger, marks, steer, waits, process, reader, cli,
                   bounds>>

-----------------------------------------------------------------------------
(* read_events *)

\* What the reader has before it: the registered process or the one it began with.
Stream == IF attached = "cur" THEN out ELSE tail
Rest == IF attached = "cur" THEN out' = Tail(out) /\ UNCHANGED tail
                            ELSE tail' = Tail(tail) /\ UNCHANGED out
Reading(t) == pc = "read" /\ Stream # <<>> /\ Head(Stream).t = t

ReadInit ==
    /\ Reading("init") /\ Rest
    /\ batch' = [batch EXCEPT !.awaiting = FALSE]
    /\ UNCHANGED <<queue, agent, drains, pc, resume, ledger, marks, steer, waits, process, attached,
                   inq, model, bounds>>

\* match_replay: a head prefix of the ledger, or nothing.
Matched(texts) ==
    IF Len(ledger) >= Len(texts) /\ \A i \in 1..Len(texts) : ledger[i].rows = texts[i]
    THEN Len(texts) ELSE 0

\* The rows of the ledger's steered lines among its entries 1..n.
SteerRows(n) == UNION {ledger[i].rows : i \in {j \in 1..n : ledger[j].kind = "steer"}}

\* _on_replay: the rows steered into this turn are answered by it.
ReadReplay ==
    /\ Reading("replay") /\ Rest
    /\ LET n == Matched(Head(Stream).texts)
       IN  /\ ledger' = SubSeq(ledger, n + 1, Len(ledger))
           /\ batch' = [batch EXCEPT !.awaiting = FALSE, !.merged = @ \cup SteerRows(n)]
    /\ UNCHANGED <<queue, agent, drains, pc, resume, marks, steer, waits, process, attached, inq,
                   model, bounds>>

ReadAnswer ==
    /\ Reading("control_response") /\ Rest
    /\ waiter' = IF waiter = Head(Stream).id THEN 0 ELSE waiter
    /\ UNCHANGED <<queue, agent, drains, turn, ledger, marks, steer, redrain, process, attached,
                   inq, model, bounds>>

\* The end of read_events: a turn marked interrupted has no answer.
Ended(how, rs, bg) ==
    /\ pc' = "finish" /\ attached' = "cur"
    /\ flag' = FALSE
    /\ bgseen' = (bgseen \/ bg)
    /\ batch' = [batch EXCEPT !.result = IF flag THEN "discarded" ELSE how, !.ate = rs, !.bg = bg]

\* The shard stays PROCESSING while more of this process's work is coming.
ReadResult ==
    /\ Reading("result")
    /\ LET res == Head(Stream)
       IN  /\ Ended(res.kind, res.ate, res.bg)
           /\ agent' = IF Steering /\ (res.bg \/ ledger # <<>>) THEN agent ELSE "IDLE"
    /\ IF attached = "cur" THEN out' = Tail(out) ELSE UNCHANGED out
    /\ tail' = <<>>
    /\ UNCHANGED <<queue, drains, resume, ledger, steer, waits, process, inq, model, bounds>>

\* release_pending: steered lines never replayed go back to the queue, primary
\* entries are dropped.
ReleasePending ==
    /\ ledger' = <<>>
    /\ SetStatus({r \in SteerRows(Len(ledger)) : status[r] = "running"}, "queued")
    /\ UNCHANGED <<count, chan, prio, held>>

ReadEOF ==
    /\ pc = "read" /\ Stream = <<>> /\ (attached = "old" \/ proc = "dead")
    /\ ReleasePending
    /\ Ended("died", {}, FALSE)
    /\ agent' = "IDLE"
    /\ tail' = <<>>
    /\ UNCHANGED <<drains, resume, steer, waits, process, cli, bounds>>

-----------------------------------------------------------------------------
(* finish_turn *)

Answered == batch.rows \cup batch.merged

\* What becomes of the rows of the turn.
Verdict ==
    IF batch.result = "wall" /\ Answered # {} THEN "held"
    ELSE IF batch.result = "error" \/ (batch.result = "died" /\ batch.origin # "self")
    THEN "crashed" ELSE "complete"

\* hold_batch: back to the queue until the reset, and no recount.
Finish ==
    /\ pc = "finish"
    /\ IF Verdict = "held"
       THEN /\ SetStatus(Answered, "queued")
            /\ held' = [r \in Rows |-> held[r] \/ r \in Answered]
            /\ pc' = "settle"
       ELSE /\ SetStatus(Answered, Verdict)
            /\ pc' = "count" /\ UNCHANGED held
    /\ UNCHANGED <<count, chan, prio, agent, drains, resume, batch, ledger, marks, steer, waits,
                   process, reader, cli, bounds>>

\* A drain for what arrived during the turn.
Recount == IF Queued # {} THEN Spawned ELSE drains

Count ==
    /\ pc = "count" /\ pc' = "settle"
    /\ drains' = Recount
    /\ UNCHANGED <<queue, agent, resume, batch, ledger, marks, steer, waits, process, reader, cli,
                   bounds>>

-----------------------------------------------------------------------------
(* settle *)

\* The loop ends: the drain that read a stale self turn goes on to its claim.
LoopEnds ==
    /\ pc' = IF resume THEN "claim" ELSE "free"
    /\ resume' = FALSE
    /\ batch' = Batch({}, batch.chan, "queue")

\* No steering or no process: the state of the shard is left alone.
SettleSkips ==
    /\ pc = "settle" /\ (~Steering \/ proc # "alive")
    /\ LoopEnds
    /\ UNCHANGED <<queue, agent, drains, ledger, marks, steer, waits, process, reader, cli, bounds>>

Settles == pc = "settle" /\ Steering /\ proc = "alive" /\ steering = {}

\* Lines the CLI queued: its next turn is read without a write.
SettleFollowon ==
    /\ Settles /\ ledger # <<>>
    /\ pc' = "read" /\ agent' = "PROCESSING"
    /\ batch' = Batch({}, ledger[1].chan, "followon")
    /\ UNCHANGED <<queue, drains, resume, ledger, marks, steer, waits, process, reader, cli, bounds>>

\* A turn started by a background task begins within SELF_TURN_WINDOW_S.
SettleSelf ==
    /\ Settles /\ ledger = <<>> /\ batch.bg /\ InitAt > 0
    /\ pc' = "read" /\ SelfTurn
    /\ UNCHANGED <<queue, drains, resume, ledger, marks, steer, waits, process, reader, inq, model,
                   bounds>>

\* Nothing more to read (or none came in the window, and what did is dropped).
SettleDone ==
    /\ Settles /\ ledger = <<>> /\ ~(batch.bg /\ InitAt > 0)
    /\ LoopEnds
    /\ agent' = IF agent = "PROCESSING" THEN "IDLE" ELSE agent
    /\ out' = IF batch.bg THEN <<>> ELSE out
    /\ UNCHANGED <<queue, drains, ledger, marks, steer, waits, process, reader, inq, model, bounds>>

-----------------------------------------------------------------------------
(* Steering: the task notify_enqueued spawns, under the steer lock *)

Steerable(r) ==
    /\ Steering /\ proc = "alive" /\ pc = "read"
    /\ ~batch.cut /\ ~prio[r] /\ chan[r] = batch.chan /\ batch.steered < MaxLines

\* How many more rows may join the turn.
Allowance == MaxLines - batch.steered

\* claim_steerable: rows of the turn's channel, up to the allowance.
SteerClaim ==
    /\ steerers /\ steering = {} /\ pc # "written"
    /\ steerers' = FALSE
    /\ steering' = IF Queued # {} /\ Steerable(Head0)
                   THEN Foremost({r \in Queued : chan[r] = batch.chan /\ ~prio[r]},
                                 Allowance)
                   ELSE {}
    /\ SetStatus(steering', "running")
    /\ UNCHANGED <<count, chan, prio, held, agent, drains, turn, ledger, marks, waits, process,
                   reader, cli, bounds>>

\* The claim awaited: the turn is asked about again.
StillSteerable == \A r \in steering : Steerable(r)

SteerWrite ==
    /\ steering # {} /\ StillSteerable
    /\ ledger' = Append(ledger, Line("steer", steering, batch.chan))
    /\ inq' = Append(inq, steering)
    /\ batch' = [batch EXCEPT !.steered = @ + Cardinality(steering)]
    /\ steering' = {}
    /\ UNCHANGED <<queue, agent, drains, pc, resume, marks, steerers, waits, process, reader, out,
                   model, bounds>>

\* Given back: the turn closed meanwhile, or the process exited and the write
\* raised (which spawns no drain).
SteerGivenBack ==
    /\ steering # {} /\ ~StillSteerable
    /\ SetStatus({r \in steering : status[r] = "running"}, "queued")
    /\ steering' = {}
    /\ drains' = IF pc = "read" /\ proc = "dead" /\ ~batch.cut THEN drains ELSE Spawned
    /\ UNCHANGED <<count, chan, prio, held, agent, turn, ledger, marks, steerers, waits, process,
                   reader, cli, bounds>>

-----------------------------------------------------------------------------
(* The life of the subprocess *)

Die ==
    /\ proc = "alive" /\ deaths < MaxDeaths
    /\ proc' = "dead" /\ deaths' = deaths + 1
    /\ CliReset
    /\ UNCHANGED <<queue, agent, drains, turn, ledger, marks, steer, waits, op, gaveup, reader, out,
                   ops, errors, selves>>

\* Rows released by the exit are queued again: deliver them to the new process.
AfterRespawn == IF Steering THEN Spawned ELSE drains

\* respawn_watcher, under the shard lock: nobody asked for this exit.
Watcher ==
    /\ pc = "free" /\ proc = "dead" /\ op = "none" /\ ~gaveup
    /\ ReleasePending
    /\ IF deaths > RespawnMax
       THEN gaveup' = TRUE /\ UNCHANGED <<proc, agent, drains, out>>
       ELSE /\ proc' = "alive" /\ agent' = "IDLE" /\ out' = <<>>
            /\ drains' = AfterRespawn
            /\ UNCHANGED gaveup
    /\ UNCHANGED <<turn, marks, steer, waits, op, reader, inq, model, bounds>>

\* kill_agent_subprocess up to the exit of the process.  Nothing registered:
\* nothing to kill.
KillBegins(then) ==
    /\ op' = IF proc # "none" THEN then ELSE IF then = "kill" THEN "start" ELSE "none"
    /\ proc' = IF proc = "alive" THEN "dead" ELSE proc
    /\ CliReset

\* The rest of it: the process is unregistered, the ledger released.  A reader
\* in the middle of a turn keeps the old pipe.
KillEnds ==
    /\ op \in {"kill", "killonly"}
    /\ op' = IF op = "kill" THEN "start" ELSE "none"
    /\ proc' = "none" /\ gaveup' = FALSE
    /\ ReleasePending
    /\ IF pc = "read" /\ attached = "cur" THEN attached' = "old" /\ tail' = out
                                          ELSE UNCHANGED reader
    /\ out' = <<>>
    /\ UNCHANGED <<agent, drains, turn, marks, steer, waits, inq, model, bounds>>

\* start_agent_subprocess.  It starts no drain.  (It reads the session row through
\* the connection on which run_turn still has its own update to end.)
Start ==
    /\ op = "start" /\ pc # "written" /\ op' = "none"
    /\ proc' = "alive" /\ agent' = "IDLE"
    /\ UNCHANGED <<queue, drains, turn, ledger, marks, steer, waits, gaveup, reader, cli, bounds>>

\* A follow-on turn did not start within STEER_FOLLOWON_TIMEOUT_S.
FollowonTimeout ==
    /\ pc = "read" /\ batch.awaiting /\ Stream = <<>> /\ attached = "cur" /\ proc = "alive"
    /\ pc' = "bounce" /\ flag' = FALSE
    /\ agent' = IF ledger # <<>> THEN agent ELSE "IDLE"
    /\ UNCHANGED <<queue, drains, resume, batch, ledger, bgseen, steer, waits, process, reader, cli,
                   bounds>>

\* _bounce: kill, start, drain.
Bounce ==
    /\ pc = "bounce" /\ op = "none" /\ pc' = "bouncing"
    /\ KillBegins("kill")
    /\ UNCHANGED <<queue, agent, drains, resume, batch, ledger, marks, steer, waits, gaveup, reader,
                   out, bounds>>

Bounced ==
    /\ pc = "bouncing" /\ op = "none"
    /\ LoopEnds /\ drains' = Spawned
    /\ UNCHANGED <<queue, agent, ledger, marks, steer, waits, process, reader, cli, bounds>>

-----------------------------------------------------------------------------
(* Operator requests *)

Request(kind) == kind \in OpKinds /\ ops < MaxOps /\ ops' = ops + 1

\* reload_agent (restart_agent is the same with a new session) and POST /kill.
Reload ==
    /\ Request("reload") /\ op = "none" /\ KillBegins("kill")
    /\ UNCHANGED <<queue, agent, drains, turn, ledger, marks, steer, waits, gaveup, reader, out,
                   deaths, errors, selves>>

Kill ==
    /\ Request("kill") /\ op = "none" /\ KillBegins("killonly")
    /\ UNCHANGED <<queue, agent, drains, turn, ledger, marks, steer, waits, gaveup, reader, out,
                   deaths, errors, selves>>

\* interrupt_agent.
InterruptBegins ==
    /\ agent = "PROCESSING" /\ op = "none"
    /\ flag' = TRUE
    /\ KillBegins("kill")

Interrupt ==
    /\ Request("interrupt") /\ InterruptBegins
    /\ UNCHANGED <<queue, agent, drains, turn, ledger, bgseen, steer, waits, gaveup, reader,
                   out, deaths, errors, selves>>

\* interrupt_with_message: the row first; then nothing (the shard is idle, or its
\* turn is starting or closing), or the request on the running process.
InterruptMessage(c) ==
    /\ Request("message") /\ steering = {} /\ pc # "written"
    /\ Insert(c, TRUE)
    /\ IF agent # "PROCESSING" \/ (Steering /\ pc # "read")
       THEN Notify /\ UNCHANGED <<batch, flag, waiter, process, inq, model>>
       ELSE /\ UNCHANGED <<drains, steerers, gaveup>>
            /\ IF Steering
               THEN /\ batch' = [batch EXCEPT !.cut = TRUE]
                    /\ flag' = TRUE
                    /\ waiter' = ops + 1
                    /\ control' = IF proc = "alive" THEN ops + 1 ELSE control
                    /\ UNCHANGED <<proc, op, inq, running, ate, bgtask>>
               ELSE InterruptBegins /\ UNCHANGED <<batch, waiter>>
    /\ UNCHANGED <<agent, pc, resume, ledger, bgseen, steering, redrain, reader, out, deaths,
                   errors, selves>>

\* No control_response within CONTROL_TIMEOUT_S: the fallback is interrupt_agent.
ControlTimeout ==
    /\ waiter # 0 /\ waiter' = 0
    /\ IF agent = "PROCESSING" THEN InterruptBegins
       ELSE UNCHANGED <<flag, proc, op, inq, model>>
    /\ UNCHANGED <<queue, agent, drains, turn, ledger, bgseen, steer, redrain, gaveup, reader,
                   out, bounds>>

\* flush_agent_queue.
Flush ==
    /\ Request("flush") /\ Queued # {}
    /\ SetStatus(Queued, "skipped")
    /\ UNCHANGED <<count, chan, prio, held, agent, drains, turn, ledger, marks, steer, waits,
                   process, reader, cli, deaths, errors, selves>>

-----------------------------------------------------------------------------
(* The claude CLI (external) *)

\* It consumes the first n lines it was sent and replays them as one.
Consume(n) ==
    /\ LET texts == SubSeq(inq, 1, n)
           rs == UNION {texts[i] : i \in 1..n}
       IN  /\ out' = Append(out, Replay(texts))
           /\ ate' = ate \cup rs
    /\ inq' = SubSeq(inq, n + 1, Len(inq))
    /\ UNCHANGED <<queue, agent, drains, turn, ledger, marks, steer, waits, process, reader, bgtask,
                   control, bounds>>

\* A turn starts; at a tool boundary of a running turn more lines join it.
CliStart == ~running /\ running' = TRUE /\ \E n \in 1..Len(inq) : Consume(n)
CliMerge == running /\ UNCHANGED running /\ \E n \in 1..Len(inq) : Consume(n)

\* A background task reports: the CLI starts a turn by itself.
CliSelf ==
    /\ bgtask /\ ~running /\ selves < MaxSelf
    /\ bgtask' = FALSE /\ running' = TRUE /\ selves' = selves + 1
    /\ out' = Append(out, Init0)
    /\ UNCHANGED <<queue, agent, drains, turn, ledger, marks, steer, waits, process, reader, inq,
                   ate, control, deaths, ops, errors>>

CliResult ==
    /\ running /\ running' = FALSE /\ ate' = {}
    /\ \E kind \in {"ok", "error", "wall"}, bg \in BOOLEAN :
         /\ kind # "ok" => errors < MaxErrors
         /\ bg => selves < MaxSelf /\ ~bgtask
         /\ errors' = IF kind = "ok" THEN errors ELSE errors + 1
         /\ out' = Append(out, Result(kind, ate, bg))
         /\ bgtask' = (bgtask \/ bg)
    /\ UNCHANGED <<queue, agent, drains, turn, ledger, marks, steer, waits, process, reader, inq,
                   control, deaths, ops, selves>>

\* A control request is answered; it aborts the running turn.
CliControl ==
    /\ control # 0 /\ control' = 0
    /\ out' = Append(out, Answer(control)) \o (IF running THEN <<Result("ok", ate, FALSE)>> ELSE <<>>)
    /\ running' = FALSE /\ ate' = {}
    /\ UNCHANGED <<queue, agent, drains, turn, ledger, marks, steer, waits, process, reader, inq,
                   bgtask, bounds>>

-----------------------------------------------------------------------------
Arrival == \E c \in Channels : Enqueue(c)

\* The task that holds the shard lock.
Loop ==
    \/ DrainDropped \/ DrainRuns \/ Claim
    \/ WriteLands \/ WriteFails \/ ReadBegins
    \/ ReadInit \/ ReadReplay \/ ReadAnswer \/ ReadResult \/ ReadEOF
    \/ Finish \/ Count
    \/ SettleSkips \/ SettleFollowon \/ SettleSelf \/ SettleDone
    \/ Bounce \/ Bounced

SteerTask == SteerClaim \/ SteerWrite \/ SteerGivenBack
Lifecycle == Watcher \/ KillEnds \/ Start
Operator == Reload \/ Kill \/ Interrupt \/ Flush \/ \E c \in Channels : InterruptMessage(c)
Cli == CliStart \/ CliMerge \/ CliSelf \/ CliResult \/ CliControl

Next ==
    \/ Arrival \/ HoldWake \/ Loop \/ Redrain \/ SteerTask \/ Lifecycle
    \/ FollowonTimeout \/ ControlTimeout \/ Die \/ Operator \/ Cli

Spec == Init /\ [][Next]_vars

\* Every asyncio task that can run does, every lock is granted, a hold ends, and
\* the CLI ends the turns it starts and starts a turn for a line it was sent.
Fairness ==
    /\ WF_vars(Loop) /\ WF_vars(SteerTask) /\ WF_vars(Lifecycle) /\ WF_vars(Redrain)
    /\ WF_vars(HoldWake)
    /\ WF_vars(CliStart) /\ WF_vars(CliResult) /\ WF_vars(CliControl)

FairSpec == Spec /\ Fairness
-----------------------------------------------------------------------------
(* Properties *)

\* The columns and the server's maps hold values the code gives them, and the
\* counters stay within their limits: one turn is steered at most
\* max_lines_per_turn rows.
TypeOK ==
    /\ count \in 0..MaxRows
    /\ status \in [Rows -> {"none", "queued", "running", "complete", "crashed", "skipped"}]
    /\ chan \in [Rows -> Channels \cup {NoChannel}]
    /\ prio \in [Rows -> BOOLEAN] /\ held \in [Rows -> BOOLEAN]
    /\ agent \in {"IDLE", "PROCESSING", "ERROR_RECOVERY"}
    /\ drains \in 0..MaxDrains
    /\ pc \in {"free", "claim", "write", "written", "read", "finish", "count", "settle", "bounce",
               "bouncing"}
    /\ resume \in BOOLEAN
    /\ batch.rows \subseteq Rows /\ batch.merged \subseteq Rows /\ batch.ate \subseteq Rows
    /\ batch.chan \in Channels \cup {NoChannel} /\ batch.origin \in {"queue", "followon", "self"}
    /\ batch.steered \in 0..MaxLines
    /\ \A i \in 1..Len(ledger) :
         /\ ledger[i].kind \in {"primary", "steer"}
         /\ ledger[i].rows \subseteq Rows /\ ledger[i].chan \in Channels
    /\ flag \in BOOLEAN /\ bgseen \in BOOLEAN /\ steerers \in BOOLEAN /\ steering \subseteq Rows
    /\ redrain \in BOOLEAN /\ waiter \in 0..MaxOps
    /\ proc \in {"none", "alive", "dead"} /\ op \in {"none", "kill", "killonly", "start"}
    /\ gaveup \in BOOLEAN /\ attached \in {"cur", "old"}
    /\ running \in BOOLEAN /\ ate \subseteq Rows /\ bgtask \in BOOLEAN /\ control \in 0..MaxOps

\* The rows of the turn being run, until its verdict is written.
TurnRows == IF pc \in {"write", "written", "read", "finish"} THEN Answered ELSE {}

\* A row IN_PROGRESS always has exactly the owners that will settle it or give it
\* back, and they own nothing else: the running turn, a steered line in the
\* ledger, or the steer task between its claim and its write.  No row is left
\* in progress by a death, a bounce or an operator's request.
OwnedInProgress ==
    /\ {r \in Rows : status[r] = "running"} = TurnRows \cup SteerRows(Len(ledger)) \cup steering
    /\ TurnRows \cap SteerRows(Len(ledger)) = {}
    /\ steering \cap (TurnRows \cup SteerRows(Len(ledger))) = {}

\* "marks a row COMPLETE only when the turn that consumed it ends"
\* (ARCHITECTURE.md): the rows a turn completes are rows the CLI consumed in the
\* turn whose result was read; a turn discarded by an interrupt is excepted.
CompleteConsumed ==
    (pc = "finish" /\ Verdict = "complete" /\ batch.result # "discarded")
        => Answered \subseteq batch.ate

\* The reply is posted in the channel every row it answers came from, through
\* steering, follow-on turns, respawns and walls.
AnsweredWhereAsked == pc = "finish" => \A r \in Answered : chan[r] = batch.chan

\* "the queue is re-checked before the lock is released" (ARCHITECTURE.md): when
\* the shard comes to rest, idle with a live process and nothing about to drain
\* it, no row is waiting.
AtRest ==
    /\ pc = "free" /\ agent = "IDLE" /\ proc = "alive" /\ op = "none"
    /\ drains = 0 /\ ~redrain /\ steering = {} /\ ~AnyHeld
NoneStranded == AtRest => Queued = {}

\* A held message "will be processed after" the hold (format_wall_notice).
\* Does not hold: see the README.
HeldWaits == \A r \in Rows : held[r] => status[r] # "running"

\* Every row reaches a final status: no message is forgotten behind a busy turn,
\* a hold, a dead process or a failed write.
EveryRowSettles ==
    \A r \in Rows : status[r] = "queued" ~> status[r] \in {"complete", "crashed", "skipped"}

\* What the configurations may exchange.
LOCAL INSTANCE TLC
ChannelSymmetry == Permutations(Channels)
=============================================================================
