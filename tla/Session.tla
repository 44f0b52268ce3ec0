------------------------------- MODULE Session -------------------------------
(***************************************************************************)
(* Session policy of one shard: bin/agent-server.py 4797-5026 and          *)
(* lib/session_policy.py, with the operator's resets, the effort change    *)
(* that waits for a turn, and the spawn that consumes the handoff note.    *)
(*                                                                         *)
(* A task is the list of the steps it still has to take, innermost first:  *)
(* a coroutine that awaits another puts the other's steps before its own.  *)
(* Steps "begin" and "do" run to their first await without giving way      *)
(* (Urgent).  COMPACT_VERIFIED is False, so compact mode behaves as reset. *)
(***************************************************************************)
EXTENDS Integers, Sequences, FiniteSets, FiniteSetTheorems, SequenceTheorems,
        WellFoundedInduction, TLAPS

CONSTANTS
  Slots,            \* bound: tasks alive at once
  MaxArrivals,      \* bound: rows of people
  MaxTriggers,      \* bound: turns that end over budget, overflow or ask for a reset
  MaxEfforts,       \* bound: effort or model changes
  MaxOperator,      \* bound: operator resets (?handoff=1 or cold)
  MaxSessionDeaths,  \* bound: exits nobody asked for
  MaxRequests,      \* bound: all of these but the rows together
  EarlyDeaths,      \* may a process exit before the first turn of its session?
  Coalesce,         \* coalesce_ms > 0: a drain sleeps between the hook and the claim
  HandoffOn         \* handoff_on_reset

SessionAssumption ==
  /\ Slots \in Nat \ {0}
  /\ {MaxArrivals, MaxTriggers, MaxEfforts, MaxOperator, MaxSessionDeaths, MaxRequests} \subseteq Nat
  /\ {EarlyDeaths, Coalesce, HandoffOn} \subseteq BOOLEAN

Tasks == 1..Slots
RestartSteps == <<"kill", "clear", "start">>
ReloadSteps == <<"kill", "start">>

VARIABLES
  task,             \* [Tasks -> steps left]
  sessionDrains,    \* drain tasks that wait for the lock
  holder,           \* the task that holds the shard lock, 0 when free
  rows,             \* people's rows queued
  hrow,             \* [Tasks -> internal row that task waits for]
  turn,             \* the turn being run: kind, its process' session, did its process die
  inflight, resetting, requested, recent,  \* SessionPolicyState
  effortPending, effortRespawning,
  sess,             \* the session id of the table, counted
  started,          \* sessions.started
  proc,             \* "up", "none" (killed), "dead" (exited, the watcher is to come)
  noteAt,           \* the session that was current when the note was written, 0: no file
  carries,          \* the note in the process' system prompt, as noteAt
  handed,           \* sessions whose handoff turn ended with their reset to come
  noted,            \* sessions whose handoff turn wrote a note
  wasted,           \* was a note rotated away by a spawn that does not read it?
  quick,            \* was a shard reset again within RESET_MIN_INTERVAL_S?
  arrivals, triggers, efforts, operator, sessionDeaths

SessionVars ==
  <<task, sessionDrains, holder, rows, hrow, turn, inflight, resetting, requested, recent, effortPending,
    effortRespawning, sess, started, proc, noteAt, carries, handed, noted, wasted, quick, arrivals,
    triggers, efforts, operator, sessionDeaths>>

policy == <<inflight, resetting, requested, recent>>
effort == <<effortPending, effortRespawning>>
process == <<sess, started, proc, noteAt, carries>>
ghosts == <<handed, noted, wasted, quick>>
counters == <<arrivals, triggers, efforts, operator, sessionDeaths>>

NoSessionTurn == [kind |-> "none", sess |-> 0, died |-> FALSE]

SessionInit ==
  /\ task = [t \in Tasks |-> <<>>] /\ sessionDrains = 0 /\ holder = 0
  /\ rows = 0 /\ hrow = [t \in Tasks |-> "none"] /\ turn = NoSessionTurn
  /\ inflight = FALSE /\ resetting = FALSE /\ requested = FALSE /\ recent = FALSE
  /\ effortPending = FALSE /\ effortRespawning = FALSE
  /\ sess = 1 /\ started = FALSE /\ proc = "up" /\ noteAt = 0 /\ carries = 0
  /\ handed = {} /\ noted = {} 
  /\ wasted = FALSE /\ quick = FALSE
  /\ arrivals = 0 /\ triggers = 0 /\ efforts = 0 /\ operator = 0 /\ sessionDeaths = 0

Step(t) == IF task[t] = <<>> THEN "none" ELSE Head(task[t])
\* Steps that nothing is awaited before; with _coalesce a claim may come late.
UrgentSteps == {"begin", "beginOverflow", "do"} \cup (IF Coalesce THEN {} ELSE {"claim"})
Urgent == \E t \in Tasks : Step(t) \in UrgentSteps
FreeTasks == {t \in Tasks : task[t] = <<>>}
Slot == CHOOSE t \in FreeTasks : \A u \in FreeTasks : t <= u

\* Spawning a task that does what, from a table of tasks.
Spawned(tab, what) ==
  LET free == {t \in Tasks : tab[t] = <<>>}
  IN [tab EXCEPT ![CHOOSE t \in free : \A u \in free : t <= u] = what]

\* Task t takes its next step and goes on with next.
Goes(t, next) == [task EXCEPT ![t] = next \o Tail(@)]

MoreRequests == triggers + efforts + operator + sessionDeaths < MaxRequests

----------------------------------------------------------------------------
(* Arrivals and requests *)

\* handle_message, notify_enqueued: an idle shard is drained.
PersonWrites ==
  /\ ~Urgent /\ arrivals < MaxArrivals
  /\ arrivals' = arrivals + 1 /\ rows' = rows + 1
  /\ sessionDrains' = IF turn.kind = "none" THEN sessionDrains + 1 ELSE sessionDrains
  /\ UNCHANGED <<task, holder, hrow, turn, policy, effort, process, ghosts, triggers, efforts,
                 operator, sessionDeaths>>

\* handle_session_finalize, called by the tool of a turn.
Finalize ==
  /\ ~Urgent /\ turn.kind = "person" /\ ~turn.died /\ ~requested /\ triggers < MaxTriggers /\ MoreRequests
  /\ triggers' = triggers + 1 /\ requested' = TRUE
  /\ UNCHANGED <<task, sessionDrains, holder, rows, hrow, turn, inflight, resetting, recent,
                 effort, process, ghosts, arrivals, efforts, operator, sessionDeaths>>

\* handle_agent_effort, handle_agent_model: after the turn in flight, else at once.
EffortChange ==
  /\ ~Urgent /\ efforts < MaxEfforts /\ MoreRequests /\ proc # "none" /\ FreeTasks # {}
  /\ efforts' = efforts + 1
  /\ IF turn.kind # "none" THEN effortPending' = TRUE /\ task' = task
     ELSE effortPending' = effortPending /\ task' = Spawned(task, ReloadSteps)
  /\ UNCHANGED <<sessionDrains, holder, rows, hrow, turn, policy, effortRespawning, process, ghosts,
                 arrivals, triggers, operator, sessionDeaths>>

\* handle_agent_reset: begin_reset as a task of its own, or restart_agent without the lock.
OperatorReset ==
  /\ ~Urgent /\ operator < MaxOperator /\ MoreRequests /\ FreeTasks # {}
  /\ operator' = operator + 1
  /\ \E what \in {IF HandoffOn THEN <<"begin">> ELSE RestartSteps, RestartSteps} :
       task' = Spawned(task, what)
  /\ UNCHANGED <<sessionDrains, holder, rows, hrow, turn, policy, effort, process, ghosts, arrivals,
                 triggers, efforts, sessionDeaths>>

----------------------------------------------------------------------------
(* The turn loop, as far as the policy sees it *)

\* before_claim: session_policy_before_claim and effort_before_claim.
Held == resetting \/ effortRespawning

Queued == rows > 0 \/ \E t \in Tasks : hrow[t] = "queued"

\* A drain that waits for the lock gets it.
DrainRuns ==
  /\ ~Urgent /\ sessionDrains > 0 /\ holder = 0 /\ FreeTasks # {}
  /\ sessionDrains' = sessionDrains - 1
  /\ IF Held \/ ~Queued
     THEN UNCHANGED <<task, holder>>
     ELSE task' = Spawned(task, <<"claim">>) /\ holder' = Slot
  /\ UNCHANGED <<rows, hrow, turn, policy, effort, process, ghosts, counters>>

\* The drain at the end of effort_on_turn_end's respawn, awaited in place.
DrainAwaited(t) ==
  /\ ~Urgent /\ Step(t) = "drain" /\ holder = 0
  /\ IF Held \/ ~Queued
     THEN /\ task' = Goes(t, <<>>) /\ UNCHANGED holder
     ELSE /\ task' = Goes(t, <<"claim">>) /\ holder' = t
  /\ UNCHANGED <<sessionDrains, rows, hrow, turn, policy, effort, process, ghosts, counters>>

\* claim_next (an internal row first, alone) and the write to the process.
\* Without coalescing nothing can happen between the hook and the claim.
ClaimTurn(t) ==
  /\ Coalesce => ~Urgent
  /\ Step(t) = "claim" /\ holder = t
  /\ LET internal == {u \in Tasks : hrow[u] = "queued"} IN
     IF internal # {}
     THEN \E u \in internal :
            /\ hrow' = [hrow EXCEPT ![u] = "running"]
            /\ turn' = [kind |-> "handoff", sess |-> sess, died |-> proc # "up"]
            /\ task' = Goes(t, <<"turn">>)
            /\ UNCHANGED <<rows, holder>>
     ELSE IF rows = 0
     THEN holder' = 0 /\ task' = Goes(t, <<>>) /\ UNCHANGED <<hrow, turn, rows>>
     ELSE /\ rows' = rows - 1
          /\ turn' = [kind |-> "person", sess |-> sess, died |-> proc # "up"]
          /\ task' = Goes(t, <<"turn">>)
          /\ UNCHANGED <<hrow, holder>>
  /\ started' = IF turn'.kind # "none" /\ proc = "up" THEN TRUE ELSE started
  /\ UNCHANGED <<sessionDrains, policy, effort, sess, proc, noteAt, carries, ghosts, counters>>

\* The model writes the note with its Write tool.
WriteNote ==
  /\ ~Urgent /\ turn.kind = "handoff" /\ ~turn.died /\ noteAt # sess
  /\ noteAt' = sess /\ noted' = noted \cup {sess}
  /\ UNCHANGED <<task, sessionDrains, holder, rows, hrow, turn, policy, effort, sess, started,
                 proc, carries, handed, wasted, quick, counters>>

\* effort_on_turn_end's followup, registered before the policy's.
EffortFollowup == IF effortPending THEN <<"kill", "start", "undefer", "drain">> ELSE <<>>

\* Whether a turn of the policy's own ends with finish_reset, and holds claims until then.
HoldsClaims_Not == FALSE
HoldsClaims == inflight

\* session_policy_on_turn_end of a handoff turn.
EndHandoff(t) ==
  /\ ~Urgent /\ Step(t) = "turn" /\ turn.kind = "handoff"
  /\ hrow' = [u \in Tasks |-> IF hrow[u] = "running" THEN "done" ELSE hrow[u]]
  /\ resetting' = (resetting \/ HoldsClaims)
  /\ handed' = IF inflight /\ ~turn.died THEN handed \cup {turn.sess} ELSE handed
  /\ task' = Goes(t, EffortFollowup \o (IF inflight THEN <<"do">> ELSE <<>>))
  /\ sessionDrains' = IF rows > 0 THEN sessionDrains + 1 ELSE sessionDrains
  /\ effortPending' = FALSE /\ effortRespawning' = (effortRespawning \/ effortPending)
  /\ turn' = NoSessionTurn /\ holder' = 0
  /\ UNCHANGED <<rows, inflight, requested, recent, process, noted, wasted, quick, counters>>

\* The interval check: no reset while one runs or within RESET_MIN_INTERVAL_S.
Skipped_InflightOnly == inflight
Skipped == inflight \/ recent

\* session_policy_on_turn_end of an ordinary turn: why is why it should reset.
EndPerson(t) ==
  /\ ~Urgent /\ Step(t) = "turn" /\ turn.kind = "person"
  /\ \E why \in {"none", "budget", "overflow"} :
       /\ why # "none" => ~turn.died /\ triggers < MaxTriggers /\ MoreRequests
       /\ triggers' = IF why = "none" THEN triggers ELSE triggers + 1
       /\ LET due == why # "none" \/ requested
              begin == IF ~due \/ Skipped THEN <<>>
                       ELSE IF why = "overflow" THEN <<"beginOverflow">> ELSE <<"begin">>
          IN /\ requested' = IF due THEN FALSE ELSE requested
             /\ task' = Goes(t, EffortFollowup \o begin)
  /\ sessionDrains' = IF rows > 0 THEN sessionDrains + 1 ELSE sessionDrains
  /\ effortPending' = FALSE /\ effortRespawning' = (effortRespawning \/ effortPending)
  /\ turn' = NoSessionTurn /\ holder' = 0
  /\ UNCHANGED <<rows, hrow, inflight, resetting, recent, process, ghosts, arrivals, efforts,
                 operator, sessionDeaths>>

\* The end of effort_on_turn_end's respawn.
Undefer(t) ==
  /\ ~Urgent /\ Step(t) = "undefer"
  /\ effortRespawning' = FALSE /\ task' = Goes(t, <<>>)
  /\ UNCHANGED <<sessionDrains, holder, rows, hrow, turn, policy, effortPending, process, ghosts,
                 counters>>

----------------------------------------------------------------------------
(* begin_reset and do_reset *)

\* begin_reset: one at a time; a handoff unless overflow, off, or held.
Begin(t) ==
  /\ Step(t) \in {"begin", "beginOverflow"}
  /\ IF inflight
     THEN task' = Goes(t, <<>>) /\ inflight' = inflight
     ELSE /\ inflight' = TRUE
          /\ \E with \in {FALSE, HandoffOn /\ Step(t) = "begin"} :
               task' = Goes(t, IF with THEN <<"insert">> ELSE <<"settled", "do">>)
  /\ UNCHANGED <<sessionDrains, holder, rows, hrow, turn, resetting, requested, recent, effort,
                 process, ghosts, counters>>

\* _settle and agent_hold_until give way before a reset without a handoff.
Settled(t) ==
  /\ ~Urgent /\ Step(t) = "settled"
  /\ task' = Goes(t, <<>>)
  /\ UNCHANGED <<sessionDrains, holder, rows, hrow, turn, policy, effort, process, ghosts,
                 counters>>

\* _insert_internal_row.
InsertHandoff(t) ==
  /\ ~Urgent /\ Step(t) = "insert"
  /\ hrow' = [hrow EXCEPT ![t] = "queued"] /\ task' = Goes(t, <<"wait">>)
  /\ sessionDrains' = IF turn.kind = "none" THEN sessionDrains + 1 ELSE sessionDrains
  /\ UNCHANGED <<holder, rows, turn, policy, effort, process, ghosts, counters>>

\* _wait_internal_row: the row has left the queue.
WaitOver(t) ==
  /\ ~Urgent /\ Step(t) = "wait" /\ hrow[t] = "done"
  /\ hrow' = [hrow EXCEPT ![t] = "none"]
  /\ task' = Goes(t, <<"do">>)
  /\ UNCHANGED <<sessionDrains, holder, rows, turn, policy, effort, process, ghosts, counters>>

\* HANDOFF_TURN_TIMEOUT_S with the row still queued: skipped.
WaitSkips(t) ==
  /\ ~Urgent /\ Step(t) = "wait" /\ hrow[t] = "queued"
  /\ hrow' = [hrow EXCEPT ![t] = "none"]
  /\ task' = Goes(t, <<"do">>)
  /\ UNCHANGED <<sessionDrains, holder, rows, turn, policy, effort, process, ghosts, counters>>

\* The timeout with the turn running: claims are held, the turn is interrupted.
WaitInterrupts(t) ==
  /\ ~Urgent /\ Step(t) = "wait" /\ hrow[t] = "running"
  /\ resetting' = (resetting \/ inflight)
  /\ task' = Goes(t, (IF turn.kind = "handoff" THEN ReloadSteps ELSE <<>>) \o <<"do">>)
  /\ UNCHANGED <<sessionDrains, holder, rows, hrow, turn, inflight, requested, recent, effort,
                 process, ghosts, counters>>

\* do_reset is claimed once: inflight is popped by the first to get here.
ResetSteps == <<"lock", "kill", "clear", "start", "release">>
TakesReset_Always == TRUE
TakesReset == inflight

DoReset(t) ==
  /\ Step(t) = "do"
  /\ hrow' = [hrow EXCEPT ![t] = IF @ \in {"running", "done"} THEN "none" ELSE @]
  /\ IF TakesReset
     THEN /\ inflight' = FALSE /\ recent' = TRUE /\ resetting' = TRUE
          /\ quick' = (quick \/ recent) /\ task' = Goes(t, ResetSteps)
     ELSE task' = Goes(t, <<>>) /\ UNCHANGED <<inflight, recent, resetting, quick>>
  /\ UNCHANGED <<sessionDrains, holder, rows, turn, requested, effort, process, handed, noted,
                 wasted, counters>>

ResetLocks(t) ==
  /\ ~Urgent /\ Step(t) = "lock" /\ holder = 0
  /\ holder' = t /\ task' = Goes(t, <<>>)
  /\ UNCHANGED <<sessionDrains, rows, hrow, turn, policy, effort, process, ghosts, counters>>

\* The lock is released, resetting ends, and the queued rows are drained.
Redrains_None == 0
Redrains == 1

ResetReleases(t) ==
  /\ ~Urgent /\ Step(t) = "release"
  /\ holder' = 0 /\ resetting' = FALSE /\ task' = Goes(t, <<>>)
  /\ sessionDrains' = sessionDrains + Redrains
  /\ UNCHANGED <<rows, hrow, turn, inflight, requested, recent, effort, process, ghosts,
                 counters>>

\* RESET_MIN_INTERVAL_S passes; a restart takes seconds and ends before.
IntervalPasses ==
  /\ ~Urgent /\ recent /\ ~resetting /\ recent' = FALSE
  /\ UNCHANGED <<task, sessionDrains, holder, rows, hrow, turn, inflight, resetting, requested,
                 effort, process, ghosts, counters>>

----------------------------------------------------------------------------
(* The process *)

\* kill_agent_subprocess: the turn it was in reads EOF.
KillProc(t) ==
  /\ ~Urgent /\ Step(t) = "kill"
  /\ proc' = "none" /\ turn' = [turn EXCEPT !.died = TRUE] /\ task' = Goes(t, <<>>)
  /\ UNCHANGED <<sessionDrains, holder, rows, hrow, policy, effort, sess, started, noteAt,
                 carries, ghosts, counters>>

\* clear_session.
ClearSession(t) ==
  /\ ~Urgent /\ Step(t) = "clear"
  /\ sess' = sess + 1 /\ started' = FALSE /\ task' = Goes(t, <<>>)
  /\ UNCHANGED <<sessionDrains, holder, rows, hrow, turn, policy, effort, proc, noteAt, carries,
                 ghosts, counters>>

\* consume_handoff: a note older than the last clear is read and rotated away.
Due_Any == noteAt # 0
Due == noteAt # 0 /\ sess > noteAt

\* start_agent_subprocess: a resumed session ignores what the note is put into.
SpawnProc ==
  /\ proc' = "up"
  /\ carries' = IF Due /\ ~started THEN noteAt ELSE 0
  /\ noteAt' = IF Due THEN 0 ELSE noteAt
  /\ wasted' = (wasted \/ (Due /\ started))
  /\ UNCHANGED <<handed, noted, quick>>

StartProc(t) ==
  /\ ~Urgent /\ Step(t) = "start"
  /\ SpawnProc /\ task' = Goes(t, <<>>)
  /\ UNCHANGED <<sessionDrains, holder, rows, hrow, turn, policy, effort, sess, started, counters>>

\* The process exits by itself.
ProcDies ==
  /\ ~Urgent /\ proc = "up" /\ sessionDeaths < MaxSessionDeaths /\ MoreRequests /\ (started \/ EarlyDeaths)
  /\ sessionDeaths' = sessionDeaths + 1 /\ proc' = "dead" /\ turn' = [turn EXCEPT !.died = TRUE]
  /\ UNCHANGED <<task, sessionDrains, holder, rows, hrow, policy, effort, sess, started, noteAt,
                 carries, ghosts, arrivals, triggers, efforts, operator>>

\* respawn_watcher, under the lock.
SessionRespawn ==
  /\ ~Urgent /\ proc = "dead" /\ holder = 0
  /\ SpawnProc
  /\ UNCHANGED <<task, sessionDrains, holder, rows, hrow, turn, policy, effort, sess, started,
                 counters>>

SessionStep(t) ==
  \/ DrainAwaited(t) \/ ClaimTurn(t) \/ EndHandoff(t) \/ EndPerson(t) \/ Undefer(t)
  \/ Begin(t) \/ Settled(t) \/ InsertHandoff(t) \/ WaitOver(t) \/ WaitSkips(t)
  \/ WaitInterrupts(t) \/ DoReset(t) \/ ResetLocks(t) \/ ResetReleases(t)
  \/ KillProc(t) \/ ClearSession(t) \/ StartProc(t)

SessionNext ==
  \/ \E t \in Tasks : SessionStep(t)
  \/ DrainRuns \/ PersonWrites \/ Finalize \/ EffortChange \/ OperatorReset
  \/ WriteNote \/ IntervalPasses \/ ProcDies \/ SessionRespawn

SessionSpec == SessionInit /\ [][SessionNext]_SessionVars

\* asyncio's tasks go on and a dead process is respawned; messages, triggers, the
\* operator, and a note's writing need not come.
SessionFairness ==
  /\ \A t \in Tasks : WF_SessionVars(SessionStep(t))
  /\ WF_SessionVars(DrainRuns) /\ WF_SessionVars(SessionRespawn)

----------------------------------------------------------------------------
(* Properties *)

\* Once a handoff turn has ended, nobody's message is answered by the session that
\* handed over: it would be lost with it (session_policy_before_claim).
HandedOver == turn.kind = "person" => turn.sess \notin handed

\* The note is only rotated away by the spawn of a session that reads it: a reload,
\* an interrupt or a respawn of the session that wrote it leaves it on disk.
NoteNotWasted == ~wasted

\* Neither trigger, handoff turn, timeout nor the two callers of do_reset reset a shard
\* twice within the interval, as long as no operator and no effort change takes part.
ResetsSpaced == quick => efforts + operator > 0

\* When every task has ended and the process is up, no reset is left half done, claims
\* are not held, and no row waits for a wake that never comes.
RestsClean ==
  (\A t \in Tasks : task[t] = <<>>) /\ sessionDrains = 0 /\ proc = "up" =>
    ~inflight /\ ~resetting /\ ~effortRespawning /\ ~Queued

\* A fresh session starts with the note that was written for it.
\* Does not hold: see the README.
FreshCarriesNote ==
  [][turn.kind = "none" /\ turn'.kind = "person" /\ ~turn'.died /\ ~started
       /\ sess - 1 \in noted => carries = sess - 1]_SessionVars

\* A reset that has begun ends, whatever its handoff turn does, and people's rows are
\* taken again.
RowsTaken == rows > 0 ~> rows = 0

----------------------------------------------------------------------------
(* Proofs *)

Laters == {"begin", "beginOverflow", "do"}
\* After these steps only a reset that was held back is left to a task.
Finals == {"claim", "turn", "drain", "insert", "wait", "settled", "release"} \cup Laters
StepNames == Finals \cup {"lock", "kill", "clear", "start", "undefer"}

\* What a task may still have to do after a step.
Follow(x) ==
    Laters \cup (IF x = "lock" THEN {"kill", "clear", "start", "release"}
                 ELSE IF x = "kill" THEN {"clear", "start", "release", "undefer", "drain"}
                 ELSE IF x = "clear" THEN {"start", "release"}
                 ELSE IF x = "start" THEN {"release", "undefer", "drain"}
                 ELSE IF x = "undefer" THEN {"drain"}
                 ELSE {})

AllOf(s) == {s[i] : i \in 1 .. Len(s)}
RestOf(s) == {s[i] : i \in 2 .. Len(s)}

\* A step that prepares another has it before it.
Complete(E) ==
    /\ "clear" \in E => "start" \in E
    /\ "lock" \in E => "clear" \in E
    /\ "undefer" \in E => "drain" \in E
    /\ MaxOperator = 0 /\ "clear" \in E => "release" \in E

StackOk(s) ==
    /\ \A i, j \in 1 .. Len(s) : i < j => s[j] \in Follow(s[i])
    /\ Complete(AllOf(s))

Heads == [t \in Tasks |-> Step(t)]
Alls == [t \in Tasks |-> AllOf(task[t])]
Rests == [t \in Tasks |-> RestOf(task[t])]

Stacks == /\ task \in [Tasks -> Seq(StepNames)]
          /\ \A t \in Tasks : StackOk(task[t])

SessionTurnType == [kind : {"none", "person", "handoff"}, sess : Nat, died : BOOLEAN]

SessionTypes ==
    /\ sessionDrains \in Nat /\ holder \in Tasks \cup {0} /\ rows \in Nat
    /\ hrow \in [Tasks -> {"none", "queued", "running", "done"}]
    /\ turn \in SessionTurnType
    /\ inflight \in BOOLEAN /\ resetting \in BOOLEAN /\ recent \in BOOLEAN
    /\ effortPending \in BOOLEAN /\ effortRespawning \in BOOLEAN
    /\ sess \in Nat /\ noteAt \in Nat /\ started \in BOOLEAN /\ wasted \in BOOLEAN /\ quick \in BOOLEAN
    /\ efforts \in Nat /\ operator \in Nat
    /\ MaxOperator = 0 => operator = 0

\* Who holds the lock: the drain that claims or runs a turn, the reset past its first step.
Locks ==
    /\ \A t \in Tasks : Heads[t] \in {"claim", "turn"} => holder = t
    /\ \A t \in Tasks : "release" \in Alls[t] /\ Heads[t] # "lock" => holder = t
    /\ turn.kind # "none" => \E t \in Tasks : Heads[t] = "turn"

\* A session that has handed over is current only while claims are held.
Handing ==
    /\ handed \subseteq 0 .. sess /\ turn.sess <= sess
    /\ \A t \in Tasks : "release" \in Alls[t] /\ "clear" \notin Alls[t] => sess \notin handed
    /\ ~resetting => sess \notin handed
    /\ \A t \in Tasks : Heads[t] = "claim" => sess \notin handed
    /\ HandedOver

\* A note that is due waits for the spawn of the reset that cleared the session, under its lock.
Noting == MaxOperator = 0 =>
    /\ Due => /\ ~started
              /\ \E t \in Tasks : {"release", "start"} \subseteq Alls[t] /\ Heads[t] # "lock"
    /\ ~wasted

ResetBegins == {"begin", "beginOverflow"}
Spacing ==
    /\ \A t, u \in Tasks : Heads[t] \in UrgentSteps /\ Heads[u] \in UrgentSteps => t = u
    /\ efforts + operator = 0 =>
         /\ ~quick /\ ~effortPending /\ ~(inflight /\ recent)
         /\ \A t \in Tasks : Rests[t] \cap ResetBegins = {}
         /\ \A t \in Tasks : Heads[t] \in ResetBegins => ~recent

\* What is held or queued has a task that will let it go.
Waking ==
    /\ effortRespawning => \E t \in Tasks : "undefer" \in Alls[t]
    /\ \A t \in Tasks : hrow[t] = "queued" => Heads[t] = "wait"
    /\ resetting => \/ \E t \in Tasks : "release" \in Alls[t]
                    \/ inflight /\ \E t \in Tasks : "do" \in Alls[t]
    /\ inflight => \E t \in Tasks : Alls[t] \cap {"insert", "wait", "do"} # {}
    /\ rows > 0 => \/ sessionDrains > 0 \/ turn.kind # "none" \/ resetting
                   \/ \E t \in Tasks : Heads[t] = "claim" \/ "drain" \in Alls[t]

SessionInv == SessionTypes /\ Stacks /\ Locks /\ Handing /\ Noting /\ Spacing /\ Waking

LEMMA FollowNames ==
  \A x : Laters \subseteq Follow(x) /\ Follow(x) \subseteq StepNames /\ "lock" \notin Follow(x)
BY DEF Follow, StepNames, Finals, Laters

LEMMA AfterFinals == \A x \in Finals : Follow(x) = Laters
BY DEF Follow, Finals, Laters

LEMMA EmptyStack == <<>> \in Seq(StepNames) /\ AllOf(<<>>) = {} /\ RestOf(<<>>) = {} /\ StackOk(<<>>)
BY EmptySeq DEF AllOf, RestOf, StackOk, Complete

\* A task that has taken its next step.
LEMMA Popped ==
  ASSUME NEW s \in Seq(StepNames), s # <<>>, StackOk(s)
  PROVE  /\ Head(s) \in StepNames /\ AllOf(s) = {Head(s)} \cup RestOf(s)
         /\ RestOf(s) \subseteq Follow(Head(s))
         /\ Tail(s) \in Seq(StepNames) /\ StackOk(Tail(s)) /\ AllOf(Tail(s)) = RestOf(s)
         /\ RestOf(Tail(s)) \subseteq RestOf(s)
         /\ Tail(s) = <<>> \/ Head(Tail(s)) \in RestOf(s)
<1>1. Len(s) \in Nat /\ Len(s) > 0  BY EmptySeq
<1>2. /\ Head(s) \in StepNames /\ Tail(s) \in Seq(StepNames) /\ Len(Tail(s)) = Len(s) - 1
      /\ \A i \in 1 .. Len(Tail(s)) : Tail(s)[i] = s[i + 1]
    BY HeadTailProperties
<1>3. Head(s) = s[1]  OBVIOUS
<1>4. AllOf(s) = {Head(s)} \cup RestOf(s)  BY <1>1, <1>3 DEF AllOf, RestOf
<1>5. RestOf(s) \subseteq Follow(Head(s))  BY <1>1, <1>3 DEF RestOf, StackOk
<1>6. AllOf(Tail(s)) = RestOf(s)
  <2>1. ASSUME NEW x \in AllOf(Tail(s)) PROVE x \in RestOf(s)
    <3>1. PICK i \in 1 .. Len(Tail(s)) : x = Tail(s)[i]  BY <2>1 DEF AllOf
    <3>2. i + 1 \in 2 .. Len(s) /\ x = s[i + 1]  BY <1>1, <1>2, <3>1
    <3> QED  BY <3>2 DEF RestOf
  <2>2. ASSUME NEW x \in RestOf(s) PROVE x \in AllOf(Tail(s))
    <3>1. PICK i \in 2 .. Len(s) : x = s[i]  BY <2>2 DEF RestOf
    <3>2. i - 1 \in 1 .. Len(Tail(s)) /\ x = Tail(s)[i - 1]  BY <1>1, <1>2, <3>1
    <3> QED  BY <3>2 DEF AllOf
  <2> QED  BY <2>1, <2>2
<1>7. RestOf(Tail(s)) \subseteq RestOf(s)
  <2>1. RestOf(Tail(s)) \subseteq AllOf(Tail(s))  BY <1>1, <1>2 DEF RestOf, AllOf
  <2> QED  BY <1>6, <2>1
<1>8. StackOk(Tail(s))
  <2>1. ASSUME NEW i \in 1 .. Len(Tail(s)), NEW j \in 1 .. Len(Tail(s)), i < j
        PROVE  Tail(s)[j] \in Follow(Tail(s)[i])
    <3>1. i + 1 \in 1 .. Len(s) /\ j + 1 \in 1 .. Len(s) /\ i + 1 < j + 1  BY <1>1, <1>2, <2>1
    <3> QED  BY <1>2, <3>1 DEF StackOk
  <2>2. Complete(RestOf(s))
    <3>1. Complete({Head(s)} \cup RestOf(s))  BY <1>4 DEF StackOk
    <3> QED  BY <1>5, <3>1 DEF Complete, Follow, Laters
  <2>3. Complete(AllOf(Tail(s)))  BY <1>6, <2>2
  <2> QED  BY <1>6, <2>1, <2>3, Zenon DEF StackOk
<1>9. Tail(s) = <<>> \/ Head(Tail(s)) \in RestOf(s)
  <2>1. CASE Tail(s) # <<>>
    <3>1. Len(Tail(s)) \in Nat /\ Len(Tail(s)) > 0  BY <1>2, <2>1, EmptySeq
    <3>2. Head(Tail(s)) = Tail(s)[1]  BY <2>1
    <3>3. 1 \in 1 .. Len(Tail(s))  BY <3>1
    <3>4. Tail(s)[1] \in AllOf(Tail(s))  BY <3>3 DEF AllOf
    <3> QED  BY <1>6, <3>2, <3>4
  <2> QED  BY <2>1
<1> QED  BY <1>2, <1>4, <1>5, <1>6, <1>7, <1>8, <1>9

\* Steps put before what a task has left.
LEMMA Joined ==
  ASSUME NEW m \in Seq(StepNames), NEW n \in Seq(StepNames), StackOk(m), StackOk(n),
         m # <<>>, AllOf(n) \subseteq Laters
  PROVE  /\ m \o n \in Seq(StepNames) /\ m \o n # <<>> /\ StackOk(m \o n)
         /\ Head(m \o n) = Head(m)
         /\ AllOf(m \o n) = AllOf(m) \cup AllOf(n) /\ RestOf(m \o n) = RestOf(m) \cup AllOf(n)
<1> DEFINE c == m \o n
           a == Len(m)
           b == Len(n)
<1>1. a \in Nat /\ a > 0 /\ b \in Nat  BY EmptySeq, LenProperties
<1>2. /\ c \in Seq(StepNames) /\ Len(c) = a + b
      /\ \A i \in 1 .. a + b : c[i] = IF i <= a THEN m[i] ELSE n[i - a]
    BY ConcatProperties
<1>d. Head(m) = m[1]  OBVIOUS
<1> HIDE DEF c
<1>3. c # <<>> /\ Head(c) = Head(m)
  <2>1. c # <<>>  BY <1>1, <1>2, EmptySeq
  <2>2. Head(c) = c[1]  BY <1>2, <2>1
  <2>3. c[1] = m[1]  BY <1>1, <1>2
  <2> QED  BY <1>d, <2>1, <2>2, <2>3
<1>4. \A i \in 1 .. a : i \in 1 .. a + b /\ c[i] = m[i]  BY <1>1, <1>2
<1>5. \A i \in 1 .. b : a + i \in 2 .. a + b /\ c[a + i] = n[i]
  <2> TAKE i \in 1 .. b
  <2>1. a + i \in 1 .. a + b /\ ~(a + i <= a) /\ (a + i) - a = i /\ a + i \in 2 .. a + b  BY <1>1
  <2> QED  BY <1>2, <2>1
<1>6. \A i \in 1 .. a + b : i \in 1 .. a \/ \E j \in 1 .. b : i = a + j
  <2> TAKE i \in 1 .. a + b
  <2>1. i \in 1 .. a \/ (i - a \in 1 .. b /\ i = a + (i - a))  BY <1>1
  <2> QED  BY <2>1
<1>7. AllOf(c) = AllOf(m) \cup AllOf(n)
  <2>0. ASSUME NEW i \in 1 .. a + b PROVE c[i] \in AllOf(m) \cup AllOf(n)
    <3>1. CASE i \in 1 .. a  BY <1>4, <3>1 DEF AllOf
    <3>2. CASE \E j \in 1 .. b : i = a + j
      <4>1. PICK j \in 1 .. b : i = a + j  BY <3>2
      <4> QED  BY <1>5, <4>1 DEF AllOf
    <3> QED  BY <1>6, <3>1, <3>2
  <2>1. AllOf(c) \subseteq AllOf(m) \cup AllOf(n)  BY <1>2, <2>0 DEF AllOf
  <2>2. AllOf(m) \subseteq AllOf(c)  BY <1>1, <1>2, <1>4 DEF AllOf
  <2>3. \A i \in 1 .. b : a + i \in 1 .. a + b  BY <1>1
  <2>4. AllOf(n) \subseteq AllOf(c)  BY <1>1, <1>2, <1>5, <2>3 DEF AllOf
  <2> QED  BY <2>1, <2>2, <2>4
<1>8. RestOf(c) = RestOf(m) \cup AllOf(n)
  <2>1. ASSUME NEW i \in 2 .. a + b PROVE c[i] \in RestOf(m) \cup AllOf(n)
    <3>1. i \in 1 .. a + b  BY <1>1
    <3>2. CASE i \in 1 .. a
      <4>1. i \in 2 .. a /\ c[i] = m[i]  BY <1>1, <1>4, <3>2
      <4> QED  BY <4>1 DEF RestOf
    <3>3. CASE \E j \in 1 .. b : i = a + j
      <4>1. PICK j \in 1 .. b : i = a + j  BY <3>3
      <4> QED  BY <1>5, <4>1 DEF AllOf
    <3> QED  BY <1>6, <3>1, <3>2, <3>3
  <2>2. \A i \in 2 .. a : i \in 2 .. a + b /\ c[i] = m[i]  BY <1>1, <1>4
  <2>3. RestOf(m) \subseteq RestOf(c)  BY <1>2, <2>2 DEF RestOf
  <2>4. AllOf(n) \subseteq RestOf(c)  BY <1>2, <1>5 DEF RestOf, AllOf
  <2>5. RestOf(c) \subseteq RestOf(m) \cup AllOf(n)  BY <1>2, <2>1 DEF RestOf
  <2> QED  BY <2>3, <2>4, <2>5
<1>9. StackOk(c)
  <2>1. ASSUME NEW i \in 1 .. Len(c), NEW j \in 1 .. Len(c), i < j PROVE c[j] \in Follow(c[i])
    <3>1. CASE j \in 1 .. a
      <4>1. i \in 1 .. a  BY <1>1, <1>2, <2>1, <3>1
      <4> QED  BY <1>4, <2>1, <3>1, <4>1 DEF StackOk
    <3>2. CASE \E k \in 1 .. b : j = a + k
      <4>1. PICK k \in 1 .. b : j = a + k  BY <3>2
      <4>2. c[j] \in AllOf(n)  BY <1>5, <4>1 DEF AllOf
      <4> QED  BY <4>2, FollowNames
    <3> QED  BY <1>2, <1>6, <3>1, <3>2
  <2>2. Complete(AllOf(m)) /\ AllOf(n) \subseteq Laters  BY DEF StackOk
  <2>3. Complete(AllOf(m) \cup AllOf(n))  BY <2>2 DEF Complete, Laters
  <2> QED  BY <1>7, <2>1, <2>3 DEF StackOk
<1> QED  BY <1>2, <1>3, <1>7, <1>8, <1>9 DEF c

LEMMA OneStep ==
  ASSUME NEW x \in StepNames \ {"clear", "lock", "undefer"}
  PROVE  /\ <<x>> \in Seq(StepNames) /\ <<x>> # <<>> /\ StackOk(<<x>>) /\ Head(<<x>>) = x
         /\ AllOf(<<x>>) = {x} /\ RestOf(<<x>>) = {}
<1>1. Len(<<x>>) = 1 /\ <<x>>[1] = x /\ <<x>> \in Seq(StepNames)  OBVIOUS
<1>2. AllOf(<<x>>) = {x} /\ RestOf(<<x>>) = {}  BY <1>1 DEF AllOf, RestOf
<1> QED  BY <1>1, <1>2 DEF StackOk, Complete

LEMMA Lists ==
  /\ \A s \in {<<"settled", "do">>, <<"kill", "start">>, <<"kill", "start", "do">>, ResetSteps} :
       s \in Seq(StepNames) /\ s # <<>> /\ StackOk(s)
  /\ AllOf(<<"settled", "do">>) = {"settled", "do"} /\ RestOf(<<"settled", "do">>) = {"do"}
  /\ AllOf(<<"kill", "start">>) = {"kill", "start"} /\ RestOf(<<"kill", "start">>) = {"start"}
  /\ AllOf(<<"kill", "start", "do">>) = {"kill", "start", "do"}
  /\ RestOf(<<"kill", "start", "do">>) = {"start", "do"}
  /\ AllOf(ResetSteps) = {"lock", "kill", "clear", "start", "release"}
  /\ RestOf(ResetSteps) = {"kill", "clear", "start", "release"}
<1>1. <<"settled", "do">> \in Seq(StepNames) /\ StackOk(<<"settled", "do">>)
      /\ AllOf(<<"settled", "do">>) = {"settled", "do"} /\ RestOf(<<"settled", "do">>) = {"do"}
  <2> DEFINE s == <<"settled", "do">>
  <2>1. s \in Seq(StepNames) /\ Len(s) = 2 /\ s[1] = "settled" /\ s[2] = "do"
      BY DEF StepNames, Finals, Laters
  <2> HIDE DEF s
  <2>2. AllOf(s) = {"settled", "do"} /\ RestOf(s) = {"do"}  BY <2>1 DEF AllOf, RestOf
  <2>3. StackOk(s)  BY <2>1, <2>2 DEF StackOk, Follow, Laters, Complete
  <2> QED  BY <2>1, <2>2, <2>3 DEF s
<1>2. <<"kill", "start">> \in Seq(StepNames) /\ StackOk(<<"kill", "start">>)
      /\ AllOf(<<"kill", "start">>) = {"kill", "start"} /\ RestOf(<<"kill", "start">>) = {"start"}
  <2> DEFINE s == <<"kill", "start">>
  <2>1. s \in Seq(StepNames) /\ Len(s) = 2 /\ s[1] = "kill" /\ s[2] = "start"
      BY DEF StepNames, Finals, Laters
  <2> HIDE DEF s
  <2>2. AllOf(s) = {"kill", "start"} /\ RestOf(s) = {"start"}  BY <2>1 DEF AllOf, RestOf
  <2>3. StackOk(s)  BY <2>1, <2>2 DEF StackOk, Follow, Laters, Complete
  <2> QED  BY <2>1, <2>2, <2>3 DEF s
<1>3. <<"kill", "start", "do">> \in Seq(StepNames) /\ StackOk(<<"kill", "start", "do">>)
      /\ AllOf(<<"kill", "start", "do">>) = {"kill", "start", "do"}
      /\ RestOf(<<"kill", "start", "do">>) = {"start", "do"}
  <2> DEFINE s == <<"kill", "start", "do">>
  <2>1. s \in Seq(StepNames) /\ Len(s) = 3 /\ s[1] = "kill" /\ s[2] = "start" /\ s[3] = "do"
      BY DEF StepNames, Finals, Laters
  <2> HIDE DEF s
  <2>2. AllOf(s) = {"kill", "start", "do"} /\ RestOf(s) = {"start", "do"}  BY <2>1 DEF AllOf, RestOf
  <2>3. StackOk(s)  BY <2>1, <2>2 DEF StackOk, Follow, Laters, Complete
  <2> QED  BY <2>1, <2>2, <2>3 DEF s
<1>4. ResetSteps \in Seq(StepNames) /\ StackOk(ResetSteps)
      /\ AllOf(ResetSteps) = {"lock", "kill", "clear", "start", "release"}
      /\ RestOf(ResetSteps) = {"kill", "clear", "start", "release"}
  <2> DEFINE s == ResetSteps
  <2>1. /\ s \in Seq(StepNames) /\ Len(s) = 5 /\ s[1] = "lock" /\ s[2] = "kill" /\ s[3] = "clear"
        /\ s[4] = "start" /\ s[5] = "release"
      BY DEF StepNames, Finals, Laters, ResetSteps
  <2> HIDE DEF s
  <2>2. AllOf(s) = {"lock", "kill", "clear", "start", "release"} /\
            RestOf(s) = {"kill", "clear", "start", "release"}
      BY <2>1 DEF AllOf, RestOf
  <2>3. StackOk(s)  BY <2>1, <2>2 DEF StackOk, Follow, Laters, Complete
  <2> QED  BY <2>1, <2>2, <2>3 DEF s
<1> QED  BY <1>1, <1>2, <1>3, <1>4 DEF ResetSteps

LEMMA MoreLists ==
  /\ RestartSteps \in Seq(StepNames) /\ RestartSteps # <<>> /\ (MaxOperator # 0 => StackOk(RestartSteps))
  /\ AllOf(RestartSteps) = {"kill", "clear", "start"} /\ RestOf(RestartSteps) = {"clear", "start"}
  /\ Head(RestartSteps) = "kill"
  /\ \A s \in {<<"kill", "start", "undefer", "drain">>} :
       /\ s \in Seq(StepNames) /\ s # <<>> /\ StackOk(s) /\ Head(s) = "kill"
       /\ AllOf(s) = {"kill", "start", "undefer", "drain"} /\ RestOf(s) = {"start", "undefer", "drain"}
<1>1. /\ RestartSteps \in Seq(StepNames) /\ RestartSteps # <<>> /\ (MaxOperator # 0 => StackOk(RestartSteps))
      /\ AllOf(RestartSteps) = {"kill", "clear", "start"} /\ RestOf(RestartSteps) = {"clear", "start"}
      /\ Head(RestartSteps) = "kill"
  <2> DEFINE s == RestartSteps
  <2>1. /\ s \in Seq(StepNames) /\ Len(s) = 3 /\ s[1] = "kill" /\ s[2] = "clear" /\ s[3] = "start"
        /\ s # <<>> /\ Head(s) = "kill"
      BY DEF StepNames, Finals, Laters, RestartSteps
  <2> HIDE DEF s
  <2>2. AllOf(s) = {"kill", "clear", "start"} /\ RestOf(s) = {"clear", "start"}  BY <2>1 DEF AllOf, RestOf
  <2>3. MaxOperator # 0 => StackOk(s)  BY <2>1, <2>2 DEF StackOk, Follow, Laters, Complete
  <2> QED  BY <2>1, <2>2, <2>3 DEF s
<1>2. ASSUME NEW s, s = <<"kill", "start", "undefer", "drain">>
      PROVE  /\ s \in Seq(StepNames) /\ s # <<>> /\ StackOk(s) /\ Head(s) = "kill"
             /\ AllOf(s) = {"kill", "start", "undefer", "drain"} /\ RestOf(s) = {"start", "undefer", "drain"}
  <2>1. /\ s \in Seq(StepNames) /\ Len(s) = 4 /\ s[1] = "kill" /\ s[2] = "start" /\ s[3] = "undefer"
        /\ s[4] = "drain" /\ s # <<>> /\ Head(s) = "kill"
      BY <1>2 DEF StepNames, Finals, Laters
  <2>2. /\ AllOf(s) = {"kill", "start", "undefer", "drain"} /\ RestOf(s) = {"start", "undefer", "drain"}
      BY <2>1 DEF AllOf, RestOf
  <2>3. StackOk(s)  BY <2>1, <2>2 DEF StackOk, Follow, Laters, Complete
  <2> QED  BY <2>1, <2>2, <2>3
<1> QED  BY <1>1, <1>2

\* What the first step of a task says of the rest.
StackLaws ==
    /\ Heads \in [Tasks -> StepNames \cup {"none"}]
    /\ Alls \in [Tasks -> SUBSET StepNames] /\ Rests \in [Tasks -> SUBSET StepNames]
    /\ \A t \in Tasks : /\ Complete(Alls[t])
                        /\ task[t] = <<>> <=> Heads[t] = "none"
                        /\ Heads[t] = "none" => Alls[t] = {} /\ Rests[t] = {}
                        /\ Heads[t] # "none" => /\ Alls[t] = {Heads[t]} \cup Rests[t]
                                                /\ Rests[t] \subseteq Follow(Heads[t])

LEMMA StackFacts == ASSUME Stacks PROVE StackLaws
<1>0. "none" \notin StepNames  BY DEF StepNames, Finals, Laters
<1>1. ASSUME NEW t \in Tasks
      PROVE  /\ Heads[t] \in StepNames \cup {"none"} /\ Alls[t] \subseteq StepNames /\
                Rests[t] \subseteq StepNames
             /\ Complete(Alls[t]) /\ (task[t] = <<>> <=> Heads[t] = "none")
             /\ Heads[t] = "none" => Alls[t] = {} /\ Rests[t] = {}
             /\ Heads[t] # "none" => Alls[t] = {Heads[t]} \cup Rests[t] /\ Rests[t] \subseteq Follow(Heads[t])
  <2> DEFINE s == task[t]
  <2>1. s \in Seq(StepNames) /\ StackOk(s)  BY DEF Stacks
  <2>2. Alls[t] = AllOf(s) /\ Rests[t] = RestOf(s) /\ Heads[t] = IF s = <<>> THEN "none" ELSE Head(s)
      BY Zenon DEF Alls, Rests, Heads, Step
  <2> HIDE DEF s
  <2>3. CASE s = <<>>  BY <1>0, <2>1, <2>2, <2>3, EmptyStack DEF s, StackOk
  <2>4. CASE s # <<>>  BY <1>0, <2>1, <2>2, <2>4, Popped, FollowNames DEF s, StackOk
  <2> QED  BY <2>3, <2>4
<1>2. /\ Heads \in [Tasks -> StepNames \cup {"none"}]
      /\ Alls \in [Tasks -> SUBSET StepNames] /\ Rests \in [Tasks -> SUBSET StepNames]
  <2>1. Heads = [t \in Tasks |-> Heads[t]] /\ Alls = [t \in Tasks |-> Alls[t]] /\
            Rests = [t \in Tasks |-> Rests[t]]
      BY Zenon DEF Heads, Alls, Rests
  <2> QED  BY <1>1, <2>1
<1> QED  BY <1>1, <1>2 DEF StackLaws

Becomes(t, x, E, R) ==
    /\ Heads' = [Heads EXCEPT ![t] = x]
    /\ Alls' = [Alls EXCEPT ![t] = E] /\ Rests' = [Rests EXCEPT ![t] = R]

LEMMA ChangesOne ==
  ASSUME NEW S, NEW f, NEW g, NEW t \in S, NEW x, f = [u \in S |-> f[u]], g = [u \in S |-> g[u]],
         g[t] = x, \A u \in S \ {t} : g[u] = f[u]
  PROVE  g = [f EXCEPT ![t] = x]
<1> DEFINE h == [f EXCEPT ![t] = x]
<1>1. h = [u \in S |-> IF u = t THEN x ELSE f[u]]  OBVIOUS
<1>2. \A u \in S : g[u] = IF u = t THEN x ELSE f[u]  OBVIOUS
<1>3. [u \in S |-> g[u]] = [u \in S |-> IF u = t THEN x ELSE f[u]]  BY <1>2
<1> QED  BY <1>1, <1>3

LEMMA StackChanges ==
  ASSUME Stacks, NEW t \in Tasks, NEW s \in Seq(StepNames), StackOk(s), task' = [task EXCEPT ![t] = s]
  PROVE  Stacks' /\ Becomes(t, IF s = <<>> THEN "none" ELSE Head(s), AllOf(s), RestOf(s))
<1>1. task' \in [Tasks -> Seq(StepNames)] /\ \A u \in Tasks : StackOk(task'[u])  BY DEF Stacks
<1>2. task'[t] = s /\ \A u \in Tasks \ {t} : task'[u] = task[u]  BY DEF Stacks
<1>3. Heads' = [u \in Tasks |-> IF task'[u] = <<>> THEN "none" ELSE Head(task'[u])]
    BY Zenon DEF Heads, Step
<1>4. Alls' = [u \in Tasks |-> AllOf(task'[u])] /\ Rests' = [u \in Tasks |-> RestOf(task'[u])]
    BY Zenon DEF Alls, Rests, AllOf, RestOf
<1>5. /\ Heads = [u \in Tasks |-> IF task[u] = <<>> THEN "none" ELSE Head(task[u])]
      /\ Alls = [u \in Tasks |-> AllOf(task[u])] /\ Rests = [u \in Tasks |-> RestOf(task[u])]
    BY Zenon DEF Heads, Step, Alls, Rests
<1>6. Heads' = [Heads EXCEPT ![t] = IF s = <<>> THEN "none" ELSE Head(s)]
  <2>1. Heads = [u \in Tasks |-> Heads[u]] /\ Heads' = [u \in Tasks |-> Heads'[u]]  BY <1>3, <1>5
  <2>2. Heads'[t] = IF s = <<>> THEN "none" ELSE Head(s)  BY <1>2, <1>3
  <2>3. \A u \in Tasks \ {t} : Heads'[u] = Heads[u]  BY <1>2, <1>3, <1>5
  <2> QED  BY <2>1, <2>2, <2>3, ChangesOne
<1>7. Alls' = [Alls EXCEPT ![t] = AllOf(s)]
  <2>1. Alls = [u \in Tasks |-> Alls[u]] /\ Alls' = [u \in Tasks |-> Alls'[u]]  BY <1>4, <1>5
  <2>2. Alls'[t] = AllOf(s)  BY <1>2, <1>4
  <2>3. \A u \in Tasks \ {t} : Alls'[u] = Alls[u]  BY <1>2, <1>4, <1>5
  <2> QED  BY <2>1, <2>2, <2>3, ChangesOne
<1>8. Rests' = [Rests EXCEPT ![t] = RestOf(s)]
  <2>1. Rests = [u \in Tasks |-> Rests[u]] /\ Rests' = [u \in Tasks |-> Rests'[u]]  BY <1>4, <1>5
  <2>2. Rests'[t] = RestOf(s)  BY <1>2, <1>4
  <2>3. \A u \in Tasks \ {t} : Rests'[u] = Rests[u]  BY <1>2, <1>4, <1>5
  <2> QED  BY <2>1, <2>2, <2>3, ChangesOne
<1> QED  BY <1>1, <1>6, <1>7, <1>8 DEF Stacks, Becomes, StackOk, Complete, AllOf

\* A task takes a step that nothing is awaited in.
LEMMA Pops ==
  ASSUME Stacks, NEW t \in Tasks, Heads[t] # "none", task' = Goes(t, <<>>)
  PROVE  Stacks' /\ \E x \in Rests[t] \cup {"none"}, R \in SUBSET Rests[t] : Becomes(t, x, Rests[t], R)
<1> DEFINE s == task[t]
<1>1. s \in Seq(StepNames) /\ StackOk(s) /\ s # <<>>  BY StackFacts DEF Stacks, StackLaws
<1>2. Rests[t] = RestOf(s)  BY DEF Rests
<1>3. task' = [task EXCEPT ![t] = Tail(s)]
  <2>1. <<>> \o Tail(s) = Tail(s)  BY <1>1, Popped, ConcatEmptySeq
  <2> QED  BY <2>1 DEF Goes
<1> HIDE DEF s
<1>4. /\ Tail(s) \in Seq(StepNames) /\ StackOk(Tail(s)) /\ AllOf(Tail(s)) = RestOf(s)
      /\ RestOf(Tail(s)) \subseteq RestOf(s) /\ (Tail(s) = <<>> \/ Head(Tail(s)) \in RestOf(s))
    BY <1>1, Popped
<1>5. Stacks' /\ Becomes(t, IF Tail(s) = <<>> THEN "none" ELSE Head(Tail(s)), RestOf(s), RestOf(Tail(s)))
  <2>1. Stacks' /\ Becomes(t, IF Tail(s) = <<>> THEN "none"
            ELSE Head(Tail(s)), AllOf(Tail(s)), RestOf(Tail(s)))
      BY <1>3, <1>4, StackChanges
  <2> QED  BY <1>4, <2>1
<1> QED  BY <1>2, <1>4, <1>5

\* A task awaits others' steps.
LEMMA Awaits ==
  ASSUME Stacks, NEW t \in Tasks, Heads[t] \in Finals, NEW n \in Seq(StepNames), n # <<>>, StackOk(n),
         task' = Goes(t, n)
  PROVE  Stacks' /\ Becomes(t, Head(n), AllOf(n) \cup Rests[t], RestOf(n) \cup Rests[t])
<1> DEFINE s == task[t]
<1>1. s \in Seq(StepNames) /\ StackOk(s) /\ Heads[t] # "none"  BY DEF Stacks, Finals, Laters
<1>a. s # <<>>  BY <1>1, StackFacts DEF StackLaws
<1>2. Rests[t] = RestOf(s) /\ Head(s) \in Finals  BY <1>a, Zenon DEF Rests, Heads, Step
<1>3. task' = [task EXCEPT ![t] = n \o Tail(s)]  BY DEF Goes
<1> HIDE DEF s
<1>4. Tail(s) \in Seq(StepNames) /\ StackOk(Tail(s)) /\ AllOf(Tail(s)) = RestOf(s) /\
          RestOf(s) \subseteq Laters
    BY <1>1, <1>a, <1>2, Popped, AfterFinals
<1>5. /\ n \o Tail(s) \in Seq(StepNames) /\ StackOk(n \o Tail(s)) /\ n \o Tail(s) # <<>>
      /\ Head(n \o Tail(s)) = Head(n)
      /\ AllOf(n \o Tail(s)) = AllOf(n) \cup RestOf(s) /\ RestOf(n \o Tail(s)) = RestOf(n) \cup RestOf(s)
    BY <1>4, Joined
<1>6. Stacks' /\ Becomes(t, IF n \o Tail(s) = <<>> THEN "none" ELSE Head(n \o Tail(s)),
                         AllOf(n \o Tail(s)), RestOf(n \o Tail(s)))
    BY <1>3, <1>5, StackChanges
<1> QED  BY <1>2, <1>5, <1>6

LEMMA AwaitsOne ==
  ASSUME Stacks, NEW t \in Tasks, Heads[t] \in Finals, NEW y \in StepNames \ {"clear", "lock", "undefer"},
         task' = Goes(t, <<y>>)
  PROVE  Stacks' /\ Becomes(t, y, {y} \cup Rests[t], Rests[t])
<1>1. Stacks' /\ Becomes(t, Head(<<y>>), AllOf(<<y>>) \cup Rests[t], RestOf(<<y>>) \cup Rests[t])
    BY OneStep, Awaits
<1>2. Becomes(t, y, {y} \cup Rests[t], {} \cup Rests[t])  BY <1>1, OneStep
<1>3. {} \cup Rests[t] = Rests[t]  OBVIOUS
<1> QED  BY <1>1, <1>2, <1>3

LEMMA LeastTask ==
  ASSUME SessionAssumption, NEW S \in SUBSET Tasks, S # {}
  PROVE  \E x \in S : \A u \in S : x <= u
<1>1. S \subseteq Nat  BY DEF Tasks, SessionAssumption
<1>2. IsWellFoundedOn(OpToRel(<, Nat), Nat)  BY NatLessThanWellFounded
<1>3. PICK x \in S : \A y \in S : ~(<<y, x>> \in OpToRel(<, Nat))  BY <1>1, <1>2, WFMin
<1>4. ASSUME NEW y \in S PROVE x <= y
  <2>1. x \in Nat /\ y \in Nat  BY <1>1
  <2>2. y < x => <<y, x>> \in OpToRel(<, Nat)  BY <2>1, Zenon DEF OpToRel
  <2>3. ~(y < x)  BY <1>3, <2>2, Zenon
  <2> QED  BY <2>1, <2>3
<1> QED  BY <1>4

LEMMA Spawns ==
  ASSUME SessionAssumption, Stacks, NEW n \in Seq(StepNames), n # <<>>, StackOk(n),
         FreeTasks # {}, task' = Spawned(task, n)
  PROVE  /\ Stacks' /\ Slot \in Tasks /\ Heads[Slot] = "none"
         /\ Becomes(Slot, Head(n), AllOf(n), RestOf(n))
<1>1. \E t \in FreeTasks : \A u \in FreeTasks : t <= u
  <2>1. FreeTasks \in SUBSET Tasks  BY DEF FreeTasks
  <2> QED  BY <2>1, LeastTask
<1>2. Slot \in FreeTasks
  <2> HIDE DEF FreeTasks
  <2> QED  BY <1>1 DEF Slot
<1>3. Spawned(task, n) = [task EXCEPT ![Slot] = n]  BY Zenon DEF Spawned, Slot, FreeTasks
<1>5. Slot \in Tasks /\ task[Slot] = <<>>  BY <1>2 DEF FreeTasks
<1>6. PICK t \in Tasks : t = Slot  BY <1>5
<1>7. task' = [task EXCEPT ![t] = n]  BY <1>3, <1>6
<1>8. Stacks' /\ Becomes(t, IF n = <<>> THEN "none" ELSE Head(n), AllOf(n), RestOf(n))
    BY <1>7, StackChanges
<1>9. Heads[t] = "none"  BY <1>5, <1>6, StackFacts DEF StackLaws
<1> QED  BY <1>6, <1>8, <1>9

LEMMA SpawnsOne ==
  ASSUME SessionAssumption, Stacks, NEW y \in StepNames \ {"clear", "lock", "undefer"},
         FreeTasks # {}, task' = Spawned(task, <<y>>)
  PROVE  /\ Stacks' /\ Slot \in Tasks /\ Heads[Slot] = "none"
         /\ Becomes(Slot, y, {y}, {})
<1>1. /\ Stacks' /\ Slot \in Tasks /\ Heads[Slot] = "none"
      /\ Becomes(Slot, Head(<<y>>), AllOf(<<y>>), RestOf(<<y>>))
    BY OneStep, Spawns
<1> QED  BY <1>1, OneStep

LEMMA Stays ==
  ASSUME Stacks, task' = task PROVE Stacks' /\ Heads' = Heads /\ Alls' = Alls /\ Rests' = Rests
BY DEF Stacks, Heads, Alls, Rests, Step, AllOf, RestOf, StackOk, Complete

LEMMA UrgentIs == Urgent <=> \E u \in Tasks : Heads[u] \in UrgentSteps
BY Zenon DEF Urgent, Heads

LEMMA UrgentAre == {"begin", "beginOverflow", "do"} \subseteq UrgentSteps
                   /\ UrgentSteps \subseteq {"begin", "beginOverflow", "do", "claim"}
BY DEF UrgentSteps

LEMMA NoTask == ASSUME SessionAssumption PROVE 0 \notin Tasks
BY DEF Tasks, SessionAssumption

\* A turn's end: the respawn of an effort change that waited for it comes before n.
LEMMA Followups ==
  ASSUME effortPending \in BOOLEAN, NEW n \in {<<>>, <<"do">>, <<"begin">>, <<"beginOverflow">>}
  PROVE  \E c \in Seq(StepNames) :
           /\ c = EffortFollowup \o n /\ StackOk(c)
           /\ AllOf(n) \subseteq AllOf(c)
           /\ AllOf(c) \subseteq AllOf(n) \cup {"kill", "start", "undefer", "drain"}
           /\ ~effortPending => c = n
           /\ effortPending => c # <<>> /\ Head(c) = "kill" /\ {"undefer", "drain"} \subseteq AllOf(c)
<1>1. n \in Seq(StepNames) /\ StackOk(n) /\ AllOf(n) \subseteq Laters
  <2>1. CASE n = <<>>  BY <2>1, EmptyStack
  <2>2. ASSUME NEW y \in Laters, n = <<y>> PROVE n \in Seq(StepNames) /\ StackOk(n) /\
            AllOf(n) \subseteq Laters
    <3>1. y \in StepNames \ {"clear", "lock", "undefer"}  BY DEF StepNames, Finals, Laters
    <3> QED  BY <2>2, <3>1, OneStep
  <2>3. n # <<>> => \E y \in Laters : n = <<y>>  BY DEF Laters
  <2> QED  BY <2>1, <2>2, <2>3
<1>2. CASE effortPending
  <2> DEFINE m == <<"kill", "start", "undefer", "drain">>
  <2>1. EffortFollowup = m  BY <1>2 DEF EffortFollowup
  <2>2. /\ m \in Seq(StepNames) /\ m # <<>> /\ StackOk(m) /\ Head(m) = "kill"
        /\ AllOf(m) = {"kill", "start", "undefer", "drain"}
      BY MoreLists
  <2> HIDE DEF m
  <2>3. /\ m \o n \in Seq(StepNames) /\ m \o n # <<>> /\ StackOk(m \o n) /\ Head(m \o n) = "kill"
        /\ AllOf(m \o n) = AllOf(m) \cup AllOf(n)
      BY <1>1, <2>2, Joined
  <2>4. /\ AllOf(n) \subseteq AllOf(m \o n) /\ {"undefer", "drain"} \subseteq AllOf(m \o n)
        /\ AllOf(m \o n) \subseteq AllOf(n) \cup {"kill", "start", "undefer", "drain"}
      BY <2>2, <2>3
  <2>5. PICK c : c = m \o n  OBVIOUS
  <2>6. /\ c \in Seq(StepNames) /\ c # <<>> /\ StackOk(c) /\ Head(c) = "kill" /\ c = EffortFollowup \o n
        /\ AllOf(n) \subseteq AllOf(c) /\ {"undefer", "drain"} \subseteq AllOf(c)
        /\ AllOf(c) \subseteq AllOf(n) \cup {"kill", "start", "undefer", "drain"}
      BY <2>1, <2>3, <2>4, <2>5
  <2> QED  BY <1>2, <2>6
<1>3. CASE ~effortPending
  <2>1. EffortFollowup \o n = n  BY <1>1, <1>3, ConcatEmptySeq DEF EffortFollowup
  <2> QED  BY <1>1, <1>3, <2>1
<1> QED  BY <1>2, <1>3

LEMMA TurnEnding ==
  ASSUME Stacks, NEW t \in Tasks, Heads[t] \in Finals, effortPending \in BOOLEAN,
         NEW n \in {<<>>, <<"do">>, <<"begin">>, <<"beginOverflow">>}, task' = Goes(t, EffortFollowup \o n)
  PROVE  /\ Stacks'
         /\ \E x, E, R :
              /\ Becomes(t, x, E \cup Rests[t], R)
              /\ AllOf(n) \subseteq E /\ E \subseteq AllOf(n) \cup {"kill", "start", "undefer", "drain"}
              /\ x \in E \cup Rests[t] \cup {"none"}
              /\ effortPending => x = "kill" /\ {"undefer", "drain"} \subseteq E
              /\ ~effortPending => R \subseteq Rests[t]
              /\ ~effortPending /\ n # <<>> => x \in AllOf(n)
              /\ ~effortPending /\ n = <<>> => x \in Rests[t] \cup {"none"}
<1>1. PICK c \in Seq(StepNames) :
           /\ c = EffortFollowup \o n /\ StackOk(c)
           /\ AllOf(n) \subseteq AllOf(c)
           /\ AllOf(c) \subseteq AllOf(n) \cup {"kill", "start", "undefer", "drain"}
           /\ ~effortPending => c = n
           /\ effortPending => c # <<>> /\ Head(c) = "kill" /\ {"undefer", "drain"} \subseteq AllOf(c)
    BY Followups
<1>2. task' = Goes(t, c)  BY <1>1
<1>3. CASE c # <<>>
  <2>1. Stacks' /\ Becomes(t, Head(c), AllOf(c) \cup Rests[t], RestOf(c) \cup Rests[t])
      BY <1>1, <1>2, <1>3, Awaits
  <2>2. Head(c) \in AllOf(c)  BY <1>1, <1>3, Popped
  <2>3. ~effortPending => RestOf(c) = {}
    <3> SUFFICES ASSUME ~effortPending PROVE RestOf(c) = {}  OBVIOUS
    <3>1. \E y \in Laters : c = <<y>>  BY <1>1, <1>3 DEF Laters
    <3>2. Laters \subseteq StepNames \ {"clear", "lock", "undefer"}  BY DEF StepNames, Finals, Laters
    <3> QED  BY <3>1, <3>2, OneStep
  <2>4. PICK x, E, R : x = Head(c) /\ E = AllOf(c) /\ R = RestOf(c) \cup Rests[t]  OBVIOUS
  <2>5. /\ Becomes(t, x, E \cup Rests[t], R) /\ x \in E /\ (~effortPending => R \subseteq Rests[t])
        /\ (effortPending => x = "kill") /\ (~effortPending => x \in AllOf(n))
      BY <1>1, <2>1, <2>2, <2>3, <2>4
  <2>6. n = <<>> => effortPending  BY <1>1, <1>3
  <2> QED  BY <1>1, <2>1, <2>4, <2>5, <2>6
<1>4. CASE c = <<>>
  <2>1. ~effortPending /\ n = <<>>  BY <1>1, <1>4
  <2>2. Heads[t] # "none"  BY DEF Finals, Laters
  <2>3. Stacks' /\ \E x \in Rests[t] \cup {"none"}, R \in SUBSET Rests[t] : Becomes(t, x, Rests[t], R)
      BY <1>2, <1>4, <2>2, Pops
  <2>4. PICK x \in Rests[t] \cup {"none"}, R \in SUBSET Rests[t] : Becomes(t, x, Rests[t], R)  BY <2>3
  <2>5. AllOf(n) = {}  BY <2>1, EmptyStack
  <2>6. Becomes(t, x, {} \cup Rests[t], R)  BY <2>4
  <2> QED  BY <2>1, <2>3, <2>4, <2>5, <2>6
<1> QED  BY <1>3, <1>4

LEMMA TurnEndsWith ==
  ASSUME Stacks, NEW t \in Tasks, Heads[t] \in Finals, effortPending \in BOOLEAN,
         NEW y \in Laters, task' = Goes(t, EffortFollowup \o <<y>>)
  PROVE  /\ Stacks'
         /\ \E x, E, R :
              /\ Becomes(t, x, E \cup Rests[t], R)
              /\ y \in E /\ E \subseteq {y, "kill", "start", "undefer", "drain"}
              /\ effortPending => x = "kill" /\ {"undefer", "drain"} \subseteq E
              /\ ~effortPending => R \subseteq Rests[t] /\ x = y
<1> DEFINE n == <<y>>
<1>1. n \in {<<>>, <<"do">>, <<"begin">>, <<"beginOverflow">>} /\ n # <<>>  BY DEF Laters
<1>2. AllOf(n) = {y}
  <2>1. y \in StepNames \ {"clear", "lock", "undefer"}  BY DEF StepNames, Finals, Laters
  <2> QED  BY <2>1, OneStep
<1>3. task' = Goes(t, EffortFollowup \o n)  OBVIOUS
<1> HIDE DEF n
<1>4. Stacks'  BY <1>1, <1>3, TurnEnding
<1>5. PICK x, E, R :
              /\ Becomes(t, x, E \cup Rests[t], R)
              /\ AllOf(n) \subseteq E /\ E \subseteq AllOf(n) \cup {"kill", "start", "undefer", "drain"}
              /\ effortPending => x = "kill" /\ {"undefer", "drain"} \subseteq E
              /\ ~effortPending => R \subseteq Rests[t]
              /\ ~effortPending /\ n # <<>> => x \in AllOf(n)
    BY <1>1, <1>3, TurnEnding
<1> QED  BY <1>1, <1>2, <1>4, <1>5

LEMMA TurnEndsPlain ==
  ASSUME Stacks, NEW t \in Tasks, Heads[t] \in Finals, effortPending \in BOOLEAN,
         task' = Goes(t, EffortFollowup \o <<>>)
  PROVE  /\ Stacks'
         /\ \E x, E, R :
              /\ Becomes(t, x, E \cup Rests[t], R)
              /\ E \subseteq {"kill", "start", "undefer", "drain"}
              /\ effortPending => x = "kill" /\ {"undefer", "drain"} \subseteq E
              /\ ~effortPending => R \subseteq Rests[t] /\ x \in Rests[t] \cup {"none"}
<1>1. PICK n : n = <<>>  OBVIOUS
<1>2. n \in {<<>>, <<"do">>, <<"begin">>, <<"beginOverflow">>} /\ AllOf(n) = {}  BY <1>1, EmptyStack
<1>3. task' = Goes(t, EffortFollowup \o n)  BY <1>1
<1>4. Stacks'  BY <1>2, <1>3, TurnEnding
<1>5. PICK x, E, R :
              /\ Becomes(t, x, E \cup Rests[t], R)
              /\ AllOf(n) \subseteq E /\ E \subseteq AllOf(n) \cup {"kill", "start", "undefer", "drain"}
              /\ effortPending => x = "kill" /\ {"undefer", "drain"} \subseteq E
              /\ ~effortPending => R \subseteq Rests[t]
              /\ ~effortPending /\ n = <<>> => x \in Rests[t] \cup {"none"}
    BY <1>2, <1>3, TurnEnding
<1> QED  BY <1>1, <1>2, <1>4, <1>5

LEMMA ReloadThenDo ==
  /\ ReloadSteps \o <<"do">> = <<"kill", "start", "do">>
  /\ <<>> \o <<"do">> = <<"do">>
<1> DEFINE m == <<"kill", "start">>
           n == <<"do">>
           c == <<"kill", "start", "do">>
<1>1. /\ m \in Seq(StepNames) /\ Len(m) = 2 /\ m[1] = "kill" /\ m[2] = "start"
      /\ n \in Seq(StepNames) /\ Len(n) = 1 /\ n[1] = "do"
      /\ c \in Seq(StepNames) /\ Len(c) = 3 /\ c[1] = "kill" /\ c[2] = "start" /\ c[3] = "do"
    BY DEF StepNames, Finals, Laters
<1> HIDE DEF m, n, c
<1>2. /\ m \o n \in Seq(StepNames) /\ Len(m \o n) = Len(m) + Len(n)
      /\ \A i \in 1 .. Len(m) + Len(n) : (m \o n)[i] = IF i <= Len(m) THEN m[i] ELSE n[i - Len(m)]
    BY <1>1, ConcatProperties
<1>3. (m \o n)[1] = "kill" /\ (m \o n)[2] = "start" /\ (m \o n)[3] = "do" /\ Len(m \o n) = 3
  <2>1. Len(m \o n) = 3  BY <1>1, <1>2
  <2>2. (m \o n)[1] = m[1] /\ (m \o n)[2] = m[2]  BY <1>1, <1>2
  <2>3. (m \o n)[3] = n[1]  BY <1>1, <1>2
  <2> QED  BY <1>1, <2>1, <2>2, <2>3
<1>4. \A i \in 1 .. 3 : (m \o n)[i] = c[i]  BY <1>1, <1>3
<1>5. m \o n = c  BY <1>1, <1>2, <1>3, <1>4, SeqEqual
<1>6. <<>> \o n = n  BY <1>1, ConcatEmptySeq
<1> QED  BY <1>5, <1>6 DEF m, n, c, ReloadSteps

LEMMA SessionStart == ASSUME SessionAssumption PROVE SessionInit => SessionInv
<1> SUFFICES ASSUME SessionInit PROVE SessionInv  OBVIOUS
<1> USE DEF SessionInit
<1>1. task \in [Tasks -> Seq(StepNames)] /\ \A t \in Tasks : task[t] = <<>>  BY EmptyStack
<1>2. Stacks
  <2>1. \A t \in Tasks : StackOk(task[t])
    <3> TAKE t \in Tasks
    <3>1. task[t] = <<>>  BY <1>1
    <3> QED  BY <3>1, EmptyStack
  <2> QED  BY <1>1, <2>1 DEF Stacks
<1>3. \A t \in Tasks : Heads[t] = "none" /\ Alls[t] = {} /\ Rests[t] = {}
    BY <1>1, <1>2, StackFacts DEF StackLaws
<1>4. turn.kind = "none" /\ turn.sess = 0 /\ turn \in SessionTurnType  BY DEF NoSessionTurn, SessionTurnType
<1>5. SessionTypes  BY <1>4 DEF SessionTypes
<1>6. Locks  BY <1>3, <1>4 DEF Locks
<1>7. Handing  BY <1>3, <1>4 DEF Handing, HandedOver
<1>8. Noting  BY <1>3 DEF Noting, Due
<1>9. Spacing  BY <1>3 DEF Spacing, UrgentSteps, ResetBegins
<1>10. Waking  BY <1>3, <1>4 DEF Waking
<1> QED  BY <1>2, <1>5, <1>6, <1>7, <1>8, <1>9, <1>10 DEF SessionInv

LEMMA UndeferKeeps ==
  ASSUME SessionAssumption, SessionInv, NEW t \in Tasks, Undefer(t)
  PROVE  SessionInv'
<1> USE DEF Undefer
<1>i. SessionTypes /\ Stacks /\ Locks /\ Handing /\ Noting /\ Spacing /\ Waking  BY DEF SessionInv
<1>s. StackLaws  BY <1>i, StackFacts
<1>1. Heads[t] = "undefer"  BY DEF Heads, Step
<1>2. Stacks' /\ \E x \in Rests[t] \cup {"none"}, R \in SUBSET Rests[t] : Becomes(t, x, Rests[t], R)
    BY <1>1, <1>i, Pops
<1>3. PICK x \in Rests[t] \cup {"none"}, R \in SUBSET Rests[t] : Becomes(t, x, Rests[t], R)  BY <1>2
<1>t. SessionTypes'  BY <1>i DEF SessionTypes, SessionTurnType, policy, process, ghosts, counters
<1>l. Locks'
    BY <1>i, <1>s, <1>1, <1>2, <1>3, <1>t, NoTask
    DEF SessionTypes, Locks, Becomes, StackLaws, Follow, Laters
<1>h. Handing'
    BY <1>i, <1>s, <1>1, <1>2, <1>3, <1>t
    DEF SessionTypes, Locks, Handing, HandedOver, Becomes, StackLaws, Follow, Laters, Complete, policy,
       process, ghosts
<1>n. Noting'
    BY <1>i, <1>s, <1>1, <1>2, <1>3, <1>t
    DEF SessionTypes, Locks, Noting, Due, Becomes, StackLaws, Follow, Laters, Complete, process, ghosts
<1>p. Spacing'
    BY <1>i, <1>s, <1>1, <1>2, <1>3, <1>t, UrgentIs
    DEF SessionTypes, Spacing, ResetBegins, Becomes, StackLaws, policy, ghosts, counters
<1>w. Waking'
    BY <1>i, <1>s, <1>1, <1>2, <1>3, <1>t
    DEF SessionTypes, Waking, Becomes, StackLaws, Follow, Laters, Complete, policy
<1> QED  BY <1>1, <1>2, <1>3, <1>t, <1>l, <1>h, <1>n, <1>p, <1>w DEF SessionInv

LEMMA SettledKeeps ==
  ASSUME SessionAssumption, SessionInv, NEW t \in Tasks, Settled(t)
  PROVE  SessionInv'
<1> USE DEF Settled
<1>i. SessionTypes /\ Stacks /\ Locks /\ Handing /\ Noting /\ Spacing /\ Waking  BY DEF SessionInv
<1>s. StackLaws  BY <1>i, StackFacts
<1>1. Heads[t] = "settled"  BY DEF Heads, Step
<1>2. Stacks' /\ \E x \in Rests[t] \cup {"none"}, R \in SUBSET Rests[t] : Becomes(t, x, Rests[t], R)
    BY <1>1, <1>i, Pops
<1>3. PICK x \in Rests[t] \cup {"none"}, R \in SUBSET Rests[t] : Becomes(t, x, Rests[t], R)  BY <1>2
<1>t. SessionTypes'  BY <1>i DEF SessionTypes, SessionTurnType, policy, effort, process, ghosts, counters
<1>l. Locks'
    BY <1>i, <1>s, <1>1, <1>2, <1>3, <1>t, NoTask
    DEF SessionTypes, Locks, Becomes, StackLaws, Follow, Laters
<1>h. Handing'
    BY <1>i, <1>s, <1>1, <1>2, <1>3, <1>t
    DEF SessionTypes, Locks, Handing, HandedOver, Becomes, StackLaws, Follow, Laters, Complete, policy,
       process, ghosts
<1>n. Noting'
    BY <1>i, <1>s, <1>1, <1>2, <1>3, <1>t
    DEF SessionTypes, Locks, Noting, Due, Becomes, StackLaws, Follow, Laters, Complete, process, ghosts
<1>p. Spacing'
    BY <1>i, <1>s, <1>1, <1>2, <1>3, <1>t, UrgentIs
    DEF SessionTypes, Spacing, ResetBegins, Becomes, StackLaws, policy, effort, ghosts, counters
<1>w. Waking'
    BY <1>i, <1>s, <1>1, <1>2, <1>3, <1>t
    DEF SessionTypes, Waking, Becomes, StackLaws, Follow, Laters, Complete, policy, effort
<1> QED  BY <1>1, <1>2, <1>3, <1>t, <1>l, <1>h, <1>n, <1>p, <1>w DEF SessionInv

LEMMA LockKeeps ==
  ASSUME SessionAssumption, SessionInv, NEW t \in Tasks, ResetLocks(t)
  PROVE  SessionInv'
<1> USE DEF ResetLocks
<1>i. SessionTypes /\ Stacks /\ Locks /\ Handing /\ Noting /\ Spacing /\ Waking  BY DEF SessionInv
<1>s. StackLaws  BY <1>i, StackFacts
<1>1. Heads[t] = "lock"  BY DEF Heads, Step
<1>2. Stacks' /\ \E x \in Rests[t] \cup {"none"}, R \in SUBSET Rests[t] : Becomes(t, x, Rests[t], R)
    BY <1>1, <1>i, Pops
<1>3. PICK x \in Rests[t] \cup {"none"}, R \in SUBSET Rests[t] : Becomes(t, x, Rests[t], R)  BY <1>2
<1>t. SessionTypes'  BY <1>i DEF SessionTypes, SessionTurnType, policy, effort, process, ghosts, counters
<1>l. Locks'
    BY <1>i, <1>s, <1>1, <1>2, <1>3, <1>t, NoTask
    DEF SessionTypes, Locks, Becomes, StackLaws, Follow, Laters
<1>h. Handing'
    BY <1>i, <1>s, <1>1, <1>2, <1>3, <1>t
    DEF SessionTypes, Locks, Handing, HandedOver, Becomes, StackLaws, Follow, Laters, Complete, policy,
       process, ghosts
<1>n. Noting'
    BY <1>i, <1>s, <1>1, <1>2, <1>3, <1>t
    DEF SessionTypes, Locks, Noting, Due, Becomes, StackLaws, Follow, Laters, Complete, process, ghosts
<1>p. Spacing'
    BY <1>i, <1>s, <1>1, <1>2, <1>3, <1>t, UrgentIs
    DEF SessionTypes, Spacing, ResetBegins, Becomes, StackLaws, policy, effort, ghosts, counters
<1>w. Waking'
    BY <1>i, <1>s, <1>1, <1>2, <1>3, <1>t
    DEF SessionTypes, Waking, Becomes, StackLaws, Follow, Laters, Complete, policy, effort
<1> QED  BY <1>1, <1>2, <1>3, <1>t, <1>l, <1>h, <1>n, <1>p, <1>w DEF SessionInv

LEMMA ReleaseKeeps ==
  ASSUME SessionAssumption, SessionInv, NEW t \in Tasks, ResetReleases(t)
  PROVE  SessionInv'
<1> USE DEF ResetReleases
<1>i. SessionTypes /\ Stacks /\ Locks /\ Handing /\ Noting /\ Spacing /\ Waking  BY DEF SessionInv
<1>s. StackLaws  BY <1>i, StackFacts
<1>1. Heads[t] = "release"  BY DEF Heads, Step
<1>2. Stacks' /\ \E x \in Rests[t] \cup {"none"}, R \in SUBSET Rests[t] : Becomes(t, x, Rests[t], R)
    BY <1>1, <1>i, Pops
<1>3. PICK x \in Rests[t] \cup {"none"}, R \in SUBSET Rests[t] : Becomes(t, x, Rests[t], R)  BY <1>2
<1>4. sessionDrains' \in Nat /\ sessionDrains' > 0  BY <1>i DEF SessionTypes, Redrains
<1>t. SessionTypes'  BY <1>i, <1>4 DEF SessionTypes, SessionTurnType, effort, process, ghosts, counters
<1>l. Locks'
    BY <1>i, <1>s, <1>1, <1>2, <1>3, <1>t, NoTask
    DEF SessionTypes, Locks, Becomes, StackLaws, Follow, Laters
<1>h. Handing'
    BY <1>i, <1>s, <1>1, <1>2, <1>3, <1>t
    DEF SessionTypes, Locks, Handing, HandedOver, Becomes, StackLaws, Follow, Laters, Complete, process,
       ghosts
<1>n. Noting'
    BY <1>i, <1>s, <1>1, <1>2, <1>3, <1>t
    DEF SessionTypes, Locks, Noting, Due, Becomes, StackLaws, Follow, Laters, Complete, process, ghosts
<1>p. Spacing'
    BY <1>i, <1>s, <1>1, <1>2, <1>3, <1>t, UrgentIs
    DEF SessionTypes, Spacing, ResetBegins, Becomes, StackLaws, effort, ghosts, counters
<1>w. Waking'
    BY <1>i, <1>s, <1>1, <1>2, <1>3, <1>t, <1>4
    DEF SessionTypes, Waking, Becomes, StackLaws, Follow, Laters, Complete, effort
<1> QED  BY <1>1, <1>2, <1>3, <1>t, <1>l, <1>h, <1>n, <1>p, <1>w DEF SessionInv

LEMMA KillKeeps ==
  ASSUME SessionAssumption, SessionInv, NEW t \in Tasks, KillProc(t)
  PROVE  SessionInv'
<1> USE DEF KillProc
<1>i. SessionTypes /\ Stacks /\ Locks /\ Handing /\ Noting /\ Spacing /\ Waking  BY DEF SessionInv
<1>s. StackLaws  BY <1>i, StackFacts
<1>1. Heads[t] = "kill"  BY DEF Heads, Step
<1>2. Stacks' /\ \E x \in Rests[t] \cup {"none"}, R \in SUBSET Rests[t] : Becomes(t, x, Rests[t], R)
    BY <1>1, <1>i, Pops
<1>3. PICK x \in Rests[t] \cup {"none"}, R \in SUBSET Rests[t] : Becomes(t, x, Rests[t], R)  BY <1>2
<1>t. SessionTypes'  BY <1>i DEF SessionTypes, SessionTurnType, policy, effort, ghosts, counters
<1>l. Locks'
    BY <1>i, <1>s, <1>1, <1>2, <1>3, <1>t, NoTask
    DEF SessionTypes, Locks, Becomes, StackLaws, Follow, Laters
<1>h. Handing'
    BY <1>i, <1>s, <1>1, <1>2, <1>3, <1>t
    DEF SessionTypes, Locks, Handing, HandedOver, Becomes, StackLaws, Follow, Laters, Complete, policy,
       ghosts
<1>n. Noting'
    BY <1>i, <1>s, <1>1, <1>2, <1>3, <1>t
    DEF SessionTypes, Locks, Noting, Due, Becomes, StackLaws, Follow, Laters, Complete, ghosts
<1>p. Spacing'
    BY <1>i, <1>s, <1>1, <1>2, <1>3, <1>t, UrgentIs
    DEF SessionTypes, Spacing, ResetBegins, Becomes, StackLaws, policy, effort, ghosts, counters
<1>w. Waking'
    BY <1>i, <1>s, <1>1, <1>2, <1>3, <1>t
    DEF SessionTypes, Waking, Becomes, StackLaws, Follow, Laters, Complete, policy, effort
<1> QED  BY <1>1, <1>2, <1>3, <1>t, <1>l, <1>h, <1>n, <1>p, <1>w DEF SessionInv

LEMMA ClearKeeps ==
  ASSUME SessionAssumption, SessionInv, NEW t \in Tasks, ClearSession(t)
  PROVE  SessionInv'
<1> USE DEF ClearSession
<1>i. SessionTypes /\ Stacks /\ Locks /\ Handing /\ Noting /\ Spacing /\ Waking  BY DEF SessionInv
<1>s. StackLaws  BY <1>i, StackFacts
<1>1. Heads[t] = "clear"  BY DEF Heads, Step
<1>2. Stacks' /\ \E x \in Rests[t] \cup {"none"}, R \in SUBSET Rests[t] : Becomes(t, x, Rests[t], R)
    BY <1>1, <1>i, Pops
<1>3. PICK x \in Rests[t] \cup {"none"}, R \in SUBSET Rests[t] : Becomes(t, x, Rests[t], R)  BY <1>2
<1>4. sess' = sess + 1 /\ sess' \in Nat  BY <1>i DEF SessionTypes
<1>5. sess' \notin handed /\ handed \subseteq 0 .. sess' /\ turn.sess <= sess'
  <2>1. sess \in Nat /\ handed \subseteq 0 .. sess /\ turn.sess <= sess /\ turn.sess \in Nat
      BY <1>i DEF SessionTypes, Handing, SessionTurnType
  <2> QED  BY <1>4, <2>1
<1>t. SessionTypes'  BY <1>i, <1>4 DEF SessionTypes, SessionTurnType, policy, effort, ghosts, counters
<1>l. Locks'
    BY <1>i, <1>s, <1>1, <1>2, <1>3, <1>t, NoTask
    DEF SessionTypes, Locks, Becomes, StackLaws, Follow, Laters
<1>h. Handing'
    BY <1>i, <1>s, <1>1, <1>2, <1>3, <1>t, <1>4, <1>5
    DEF SessionTypes, Locks, Handing, HandedOver, Becomes, StackLaws, Follow, Laters, Complete, policy,
       ghosts
<1>n. Noting'
    BY <1>i, <1>s, <1>1, <1>2, <1>3, <1>t, <1>4
    DEF SessionTypes, Locks, Noting, Due, Becomes, StackLaws, Follow, Laters, Complete, ghosts
<1>p. Spacing'
    BY <1>i, <1>s, <1>1, <1>2, <1>3, <1>t, UrgentIs
    DEF SessionTypes, Spacing, ResetBegins, Becomes, StackLaws, policy, effort, ghosts, counters
<1>w. Waking'
    BY <1>i, <1>s, <1>1, <1>2, <1>3, <1>t
    DEF SessionTypes, Waking, Becomes, StackLaws, Follow, Laters, Complete, policy, effort
<1> QED  BY <1>1, <1>2, <1>3, <1>t, <1>l, <1>h, <1>n, <1>p, <1>w DEF SessionInv

LEMMA SpawnKeeps ==
  ASSUME SessionAssumption, SessionInv, NEW t \in Tasks, StartProc(t)
  PROVE  SessionInv'
<1> USE DEF StartProc
<1>i. SessionTypes /\ Stacks /\ Locks /\ Handing /\ Noting /\ Spacing /\ Waking  BY DEF SessionInv
<1>s. StackLaws  BY <1>i, StackFacts
<1>1. Heads[t] = "start"  BY DEF Heads, Step
<1>2. Stacks' /\ \E x \in Rests[t] \cup {"none"}, R \in SUBSET Rests[t] : Becomes(t, x, Rests[t], R)
    BY <1>1, <1>i, Pops
<1>3. PICK x \in Rests[t] \cup {"none"}, R \in SUBSET Rests[t] : Becomes(t, x, Rests[t], R)  BY <1>2
<1>t. SessionTypes'  BY <1>i DEF SessionTypes, SessionTurnType, policy, effort, counters, SpawnProc, Due
<1>l. Locks'
    BY <1>i, <1>s, <1>1, <1>2, <1>3, <1>t, NoTask
    DEF SessionTypes, Locks, Becomes, StackLaws, Follow, Laters, SpawnProc, Due
<1>h. Handing'
    BY <1>i, <1>s, <1>1, <1>2, <1>3, <1>t
    DEF SessionTypes, Locks, Handing, HandedOver, Becomes, StackLaws, Follow, Laters, Complete, policy,
       SpawnProc, Due
<1>n. Noting'
    BY <1>i, <1>s, <1>1, <1>2, <1>3, <1>t
    DEF SessionTypes, Locks, Noting, Due, Becomes, StackLaws, Follow, Laters, Complete, SpawnProc, Due
<1>p. Spacing'
    BY <1>i, <1>s, <1>1, <1>2, <1>3, <1>t, UrgentIs
    DEF SessionTypes, Spacing, ResetBegins, Becomes, StackLaws, policy, effort, counters, SpawnProc, Due
<1>w. Waking'
    BY <1>i, <1>s, <1>1, <1>2, <1>3, <1>t
    DEF SessionTypes, Waking, Becomes, StackLaws, Follow, Laters, Complete, policy, effort, SpawnProc, Due
<1> QED  BY <1>1, <1>2, <1>3, <1>t, <1>l, <1>h, <1>n, <1>p, <1>w DEF SessionInv

LEMMA PersonKeeps ==
  ASSUME SessionAssumption, SessionInv, PersonWrites
  PROVE  SessionInv'
<1> USE DEF PersonWrites
<1>i. SessionTypes /\ Stacks /\ Locks /\ Handing /\ Noting /\ Spacing /\ Waking  BY DEF SessionInv
<1>s. StackLaws  BY <1>i, StackFacts
<1>1. Stacks' /\ Heads' = Heads /\ Alls' = Alls /\ Rests' = Rests  BY <1>i, Stays
<1>t. SessionTypes'  BY <1>i DEF SessionTypes, SessionTurnType, policy, effort, process, ghosts
<1>l. Locks'  BY <1>i, <1>s, <1>1, <1>t, NoTask DEF SessionTypes, Locks, Becomes, StackLaws, Follow, Laters
<1>h. Handing'
    BY <1>i, <1>s, <1>1, <1>t
    DEF SessionTypes, Locks, Handing, HandedOver, Becomes, StackLaws, Follow, Laters, Complete, policy,
       process, ghosts
<1>n. Noting'
    BY <1>i, <1>s, <1>1, <1>t
    DEF SessionTypes, Locks, Noting, Due, Becomes, StackLaws, Follow, Laters, Complete, process, ghosts
<1>p. Spacing'
    BY <1>i, <1>s, <1>1, <1>t, UrgentIs
    DEF SessionTypes, Spacing, ResetBegins, Becomes, StackLaws, policy, effort, ghosts
<1>w. Waking'
    BY <1>i, <1>s, <1>1, <1>t
    DEF SessionTypes, Waking, Becomes, StackLaws, Follow, Laters, Complete, policy, effort
<1> QED  BY <1>1, <1>t, <1>l, <1>h, <1>n, <1>p, <1>w DEF SessionInv

LEMMA FinalizeKeeps ==
  ASSUME SessionAssumption, SessionInv, Finalize
  PROVE  SessionInv'
<1> USE DEF Finalize
<1>i. SessionTypes /\ Stacks /\ Locks /\ Handing /\ Noting /\ Spacing /\ Waking  BY DEF SessionInv
<1>s. StackLaws  BY <1>i, StackFacts
<1>1. Stacks' /\ Heads' = Heads /\ Alls' = Alls /\ Rests' = Rests  BY <1>i, Stays
<1>t. SessionTypes'  BY <1>i DEF SessionTypes, SessionTurnType, effort, process, ghosts
<1>l. Locks'  BY <1>i, <1>s, <1>1, <1>t, NoTask DEF SessionTypes, Locks, Becomes, StackLaws, Follow, Laters
<1>h. Handing'
    BY <1>i, <1>s, <1>1, <1>t
    DEF SessionTypes, Locks, Handing, HandedOver, Becomes, StackLaws, Follow, Laters, Complete, process,
       ghosts
<1>n. Noting'
    BY <1>i, <1>s, <1>1, <1>t
    DEF SessionTypes, Locks, Noting, Due, Becomes, StackLaws, Follow, Laters, Complete, process, ghosts
<1>p. Spacing'
    BY <1>i, <1>s, <1>1, <1>t, UrgentIs
    DEF SessionTypes, Spacing, ResetBegins, Becomes, StackLaws, effort, ghosts
<1>w. Waking'
    BY <1>i, <1>s, <1>1, <1>t DEF SessionTypes, Waking, Becomes, StackLaws, Follow, Laters, Complete, effort
<1> QED  BY <1>1, <1>t, <1>l, <1>h, <1>n, <1>p, <1>w DEF SessionInv

LEMMA NoteKeeps ==
  ASSUME SessionAssumption, SessionInv, WriteNote
  PROVE  SessionInv'
<1> USE DEF WriteNote
<1>i. SessionTypes /\ Stacks /\ Locks /\ Handing /\ Noting /\ Spacing /\ Waking  BY DEF SessionInv
<1>s. StackLaws  BY <1>i, StackFacts
<1>1. Stacks' /\ Heads' = Heads /\ Alls' = Alls /\ Rests' = Rests  BY <1>i, Stays
<1>t. SessionTypes'  BY <1>i DEF SessionTypes, SessionTurnType, policy, effort, counters
<1>l. Locks'  BY <1>i, <1>s, <1>1, <1>t, NoTask DEF SessionTypes, Locks, Becomes, StackLaws, Follow, Laters
<1>h. Handing'
    BY <1>i, <1>s, <1>1, <1>t
    DEF SessionTypes, Locks, Handing, HandedOver, Becomes, StackLaws, Follow, Laters, Complete, policy
<1>n. Noting'
    BY <1>i, <1>s, <1>1, <1>t
    DEF SessionTypes, Locks, Noting, Due, Becomes, StackLaws, Follow, Laters, Complete
<1>p. Spacing'
    BY <1>i, <1>s, <1>1, <1>t, UrgentIs
    DEF SessionTypes, Spacing, ResetBegins, Becomes, StackLaws, policy, effort, counters
<1>w. Waking'
    BY <1>i, <1>s, <1>1, <1>t
    DEF SessionTypes, Waking, Becomes, StackLaws, Follow, Laters, Complete, policy, effort
<1> QED  BY <1>1, <1>t, <1>l, <1>h, <1>n, <1>p, <1>w DEF SessionInv

LEMMA IntervalKeeps ==
  ASSUME SessionAssumption, SessionInv, IntervalPasses
  PROVE  SessionInv'
<1> USE DEF IntervalPasses
<1>i. SessionTypes /\ Stacks /\ Locks /\ Handing /\ Noting /\ Spacing /\ Waking  BY DEF SessionInv
<1>s. StackLaws  BY <1>i, StackFacts
<1>1. Stacks' /\ Heads' = Heads /\ Alls' = Alls /\ Rests' = Rests  BY <1>i, Stays
<1>t. SessionTypes'  BY <1>i DEF SessionTypes, SessionTurnType, effort, process, ghosts, counters
<1>l. Locks'  BY <1>i, <1>s, <1>1, <1>t, NoTask DEF SessionTypes, Locks, Becomes, StackLaws, Follow, Laters
<1>h. Handing'
    BY <1>i, <1>s, <1>1, <1>t
    DEF SessionTypes, Locks, Handing, HandedOver, Becomes, StackLaws, Follow, Laters, Complete, process,
       ghosts
<1>n. Noting'
    BY <1>i, <1>s, <1>1, <1>t
    DEF SessionTypes, Locks, Noting, Due, Becomes, StackLaws, Follow, Laters, Complete, process, ghosts
<1>p. Spacing'
    BY <1>i, <1>s, <1>1, <1>t, UrgentIs
    DEF SessionTypes, Spacing, ResetBegins, Becomes, StackLaws, effort, ghosts, counters
<1>w. Waking'
    BY <1>i, <1>s, <1>1, <1>t DEF SessionTypes, Waking, Becomes, StackLaws, Follow, Laters, Complete, effort
<1> QED  BY <1>1, <1>t, <1>l, <1>h, <1>n, <1>p, <1>w DEF SessionInv

LEMMA DeathKeeps ==
  ASSUME SessionAssumption, SessionInv, ProcDies
  PROVE  SessionInv'
<1> USE DEF ProcDies
<1>i. SessionTypes /\ Stacks /\ Locks /\ Handing /\ Noting /\ Spacing /\ Waking  BY DEF SessionInv
<1>s. StackLaws  BY <1>i, StackFacts
<1>1. Stacks' /\ Heads' = Heads /\ Alls' = Alls /\ Rests' = Rests  BY <1>i, Stays
<1>t. SessionTypes'  BY <1>i DEF SessionTypes, SessionTurnType, policy, effort, ghosts
<1>l. Locks'  BY <1>i, <1>s, <1>1, <1>t, NoTask DEF SessionTypes, Locks, Becomes, StackLaws, Follow, Laters
<1>h. Handing'
    BY <1>i, <1>s, <1>1, <1>t
    DEF SessionTypes, Locks, Handing, HandedOver, Becomes, StackLaws, Follow, Laters, Complete, policy,
       ghosts
<1>n. Noting'
    BY <1>i, <1>s, <1>1, <1>t
    DEF SessionTypes, Locks, Noting, Due, Becomes, StackLaws, Follow, Laters, Complete, ghosts
<1>p. Spacing'
    BY <1>i, <1>s, <1>1, <1>t, UrgentIs
    DEF SessionTypes, Spacing, ResetBegins, Becomes, StackLaws, policy, effort, ghosts
<1>w. Waking'
    BY <1>i, <1>s, <1>1, <1>t
    DEF SessionTypes, Waking, Becomes, StackLaws, Follow, Laters, Complete, policy, effort
<1> QED  BY <1>1, <1>t, <1>l, <1>h, <1>n, <1>p, <1>w DEF SessionInv

LEMMA RespawnKeeps ==
  ASSUME SessionAssumption, SessionInv, SessionRespawn
  PROVE  SessionInv'
<1> USE DEF SessionRespawn
<1>i. SessionTypes /\ Stacks /\ Locks /\ Handing /\ Noting /\ Spacing /\ Waking  BY DEF SessionInv
<1>s. StackLaws  BY <1>i, StackFacts
<1>1. Stacks' /\ Heads' = Heads /\ Alls' = Alls /\ Rests' = Rests  BY <1>i, Stays
<1>t. SessionTypes'  BY <1>i DEF SessionTypes, SessionTurnType, policy, effort, counters, SpawnProc, Due
<1>l. Locks'
    BY <1>i, <1>s, <1>1, <1>t, NoTask
    DEF SessionTypes, Locks, Becomes, StackLaws, Follow, Laters, SpawnProc, Due
<1>h. Handing'
    BY <1>i, <1>s, <1>1, <1>t
    DEF SessionTypes, Locks, Handing, HandedOver, Becomes, StackLaws, Follow, Laters, Complete, policy,
       SpawnProc, Due
<1>n. Noting'
    BY <1>i, <1>s, <1>1, <1>t
    DEF SessionTypes, Locks, Noting, Due, Becomes, StackLaws, Follow, Laters, Complete, SpawnProc, Due
<1>p. Spacing'
    BY <1>i, <1>s, <1>1, <1>t, UrgentIs
    DEF SessionTypes, Spacing, ResetBegins, Becomes, StackLaws, policy, effort, counters, SpawnProc, Due
<1>w. Waking'
    BY <1>i, <1>s, <1>1, <1>t
    DEF SessionTypes, Waking, Becomes, StackLaws, Follow, Laters, Complete, policy, effort, SpawnProc, Due
<1> QED  BY <1>1, <1>t, <1>l, <1>h, <1>n, <1>p, <1>w DEF SessionInv

LEMMA InsertKeeps ==
  ASSUME SessionAssumption, SessionInv, NEW t \in Tasks, InsertHandoff(t)
  PROVE  SessionInv'
<1> USE DEF InsertHandoff
<1>i. SessionTypes /\ Stacks /\ Locks /\ Handing /\ Noting /\ Spacing /\ Waking  BY DEF SessionInv
<1>s. StackLaws  BY <1>i, StackFacts
<1>1. Heads[t] = "insert" /\ Heads[t] \in Finals  BY DEF Heads, Step, Finals, Laters
<1>2. "wait" \in StepNames \ {"clear", "lock", "undefer"}  BY DEF StepNames, Finals, Laters
<1>3. Stacks' /\ Becomes(t, "wait", {"wait"} \cup Rests[t], Rests[t])  BY <1>i, <1>1, <1>2, AwaitsOne
<1>t. SessionTypes'  BY <1>i DEF SessionTypes, SessionTurnType, policy, effort, process, ghosts, counters
<1>l. Locks'
    BY <1>i, <1>s, <1>1, <1>3, <1>t, NoTask DEF SessionTypes, Locks, Becomes, StackLaws, Follow, Laters
<1>h. Handing'
    BY <1>i, <1>s, <1>1, <1>3, <1>t
    DEF SessionTypes, Locks, Handing, HandedOver, Becomes, StackLaws, Follow, Laters, Complete, policy,
       process, ghosts
<1>n. Noting'
    BY <1>i, <1>s, <1>1, <1>3, <1>t
    DEF SessionTypes, Locks, Noting, Due, Becomes, StackLaws, Follow, Laters, Complete, process, ghosts
<1>p. Spacing'
    BY <1>i, <1>s, <1>1, <1>3, <1>t, UrgentIs
    DEF SessionTypes, Spacing, ResetBegins, Becomes, StackLaws, policy, effort, ghosts, counters
<1>4. \A u \in Tasks : u # t => Heads'[u] = Heads[u] /\ Alls'[u] = Alls[u]
    BY <1>3, <1>s DEF Becomes, StackLaws
<1>5. Heads'[t] = "wait" /\ Alls'[t] = {"wait"} \cup Rests[t] /\ Alls[t] = {"insert"} \cup Rests[t]
    BY <1>1, <1>3, <1>s DEF Becomes, StackLaws, Finals, Laters
<1>w. Waking'
  <2>1. effortRespawning' => \E u \in Tasks : "undefer" \in Alls'[u]  BY <1>i, <1>4, <1>5 DEF Waking, effort
  <2>2. \A u \in Tasks : hrow'[u] = "queued" => Heads'[u] = "wait"
      BY <1>i, <1>4, <1>5 DEF Waking, SessionTypes
  <2>3. resetting' => \/ \E u \in Tasks : "release" \in Alls'[u]
                      \/ inflight' /\ \E u \in Tasks : "do" \in Alls'[u]
      BY <1>i, <1>4, <1>5 DEF Waking, policy
  <2>4. inflight' => \E u \in Tasks : Alls'[u] \cap {"insert", "wait", "do"} # {}  BY <1>5
  <2>5. rows' > 0 => \/ sessionDrains' > 0 \/ turn'.kind # "none" \/ resetting'
                     \/ \E u \in Tasks : Heads'[u] = "claim" \/ "drain" \in Alls'[u]
      BY <1>i, <1>1, <1>4, <1>5 DEF Waking, SessionTypes, policy
  <2> QED  BY <2>1, <2>2, <2>3, <2>4, <2>5 DEF Waking
<1> QED  BY <1>1, <1>3, <1>t, <1>l, <1>h, <1>n, <1>p, <1>w DEF SessionInv

LEMMA WaitOverKeeps ==
  ASSUME SessionAssumption, SessionInv, NEW t \in Tasks, WaitOver(t)
  PROVE  SessionInv'
<1> USE DEF WaitOver
<1>i. SessionTypes /\ Stacks /\ Locks /\ Handing /\ Noting /\ Spacing /\ Waking  BY DEF SessionInv
<1>s. StackLaws  BY <1>i, StackFacts
<1>1. Heads[t] = "wait" /\ Heads[t] \in Finals  BY DEF Heads, Step, Finals, Laters
<1>2. "do" \in StepNames \ {"clear", "lock", "undefer"}  BY DEF StepNames, Finals, Laters
<1>3. Stacks' /\ Becomes(t, "do", {"do"} \cup Rests[t], Rests[t])  BY <1>i, <1>1, <1>2, AwaitsOne
<1>t. SessionTypes'  BY <1>i DEF SessionTypes, SessionTurnType, policy, effort, process, ghosts, counters
<1>l. Locks'
    BY <1>i, <1>s, <1>1, <1>3, <1>t, NoTask DEF SessionTypes, Locks, Becomes, StackLaws, Follow, Laters
<1>h. Handing'
    BY <1>i, <1>s, <1>1, <1>3, <1>t
    DEF SessionTypes, Locks, Handing, HandedOver, Becomes, StackLaws, Follow, Laters, Complete, policy,
       process, ghosts
<1>n. Noting'
    BY <1>i, <1>s, <1>1, <1>3, <1>t
    DEF SessionTypes, Locks, Noting, Due, Becomes, StackLaws, Follow, Laters, Complete, process, ghosts
<1>p. Spacing'
    BY <1>i, <1>s, <1>1, <1>3, <1>t, UrgentIs
    DEF SessionTypes, Spacing, ResetBegins, Becomes, StackLaws, policy, effort, ghosts, counters
<1>4. \A u \in Tasks : u # t => Heads'[u] = Heads[u] /\ Alls'[u] = Alls[u]
    BY <1>3, <1>s DEF Becomes, StackLaws
<1>5. Heads'[t] = "do" /\ Alls'[t] = {"do"} \cup Rests[t] /\ Alls[t] = {"wait"} \cup Rests[t]
    BY <1>1, <1>3, <1>s DEF Becomes, StackLaws, Finals, Laters
<1>w. Waking'
  <2>1. effortRespawning' => \E u \in Tasks : "undefer" \in Alls'[u]  BY <1>i, <1>4, <1>5 DEF Waking, effort
  <2>2. \A u \in Tasks : hrow'[u] = "queued" => Heads'[u] = "wait"
      BY <1>i, <1>4, <1>5 DEF Waking, SessionTypes
  <2>3. resetting' => \/ \E u \in Tasks : "release" \in Alls'[u]
                      \/ inflight' /\ \E u \in Tasks : "do" \in Alls'[u]
      BY <1>i, <1>4, <1>5 DEF Waking, policy
  <2>4. inflight' => \E u \in Tasks : Alls'[u] \cap {"insert", "wait", "do"} # {}  BY <1>5
  <2>5. rows' > 0 => \/ sessionDrains' > 0 \/ turn'.kind # "none" \/ resetting'
                     \/ \E u \in Tasks : Heads'[u] = "claim" \/ "drain" \in Alls'[u]
      BY <1>i, <1>1, <1>4, <1>5 DEF Waking, SessionTypes, policy
  <2> QED  BY <2>1, <2>2, <2>3, <2>4, <2>5 DEF Waking
<1> QED  BY <1>1, <1>3, <1>t, <1>l, <1>h, <1>n, <1>p, <1>w DEF SessionInv

LEMMA WaitSkipsKeeps ==
  ASSUME SessionAssumption, SessionInv, NEW t \in Tasks, WaitSkips(t)
  PROVE  SessionInv'
<1> USE DEF WaitSkips
<1>i. SessionTypes /\ Stacks /\ Locks /\ Handing /\ Noting /\ Spacing /\ Waking  BY DEF SessionInv
<1>s. StackLaws  BY <1>i, StackFacts
<1>1. Heads[t] = "wait" /\ Heads[t] \in Finals  BY DEF Heads, Step, Finals, Laters
<1>2. "do" \in StepNames \ {"clear", "lock", "undefer"}  BY DEF StepNames, Finals, Laters
<1>3. Stacks' /\ Becomes(t, "do", {"do"} \cup Rests[t], Rests[t])  BY <1>i, <1>1, <1>2, AwaitsOne
<1>t. SessionTypes'  BY <1>i DEF SessionTypes, SessionTurnType, policy, effort, process, ghosts, counters
<1>l. Locks'
    BY <1>i, <1>s, <1>1, <1>3, <1>t, NoTask DEF SessionTypes, Locks, Becomes, StackLaws, Follow, Laters
<1>h. Handing'
    BY <1>i, <1>s, <1>1, <1>3, <1>t
    DEF SessionTypes, Locks, Handing, HandedOver, Becomes, StackLaws, Follow, Laters, Complete, policy,
       process, ghosts
<1>n. Noting'
    BY <1>i, <1>s, <1>1, <1>3, <1>t
    DEF SessionTypes, Locks, Noting, Due, Becomes, StackLaws, Follow, Laters, Complete, process, ghosts
<1>p. Spacing'
    BY <1>i, <1>s, <1>1, <1>3, <1>t, UrgentIs
    DEF SessionTypes, Spacing, ResetBegins, Becomes, StackLaws, policy, effort, ghosts, counters
<1>4. \A u \in Tasks : u # t => Heads'[u] = Heads[u] /\ Alls'[u] = Alls[u]
    BY <1>3, <1>s DEF Becomes, StackLaws
<1>5. Heads'[t] = "do" /\ Alls'[t] = {"do"} \cup Rests[t] /\ Alls[t] = {"wait"} \cup Rests[t]
    BY <1>1, <1>3, <1>s DEF Becomes, StackLaws, Finals, Laters
<1>w. Waking'
  <2>1. effortRespawning' => \E u \in Tasks : "undefer" \in Alls'[u]  BY <1>i, <1>4, <1>5 DEF Waking, effort
  <2>2. \A u \in Tasks : hrow'[u] = "queued" => Heads'[u] = "wait"
      BY <1>i, <1>4, <1>5 DEF Waking, SessionTypes
  <2>3. resetting' => \/ \E u \in Tasks : "release" \in Alls'[u]
                      \/ inflight' /\ \E u \in Tasks : "do" \in Alls'[u]
      BY <1>i, <1>4, <1>5 DEF Waking, policy
  <2>4. inflight' => \E u \in Tasks : Alls'[u] \cap {"insert", "wait", "do"} # {}  BY <1>5
  <2>5. rows' > 0 => \/ sessionDrains' > 0 \/ turn'.kind # "none" \/ resetting'
                     \/ \E u \in Tasks : Heads'[u] = "claim" \/ "drain" \in Alls'[u]
      BY <1>i, <1>1, <1>4, <1>5 DEF Waking, SessionTypes, policy
  <2> QED  BY <2>1, <2>2, <2>3, <2>4, <2>5 DEF Waking
<1> QED  BY <1>1, <1>3, <1>t, <1>l, <1>h, <1>n, <1>p, <1>w DEF SessionInv

LEMMA EffortKeeps ==
  ASSUME SessionAssumption, SessionInv, EffortChange
  PROVE  SessionInv'
<1> USE DEF EffortChange
<1>i. SessionTypes /\ Stacks /\ Locks /\ Handing /\ Noting /\ Spacing /\ Waking  BY DEF SessionInv
<1>s. StackLaws  BY <1>i, StackFacts
<1>e. efforts' = efforts + 1 /\ efforts' \in Nat /\ operator' = operator /\ efforts' + operator' # 0
    BY <1>i DEF SessionTypes
<1>1. CASE turn.kind # "none"
  <2>1. Stacks' /\ Heads' = Heads /\ Alls' = Alls /\ Rests' = Rests  BY <1>1, <1>i, Stays
  <2>t. SessionTypes'  BY <1>i, <1>1, <1>e DEF SessionTypes, SessionTurnType, policy, process, ghosts
  <2>l. Locks'
      BY <1>i, <1>s, <1>1, <1>e, <2>1, <2>t, NoTask
      DEF SessionTypes, Locks, Becomes, StackLaws, Follow, Laters
  <2>h. Handing'
      BY <1>i, <1>s, <1>1, <1>e, <2>1, <2>t
      DEF SessionTypes, Locks, Handing, HandedOver, Becomes, StackLaws, Follow, Laters, Complete, policy,
         process, ghosts
  <2>n. Noting'
      BY <1>i, <1>s, <1>1, <1>e, <2>1, <2>t
      DEF SessionTypes, Locks, Noting, Due, Becomes, StackLaws, Follow, Laters, Complete, process, ghosts
  <2>p. Spacing'
      BY <1>i, <1>s, <1>1, <1>e, <2>1, <2>t, UrgentIs
      DEF SessionTypes, Spacing, ResetBegins, Becomes, StackLaws, policy, ghosts
  <2>w. Waking'
      BY <1>i, <1>s, <1>1, <1>e, <2>1, <2>t
      DEF SessionTypes, Waking, Becomes, StackLaws, Follow, Laters, Complete, policy
  <2> QED  BY <1>1, <1>e, <2>1, <2>t, <2>l, <2>h, <2>n, <2>p, <2>w DEF SessionInv
<1>2. CASE turn.kind = "none"
  <2>0. /\ ReloadSteps \in Seq(StepNames) /\ ReloadSteps # <<>> /\ StackOk(ReloadSteps)
        /\ Head(ReloadSteps) = "kill" /\ AllOf(ReloadSteps) = {"kill", "start"} /\
                  RestOf(ReloadSteps) = {"start"}
      BY Lists DEF ReloadSteps
  <2>1. Stacks' /\ Slot \in Tasks /\ Heads[Slot] = "none" /\
            Becomes(Slot, "kill", {"kill", "start"}, {"start"})
    <3>1. Stacks' /\ Slot \in Tasks /\ Heads[Slot] = "none" /\
              Becomes(Slot, Head(ReloadSteps), AllOf(ReloadSteps), RestOf(ReloadSteps))
        BY <1>i, <1>2, <2>0, Spawns
    <3> QED  BY <2>0, <3>1
  <2>2. PICK s \in Tasks : s = Slot  BY <2>1
  <2>3. Heads[s] = "none" /\ Becomes(s, "kill", {"kill", "start"}, {"start"})  BY <2>1, <2>2
  <2>t. SessionTypes'  BY <1>i, <1>2, <1>e DEF SessionTypes, SessionTurnType, policy, process, ghosts
  <2>l. Locks'
      BY <1>i, <1>s, <1>2, <1>e, <2>1, <2>3, <2>t, NoTask
      DEF SessionTypes, Locks, Becomes, StackLaws, Follow, Laters
  <2>h. Handing'
      BY <1>i, <1>s, <1>2, <1>e, <2>1, <2>3, <2>t
      DEF SessionTypes, Locks, Handing, HandedOver, Becomes, StackLaws, Follow, Laters, Complete, policy,
         process, ghosts
  <2>n. Noting'
      BY <1>i, <1>s, <1>2, <1>e, <2>1, <2>3, <2>t
      DEF SessionTypes, Locks, Noting, Due, Becomes, StackLaws, Follow, Laters, Complete, process, ghosts
  <2>p. Spacing'
      BY <1>i, <1>s, <1>2, <1>e, <2>1, <2>3, <2>t, UrgentIs
      DEF SessionTypes, Spacing, ResetBegins, Becomes, StackLaws, policy, ghosts
  <2>w. Waking'
      BY <1>i, <1>s, <1>2, <1>e, <2>1, <2>3, <2>t
      DEF SessionTypes, Waking, Becomes, StackLaws, Follow, Laters, Complete, policy
  <2> QED  BY <1>2, <1>e, <2>1, <2>3, <2>t, <2>l, <2>h, <2>n, <2>p, <2>w DEF SessionInv
<1> QED  BY <1>1, <1>2

LEMMA OperatorKeeps ==
  ASSUME SessionAssumption, SessionInv, OperatorReset
  PROVE  SessionInv'
<1> USE DEF OperatorReset
<1>i. SessionTypes /\ Stacks /\ Locks /\ Handing /\ Noting /\ Spacing /\ Waking  BY DEF SessionInv
<1>s. StackLaws  BY <1>i, StackFacts
<1>e. /\ MaxOperator # 0 /\ operator' = operator + 1 /\ operator' \in Nat
      /\ efforts' = efforts /\ efforts' + operator' # 0
    BY <1>i DEF SessionTypes, SessionAssumption, counters
<1>1. CASE task' = Spawned(task, <<"begin">>)
  <2>0. "begin" \in StepNames \ {"clear", "lock", "undefer"}  BY DEF StepNames, Finals, Laters
  <2>1. Stacks' /\ Slot \in Tasks /\ Heads[Slot] = "none" /\ Becomes(Slot, "begin", {"begin"}, {})
      BY <1>i, <1>1, <2>0, SpawnsOne
  <2>2. PICK s \in Tasks : s = Slot  BY <2>1
  <2>3. Heads[s] = "none" /\ Becomes(s, "begin", {"begin"}, {})  BY <2>1, <2>2
  <2>t. SessionTypes'
      BY <1>i, <1>1, <1>e DEF SessionTypes, SessionTurnType, policy, effort, process, ghosts
  <2>l. Locks'
      BY <1>i, <1>s, <1>1, <1>e, <2>1, <2>3, <2>t, NoTask
      DEF SessionTypes, Locks, Becomes, StackLaws, Follow, Laters
  <2>h. Handing'
      BY <1>i, <1>s, <1>1, <1>e, <2>1, <2>3, <2>t
      DEF SessionTypes, Locks, Handing, HandedOver, Becomes, StackLaws, Follow, Laters, Complete, policy,
         process, ghosts
  <2>n. Noting'
      BY <1>i, <1>s, <1>1, <1>e, <2>1, <2>3, <2>t
      DEF SessionTypes, Locks, Noting, Due, Becomes, StackLaws, Follow, Laters, Complete, process, ghosts
  <2>p. Spacing'
      BY <1>i, <1>s, <1>1, <1>e, <2>1, <2>3, <2>t, UrgentIs
      DEF SessionTypes, Spacing, ResetBegins, Becomes, StackLaws, policy, effort, ghosts
  <2>w. Waking'
      BY <1>i, <1>s, <1>1, <1>e, <2>1, <2>3, <2>t
      DEF SessionTypes, Waking, Becomes, StackLaws, Follow, Laters, Complete, policy, effort
  <2> QED  BY <1>1, <1>e, <2>1, <2>3, <2>t, <2>l, <2>h, <2>n, <2>p, <2>w DEF SessionInv
<1>2. CASE task' = Spawned(task, RestartSteps)
  <2>0. /\ RestartSteps \in Seq(StepNames) /\ RestartSteps # <<>> /\ StackOk(RestartSteps)
        /\ Head(RestartSteps) = "kill" /\ AllOf(RestartSteps) = {"kill", "clear", "start"} /\
                  RestOf(RestartSteps) = {"clear", "start"}
      BY <1>e, MoreLists
  <2>1. Stacks' /\ Slot \in Tasks /\ Heads[Slot] = "none" /\
            Becomes(Slot, "kill", {"kill", "clear", "start"}, {"clear", "start"})
    <3>1. Stacks' /\ Slot \in Tasks /\ Heads[Slot] = "none" /\
              Becomes(Slot, Head(RestartSteps), AllOf(RestartSteps), RestOf(RestartSteps))
        BY <1>i, <1>2, <2>0, Spawns
    <3> QED  BY <2>0, <3>1
  <2>2. PICK s \in Tasks : s = Slot  BY <2>1
  <2>3. Heads[s] = "none" /\ Becomes(s, "kill", {"kill", "clear", "start"}, {"clear", "start"})
      BY <2>1, <2>2
  <2>t. SessionTypes'
      BY <1>i, <1>2, <1>e DEF SessionTypes, SessionTurnType, policy, effort, process, ghosts
  <2>l. Locks'
      BY <1>i, <1>s, <1>2, <1>e, <2>1, <2>3, <2>t, NoTask
      DEF SessionTypes, Locks, Becomes, StackLaws, Follow, Laters
  <2>h. Handing'
      BY <1>i, <1>s, <1>2, <1>e, <2>1, <2>3, <2>t
      DEF SessionTypes, Locks, Handing, HandedOver, Becomes, StackLaws, Follow, Laters, Complete, policy,
         process, ghosts
  <2>n. Noting'
      BY <1>i, <1>s, <1>2, <1>e, <2>1, <2>3, <2>t
      DEF SessionTypes, Locks, Noting, Due, Becomes, StackLaws, Follow, Laters, Complete, process, ghosts
  <2>p. Spacing'
      BY <1>i, <1>s, <1>2, <1>e, <2>1, <2>3, <2>t, UrgentIs
      DEF SessionTypes, Spacing, ResetBegins, Becomes, StackLaws, policy, effort, ghosts
  <2>w. Waking'
      BY <1>i, <1>s, <1>2, <1>e, <2>1, <2>3, <2>t
      DEF SessionTypes, Waking, Becomes, StackLaws, Follow, Laters, Complete, policy, effort
  <2> QED  BY <1>2, <1>e, <2>1, <2>3, <2>t, <2>l, <2>h, <2>n, <2>p, <2>w DEF SessionInv
<1> QED  BY <1>1, <1>2

LEMMA DrainKeeps ==
  ASSUME SessionAssumption, SessionInv, DrainRuns
  PROVE  SessionInv'
<1> USE DEF DrainRuns
<1>i. SessionTypes /\ Stacks /\ Locks /\ Handing /\ Noting /\ Spacing /\ Waking  BY DEF SessionInv
<1>s. StackLaws  BY <1>i, StackFacts
<1>e. sessionDrains' \in Nat  BY <1>i DEF SessionTypes
<1>q. ~Queued => rows <= 0  BY <1>i DEF Queued, SessionTypes
<1>1. CASE Held \/ ~Queued
  <2>1. Stacks' /\ Heads' = Heads /\ Alls' = Alls /\ Rests' = Rests  BY <1>1, <1>i, Stays
  <2>t. SessionTypes'
      BY <1>i, <1>1, <1>e DEF SessionTypes, SessionTurnType, policy, effort, process, ghosts, counters, Held
  <2>l. Locks'
      BY <1>i, <1>s, <1>1, <2>1, <1>q, <2>t, NoTask
      DEF SessionTypes, Locks, Becomes, StackLaws, Follow, Laters, Held
  <2>h. Handing'
      BY <1>i, <1>s, <1>1, <2>1, <1>q, <2>t
      DEF SessionTypes, Locks, Handing, HandedOver, Becomes, StackLaws, Follow, Laters, Complete, policy,
         process, ghosts, Held
  <2>n. Noting'
      BY <1>i, <1>s, <1>1, <2>1, <1>q, <2>t
      DEF SessionTypes, Locks, Noting, Due, Becomes, StackLaws, Follow, Laters, Complete, process, ghosts,
         Held
  <2>p. Spacing'
      BY <1>i, <1>s, <1>1, <2>1, <1>q, <2>t, UrgentIs
      DEF SessionTypes, Spacing, ResetBegins, Becomes, StackLaws, policy, effort, ghosts, counters, Held
  <2>w. Waking'
      BY <1>i, <1>s, <1>1, <2>1, <1>q, <2>t
      DEF SessionTypes, Waking, Becomes, StackLaws, Follow, Laters, Complete, policy, effort, Held
  <2> QED  BY <1>1, <2>1, <1>q, <2>t, <2>l, <2>h, <2>n, <2>p, <2>w DEF SessionInv
<1>2. CASE ~(Held \/ ~Queued)
  <2>0. "claim" \in StepNames \ {"clear", "lock", "undefer"}  BY DEF StepNames, Finals, Laters
  <2>1. Stacks' /\ Slot \in Tasks /\ Heads[Slot] = "none" /\ Becomes(Slot, "claim", {"claim"}, {})
      BY <1>i, <1>2, <2>0, SpawnsOne
  <2>2. PICK s \in Tasks : s = Slot  BY <2>1
  <2>3. Heads[s] = "none" /\ Becomes(s, "claim", {"claim"}, {})  BY <2>1, <2>2
  <2>t. SessionTypes'
      BY <1>i, <1>2, <1>e, <2>1
      DEF SessionTypes, SessionTurnType, policy, effort, process, ghosts, counters, Held
  <2>l. Locks'
      BY <1>i, <1>s, <1>2, <2>1, <2>2, <2>3, <2>t, NoTask
      DEF SessionTypes, Locks, Becomes, StackLaws, Follow, Laters, Held
  <2>h. Handing'
      BY <1>i, <1>s, <1>2, <2>1, <2>2, <2>3, <2>t
      DEF SessionTypes, Locks, Handing, HandedOver, Becomes, StackLaws, Follow, Laters, Complete, policy,
         process, ghosts, Held
  <2>n. Noting'
      BY <1>i, <1>s, <1>2, <2>1, <2>2, <2>3, <2>t
      DEF SessionTypes, Locks, Noting, Due, Becomes, StackLaws, Follow, Laters, Complete, process, ghosts,
         Held
  <2>p. Spacing'
      BY <1>i, <1>s, <1>2, <2>1, <2>2, <2>3, <2>t, UrgentIs
      DEF SessionTypes, Spacing, ResetBegins, Becomes, StackLaws, policy, effort, ghosts, counters, Held
  <2>w. Waking'
      BY <1>i, <1>s, <1>2, <2>1, <2>2, <2>3, <2>t
      DEF SessionTypes, Waking, Becomes, StackLaws, Follow, Laters, Complete, policy, effort, Held
  <2> QED  BY <1>2, <2>1, <2>2, <2>3, <2>t, <2>l, <2>h, <2>n, <2>p, <2>w DEF SessionInv
<1> QED  BY <1>1, <1>2

LEMMA AwaitedKeeps ==
  ASSUME SessionAssumption, SessionInv, NEW t \in Tasks, DrainAwaited(t)
  PROVE  SessionInv'
<1> USE DEF DrainAwaited
<1>i. SessionTypes /\ Stacks /\ Locks /\ Handing /\ Noting /\ Spacing /\ Waking  BY DEF SessionInv
<1>s. StackLaws  BY <1>i, StackFacts
<1>h. Heads[t] = "drain" /\ Heads[t] \in Finals  BY DEF Heads, Step, Finals, Laters
<1>q. ~Queued => rows <= 0  BY <1>i DEF Queued, SessionTypes
<1>1. CASE Held \/ ~Queued
  <2>1. Stacks' /\ \E x \in Rests[t] \cup {"none"}, R \in SUBSET Rests[t] : Becomes(t, x, Rests[t], R)
      BY <1>1, <1>h, <1>i, Pops DEF Finals, Laters
  <2>2. PICK x \in Rests[t] \cup {"none"}, R \in SUBSET Rests[t] : Becomes(t, x, Rests[t], R)  BY <2>1
  <2>t. SessionTypes'
      BY <1>i, <1>1 DEF SessionTypes, SessionTurnType, policy, effort, process, ghosts, counters, Held
  <2>l. Locks'
      BY <1>i, <1>s, <1>1, <1>h, <2>1, <2>2, <1>q, <2>t, NoTask
      DEF SessionTypes, Locks, Becomes, StackLaws, Follow, Laters, Held
  <2>h. Handing'
      BY <1>i, <1>s, <1>1, <1>h, <2>1, <2>2, <1>q, <2>t
      DEF SessionTypes, Locks, Handing, HandedOver, Becomes, StackLaws, Follow, Laters, Complete, policy,
         process, ghosts, Held
  <2>n. Noting'
      BY <1>i, <1>s, <1>1, <1>h, <2>1, <2>2, <1>q, <2>t
      DEF SessionTypes, Locks, Noting, Due, Becomes, StackLaws, Follow, Laters, Complete, process, ghosts,
         Held
  <2>p. Spacing'
      BY <1>i, <1>s, <1>1, <1>h, <2>1, <2>2, <1>q, <2>t, UrgentIs
      DEF SessionTypes, Spacing, ResetBegins, Becomes, StackLaws, policy, effort, ghosts, counters, Held
  <2>w. Waking'
      BY <1>i, <1>s, <1>1, <1>h, <2>1, <2>2, <1>q, <2>t
      DEF SessionTypes, Waking, Becomes, StackLaws, Follow, Laters, Complete, policy, effort, Held
  <2> QED  BY <1>1, <1>h, <2>1, <2>2, <1>q, <2>t, <2>l, <2>h, <2>n, <2>p, <2>w DEF SessionInv
<1>2. CASE ~(Held \/ ~Queued)
  <2>0. "claim" \in StepNames \ {"clear", "lock", "undefer"}  BY DEF StepNames, Finals, Laters
  <2>1. Stacks' /\ Becomes(t, "claim", {"claim"} \cup Rests[t], Rests[t])
      BY <1>i, <1>h, <1>2, <2>0, AwaitsOne
  <2>t. SessionTypes'
      BY <1>i, <1>2 DEF SessionTypes, SessionTurnType, policy, effort, process, ghosts, counters, Held
  <2>l. Locks'
      BY <1>i, <1>s, <1>2, <1>h, <2>1, <2>t, NoTask
      DEF SessionTypes, Locks, Becomes, StackLaws, Follow, Laters, Held
  <2>h. Handing'
      BY <1>i, <1>s, <1>2, <1>h, <2>1, <2>t
      DEF SessionTypes, Locks, Handing, HandedOver, Becomes, StackLaws, Follow, Laters, Complete, policy,
         process, ghosts, Held
  <2>n. Noting'
      BY <1>i, <1>s, <1>2, <1>h, <2>1, <2>t
      DEF SessionTypes, Locks, Noting, Due, Becomes, StackLaws, Follow, Laters, Complete, process, ghosts,
         Held
  <2>p. Spacing'
      BY <1>i, <1>s, <1>2, <1>h, <2>1, <2>t, UrgentIs
      DEF SessionTypes, Spacing, ResetBegins, Becomes, StackLaws, policy, effort, ghosts, counters, Held
  <2>w. Waking'
      BY <1>i, <1>s, <1>2, <1>h, <2>1, <2>t
      DEF SessionTypes, Waking, Becomes, StackLaws, Follow, Laters, Complete, policy, effort, Held
  <2> QED  BY <1>2, <1>h, <2>1, <2>t, <2>l, <2>h, <2>n, <2>p, <2>w DEF SessionInv
<1> QED  BY <1>1, <1>2

LEMMA ClaimKeeps ==
  ASSUME SessionAssumption, SessionInv, NEW t \in Tasks, ClaimTurn(t)
  PROVE  SessionInv'
<1> USE DEF ClaimTurn
<1>i. SessionTypes /\ Stacks /\ Locks /\ Handing /\ Noting /\ Spacing /\ Waking  BY DEF SessionInv
<1>s. StackLaws  BY <1>i, StackFacts
<1>h. Heads[t] = "claim" /\ Heads[t] \in Finals  BY DEF Heads, Step, Finals, Laters
<1>d. started' \in BOOLEAN  BY <1>i DEF SessionTypes
<1>u. \A u \in Tasks : Heads[u] \in UrgentSteps => u = t
  <2>1. CASE Coalesce  BY <2>1, UrgentIs
  <2>2. CASE ~Coalesce
    <3>1. "claim" \in UrgentSteps  BY <2>2 DEF UrgentSteps
    <3> QED  BY <1>h, <1>i, <3>1 DEF Spacing
  <2> QED  BY <2>1, <2>2
<1>0. (\E u \in Tasks : hrow[u] = "queued") <=> {u \in Tasks : hrow[u] = "queued"} # {}  OBVIOUS
<1>1. CASE \E u \in Tasks : hrow[u] = "queued"
  <2>1. PICK u \in Tasks : /\ hrow[u] = "queued" /\ hrow' = [hrow EXCEPT ![u] = "running"]
                           /\ turn' = [kind |-> "handoff", sess |-> sess, died |-> proc # "up"]
                           /\ task' = Goes(t, <<"turn">>) /\ UNCHANGED <<rows, holder>>
      BY <1>0, <1>1
  <2>2. turn' \in SessionTurnType /\ turn'.kind = "handoff" /\ turn'.sess = sess
      BY <1>i, <2>1 DEF SessionTypes, SessionTurnType
  <2>a. "turn" \in StepNames \ {"clear", "lock", "undefer"}  BY DEF StepNames, Finals, Laters
  <2>b. Stacks' /\ Becomes(t, "turn", {"turn"} \cup Rests[t], Rests[t])
      BY <1>i, <1>h, <2>1, <2>a, AwaitsOne
  <2>t. SessionTypes'
      BY <1>i, <2>1, <2>2, <1>d
      DEF SessionTypes, SessionTurnType, policy, effort, ghosts, counters, HandedOver
  <2>l. Locks'
      BY <1>i, <1>s, <1>h, <1>u, <2>1, <2>2, <2>b, <2>t, NoTask
      DEF SessionTypes, Locks, Becomes, StackLaws, Follow, Laters, HandedOver
  <2>h. Handing'
      BY <1>i, <1>s, <1>h, <1>u, <2>1, <2>2, <2>b, <2>t
      DEF SessionTypes, Locks, Handing, HandedOver, Becomes, StackLaws, Follow, Laters, Complete, policy,
         ghosts, HandedOver
  <2>n. Noting'
      BY <1>i, <1>s, <1>h, <1>u, <2>1, <2>2, <2>b, <2>t
      DEF SessionTypes, Locks, Noting, Due, Becomes, StackLaws, Follow, Laters, Complete, ghosts, HandedOver
  <2>p. Spacing'
      BY <1>i, <1>s, <1>h, <1>u, <2>1, <2>2, <2>b, <2>t, UrgentIs
      DEF SessionTypes, Spacing, ResetBegins, Becomes, StackLaws, policy, effort, ghosts, counters,
         HandedOver
  <2>w. Waking'
      BY <1>i, <1>s, <1>h, <1>u, <2>1, <2>2, <2>b, <2>t
      DEF SessionTypes, Waking, Becomes, StackLaws, Follow, Laters, Complete, policy, effort, HandedOver
  <2> QED  BY <1>h, <1>u, <2>1, <2>2, <2>b, <2>t, <2>l, <2>h, <2>n, <2>p, <2>w DEF SessionInv
<1>2. CASE ~(\E u \in Tasks : hrow[u] = "queued") /\ rows = 0
  <2>0. /\ task' = Goes(t, <<>>) /\ holder' = 0 /\ UNCHANGED <<hrow, turn, rows>>
        /\ UNCHANGED <<sessionDrains, policy, effort, sess, proc, noteAt, carries, ghosts, counters>>
      BY <1>0, <1>2
  <2>1. Stacks' /\ \E x \in Rests[t] \cup {"none"}, R \in SUBSET Rests[t] : Becomes(t, x, Rests[t], R)
      BY <2>0, <1>h, <1>i, Pops DEF Finals, Laters
  <2>2. PICK x \in Rests[t] \cup {"none"}, R \in SUBSET Rests[t] : Becomes(t, x, Rests[t], R)  BY <2>1
  <2>k. \A u \in Tasks : u # t => Heads'[u] = Heads[u] /\ Alls'[u] = Alls[u] /\ Rests'[u] = Rests[u]
      BY <1>s, <2>2 DEF Becomes, StackLaws
  <2>m. /\ Heads'[t] = x /\ Alls'[t] = Rests[t] /\ Rests'[t] = R
        /\ Alls[t] = {"claim"} \cup Rests[t] /\ Rests[t] \subseteq Laters
      BY <1>h, <1>s, <2>2, AfterFinals DEF Becomes, StackLaws, Finals, Laters
  <2>z. turn.kind = "none" /\ holder = t  BY <1>h, <1>i DEF Locks
  <2>t. SessionTypes'
      BY <1>i, <2>0, <1>d DEF SessionTypes, SessionTurnType, policy, effort, ghosts, counters
  <2>l. Locks'
    <3>1. \A u \in Tasks : Heads'[u] \notin {"claim", "turn"}
        BY <1>h, <1>i, <2>k, <2>m, <2>z DEF Locks, Laters
    <3>2. \A u \in Tasks : "release" \in Alls'[u] => Heads'[u] = "lock"
        BY <1>i, <2>k, <2>m, <2>z DEF Locks, Laters
    <3> QED  BY <2>0, <2>z, <3>1, <3>2 DEF Locks
  <2>h. Handing'
    <3>1. \A u \in Tasks : "release" \in Alls'[u] /\ "clear" \notin Alls'[u] => sess \notin handed
        BY <1>i, <2>k, <2>m DEF Handing, Laters
    <3>2. \A u \in Tasks : Heads'[u] = "claim" => sess \notin handed
        BY <1>i, <2>k, <2>m DEF Handing, Laters
    <3> QED  BY <1>i, <2>0, <2>z, <3>1, <3>2 DEF Handing, HandedOver, policy, ghosts
  <2>n. Noting'
    <3>0. ~started => ~started'
      <4>1. turn'.kind = "none"  BY <2>0, <2>z
      <4>2. started' = IF turn'.kind # "none" /\ proc = "up" THEN TRUE ELSE started  OBVIOUS
      <4> QED  BY <4>1, <4>2, Zenon
    <3>1. \A u \in Tasks : {"release", "start"} \subseteq Alls[u] => u # t  BY <2>m DEF Laters
    <3>2. \A u \in Tasks : {"release", "start"} \subseteq Alls[u] /\ Heads[u] # "lock"
                           => {"release", "start"} \subseteq Alls'[u] /\ Heads'[u] # "lock"
        BY <2>k, <3>1
    <3>3. Due' = Due  BY <2>0 DEF Due, ghosts
    <3>4. wasted' = wasted  BY <2>0 DEF ghosts
    <3>5. ASSUME MaxOperator = 0, Due'
          PROVE  ~started' /\ \E u \in Tasks : {"release", "start"} \subseteq Alls'[u] /\ Heads'[u] # "lock"
      <4>1. PICK u \in Tasks : {"release", "start"} \subseteq Alls[u] /\ Heads[u] # "lock"
          BY <1>i, <3>3, <3>5 DEF Noting
      <4>2. Due  BY <3>3, <3>5
      <4>3. ~started  BY <1>i, <3>5, <4>2 DEF Noting
      <4>4. ~started'  BY <3>0, <4>3
      <4> QED  BY <3>2, <4>1, <4>4
    <3>6. ASSUME MaxOperator = 0 PROVE ~wasted'  BY <1>i, <3>4, <3>6, Zenon DEF Noting
    <3> QED  BY <3>5, <3>6, Zenon DEF Noting
  <2>p. Spacing'
    <3>1. \A u \in Tasks : Heads'[u] \in UrgentSteps => u = t
        BY <1>u, <2>k
    <3>2. \A u \in Tasks : Rests'[u] \subseteq Rests[u]  BY <2>k, <2>m
    <3>3. Heads'[t] \in ResetBegins => Heads'[t] \in Rests[t] \cap ResetBegins  BY <2>m DEF ResetBegins
    <3> QED  BY <1>i, <2>0, <2>k, <3>1, <3>2, <3>3 DEF Spacing, policy, effort, ghosts, counters
  <2>w. Waking'
    <3>1. effortRespawning' => \E u \in Tasks : "undefer" \in Alls'[u]
        BY <1>i, <2>0, <2>k, <2>m DEF Waking, effort
    <3>2. \A u \in Tasks : hrow'[u] = "queued" => Heads'[u] = "wait"  BY <1>2, <2>0
    <3>3. resetting' => \/ \E u \in Tasks : "release" \in Alls'[u]
                        \/ inflight' /\ \E u \in Tasks : "do" \in Alls'[u]
        BY <1>i, <2>0, <2>k, <2>m DEF Waking, policy
    <3>4. inflight' => \E u \in Tasks : Alls'[u] \cap {"insert", "wait", "do"} # {}
        BY <1>i, <2>0, <2>k, <2>m DEF Waking, policy
    <3> QED  BY <1>2, <2>0, <3>1, <3>2, <3>3, <3>4 DEF Waking
  <2> QED  BY <2>1, <2>t, <2>l, <2>h, <2>n, <2>p, <2>w DEF SessionInv
<1>3. CASE ~(\E u \in Tasks : hrow[u] = "queued") /\ rows # 0
  <2>1. /\ rows' = rows - 1 /\ turn' = [kind |-> "person", sess |-> sess, died |-> proc # "up"]
        /\ task' = Goes(t, <<"turn">>) /\ UNCHANGED <<hrow, holder>>
      BY <1>0, <1>3
  <2>2. /\ turn' \in SessionTurnType /\ turn'.kind = "person" /\ turn'.sess = sess
        /\ rows' \in Nat
      BY <1>i, <1>3, <2>1 DEF SessionTypes, SessionTurnType
  <2>a. "turn" \in StepNames \ {"clear", "lock", "undefer"}  BY DEF StepNames, Finals, Laters
  <2>b. Stacks' /\ Becomes(t, "turn", {"turn"} \cup Rests[t], Rests[t])
      BY <1>i, <1>h, <2>1, <2>a, AwaitsOne
  <2>t. SessionTypes'
      BY <1>i, <2>1, <2>2, <1>d
      DEF SessionTypes, SessionTurnType, policy, effort, ghosts, counters, HandedOver
  <2>l. Locks'
      BY <1>i, <1>s, <1>h, <1>u, <2>1, <2>2, <2>b, <2>t, NoTask
      DEF SessionTypes, Locks, Becomes, StackLaws, Follow, Laters, HandedOver
  <2>h. Handing'
      BY <1>i, <1>s, <1>h, <1>u, <2>1, <2>2, <2>b, <2>t
      DEF SessionTypes, Locks, Handing, HandedOver, Becomes, StackLaws, Follow, Laters, Complete, policy,
         ghosts, HandedOver
  <2>n. Noting'
      BY <1>i, <1>s, <1>h, <1>u, <2>1, <2>2, <2>b, <2>t
      DEF SessionTypes, Locks, Noting, Due, Becomes, StackLaws, Follow, Laters, Complete, ghosts, HandedOver
  <2>p. Spacing'
      BY <1>i, <1>s, <1>h, <1>u, <2>1, <2>2, <2>b, <2>t, UrgentIs
      DEF SessionTypes, Spacing, ResetBegins, Becomes, StackLaws, policy, effort, ghosts, counters,
         HandedOver
  <2>w. Waking'
      BY <1>i, <1>s, <1>h, <1>u, <2>1, <2>2, <2>b, <2>t
      DEF SessionTypes, Waking, Becomes, StackLaws, Follow, Laters, Complete, policy, effort, HandedOver
  <2> QED  BY <1>h, <1>u, <2>1, <2>2, <2>b, <2>t, <2>l, <2>h, <2>n, <2>p, <2>w DEF SessionInv
<1> QED  BY <1>1, <1>2, <1>3

LEMMA DoKeeps ==
  ASSUME SessionAssumption, SessionInv, NEW t \in Tasks, DoReset(t)
  PROVE  SessionInv'
<1> USE DEF DoReset
<1>i. SessionTypes /\ Stacks /\ Locks /\ Handing /\ Noting /\ Spacing /\ Waking  BY DEF SessionInv
<1>s. StackLaws  BY <1>i, StackFacts
<1>h. Heads[t] = "do" /\ Heads[t] \in Finals  BY DEF Heads, Step, Finals, Laters
<1>d. hrow' \in [Tasks -> {"none", "queued", "running", "done"}] /\
          \A u \in Tasks : hrow'[u] = "queued" => hrow[u] = "queued"
    BY <1>i DEF SessionTypes
<1>u. \A u \in Tasks : Heads[u] \in UrgentSteps => u = t  BY <1>h, <1>i, UrgentAre DEF Spacing
<1>1. CASE inflight
  <2>0. /\ ResetSteps \in Seq(StepNames) /\ ResetSteps # <<>> /\ StackOk(ResetSteps) /\
            Head(ResetSteps) = "lock"
        /\ AllOf(ResetSteps) = {"lock", "kill", "clear", "start", "release"}
        /\ RestOf(ResetSteps) = {"kill", "clear", "start", "release"}
    <3>1. Head(ResetSteps) = "lock"  BY DEF ResetSteps
    <3> QED  BY <3>1, Lists
  <2>1. Stacks' /\ Becomes(t, "lock", {"lock", "kill", "clear", "start",
            "release"} \cup Rests[t], {"kill", "clear", "start", "release"} \cup Rests[t])
    <3>1. Stacks' /\ Becomes(t, Head(ResetSteps), AllOf(ResetSteps) \cup Rests[t],
              RestOf(ResetSteps) \cup Rests[t])
        BY <1>i, <1>h, <1>1, <2>0, Awaits DEF TakesReset
    <3> QED  BY <2>0, <3>1
  <2>t. SessionTypes'
      BY <1>i, <1>1, <1>d DEF SessionTypes, SessionTurnType, effort, process, counters, TakesReset
  <2>l. Locks'
      BY <1>i, <1>s, <1>1, <1>h, <1>d, <1>u, <2>1, UrgentAre, <2>t, NoTask
      DEF SessionTypes, Locks, Becomes, StackLaws, Follow, Laters, TakesReset
  <2>h. Handing'
      BY <1>i, <1>s, <1>1, <1>h, <1>d, <1>u, <2>1, UrgentAre, <2>t
      DEF SessionTypes, Locks, Handing, HandedOver, Becomes, StackLaws, Follow, Laters, Complete, process,
         TakesReset
  <2>n. Noting'
      BY <1>i, <1>s, <1>1, <1>h, <1>d, <1>u, <2>1, UrgentAre, <2>t
      DEF SessionTypes, Locks, Noting, Due, Becomes, StackLaws, Follow, Laters, Complete, process,
         TakesReset
  <2>p. Spacing'
      BY <1>i, <1>s, <1>1, <1>h, <1>d, <1>u, <2>1, UrgentAre, <2>t, UrgentIs
      DEF SessionTypes, Spacing, ResetBegins, Becomes, StackLaws, effort, counters, TakesReset
  <2>w. Waking'
      BY <1>i, <1>s, <1>1, <1>h, <1>d, <1>u, <2>1, UrgentAre, <2>t
      DEF SessionTypes, Waking, Becomes, StackLaws, Follow, Laters, Complete, effort, TakesReset
  <2> QED  BY <1>1, <1>h, <1>d, <1>u, <2>1, UrgentAre, <2>t, <2>l, <2>h, <2>n, <2>p, <2>w DEF SessionInv
<1>2. CASE ~inflight
  <2>1. Stacks' /\ \E x \in Rests[t] \cup {"none"}, R \in SUBSET Rests[t] : Becomes(t, x, Rests[t], R)
      BY <1>2, <1>h, <1>i, Pops DEF Finals, Laters, TakesReset
  <2>2. PICK x \in Rests[t] \cup {"none"}, R \in SUBSET Rests[t] : Becomes(t, x, Rests[t], R)  BY <2>1
  <2>t. SessionTypes'
      BY <1>i, <1>2, <1>d DEF SessionTypes, SessionTurnType, effort, process, counters, TakesReset
  <2>l. Locks'
      BY <1>i, <1>s, <1>2, <1>h, <1>d, <1>u, <2>1, <2>2, <2>t, NoTask
      DEF SessionTypes, Locks, Becomes, StackLaws, Follow, Laters, TakesReset
  <2>h. Handing'
      BY <1>i, <1>s, <1>2, <1>h, <1>d, <1>u, <2>1, <2>2, <2>t
      DEF SessionTypes, Locks, Handing, HandedOver, Becomes, StackLaws, Follow, Laters, Complete, process,
         TakesReset
  <2>n. Noting'
      BY <1>i, <1>s, <1>2, <1>h, <1>d, <1>u, <2>1, <2>2, <2>t
      DEF SessionTypes, Locks, Noting, Due, Becomes, StackLaws, Follow, Laters, Complete, process,
         TakesReset
  <2>p. Spacing'
      BY <1>i, <1>s, <1>2, <1>h, <1>d, <1>u, <2>1, <2>2, <2>t, UrgentIs
      DEF SessionTypes, Spacing, ResetBegins, Becomes, StackLaws, effort, counters, TakesReset
  <2>w. Waking'
      BY <1>i, <1>s, <1>2, <1>h, <1>d, <1>u, <2>1, <2>2, <2>t
      DEF SessionTypes, Waking, Becomes, StackLaws, Follow, Laters, Complete, effort, TakesReset
  <2> QED  BY <1>2, <1>h, <1>d, <1>u, <2>1, <2>2, <2>t, <2>l, <2>h, <2>n, <2>p, <2>w DEF SessionInv
<1> QED  BY <1>1, <1>2, <1>i DEF SessionTypes

LEMMA HandoffKeeps ==
  ASSUME SessionAssumption, SessionInv, NEW t \in Tasks, EndHandoff(t)
  PROVE  SessionInv'
<1> USE DEF EndHandoff
<1>i. SessionTypes /\ Stacks /\ Locks /\ Handing /\ Noting /\ Spacing /\ Waking  BY DEF SessionInv
<1>s. StackLaws  BY <1>i, StackFacts
<1>h. Heads[t] = "turn" /\ Heads[t] \in Finals  BY DEF Heads, Step, Finals, Laters
<1>d. /\ sessionDrains' \in Nat /\ (rows > 0 => sessionDrains' > 0)
      /\ turn' \in SessionTurnType /\ turn'.kind = "none" /\ turn'.sess = 0
    BY <1>i DEF SessionTypes, NoSessionTurn, SessionTurnType
<1>e. \A u \in Tasks : Heads[u] \notin UrgentSteps  BY UrgentIs
<1>f. hrow' \in [Tasks -> {"none", "queued", "running", "done"}] /\
          \A u \in Tasks : hrow'[u] = "queued" => hrow[u] = "queued"
    BY <1>i DEF SessionTypes
<1>g. /\ holder = t /\ handed \subseteq handed' /\ handed' \subseteq handed \cup {turn.sess}
      /\ handed' \subseteq 0 .. sess
  <2>1. holder = t  BY <1>h, <1>i DEF Locks
  <2>2. handed' = IF inflight /\ ~turn.died THEN handed \cup {turn.sess} ELSE handed  OBVIOUS
  <2>3. turn.sess \in 0 .. sess /\ handed \subseteq 0 .. sess
    <3>1. turn.sess \in Nat /\ sess \in Nat  BY <1>i DEF SessionTypes, SessionTurnType
    <3> QED  BY <1>i, <3>1 DEF Handing
  <2>4. handed \subseteq handed' /\ handed' \subseteq handed \cup {turn.sess}  BY <2>2
  <2> QED  BY <2>1, <2>3, <2>4
<1>1. CASE inflight
  <2>0. task' = Goes(t, EffortFollowup \o <<"do">>)  BY <1>1
  <2>a. "do" \in Laters  BY DEF Laters
  <2>e. effortPending \in BOOLEAN  BY <1>i DEF SessionTypes
  <2>b. Stacks'  BY <1>i, <1>h, <2>0, <2>a, <2>e, TurnEndsWith
  <2>c. PICK x, E, R :
              /\ Becomes(t, x, E \cup Rests[t], R)
              /\ "do" \in E /\ E \subseteq {"do", "kill", "start", "undefer", "drain"}
              /\ effortPending => x = "kill" /\ {"undefer", "drain"} \subseteq E
              /\ ~effortPending => R \subseteq Rests[t] /\ x = "do"
      BY <1>i, <1>h, <2>0, <2>a, <2>e, TurnEndsWith
  <2>k. \A u \in Tasks : u # t => Heads'[u] = Heads[u] /\ Alls'[u] = Alls[u]
      BY <1>s, <2>c DEF Becomes, StackLaws
  <2>m. Heads'[t] = x /\ Alls'[t] = E \cup Rests[t] /\ Alls[t] = {"turn"} \cup Rests[t]
      BY <1>h, <1>s, <2>c DEF Becomes, StackLaws, Finals, Laters
  <2>t. SessionTypes'
      BY <1>i, <1>1, <1>d, <1>f DEF SessionTypes, SessionTurnType, process, counters, HoldsClaims
  <2>l. Locks'
      BY <1>i, <1>s, <1>1, <1>d, <1>e, <1>g, <1>h, <2>b, <2>c, <2>t, NoTask
      DEF SessionTypes, Locks, Becomes, StackLaws, Follow, Laters, HoldsClaims
  <2>h. Handing'
    <3>1. ASSUME NEW u \in Tasks, "release" \in Alls'[u], "clear" \notin Alls'[u] PROVE FALSE
      <4>1. u # t  BY <1>h, <1>s, <2>c, <2>m, <3>1, AfterFinals DEF StackLaws, Laters, Finals
      <4>2. "release" \in Alls[u] /\ "clear" \notin Alls[u]  BY <2>k, <3>1, <4>1
      <4>3. Heads[u] # "lock"
        <5>1. Heads[u] # "none"  BY <1>s, <4>2 DEF StackLaws
        <5>2. Complete(Alls[u]) /\ Heads[u] \in Alls[u]  BY <1>s, <5>1 DEF StackLaws
        <5> QED  BY <4>2, <5>2 DEF Complete
      <4> QED  BY <1>i, <1>g, <4>1, <4>2, <4>3 DEF Locks
    <3>2. ASSUME NEW u \in Tasks, Heads'[u] = "claim" PROVE FALSE
      <4>1. u # t  BY <1>h, <1>s, <2>c, <2>m, <3>2, AfterFinals DEF StackLaws, Laters, Finals
      <4> QED  BY <1>i, <1>g, <2>k, <3>2, <4>1 DEF Locks
    <3>3. resetting'  BY <1>1 DEF HoldsClaims
    <3>4. sess' = sess /\ handed' \subseteq 0 .. sess' /\ turn'.sess <= sess'
        BY <1>d, <1>g, <1>i DEF SessionTypes, process
    <3>5. HandedOver'  BY <1>d DEF HandedOver
    <3> HIDE DEF EndHandoff
    <3> QED  BY <3>1, <3>2, <3>3, <3>4, <3>5 DEF Handing
  <2>n. Noting'
      BY <1>i, <1>s, <1>1, <1>d, <1>e, <1>g, <1>h, <2>b, <2>c, <2>t
      DEF SessionTypes, Locks, Noting, Due, Becomes, StackLaws, Follow, Laters, Complete, process,
         HoldsClaims
  <2>p. Spacing'
      BY <1>i, <1>s, <1>1, <1>d, <1>e, <1>g, <1>h, <2>b, <2>c, <2>t, UrgentIs, UrgentAre
      DEF SessionTypes, Spacing, ResetBegins, Becomes, StackLaws, counters, HoldsClaims
  <2>w. Waking'
    <3>1. effortRespawning' => \E u \in Tasks : "undefer" \in Alls'[u]
        BY <1>i, <1>d, <1>1, <2>c, <2>k, <2>m DEF Waking, effort, HoldsClaims
    <3>2. \A u \in Tasks : hrow'[u] = "queued" => Heads'[u] = "wait"
        BY <1>h, <1>i, <1>d, <1>1, <2>c, <2>k, <2>m, <1>f DEF Waking, HoldsClaims
    <3>3. resetting' => \/ \E u \in Tasks : "release" \in Alls'[u]
                        \/ inflight' /\ \E u \in Tasks : "do" \in Alls'[u]
        BY <1>i, <1>d, <1>1, <2>c, <2>k, <2>m DEF Waking, policy, HoldsClaims
    <3>4. inflight' => \E u \in Tasks : Alls'[u] \cap {"insert", "wait", "do"} # {}
        BY <1>i, <1>d, <1>1, <2>c, <2>k, <2>m DEF Waking, policy, HoldsClaims
    <3>5. rows' > 0 => sessionDrains' > 0  BY <1>d
    <3> QED  BY <3>1, <3>2, <3>3, <3>4, <3>5 DEF Waking
  <2> QED  BY <1>1, <1>d, <1>e, <1>g, <1>h, <2>b, <2>c, <2>t, <2>l, <2>h, <2>n, <2>p, <2>w DEF SessionInv
<1>2. CASE ~inflight
  <2>0. task' = Goes(t, EffortFollowup \o <<>>)  BY <1>2
  <2>e. effortPending \in BOOLEAN  BY <1>i DEF SessionTypes
  <2>b. Stacks'  BY <1>i, <1>h, <2>0, <2>e, TurnEndsPlain
  <2>c. PICK x, E, R :
              /\ Becomes(t, x, E \cup Rests[t], R)
              /\ E \subseteq {"kill", "start", "undefer", "drain"}
              /\ effortPending => x = "kill" /\ {"undefer", "drain"} \subseteq E
              /\ ~effortPending => R \subseteq Rests[t] /\ x \in Rests[t] \cup {"none"}
      BY <1>i, <1>h, <2>0, <2>e, TurnEndsPlain
  <2>k. \A u \in Tasks : u # t => Heads'[u] = Heads[u] /\ Alls'[u] = Alls[u]
      BY <1>s, <2>c DEF Becomes, StackLaws
  <2>m. Heads'[t] = x /\ Alls'[t] = E \cup Rests[t] /\ Alls[t] = {"turn"} \cup Rests[t]
      BY <1>h, <1>s, <2>c DEF Becomes, StackLaws, Finals, Laters
  <2>t. SessionTypes'
      BY <1>i, <1>2, <1>d, <1>f DEF SessionTypes, SessionTurnType, process, counters, HoldsClaims
  <2>l. Locks'
      BY <1>i, <1>s, <1>2, <1>d, <1>e, <1>g, <1>h, <2>b, <2>c, <2>t, NoTask
      DEF SessionTypes, Locks, Becomes, StackLaws, Follow, Laters, HoldsClaims
  <2>h. Handing'
      BY <1>i, <1>s, <1>2, <1>d, <1>e, <1>g, <1>h, <2>b, <2>c, <2>t
      DEF SessionTypes, Locks, Handing, HandedOver, Becomes, StackLaws, Follow, Laters, Complete, process,
         HoldsClaims
  <2>n. Noting'
      BY <1>i, <1>s, <1>2, <1>d, <1>e, <1>g, <1>h, <2>b, <2>c, <2>t
      DEF SessionTypes, Locks, Noting, Due, Becomes, StackLaws, Follow, Laters, Complete, process,
         HoldsClaims
  <2>p. Spacing'
      BY <1>i, <1>s, <1>2, <1>d, <1>e, <1>g, <1>h, <2>b, <2>c, <2>t, UrgentIs, UrgentAre
      DEF SessionTypes, Spacing, ResetBegins, Becomes, StackLaws, counters, HoldsClaims
  <2>w. Waking'
    <3>1. effortRespawning' => \E u \in Tasks : "undefer" \in Alls'[u]
        BY <1>i, <1>d, <1>2, <2>c, <2>k, <2>m DEF Waking, effort, HoldsClaims
    <3>2. \A u \in Tasks : hrow'[u] = "queued" => Heads'[u] = "wait"
        BY <1>h, <1>i, <1>d, <1>2, <2>c, <2>k, <2>m, <1>f DEF Waking, HoldsClaims
    <3>3. resetting' => \/ \E u \in Tasks : "release" \in Alls'[u]
                        \/ inflight' /\ \E u \in Tasks : "do" \in Alls'[u]
        BY <1>i, <1>d, <1>2, <2>c, <2>k, <2>m DEF Waking, policy, HoldsClaims
    <3>4. inflight' => \E u \in Tasks : Alls'[u] \cap {"insert", "wait", "do"} # {}
        BY <1>i, <1>d, <1>2, <2>c, <2>k, <2>m DEF Waking, policy, HoldsClaims
    <3>5. rows' > 0 => sessionDrains' > 0  BY <1>d
    <3> QED  BY <3>1, <3>2, <3>3, <3>4, <3>5 DEF Waking
  <2> QED  BY <1>2, <1>d, <1>e, <1>g, <1>h, <2>b, <2>c, <2>t, <2>l, <2>h, <2>n, <2>p, <2>w DEF SessionInv
<1> QED  BY <1>1, <1>2, <1>i DEF SessionTypes

LEMMA PersonEndKeeps ==
  ASSUME SessionAssumption, SessionInv, NEW t \in Tasks, EndPerson(t)
  PROVE  SessionInv'
<1> USE DEF EndPerson
<1>i. SessionTypes /\ Stacks /\ Locks /\ Handing /\ Noting /\ Spacing /\ Waking  BY DEF SessionInv
<1>s. StackLaws  BY <1>i, StackFacts
<1>h. Heads[t] = "turn" /\ Heads[t] \in Finals  BY DEF Heads, Step, Finals, Laters
<1>d. /\ sessionDrains' \in Nat /\ (rows > 0 => sessionDrains' > 0)
      /\ turn' \in SessionTurnType /\ turn'.kind = "none" /\ turn'.sess = 0
    BY <1>i DEF SessionTypes, NoSessionTurn, SessionTurnType
<1>e. \A u \in Tasks : Heads[u] \notin UrgentSteps  BY UrgentIs
<1>g. holder = t /\ efforts' = efforts /\ operator' = operator  BY <1>h, <1>i DEF Locks, counters
<1>0. \/ task' = Goes(t, EffortFollowup \o <<>>)
      \/ ~Skipped /\ \E y \in ResetBegins : task' = Goes(t, EffortFollowup \o <<y>>)
  <2>1. PICK why \in {"none", "budget", "overflow"}, due \in BOOLEAN :
             task' = Goes(t, EffortFollowup \o (IF ~due \/ Skipped THEN <<>>
                                               
                                                          ELSE IF why = "overflow" THEN <<"beginOverflow">> ELSE <<"begin">>))
      OBVIOUS
  <2>2. CASE ~due \/ Skipped  BY <2>1, <2>2
  <2>3. CASE ~(~due \/ Skipped)
    <3>1. CASE why = "overflow"  BY <2>1, <2>3, <3>1 DEF ResetBegins
    <3>2. CASE why # "overflow"  BY <2>1, <2>3, <3>2 DEF ResetBegins
    <3> QED  BY <3>1, <3>2
  <2> QED  BY <2>2, <2>3
<1>1. CASE task' = Goes(t, EffortFollowup \o <<>>)
  <2>e. effortPending \in BOOLEAN  BY <1>i DEF SessionTypes
  <2>b. Stacks'  BY <1>i, <1>h, <1>1, <2>e, TurnEndsPlain
  <2>c. PICK x, E, R :
              /\ Becomes(t, x, E \cup Rests[t], R)
              /\ E \subseteq {"kill", "start", "undefer", "drain"}
              /\ effortPending => x = "kill" /\ {"undefer", "drain"} \subseteq E
              /\ ~effortPending => R \subseteq Rests[t] /\ x \in Rests[t] \cup {"none"}
      BY <1>i, <1>h, <1>1, <2>e, TurnEndsPlain
  <2>k. \A u \in Tasks : u # t => Heads'[u] = Heads[u] /\ Alls'[u] = Alls[u]
      BY <1>s, <2>c DEF Becomes, StackLaws
  <2>m. Heads'[t] = x /\ Alls'[t] = E \cup Rests[t] /\ Alls[t] = {"turn"} \cup Rests[t]
      BY <1>h, <1>s, <2>c DEF Becomes, StackLaws, Finals, Laters
  <2>t. SessionTypes'  BY <1>i, <1>1, <1>d DEF SessionTypes, SessionTurnType, process, ghosts
  <2>l. Locks'
      BY <1>i, <1>s, <1>1, <1>d, <1>e, <1>g, <1>h, <2>b, <2>c, <2>t, NoTask
      DEF SessionTypes, Locks, Becomes, StackLaws, Follow, Laters
  <2>h. Handing'
      BY <1>i, <1>s, <1>1, <1>d, <1>e, <1>g, <1>h, <2>b, <2>c, <2>t
      DEF SessionTypes, Locks, Handing, HandedOver, Becomes, StackLaws, Follow, Laters, Complete, process,
         ghosts
  <2>n. Noting'
      BY <1>i, <1>s, <1>1, <1>d, <1>e, <1>g, <1>h, <2>b, <2>c, <2>t
      DEF SessionTypes, Locks, Noting, Due, Becomes, StackLaws, Follow, Laters, Complete, process, ghosts
  <2>p. Spacing'
      BY <1>i, <1>s, <1>1, <1>d, <1>e, <1>g, <1>h, <2>b, <2>c, <2>t, UrgentIs, UrgentAre
      DEF SessionTypes, Spacing, ResetBegins, Becomes, StackLaws, ghosts
  <2>w. Waking'
    <3>1. effortRespawning' => \E u \in Tasks : "undefer" \in Alls'[u]
        BY <1>i, <1>d, <1>1, <2>c, <2>k, <2>m DEF Waking, effort
    <3>2. \A u \in Tasks : hrow'[u] = "queued" => Heads'[u] = "wait"
        BY <1>h, <1>i, <1>d, <1>1, <2>c, <2>k, <2>m DEF Waking
    <3>3. resetting' => \/ \E u \in Tasks : "release" \in Alls'[u]
                        \/ inflight' /\ \E u \in Tasks : "do" \in Alls'[u]
        BY <1>i, <1>d, <1>1, <2>c, <2>k, <2>m DEF Waking, policy
    <3>4. inflight' => \E u \in Tasks : Alls'[u] \cap {"insert", "wait", "do"} # {}
        BY <1>i, <1>d, <1>1, <2>c, <2>k, <2>m DEF Waking, policy
    <3>5. rows' > 0 => sessionDrains' > 0  BY <1>d
    <3> QED  BY <3>1, <3>2, <3>3, <3>4, <3>5 DEF Waking
  <2> QED  BY <1>1, <1>d, <1>e, <1>g, <1>h, <2>b, <2>c, <2>t, <2>l, <2>h, <2>n, <2>p, <2>w DEF SessionInv
<1>2. CASE ~Skipped /\ \E y \in ResetBegins : task' = Goes(t, EffortFollowup \o <<y>>)
  <2>0. PICK y \in ResetBegins : task' = Goes(t, EffortFollowup \o <<y>>)  BY <1>2
  <2>1. ~inflight /\ ~recent  BY <1>2 DEF Skipped
  <2>a. y \in Laters  BY DEF Laters, ResetBegins
  <2>e. effortPending \in BOOLEAN  BY <1>i DEF SessionTypes
  <2>b. Stacks'  BY <1>i, <1>h, <2>0, <2>a, <2>e, TurnEndsWith
  <2>c. PICK x, E, R :
              /\ Becomes(t, x, E \cup Rests[t], R)
              /\ y \in E /\ E \subseteq {y, "kill", "start", "undefer", "drain"}
              /\ effortPending => x = "kill" /\ {"undefer", "drain"} \subseteq E
              /\ ~effortPending => R \subseteq Rests[t] /\ x = y
      BY <1>i, <1>h, <2>0, <2>a, <2>e, TurnEndsWith
  <2>k. \A u \in Tasks : u # t => Heads'[u] = Heads[u] /\ Alls'[u] = Alls[u]
      BY <1>s, <2>c DEF Becomes, StackLaws
  <2>m. Heads'[t] = x /\ Alls'[t] = E \cup Rests[t] /\ Alls[t] = {"turn"} \cup Rests[t]
      BY <1>h, <1>s, <2>c DEF Becomes, StackLaws, Finals, Laters
  <2>t. SessionTypes'  BY <1>i, <1>2, <1>d DEF SessionTypes, SessionTurnType, process, ghosts
  <2>l. Locks'
      BY <1>i, <1>s, <1>d, <1>e, <1>g, <1>h, <2>a, <2>b, <2>c, <2>1, <2>t, NoTask
      DEF SessionTypes, Locks, Becomes, StackLaws, Follow, Laters
  <2>h. Handing'
      BY <1>i, <1>s, <1>d, <1>e, <1>g, <1>h, <2>a, <2>b, <2>c, <2>1, <2>t
      DEF SessionTypes, Locks, Handing, HandedOver, Becomes, StackLaws, Follow, Laters, Complete, process,
         ghosts
  <2>n. Noting'
      BY <1>i, <1>s, <1>d, <1>e, <1>g, <1>h, <2>a, <2>b, <2>c, <2>1, <2>t
      DEF SessionTypes, Locks, Noting, Due, Becomes, StackLaws, Follow, Laters, Complete, process, ghosts
  <2>p. Spacing'
      BY <1>i, <1>s, <1>d, <1>e, <1>g, <1>h, <2>a, <2>b, <2>c, <2>1, <2>t, UrgentIs, UrgentAre
      DEF SessionTypes, Spacing, ResetBegins, Becomes, StackLaws, ghosts
  <2>w. Waking'
    <3>1. effortRespawning' => \E u \in Tasks : "undefer" \in Alls'[u]
        BY <1>i, <1>d, <2>1, <2>c, <2>k, <2>m DEF Waking, effort
    <3>2. \A u \in Tasks : hrow'[u] = "queued" => Heads'[u] = "wait"
        BY <1>h, <1>i, <1>d, <2>1, <2>c, <2>k, <2>m DEF Waking
    <3>3. resetting' => \/ \E u \in Tasks : "release" \in Alls'[u]
                        \/ inflight' /\ \E u \in Tasks : "do" \in Alls'[u]
        BY <1>i, <1>d, <2>1, <2>c, <2>k, <2>m DEF Waking, policy
    <3>4. inflight' => \E u \in Tasks : Alls'[u] \cap {"insert", "wait", "do"} # {}
        BY <1>i, <1>d, <2>1, <2>c, <2>k, <2>m DEF Waking, policy
    <3>5. rows' > 0 => sessionDrains' > 0  BY <1>d
    <3> QED  BY <3>1, <3>2, <3>3, <3>4, <3>5 DEF Waking
  <2> QED
      BY <1>d, <1>e, <1>g, <1>h, <2>a, <2>b, <2>c, <2>1, <2>t, <2>l, <2>h, <2>n, <2>p, <2>w DEF SessionInv
<1> QED  BY <1>0, <1>1, <1>2

LEMMA BeginKeeps ==
  ASSUME SessionAssumption, SessionInv, NEW t \in Tasks, Begin(t)
  PROVE  SessionInv'
<1> USE DEF Begin
<1>i. SessionTypes /\ Stacks /\ Locks /\ Handing /\ Noting /\ Spacing /\ Waking  BY DEF SessionInv
<1>s. StackLaws  BY <1>i, StackFacts
<1>h. /\ Heads[t] \in {"begin", "beginOverflow"} /\ Heads[t] \in ResetBegins
      /\ Heads[t] \in Finals
    BY DEF Heads, Step, Finals, Laters, ResetBegins
<1>u. \A u \in Tasks : Heads[u] \in UrgentSteps => u = t
  <2>1. Heads[t] \in UrgentSteps  BY <1>h, UrgentAre DEF ResetBegins
  <2> QED  BY <1>i, <2>1 DEF Spacing
<1>c. efforts + operator = 0 => ~recent  BY <1>h, <1>i DEF Spacing
<1>1. CASE inflight
  <2>1. Stacks' /\ \E x \in Rests[t] \cup {"none"}, R \in SUBSET Rests[t] : Becomes(t, x, Rests[t], R)
      BY <1>1, <1>h, <1>i, Pops DEF Finals, Laters
  <2>2. PICK x \in Rests[t] \cup {"none"}, R \in SUBSET Rests[t] : Becomes(t, x, Rests[t], R)  BY <2>1
  <2>t. SessionTypes'  BY <1>i, <1>1 DEF SessionTypes, SessionTurnType, effort, process, ghosts, counters
  <2>l. Locks'
      BY <1>i, <1>s, <1>1, <1>h, <1>u, <1>c, <2>1, <2>2, <2>t, NoTask
      DEF SessionTypes, Locks, Becomes, StackLaws, Follow, Laters
  <2>h. Handing'
      BY <1>i, <1>s, <1>1, <1>h, <1>u, <1>c, <2>1, <2>2, <2>t
      DEF SessionTypes, Locks, Handing, HandedOver, Becomes, StackLaws, Follow, Laters, Complete, process,
         ghosts
  <2>n. Noting'
      BY <1>i, <1>s, <1>1, <1>h, <1>u, <1>c, <2>1, <2>2, <2>t
      DEF SessionTypes, Locks, Noting, Due, Becomes, StackLaws, Follow, Laters, Complete, process, ghosts
  <2>p. Spacing'
      BY <1>i, <1>s, <1>1, <1>h, <1>u, <1>c, <2>1, <2>2, <2>t, UrgentIs
      DEF SessionTypes, Spacing, ResetBegins, Becomes, StackLaws, effort, ghosts, counters
  <2>w. Waking'
      BY <1>i, <1>s, <1>1, <1>h, <1>u, <1>c, <2>1, <2>2, <2>t
      DEF SessionTypes, Waking, Becomes, StackLaws, Follow, Laters, Complete, effort
  <2> QED  BY <1>1, <1>h, <1>u, <1>c, <2>1, <2>2, <2>t, <2>l, <2>h, <2>n, <2>p, <2>w DEF SessionInv
<1>2. CASE ~inflight /\ inflight' = TRUE /\ task' = Goes(t, <<"insert">>)
  <2>0. "insert" \in StepNames \ {"clear", "lock", "undefer"}  BY DEF StepNames, Finals, Laters
  <2>1. Stacks' /\ Becomes(t, "insert", {"insert"} \cup Rests[t], Rests[t])
      BY <1>i, <1>h, <1>2, <2>0, AwaitsOne
  <2>t. SessionTypes'  BY <1>i, <1>2 DEF SessionTypes, SessionTurnType, effort, process, ghosts, counters
  <2>l. Locks'
      BY <1>i, <1>s, <1>2, <1>h, <1>u, <1>c, <2>1, UrgentAre, <2>t, NoTask
      DEF SessionTypes, Locks, Becomes, StackLaws, Follow, Laters
  <2>h. Handing'
      BY <1>i, <1>s, <1>2, <1>h, <1>u, <1>c, <2>1, UrgentAre, <2>t
      DEF SessionTypes, Locks, Handing, HandedOver, Becomes, StackLaws, Follow, Laters, Complete, process,
         ghosts
  <2>n. Noting'
      BY <1>i, <1>s, <1>2, <1>h, <1>u, <1>c, <2>1, UrgentAre, <2>t
      DEF SessionTypes, Locks, Noting, Due, Becomes, StackLaws, Follow, Laters, Complete, process, ghosts
  <2>p. Spacing'
      BY <1>i, <1>s, <1>2, <1>h, <1>u, <1>c, <2>1, UrgentAre, <2>t, UrgentIs
      DEF SessionTypes, Spacing, ResetBegins, Becomes, StackLaws, effort, ghosts, counters
  <2>k. \A u \in Tasks : u # t => Heads'[u] = Heads[u] /\ Alls'[u] = Alls[u]
      BY <1>s, <2>1 DEF Becomes, StackLaws
  <2>m. Heads'[t] = "insert" /\ Alls'[t] = {"insert"} \cup Rests[t] /\ Alls[t] = {Heads[t]} \cup Rests[t]
      BY <1>h, <1>s, <2>1 DEF Becomes, StackLaws, Finals, Laters
  <2>w. Waking'
    <3>1. effortRespawning' => \E u \in Tasks : "undefer" \in Alls'[u]
        BY <1>h, <1>i, <2>k, <2>m DEF Waking, effort
    <3>2. \A u \in Tasks : hrow'[u] = "queued" => Heads'[u] = "wait"  BY <1>h, <1>i, <2>k, <2>m DEF Waking
    <3>3. resetting' => \E u \in Tasks : "release" \in Alls'[u]  BY <1>2, <1>h, <1>i, <2>k, <2>m DEF Waking
    <3>4. inflight' => \E u \in Tasks : Alls'[u] \cap {"insert", "wait", "do"} # {}  BY <2>m
    <3>5. rows' > 0 => \/ sessionDrains' > 0 \/ turn'.kind # "none" \/ resetting'
                       \/ \E u \in Tasks : Heads'[u] = "claim" \/ "drain" \in Alls'[u]
        BY <1>i, <1>h, <2>k, <2>m DEF Waking, SessionTypes
    <3> QED  BY <3>1, <3>2, <3>3, <3>4, <3>5 DEF Waking
  <2> QED  BY <1>2, <1>h, <1>u, <1>c, <2>1, UrgentAre, <2>t, <2>l, <2>h, <2>n, <2>p, <2>w DEF SessionInv
<1>3. CASE ~inflight /\ inflight' = TRUE /\ task' = Goes(t, <<"settled", "do">>)
  <2>0. /\ <<"settled", "do">> \in Seq(StepNames) /\ <<"settled", "do">> # <<>> /\
            StackOk(<<"settled", "do">>)
        /\ Head(<<"settled", "do">>) = "settled"
        /\ AllOf(<<"settled", "do">>) = {"settled", "do"} /\ RestOf(<<"settled", "do">>) = {"do"}
    <3>1. Head(<<"settled", "do">>) = "settled"  OBVIOUS
    <3> QED  BY <3>1, Lists
  <2>1. Stacks' /\ Becomes(t, "settled", {"settled", "do"} \cup Rests[t], {"do"} \cup Rests[t])
    <3>1. Stacks' /\ Becomes(t, Head(<<"settled", "do">>), AllOf(<<"settled",
              "do">>) \cup Rests[t], RestOf(<<"settled", "do">>) \cup Rests[t])
        BY <1>i, <1>h, <1>3, <2>0, Awaits
    <3> QED  BY <2>0, <3>1
  <2>t. SessionTypes'  BY <1>i, <1>3 DEF SessionTypes, SessionTurnType, effort, process, ghosts, counters
  <2>l. Locks'
      BY <1>i, <1>s, <1>3, <1>h, <1>u, <1>c, <2>1, UrgentAre, <2>t, NoTask
      DEF SessionTypes, Locks, Becomes, StackLaws, Follow, Laters
  <2>h. Handing'
      BY <1>i, <1>s, <1>3, <1>h, <1>u, <1>c, <2>1, UrgentAre, <2>t
      DEF SessionTypes, Locks, Handing, HandedOver, Becomes, StackLaws, Follow, Laters, Complete, process,
         ghosts
  <2>n. Noting'
      BY <1>i, <1>s, <1>3, <1>h, <1>u, <1>c, <2>1, UrgentAre, <2>t
      DEF SessionTypes, Locks, Noting, Due, Becomes, StackLaws, Follow, Laters, Complete, process, ghosts
  <2>p. Spacing'
      BY <1>i, <1>s, <1>3, <1>h, <1>u, <1>c, <2>1, UrgentAre, <2>t, UrgentIs
      DEF SessionTypes, Spacing, ResetBegins, Becomes, StackLaws, effort, ghosts, counters
  <2>w. Waking'
      BY <1>i, <1>s, <1>3, <1>h, <1>u, <1>c, <2>1, UrgentAre, <2>t
      DEF SessionTypes, Waking, Becomes, StackLaws, Follow, Laters, Complete, effort
  <2> QED  BY <1>3, <1>h, <1>u, <1>c, <2>1, UrgentAre, <2>t, <2>l, <2>h, <2>n, <2>p, <2>w DEF SessionInv
<1> QED  BY <1>1, <1>2, <1>3

LEMMA InterruptKeeps ==
  ASSUME SessionAssumption, SessionInv, NEW t \in Tasks, WaitInterrupts(t)
  PROVE  SessionInv'
<1> USE DEF WaitInterrupts
<1>i. SessionTypes /\ Stacks /\ Locks /\ Handing /\ Noting /\ Spacing /\ Waking  BY DEF SessionInv
<1>s. StackLaws  BY <1>i, StackFacts
<1>h. Heads[t] = "wait" /\ Heads[t] \in Finals  BY DEF Heads, Step, Finals, Laters
<1>e. \A u \in Tasks : Heads[u] \notin UrgentSteps  BY UrgentIs
<1>0. task' = Goes(t, <<"kill", "start", "do">>) \/ task' = Goes(t, <<"do">>)  BY ReloadThenDo
<1>1. CASE task' = Goes(t, <<"kill", "start", "do">>)
  <2>0. /\ <<"kill", "start", "do">> \in Seq(StepNames) /\ <<"kill", "start", "do">> # <<>>
        /\ StackOk(<<"kill", "start", "do">>) /\ Head(<<"kill", "start", "do">>) = "kill"
        /\ AllOf(<<"kill", "start", "do">>) = {"kill", "start", "do"} /\
                  RestOf(<<"kill", "start", "do">>) = {"start", "do"}
    <3>1. Head(<<"kill", "start", "do">>) = "kill"  OBVIOUS
    <3> QED  BY <3>1, Lists
  <2>1. Stacks' /\ Becomes(t, "kill", {"kill", "start", "do"} \cup Rests[t], {"start", "do"} \cup Rests[t])
    <3>1. Stacks' /\ Becomes(t, Head(<<"kill", "start", "do">>), AllOf(<<"kill", "start",
              "do">>) \cup Rests[t], RestOf(<<"kill", "start", "do">>) \cup Rests[t])
        BY <1>i, <1>h, <1>1, <2>0, Awaits
    <3> QED  BY <2>0, <3>1
  <2>t. SessionTypes'  BY <1>i, <1>1 DEF SessionTypes, SessionTurnType, effort, process, ghosts, counters
  <2>l. Locks'
      BY <1>i, <1>s, <1>1, <1>h, <1>e, <2>1, UrgentAre, <2>t, NoTask
      DEF SessionTypes, Locks, Becomes, StackLaws, Follow, Laters
  <2>h. Handing'
      BY <1>i, <1>s, <1>1, <1>h, <1>e, <2>1, UrgentAre, <2>t
      DEF SessionTypes, Locks, Handing, HandedOver, Becomes, StackLaws, Follow, Laters, Complete, process,
         ghosts
  <2>n. Noting'
      BY <1>i, <1>s, <1>1, <1>h, <1>e, <2>1, UrgentAre, <2>t
      DEF SessionTypes, Locks, Noting, Due, Becomes, StackLaws, Follow, Laters, Complete, process, ghosts
  <2>p. Spacing'
      BY <1>i, <1>s, <1>1, <1>h, <1>e, <2>1, UrgentAre, <2>t, UrgentIs
      DEF SessionTypes, Spacing, ResetBegins, Becomes, StackLaws, effort, ghosts, counters
  <2>k. \A u \in Tasks : u # t => Heads'[u] = Heads[u] /\ Alls'[u] = Alls[u]
      BY <1>s, <2>1 DEF Becomes, StackLaws
  <2>m. Heads'[t] = "kill" /\ Alls'[t] = {"kill", "start", "do"} \cup Rests[t] /\
            Alls[t] = {"wait"} \cup Rests[t]
      BY <1>h, <1>s, <2>1 DEF Becomes, StackLaws, Finals, Laters
  <2>w. Waking'
    <3>1. effortRespawning' => \E u \in Tasks : "undefer" \in Alls'[u]
        BY <1>i, <2>k, <2>m DEF Waking, effort
    <3>2. \A u \in Tasks : hrow'[u] = "queued" => Heads'[u] = "wait"  BY <1>i, <2>k, <2>m DEF Waking
    <3>3. resetting' => \/ \E u \in Tasks : "release" \in Alls'[u]
                        \/ inflight' /\ \E u \in Tasks : "do" \in Alls'[u]
        BY <1>i, <2>k, <2>m DEF Waking
    <3>4. inflight' => \E u \in Tasks : Alls'[u] \cap {"insert", "wait", "do"} # {}  BY <2>m
    <3>5. rows' > 0 => \/ sessionDrains' > 0 \/ turn'.kind # "none" \/ resetting'
                       \/ \E u \in Tasks : Heads'[u] = "claim" \/ "drain" \in Alls'[u]
        BY <1>i, <1>h, <2>k, <2>m DEF Waking, SessionTypes
    <3> QED  BY <3>1, <3>2, <3>3, <3>4, <3>5 DEF Waking
  <2> QED  BY <1>1, <1>h, <1>e, <2>1, UrgentAre, <2>t, <2>l, <2>h, <2>n, <2>p, <2>w DEF SessionInv
<1>2. CASE task' = Goes(t, <<"do">>)
  <2>0. "do" \in StepNames \ {"clear", "lock", "undefer"}  BY DEF StepNames, Finals, Laters
  <2>1. Stacks' /\ Becomes(t, "do", {"do"} \cup Rests[t], Rests[t])  BY <1>i, <1>h, <1>2, <2>0, AwaitsOne
  <2>t. SessionTypes'  BY <1>i, <1>2 DEF SessionTypes, SessionTurnType, effort, process, ghosts, counters
  <2>l. Locks'
      BY <1>i, <1>s, <1>2, <1>h, <1>e, <2>1, UrgentAre, <2>t, NoTask
      DEF SessionTypes, Locks, Becomes, StackLaws, Follow, Laters
  <2>h. Handing'
      BY <1>i, <1>s, <1>2, <1>h, <1>e, <2>1, UrgentAre, <2>t
      DEF SessionTypes, Locks, Handing, HandedOver, Becomes, StackLaws, Follow, Laters, Complete, process,
         ghosts
  <2>n. Noting'
      BY <1>i, <1>s, <1>2, <1>h, <1>e, <2>1, UrgentAre, <2>t
      DEF SessionTypes, Locks, Noting, Due, Becomes, StackLaws, Follow, Laters, Complete, process, ghosts
  <2>p. Spacing'
      BY <1>i, <1>s, <1>2, <1>h, <1>e, <2>1, UrgentAre, <2>t, UrgentIs
      DEF SessionTypes, Spacing, ResetBegins, Becomes, StackLaws, effort, ghosts, counters
  <2>k. \A u \in Tasks : u # t => Heads'[u] = Heads[u] /\ Alls'[u] = Alls[u]
      BY <1>s, <2>1 DEF Becomes, StackLaws
  <2>m. Heads'[t] = "do" /\ Alls'[t] = {"do"} \cup Rests[t] /\ Alls[t] = {"wait"} \cup Rests[t]
      BY <1>h, <1>s, <2>1 DEF Becomes, StackLaws, Finals, Laters
  <2>w. Waking'
    <3>1. effortRespawning' => \E u \in Tasks : "undefer" \in Alls'[u]
        BY <1>i, <2>k, <2>m DEF Waking, effort
    <3>2. \A u \in Tasks : hrow'[u] = "queued" => Heads'[u] = "wait"  BY <1>i, <2>k, <2>m DEF Waking
    <3>3. resetting' => \/ \E u \in Tasks : "release" \in Alls'[u]
                        \/ inflight' /\ \E u \in Tasks : "do" \in Alls'[u]
        BY <1>i, <2>k, <2>m DEF Waking
    <3>4. inflight' => \E u \in Tasks : Alls'[u] \cap {"insert", "wait", "do"} # {}  BY <2>m
    <3>5. rows' > 0 => \/ sessionDrains' > 0 \/ turn'.kind # "none" \/ resetting'
                       \/ \E u \in Tasks : Heads'[u] = "claim" \/ "drain" \in Alls'[u]
        BY <1>i, <1>h, <2>k, <2>m DEF Waking, SessionTypes
    <3> QED  BY <3>1, <3>2, <3>3, <3>4, <3>5 DEF Waking
  <2> QED  BY <1>2, <1>h, <1>e, <2>1, UrgentAre, <2>t, <2>l, <2>h, <2>n, <2>p, <2>w DEF SessionInv
<1> QED  BY <1>0, <1>1, <1>2

LEMMA SessionSteps == ASSUME SessionAssumption PROVE SessionInv /\ [SessionNext]_SessionVars => SessionInv'
<1> SUFFICES ASSUME SessionInv, [SessionNext]_SessionVars PROVE SessionInv'  OBVIOUS
<1>1. ASSUME NEW t \in Tasks, SessionStep(t) PROVE SessionInv'
  <2>1. CASE DrainAwaited(t) \/ ClaimTurn(t) \/ EndHandoff(t) \/ EndPerson(t)
      BY <2>1, AwaitedKeeps, ClaimKeeps, HandoffKeeps, PersonEndKeeps
  <2>2. CASE Undefer(t) \/ Begin(t) \/ Settled(t) \/ InsertHandoff(t)
      BY <2>2, UndeferKeeps, BeginKeeps, SettledKeeps, InsertKeeps
  <2>3. CASE WaitOver(t) \/ WaitSkips(t) \/ WaitInterrupts(t) \/ DoReset(t)
      BY <2>3, WaitOverKeeps, WaitSkipsKeeps, InterruptKeeps, DoKeeps
  <2>4. CASE ResetLocks(t) \/ ResetReleases(t) \/ KillProc(t) \/ ClearSession(t) \/ StartProc(t)
      BY <2>4, LockKeeps, ReleaseKeeps, KillKeeps, ClearKeeps, SpawnKeeps
  <2> QED  BY <1>1, <2>1, <2>2, <2>3, <2>4 DEF SessionStep
<1>2. CASE DrainRuns \/ PersonWrites \/ Finalize \/ EffortChange \/ OperatorReset
    BY <1>2, DrainKeeps, PersonKeeps, FinalizeKeeps, EffortKeeps, OperatorKeeps
<1>3. CASE WriteNote \/ IntervalPasses \/ ProcDies \/ SessionRespawn
    BY <1>3, NoteKeeps, IntervalKeeps, DeathKeeps, RespawnKeeps
<1>4. CASE UNCHANGED SessionVars
  <2>1. Stacks' /\ Heads' = Heads /\ Alls' = Alls /\ Rests' = Rests
      BY <1>4, Stays DEF SessionInv, SessionVars
  <2> USE <1>4, <2>1 DEF SessionInv, SessionVars
  <2>2. SessionTypes' /\ Locks'  BY DEF SessionTypes, Locks
  <2>3. Handing' /\ Noting'  BY DEF Handing, HandedOver, Noting, Due
  <2>4. Spacing' /\ Waking'  BY DEF Spacing, Waking
  <2> QED  BY <2>2, <2>3, <2>4
<1> QED  BY <1>1, <1>2, <1>3, <1>4 DEF SessionNext

LEMMA SessionSafe ==
  ASSUME SessionAssumption, SessionInv
  PROVE  HandedOver /\ ResetsSpaced /\ RestsClean /\ (MaxOperator = 0 => NoteNotWasted)
<1> USE DEF SessionInv
<1>1. HandedOver  BY DEF Handing
<1>2. ResetsSpaced  BY DEF Spacing, ResetsSpaced, SessionTypes
<1>3. MaxOperator = 0 => NoteNotWasted  BY DEF Noting, NoteNotWasted
<1>4. RestsClean
  <2> SUFFICES ASSUME \A t \in Tasks : task[t] = <<>>, sessionDrains = 0
               PROVE  ~inflight /\ ~resetting /\ ~effortRespawning /\ ~Queued
      BY DEF RestsClean
  <2>1. \A t \in Tasks : Heads[t] = "none" /\ Alls[t] = {}  BY StackFacts DEF StackLaws
  <2>2. ~inflight /\ ~effortRespawning  BY <2>1 DEF Waking
  <2>3. ~resetting  BY <2>1, <2>2 DEF Waking
  <2>4. turn.kind = "none"  BY <2>1 DEF Locks
  <2>5. ~(rows > 0)  BY <2>1, <2>3, <2>4 DEF Waking
  <2>6. \A t \in Tasks : hrow[t] # "queued"  BY <2>1 DEF Waking
  <2> QED  BY <2>2, <2>3, <2>5, <2>6 DEF Queued
<1> QED  BY <1>1, <1>2, <1>3, <1>4

\* For any rows, reviews, crossings of the limits, effort changes, deaths and requests, and any
\* resets of an operator: no person's message is answered by a session that has handed over
\* (session_policy_before_claim, begin_reset and do_reset).
THEOREM HandedOverHolds == ASSUME SessionAssumption PROVE SessionSpec => []HandedOver
<1>1. SessionInv => HandedOver  BY SessionSafe
<1> QED  BY <1>1, SessionStart, SessionSteps, PTL DEF SessionSpec

\* For the same: the triggers, the handoff turn, its timeout and both callers of do_reset do not
\* reset a shard twice within RESET_MIN_INTERVAL_S, as long as no operator and no effort change
\* takes part.
THEOREM ResetsSpacedHolds == ASSUME SessionAssumption PROVE SessionSpec => []ResetsSpaced
<1>1. SessionInv => ResetsSpaced  BY SessionSafe
<1> QED  BY <1>1, SessionStart, SessionSteps, PTL DEF SessionSpec

\* For the same: when every task has ended and the process is up, no reset is half done, no claim
\* is held and no row waits for a wake (finish_reset and effort_on_turn_end).
THEOREM RestsCleanHolds == ASSUME SessionAssumption PROVE SessionSpec => []RestsClean
<1>1. SessionInv => RestsClean  BY SessionSafe
<1> QED  BY <1>1, SessionStart, SessionSteps, PTL DEF SessionSpec

\* Where no operator resets the shard, no note is rotated away by a spawn that does not read it
\* (consume_handoff): an operator's cold reset waits for no lock (handle_agent_reset).
THEOREM NoteNotWastedHolds ==
  ASSUME SessionAssumption, MaxOperator = 0
  PROVE  SessionSpec => []NoteNotWasted
<1>1. SessionInv => NoteNotWasted  BY SessionSafe
<1> QED  BY <1>1, SessionStart, SessionSteps, PTL DEF SessionSpec
=============================================================================
