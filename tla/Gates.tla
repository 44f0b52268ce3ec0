-------------------------------- MODULE Gates --------------------------------
(***************************************************************************)
(* The before_claim gates of a drain: account breaker, token budget,       *)
(* weekly governor (lib/usage_gate.py, rate_limits.py, token_budget.py,    *)
(* usage_governor.py) and the operator's pause (lib/operator_pause.py).    *)
(*                                                                         *)
(* A gate defers a drain and changes nothing in the queue, so each deferral*)
(* has to leave something behind that drains again.  The shards are those  *)
(* of one agent; its role is not "monitor" (a monitor is never gated).     *)
(***************************************************************************)
EXTENDS Integers, FiniteSets

CONSTANTS
  GShards,        \* the agent's shards
  MaxTime,        \* bound: time units
  MaxMsgs,        \* bound: rows inserted
  MaxEvents,      \* bound: rate_limit_events, readings and pauses
  DefaultPause,   \* DEFAULT_PAUSE_S: a rejection without a usable reset
  MinPause,       \* TOKEN_BUDGET_MIN_PAUSE_S
  Recheck,        \* BUDGET_RECHECK_S, GOVERNOR_RECHECK_S
  Rejections,     \* resets a rejection may name (0: none), in time units from now
  PauseFor        \* minutes of an operator's pause, in time units; 0 means no end

GatesAssumption ==
  /\ MaxTime \in Nat /\ DefaultPause \in Nat \ {0} /\ MinPause \in Nat \ {0}
  /\ Recheck \in Nat \ {0} /\ Rejections \subseteq Nat /\ PauseFor \subseteq Nat

Keys == {"breaker", "budget", "governor"}
RowKinds == {"human", "machine", "call"}

VARIABLES
  now,
  queue,      \* [GShards -> kinds of the rows queued]
  gdrains,    \* shards with a drain that waits for the lock
  busy,       \* shards in a turn
  rejected,   \* rate_limit_state: [on, reset, stamped]
  over,       \* usage_in_window >= token_budget_4h
  since,      \* budget_paused_since, or -1
  weekly,     \* seven-day reading: "low", "margin" (between resume and threshold), "high"
  deferred,   \* governor_deferred of the one job
  paused,     \* [GShards -> gate.paused: "none" or the reason]
  resume,     \* [Keys -> when the armed timer sleeps to, or -1]
  manual,     \* [GShards -> operator pause: -1 none, 0 no end, else its end]
  opTimer,    \* [GShards -> armed operator timer's end, or -1]
  msgs, events

GatesVars == <<now, queue, gdrains, busy, rejected, over, since, weekly, deferred, paused,
               resume, manual, opTimer, msgs, events>>

GatesInit ==
  /\ now = 1
  /\ queue = [s \in GShards |-> {}] /\ gdrains = {} /\ busy = {}
  /\ rejected = [on |-> FALSE, reset |-> 0, stamped |-> 0]
  /\ over = FALSE /\ since = -1
  /\ weekly = "low" /\ deferred = FALSE
  /\ paused = [s \in GShards |-> "none"]
  /\ resume = [k \in Keys |-> -1]
  /\ manual = [s \in GShards |-> -1] /\ opTimer = [s \in GShards |-> -1]
  /\ msgs = 0 /\ events = 0

----------------------------------------------------------------------------
(* The world *)

\* A row arrives; an idle shard is drained (notify_enqueued).
GArrive(s, kind) ==
  /\ msgs < MaxMsgs /\ msgs' = msgs + 1
  /\ queue' = [queue EXCEPT ![s] = @ \cup {kind}]
  /\ gdrains' = IF s \in busy THEN gdrains ELSE gdrains \cup {s}
  /\ UNCHANGED <<now, busy, rejected, over, since, weekly, deferred, paused, resume,
                 manual, opTimer, events>>

\* upsert_windows: a rejection with or without a reset, or an "allowed".
RateEvent ==
  /\ events < MaxEvents /\ events' = events + 1
  /\ \/ \E d \in Rejections :
          rejected' = [on |-> TRUE, reset |-> IF d = 0 THEN 0 ELSE now + d, stamped |-> now]
     \/ rejected' = [rejected EXCEPT !.on = FALSE]
  /\ UNCHANGED <<now, queue, gdrains, busy, over, since, weekly, deferred, paused, resume,
                 manual, opTimer, msgs>>

Reading ==
  /\ events < MaxEvents /\ events' = events + 1
  /\ \/ over' = ~over /\ UNCHANGED weekly
     \/ weekly' \in {"low", "margin", "high"} \ {weekly} /\ UNCHANGED over
  /\ UNCHANGED <<now, queue, gdrains, busy, rejected, since, deferred, paused, resume,
                 manual, opTimer, msgs>>

Tick ==
  /\ now < MaxTime /\ now' = now + 1
  /\ UNCHANGED <<queue, gdrains, busy, rejected, over, since, weekly, deferred, paused,
                 resume, manual, opTimer, msgs, events>>

----------------------------------------------------------------------------
(* What the gates decide *)

\* _pause_end, breaker_state: the end of the rejection, or 0.
BreakerUntil ==
  LET end == IF rejected.reset > now THEN rejected.reset ELSE rejected.stamped + DefaultPause
  IN  IF rejected.on /\ end > now THEN end ELSE 0

\* token_budget.pause_state.
PauseState == IF since = -1 THEN over ELSE now - since < MinPause \/ over
NewSince == IF ~PauseState THEN -1 ELSE IF since = -1 THEN now ELSE since

\* usage_governor.decide, with the margin below which deferred work resumes.
Defers == IF deferred THEN weekly # "low" ELSE weekly = "high"

\* peek_claimable: a person's or a call's row goes before the machine's.
MachineOnly(s) == queue[s] = {"machine"}

Larger(a, b) == IF a > b THEN a ELSE b

\* schedule_resume: an armed timer at or before `when` is kept.
Scheduled(key, when) ==
  [resume EXCEPT ![key] = IF @ # -1 /\ @ <= when THEN @ ELSE when]

WithoutCalls_Not(s) == queue

\* fail_calls: queued calls to a paused shard are answered at once.
WithoutCalls(s) == [queue EXCEPT ![s] = @ \ {"call"}]

\* PauseStore.active: an entry without an end, or before it.
ManualOn(s) == manual[s] = 0 \/ manual[s] > now

\* operator_pause's gate: the shard has a pause that has not ended.
HeldBack(s) == ManualOn(s)

\* age_out, at a deferral: machine rows that waited too long are skipped (of those by
\* one author the newest stays, so a kind with a young row keeps it).
AgedOut(s) == {queue, [queue EXCEPT ![s] = @ \ {"machine"}]}

----------------------------------------------------------------------------
(* A drain and its gates *)

\* The verdict of usage_gate_before_claim for shard s.
Verdict(s) ==
  CASE BreakerUntil # 0 -> "breaker"
    [] BreakerUntil = 0 /\ PauseState -> "budget"
    [] BreakerUntil = 0 /\ ~PauseState /\ MachineOnly(s) /\ Defers -> "governor"
    [] OTHER -> "none"

\* The usage gate's own effects: pauses, timers, the governor's memory.
UsageGate(s) ==
  /\ since' = IF BreakerUntil # 0 THEN since ELSE NewSince
  /\ deferred' = IF Verdict(s) \in {"governor", "none"} /\ MachineOnly(s) THEN Defers ELSE deferred
  /\ paused' = [paused EXCEPT ![s] = Verdict(s)]
  /\ resume' = CASE Verdict(s) = "breaker" -> Scheduled("breaker", BreakerUntil)
                 [] Verdict(s) = "budget" -> Scheduled("budget", Larger(NewSince + MinPause, now + Recheck))
                 [] Verdict(s) = "governor" -> Scheduled("governor", now + Recheck)
                 [] OTHER -> resume

\* drain_shard: every hook runs; one reason is enough to leave the queue as it is.
GDrain(s) ==
  /\ s \in gdrains /\ s \notin busy
  /\ gdrains' = gdrains \ {s}
  /\ UsageGate(s)
  /\ IF HeldBack(s) \/ Verdict(s) # "none"
     THEN /\ IF Verdict(s) = "governor" THEN queue' \in AgedOut(s) ELSE queue' = WithoutCalls(s)
          /\ UNCHANGED busy
     ELSE /\ busy' = IF queue[s] = {} THEN busy ELSE busy \cup {s}
          \* the head decides: a call alone, then people, then the machine's rows
          /\ queue' = [queue EXCEPT ![s] = CASE "call" \in @ -> @ \ {"call"}
                                             [] "call" \notin @ /\ "human" \in @ -> @ \ {"human"}
                                             [] OTHER -> {}]
  /\ UNCHANGED <<now, rejected, over, weekly, manual, opTimer, msgs, events>>

\* finish_turn: rows that came meanwhile are drained again.
GTurnEnds(s) ==
  /\ s \in busy /\ busy' = busy \ {s}
  /\ gdrains' = IF queue[s] # {} THEN gdrains \cup {s} ELSE gdrains
  /\ UNCHANGED <<now, queue, rejected, over, since, weekly, deferred, paused, resume,
                 manual, opTimer, msgs, events>>

Woken_WithRows(key) == {s \in GShards : queue[s] # {}}

\* The shards a timer drains: all it was armed for, with or without rows.
Woken(key) == GShards

\* A resume timer fires one second after its time.
ResumeFires(key) ==
  /\ resume[key] # -1 /\ now > resume[key]
  /\ resume' = [resume EXCEPT ![key] = -1]
  /\ gdrains' = gdrains \cup Woken(key)
  /\ UNCHANGED <<now, queue, busy, rejected, over, since, weekly, deferred, paused,
                 manual, opTimer, msgs, events>>

----------------------------------------------------------------------------
(* The operator *)

\* pause: the file, the timer, and the calls that wait are answered.
OpPause(s, d) ==
  /\ events < MaxEvents /\ events' = events + 1
  /\ manual' = [manual EXCEPT ![s] = IF d = 0 THEN 0 ELSE now + d]
  /\ opTimer' = [opTimer EXCEPT ![s] = IF d = 0 THEN -1 ELSE now + d]
  /\ queue' = WithoutCalls(s)
  /\ UNCHANGED <<now, gdrains, busy, rejected, over, since, weekly, deferred, paused, resume, msgs>>

OpResume(s) ==
  /\ manual[s] # -1
  /\ manual' = [manual EXCEPT ![s] = -1]
  /\ opTimer' = [opTimer EXCEPT ![s] = -1]
  /\ gdrains' = gdrains \cup {s}
  /\ UNCHANGED <<now, queue, busy, rejected, over, since, weekly, deferred, paused, resume, msgs, events>>

\* The pause's timer: drop the entry if it is still the one armed for, and drain.
OpTimerFires(s) ==
  /\ opTimer[s] # -1 /\ now >= opTimer[s]
  /\ opTimer' = [opTimer EXCEPT ![s] = -1]
  /\ IF manual[s] = opTimer[s]
     THEN manual' = [manual EXCEPT ![s] = -1] /\ gdrains' = gdrains \cup {s}
     ELSE UNCHANGED <<manual, gdrains>>
  /\ UNCHANGED <<now, queue, busy, rejected, over, since, weekly, deferred, paused, resume, msgs, events>>

\* A restart: the pauses' file survives and re-arms its timers, expired ones are dropped,
\* the gate's memory is lost and every shard is drained.
Rearmed_Not(s) == -1

Rearmed(s) == IF manual[s] > now THEN manual[s] ELSE -1

\* PauseStore.load, and the entries whose end has passed dropped.
Loaded(s) == IF ManualOn(s) THEN manual[s] ELSE -1

GRestart ==
  /\ events < MaxEvents /\ events' = events + 1
  /\ manual' = [s \in GShards |-> Loaded(s)]
  /\ opTimer' = [s \in GShards |-> Rearmed(s)]
  /\ since' = -1 /\ deferred' = FALSE
  /\ paused' = [s \in GShards |-> "none"]
  /\ resume' = [k \in Keys |-> -1]
  /\ busy' = {} /\ gdrains' = GShards
  /\ UNCHANGED <<now, queue, rejected, over, weekly, msgs>>

GatesNext ==
  \/ \E s \in GShards, k \in RowKinds : GArrive(s, k)
  \/ RateEvent \/ Reading \/ Tick \/ GRestart
  \/ \E s \in GShards : GDrain(s) \/ GTurnEnds(s) \/ OpResume(s) \/ OpTimerFires(s)
                        \/ \E d \in PauseFor : OpPause(s, d)
  \/ \E k \in Keys : ResumeFires(k)

GatesSpec == GatesInit /\ [][GatesNext]_GatesVars

----------------------------------------------------------------------------
(* Properties *)

\* Something will look again: a shard that leaves rows in its queue has a drain waiting,
\* a turn running, a timer armed, or a pause without end that only the operator lifts.
SomethingWakes(s) ==
  \/ s \in gdrains \cup busy \/ manual[s] = 0
  \/ opTimer[s] # -1 \/ \E k \in Keys : resume[k] # -1
DeferredWakes == \A s \in GShards : queue[s] # {} => SomethingWakes(s)

\* A shard shown as paused, to which hive calls are refused, is looked at again even when
\* nothing waits in its queue: the mark never outlives its reason for good.
PausedIsLooked ==
  \A s \in GShards : paused[s] # "none" => s \in gdrains \cup busy \/ \E k \in Keys : resume[k] # -1

\* No caller waits behind a pause: a queued call to a shard whose drains are refused
\* has a drain or a turn before it.
NoCallBehindPause ==
  \A s \in GShards : "call" \in queue[s] => s \in gdrains \cup busy
=============================================================================
