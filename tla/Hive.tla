-------------------------------- MODULE Hive --------------------------------
(***************************************************************************)
(* Hive calls between shards (lib/hive.py; the /hive routes and hooks of   *)
(* bin/agent-server.py; expire, reap_hive_rows of lib/msgqueue.py).        *)
(*                                                                         *)
(* A call is a row in the callee's queue and an entry of HiveState.open;   *)
(* its reply is a row in the caller's queue that the caller's long poll    *)
(* consumes.  The caller polls from inside its turn.  Handlers yield at    *)
(* their awaits: creating a call reads the queue depths before it picks    *)
(* the callee, and a poll looks for a reply before it looks at the call.   *)
(***************************************************************************)
EXTENDS Naturals, FiniteSets

CONSTANTS
  HShards,        \* shard ids, numbered in plan order
  AgentOf,        \* [HShards -> agent id (a number that is no shard)]
  MaxCalls,       \* bound: calls created
  MaxTurns,       \* bound: turns a person's message starts
  MaxCrashes,     \* bound: deaths of a shard's process
  HMaxRestarts,   \* bound: restarts of the server
  HMaxFaults,     \* bound: deaths and restarts together
  MaxDepth,       \* HIVE_MAX_DEPTH
  DepthLimit,     \* QUEUE_DEPTH_LIMIT
  MayPause        \* shards a breaker, a budget or an operator may pause

HiveAssumption ==
  /\ HShards \subseteq Nat /\ MaxCalls \in Nat /\ MaxDepth \in Nat \ {0}
  /\ DepthLimit \in Nat \ {0} /\ MayPause \subseteq HShards

Calls == 1..MaxCalls
Agents == {AgentOf[s] : s \in HShards}
NoTurn == [kind |-> "none", call |-> 0]
PersonTurn == [kind |-> "person", call |-> 0]
CallTurn(c) == [kind |-> "call", call |-> c]

VARIABLES
  hstate,    \* [HShards -> agent_states value]
  hturn,     \* [HShards -> active turn]
  made,      \* calls created so far: ids 1..made
  call,      \* [Calls -> [caller, callee, depth]]
  callRow,   \* [Calls -> the call row's status, with its response]
  replyRow,  \* [Calls -> the reply row's status]
  body,      \* [Calls -> bodies inserted as reply rows]
  open,      \* keys of HiveState.open
  age,       \* [Calls -> 0 fresh, 1 past expires_at, 2 past the poll's deadline: prunable soon]
  poll,      \* [Calls -> the caller's long poll: "off", "on", or "looked": no reply seen]
  asking,    \* create requests that have read the queue depths
  turns, crashes, restarts

HiveVars == <<hstate, hturn, made, call, callRow, replyRow, body, open, age, poll,
              asking, turns, crashes, restarts>>

HiveInit ==
  /\ hstate = [s \in HShards |-> "IDLE"]
  /\ hturn = [s \in HShards |-> NoTurn]
  /\ made = 0
  /\ call = [c \in Calls |-> [caller |-> 0, callee |-> 0, depth |-> 0]]
  /\ callRow = [c \in Calls |-> "none"]
  /\ replyRow = [c \in Calls |-> "none"]
  /\ body = [c \in Calls |-> {}]
  /\ open = {}
  /\ age = [c \in Calls |-> 0]
  /\ poll = [c \in Calls |-> "off"]
  /\ asking = {}
  /\ turns = 0 /\ crashes = 0 /\ restarts = 0

----------------------------------------------------------------------------
(* Waiting, deadlock, target choice *)

\* HiveState.waits_for: the shards each shard has an open call to.
WaitsFor(s) == {call[c].callee : c \in {d \in open : call[d].caller = s}}

\* What the search of would_deadlock has seen when its stack is empty: the shards that
\* are in every set that holds S and whatever its members wait for.
Closed(C) == \A s \in C : WaitsFor(s) \subseteq C
Reachable(S) == {s \in HShards : \A C \in SUBSET HShards : S \subseteq C /\ Closed(C) => s \in C}

WouldDeadlock_SelfOnly(caller, callee) == callee = caller

WouldDeadlock(caller, callee) == caller \in Reachable({callee})

\* The sort key of pick_callee: idle first, then the shorter queue, then plan order.
Better(c, d, depths) ==
  \/ hstate[c] = "IDLE" /\ hstate[d] # "IDLE"
  \/ /\ (hstate[c] = "IDLE") = (hstate[d] = "IDLE")
     /\ \/ depths[c] < depths[d]
        \/ depths[c] = depths[d] /\ c < d

\* The shards a target means: an agent's, or the one named.
Candidates(to) == IF to \in Agents THEN {s \in HShards : AgentOf[s] = to} ELSE {to}

\* pick_callee for a call: at most one shard, none when the call is refused.
Picked(to, caller, depths, paused) ==
  LET named  == to \notin Agents
      usable == {c \in Candidates(to) \ {caller} :
                   hstate[c] # "ERROR_RECOVERY" /\ c \notin paused}
      safe   == {c \in usable : ~WouldDeadlock(caller, c)}
  IN  IF named /\ to = caller THEN {}
      ELSE {c \in safe : \A d \in safe \ {c} : Better(c, d, depths)}

\* A row a wall sent back ("held") is queued too.
Waiting == {"queued", "held"}
QueuedCalls(s) == {c \in 1..made : callRow[c] \in Waiting /\ call[c].callee = s}
QueuedReplies(s) == {c \in 1..made : replyRow[c] = "queued" /\ call[c].caller = s}
\* _hive_queue_counts: every queued row, replies included.
Depths == [s \in HShards |-> Cardinality(QueuedCalls(s)) + Cardinality(QueuedReplies(s))]

\* next_depth: one more than the deepest row of the turn.
NextDepth(s) == 1 + (IF hturn[s].kind = "call" THEN call[hturn[s].call].depth ELSE 0)

----------------------------------------------------------------------------
(* The caller *)

\* handle_hive_call_create up to its await: the caller is in a turn, the depth allows.
AskCall(s, to) ==
  /\ hstate[s] = "PROCESSING" /\ hturn[s] # NoTurn
  /\ NextDepth(s) <= MaxDepth
  /\ made + Cardinality(asking) < MaxCalls
  /\ asking' = asking \cup {[caller |-> s, to |-> to, depth |-> NextDepth(s), depths |-> Depths,
                           live |-> TRUE]}
  /\ UNCHANGED <<hstate, hturn, made, call, callRow, replyRow, body, open, age, poll,
                 turns, crashes, restarts>>

OpensCall(q, c) ==
  /\ made' = made + 1
  /\ call' = [call EXCEPT ![made'] = [caller |-> q.caller, callee |-> c, depth |-> q.depth]]
  /\ callRow' = [callRow EXCEPT ![made'] = "queued"]
  /\ open' = open \cup {made'}
  /\ poll' = [poll EXCEPT ![made'] = IF q.live THEN "on" ELSE "off"]

\* The rest of it: nothing is awaited between the deadlock check and open[call_id].
PickCallee(q) ==
  /\ q \in asking
  /\ asking' = asking \ {q}
  /\ \E paused \in SUBSET MayPause :
       LET picked == Picked(q.to, q.caller, q.depths, paused)
           taken  == {c \in picked : q.depths[c] < DepthLimit}
       IN  IF taken = {} THEN UNCHANGED <<made, call, callRow, open, poll>>
           ELSE \E c \in taken : OpensCall(q, c)
  /\ UNCHANGED <<hstate, hturn, replyRow, body, age, turns, crashes, restarts>>

Expired_AnyRow(s) == {c \in 1..made : age[c] >= 1 /\ call[c].callee = s /\ callRow[c] # "expired"}

\* expire: queued rows past expires_at are skipped, their callers answered.
Expired(s) == {c \in QueuedCalls(s) : age[c] >= 1}
AfterExpire(s) ==
  /\ callRow' = [c \in Calls |-> IF c \in Expired(s) THEN "expired" ELSE callRow[c]]
  /\ replyRow' = [c \in Calls |-> IF c \in Expired(s) THEN "queued" ELSE replyRow[c]]
  /\ body' = [c \in Calls |-> IF c \in Expired(s) THEN body[c] \cup {"expired"} ELSE body[c]]

\* One pass of handle_hive_call_get: expire the callee's rows, then take the reply.
PollReply(c) ==
  /\ poll[c] = "on" /\ hturn[call[c].caller] # NoTurn
  /\ LET s == call[c].callee
         found == c \in Expired(s) \/ replyRow[c] \in {"queued", "complete"}
     IN  /\ callRow' = [d \in Calls |-> IF d \in Expired(s) THEN "expired" ELSE callRow[d]]
         /\ body' = [d \in Calls |-> IF d \in Expired(s) THEN body[d] \cup {"expired"} ELSE body[d]]
         /\ replyRow' = [d \in Calls |-> IF d = c /\ found THEN "complete"
                                         ELSE IF d \in Expired(s) THEN "queued" ELSE replyRow[d]]
         /\ poll' = [poll EXCEPT ![c] = IF found THEN "off" ELSE "looked"]
         /\ open' = IF found THEN open \ {c} ELSE open
  /\ UNCHANGED <<hstate, hturn, made, call, age, asking, turns, crashes, restarts>>

\* hive_cancel_call: forget the calls, skip the rows nobody has started.
Cancelled(S) == [c \in Calls |-> IF c \in S /\ callRow[c] \in Waiting THEN "cancelled" ELSE callRow[c]]

PollEnds(c) ==
  /\ poll' = [poll EXCEPT ![c] = "off"]
  /\ open' = open \ {c}

Overdue_Unclaimed(c) == age[c] >= 2 /\ callRow[c] \in Waiting

Overdue(c) == age[c] >= 2

\* The end of the pass: the call's own row, the deadline, or another pass.
PollCall(c) ==
  /\ poll[c] = "looked"
  /\ CASE callRow[c] = "crashed" -> PollEnds(c) /\ UNCHANGED callRow
       [] callRow[c] \in {"cancelled", "abandoned"} -> PollEnds(c) /\ UNCHANGED callRow
       [] callRow[c] \in Waiting \cup {"inprogress"} /\ c \notin open ->
            PollEnds(c) /\ UNCHANGED callRow
       [] OTHER -> IF Overdue(c)
                   THEN PollEnds(c) /\ callRow' = Cancelled({c})
                   ELSE /\ poll' = [poll EXCEPT ![c] = "on"]
                        /\ UNCHANGED <<open, callRow>>
  /\ UNCHANGED <<hstate, hturn, made, call, replyRow, body, age, asking, turns, crashes, restarts>>

\* POST /hive/call/{id}/cancel.
CancelCall(c) ==
  /\ c \in open
  /\ open' = open \ {c}
  /\ callRow' = Cancelled({c})
  /\ UNCHANGED <<hstate, hturn, made, call, replyRow, body, age, poll, asking,
                 turns, crashes, restarts>>

----------------------------------------------------------------------------
(* The shards' turns *)

\* drain_shard claims a person's row.
BeginPerson(s) ==
  /\ hstate[s] = "IDLE" /\ turns < MaxTurns
  /\ turns' = turns + 1
  /\ hstate' = [hstate EXCEPT ![s] = "PROCESSING"]
  /\ hturn' = [hturn EXCEPT ![s] = PersonTurn]
  /\ AfterExpire(s)
  /\ UNCHANGED <<made, call, open, age, poll, asking, crashes, restarts>>

\* drain_shard claims the oldest call that has not expired; a call is claimed alone.
BeginCall(s, c) ==
  /\ hstate[s] = "IDLE"
  /\ c \in QueuedCalls(s) \ Expired(s)
  /\ \A d \in QueuedCalls(s) \ Expired(s) : c <= d
  /\ hstate' = [hstate EXCEPT ![s] = "PROCESSING"]
  /\ hturn' = [hturn EXCEPT ![s] = CallTurn(c)]
  /\ callRow' = [d \in Calls |-> IF d = c THEN "inprogress"
                                 ELSE IF d \in Expired(s) THEN "expired" ELSE callRow[d]]
  /\ replyRow' = [d \in Calls |-> IF d \in Expired(s) THEN "queued" ELSE replyRow[d]]
  /\ body' = [d \in Calls |-> IF d \in Expired(s) THEN body[d] \cup {"expired"} ELSE body[d]]
  /\ UNCHANGED <<made, call, open, age, poll, asking, turns, crashes, restarts>>

CallsOf(s) == {c \in open : call[c].caller = s}

\* A caller whose turn is over polls no more, and its requests have lost their client.
Orphaned(s) == {IF q.caller = s THEN [q EXCEPT !.live = FALSE] ELSE q : q \in asking}
Unpolled(s) == [c \in Calls |-> IF c <= made /\ call[c].caller = s THEN "off" ELSE poll[c]]

\* hive_on_turn_end, with finish_turn's status: the reply is inserted, late when nobody
\* waits, and the shard's own calls are cancelled.
EndTurn(s, outcome) ==
  /\ hturn[s] # NoTurn
  /\ outcome \in {"answer", "error"}
  /\ LET c == hturn[s].call
         row == [callRow EXCEPT ![c] = IF outcome = "answer" THEN "complete" ELSE "crashed"]
         base == IF hturn[s].kind = "call" THEN row ELSE callRow
     IN  /\ callRow' = [d \in Calls |-> IF d \in CallsOf(s) /\ base[d] \in Waiting
                                        THEN "cancelled" ELSE base[d]]
         /\ IF hturn[s].kind = "call"
            THEN /\ body' = [body EXCEPT ![c] = @ \cup {outcome}]
                 /\ replyRow' = [replyRow EXCEPT ![c] = IF c \in open THEN "queued" ELSE "late"]
            ELSE UNCHANGED <<body, replyRow>>
  /\ open' = open \ CallsOf(s)
  /\ poll' = Unpolled(s)
  /\ hstate' = [hstate EXCEPT ![s] = IF @ = "PROCESSING" THEN "IDLE" ELSE @]
  /\ hturn' = [hturn EXCEPT ![s] = NoTurn]
  /\ asking' = Orphaned(s)
  /\ UNCHANGED <<made, call, age, turns, crashes, restarts>>

\* A usage wall: hold_batch queues the row again; the hooks do not run, so the
\* shard's own calls stay open.
HoldTurn(s) ==
  /\ hturn[s].kind = "call"
  /\ callRow' = [callRow EXCEPT ![hturn[s].call] = "held"]
  /\ poll' = Unpolled(s)
  /\ hstate' = [hstate EXCEPT ![s] = IF @ = "PROCESSING" THEN "IDLE" ELSE @]
  /\ hturn' = [hturn EXCEPT ![s] = NoTurn]
  /\ asking' = Orphaned(s)
  /\ UNCHANGED <<made, call, replyRow, body, open, age, turns, crashes, restarts>>

\* respawn_watcher after a death: the caller's calls are closed, the call the process
\* was answering is marked crashed; the turn itself still ends (EndTurn).
Crash(s) ==
  /\ crashes < MaxCrashes /\ crashes + restarts < HMaxFaults /\ hstate[s] # "ERROR_RECOVERY"
  /\ crashes' = crashes + 1
  /\ hstate' = [hstate EXCEPT ![s] = "ERROR_RECOVERY"]
  /\ callRow' = [d \in Calls |-> IF d \in 1..made /\ call[d].callee = s /\ callRow[d] = "inprogress"
                                 THEN "crashed" ELSE Cancelled(CallsOf(s))[d]]
  /\ open' = open \ CallsOf(s)
  /\ poll' = Unpolled(s)
  /\ asking' = Orphaned(s)
  /\ UNCHANGED <<hturn, made, call, replyRow, body, age, turns, restarts>>

Respawn(s) ==
  /\ hstate[s] = "ERROR_RECOVERY" /\ hturn[s] = NoTurn
  /\ hstate' = [hstate EXCEPT ![s] = "IDLE"]
  /\ UNCHANGED <<hturn, made, call, callRow, replyRow, body, open, age, poll, asking,
                 turns, crashes, restarts>>

----------------------------------------------------------------------------
(* Time, reaping, restarts *)

Older(c) ==
  /\ c \in 1..made /\ age[c] < 2
  /\ age' = [age EXCEPT ![c] = @ + 1]
  /\ UNCHANGED <<hstate, hturn, made, call, callRow, replyRow, body, open, poll, asking,
                 turns, crashes, restarts>>

\* HiveState.prune and reap_hive_rows, at the start of some request.
PruneReap ==
  /\ \E c \in 1..made : age[c] = 2 /\ (c \in open \/ replyRow[c] = "queued")
  /\ open' = {c \in open : age[c] < 2}
  /\ replyRow' = [c \in Calls |-> IF replyRow[c] = "queued" /\ age[c] = 2 THEN "stale" ELSE replyRow[c]]
  /\ UNCHANGED <<hstate, hturn, made, call, callRow, body, age, poll, asking,
                 turns, crashes, restarts>>

\* crash_recovery, then hive_startup_sweep: nothing asked before the restart runs after it.
HiveSwept_QueueOnly(r) == IF r = "inprogress" THEN "crashed" ELSE r
HiveSwept(r) == IF r = "inprogress" THEN "crashed" ELSE IF r \in Waiting THEN "abandoned" ELSE r

HiveRestart ==
  /\ restarts < HMaxRestarts /\ crashes + restarts < HMaxFaults
  /\ restarts' = restarts + 1
  /\ callRow' = [c \in Calls |-> HiveSwept(callRow[c])]
  /\ replyRow' = [c \in Calls |-> IF replyRow[c] = "queued" THEN "stale" ELSE replyRow[c]]
  /\ open' = {} /\ asking' = {}
  /\ poll' = [c \in Calls |-> "off"]
  /\ hstate' = [s \in HShards |-> "IDLE"]
  /\ hturn' = [s \in HShards |-> NoTurn]
  /\ UNCHANGED <<made, call, body, age, turns, crashes>>

HiveNext ==
  \/ \E s \in HShards, to \in HShards \cup Agents : AskCall(s, to)
  \/ \E q \in asking : PickCallee(q)
  \/ \E c \in 1..made : PollReply(c) \/ PollCall(c) \/ CancelCall(c) \/ Older(c)
  \/ \E s \in HShards : BeginPerson(s) \/ HoldTurn(s) \/ Crash(s) \/ Respawn(s)
  \/ \E s \in HShards, c \in 1..made : BeginCall(s, c)
  \/ \E s \in HShards, o \in {"answer", "error"} : EndTurn(s, o)
  \/ PruneReap
  \/ HiveRestart

HiveSpec == HiveInit /\ [][HiveNext]_HiveVars

\* asyncio runs the handlers, time passes, the caller's tool keeps polling.
HiveFairness ==
  \A c \in Calls : WF_HiveVars(PollReply(c)) /\ WF_HiveVars(PollCall(c)) /\ WF_HiveVars(Older(c))

----------------------------------------------------------------------------
(* Properties *)

\* No shard waits, through open calls, for itself: the graph that would_deadlock reads
\* is acyclic whatever calls are created, answered, cancelled or forgotten meanwhile.
NoWaitCycle == \A s \in HShards : s \notin Reachable(WaitsFor(s))

\* A call that no caller waits for is never started: a row that nobody has claimed yet
\* is of an open call or has expired, through cancels, deaths, walls and restarts.
QueuedIsWanted == \A c \in 1..made : callRow[c] = "queued" => c \in open \/ age[c] >= 1

\* A call is answered at most once: expire, a finished turn and a failed one never
\* both write a reply for it.
OneReply == \A c \in Calls : Cardinality(body[c]) <= 1

\* The caller's tool call returns, however the callee fares.
CallsReturn == \A c \in Calls : (poll[c] # "off") ~> (poll[c] = "off")
=============================================================================
