------------------------------ MODULE AskUser ------------------------------
(***************************************************************************)
(* The blocking question: the ask_user tool (mcp/tools-server.py) posts a  *)
(* question through the agent server and polls for its answer; a click     *)
(* comes back through the relay; the end of the turn forgets the question. *)
(* The registry is bin/ask_handler.py, one entry per question, in memory.  *)
(***************************************************************************)
EXTENDS Naturals, FiniteSets

CONSTANTS
  Shards,      \* the shards whose turns ask
  Asks,        \* the questions; each is asked once
  Users,       \* who may click
  Allowed,     \* the authors of the turn, and the owner: a subset of Users
  MaxTurns,    \* bound: turns of a shard
  MaxFaults,   \* bound: posts that fail or outlast the tool's request, polls without a reply
  MaxRestarts  \* bound: restarts of the agent server

VARIABLES
  registry,  \* AskRegistry._asks: the entry of each question, NoAsk when there is none
  shown,     \* the questions whose buttons are on the screen
  creating,  \* handle_ask_create awaiting Discord: the questions
  asker,     \* the shard that asked a question, NoShard when nobody did yet
  turn,      \* the turn of a shard: a number, and whether it runs
  askedIn,   \* the number of the turn that asked
  tool,      \* the tool call of a question: unasked, posting, polling, or what it returned
  acked,     \* what the person who clicked was told was recorded
  hit,       \* the questions that met a fault: a slow post, a refused one, a poll lost
  restarts

AskVars == <<registry, shown, creating, asker, turn, askedIn, tool, acked, hit, restarts>>

NoShard == "no shard"
NoUser == "nobody"
NoAsk == [state |-> "unknown", by |-> NoUser]
Returned == {"answered", "timeout", "error", "died"}

AskInit ==
  /\ registry = [q \in Asks |-> NoAsk] /\ shown = {} /\ creating = {}
  /\ asker = [q \in Asks |-> NoShard] /\ turn = [s \in Shards |-> [n |-> 1, runs |-> TRUE]]
  /\ askedIn = [q \in Asks |-> 0] /\ tool = [q \in Asks |-> "unasked"]
  /\ acked = [q \in Asks |-> NoUser] /\ hit = {} /\ restarts = 0

Of(s) == {q \in Asks : asker[q] = s}
Busy(s) == \E q \in Of(s) : tool[q] \in {"posting", "polling"}

----------------------------------------------------------------------------
(* Asking *)

\* AskRegistry.create.
Entry == [state |-> "pending", by |-> NoUser]

\* The tools server is a loop of one call at a time.  The post is awaited with the entry made:
\* it is there before the message is.
Ask(s, q) ==
  /\ turn[s].runs /\ ~Busy(s) /\ tool[q] = "unasked"
  /\ tool' = [tool EXCEPT ![q] = "posting"]
  /\ asker' = [asker EXCEPT ![q] = s] /\ askedIn' = [askedIn EXCEPT ![q] = turn[s].n]
  /\ registry' = [registry EXCEPT ![q] = Entry]
  /\ creating' = creating \cup {q}
  /\ UNCHANGED <<shown, turn, acked, hit, restarts>>

Appears(q) ==
  /\ q \in creating /\ q \notin shown
  /\ shown' = shown \cup {q}
  /\ UNCHANGED <<registry, creating, asker, turn, askedIn, tool, acked, hit, restarts>>

Posted(q) ==
  /\ q \in creating /\ q \in shown
  /\ creating' = creating \ {q}
  /\ tool' = [tool EXCEPT ![q] = IF @ = "posting" THEN "polling" ELSE @]
  /\ UNCHANGED <<registry, shown, asker, turn, askedIn, acked, hit, restarts>>

\* discard_agent.
Discarded(s) == [q \in Asks |-> IF asker[q] = s THEN NoAsk ELSE registry[q]]

\* Refused, or posted and the reply lost: every question of the shard is forgotten.
PostFails(q) ==
  /\ q \in creating /\ Cardinality(hit \cup {q}) <= MaxFaults
  /\ hit' = hit \cup {q}
  /\ creating' = creating \ {q}
  /\ registry' = Discarded(asker[q])
  /\ tool' = [tool EXCEPT ![q] = IF @ = "posting" THEN "error" ELSE @]
  /\ UNCHANGED <<shown, asker, turn, askedIn, acked, restarts>>

\* agent_server_request's own timeout: the tool returns an error, the server goes on posting.
ToolGivesUp(q) ==
  /\ tool[q] = "posting" /\ Cardinality(hit) < MaxFaults
  /\ tool' = [tool EXCEPT ![q] = "error"]
  /\ hit' = hit \cup {q}
  /\ UNCHANGED <<registry, shown, creating, asker, turn, askedIn, acked, restarts>>

----------------------------------------------------------------------------
(* The click: on_component_interaction, then AskRegistry.answer *)

MayAnswer(u) == Allowed = {} \/ u \in Allowed

Recorded(q, u) ==
  /\ registry[q].state = "pending" /\ MayAnswer(u)
  /\ registry' = [registry EXCEPT ![q] = [state |-> "answered", by |-> u]]

\* handle_ask_answer: every other outcome is a note to the clicker and changes nothing.
Told(q, u) == acked' = [acked EXCEPT ![q] = u]

Click(u, q) ==
  /\ q \in shown
  /\ Recorded(q, u) /\ Told(q, u)
  /\ UNCHANGED <<shown, creating, asker, turn, askedIn, tool, hit, restarts>>

----------------------------------------------------------------------------
(* Time: a question expires; 60 s later it, or an answer, is forgotten *)

Expires(q) ==
  /\ registry[q].state = "pending" /\ q \notin creating
  /\ registry' = [registry EXCEPT ![q].state = "expired"]
  /\ UNCHANGED <<shown, creating, asker, turn, askedIn, tool, acked, hit, restarts>>

Swept_NoGrace(q) == registry[q].state \in {"answered", "expired"}
\* A minute after it was answered or expired: the tool, which polls every 2 s, has seen it
\* or lost every poll since.
Swept(q) == /\ registry[q].state \in {"answered", "expired"}
            /\ tool[q] \in {"posting", "polling"} => q \in hit

\* sweep, run by a poll for any question.
Sweep(q) ==
  /\ Swept(q)
  /\ registry' = [registry EXCEPT ![q] = NoAsk]
  /\ UNCHANGED <<shown, creating, asker, turn, askedIn, tool, acked, hit, restarts>>

----------------------------------------------------------------------------
(* The tool's loop *)

Return(q, what) == tool' = [tool EXCEPT ![q] = what]

PollTells(q) ==
  /\ tool[q] = "polling"
  /\ \/ registry[q].state = "answered" /\ Return(q, "answered")
     \/ registry[q].state \in {"expired", "unknown"} /\ Return(q, "timeout")
  /\ UNCHANGED <<registry, shown, creating, asker, turn, askedIn, acked, hit, restarts>>

\* A poll gets no reply, for a moment or for a minute.
PollLost(q) ==
  /\ tool[q] = "polling" /\ q \notin hit /\ Cardinality(hit) < MaxFaults
  /\ hit' = hit \cup {q}
  /\ UNCHANGED <<registry, shown, creating, asker, turn, askedIn, tool, acked, restarts>>

Deadline_Early(q) == TRUE
Deadline_Never(q) == FALSE
\* The deadline lies two polls behind the expiry: the last poll has told it, or was lost.
Deadline(q) == registry[q].state # "pending" /\ q \in hit

ToolTimesOut(q) ==
  /\ tool[q] = "polling" /\ Deadline(q)
  /\ Return(q, "timeout")
  /\ UNCHANGED <<registry, shown, creating, asker, turn, askedIn, acked, hit, restarts>>

----------------------------------------------------------------------------
(* The turn, and the server *)

Forgotten_Not(s) == registry
Forgotten(s) == Discarded(s)

\* process_batch's finally: the turn is over, by a result, an interrupt or a death.
TurnEnds(s) ==
  /\ turn[s].runs
  /\ turn' = [turn EXCEPT ![s].runs = FALSE]
  /\ registry' = Forgotten(s)
  /\ tool' = [q \in Asks |-> IF q \in Of(s) /\ tool[q] \in {"posting", "polling"}
                             THEN "died" ELSE tool[q]]
  /\ UNCHANGED <<shown, creating, asker, askedIn, acked, hit, restarts>>

NextTurn(s) ==
  /\ ~turn[s].runs /\ turn[s].n < MaxTurns
  /\ turn' = [turn EXCEPT ![s] = [n |-> @.n + 1, runs |-> TRUE]]
  /\ UNCHANGED <<registry, shown, creating, asker, askedIn, tool, acked, hit, restarts>>

\* The registry is not persisted; a tool that outlives the server finds its question unknown.
Restart ==
  /\ restarts < MaxRestarts /\ restarts' = restarts + 1
  /\ registry' = [q \in Asks |-> NoAsk] /\ creating' = {}
  /\ turn' = [s \in Shards |-> [turn[s] EXCEPT !.runs = FALSE]]
  /\ tool' = [q \in Asks |-> IF tool[q] = "posting" THEN "error" ELSE tool[q]]
  /\ UNCHANGED <<shown, asker, askedIn, acked, hit>>

AskNext ==
  \/ \E s \in Shards, q \in Asks : Ask(s, q)
  \/ \E u \in Users, q \in Asks : Click(u, q)
  \/ \E q \in Asks :
       \/ Appears(q) \/ Posted(q) \/ PostFails(q) \/ ToolGivesUp(q)
       \/ Expires(q) \/ Sweep(q) \/ PollTells(q) \/ PollLost(q) \/ ToolTimesOut(q)
  \/ \E s \in Shards : TurnEnds(s) \/ NextTurn(s)
  \/ Restart

AskSpec == AskInit /\ [][AskNext]_AskVars

\* Time passes; a post is answered; a poll is answered unless the server is out of reach,
\* and then the loop runs on to its deadline.
AskFairness ==
  \A q \in Asks :
    /\ WF_AskVars(Posted(q)) /\ WF_AskVars(Appears(q))
    /\ WF_AskVars(Expires(q)) /\ WF_AskVars(ToolTimesOut(q))
    /\ WF_AskVars(q \notin hit /\ PollTells(q))

----------------------------------------------------------------------------
(* Properties *)

\* A click whose answer was recorded was made while the turn that asked was running: a late
\* click never feeds an answer into a turn that no longer exists, whatever came between.
AnsweredInItsTurn ==
  [][\A q \in Asks :
       acked[q] = NoUser /\ acked'[q] # NoUser =>
         turn[asker[q]].runs /\ turn[asker[q]].n = askedIn[q]]_AskVars

\* The person was told the answer is recorded: the tool does not return anything else, unless
\* its turn ended first or a question of the shard met a fault (a post that fails
\* late forgets the answer to the next question: discard_agent takes every one of the shard).
AnswerReaches ==
  \A q \in Asks :
    acked[q] # NoUser /\ tool[q] \in {"timeout", "error"} =>
      \/ Of(asker[q]) \cap hit # {}
      \/ ~(turn[asker[q]].runs /\ turn[asker[q]].n = askedIn[q])

\* A tool call comes back, whether or not anybody clicks, the server restarts or polls fail.
ToolReturns ==
  \A q \in Asks : tool[q] \in {"posting", "polling"} ~> tool[q] \in Returned

=============================================================================
