------------------------------ MODULE Inbound ------------------------------
(***************************************************************************)
(* A message on its way from Discord to the queue: on_message, the reply   *)
(* gate, the guest budget and send_to_agent_server of bin/relay.py, route  *)
(* of lib/routing.py, the spool and bin/flush-deferred-messages.py, and    *)
(* handle_message of bin/agent-server.py at the other end; and the         *)
(* operator's commands, which on_message takes out before all of that.     *)
(*                                                                         *)
(* One channel.  Each message is a task of the relay; tasks give way at    *)
(* the classifier, the downloads and the POST.  The flusher is another     *)
(* process that runs now and then.                                         *)
(***************************************************************************)
EXTENDS Naturals, FiniteSets

CONSTANTS
  Channel,       \* the channel's entry: listed, mentionOnly, owned, optOut, unlistedOk
  MaxMsgs,       \* bound: messages
  GuestLimit,    \* GUEST_TURN_LIMIT
  VolleyLimit,   \* messages in VOLLEY_WINDOW_SEC that make a volley
  MaxCalls,      \* classifier calls per window
  InDepth,       \* QUEUE_DEPTH_LIMIT
  MaxFaults      \* bound: lost answers, flusher deaths and relay restarts together

InboundAssumption ==
  /\ {MaxMsgs, GuestLimit, VolleyLimit, MaxCalls, InDepth, MaxFaults} \subseteq Nat
  /\ DOMAIN Channel = {"listed", "mentionOnly", "owned", "optOut", "unlistedOk"}

Msgs == 1..MaxMsgs
\* Who speaks, and whether an agent is mentioned.
Speakers == {"person", "personNames", "guest", "guestNames"}
Mentions(k) == k \in {"personNames", "guestNames"}
IsBot(k) == k \in {"guest", "guestNames"}

VARIABLES
  itask,      \* [Msgs -> where its relay task is, "none" before it is posted]
  humans,     \* people's messages in the volley window
  spoke,      \* has an agent posted within PARTICIPATION_SEC?
  asks,       \* classifier calls of the window
  classifying,\* the message that holds the channel's lock, 0 when free
  guestTurns, announced,
  told,       \* notices posted since a person spoke
  file,       \* [Msgs -> "none", "spool", "stale", "invalid"]
  old,        \* spooled messages older than MAX_AGE_HOURS
  firing,     \* the message whose 202 the flusher has, 0 when none
  irow,       \* [Msgs -> "none", "queued", "done", "flushed"]
  runs,       \* [Msgs -> turns it was given to]
  up,         \* is the server up?
  faults,     \* faults so far
  vanished    \* messages a relay restart or a failed spool write dropped

InboundVars == <<itask, humans, spoke, asks, classifying, guestTurns, announced, told, file,
                 old, firing, irow, runs, up, faults, vanished>>
gate == <<humans, spoke, asks>>
guests == <<guestTurns, announced, told>>
spool == <<file, old, firing>>
server == <<irow, runs, up>>

InboundInit ==
  /\ itask = [m \in Msgs |-> "none"]
  /\ humans = 0 /\ spoke = FALSE /\ asks = 0 /\ classifying = 0
  /\ guestTurns = 0 /\ announced = FALSE /\ told = 0
  /\ file = [m \in Msgs |-> "none"] /\ old = {} /\ firing = 0
  /\ irow = [m \in Msgs |-> "none"] /\ runs = [m \in Msgs |-> 0] /\ up = TRUE
  /\ faults = 0 /\ vanished = {}

----------------------------------------------------------------------------
(* The relay *)

\* route_message: does the channel's entry route this message?  An unlisted channel
\* does on a mention only, and only when it is opted in.
Routes(k) ==
  IF ~Channel.listed THEN Channel.unlistedOk /\ Mentions(k)
  ELSE \/ Mentions(k)
       \/ ~Channel.mentionOnly /\ ~IsBot(k) /\ (Channel.owned \/ ~Channel.optOut)

\* ReplyGate.decide, before the classifier: engage, silent or ask.
Decide(k, replies) ==
  IF Channel.mentionOnly \/ Mentions(k) \/ replies = "agent" THEN "engage"
  ELSE IF replies = "person" \/ (humans + 1 >= VolleyLimit /\ ~spoke) THEN "silent"
  ELSE "ask"

Goes(m, k, verdict) ==
  itask' = [itask EXCEPT ![m] = CASE verdict = "ask" -> "ask"
                                  [] verdict = "engage" /\ Routes(k) -> "send"
                                  [] OTHER -> "dropped"]

More == \E m \in Msgs : itask[m] = "none"
Posted == CHOOSE m \in Msgs : itask[m] = "none" /\ \A n \in Msgs : itask[n] = "none" => m <= n

Announced_Kept == announced
Announced == FALSE

\* on_message of a person: the guest budget refills, the gate decides.
PersonPosts(k, replies) ==
  /\ More /\ ~IsBot(k)
  /\ Goes(Posted, k, Decide(k, replies))
  /\ humans' = humans + 1
  /\ guestTurns' = 0 /\ announced' = Announced /\ told' = 0
  /\ UNCHANGED <<spoke, asks, classifying, spool, server, faults, vanished>>

\* parse_sys_command found a command, or a slash command came (on_interaction goes the
\* same way): neither the gate nor the guest budget sees it.  Only the owner's acts, and
\* only on an agent that is named or is the channel's own; another is answered at once.
Obeys(owner, named) == owner /\ (named \/ Channel.owned)
CommandPosts(owner, named) ==
  /\ More
  /\ itask' = [itask EXCEPT ![Posted] = IF Obeys(owner, named) THEN "command" ELSE "dropped"]
  /\ UNCHANGED <<gate, classifying, guests, spool, server, faults, vanished>>

\* allow_bot_message: a guest must mention an agent, and the budget must last.  The
\* first one over the limit is announced.
GuestPosts(k) ==
  /\ More /\ IsBot(k)
  /\ IF ~Mentions(k)
     THEN Goes(Posted, k, "silent") /\ UNCHANGED guests
     ELSE /\ guestTurns' = guestTurns + 1
          /\ Goes(Posted, k, IF guestTurns' <= GuestLimit THEN "engage" ELSE "silent")
          /\ announced' = (announced \/ guestTurns' > GuestLimit)
          /\ told' = IF guestTurns' > GuestLimit /\ ~announced THEN told + 1 ELSE told
  /\ UNCHANGED <<gate, classifying, spool, server, faults, vanished>>

\* tier2: the channel's lock, an account that is not paused, a call left in the window.
Classify(m) ==
  /\ itask[m] = "ask" /\ classifying = 0 /\ asks < MaxCalls
  /\ classifying' = m
  /\ asks' = asks + 1
  /\ itask' = [itask EXCEPT ![m] = "classify"]
  /\ UNCHANGED <<humans, spoke, guests, spool, server, faults, vanished>>

\* The lock timed out, the calls are used up, or the account is paused: silent.
AskFails(m) ==
  /\ itask[m] = "ask"
  /\ Goes(m, "person", "silent")
  /\ UNCHANGED <<gate, classifying, guests, spool, server, faults, vanished>>

Unlocked_OnVerdict(v) == IF v = "engage" THEN 0 ELSE classifying
Unlocked(v) == 0

\* The classifier answers, or fails or times out: silent.
Classified(m, verdict) ==
  /\ itask[m] = "classify" /\ verdict \in {"engage", "silent"}
  /\ classifying' = Unlocked(verdict)
  /\ Goes(m, "person", verdict)
  /\ UNCHANGED <<gate, guests, spool, server, faults, vanished>>

\* Time passes for the gate; one of our agents posts.
WindowPasses == /\ humans > 0 \/ asks > 0 \/ spoke
                /\ humans' = 0 /\ asks' = 0 /\ spoke' = FALSE
                /\ UNCHANGED <<itask, classifying, guests, spool, server, faults, vanished>>
AgentPosts == /\ ~spoke /\ spoke' = TRUE
              /\ UNCHANGED <<itask, humans, asks, classifying, guests, spool, server, faults,
                             vanished>>

----------------------------------------------------------------------------
(* POST /message *)

QueuedRows == {m \in Msgs : irow[m] = "queued"}

\* The UNIQUE message_id: a message the table has is not inserted again.
Duplicate_Queued(m) == irow[m] = "queued"
Duplicate(m) == irow[m] # "none"

\* handle_message: the depth is looked at before the duplicate is.
Full == Cardinality(QueuedRows) >= InDepth
Accepts(m) ==
  /\ up /\ ~Full
  /\ irow' = IF Duplicate(m) THEN irow ELSE [irow EXCEPT ![m] = "queued"]
  /\ UNCHANGED <<runs, up>>

\* 429 from the cost limit, 503 from the depth, or no connection.
TransientErrors == {"429", "503", "none"}
Refuses(m, status) ==
  /\ status = "503" => up /\ Full
  /\ status \in {"429", "400"} => up
  /\ status = "none" => ~up
  /\ UNCHANGED server

Spools_NoLimit(status) == status \in {"503", "none"}
Spools(status) == status \in TransientErrors

\* The task of a message that is routed: it saves the attachments, and posts.  A file that
\* cannot be saved is named in the POST and stops nothing.
Sending(m) == itask[m] = "send"

Ends(m) == itask' = [itask EXCEPT ![m] = "sent"]

PostAccepted(m) ==
  /\ Sending(m) /\ Accepts(m) /\ Ends(m)
  /\ UNCHANGED <<gate, classifying, guests, spool, faults, vanished>>

\* The server has the row; the relay sees an exception and spools the message.
PostAnswerLost(m) ==
  /\ Sending(m) /\ Accepts(m) /\ Ends(m)
  /\ faults < MaxFaults
  /\ faults' = faults + 1
  /\ file' = [file EXCEPT ![m] = "spool"]
  /\ UNCHANGED <<gate, classifying, guests, old, firing, vanished>>

PostRefused(m, status) ==
  /\ Sending(m) /\ Refuses(m, status) /\ Ends(m)
  /\ file' = IF Spools(status) THEN [file EXCEPT ![m] = "spool"] ELSE file
  /\ vanished' = IF status = "400" THEN vanished \cup {m} ELSE vanished
  /\ UNCHANGED <<gate, classifying, guests, old, firing, faults>>

----------------------------------------------------------------------------
(* Operator commands *)

\* Answered in the channel, or in the log when even that fails: nothing of it is left.
Answered(m) == itask' = [itask EXCEPT ![m] = "dropped"]

\* The endpoint of the command acts: a flush drops the rows that wait, the others (clear,
\* kill, ...) leave the table.  The answer reaches the relay, or an error does.
CommandActs(m, flush) ==
  /\ itask[m] = "command" /\ up /\ Answered(m)
  /\ irow' = IF flush THEN [n \in Msgs |-> IF irow[n] = "queued" THEN "flushed" ELSE irow[n]]
                      ELSE irow
  /\ UNCHANGED <<gate, classifying, guests, spool, runs, up, faults, vanished>>

\* agent_server_post_json: no server, or it refuses: "... failed".  It is not tried again.
CommandFails(m) ==
  /\ itask[m] = "command" /\ Answered(m)
  /\ UNCHANGED <<gate, classifying, guests, spool, server, faults, vanished>>

----------------------------------------------------------------------------
(* The flusher *)

Stale_Never(m) == FALSE
Stale(m) == m \in old

TooOld(m) ==
  /\ firing = 0 /\ file[m] = "spool" /\ Stale(m)
  /\ file' = [file EXCEPT ![m] = "stale"]
  /\ UNCHANGED <<itask, gate, classifying, guests, old, firing, server, faults, vanished>>

Fire(m) ==
  /\ firing = 0 /\ file[m] = "spool" /\ ~Stale(m)
  /\ Accepts(m)
  /\ firing' = m
  /\ UNCHANGED <<itask, gate, classifying, guests, file, old, faults, vanished>>

Unlink ==
  /\ firing # 0
  /\ file' = [file EXCEPT ![firing] = "none"]
  /\ firing' = 0
  /\ UNCHANGED <<itask, gate, classifying, guests, old, server, faults, vanished>>

\* The flusher dies between the 202 and the unlink, or the answer never comes.
FlushDies ==
  /\ firing # 0 /\ faults < MaxFaults
  /\ firing' = 0
  /\ faults' = faults + 1
  /\ UNCHANGED <<itask, gate, classifying, guests, file, old, server, vanished>>

FireRefused(m, status) ==
  /\ firing = 0 /\ file[m] = "spool" /\ ~Stale(m)
  /\ Refuses(m, status)
  /\ status = "400"           \* a transient error leaves the file for the next pass
  /\ file' = [file EXCEPT ![m] = "invalid"]
  /\ UNCHANGED <<itask, gate, classifying, guests, old, firing, faults, vanished>>

Ages(m) ==
  /\ file[m] = "spool" /\ m \notin old
  /\ old' = old \cup {m}
  /\ UNCHANGED <<itask, gate, classifying, guests, file, firing, server, faults, vanished>>

----------------------------------------------------------------------------
(* The server, and restarts *)

TurnTakes(m) ==
  /\ up /\ irow[m] = "queued"
  /\ irow' = [irow EXCEPT ![m] = "done"]
  /\ runs' = [runs EXCEPT ![m] = @ + 1]
  /\ UNCHANGED <<itask, gate, classifying, guests, spool, up, faults, vanished>>

ServerUpDown ==
  /\ up' = ~up
  /\ UNCHANGED <<itask, gate, classifying, guests, spool, irow, runs, faults, vanished>>

\* The relay restarts: its tasks and what it remembers are gone, the files are not.
RelayRestarts ==
  /\ faults < MaxFaults
  /\ faults' = faults + 1
  /\ vanished' = vanished \cup {m \in Msgs : itask[m] \in {"ask", "classify", "send"}}
  /\ itask' = [m \in Msgs |-> IF itask[m] \in {"ask", "classify", "send", "command"}
                               THEN "dropped" ELSE itask[m]]
  /\ humans' = 0 /\ spoke' = FALSE /\ asks' = 0 /\ classifying' = 0
  /\ guestTurns' = 0 /\ announced' = FALSE /\ told' = 0
  /\ UNCHANGED <<spool, server>>

InboundNext ==
  \/ \E k \in Speakers, r \in {"none", "agent", "person"} : PersonPosts(k, r)
  \/ \E k \in Speakers : GuestPosts(k)
  \/ \E owner, named \in BOOLEAN : CommandPosts(owner, named)
  \/ \E m \in Msgs :
       \/ Classify(m) \/ AskFails(m) \/ PostAccepted(m) \/ PostAnswerLost(m)
       \/ TooOld(m) \/ Fire(m) \/ Ages(m) \/ TurnTakes(m)
       \/ CommandFails(m) \/ \E flush \in BOOLEAN : CommandActs(m, flush)
       \/ \E v \in {"engage", "silent"} : Classified(m, v)
       \/ \E s \in TransientErrors \cup {"400"} : PostRefused(m, s) \/ FireRefused(m, s)
  \/ WindowPasses \/ AgentPosts \/ Unlink \/ FlushDies \/ ServerUpDown \/ RelayRestarts

InboundSpec == InboundInit /\ [][InboundNext]_InboundVars

\* asyncio runs every task and its timeouts; the scheduler runs the flusher every 5
\* minutes; files get old.  The server may stay down.
InboundFairness ==
  /\ \A m \in Msgs : /\ WF_InboundVars(\E v \in {"engage", "silent"} : Classified(m, v))
                     /\ WF_InboundVars(TooOld(m)) /\ WF_InboundVars(Ages(m))
  /\ WF_InboundVars(Unlink)

----------------------------------------------------------------------------
(* Properties *)

\* A message is given to a turn at most once, however often its answer was lost, the
\* flusher died after its POST, or the message was fired again when its turn was over; and
\* not at all once the operator has flushed it, even if its copy in the spool is fired later.
TakenOnce == \A m \in Msgs : runs[m] <= IF irow[m] = "flushed" THEN 0 ELSE 1

\* A message the relay has dealt with is in the table or in a file of the spool, unless
\* the server rejected it outright: an outage, a full queue or a cost limit loses none.
NotDropped == \A m \in Msgs : itask[m] = "sent" => irow[m] # "none" \/ file[m] # "none" \/ m \in vanished

\* The budget of bot-to-bot turns holds between two messages of people, and a channel
\* whose guests are being ignored has been told so once since a person last spoke.
GuestsAreTold == /\ told <= 1
                 /\ guestTurns > GuestLimit => told = 1

\* A classifier that fails, times out or says silent gives the channel's lock back: one
\* bad answer does not leave every later ambiguous message to its timeout.
LockReturns == (classifying # 0) ~> (classifying = 0)

\* A spooled message does not stay for ever: it is delivered or set aside, even if the
\* server never comes back.
SpoolDrains == \A m \in Msgs : (file[m] = "spool") ~> (file[m] # "spool")
=============================================================================
