------------------------------ MODULE Members ------------------------------
(***************************************************************************)
(* Which agents run: config/agents.yaml, the scripts that add to it        *)
(* (bin/create-agent.sh and registry.write_agent), and the two requests    *)
(* that make the running shards match it, POST /register and POST /reload. *)
(* Both work through sync_shards, which kills and forgets shards and       *)
(* starts others with awaits in between; turns and other requests run in   *)
(* those gaps.                                                             *)
(*                                                                         *)
(* An agent has one shard here.  What a kill and a start go through inside *)
(* is module Lifecycle; the bounce of shards a reload keeps is too.        *)
(***************************************************************************)
EXTENDS Naturals

CONSTANTS AgentIds,  \* agent ids
          AtBoot,    \* those in agents.yaml when the server starts
          Requests,  \* requests that may be in flight at once
          MaxMemberRequests, MaxEdits, MaxMemberRows, MaxSpawnFails

\* "none" stands for no agent in a request.
MembersAssumption == AtBoot \subseteq AgentIds /\ "none" \notin AgentIds

VARIABLES file,            \* ids in agents.yaml; {} while the file is invalid
          writer,          \* write_agent between its read and its replace
          specs,           \* shard_specs, which is agent_config's ids too
          locks,           \* agent_locks
          membersTracked,  \* agent_processes
          memberProcs,     \* processes alive per shard
          request,         \* what each request in flight has still to do
          queued,          \* rows queued per shard
          membersTurn,     \* the turn under the shard's lock
          orphans,         \* waiting turns whose shard was forgotten under them
          lateRows,        \* shards such a turn gave a row back to
          membersRaced,    \* two requests have overlapped, or one that was refused has
                           \* taken the new configuration in without acting on it
          failed,          \* shards whose spawn has raised
          membersLeft      \* what is left of each bound

MembersVars == <<file, writer, specs, locks, membersTracked, memberProcs, request, queued,
                 membersTurn, orphans, lateRows, membersRaced, failed, membersLeft>>

files  == <<file, writer>>
shards == <<specs, locks, membersTracked, memberProcs>>
memberRows   == <<queued, membersTurn, orphans, lateRows>>

NoWriter == [adds |-> "none", read |-> {}]
Free == [at |-> "free", removed |-> {}, added |-> {}, now |-> "none", want |-> "none"]

MembersInit ==
  /\ file = AtBoot
  /\ writer = NoWriter
  /\ specs = AtBoot
  /\ locks = AtBoot
  /\ membersTracked = AtBoot
  /\ memberProcs = [a \in AgentIds |-> IF a \in AtBoot THEN 1 ELSE 0]
  /\ request = [r \in Requests |-> Free]
  /\ queued = [a \in AgentIds |-> 0]
  /\ membersTurn = [a \in AgentIds |-> "none"]
  /\ orphans = [a \in AgentIds |-> 0]
  /\ lateRows = {}
  /\ membersRaced = FALSE
  /\ failed = {}
  /\ membersLeft = [requests |-> MaxMemberRequests, edits |-> MaxEdits, rows |-> MaxMemberRows,
             fails |-> MaxSpawnFails]

SpendMember(what) == membersLeft[what] > 0 /\ membersLeft' = [membersLeft EXCEPT ![what] = @ - 1]

---------------------------------------------------------------------------
\* The file.

\* The operator takes an agent out, puts one in, or breaks the file.
OperatorEdits(F) ==
  /\ SpendMember("edits")
  /\ F # file
  /\ file' = F
  /\ UNCHANGED <<writer, shards, request, memberRows, membersRaced, failed>>

\* write_agent reads the file, and replaces it with what it read and one more.
WriterReads(a) ==
  /\ SpendMember("edits")
  /\ writer = NoWriter
  /\ file # {} /\ a \notin file
  /\ writer' = [adds |-> a, read |-> file]
  /\ UNCHANGED <<file, shards, request, memberRows, membersRaced, failed>>

WriterReplaces ==
  /\ writer # NoWriter
  /\ file' = writer.read \union {writer.adds}
  /\ writer' = NoWriter
  /\ UNCHANGED <<shards, request, memberRows, membersRaced, failed, membersLeft>>

---------------------------------------------------------------------------
\* The requests.

Answering == \E r \in Requests : request[r] # Free

Arrives(r) ==
  /\ SpendMember("requests")
  /\ request[r] = Free

\* What sync_shards is told was there before: the register handler looks
\* before it loads the file anew.
OldSpecs_Late(new) == new
OldSpecs(new) == specs

\* sync_shards: the shards to remove, and once they are all forgotten the
\* locks of those to add, with no await in between.
Proceeds(r, q) ==
  /\ request' = [request EXCEPT ![r] = [q EXCEPT !.at = IF q.removed = {} THEN "starts" ELSE "removes"]]
  /\ locks' = (locks \ {q.now}) \union (IF q.removed = {} THEN q.added ELSE {})

\* POST /agents/{a}/register: 409 when the agent runs, 404 when the file does
\* not have it; an invalid file keeps the configuration there is.
Register(r, a) ==
  /\ Arrives(r)
  /\ LET new   == IF file = {} THEN specs ELSE file
         added == new \ OldSpecs(new)
     IN IF a \in membersTracked
        THEN membersRaced' = (membersRaced \/ Answering) /\ UNCHANGED <<specs, locks, request>>
        ELSE /\ specs' = new
             /\ membersRaced' = (membersRaced \/ Answering \/ (a \notin new /\ new # specs))
             /\ IF a \in new
                THEN Proceeds(r, [Free EXCEPT !.removed = OldSpecs(new) \ new, !.added = added,
                                              !.want = IF a \in added THEN "none" ELSE a])
                ELSE UNCHANGED <<locks, request>>
  /\ UNCHANGED <<files, membersTracked, memberProcs, memberRows, failed>>

\* POST /agents/{a}/reload: an invalid file is answered with its problems.
Reload(r, a) ==
  /\ Arrives(r)
  /\ a \in specs
  /\ membersRaced' = (membersRaced \/ Answering)
  /\ IF file = {}
     THEN UNCHANGED <<specs, locks, request>>
     ELSE /\ specs' = file
          /\ Proceeds(r, [Free EXCEPT !.removed = specs \ file, !.added = file \ specs])
  /\ UNCHANGED <<files, membersTracked, memberProcs, memberRows, failed>>

\* A removed shard: its process is killed, which ends a turn that was reading
\* from it ...
RemoveKills(r, a) ==
  /\ request[r].at = "removes"
  /\ a \in request[r].removed
  /\ request' = [request EXCEPT ![r].at = "forgets", ![r].now = a, ![r].removed = @ \ {a}]
  /\ memberProcs' = IF a \in membersTracked THEN [memberProcs EXCEPT ![a] = @ - 1] ELSE memberProcs
  /\ membersTracked' = membersTracked \ {a}
  /\ membersTurn' = IF a \in membersTracked /\ membersTurn[a] = "reads"
                    THEN [membersTurn EXCEPT ![a] = "died"] ELSE membersTurn
  /\ UNCHANGED <<files, specs, locks, queued, orphans, lateRows, membersRaced, failed, membersLeft>>

\* ... then it is forgotten, lock and all, and its queued rows are skipped.
RowsSkipped_Not(a) == queued
RowsSkipped(a) == [queued EXCEPT ![a] = 0]

RemoveForgets(r) ==
  LET a == request[r].now
  IN /\ request[r].at = "forgets"
     /\ Proceeds(r, request[r])
     /\ queued' = RowsSkipped(a)
     /\ membersTurn' = [membersTurn EXCEPT ![a] = "none"]
     /\ orphans' = IF membersTurn[a] = "waits" THEN [orphans EXCEPT ![a] = @ + 1] ELSE orphans
     /\ failed' = failed \ {a}
     /\ UNCHANGED <<files, specs, membersTracked, memberProcs, lateRows, membersRaced, membersLeft>>

\* The added shards are started one after another; last, the one to register
\* when it was in the configuration already but has no process.
NextStart(q) == IF q.added # {} THEN q.added
                ELSE {q.want} \ ({"none"} \union membersTracked)

StartBegins(r, a) ==
  /\ request[r].at = "starts"
  /\ a \in NextStart(request[r])
  /\ request' = [request EXCEPT ![r].at = "spawning", ![r].now = a, ![r].added = @ \ {a},
                                ![r].want = IF a = @ THEN "none" ELSE @]
  /\ locks' = locks \union {a}
  /\ UNCHANGED <<files, specs, membersTracked, memberProcs, memberRows, membersRaced, failed,
                 membersLeft>>

\* start_agent_subprocess gives up at once on a shard with no configuration.
StartEnds(r) ==
  LET a == request[r].now
  IN /\ request[r].at = "spawning"
     /\ request' = [request EXCEPT ![r].at = "starts", ![r].now = "none"]
     /\ IF a \in specs
        THEN /\ membersTracked' = membersTracked \union {a}
             /\ memberProcs' = [memberProcs EXCEPT ![a] = @ + 1]
             /\ failed' = failed \ {a}
        ELSE UNCHANGED <<membersTracked, memberProcs, failed>>
     /\ UNCHANGED <<files, specs, locks, memberRows, membersRaced, membersLeft>>

StartRaises(r) ==
  /\ SpendMember("fails")
  /\ request[r].at = "spawning"
  /\ request' = [request EXCEPT ![r].at = "starts", ![r].now = "none"]
  /\ failed' = failed \union {request[r].now}
  /\ UNCHANGED <<files, shards, memberRows, membersRaced>>

Answered(r) ==
  /\ request[r].at = "starts"
  /\ NextStart(request[r]) = {}
  /\ request' = [request EXCEPT ![r] = Free]
  /\ UNCHANGED <<files, shards, memberRows, membersRaced, failed, membersLeft>>

---------------------------------------------------------------------------
\* The turns.

RowArrives(a) ==
  /\ SpendMember("rows")
  /\ a \in specs
  /\ queued' = [queued EXCEPT ![a] = @ + 1]
  /\ UNCHANGED <<files, shards, request, membersTurn, orphans, lateRows, membersRaced, failed>>

\* A claimed turn waits for a live process before it writes.
TurnClaims(a) ==
  /\ a \in locks /\ a \notin failed
  /\ membersTurn[a] = "none" /\ queued[a] > 0
  /\ membersTurn' = [membersTurn EXCEPT ![a] = "waits"]
  /\ queued' = [queued EXCEPT ![a] = @ - 1]
  /\ UNCHANGED <<files, shards, request, orphans, lateRows, membersRaced, failed, membersLeft>>

TurnWrites(a) ==
  /\ membersTurn[a] = "waits" /\ a \in membersTracked
  /\ membersTurn' = [membersTurn EXCEPT ![a] = "reads"]
  /\ UNCHANGED <<files, shards, request, queued, orphans, lateRows, membersRaced, failed,
                 membersLeft>>

\* No process came: the rows go back to the queue.
TurnGivesUp(a) ==
  /\ membersTurn[a] = "waits" /\ a \notin membersTracked
  /\ membersTurn' = [membersTurn EXCEPT ![a] = "none"]
  /\ queued' = [queued EXCEPT ![a] = @ + 1]
  /\ UNCHANGED <<files, shards, request, orphans, lateRows, membersRaced, failed, membersLeft>>

\* Answered, or the rows recorded as crashed.
TurnEnds(a) ==
  /\ membersTurn[a] \in {"reads", "died"}
  /\ membersTurn' = [membersTurn EXCEPT ![a] = "none"]
  /\ UNCHANGED <<files, shards, request, queued, orphans, lateRows, membersRaced, failed,
                 membersLeft>>

\* A turn that outlived its shard finds a process again, or gives up.
OrphanEnds(a) ==
  /\ orphans[a] > 0
  /\ orphans' = [orphans EXCEPT ![a] = @ - 1]
  /\ IF a \in membersTracked
     THEN UNCHANGED <<queued, lateRows>>
     ELSE /\ queued' = [queued EXCEPT ![a] = @ + 1]
          /\ lateRows' = lateRows \union {a}
  /\ UNCHANGED <<files, shards, request, membersTurn, membersRaced, failed, membersLeft>>

---------------------------------------------------------------------------

MembersNext ==
  \/ \E F \in SUBSET AgentIds : OperatorEdits(F)
  \/ \E a \in AgentIds : WriterReads(a)
  \/ WriterReplaces
  \/ \E r \in Requests, a \in AgentIds : Register(r, a) \/ Reload(r, a)
  \/ \E r \in Requests, a \in AgentIds : RemoveKills(r, a)
  \/ \E r \in Requests : RemoveForgets(r)
  \/ \E r \in Requests, a \in AgentIds : StartBegins(r, a)
  \/ \E r \in Requests : StartEnds(r) \/ StartRaises(r) \/ Answered(r)
  \/ \E a \in AgentIds : \/ RowArrives(a) \/ TurnClaims(a) \/ TurnWrites(a)
                         \/ TurnGivesUp(a) \/ TurnEnds(a) \/ OrphanEnds(a)

MembersSpec == MembersInit /\ [][MembersNext]_MembersVars

---------------------------------------------------------------------------

\* When the last request is answered, the processes are those of the
\* configuration, one each: nothing was started twice, left out, or left
\* running for an agent that was taken out.  Excused: a shard whose spawn
\* raised; requests that overlapped (two of them can start one shard twice, or
\* start one the other has just removed); and a 404, which takes the edited
\* file in and leaves the shards as they were.
ProcessPerShard ==
  ~ Answering /\ ~ membersRaced =>
     \A a \in AgentIds : memberProcs[a] = (IF a \in specs \ failed THEN 1 ELSE 0)

\* A row is not left queued for an agent that is gone.  Excused, besides the
\* above: a turn that was waiting for a process when its shard was removed gives its row back
\* after the removal has emptied the queue.
NoRowForNobody ==
  ~ Answering /\ ~ membersRaced => \A a \in AgentIds \ specs : queued[a] > 0 => a \in lateRows

\* A shard has no second process, whichever requests overlap.
\* Does not hold: see the README.
OneEach == \A a \in AgentIds : memberProcs[a] <= 1

=============================================================================
