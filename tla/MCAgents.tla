----------------------------- MODULE MCAgents -----------------------------
(***************************************************************************)
(* The components of the agent server that keep an agent answering, side   *)
(* by side.  A behaviour is one of them (part): the others keep their      *)
(* initial state.  The small instance the configuration gives is named     *)
(* here where it is not a number.                                          *)
(***************************************************************************)
EXTENDS Hive, Shards, Recovery, Gates, Session, Lifecycle, Members, Wedge, Reaper, Switches,
        ToolLines, ChatStream

VARIABLE part      \* the component that runs in this behaviour

\* Shard 1 is agent 11's only one, shard 2 agent 12's.
AgentOfShard == [s \in {1, 2} |-> 10 + s]
\* A person's row on one channel, an urgent one on another.
TwoRows == {[shard |-> 1, chan |-> 1, kind |-> "person"],
            [shard |-> 1, chan |-> 2, kind |-> "urgent"]}

Parts == {"hive", "shards", "recovery", "gates", "session", "life", "members", "wedge",
          "reaper", "switch", "tools", "chat"}

ASSUME AgentsAssumptions ==
    /\ HiveAssumption /\ ShardsAssumption /\ RecoveryAssumption /\ GatesAssumption
    /\ SessionAssumption /\ LifecycleAssumption /\ MembersAssumption /\ WedgeAssumption
    /\ ReapAssumption /\ SwitchAssumption /\ ToolAssumption

agentsVars == <<part, HiveVars, ShardsVars, RecoveryVars, GatesVars, SessionVars, LifeVars,
                MembersVars, WedgeVars, ReapVars, SwitchVars, ToolVars, ChatVars>>

AgentsInit ==
    /\ part \in Parts
    /\ HiveInit
    /\ ShardsInit
    /\ RecoveryInit
    /\ GatesInit
    /\ SessionInit
    /\ LifeInit /\ (part = "life" \/ begun)
    /\ MembersInit
    /\ WedgeInit
    /\ ReapInit
    /\ SwitchInit
    /\ ToolInit /\ (part = "tools" \/ threads)
    /\ ChatInit

AgentsNext ==
    /\ UNCHANGED part
    /\ IF part = "hive" THEN HiveNext ELSE UNCHANGED HiveVars
    /\ IF part = "shards" THEN ShardsNext ELSE UNCHANGED ShardsVars
    /\ IF part = "recovery" THEN RecoveryNext ELSE UNCHANGED RecoveryVars
    /\ IF part = "gates" THEN GatesNext ELSE UNCHANGED GatesVars
    /\ IF part = "session" THEN SessionNext ELSE UNCHANGED SessionVars
    /\ IF part = "life" THEN LifeNext ELSE UNCHANGED LifeVars
    /\ IF part = "members" THEN MembersNext ELSE UNCHANGED MembersVars
    /\ IF part = "wedge" THEN WedgeNext ELSE UNCHANGED WedgeVars
    /\ IF part = "reaper" THEN ReapNext ELSE UNCHANGED ReapVars
    /\ IF part = "switch" THEN SwitchNext ELSE UNCHANGED SwitchVars
    /\ IF part = "tools" THEN ToolNext ELSE UNCHANGED ToolVars
    /\ IF part = "chat" THEN ChatNext ELSE UNCHANGED ChatVars

AgentsSpec == AgentsInit /\ [][AgentsNext]_agentsVars

-----------------------------------------------------------------------------
(* What each component promises *)

\* Calls between agents never wait for each other in a cycle, a queued call is one
\* whose caller still wants it or has only just given it up, and a call is replied to
\* once, through crashes and a restart of the server (hive calls).
CallsAreRight == part = "hive" => NoWaitCycle /\ QueuedIsWanted /\ OneReply

\* A row is in one turn at a time, a thief takes a channel's rows in their order, and
\* shards at rest have left nothing queued (work stealing, without usage walls).
StealsAreRight == part = "shards" => OneTurnPerRow /\ StolenInOrder /\ ServedAtRest

\* Across restarts of the server a reply is one row of the outbox, and a finished turn's
\* reply is on Discord, on its way there or discarded by an operator.
RepliesSurvive == part = "recovery" => OnceInOutbox /\ NoReplyLost

\* A shard that a breaker, a budget, the governor or an operator holds has a timer that
\* wakes it, a pause is looked at when it ends, no call waits behind a paused shard.
HeldAreWoken == part = "gates" => DeferredWakes /\ PausedIsLooked /\ NoCallBehindPause

\* A session that has written its handoff note takes no more of its agent's messages, a
\* note is not spent on a process that never sees it, resets keep their distance, and
\* nothing is left of a reset at rest.
SessionsCarryOver == part = "session" => HandedOver /\ NoteNotWasted /\ ResetsSpaced /\ RestsClean

\* Whatever operator requests and deaths cross, a shard at rest that nobody killed is up,
\* or told to be down, and a refused resume is survived.
ShardsComeBack == part = "life" => BackAtRest /\ RefusalIsSurvived

\* Agents come and go with their configuration, through spawns that raise, invalid files and
\* turns: once a request is answered, a shard has one process and a process its shard, and no
\* row is left for nobody.  Of requests that come one at a time, and where no 404 has taken a
\* new file in without acting on it; a turn that waited for its process may still give a row
\* back.  Overlapping requests may start a shard twice (Members.OneEach).
MembersAgree == part = "members" => ProcessPerShard /\ NoRowForNobody

\* The reaper kills nothing outside the tree it was given and leaves nothing of it alive;
\* an episode of a wedged shard pages once, unless the page landed and was not remembered
\* (its answer was late, the pass was killed, the file not saved) or the file dropped it.
KillsAndPagesAreSpared ==
    /\ part = "reaper" => OnlyTheTree /\ NothingLeft
    /\ part = "wedge" => PagedOnce

\* A shard at rest runs with the latest change of effort or model, or holds it for its next
\* turn, unless a spawn that had read the older value was on its way as the change came; only
\* a turn that ended without its hooks, or past them, leaves a change waiting; and the
\* followup's respawn meets no turn.
ChangesAreUsed == part = "switch" => AppliedIsUsed /\ RespawnIsAlone /\ DeferredLands

\* What the channel and the dashboard see of a turn: tool lines no denser and no more
\* than allowed, in one thread; every event and the reply, if nothing was dropped.
TurnsAreShown ==
    /\ part = "tools" => ChannelSpared /\ OneThread
    /\ part = "chat" => EventsShown /\ ReplyShown
=============================================================================
