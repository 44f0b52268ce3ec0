------------------------------- MODULE Shards -------------------------------
(***************************************************************************)
(* Shards of one agent and work stealing (lib/stealing.py, claim_batch,    *)
(* claim_stolen and steal_wait_s of lib/msgqueue.py, drain_shard,          *)
(* steal_next, maybe_steal_wake and the timers of lib/turn_loop.py,        *)
(* hold_batch and its wake of bin/agent-server.py).                        *)
(*                                                                         *)
(* A row is addressed to one shard; an idle sibling may take rows waiting  *)
(* behind a busy one.  A stolen row keeps its shard and is claimed by the  *)
(* thief.  A drain holds its shard's lock; stealing reads the depths, then *)
(* tries one victim at a time.                                             *)
(***************************************************************************)
EXTENDS Integers, FiniteSets, Sequences, FiniteSetTheorems, TLAPS

CONSTANTS
  SShards,      \* shard ids of one agent, numbered in plan order
  Arrivals,     \* the rows that may be sent: [shard, chan, kind]; channel 0 is local,
                \* kind is "person", "auto", "urgent" (priority) or "call"
  MaxRows,      \* bound: rows sent
  MaxWalls,     \* bound: turns that hit a usage wall
  MaxDeaths,    \* bound: deaths of a shard's process
  MaxStolen     \* work_stealing.max_rows

ShardsAssumption ==
  /\ SShards \subseteq Nat /\ MaxRows \in Nat /\ MaxStolen \in Nat \ {0}
  /\ \A m \in Arrivals : m.shard \in SShards /\ m.kind \in {"person", "auto", "urgent", "call"}

RowIds == 1..MaxRows

VARIABLES
  sent,       \* the rows in arrival order: [shard, chan, kind]
  rstat,      \* [RowIds -> "none", "queued", "inprogress", "over"]
  aged,       \* rows older than min_age_s
  held,       \* rows whose not_before is in the future
  sstate,     \* [SShards -> agent_states value]
  batch,      \* [SShards -> rows of the turn in progress]
  drains,     \* shards with a drain task that waits for the lock
  looking,    \* [SShards -> victims a drain that found nothing of its own still tries]
  tried,      \* [SShards -> victims tried in vain by that drain]
  wakes,      \* shards with a maybe_steal_wake task
  timers,     \* steal_timers: <<thief, victim>>
  holdWake,   \* shards with a hold timer
  walls, deaths

ShardsVars == <<sent, rstat, aged, held, sstate, batch, drains, looking, tried, wakes,
                timers, holdWake, walls, deaths>>

ShardsInit ==
  /\ sent = <<>>
  /\ rstat = [r \in RowIds |-> "none"]
  /\ aged = {} /\ held = {}
  /\ sstate = [s \in SShards |-> "IDLE"]
  /\ batch = [s \in SShards |-> {}]
  /\ drains = {} /\ wakes = {} /\ timers = {} /\ holdWake = {}
  /\ looking = [s \in SShards |-> {}]
  /\ tried = [s \in SShards |-> {}]
  /\ walls = 0 /\ deaths = 0

----------------------------------------------------------------------------
(* What a claim takes *)

SQueued(s) == {r \in 1..Len(sent) : rstat[r] = "queued" /\ sent[r].shard = s}

\* _HEAD_ORDER: priority, then an automated row yields, then age.
Rank(r) == CASE sent[r].kind = "urgent" -> 0
             [] sent[r].kind = "auto" -> 2
             [] OTHER -> 1
Before(r, t) == Rank(r) < Rank(t) \/ (Rank(r) = Rank(t) /\ r < t)

\* claim_batch: the head alone when it is a call, else every row of its channel.
OwnClaim_Mixed(s) == SQueued(s)

OwnClaim(s) ==
  LET head == {h \in SQueued(s) : \A t \in SQueued(s) \ {h} : Before(h, t)}
      rest == {r \in SQueued(s) : \E h \in head : /\ sent[r].kind # "call" /\ sent[h].kind # "call"
                                                  /\ sent[r].chan = sent[h].chan}
  IN  head \cup rest

\* _stealable, with the age floor where it applies.
Stealable(r) == sent[r].kind \in {"person", "auto"} /\ r \notin held
Ripe(r) == Stealable(r) /\ r \in aged

\* Rows of the victim's that no part of the same conversation precedes or accompanies.
Eligible_Unordered(v) == {r \in SQueued(v) : Ripe(r)}

Eligible(v) ==
  {r \in SQueued(v) :
     /\ Ripe(r)
     /\ \/ sent[r].chan = 0
        \/ /\ \A p \in 1..Len(sent) : sent[p].shard = v /\ sent[p].chan = sent[r].chan
                                        => rstat[p] # "inprogress"
           /\ \A e \in SQueued(v) : e < r /\ sent[e].chan = sent[r].chan => Ripe(e)}

\* claim_stolen: the oldest of the first eligible row's channel, at most max_rows.
StolenClaim(v) ==
  LET first == {r \in Eligible(v) : \A t \in Eligible(v) : r <= t}
      same  == {r \in Eligible(v) : \E f \in first : sent[r].chan = sent[f].chan}
  IN  {r \in same : Cardinality({t \in same : t < r}) < MaxStolen}

\* candidate_victims, thief_ready.
Busy(s) == sstate[s] \in {"PROCESSING", "ERROR_RECOVERY"}
Victims(t) == {v \in SShards \ {t} : Busy(v) /\ SQueued(v) # {}}
Ready(t) == sstate[t] = "IDLE" /\ SQueued(t) \cap held = {} /\ SQueued(t) = {}
Deepest(V) == {v \in V : \A w \in V \ {v} :
                 \/ Cardinality(SQueued(v)) > Cardinality(SQueued(w))
                 \/ Cardinality(SQueued(v)) = Cardinality(SQueued(w)) /\ v < w}

----------------------------------------------------------------------------
(* Arrival *)

\* handle_message, notify_enqueued.
Send(m) ==
  /\ Len(sent) < MaxRows
  /\ sent' = Append(sent, m)
  /\ rstat' = [rstat EXCEPT ![Len(sent) + 1] = "queued"]
  /\ IF sstate[m.shard] = "IDLE" THEN drains' = drains \cup {m.shard} /\ UNCHANGED wakes
     ELSE wakes' = wakes \cup {m.shard} /\ UNCHANGED drains
  /\ UNCHANGED <<aged, held, sstate, batch, looking, tried, timers, holdWake, walls, deaths>>

\* maybe_steal_wake: one timer per idle ready sibling and busy victim.
StealWake(s) ==
  /\ s \in wakes
  /\ wakes' = wakes \ {s}
  /\ timers' = timers \cup {p \in SShards \X SShards : Ready(p[1]) /\ p[2] \in Victims(p[1])}
  /\ UNCHANGED <<sent, rstat, aged, held, sstate, batch, drains, looking, tried, holdWake, walls, deaths>>

\* _arm_steal_timer's fire.
FireSteal_Lost(t) == drains

FireSteal(t) == drains \cup {t}

FireTimer(t, v) ==
  /\ <<t, v>> \in timers
  /\ timers' = timers \ {<<t, v>>}
  /\ drains' = FireSteal(t)
  /\ UNCHANGED <<sent, rstat, aged, held, sstate, batch, looking, tried, wakes, holdWake, walls, deaths>>

\* Rows grow old in the order they came.
Age(r) ==
  /\ r \in 1..Len(sent) /\ r \notin aged /\ 1..(r - 1) \subseteq aged
  /\ aged' = aged \cup {r}
  /\ UNCHANGED <<sent, rstat, held, sstate, batch, drains, looking, tried, wakes, timers,
                 holdWake, walls, deaths>>

----------------------------------------------------------------------------
(* The drain *)

LockFree(s) == batch[s] = {} /\ looking[s] = {} /\ tried[s] = {}

\* run_turn begins: the state flips, and a backlog behind an own turn may be stolen.
Begins(s, rows) ==
  /\ batch' = [batch EXCEPT ![s] = rows]
  /\ rstat' = [r \in RowIds |-> IF r \in rows THEN "inprogress" ELSE rstat[r]]
  /\ sstate' = [sstate EXCEPT ![s] = "PROCESSING"]

\* drain_shard under its lock: not idle, held, its own rows, or a look at the siblings.
Drain(s) ==
  /\ s \in drains /\ LockFree(s)
  /\ drains' = drains \ {s}
  /\ CASE sstate[s] # "IDLE" ->
            UNCHANGED <<batch, rstat, sstate, looking, wakes, holdWake>>
       [] sstate[s] = "IDLE" /\ SQueued(s) \cap held # {} ->
            /\ holdWake' = holdWake \cup {s}
            /\ UNCHANGED <<batch, rstat, sstate, looking, wakes>>
       [] sstate[s] = "IDLE" /\ SQueued(s) \cap held = {} /\ SQueued(s) # {} ->
            /\ Begins(s, OwnClaim(s))
            /\ wakes' = wakes \cup {s}
            /\ UNCHANGED <<looking, holdWake>>
       [] OTHER ->
            /\ looking' = [looking EXCEPT ![s] = Victims(s)]
            /\ UNCHANGED <<batch, rstat, sstate, wakes, holdWake>>
  /\ UNCHANGED <<sent, aged, held, tried, timers, walls, deaths>>

\* steal_next tries the next victim; the deepest queue goes first.
StealFrom(s, v) ==
  /\ v \in Deepest(looking[s])
  /\ IF StolenClaim(v) # {}
     THEN /\ Begins(s, StolenClaim(v))
          /\ looking' = [looking EXCEPT ![s] = {}]
          /\ tried' = [tried EXCEPT ![s] = {}]
     ELSE /\ looking' = [looking EXCEPT ![s] = @ \ {v}]
          /\ tried' = [tried EXCEPT ![s] = @ \cup {v}]
          /\ UNCHANGED <<batch, rstat, sstate>>
  /\ UNCHANGED <<sent, aged, held, drains, wakes, timers, holdWake, walls, deaths>>

\* Nothing takeable: a timer per victim with a row of a stealable kind (steal_wait_s).
StealLater(s) ==
  /\ looking[s] = {} /\ tried[s] # {}
  /\ timers' = timers \cup {<<s, v>> : v \in {w \in tried[s] : \E r \in SQueued(w) : Stealable(r)}}
  /\ tried' = [tried EXCEPT ![s] = {}]
  /\ UNCHANGED <<sent, rstat, aged, held, sstate, batch, drains, looking, wakes, holdWake, walls, deaths>>

----------------------------------------------------------------------------
(* The turn ends *)

\* finish_turn: drain again for own rows (recount) or a sibling's (maybe_steal_idle).
Redrain_OwnOnly(s) == SQueued(s) # {}
Redrain(s) == \E v \in SShards : SQueued(v) # {}

EndsTurn(s) ==
  /\ batch[s] # {}
  /\ batch' = [batch EXCEPT ![s] = {}]
  /\ rstat' = [r \in RowIds |-> IF r \in batch[s] THEN "over" ELSE rstat[r]]
  /\ drains' = IF Redrain(s) THEN drains \cup {s} ELSE drains

SEndTurn(s) ==
  /\ EndsTurn(s)
  /\ sstate' = [sstate EXCEPT ![s] = IF @ = "PROCESSING" THEN "IDLE" ELSE @]
  /\ UNCHANGED <<sent, aged, held, looking, tried, wakes, timers, holdWake, walls, deaths>>

\* hold_batch: the rows go back to their shard's queue, the shard that ran them is
\* the one whose timer is armed; no recount follows.
HitWall(s) ==
  /\ batch[s] # {} /\ sstate[s] = "PROCESSING" /\ walls < MaxWalls
  /\ walls' = walls + 1
  /\ rstat' = [r \in RowIds |-> IF r \in batch[s] THEN "queued" ELSE rstat[r]]
  /\ held' = held \cup batch[s]
  /\ holdWake' = holdWake \cup {s}
  /\ batch' = [batch EXCEPT ![s] = {}]
  /\ sstate' = [sstate EXCEPT ![s] = "IDLE"]
  /\ UNCHANGED <<sent, aged, drains, looking, tried, wakes, timers, deaths>>

\* The wall's reset passes; schedule_hold_wake's timers fire after it.
WallOver ==
  /\ held # {} /\ held' = {}
  /\ UNCHANGED <<sent, rstat, aged, sstate, batch, drains, looking, tried, wakes, timers,
                 holdWake, walls, deaths>>

HoldFires(s) ==
  /\ s \in holdWake /\ held = {}
  /\ holdWake' = holdWake \ {s}
  /\ drains' = drains \cup {s}
  /\ UNCHANGED <<sent, rstat, aged, held, sstate, batch, looking, tried, wakes, timers, walls, deaths>>

\* The process dies; the turn it was in still ends; respawn_watcher drains.
SDie(s) ==
  /\ deaths < MaxDeaths /\ sstate[s] # "ERROR_RECOVERY" /\ looking[s] = {} /\ tried[s] = {}
  /\ deaths' = deaths + 1
  /\ sstate' = [sstate EXCEPT ![s] = "ERROR_RECOVERY"]
  /\ UNCHANGED <<sent, rstat, aged, held, batch, drains, looking, tried, wakes, timers, holdWake, walls>>

Redelivers_Not(s) == drains

Redelivers(s) == drains \cup {s}

SRespawn(s) ==
  /\ sstate[s] = "ERROR_RECOVERY" /\ LockFree(s)
  /\ sstate' = [sstate EXCEPT ![s] = "IDLE"]
  /\ drains' = Redelivers(s)
  /\ UNCHANGED <<sent, rstat, aged, held, batch, looking, tried, wakes, timers, holdWake, walls, deaths>>

ShardsNext ==
  \/ \E m \in Arrivals : Send(m)
  \/ \E s \in SShards : StealWake(s) \/ Drain(s) \/ StealLater(s) \/ SEndTurn(s)
                        \/ HitWall(s) \/ HoldFires(s) \/ SDie(s) \/ SRespawn(s)
  \/ \E s, v \in SShards : FireTimer(s, v) \/ StealFrom(s, v)
  \/ \E r \in RowIds : Age(r)
  \/ WallOver

ShardsSpec == ShardsInit /\ [][ShardsNext]_ShardsVars

\* Every task that can run does, locks are granted, timers fire, time passes, and the turns
\* end of every shard but v.
ShardsFairness(v) ==
  /\ \A s \in SShards :
       /\ WF_ShardsVars(StealWake(s)) /\ WF_ShardsVars(Drain(s)) /\ WF_ShardsVars(StealLater(s))
       /\ WF_ShardsVars(HoldFires(s)) /\ WF_ShardsVars(SRespawn(s))
       /\ (s # v => WF_ShardsVars(SEndTurn(s)))
  /\ \A s, w \in SShards : WF_ShardsVars(FireTimer(s, w)) /\ WF_ShardsVars(StealFrom(s, w))
  /\ \A r \in RowIds : WF_ShardsVars(Age(r))
  /\ WF_ShardsVars(WallOver)

----------------------------------------------------------------------------
(* Properties *)

\* A row in progress belongs to one turn, its own shard's or one thief's, and a turn has
\* rows of one channel only: the reply posts where its rows came from.
OneTurnPerRow ==
  /\ \A r \in 1..Len(sent) : rstat[r] = "inprogress" <=> \E s \in SShards : r \in batch[s]
  /\ \A s, t \in SShards : s # t => batch[s] \cap batch[t] = {}
  /\ \A s \in SShards : \A r, q \in batch[s] : sent[r].shard = sent[q].shard /\ sent[r].chan = sent[q].chan

\* A thief never overtakes a conversation: while it answers a row, no older row of the
\* same shard and channel waits or is answered by another shard.
StolenInOrder ==
  \A s \in SShards : \A r \in batch[s] : sent[r].shard # s /\ sent[r].chan # 0 =>
    \A e \in 1..(r - 1) : sent[e].shard = sent[r].shard /\ sent[e].chan = sent[r].chan =>
      e \in batch[s] \/ rstat[e] = "over"

\* When nothing is scheduled and no turn runs, no row waits, unless a turn hit a wall: the
\* shard the rows went back to has no drain then.
AtRest ==
  /\ drains = {} /\ wakes = {} /\ timers = {} /\ holdWake = {} /\ held = {}
  /\ \A s \in SShards : LockFree(s) /\ sstate[s] = "IDLE"
ServedAtRest == AtRest => \A s \in SShards : SQueued(s) = {}

\* The first row of a conversation that a busy shard is not in.
WaitsBehind(r, v) ==
  /\ r \in SQueued(v) /\ Stealable(r)
  /\ sstate[v] = "PROCESSING" /\ \A p \in batch[v] : sent[p].chan # sent[r].chan
  /\ \A e \in SQueued(v) : sent[e].chan = sent[r].chan => e >= r

\* A row that waits behind a turn of v in another conversation is taken by a sibling, if that
\* turn does not end before.
TakenInTheEnd(v) ==
  \A r \in RowIds : WaitsBehind(r, v) ~> (rstat[r] # "queued" \/ sstate[v] # "PROCESSING")

----------------------------------------------------------------------------
(* The proofs.  The invariant adds to the two properties that rows beyond the last one     *)
(* sent have no state, and that a drain which looks at its siblings runs no turn.          *)

ShardsTypes ==
  /\ sent \in Seq(Arrivals) /\ Len(sent) <= MaxRows
  /\ rstat \in [RowIds -> {"none", "queued", "inprogress", "over"}]
  /\ \A r \in RowIds : rstat[r] = "none" <=> r > Len(sent)
  /\ batch \in [SShards -> SUBSET (1..Len(sent))]
  /\ looking \in [SShards -> SUBSET SShards] /\ tried \in [SShards -> SUBSET SShards]

LookersAreFree == \A s \in SShards : looking[s] # {} \/ tried[s] # {} => batch[s] = {}

ShardsInv == ShardsTypes /\ LookersAreFree /\ OneTurnPerRow /\ StolenInOrder

\* What claim_batch takes: queued rows of the shard, of one channel.
LEMMA OwnClaimIsOne ==
  ASSUME NEW s \in SShards, NEW r \in OwnClaim(s), NEW q \in OwnClaim(s)
  PROVE  /\ r \in SQueued(s) /\ q \in SQueued(s)
         /\ sent[r].chan = sent[q].chan
<1> DEFINE heads == {h \in SQueued(s) : \A t \in SQueued(s) \ {h} : Before(h, t)}
<1>1. \A h, k \in heads : h = k
  <2> SUFFICES ASSUME NEW h \in heads, NEW k \in heads, h # k PROVE FALSE
      OBVIOUS
  <2>1. Before(h, k) /\ Before(k, h)  OBVIOUS
  <2>2. Rank(h) \in Int /\ Rank(k) \in Int  BY DEF Rank
  <2>3. h \in Int /\ k \in Int  BY DEF SQueued
  <2> QED  BY <2>1, <2>2, <2>3 DEF Before
<1>2. \A x \in OwnClaim(s) : x \in SQueued(s) /\ \E h \in heads : x = h \/ sent[x].chan = sent[h].chan
    BY DEF OwnClaim
<1> QED  BY <1>1, <1>2

\* What claim_stolen takes: queued rows of the victim, of one channel, and no row without
\* the older ones of its conversation.
LEMMA StolenClaimIsOne ==
  ASSUME NEW v \in SShards, NEW r \in StolenClaim(v)
  PROVE  /\ r \in SQueued(v)
         /\ \A q \in StolenClaim(v) : sent[r].chan = sent[q].chan
<1> DEFINE first == {x \in Eligible(v) : \A t \in Eligible(v) : x <= t}
<1>1. Eligible(v) \subseteq SQueued(v) /\ \A x \in Eligible(v) : x \in Int
    BY DEF Eligible, SQueued
<1>2. \A x, y \in first : x = y  BY <1>1
<1>3. \A x \in StolenClaim(v) : x \in Eligible(v) /\ \E f \in first : sent[x].chan = sent[f].chan
    BY DEF StolenClaim
<1> QED  BY <1>1, <1>2, <1>3

LEMMA StolenClaimInOrder ==
  ASSUME ShardsAssumption, ShardsTypes, NEW v \in SShards, NEW r \in StolenClaim(v), sent[r].chan # 0,
         NEW e \in 1..(r - 1), sent[e].shard = v, sent[e].chan = sent[r].chan
  PROVE  e \in StolenClaim(v) \/ rstat[e] = "over"
<1> DEFINE first == {x \in Eligible(v) : \A t \in Eligible(v) : x <= t}
           same  == {x \in Eligible(v) : \E f \in first : sent[x].chan = sent[f].chan}
<1>1. r \in same /\ Cardinality({t \in same : t < r}) < MaxStolen  BY DEF StolenClaim
<1>2. /\ r \in SQueued(v) /\ r \in 1..Len(sent) /\ sent[r].shard = v
      /\ \A p \in 1..Len(sent) : sent[p].shard = v /\ sent[p].chan = sent[r].chan => rstat[p] # "inprogress"
      /\ \A x \in SQueued(v) : x < r /\ sent[x].chan = sent[r].chan => Ripe(x)
    BY <1>1 DEF Eligible, SQueued
<1>3. Len(sent) \in Nat /\ e \in 1..Len(sent) /\ e \in RowIds /\ e < r /\ r \in Int
  <2>1. Len(sent) \in Nat /\ Len(sent) <= MaxRows /\ MaxRows \in Nat
      BY DEF ShardsTypes, ShardsAssumption
  <2> QED  BY <1>2, <2>1 DEF RowIds
<1>4. rstat[e] \in {"queued", "over"}
  <2>1. rstat[e] # "none" /\ rstat[e] \in {"none", "queued", "inprogress", "over"}
      BY <1>3 DEF ShardsTypes
  <2> QED  BY <1>2, <1>3, <2>1
<1>5. CASE rstat[e] = "queued"
  <2>1. e \in SQueued(v) /\ Ripe(e)  BY <1>2, <1>3, <1>5 DEF SQueued
  <2>2. e \in Eligible(v)
    <3>1. \A x \in SQueued(v) : x < e /\ sent[x].chan = sent[e].chan => Ripe(x)
      <4> SUFFICES ASSUME NEW x \in SQueued(v), x < e, sent[x].chan = sent[e].chan PROVE Ripe(x)
          OBVIOUS
      <4>1. x \in Int /\ x < r  BY <1>3 DEF SQueued
      <4> QED  BY <1>2, <4>1
    <3> QED  BY <1>2, <2>1, <3>1 DEF Eligible
  <2>3. e \in same
    <3>1. PICK f \in first : sent[r].chan = sent[f].chan  BY <1>1
    <3>2. sent[e].chan = sent[f].chan  BY <3>1
    <3> QED  BY <2>2, <3>1, <3>2
  <2>4. IsFiniteSet({t \in same : t < r})
    <3>1. IsFiniteSet(1..Len(sent))  BY <1>3, FS_Interval
    <3>2. {t \in same : t < r} \subseteq 1..Len(sent)  BY DEF Eligible, SQueued
    <3> QED  BY <3>1, <3>2, FS_Subset
  <2>5. {t \in same : t < e} \subseteq {t \in same : t < r}
    <3>1. \A t \in same : t \in Int  BY DEF Eligible, SQueued
    <3> QED  BY <1>3, <3>1
  <2>6. /\ Cardinality({t \in same : t < e}) <= Cardinality({t \in same : t < r})
        /\ IsFiniteSet({t \in same : t < e})
      BY <2>4, <2>5, FS_Subset
  <2>7. Cardinality({t \in same : t < e}) \in Nat /\ Cardinality({t \in same : t < r}) \in Nat
      BY <2>4, <2>6, FS_CardinalityType
  <2>8. MaxStolen \in Nat  BY DEF ShardsAssumption
  <2>9. Cardinality({t \in same : t < e}) < MaxStolen
    <3> HIDE DEF same
    <3> QED  BY <1>1, <2>6, <2>7, <2>8
  <2> QED  BY <2>3, <2>9 DEF StolenClaim
<1> QED  BY <1>4, <1>5

\* A turn begins with queued rows of one conversation.
LEMMA TurnBegins ==
  ASSUME ShardsAssumption, ShardsInv, NEW s \in SShards, NEW rows, batch[s] = {}, Begins(s, rows),
         UNCHANGED sent,
         \A r \in rows : r \in 1..Len(sent) /\ rstat[r] = "queued",
         \A r, q \in rows : sent[r].shard = sent[q].shard /\ sent[r].chan = sent[q].chan,
         \A r \in rows : sent[r].shard # s /\ sent[r].chan # 0 =>
            \A e \in 1..(r - 1) : sent[e].shard = sent[r].shard /\ sent[e].chan = sent[r].chan =>
               e \in rows \/ rstat[e] = "over"
  PROVE  OneTurnPerRow' /\ StolenInOrder'
<1> USE DEF ShardsInv
<1>1. /\ batch'[s] = rows /\ \A t \in SShards : t # s => batch'[t] = batch[t]
      /\ \A r \in RowIds : rstat'[r] = IF r \in rows THEN "inprogress" ELSE rstat[r]
    BY DEF Begins, ShardsTypes
<1>2. Len(sent) \in Nat /\ 1..Len(sent) \subseteq RowIds
  <2>1. Len(sent) \in Nat /\ Len(sent) <= MaxRows  BY DEF ShardsTypes
  <2>2. MaxRows \in Nat  BY DEF ShardsAssumption
  <2> QED  BY <2>1, <2>2 DEF RowIds
<1>3. \A t \in SShards : \A r \in batch[t] : r \in 1..Len(sent) /\ rstat[r] = "inprogress"
    BY DEF OneTurnPerRow, ShardsTypes
<1>4. \A t \in SShards : \A r \in batch[t] : r \notin rows  BY <1>3
<1>5. OneTurnPerRow'
  <2>1. \A r \in 1..Len(sent) : rstat'[r] = "inprogress" <=> \E t \in SShards : r \in batch'[t]
    <3> SUFFICES ASSUME NEW r \in 1..Len(sent)
                 PROVE  rstat'[r] = "inprogress" <=> \E t \in SShards : r \in batch'[t]
        OBVIOUS
    <3>1. rstat'[r] = IF r \in rows THEN "inprogress" ELSE rstat[r]  BY <1>1, <1>2
    <3>2. rstat[r] = "inprogress" <=> \E t \in SShards : r \in batch[t]  BY DEF OneTurnPerRow
    <3>3. (\E t \in SShards : r \in batch'[t]) <=> (r \in rows \/ \E t \in SShards : r \in batch[t])
        BY <1>1
    <3> QED  BY <3>1, <3>2, <3>3
  <2>2. \A t, u \in SShards : t # u => batch'[t] \cap batch'[u] = {}
      BY <1>1, <1>4 DEF OneTurnPerRow
  <2>3. \A t \in SShards : \A r, q \in batch'[t] : sent[r].shard = sent[q].shard /\ sent[r].chan = sent[q].chan
      BY <1>1 DEF OneTurnPerRow
  <2> QED  BY <2>1, <2>2, <2>3 DEF OneTurnPerRow
<1>6. StolenInOrder'
  <2> SUFFICES ASSUME NEW t \in SShards, NEW r \in batch'[t], sent[r].shard # t, sent[r].chan # 0,
                      NEW e \in 1..(r - 1), sent[e].shard = sent[r].shard, sent[e].chan = sent[r].chan
               PROVE  e \in batch'[t] \/ rstat'[e] = "over"
      BY DEF StolenInOrder
  <2>1. r \in 1..Len(sent)  BY <1>1, <1>3
  <2>2. e \in RowIds  BY <1>2, <2>1 DEF RowIds
  <2>3. e \in batch'[t] \/ rstat[e] = "over"
    <3>1. CASE t = s  BY <1>1, <3>1
    <3>2. CASE t # s  BY <1>1, <3>2 DEF StolenInOrder
    <3> QED  BY <3>1, <3>2
  <2>4. rstat[e] = "over" => e \notin rows  OBVIOUS
  <2> QED  BY <1>1, <2>2, <2>3, <2>4
<1> QED  BY <1>5, <1>6

\* A turn ends, or its rows go back to the queue.
LEMMA TurnLeaves ==
  ASSUME ShardsAssumption, ShardsInv, NEW s \in SShards, NEW st \in {"over", "queued"},
         batch' = [batch EXCEPT ![s] = {}],
         rstat' = [r \in RowIds |-> IF r \in batch[s] THEN st ELSE rstat[r]],
         UNCHANGED <<sent, looking, tried>>
  PROVE  ShardsInv'
<1> USE DEF ShardsInv
<1>1. /\ batch'[s] = {} /\ \A t \in SShards : t # s => batch'[t] = batch[t]
      /\ \A r \in RowIds : rstat'[r] = IF r \in batch[s] THEN st ELSE rstat[r]
    BY DEF ShardsTypes
<1>2. Len(sent) \in Nat /\ 1..Len(sent) \subseteq RowIds
  <2>1. Len(sent) \in Nat /\ Len(sent) <= MaxRows  BY DEF ShardsTypes
  <2>2. MaxRows \in Nat  BY DEF ShardsAssumption
  <2> QED  BY <2>1, <2>2 DEF RowIds
<1>3. \A t \in SShards : \A r \in batch[t] : r \in 1..Len(sent) /\ rstat[r] = "inprogress"
    BY DEF OneTurnPerRow, ShardsTypes
<1>4. \A t \in SShards : t # s => batch[t] \cap batch[s] = {}  BY DEF OneTurnPerRow
<1>5. OneTurnPerRow'
  <2>1. \A r \in 1..Len(sent) : rstat'[r] = "inprogress" <=> \E t \in SShards : r \in batch'[t]
    <3> SUFFICES ASSUME NEW r \in 1..Len(sent)
                 PROVE  rstat'[r] = "inprogress" <=> \E t \in SShards : r \in batch'[t]
        OBVIOUS
    <3>1. rstat'[r] = IF r \in batch[s] THEN st ELSE rstat[r]  BY <1>1, <1>2
    <3>2. rstat[r] = "inprogress" <=> \E t \in SShards : r \in batch[t]  BY DEF OneTurnPerRow
    <3>3. CASE r \in batch[s]  BY <1>1, <1>4, <3>1, <3>3
    <3>4. CASE r \notin batch[s]  BY <1>1, <3>1, <3>2, <3>4
    <3> QED  BY <3>3, <3>4
  <2>2. \A t, u \in SShards : t # u => batch'[t] \cap batch'[u] = {}
      BY <1>1 DEF OneTurnPerRow
  <2>3. \A t \in SShards : \A r, q \in batch'[t] : sent[r].shard = sent[q].shard /\ sent[r].chan = sent[q].chan
      BY <1>1 DEF OneTurnPerRow
  <2> QED  BY <2>1, <2>2, <2>3 DEF OneTurnPerRow
<1>6. StolenInOrder'
  <2> SUFFICES ASSUME NEW t \in SShards, NEW r \in batch'[t], sent[r].shard # t, sent[r].chan # 0,
                      NEW e \in 1..(r - 1), sent[e].shard = sent[r].shard, sent[e].chan = sent[r].chan
               PROVE  e \in batch'[t] \/ rstat'[e] = "over"
      BY DEF StolenInOrder
  <2>1. t # s /\ batch'[t] = batch[t]  BY <1>1
  <2>2. r \in 1..Len(sent)  BY <1>3, <2>1
  <2>3. e \in RowIds  BY <1>2, <2>2 DEF RowIds
  <2>4. e \in batch[t] \/ rstat[e] = "over"  BY <2>1 DEF StolenInOrder
  <2>5. rstat[e] = "over" => e \notin batch[s]  BY <1>3
  <2> QED  BY <1>1, <2>1, <2>3, <2>4, <2>5
<1>7. ShardsTypes'
  <2>1. batch' \in [SShards -> SUBSET (1..Len(sent))]  BY DEF ShardsTypes
  <2>2. rstat' \in [RowIds -> {"none", "queued", "inprogress", "over"}]  BY DEF ShardsTypes
  <2>3. \A r \in RowIds : rstat'[r] = "none" <=> r > Len(sent)
    <3> SUFFICES ASSUME NEW r \in RowIds PROVE rstat'[r] = "none" <=> r > Len(sent)
        OBVIOUS
    <3>1. CASE r \in batch[s]  BY <1>1, <1>2, <1>3, <3>1
    <3>2. CASE r \notin batch[s]  BY <1>1, <3>2 DEF ShardsTypes
    <3> QED  BY <3>1, <3>2
  <2> QED  BY <2>1, <2>2, <2>3 DEF ShardsTypes
<1>8. LookersAreFree'  BY <1>1 DEF LookersAreFree
<1> QED  BY <1>5, <1>6, <1>7, <1>8

LEMMA ShardsStarts == ASSUME ShardsAssumption PROVE ShardsInit => ShardsInv
<1> SUFFICES ASSUME ShardsInit PROVE ShardsInv
    OBVIOUS
<1>1. sent \in Seq(Arrivals) /\ Len(sent) = 0 /\ 1..Len(sent) = {}  BY DEF ShardsInit
<1>2. MaxRows \in Nat /\ \A r \in RowIds : r > 0  BY DEF ShardsAssumption, RowIds
<1>3. ShardsTypes  BY <1>1, <1>2 DEF ShardsInit, ShardsTypes
<1> QED
    BY <1>1, <1>3 DEF ShardsInit, ShardsInv, LookersAreFree, OneTurnPerRow, StolenInOrder

\* A step that moves no row and begins no turn.
LEMMA NothingMoves ==
  ASSUME ShardsAssumption, ShardsInv, UNCHANGED <<sent, rstat, batch>>,
         looking' \in [SShards -> SUBSET SShards], tried' \in [SShards -> SUBSET SShards],
         \A s \in SShards : looking'[s] # {} \/ tried'[s] # {} => batch[s] = {}
  PROVE  ShardsInv'
BY DEF ShardsInv, ShardsTypes, LookersAreFree, OneTurnPerRow, StolenInOrder

\* A turn begins: the whole invariant.
LEMMA BeginsKeeps ==
  ASSUME ShardsAssumption, ShardsInv, NEW s \in SShards, NEW rows, batch[s] = {},
         Begins(s, rows), UNCHANGED sent,
         \A r \in rows : r \in 1..Len(sent) /\ rstat[r] = "queued",
         \A r, q \in rows : sent[r].shard = sent[q].shard /\ sent[r].chan = sent[q].chan,
         \A r \in rows : sent[r].shard # s /\ sent[r].chan # 0 =>
            \A e \in 1..(r - 1) : sent[e].shard = sent[r].shard /\ sent[e].chan = sent[r].chan =>
               e \in rows \/ rstat[e] = "over",
         looking' \in [SShards -> SUBSET SShards], tried' \in [SShards -> SUBSET SShards],
         looking'[s] = {}, tried'[s] = {},
         \A t \in SShards : t # s => looking'[t] = looking[t] /\ tried'[t] = tried[t]
  PROVE  ShardsInv'
<1>1. OneTurnPerRow' /\ StolenInOrder'  BY TurnBegins
<1>2. /\ batch' = [batch EXCEPT ![s] = rows]
      /\ rstat' = [r \in RowIds |-> IF r \in rows THEN "inprogress" ELSE rstat[r]]
    BY DEF Begins
<1>3. ShardsTypes'
  <2>1. batch' \in [SShards -> SUBSET (1..Len(sent))]  BY <1>2 DEF ShardsInv, ShardsTypes
  <2>2. rstat' \in [RowIds -> {"none", "queued", "inprogress", "over"}]
      BY <1>2 DEF ShardsInv, ShardsTypes
  <2>3. \A r \in RowIds : rstat'[r] = "none" <=> r > Len(sent)
      BY <1>2 DEF ShardsInv, ShardsTypes
  <2> QED  BY <2>1, <2>2, <2>3 DEF ShardsInv, ShardsTypes
<1>4. LookersAreFree'  BY <1>2 DEF ShardsInv, ShardsTypes, LookersAreFree
<1> QED  BY <1>1, <1>3, <1>4 DEF ShardsInv

LEMMA ShardsSteps ==
  ASSUME ShardsAssumption, ShardsInv, [ShardsNext]_ShardsVars PROVE ShardsInv'
<1> USE DEF ShardsInv
<1>0. looking \in [SShards -> SUBSET SShards] /\ tried \in [SShards -> SUBSET SShards]
    BY DEF ShardsTypes
<1>1. ASSUME NEW m \in Arrivals, Send(m) PROVE ShardsInv'
  <2> DEFINE n == Len(sent) + 1
  <2>1. /\ Len(sent) < MaxRows /\ sent' = Append(sent, m)
        /\ rstat' = [rstat EXCEPT ![n] = "queued"]
        /\ UNCHANGED <<batch, looking, tried>>
      BY <1>1 DEF Send
  <2>2. Len(sent) \in Nat /\ MaxRows \in Nat /\ sent \in Seq(Arrivals)
      BY DEF ShardsTypes, ShardsAssumption
  <2>3. /\ sent' \in Seq(Arrivals) /\ Len(sent') = n
        /\ \A r \in 1..Len(sent) : sent'[r] = sent[r]
      BY <2>1, <2>2
  <2>4. n \in RowIds /\ rstat'[n] = "queued" /\ \A r \in RowIds : r # n => rstat'[r] = rstat[r]
      BY <2>1, <2>2 DEF ShardsTypes, RowIds
  <2>5. \A s \in SShards : \A r \in batch[s] : r \in 1..Len(sent)  BY DEF ShardsTypes
  <2>6. 1..Len(sent) \subseteq RowIds /\ 1..n = 1..Len(sent) \cup {n} /\ n \notin 1..Len(sent)
      BY <2>1, <2>2 DEF RowIds
  <2>7. ShardsTypes'
    <3>1. \A r \in RowIds : rstat'[r] = "none" <=> r > n
      <4> SUFFICES ASSUME NEW r \in RowIds PROVE rstat'[r] = "none" <=> r > n
          OBVIOUS
      <4>1. r \in Nat /\ n \in Nat  BY <2>2 DEF RowIds
      <4>2. CASE r = n  BY <2>4, <4>1, <4>2
      <4>3. CASE r # n
        <5>1. rstat[r] = "none" <=> r > Len(sent)  BY DEF ShardsTypes
        <5> QED  BY <2>2, <2>4, <4>1, <4>3, <5>1
      <4> QED  BY <4>2, <4>3
    <3>2. batch' \in [SShards -> SUBSET (1..Len(sent'))]  BY <2>1, <2>3, <2>6 DEF ShardsTypes
    <3>3. rstat' \in [RowIds -> {"none", "queued", "inprogress", "over"}]
        BY <2>1 DEF ShardsTypes
    <3>4. Len(sent') <= MaxRows  BY <2>1, <2>2, <2>3
    <3> QED  BY <1>0, <2>1, <2>3, <3>1, <3>2, <3>3, <3>4 DEF ShardsTypes
  <2>8. OneTurnPerRow'
    <3>1. \A r \in 1..n : rstat'[r] = "inprogress" <=> \E s \in SShards : r \in batch[s]
        BY <2>4, <2>5, <2>6 DEF OneTurnPerRow
    <3>2. \A s \in SShards : \A r, q \in batch[s] : sent'[r].shard = sent'[q].shard /\ sent'[r].chan = sent'[q].chan
        BY <2>3, <2>5 DEF OneTurnPerRow
    <3>3. \A s, t \in SShards : s # t => batch[s] \cap batch[t] = {}  BY DEF OneTurnPerRow
    <3>4. batch' = batch /\ Len(sent') = n  BY <2>1, <2>3
    <3> HIDE DEF n
    <3> QED  BY <3>1, <3>2, <3>3, <3>4 DEF OneTurnPerRow
  <2>9. StolenInOrder'
    <3> SUFFICES ASSUME NEW s \in SShards, NEW r \in batch[s], sent'[r].shard # s, sent'[r].chan # 0,
                        NEW e \in 1..(r - 1), sent'[e].shard = sent'[r].shard, sent'[e].chan = sent'[r].chan
                 PROVE  e \in batch[s] \/ rstat'[e] = "over"
        BY <2>1 DEF StolenInOrder
    <3>1. r \in 1..Len(sent) /\ e \in 1..Len(sent)  BY <2>2, <2>5
    <3>2. sent'[r] = sent[r] /\ sent'[e] = sent[e]  BY <2>3, <3>1
    <3>3. e \in batch[s] \/ rstat[e] = "over"  BY <3>2 DEF StolenInOrder
    <3>4. e # n /\ e \in RowIds  BY <2>6, <3>1
    <3> QED  BY <2>4, <3>3, <3>4
  <2>10. LookersAreFree'  BY <2>1 DEF LookersAreFree
  <2> QED  BY <2>7, <2>8, <2>9, <2>10
<1>2. ASSUME NEW s \in SShards, Drain(s) PROVE ShardsInv'
  <2>1. LockFree(s) /\ UNCHANGED <<sent, tried>>  BY <1>2 DEF Drain
  <2>2. batch[s] = {} /\ looking[s] = {} /\ tried[s] = {}  BY <2>1 DEF LockFree
  <2>3. CASE Begins(s, OwnClaim(s)) /\ UNCHANGED looking
    <3>1. \A r \in OwnClaim(s) : r \in 1..Len(sent) /\ rstat[r] = "queued" /\ sent[r].shard = s
        BY OwnClaimIsOne DEF SQueued
    <3>2. \A r, q \in OwnClaim(s) : sent[r].shard = sent[q].shard /\ sent[r].chan = sent[q].chan
        BY <3>1, OwnClaimIsOne
    <3>3. \A r \in OwnClaim(s) : sent[r].shard # s /\ sent[r].chan # 0 =>
            \A e \in 1..(r - 1) : sent[e].shard = sent[r].shard /\ sent[e].chan = sent[r].chan =>
               e \in OwnClaim(s) \/ rstat[e] = "over"
        BY <3>1
    <3>4. /\ looking' \in [SShards -> SUBSET SShards] /\ tried' \in [SShards -> SUBSET SShards]
          /\ looking'[s] = {} /\ tried'[s] = {}
          /\ \A t \in SShards : t # s => looking'[t] = looking[t] /\ tried'[t] = tried[t]
        BY <1>0, <2>1, <2>2, <2>3
    <3>5. \A r \in OwnClaim(s) : r \in 1..Len(sent) /\ rstat[r] = "queued"  BY <3>1
    <3> DEFINE rows == OwnClaim(s)
    <3> HIDE DEF rows
    <3> QED  BY <2>1, <2>2, <2>3, <3>2, <3>3, <3>4, <3>5, BeginsKeeps DEF rows
  <2>4. CASE UNCHANGED <<batch, rstat>>
    <3>1. looking' \in [SShards -> SUBSET SShards]
          /\ \A t \in SShards : t # s => looking'[t] = looking[t]
      <4>1. Victims(s) \subseteq SShards  BY DEF Victims
      <4>2. looking' = looking \/ looking' = [looking EXCEPT ![s] = Victims(s)]
          BY <1>2, <2>4 DEF Drain
      <4> QED  BY <1>0, <4>1, <4>2
    <3>2. \A t \in SShards : looking'[t] # {} \/ tried'[t] # {} => batch[t] = {}
        BY <2>1, <2>2, <3>1 DEF LookersAreFree
    <3> QED  BY <1>0, <2>1, <2>4, <3>1, <3>2, NothingMoves
  <2> QED  BY <1>2, <2>3, <2>4 DEF Drain
<1>3. ASSUME NEW s \in SShards, NEW v \in SShards, StealFrom(s, v) PROVE ShardsInv'
  <2>1. v \in looking[s] /\ batch[s] = {} /\ UNCHANGED sent
      BY <1>3 DEF StealFrom, Deepest, LookersAreFree
  <2>2. CASE StolenClaim(v) # {}
    <3> DEFINE rows == StolenClaim(v)
    <3>1. /\ Begins(s, rows)
          /\ looking' = [looking EXCEPT ![s] = {}] /\ tried' = [tried EXCEPT ![s] = {}]
        BY <1>3, <2>2 DEF StealFrom
    <3>2. \A r \in rows : r \in 1..Len(sent) /\ rstat[r] = "queued" /\ sent[r].shard = v
        BY StolenClaimIsOne DEF SQueued
    <3>3. \A r, q \in rows : sent[r].shard = sent[q].shard /\ sent[r].chan = sent[q].chan
        BY <3>2, StolenClaimIsOne
    <3>4. \A r \in rows : sent[r].shard # s /\ sent[r].chan # 0 =>
            \A e \in 1..(r - 1) : sent[e].shard = sent[r].shard /\ sent[e].chan = sent[r].chan =>
               e \in rows \/ rstat[e] = "over"
        BY <3>2, StolenClaimInOrder
    <3>5. /\ looking' \in [SShards -> SUBSET SShards] /\ tried' \in [SShards -> SUBSET SShards]
          /\ looking'[s] = {} /\ tried'[s] = {}
          /\ \A t \in SShards : t # s => looking'[t] = looking[t] /\ tried'[t] = tried[t]
        BY <1>0, <3>1
    <3>6. \A r \in rows : r \in 1..Len(sent) /\ rstat[r] = "queued"  BY <3>2
    <3> HIDE DEF rows
    <3> QED  BY <2>1, <3>1, <3>3, <3>4, <3>5, <3>6, BeginsKeeps
  <2>3. CASE StolenClaim(v) = {}
    <3>1. /\ looking' = [looking EXCEPT ![s] = @ \ {v}] /\ tried' = [tried EXCEPT ![s] = @ \cup {v}]
          /\ UNCHANGED <<batch, rstat, sent>>
        BY <1>3, <2>1, <2>3 DEF StealFrom
    <3>2. \A t \in SShards : looking'[t] # {} \/ tried'[t] # {} => batch[t] = {}
        BY <1>0, <2>1, <3>1 DEF LookersAreFree
    <3>3. looking' \in [SShards -> SUBSET SShards] /\ tried' \in [SShards -> SUBSET SShards]
        BY <1>0, <3>1
    <3> QED  BY <3>1, <3>2, <3>3, NothingMoves
  <2> QED  BY <2>2, <2>3
<1>4. ASSUME NEW s \in SShards, SEndTurn(s) \/ HitWall(s) PROVE ShardsInv'
  <2>1. PICK st \in {"over", "queued"} :
           rstat' = [r \in RowIds |-> IF r \in batch[s] THEN st ELSE rstat[r]]
      BY <1>4 DEF SEndTurn, EndsTurn, HitWall
  <2>2. batch' = [batch EXCEPT ![s] = {}] /\ UNCHANGED <<sent, looking, tried>>
      BY <1>4 DEF SEndTurn, EndsTurn, HitWall
  <2> QED  BY <2>1, <2>2, TurnLeaves
<1>5. ASSUME NEW s \in SShards, StealLater(s) PROVE ShardsInv'
  <2>1. tried' = [tried EXCEPT ![s] = {}] /\ UNCHANGED <<sent, rstat, batch, looking>>
      BY <1>5 DEF StealLater
  <2>2. tried' \in [SShards -> SUBSET SShards]
        /\ \A t \in SShards : tried'[t] # {} => tried[t] # {}
      BY <1>0, <2>1
  <2>3. \A t \in SShards : looking'[t] # {} \/ tried'[t] # {} => batch[t] = {}
      BY <2>1, <2>2 DEF LookersAreFree
  <2> QED  BY <1>0, <2>1, <2>2, <2>3, NothingMoves
<1>6. ASSUME UNCHANGED <<sent, rstat, batch, looking, tried>> PROVE ShardsInv'
  <2>1. \A t \in SShards : looking'[t] # {} \/ tried'[t] # {} => batch[t] = {}
      BY <1>6 DEF LookersAreFree
  <2> QED  BY <1>0, <1>6, <2>1, NothingMoves
<1>7. ASSUME \/ \E s \in SShards : StealWake(s) \/ HoldFires(s) \/ SDie(s) \/ SRespawn(s)
             \/ \E s, v \in SShards : FireTimer(s, v)
             \/ \E r \in RowIds : Age(r)
             \/ WallOver \/ UNCHANGED ShardsVars
      PROVE  UNCHANGED <<sent, rstat, batch, looking, tried>>
    BY <1>7 DEF StealWake, HoldFires, SDie, SRespawn, FireTimer, Age, WallOver, ShardsVars
<1> QED  BY <1>1, <1>2, <1>3, <1>4, <1>5, <1>6, <1>7 DEF ShardsNext

\* For any shards, channels, arrivals, walls and deaths: a row in progress belongs to one
\* turn, and a turn has rows of one channel only (claim_batch, claim_stolen, drain_shard).
THEOREM OneTurnPerRowHolds == ASSUME ShardsAssumption PROVE ShardsSpec => []OneTurnPerRow
<1>1. ShardsInv => OneTurnPerRow  BY DEF ShardsInv
<1> QED  BY <1>1, ShardsStarts, ShardsSteps, PTL DEF ShardsSpec

\* For any shards, channels, arrivals, walls and deaths, and any max_rows: while a thief
\* answers a row of a conversation, no older row of it waits or is answered by another shard
\* (claim_stolen).
THEOREM StolenInOrderHolds == ASSUME ShardsAssumption PROVE ShardsSpec => []StolenInOrder
<1>1. ShardsInv => StolenInOrder  BY DEF ShardsInv
<1> QED  BY <1>1, ShardsStarts, ShardsSteps, PTL DEF ShardsSpec

\* Without walls no row is held, the shard of a turn is not idle, and an idle shard with rows
\* of its own has a drain task.
Attended ==
  /\ walls = 0 /\ held = {}
  /\ sstate \in [SShards -> {"IDLE", "PROCESSING", "ERROR_RECOVERY"}]
  /\ \A s \in SShards : batch[s] # {} => sstate[s] # "IDLE"
  /\ \A s \in SShards : sstate[s] = "IDLE" /\ SQueued(s) # {} => s \in drains

LEMMA AttendedSteps ==
  ASSUME ShardsAssumption, MaxWalls = 0, ShardsInv, Attended, [ShardsNext]_ShardsVars
  PROVE  Attended'
<1> USE DEF Attended
<1>0. /\ batch \in [SShards -> SUBSET (1..Len(sent))]
      /\ rstat \in [RowIds -> {"none", "queued", "inprogress", "over"}]
      /\ Len(sent) \in Nat /\ 1..Len(sent) \subseteq RowIds
  <2>1. Len(sent) \in Nat /\ Len(sent) <= MaxRows /\ MaxRows \in Nat
      BY DEF ShardsInv, ShardsTypes, ShardsAssumption
  <2> QED  BY <2>1 DEF ShardsInv, ShardsTypes, RowIds
<1>1. ASSUME NEW m \in Arrivals, Send(m) PROVE Attended'
  <2>1. /\ sent' = Append(sent, m) /\ Len(sent) < MaxRows
        /\ rstat' = [rstat EXCEPT ![Len(sent) + 1] = "queued"]
        /\ UNCHANGED <<held, sstate, batch, walls>>
        /\ sstate[m.shard] = "IDLE" => drains' = drains \cup {m.shard}
        /\ drains \subseteq drains'
      BY <1>1 DEF Send
  <2>2. /\ Len(sent') = Len(sent) + 1 /\ sent'[Len(sent) + 1] = m
        /\ \A r \in 1..Len(sent) : sent'[r] = sent[r]
      BY <2>1 DEF ShardsInv, ShardsTypes
  <2>3. \A r \in 1..Len(sent) : rstat'[r] = rstat[r]  BY <1>0, <2>1
  <2>4. \A s \in SShards : s # m.shard => SQueued(s)' \subseteq SQueued(s)
      BY <1>0, <2>2, <2>3 DEF SQueued
  <2>5. \A s \in SShards : sstate[s] = "IDLE" /\ SQueued(s)' # {} => s \in drains'
      BY <2>1, <2>4
  <2> QED  BY <2>1, <2>5
<1>2. ASSUME NEW s \in SShards, NEW rows, Begins(s, rows), UNCHANGED <<sent, held, walls>>,
             drains \ {s} \subseteq drains'
      PROVE  Attended'
  <2>1. /\ sstate' = [sstate EXCEPT ![s] = "PROCESSING"] /\ batch' = [batch EXCEPT ![s] = rows]
        /\ rstat' = [r \in RowIds |-> IF r \in rows THEN "inprogress" ELSE rstat[r]]
      BY <1>2 DEF Begins
  <2>2. \A t \in SShards : SQueued(t)' \subseteq SQueued(t)  BY <1>0, <1>2, <2>1 DEF SQueued
  <2>3. \A t \in SShards : sstate'[t] = "IDLE" => t # s /\ sstate[t] = "IDLE"  BY <2>1
  <2>4. \A t \in SShards : batch'[t] # {} => sstate'[t] # "IDLE"  BY <1>0, <2>1
  <2> QED  BY <1>2, <2>1, <2>2, <2>3, <2>4
<1>3. ASSUME NEW s \in SShards, Drain(s) PROVE Attended'
  <2>1. drains' = drains \ {s} /\ UNCHANGED <<sent, held, walls>>  BY <1>3 DEF Drain
  <2>2. CASE Begins(s, OwnClaim(s))  BY <1>2, <2>1, <2>2
  <2>3. CASE UNCHANGED <<batch, rstat, sstate>> /\ (sstate[s] # "IDLE" \/ SQueued(s) = {})
    <3>1. \A t \in SShards : SQueued(t)' = SQueued(t)  BY <2>1, <2>3 DEF SQueued
    <3> QED  BY <2>1, <2>3, <3>1
  <2> QED  BY <1>3, <2>2, <2>3 DEF Drain
<1>4. ASSUME NEW s \in SShards, NEW v \in SShards, StealFrom(s, v) PROVE Attended'
  <2>1. UNCHANGED <<sent, held, walls, drains>>  BY <1>4 DEF StealFrom
  <2>2. CASE StolenClaim(v) # {}  BY <1>2, <1>4, <2>1, <2>2 DEF StealFrom
  <2>3. CASE StolenClaim(v) = {}
    <3>1. UNCHANGED <<batch, rstat, sstate>>  BY <1>4, <2>3 DEF StealFrom
    <3>2. \A t \in SShards : SQueued(t)' = SQueued(t)  BY <2>1, <3>1 DEF SQueued
    <3> QED  BY <2>1, <3>1, <3>2
  <2> QED  BY <2>2, <2>3
<1>5. ASSUME NEW s \in SShards, SEndTurn(s) PROVE Attended'
  <2>1. /\ batch[s] # {} /\ batch' = [batch EXCEPT ![s] = {}]
        /\ rstat' = [r \in RowIds |-> IF r \in batch[s] THEN "over" ELSE rstat[r]]
        /\ drains' = IF Redrain(s) THEN drains \cup {s} ELSE drains
        /\ sstate' = [sstate EXCEPT ![s] = IF @ = "PROCESSING" THEN "IDLE" ELSE @]
        /\ UNCHANGED <<sent, held, walls>>
      BY <1>5 DEF SEndTurn, EndsTurn
  <2>2. \A t \in SShards : SQueued(t)' \subseteq SQueued(t)  BY <1>0, <2>1 DEF SQueued
  <2>3. SQueued(s) # {} => s \in drains'  BY <2>1 DEF Redrain
  <2>4. \A t \in SShards : t # s => batch'[t] = batch[t] /\ sstate'[t] = sstate[t]  BY <1>0, <2>1
  <2>5. \A t \in SShards : batch'[t] # {} => sstate'[t] # "IDLE"  BY <1>0, <2>1, <2>4
  <2>6. \A t \in SShards : sstate'[t] = "IDLE" /\ SQueued(t)' # {} => t \in drains'
    <3>1. drains \subseteq drains'  BY <2>1
    <3> QED  BY <2>2, <2>3, <2>4, <3>1
  <2>7. sstate' \in [SShards -> {"IDLE", "PROCESSING", "ERROR_RECOVERY"}]  BY <2>1
  <2> QED  BY <2>1, <2>5, <2>6, <2>7
<1>6. ASSUME NEW s \in SShards, HitWall(s) PROVE FALSE
    BY <1>6 DEF HitWall
<1>7. ASSUME NEW s \in SShards, SDie(s) \/ SRespawn(s) PROVE Attended'
  <2>1. UNCHANGED <<sent, rstat, held, walls, batch>> /\ drains \subseteq drains'
      BY <1>7 DEF SDie, SRespawn, Redelivers
  <2>2. \A t \in SShards : SQueued(t)' = SQueued(t)  BY <2>1 DEF SQueued
  <2>3. PICK st \in {"IDLE", "ERROR_RECOVERY"} :
           /\ sstate' = [sstate EXCEPT ![s] = st]
           /\ st = "IDLE" => s \in drains' /\ batch[s] = {}
      BY <1>7 DEF SDie, SRespawn, Redelivers, LockFree
  <2>4. \A t \in SShards : sstate'[t] = IF t = s THEN st ELSE sstate[t]  BY <2>3
  <2>5. sstate' \in [SShards -> {"IDLE", "PROCESSING", "ERROR_RECOVERY"}]  BY <2>3
  <2> QED  BY <2>1, <2>2, <2>3, <2>4, <2>5
<1>8. ASSUME UNCHANGED <<sent, rstat, sstate, batch, walls>>, drains \subseteq drains', held' = {}
      PROVE  Attended'
  <2>1. \A t \in SShards : SQueued(t)' = SQueued(t)  BY <1>8 DEF SQueued
  <2> QED  BY <1>8, <2>1
<1>9. ASSUME \/ \E s \in SShards : StealWake(s) \/ HoldFires(s) \/ StealLater(s)
             \/ \E s, v \in SShards : FireTimer(s, v)
             \/ \E r \in RowIds : Age(r)
             \/ WallOver \/ UNCHANGED ShardsVars
      PROVE  UNCHANGED <<sent, rstat, sstate, batch, walls>> /\ drains \subseteq drains' /\ held' = {}
    BY <1>9 DEF StealWake, HoldFires, StealLater, FireTimer, FireSteal, Age, WallOver, ShardsVars
<1> QED  BY <1>1, <1>3, <1>4, <1>5, <1>6, <1>7, <1>8, <1>9 DEF ShardsNext

\* For any shards, channels, arrivals and deaths, where no turn hits a usage wall: when
\* nothing is scheduled and no turn runs, no row waits (finish_turn's recount, the notice of
\* an arrival and respawn_watcher).  With walls it does not hold: see the README.
THEOREM ServedAtRestHolds ==
  ASSUME ShardsAssumption, MaxWalls = 0 PROVE ShardsSpec => []ServedAtRest
<1>1. ShardsInit => Attended
  <2> SUFFICES ASSUME ShardsInit PROVE Attended
      OBVIOUS
  <2>1. \A s : SQueued(s) = {}  BY DEF ShardsInit, SQueued
  <2> QED  BY <2>1 DEF ShardsInit, Attended
<1>2. ShardsInv /\ Attended => ServedAtRest  BY DEF ServedAtRest, AtRest, Attended
<1>3. ShardsInv /\ Attended /\ [ShardsNext]_ShardsVars => (ShardsInv /\ Attended)'
    BY ShardsSteps, AttendedSteps
<1>4. ShardsInit => ShardsInv /\ Attended  BY <1>1, ShardsStarts
<1> QED  BY <1>2, <1>3, <1>4, PTL DEF ShardsSpec
=============================================================================
