------------------------------- MODULE Sends --------------------------------
(***************************************************************************)
(* POST /send of bin/agent-server.py and lib/cross_send.py: an agent posts *)
(* to a channel of its allowlist, a number of times per rolling hour.  The *)
(* limiter lives in the server's memory; the agent's `send` block is read  *)
(* from the configuration at each call.                                    *)
(*                                                                         *)
(* One agent (agents share nothing here); time is in units of which Window *)
(* make an hour.                                                           *)
(***************************************************************************)
EXTENDS Naturals, Sequences, FiniteSets, SequencesExt

CONSTANTS
    Channels,   \* ids a request may name
    Configs,    \* the `send` blocks that reloads bring: channels, unlimited, per
    Window, DefaultPer, MaxPer,  \* WINDOW_S, DEFAULT_PER_HOUR, MAX_PER_HOUR
    MaxSendsNow, MaxSends, MaxReloads, MaxRestarts  \* bounds

SendsAssumption ==
    Configs # {} /\ Window \in Nat \ {0} /\ DefaultPer \in Nat \ {0} /\ MaxPer \in Nat

VARIABLES
    sendsNow,
    config,     \* the agent's send block
    hits,       \* RateLimiter._hits of the agent, oldest first
    sendsTold,  \* when the agent was told to expect a slot; 0 is not told
    sendsSent,  \* history: the limited sends of this server: when, and the limit then
    exempted,   \* history: the sends that skipped the limit
    reloads, restarts  \* bounds

SendVars == <<sendsNow, config, hits, sendsTold, sendsSent, exempted, reloads, restarts>>

SendInit ==
    /\ sendsNow = 1 /\ config \in Configs
    /\ hits = <<>> /\ sendsTold = 0 /\ sendsSent = <<>> /\ exempted = 0
    /\ reloads = 0 /\ restarts = 0

-----------------------------------------------------------------------------
(* Faulty variants of definitions below: each breaks a property. *)

\* the window starts afresh when its first send leaves it
Trim_Fixed(q) == IF q # <<>> /\ sendsNow - q[1] >= Window THEN <<>> ELSE q

\* a refused send takes a slot too
Kept_Refused(q) == Append(q, sendsNow)

-----------------------------------------------------------------------------
\* parse_config: a limit out of its range is the default.
PerHour == IF config.per \in 1 .. MaxPer THEN config.per ELSE DefaultPer

\* parse_unlimited: the exemption never widens the allowlist.
Unlimited == config.unlimited \cap config.channels

Exempt(c) == c \in Unlimited

\* RateLimiter._trim: sends of a whole window ago leave, oldest first.
Trim(q) ==
    LET young == {i \in 1 .. Len(q) : sendsNow - q[i] < Window}
    IN  IF young = {} THEN <<>> ELSE SubSeq(q, Min(young), Len(q))

\* What a refusal leaves of the deque.
Kept(q) == q

\* handle_send beyond its checks of the channel and the content.  The slot is
\* counted before the row is queued.
Send(c) ==
    /\ c \in config.channels /\ Len(sendsSent) + exempted < MaxSends
    /\ IF Exempt(c)
       THEN /\ exempted' = exempted + 1
            /\ UNCHANGED <<hits, sendsTold, sendsSent>>
       ELSE LET q == Trim(hits)
            IN  IF Len(q) >= PerHour
                THEN /\ hits' = Kept(q)
                     /\ sendsTold' = IF sendsTold = 0 THEN q[1] + Window + 1 ELSE sendsTold
                     /\ UNCHANGED <<sendsSent, exempted>>
                ELSE /\ hits' = Append(q, sendsNow)
                     /\ sendsSent' = Append(sendsSent, [at |-> sendsNow, limit |-> PerHour])
                     /\ sendsTold' = 0
                     /\ UNCHANGED exempted
    /\ UNCHANGED <<sendsNow, config, reloads, restarts>>

\* The registry is reloaded with another send block.
Reload ==
    /\ reloads < MaxReloads
    /\ config' \in Configs \ {config}
    /\ reloads' = reloads + 1 /\ sendsTold' = 0
    /\ UNCHANGED <<sendsNow, hits, sendsSent, exempted, restarts>>

\* "a restart clears it, which only ever errs towards allowing a few more sends"
Restart ==
    /\ restarts < MaxRestarts
    /\ restarts' = restarts + 1
    /\ hits' = <<>> /\ sendsTold' = 0 /\ sendsSent' = <<>>
    /\ UNCHANGED <<sendsNow, config, exempted, reloads>>

Pass == sendsNow < MaxSendsNow /\ sendsNow' = sendsNow + 1
        /\ UNCHANGED <<config, hits, sendsTold, sendsSent, exempted, reloads, restarts>>

SendNext == (\E c \in Channels : Send(c)) \/ Reload \/ Restart \/ Pass

SendSpec == SendInit /\ [][SendNext]_SendVars

-----------------------------------------------------------------------------
(* Properties *)

\* Any window of one server's run that ends with a limited send holds at most as
\* many of them as the limit of that moment, whatever the limit was before.
WindowKept ==
    \A i \in DOMAIN sendsSent :
        Cardinality({j \in 1 .. i : sendsSent[i].at - sendsSent[j].at < Window}) <= sendsSent[i].limit

\* An agent told when its next slot comes gets one then, whatever else it tried in
\* between, unless it has sent or the limit has changed.  Not when sends of the
\* window were made under a larger limit: the wait names the oldest of them only.
UnderLarger == \E i \in DOMAIN sendsSent : sendsSent[i].limit > PerHour
SlotWhenTold == (sendsTold # 0 /\ sendsNow >= sendsTold) => (Len(Trim(hits)) < PerHour \/ UnderLarger)
=============================================================================
