------------------------------ MODULE Reactions ------------------------------
(***************************************************************************)
(* Reaction notices: _reaction_notice of bin/relay.py.  discord.py runs    *)
(* each on_raw_reaction_add as a task of its own; a task awaits Discord    *)
(* twice: for the user, when the event carries no member, and the message. *)
(***************************************************************************)
EXTENDS Naturals, Sequences, SequencesExt, FiniteSets

CONSTANTS
    Keys,           \* <<user, message>> pairs; every message is in one channel
    Cooldown,       \* REACTION_NOTICE_COOLDOWN_S, and the 60 s of the rate
    Rate,           \* REACTION_NOTICE_RATE
    MaxEvents,      \* bound: reactions
    MaxNow          \* bound: the clock

ReactAssumption ==
    /\ Cooldown \in Nat \ {0} /\ Rate \in Nat /\ MaxEvents \in Nat /\ MaxNow \in Nat
    /\ Keys # {}

Never == MaxNow + 1
Events == 1..MaxEvents

VARIABLES
    now,        \* time.monotonic()
    task,       \* per reaction: none, begun, fetching, done
    key,        \* per reaction: whose, on what
    sees,       \* per reaction: `now` as the task took it for its checks
    seen,       \* _ux_state()["seen"]: key -> time of the last notice
    rate,       \* _ux_state()["rate"] of the channel: the deque of the events it counts
    sent,       \* history: event -> time its notice was accounted for
    made,       \* bound: reactions so far
    overlap     \* history: two tasks were between their checks and their account

ReactVars == <<now, task, key, sees, seen, rate, sent, made, overlap>>

ReactInit ==
    /\ now = 0 /\ made = 0 /\ overlap = FALSE
    /\ task = [e \in Events |-> "none"]
    /\ key = [e \in Events |-> CHOOSE k \in Keys : TRUE]
    /\ sees = [e \in Events |-> 0]
    /\ seen = [k \in Keys |-> Never]
    /\ rate = <<>> /\ sent = [e \in Events |-> Never]

-----------------------------------------------------------------------------
(* Faulty variants of definitions below: each breaks a property. *)

\* the deque is trimmed of what is a minute old counted from its newest entry
Recent_All(t) == <<>>

\* the cooldown is of the message's first notice
Cooling_First(e, t) == seen[key[e]] # Never /\ seen[key[e]] = t

-----------------------------------------------------------------------------
\* A person reacts: the guards on the guild, the reactor, the channel and its
\* reaction_notices mode are passed, with or without the await for the user.
React(k) ==
    /\ made < MaxEvents /\ made' = made + 1
    /\ task' = [task EXCEPT ![made + 1] = "begun"]
    /\ key' = [key EXCEPT ![made + 1] = k]
    /\ UNCHANGED <<now, sees, seen, rate, sent, overlap>>

\* The user turns out to be a bot, or cannot be fetched.
NotHuman(e) ==
    /\ task[e] = "begun"
    /\ task' = [task EXCEPT ![e] = "done"]
    /\ UNCHANGED <<now, key, sees, seen, rate, sent, made, overlap>>

\* The channel's deque once its old head is gone.
Recent(t) ==
    LET fresh == {i \in 1..Len(rate) : t < sent[rate[i]] + Cooldown}
    IN  IF fresh = {} THEN <<>> ELSE SubSeq(rate, Min(fresh), Len(rate))
Cooling(e, t) == seen[key[e]] # Never /\ t < seen[key[e]] + Cooldown

\* The cooldown and the rate are looked at (the deque is trimmed), and the
\* message is asked for.
Checks(e) ==
    /\ task[e] = "begun"
    /\ sees' = [sees EXCEPT ![e] = now]
    /\ IF Cooling(e, now) THEN task' = [task EXCEPT ![e] = "done"] /\ UNCHANGED <<rate, overlap>>
       ELSE /\ rate' = Recent(now)
            /\ task' = [task EXCEPT ![e] = IF Len(Recent(now)) >= Rate THEN "done" ELSE "fetching"]
            /\ overlap' = (overlap \/ \E o \in Events : task[o] = "fetching")
    /\ UNCHANGED <<now, key, seen, sent, made>>

\* The message cannot be read, is not an agent's, or its channel routes nowhere.
NoNotice(e) ==
    /\ task[e] = "fetching"
    /\ task' = [task EXCEPT ![e] = "done"]
    /\ UNCHANGED <<now, key, sees, seen, rate, sent, made, overlap>>

\* The message is an agent's: the notice is accounted for, with the time of the
\* checks, and then posted to the agent server, whose answer is only logged.
Accounts(e) ==
    /\ task[e] = "fetching"
    /\ seen' = [seen EXCEPT ![key[e]] = sees[e]]
    /\ rate' = Append(rate, e)
    /\ sent' = [sent EXCEPT ![e] = sees[e]]
    /\ task' = [task EXCEPT ![e] = "done"]
    /\ UNCHANGED <<now, key, sees, made, overlap>>

Clock ==
    /\ now < MaxNow /\ now' = now + 1
    /\ UNCHANGED <<task, key, sees, seen, rate, sent, made, overlap>>

ReactNext ==
    \/ \E k \in Keys : React(k)
    \/ \E e \in Events : NotHuman(e) \/ Checks(e) \/ NoNotice(e) \/ Accounts(e)
    \/ Clock

ReactSpec == ReactInit /\ [][ReactNext]_ReactVars

-----------------------------------------------------------------------------
(* Properties *)

Notices == {e \in Events : sent[e] # Never}
Near(a, b) == sent[a] <= sent[b] /\ sent[b] < sent[a] + Cooldown

\* "One notice per user and message per minute, at most 10 per channel per minute"
\* (docs/DISCORD_SETUP.md).
\* Does not hold: see the README.
Spared ==
    /\ \A a, b \in Notices : (a # b /\ key[a] = key[b]) => ~Near(a, b)
    /\ \A a \in Notices : Cardinality({b \in Notices : Near(a, b)}) <= Rate

\* The limits hold, for any answers of Discord and however late they come, as
\* long as no reaction was looked at while another awaited its message: the checks
\* come before that await and the account after it.
SparedAlone == ~overlap => Spared
=============================================================================
