------------------------------- MODULE Replies -------------------------------
(***************************************************************************)
(* What the outbox promises of the replies of a channel, without its table *)
(* and its senders: a reply is open from the moment it is handed over      *)
(* until it is settled; its chunks appear one after the other, and only    *)
(* while every older reply of the channel is settled; it is delivered only *)
(* when all of it has appeared.  An operator may reopen a settled reply,   *)
(* which gives up its place in the order.                                  *)
(***************************************************************************)
EXTENDS Naturals

CONSTANTS
    Channels,       \* the streams
    Replying,       \* the replies: numbers in the order they are handed over
    MaxSize         \* the most chunks of one reply

VARIABLES
    channel,    \* of each reply
    size,       \* chunks of each reply
    outcome,    \* none, open, delivered, over
    shown,      \* chunks that have appeared
    reopened    \* replies put back by an operator

repliesVars == <<channel, size, outcome, shown, reopened>>

RepliesInit ==
    /\ channel = [r \in Replying |-> "none"]
    /\ size = [r \in Replying |-> 0]
    /\ outcome = [r \in Replying |-> "none"]
    /\ shown = [r \in Replying |-> {}]
    /\ reopened = {}

\* A reply is handed over, behind every earlier one.
Submit(r, s, n) ==
    /\ \A q \in Replying : outcome[q] = "none" <=> r <= q
    /\ channel' = [channel EXCEPT ![r] = s]
    /\ size' = [size EXCEPT ![r] = n]
    /\ outcome' = [outcome EXCEPT ![r] = "open"]
    /\ UNCHANGED <<shown, reopened>>

\* Its turn: no older reply of the channel is open, the reopened ones aside.
ItsTurn(r) ==
    \A q \in Replying :
        (q < r /\ channel[q] = channel[r] /\ outcome[q] = "open") => q \in reopened

\* The next chunk appears.
Show(r, c) ==
    /\ outcome[r] = "open" /\ ItsTurn(r)
    /\ c < size[r] /\ shown[r] = 0..(c - 1)
    /\ shown' = [shown EXCEPT ![r] = @ \cup {c}]
    /\ UNCHANGED <<channel, size, outcome, reopened>>

Deliver(r) ==
    /\ outcome[r] = "open" /\ shown[r] = 0..(size[r] - 1)
    /\ outcome' = [outcome EXCEPT ![r] = "delivered"]
    /\ UNCHANGED <<channel, size, shown, reopened>>

\* Given up (dead, discarded), or deleted after its retention.
GiveUp(r) ==
    /\ outcome[r] \in {"open", "delivered"}
    /\ outcome' = [outcome EXCEPT ![r] = "over"]
    /\ UNCHANGED <<channel, size, shown, reopened>>

Reopen(r) ==
    /\ outcome[r] = "over"
    /\ outcome' = [outcome EXCEPT ![r] = "open"]
    /\ reopened' = reopened \cup {r}
    /\ UNCHANGED <<channel, size, shown>>

RepliesNext ==
    \E r \in Replying :
        \/ \E s \in Channels, n \in 1..MaxSize : Submit(r, s, n)
        \/ \E c \in 0..(MaxSize - 1) : Show(r, c)
        \/ Deliver(r) \/ GiveUp(r) \/ Reopen(r)

RepliesSpec == RepliesInit /\ [][RepliesNext]_repliesVars
=============================================================================
