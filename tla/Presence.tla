------------------------------ MODULE Presence ------------------------------
(***************************************************************************)
(* The presence mirror of the relay: PresenceTracker and presence_tick of  *)
(* bin/relay.py.  A tick awaits the server's health and change_presence;   *)
(* the connection goes and comes back, and forgets what it was shown, at   *)
(* any of these awaits.                                                    *)
(***************************************************************************)
EXTENDS Naturals

CONSTANTS
  MaxDrops,   \* bound: losses of the connection
  MaxChanges  \* bound: changes between busy and idle, and updates that fail

PresenceAssumption == {MaxDrops, MaxChanges} \subseteq Nat

VARIABLES
  linked,      \* is the gateway connected?
  drops,       \* losses so far
  busy,        \* is a turn running?
  applied,     \* presence.applied
  recentSend, heldIdle,  \* the two clocks: min_interval not over, idle_hold over
  sending,     \* the update presence_tick awaits, "none" when none
  displayed,   \* what Discord shows
  changes

PresenceVars == <<linked, drops, busy, applied, recentSend, heldIdle, sending, displayed, changes>>

PresenceInit ==
  /\ linked = FALSE /\ drops = 0 /\ busy = FALSE
  /\ applied = "none" /\ recentSend = FALSE /\ heldIdle = FALSE
  /\ sending = "none" /\ displayed = "none" /\ changes = 0

Dropped ==
  /\ linked /\ drops < MaxDrops
  /\ linked' = FALSE /\ drops' = drops + 1
  /\ UNCHANGED <<busy, applied, recentSend, heldIdle, sending, displayed, changes>>

\* on_connect, on_resumed: presence.reset; Discord holds no presence for it yet.
Reconnected ==
  /\ ~linked
  /\ linked' = TRUE
  /\ applied' = "none" /\ recentSend' = FALSE /\ displayed' = "none"
  /\ UNCHANGED <<drops, busy, heldIdle, sending, changes>>

TurnChanges ==
  /\ changes < MaxChanges /\ changes' = changes + 1
  /\ busy' = ~busy /\ heldIdle' = FALSE
  /\ UNCHANGED <<linked, drops, applied, recentSend, sending, displayed>>

ClocksRun ==
  /\ recentSend \/ (~busy /\ ~heldIdle)
  /\ recentSend' = FALSE /\ heldIdle' = ~busy
  /\ UNCHANGED <<linked, drops, busy, changes, applied, sending, displayed>>

Target == IF busy THEN "busy" ELSE "idle"

\* presence_tick: the health request, then observe; idle must have held, unless the
\* connection is new.
Observe ==
  /\ sending = "none"
  /\ Target # applied /\ ~recentSend
  /\ busy \/ applied = "none" \/ heldIdle
  /\ applied' = Target /\ recentSend' = TRUE /\ sending' = Target
  /\ UNCHANGED <<linked, drops, busy, changes, heldIdle, displayed>>

\* change_presence worked.
Shows ==
  /\ sending # "none" /\ linked
  /\ displayed' = sending /\ sending' = "none"
  /\ UNCHANGED <<linked, drops, busy, changes, applied, recentSend, heldIdle>>

AfterFailure_Kept == applied
AfterFailure == "none"

\* It raised, as it does without a connection: the tracker forgets what it applied.
ShowFails ==
  /\ sending # "none" /\ (~linked \/ changes < MaxChanges)
  /\ changes' = IF linked THEN changes + 1 ELSE changes
  /\ sending' = "none" /\ applied' = AfterFailure /\ recentSend' = FALSE
  /\ UNCHANGED <<linked, drops, busy, heldIdle, displayed>>

PresenceNext ==
  \/ Dropped \/ Reconnected \/ TurnChanges \/ ClocksRun \/ Observe \/ Shows \/ ShowFails

PresenceSpec == PresenceInit /\ [][PresenceNext]_PresenceVars

\* presence_loop polls, an update ends, clocks run.
PresenceFairness ==
  /\ WF_PresenceVars(ClocksRun) /\ WF_PresenceVars(Observe)
  /\ WF_PresenceVars(Shows \/ ShowFails)

----------------------------------------------------------------------------
(* Properties *)

\* When the turns stop changing and the gateway stays, Discord shows the last state,
\* through updates that fail and connections that forget.
PresenceSettles ==
  \A b \in BOOLEAN :
    <>[](linked /\ busy = b) => <>[](displayed = IF b THEN "busy" ELSE "idle")
=============================================================================
