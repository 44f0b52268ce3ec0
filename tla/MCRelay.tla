----------------------------- MODULE MCRelay -----------------------------
(***************************************************************************)
(* The relay's duties side by side: the messages it takes and hands over,  *)
(* edits, reactions, its configuration, the gateway watch, cross-channel   *)
(* sends, the dispatcher of build runs.  A behaviour is one of them        *)
(* (part): the others keep their initial state.  The small instance the    *)
(* configuration gives is named here where it is not a number.             *)
(***************************************************************************)
EXTENDS Inbound, Edits, Reactions, RelayConfig, Watch, Sends, Dispatch

VARIABLE part      \* the component that runs in this behaviour

\* A channel the agent owns and listens to.
OwnChannel == [listed |-> TRUE, mentionOnly |-> FALSE, owned |-> TRUE, optOut |-> FALSE,
               unlistedOk |-> FALSE]
\* cross_channel_send blocks of agents.yaml: a lower rate, another list, a bad rate.
SendConfigs == {[channels |-> {"c", "d"}, unlimited |-> {"d", "e"}, per |-> 2],
                [channels |-> {"c", "d"}, unlimited |-> {"d"}, per |-> 1],
                [channels |-> {"c"}, unlimited |-> {}, per |-> 0]}

\* MAX_CONCURRENT_BUILDERS and MAX_CONCURRENT_REVIEWERS.
FewSlots == [builder |-> 1, reviewer |-> 2]

ASSUME RelayAssumptions ==
    /\ InboundAssumption /\ EditsAssumption /\ ReactAssumption /\ WatchAssumption
    /\ SendsAssumption /\ DispatchAssumption

Parts == {"inbound", "edits", "react", "config", "watch", "sends", "dispatch"}

relayVars == <<part, InboundVars, EditsVars, ReactVars, ConfigVars, WatchVars, SendVars,
               DispatchVars>>

RelayInit ==
    /\ part \in Parts
    /\ InboundInit
    /\ EditsInit
    /\ ReactInit
    /\ ConfigInit
    /\ WatchInit
    /\ SendInit /\ (part = "sends" \/ config = CHOOSE b \in Configs : TRUE)
    /\ DispatchInit

RelayNext ==
    /\ UNCHANGED part
    /\ IF part = "inbound" THEN InboundNext ELSE UNCHANGED InboundVars
    /\ IF part = "edits" THEN EditsNext ELSE UNCHANGED EditsVars
    /\ IF part = "react" THEN ReactNext ELSE UNCHANGED ReactVars
    /\ IF part = "config" THEN ConfigNext ELSE UNCHANGED ConfigVars
    /\ IF part = "watch" THEN WatchNext ELSE UNCHANGED WatchVars
    /\ IF part = "sends" THEN SendNext ELSE UNCHANGED SendVars
    /\ IF part = "dispatch" THEN DispatchNext ELSE UNCHANGED DispatchVars

RelaySpec == RelayInit /\ [][RelayNext]_relayVars

-----------------------------------------------------------------------------
(* What each component promises *)

\* A Discord message becomes one row at most, is never lost but by the rules that drop it
\* on purpose, and a guest over the limit is told so (relay.py to the queue and back).
MessagesArrive == part = "inbound" => TakenOnce /\ NotDropped /\ GuestsAreTold

\* The relay's side channels: the last edit of a message reaches its turn; follow-ups,
\* reactions and cross-channel sends keep their limits and a wait that was announced is
\* true; half a configuration is never in use; a gateway outage is told once; a host never
\* has more build runs than slots, nor a brief two runs.
DutiesAreKept ==
    /\ part = "edits" => EditReaches /\ FollowupsCapped
    /\ part = "react" => SparedAlone
    /\ part = "config" => HeldIsWhole /\ LoggedOnce
    /\ part = "watch" => OnceEach
    /\ part = "sends" => WindowKept /\ SlotWhenTold
    /\ part = "dispatch" => DispatchCapped /\ OneRun
=============================================================================
