----------------------------- MODULE RelayConfig -----------------------------
(***************************************************************************)
(* The relay's copy of the configuration: load_config and                  *)
(* maybe_reload_config of bin/relay.py, while other processes (the server, *)
(* create-agent.sh, an operator's editor) write config/agents.yaml and     *)
(* config/channels.json.  A load reads the one file, then the other, and   *)
(* then takes their modification times.                                    *)
(*                                                                         *)
(* A file is its version; the relay holds a version of each and the roles  *)
(* of the agents it ever loaded (load_config adds to the role maps).       *)
(***************************************************************************)
EXTENDS Naturals

CONSTANTS
    MaxConfigEdits  \* bound: versions of each file

VARIABLES
    agents,      \* version of agents.yaml
    channels,    \* version of channels.json
    bad,         \* versions that cannot be loaded: of agents.yaml, of channels.json
    held,        \* the relay's agent_config / registry_obj and channels_config
    mtimes,      \* _config_state["mtimes"]
    failed,      \* _config_state["failed"]: the mtimes of the last failed load
    step,        \* of a load: idle, agents read, channels read
    read,        \* what the load read of agents.yaml
    saved,       \* the copy taken before the load
    current,     \* the mtimes that called for the load
    configTold,  \* failures logged
    crossed      \* history: a file was written while the last load ran

ConfigVars == <<agents, channels, bad, held, mtimes, failed, step, read, saved, current,
                configTold, crossed>>

Times == <<agents, channels>>
NoTimes == <<0, 0>>

\* load_config at the relay's start: both files are there and load.
ConfigInit ==
    /\ agents = 1 /\ channels = 1 /\ bad = {}
    /\ held = <<1, 1>> /\ mtimes = <<1, 1>> /\ failed = NoTimes
    /\ step = "idle" /\ read = 0 /\ saved = <<1, 1>> /\ current = <<1, 1>>
    /\ configTold = 0 /\ crossed = FALSE

-----------------------------------------------------------------------------
(* Faulty variants of definitions below: each breaks a property. *)

\* a failed load keeps what it had read so far
Restored_Not == held

\* every check that finds the failure logs it
News_Always == TRUE

\* only the registry file is watched
Changed_Agents == agents # mtimes[1]

-----------------------------------------------------------------------------
\* Another process writes a file (or replaces it), with a version that loads or
\* one that does not.
Writes(f, ok) ==
    /\ f = "agents" => agents < MaxConfigEdits
    /\ f = "channels" => channels < MaxConfigEdits
    /\ agents' = IF f = "agents" THEN agents + 1 ELSE agents
    /\ channels' = IF f = "channels" THEN channels + 1 ELSE channels
    /\ bad' = IF ok THEN bad ELSE bad \cup {<<f, IF f = "agents" THEN agents + 1 ELSE channels + 1>>}
    /\ crossed' = (crossed \/ step # "idle")
    /\ UNCHANGED <<held, mtimes, failed, step, read, saved, current, configTold>>

\* The files changed since the last load ...
Changed == Times # mtimes

\* ... the relay saves its copy and loads.
ChecksConfig ==
    /\ step = "idle" /\ Changed
    /\ crossed' = FALSE
    /\ current' = Times
    /\ saved' = held
    /\ step' = "agents"
    /\ UNCHANGED <<agents, channels, bad, held, mtimes, failed, read, configTold>>

\* parse_registry: no problem in the file, of an agent or between agents.
Parses(v) == <<"agents", v>> \notin bad

\* agents.yaml: one that does not parse leaves no registry, and the load goes on.
ReadAgents ==
    /\ step = "agents"
    /\ read' = IF Parses(agents) THEN agents ELSE 0
    /\ held' = [held EXCEPT ![1] = read']
    /\ step' = "channels"
    /\ UNCHANGED <<agents, channels, bad, mtimes, failed, saved, current, configTold, crossed>>

\* A failure puts the saved copy back and is logged once per pair of versions.
Restored == saved
News == failed # current
Fails ==
    /\ held' = Restored
    /\ configTold' = IF News THEN configTold + 1 ELSE configTold
    /\ failed' = current
    /\ step' = "idle"

\* channels.json: one that does not parse raises, before the mtimes are taken.
ReadChannels ==
    /\ step = "channels"
    /\ IF <<"channels", channels>> \in bad
       THEN Fails
       ELSE /\ held' = [held EXCEPT ![2] = channels]
            /\ step' = "times"
            /\ UNCHANGED <<configTold, failed>>
    /\ UNCHANGED <<agents, channels, bad, mtimes, read, saved, current, crossed>>

\* The mtimes are taken last; a load that found no registry fails after that.
TakeTimes ==
    /\ step = "times"
    /\ mtimes' = Times
    /\ IF read = 0 THEN Fails
       ELSE failed' = NoTimes /\ step' = "idle" /\ UNCHANGED <<held, configTold>>
    /\ UNCHANGED <<agents, channels, bad, read, saved, current, crossed>>

Reloads == ChecksConfig \/ ReadAgents \/ ReadChannels \/ TakeTimes

ConfigNext ==
    \/ \E f \in {"agents", "channels"}, ok \in BOOLEAN : Writes(f, ok)
    \/ Reloads

ConfigSpec == ConfigInit /\ [][ConfigNext]_ConfigVars

\* maybe_reload_config runs with every event of the gateway.
ConfigFairness == WF_ConfigVars(Reloads)

-----------------------------------------------------------------------------
(* Properties *)

Loads == <<"agents", agents>> \notin bad /\ <<"channels", channels>> \notin bad

\* Between loads the relay works with one version of each file it could load
\* whole: a broken version leaves the last good pair in place, never half of it
\* ("A failed load keeps the previous config").
HeldIsWhole ==
    step = "idle" =>
        /\ <<"agents", held[1]>> \notin bad /\ <<"channels", held[2]>> \notin bad
        /\ held[1] # 0

\* "... and logs once per file version": no more log lines than versions.
LoggedOnce == configTold <= agents + channels

\* A version that loads is in use in the end, "without restarting the relay",
\* unless a file was written while the load that should take it ran: a load takes
\* the files' times after it read them, so it may note a version it never read.
ChangeTakesEffect == Loads ~> (held = Times \/ ~Loads \/ crossed)
=============================================================================
