----------------------------- MODULE HostUpgrade ----------------------------
(***************************************************************************)
(* The self-upgrade of a Docker install: bin/self-upgrade.sh in the        *)
(* container asks, bin/upgrade-agent.sh on the host does.  They share two  *)
(* files, request.json and status.json, with no lock between them; the     *)
(* host's runs exclude each other with flock.                              *)
(***************************************************************************)
EXTENDS Integers

CONSTANTS
  Versions,       \* released versions, 1..k; the install starts on 1
  Unhealthy,      \* versions whose container never becomes healthy
  NeedMigration,  \* versions whose container exits 78
  MaxRequests,    \* bound
  MaxHostFaults   \* bound: steps that fail, deaths of the host's run

HostAssumption ==
  Versions \subseteq Nat \ {0} /\ 1 \in Versions /\ \E v \in Versions : \A w \in Versions : w <= v

VARIABLES
  pin,       \* KARAKOS_VERSION in config/.env: Latest, a version, or Rollback
  tag,       \* the host's images: tag -> version, 0 when there is none
  running,   \* the version of the container's image, 0 when it is down
  request,   \* request.json: the version asked for, NoRequest without
  status,    \* status.json
  asking,    \* self-upgrade.sh request is between its two files
  host,      \* a run of upgrade-agent.sh
  swept,     \* a run removed a request that was not the one it served
  noWayBack, \* the run began with a pin that does not name the image that runs, or could
             \* not start the container again
  asked, hostFaults

HostVars == <<pin, tag, running, request, status, asking, host, swept, noWayBack, asked,
              hostFaults>>

\* Words among the versions: two tags, and no request.
Latest == 0
Rollback == -1
NoRequest == -2
Newest == CHOOSE v \in Versions : \A w \in Versions : w <= v
Tags == Versions \cup {Latest, Rollback}
Asleep == [at |-> "asleep"]
Ended == {"done", "failed", "needs-migrate"}
Upstream(t) == IF t = Latest THEN Newest ELSE t

HostInit ==
  /\ \E p \in {Latest, 1} :
       /\ pin = p
       /\ tag = [t \in Tags |-> IF t = p THEN 1 ELSE 0]
  /\ running = 1 /\ request = NoRequest /\ asking = FALSE
  /\ status = [state |-> "none", nr |-> 0]
  /\ host = Asleep /\ swept = FALSE /\ noWayBack = FALSE /\ asked = 0 /\ hostFaults = 0

hostFiles == <<request, status, asking>>
images == <<pin, tag, running>>
hostGhosts == <<swept, noWayBack>>
NoHostFault == hostFaults' = hostFaults
HostFault == hostFaults < MaxHostFaults /\ hostFaults' = hostFaults + 1

----------------------------------------------------------------------------
(* self-upgrade.sh request *)

\* It refuses while a request is pending or runs; request.json is written first.
Request(v) ==
  /\ asked < MaxRequests /\ running # 0 /\ ~asking
  /\ status.state \notin {"pending", "running"}
  /\ request' = v /\ asking' = TRUE /\ asked' = asked + 1
  /\ UNCHANGED <<images, status, host, hostGhosts, hostFaults>>

RequestIsPending ==
  /\ asking /\ asking' = FALSE
  /\ status' = [state |-> "pending", nr |-> asked]
  /\ UNCHANGED <<images, request, host, hostGhosts, asked, hostFaults>>

----------------------------------------------------------------------------
(* upgrade-agent.sh, by cron every minute *)

HostInterrupted_Not == FALSE
\* The lock is ours: whoever wrote `running` is dead.
HostInterrupted == status.state = "running"

HostFindsDeadRun ==
  /\ host = Asleep /\ HostInterrupted
  /\ status' = [status EXCEPT !.state = "failed"]
  /\ host' = [at |-> "clears", nr |-> status.nr]
  /\ UNCHANGED <<images, request, asking, hostGhosts, asked, hostFaults>>

HostStarts ==
  /\ host = Asleep /\ status.state = "pending" /\ request # NoRequest
  /\ status' = [status EXCEPT !.state = "running"]
  /\ host' = [at |-> "tags", asks |-> request, from |-> pin, before |-> running,
              nr |-> status.nr, outcome |-> "none"]
  /\ noWayBack' = (tag[pin] # running)
  /\ UNCHANGED <<images, request, asking, swept, asked, hostFaults>>

To(at) == host' = [host EXCEPT !.at = at]
HostGoes(at, outcome) == host' = [host EXCEPT !.at = at, !.outcome = outcome]

TagOf_New == Upstream(host.from)
\* docker image tag IMAGE:from IMAGE:rollback, which needs an image of that tag.
TagOf == tag[host.from]

HostTags ==
  /\ host.at = "tags"
  /\ IF TagOf = 0
     THEN HostGoes("finishes", "failed") /\ tag' = tag
     ELSE To("pulls code") /\ tag' = [tag EXCEPT ![Rollback] = TagOf]
  /\ UNCHANGED <<pin, running, hostFiles, hostGhosts, asked, hostFaults>>

\* git pull, then the pin: `latest` leaves a pin alone.
HostPullsCode ==
  /\ host.at = "pulls code"
  /\ \/ /\ To("pulls") /\ NoHostFault
        /\ pin' = IF host.asks = Latest THEN pin ELSE host.asks
     \/ HostFault /\ HostGoes("finishes", "failed") /\ pin' = pin
  /\ UNCHANGED <<tag, running, hostFiles, hostGhosts, asked>>

\* make pull; there is nothing to pull for the tag made here.
HostPulls ==
  /\ host.at = "pulls"
  /\ \/ /\ pin # Rollback /\ To("downs") /\ NoHostFault
        /\ tag' = [tag EXCEPT ![pin] = Upstream(pin)]
     \/ /\ \/ pin = Rollback /\ NoHostFault
           \/ pin # Rollback /\ HostFault
        /\ HostGoes("rolls back", "failed") /\ tag' = tag
  /\ UNCHANGED <<pin, running, hostFiles, hostGhosts, asked>>

\* make down takes the container, and a request under way in it.
HostDowns ==
  /\ host.at = "downs"
  /\ \/ To("ups") /\ running' = 0 /\ asking' = FALSE /\ NoHostFault
     \/ HostFault /\ HostGoes("rolls back", "failed") /\ UNCHANGED <<running, asking>>
  /\ UNCHANGED <<pin, tag, request, status, hostGhosts, asked>>

HostUps ==
  /\ host.at = "ups"
  /\ \/ To("checks") /\ running' = tag[pin] /\ NoHostFault
     \/ HostFault /\ HostGoes("rolls back", "failed") /\ running' = running
  /\ UNCHANGED <<pin, tag, hostFiles, hostGhosts, asked>>

Healthy_Up == running # 0
Healthy == running \notin Unhealthy \cup NeedMigration

\* wait_healthy.
HostChecks ==
  /\ host.at = "checks"
  /\ IF Healthy THEN HostGoes("finishes", "done")
     ELSE HostGoes("rolls back", IF running \in NeedMigration THEN "needs-migrate" ELSE "failed")
  /\ UNCHANGED <<images, hostFiles, hostGhosts, asked, hostFaults>>

\* The pin is `rollback` from here on; make up recreates a container of another image.
HostRollsBack ==
  /\ host.at = "rolls back"
  /\ pin' = Rollback /\ To("finishes")
  /\ \/ running' = tag[Rollback] /\ noWayBack' = noWayBack /\ NoHostFault
     \/ HostFault /\ noWayBack' = TRUE /\ running' = running
  /\ asking' = (asking /\ running' = running)
  /\ UNCHANGED <<tag, request, status, swept, asked>>

\* finish: status.json first, then the request goes.
HostFinishes ==
  /\ host.at = "finishes"
  /\ status' = [status EXCEPT !.state = host.outcome]
  /\ To("clears")
  /\ UNCHANGED <<images, request, asking, hostGhosts, asked, hostFaults>>

HostClears ==
  /\ host.at = "clears"
  /\ request' = NoRequest
  /\ swept' = (swept \/ asking \/ status.nr # host.nr)
  /\ host' = Asleep
  /\ UNCHANGED <<images, status, asking, noWayBack, asked, hostFaults>>

\* The host goes down under the run.
HostDies ==
  /\ host # Asleep /\ HostFault
  /\ host' = Asleep
  /\ UNCHANGED <<images, hostFiles, hostGhosts, asked>>

----------------------------------------------------------------------------
(* Operators *)

\* The pin is set by hand, back to a version or to the latest (docs/UPGRADING.md).
OperatorPins(v) ==
  /\ host = Asleep /\ v # pin
  /\ pin' = v
  /\ UNCHANGED <<tag, running, hostFiles, host, hostGhosts, asked, hostFaults>>

\* make pull, without the up that makes it the running image.
OperatorPulls ==
  /\ host = Asleep /\ pin # Rollback
  /\ tag' = [tag EXCEPT ![pin] = Upstream(pin)] /\ tag' # tag
  /\ UNCHANGED <<pin, running, hostFiles, host, hostGhosts, asked, hostFaults>>

\* make up: the container is that of the pin from here on.
OperatorUps ==
  /\ host = Asleep /\ tag[pin] \notin {0, running}
  /\ running' = tag[pin] /\ asking' = FALSE
  /\ UNCHANGED <<pin, tag, request, status, host, hostGhosts, asked, hostFaults>>

HostSteps ==
  \/ HostFindsDeadRun \/ HostStarts \/ HostTags \/ HostPullsCode \/ HostPulls \/ HostDowns
  \/ HostUps \/ HostChecks \/ HostRollsBack \/ HostFinishes \/ HostClears

HostNext ==
  \/ \E v \in Versions \cup {Latest} : Request(v)
  \/ RequestIsPending
  \/ HostSteps \/ HostDies
  \/ \E v \in Versions \cup {Latest} : OperatorPins(v)
  \/ OperatorPulls \/ OperatorUps

HostSpec == HostInit /\ [][HostNext]_HostVars

\* Cron starts the host's agent every minute, and the scripts run on.
HostFairness == WF_HostVars(HostSteps) /\ WF_HostVars(RequestIsPending)

----------------------------------------------------------------------------
(* Properties *)

Reported == host.at = "clears" /\ "before" \in DOMAIN host /\ status.nr = host.nr

\* When a run reports a failure, the version that ran before it runs again (or still), also
\* after runs that died: the image was tagged before it was replaced.  Excused are a
\* `make up` that failed in the rollback, and a run that finds a pin which does not name the
\* image that runs (set back by hand, pulled and not started, or left by a run that died): it
\* tags that other image.
FailureRestores ==
  (Reported /\ status.state \in {"failed", "needs-migrate"} /\ ~noWayBack)
     => running = host.before

\* When a run reports `done`, the version it was asked for runs and works: it is the
\* container that was looked at, not the commands' exit codes.
DoneIsHealthy ==
  (Reported /\ status.state = "done")
     => /\ running \in Versions \ (Unhealthy \cup NeedMigration)
        /\ host.asks # Latest => running = host.asks

\* A request comes to an end, whatever becomes of the host's run: the container refuses
\* another one until then.  (Unless a finishing run removed it with its own.)
RequestEnds ==
  \A n \in 1..MaxRequests :
    (status.state \in {"pending", "running"} /\ status.nr = n)
      ~> (status.state \in Ended \/ swept)

=============================================================================
