--------------------------- MODULE ServicesProofs ---------------------------
(***************************************************************************)
(* What holds of the upgrades for all versions, releases and steps, any    *)
(* number of requests, faults, runs and deaths.  One section per           *)
(* component: its inductive invariant, that it holds at first and that     *)
(* each step keeps it.  The last section carries them over to the sum of   *)
(* the services.                                                           *)
(***************************************************************************)
EXTENDS MCServices, SequenceTheorems, TLAPS

-----------------------------------------------------------------------------
(* HostUpgrade *)

\* A run of the host's agent works up to `finishes`; what `clears` is past its report.
Working == {"tags", "pulls code", "pulls", "downs", "ups", "checks", "rolls back", "finishes"}
HostRun == [at : Working \cup {"clears"}, asks : Versions \cup {Latest}, from : Tags,
            before : Versions \cup {0}, nr : Nat, outcome : Ended \cup {"none"}]
\* What is left to do for a run that was found dead.
DeadRun == [at : {"clears"}, nr : Nat]

HostTypes ==
  /\ pin \in Tags /\ tag \in [Tags -> Versions \cup {0}] /\ running \in Versions \cup {0}
  /\ request \in Versions \cup {Latest, NoRequest} /\ asking \in BOOLEAN
  /\ status \in [state : Ended \cup {"none", "pending", "running"}, nr : Nat]
  /\ host \in HostRun \cup DeadRun \cup {Asleep}
  /\ noWayBack \in BOOLEAN /\ asked \in Nat

\* The numbers of requests rise, and a run that works is what `running` tells of.
RunIsReported ==
  /\ status.nr <= asked /\ (asking => status.nr < asked /\ status.state \notin {"pending", "running"})
  /\ host # Asleep => host.nr <= status.nr
  /\ host.at \in Working => ~asking /\ status = [state |-> "running", nr |-> host.nr]
  /\ host.at = "clears" => status.state # "running"
  /\ host \in HostRun /\ host.at = "clears" /\ status.nr = host.nr =>
       status.state = host.outcome

OutcomeFits ==
  host \in HostRun =>
    /\ host.at = "rolls back" => host.outcome \in Ended \ {"done"}
    /\ host.at \in {"finishes", "clears"} => host.outcome \in Ended

\* The new image is what was asked for, and `done` was said of a container that was looked at.
NewImage ==
  host \in HostRun =>
    /\ host.at \in {"pulls", "downs", "ups", "checks"} =>
         (host.asks # Latest => pin = host.asks)
    /\ host.at \in {"downs", "ups", "checks"} => pin # Rollback /\ tag[pin] = Upstream(pin)
    /\ host.at = "checks" => running = Upstream(pin)
    /\ host.at \in {"finishes", "clears"} /\ host.outcome = "done" =>
         /\ running \in Versions \ (Unhealthy \cup NeedMigration)
         /\ host.asks # Latest => running = host.asks

\* The image that ran before the run stays under a tag, until the run ended well: where the
\* pin named it when the run began.
OldImage ==
  ~noWayBack /\ host \in HostRun =>
    /\ host.at = "tags" => host.from = pin /\ tag[pin] = running
    /\ host.at \in {"tags", "pulls code", "pulls", "downs"} => host.before = running
    /\ host.at \in {"pulls code", "pulls", "downs", "ups", "checks", "rolls back"} =>
         tag[Rollback] = host.before
    /\ host.at \in {"finishes", "clears"} => (host.outcome # "done" => running = host.before)

HostInv == HostTypes /\ RunIsReported /\ OutcomeFits /\ NewImage /\ OldImage

LEMMA VersionFacts ==
  ASSUME HostAssumption
  PROVE  /\ Newest \in Versions /\ Versions \subseteq Nat /\ 0 \notin Versions
         /\ Rollback \notin Versions /\ Latest \notin Versions /\ Latest # Rollback
         /\ NoRequest \notin Versions \cup {Latest}
         /\ \A t \in Tags \ {Rollback} : Upstream(t) \in Versions
         /\ \A t \in Versions : Upstream(t) = t
<1>1. Newest \in Versions  BY DEF HostAssumption, Newest
<1> QED  BY <1>1 DEF HostAssumption, Rollback, Latest, NoRequest, Tags, Upstream

LEMMA HostMoves ==
  ASSUME host \in HostRun, NEW at \in Working \cup {"clears"}, NEW o \in Ended \cup {"none"},
         \/ HostGoes(at, o)
         \/ To(at) /\ o = host.outcome
  PROVE  /\ host' = [at |-> at, asks |-> host.asks, from |-> host.from, before |-> host.before,
                     nr |-> host.nr, outcome |-> o]
         /\ host' \in HostRun /\ host' # Asleep
         /\ host'.at = at /\ host'.outcome = o /\ host'.asks = host.asks
         /\ host'.from = host.from /\ host'.before = host.before /\ host'.nr = host.nr
<1>1. host' = [at |-> at, asks |-> host.asks, from |-> host.from, before |-> host.before,
               nr |-> host.nr, outcome |-> o]
    BY DEF HostGoes, To, HostRun
<1>2. host' \in HostRun  BY <1>1 DEF HostRun
<1> QED  BY <1>1, <1>2 DEF Asleep

LEMMA HostRuns ==
  ASSUME HostTypes
  PROVE  /\ host.at \in Working => host \in HostRun
         /\ host \in HostRun => host # Asleep /\ host.at \in Working \cup {"clears"}
         /\ host \in DeadRun => host # Asleep /\ host \notin HostRun /\ host.at = "clears"
         /\ host \in HostRun \cup DeadRun => host.nr \in Nat
         /\ "before" \in DOMAIN host => host \in HostRun
<1>1. ASSUME host \in HostRun
      PROVE  host # Asleep /\ host.at \in Working \cup {"clears"} /\ host.nr \in Nat /\ host \notin DeadRun
    BY <1>1 DEF HostRun, DeadRun, Asleep
<1>2. ASSUME host \in DeadRun
      PROVE  host # Asleep /\ host.at = "clears" /\ host.nr \in Nat /\ "before" \notin DOMAIN host
    BY <1>2 DEF DeadRun, Asleep
<1>3. ASSUME host = Asleep PROVE host.at \notin Working /\ "before" \notin DOMAIN host
    BY <1>3 DEF Asleep, Working
<1> QED  BY <1>1, <1>2, <1>3 DEF HostTypes, Working

\* A step of a run that goes on working, and leaves the two files alone.
LEMMA WorkStep ==
  ASSUME HostInv, host \in HostRun, host.at \in Working, host' \in HostRun,
         host'.at \in Working, host'.nr = host.nr,
         UNCHANGED <<status, asked, request>>, asking' => asking, asking' \in BOOLEAN,
         pin' \in Tags, tag' \in [Tags -> Versions \cup {0}], running' \in Versions \cup {0},
         noWayBack' \in BOOLEAN
  PROVE  HostTypes' /\ RunIsReported'
<1>1. HostTypes'  BY DEF HostInv, HostTypes
<1>2. host'.at # "clears" /\ host # Asleep  BY HostRuns DEF Working, HostInv
<1>3. ~asking  BY DEF HostInv, RunIsReported
<1> QED  BY <1>1, <1>2, <1>3 DEF HostInv, RunIsReported

\* A step of a working run: its next place, and what it does to the images.
LEMMA HostWorks == ASSUME HostAssumption, HostInv, HostSteps PROVE HostInv'
<1> USE DEF HostInv
<1>v. /\ Newest \in Versions /\ Versions \subseteq Nat /\ 0 \notin Versions
      /\ Rollback \notin Versions /\ Latest \notin Versions /\ Latest # Rollback
      /\ NoRequest \notin Versions \cup {Latest}
      /\ \A t \in Tags \ {Rollback} : Upstream(t) \in Versions
      /\ \A t \in Versions : Upstream(t) = t
    BY VersionFacts
<1>r. /\ host.at \in Working => host \in HostRun
      /\ host \in HostRun => host # Asleep /\ host.at \in Working \cup {"clears"}
      /\ host \in DeadRun => host # Asleep /\ host \notin HostRun /\ host.at = "clears"
      /\ host \in HostRun \cup DeadRun => host.nr \in Nat
    BY HostRuns
<1>1. CASE HostFindsDeadRun
  <2>1. /\ host = Asleep /\ status.state = "running"
        /\ status' = [state |-> "failed", nr |-> status.nr]
        /\ host' = [at |-> "clears", nr |-> status.nr]
        /\ UNCHANGED <<images, request, asking, hostGhosts, asked, hostFaults>>
      BY <1>1 DEF HostFindsDeadRun, HostInterrupted, HostTypes
  <2>2. host' \in DeadRun /\ host' \notin HostRun /\ host'.at = "clears" /\ host'.nr = status.nr /\ host' # Asleep
      BY <2>1 DEF DeadRun, HostRun, HostTypes, Asleep
  <2>3. HostTypes'
      BY <2>1, <2>2 DEF HostTypes, images, hostGhosts, Ended
  <2>4. status.nr \in Nat  BY <2>1 DEF HostTypes
  <2>8. /\ status'.nr = status.nr /\ status'.state = "failed" /\ ~asking /\ ~asking'
        /\ asked' = asked /\ status.nr <= asked
      BY <2>1 DEF RunIsReported
  <2>5. RunIsReported'
    <3>1. host'.nr <= status'.nr  BY <2>2, <2>4, <2>8
    <3>2. host'.at \notin Working  BY <2>2 DEF Working
    <3> QED  BY <2>2, <2>8, <3>1, <3>2 DEF RunIsReported
  <2>6. OutcomeFits' /\ NewImage'  BY <2>2 DEF OutcomeFits, NewImage
  <2>7. OldImage'  BY <2>2 DEF OldImage
  <2> QED  BY <2>3, <2>5, <2>6, <2>7
<1>2. CASE HostStarts
  <2>1. /\ host = Asleep /\ status.state = "pending" /\ request \in Versions \cup {Latest}
        /\ status' = [state |-> "running", nr |-> status.nr]
        /\ host' = [at |-> "tags", asks |-> request, from |-> pin, before |-> running,
                    nr |-> status.nr, outcome |-> "none"]
        /\ noWayBack' = (tag[pin] # running)
        /\ UNCHANGED <<images, request, asking, swept, asked, hostFaults>>
      BY <1>2 DEF HostStarts, HostTypes
  <2>2. host' \in HostRun /\ host' # Asleep /\ host' \notin DeadRun
      BY <2>1 DEF HostRun, Asleep, DeadRun, HostTypes, Working
  <2>3. ~asking
      BY <2>1 DEF RunIsReported
  <2>4. host'.at = "tags" /\ host'.nr = status.nr /\ host'.from = pin /\ host'.before = running
      BY <2>1
  <2>5. /\ status.nr \in Nat /\ noWayBack' \in BOOLEAN
        /\ UNCHANGED <<pin, tag, running, request, asking, asked>>
      BY <2>1 DEF HostTypes, images
  <2>6. HostTypes'
      BY <2>1, <2>2, <2>5 DEF HostTypes
  <2>7. RunIsReported'
    <3>1. host'.nr <= status'.nr /\ status'.nr <= asked' /\ ~asking'
        BY <2>1, <2>3, <2>4, <2>5 DEF RunIsReported
    <3>2. status' = [state |-> "running", nr |-> host'.nr]  BY <2>1, <2>4
    <3>3. host'.at # "clears"  BY <2>4
    <3> QED  BY <3>1, <3>2, <3>3 DEF RunIsReported
  <2>8. OutcomeFits' /\ NewImage'  BY <2>4 DEF OutcomeFits, NewImage
  <2>9. OldImage'  BY <2>1, <2>2, <2>4, <2>5 DEF OldImage
  <2> QED  BY <2>6, <2>7, <2>8, <2>9
<1>3. CASE HostTags
  <2>1. host \in HostRun /\ host.at = "tags"  BY <1>3, <1>r DEF HostTags, Working
  <2>2. UNCHANGED <<pin, running, request, status, asking, swept, noWayBack, asked, hostFaults>>
      BY <1>3 DEF HostTags, hostFiles, hostGhosts
  <2>3. CASE tag[host.from] = 0
    <3>1. HostGoes("finishes", "failed") /\ tag' = tag  BY <1>3, <2>3 DEF HostTags, TagOf
    <3>2. /\ host' \in HostRun /\ host' # Asleep /\ host'.at = "finishes" /\ host'.outcome = "failed"
          /\ host'.asks = host.asks /\ host'.from = host.from /\ host'.before = host.before
          /\ host'.nr = host.nr
        BY <2>1, <3>1, HostMoves DEF Working, Ended
    <3>a. HostTypes' /\ RunIsReported'
        BY <2>1, <2>2, <3>1, <3>2, WorkStep DEF HostTypes, Working
    <3>b. OutcomeFits'
        BY <2>1, <2>2, <3>1, <3>2 DEF OutcomeFits, Ended
    <3>c. NewImage'
        BY <2>1, <2>2, <3>1, <3>2 DEF NewImage
    <3>d. OldImage'
        BY <2>1, <2>2, <3>1, <3>2 DEF OldImage
    <3> QED  BY <3>a, <3>b, <3>c, <3>d
  <2>4. CASE tag[host.from] # 0
    <3>1. To("pulls code") /\ tag' = [tag EXCEPT ![Rollback] = tag[host.from]]
        BY <1>3, <2>4 DEF HostTags, TagOf
    <3>2. /\ host' \in HostRun /\ host' # Asleep /\ host'.at = "pulls code" /\ host'.outcome = host.outcome
          /\ host'.asks = host.asks /\ host'.from = host.from /\ host'.before = host.before
          /\ host'.nr = host.nr
        BY <2>1, <3>1, HostMoves DEF Working, HostRun
    <3>3. host.from \in Tags /\ Rollback \in Tags  BY <2>1 DEF HostRun, Tags
    <3>4. HostTypes'
        BY <2>1, <2>2, <3>1, <3>2, <3>3 DEF HostTypes
    <3>5. tag'[Rollback] = tag[host.from] /\ \A t \in Tags \ {Rollback} : tag'[t] = tag[t]
        BY <3>1, <3>3 DEF HostTypes
    <3>6. ~noWayBack => /\ host.from = pin /\ tag[pin] = running /\ host.before = running
                       /\ tag'[Rollback] = running
        BY <2>1, <3>5 DEF OldImage, HostTypes
    <3>a. HostTypes' /\ RunIsReported'
        BY <2>1, <2>2, <3>2, <3>4, <3>5, WorkStep DEF HostTypes, Working
    <3>b. OutcomeFits'
        BY <2>1, <2>2, <3>2, <3>4, <3>5 DEF OutcomeFits, Ended
    <3>c. NewImage'
        BY <2>1, <2>2, <3>2, <3>4, <3>5 DEF NewImage
    <3>d. OldImage'
        BY <2>1, <2>2, <3>2, <3>6 DEF OldImage
    <3> QED  BY <3>a, <3>b, <3>c, <3>d
  <2> QED  BY <2>3, <2>4
<1>4. CASE HostPullsCode
  <2>1. host \in HostRun /\ host.at = "pulls code"  BY <1>4, <1>r DEF HostPullsCode, Working
  <2>2. UNCHANGED <<tag, running, request, status, asking, swept, noWayBack, asked>>
      BY <1>4 DEF HostPullsCode, hostFiles, hostGhosts
  <2>3. CASE To("pulls") /\ pin' = IF host.asks = Latest THEN pin ELSE host.asks
    <3>2. /\ host' \in HostRun /\ host' # Asleep /\ host'.at = "pulls" /\ host'.outcome = host.outcome
          /\ host'.asks = host.asks /\ host'.from = host.from /\ host'.before = host.before
          /\ host'.nr = host.nr
        BY <2>1, <2>3, HostMoves DEF Working, HostRun
    <3>3. pin' \in Tags  BY <2>1, <2>3 DEF HostRun, Tags, HostTypes
    <3>a. HostTypes' /\ RunIsReported'
        BY <2>1, <2>2, <2>3, <3>2, <3>3, WorkStep DEF HostTypes, Working
    <3>b. OutcomeFits'
        BY <2>1, <2>2, <2>3, <3>2, <3>3 DEF OutcomeFits, Ended
    <3>c. NewImage'
        BY <2>1, <2>2, <2>3, <3>2, <3>3 DEF NewImage
    <3>d. OldImage'
        BY <2>1, <2>2, <2>3, <3>2, <3>3 DEF OldImage
    <3> QED  BY <3>a, <3>b, <3>c, <3>d
  <2>4. CASE HostGoes("finishes", "failed") /\ pin' = pin
    <3>2. /\ host' \in HostRun /\ host' # Asleep /\ host'.at = "finishes" /\ host'.outcome = "failed"
          /\ host'.asks = host.asks /\ host'.from = host.from /\ host'.before = host.before
          /\ host'.nr = host.nr
        BY <2>1, <2>4, HostMoves DEF Working, Ended
    <3>a. HostTypes' /\ RunIsReported'
        BY <2>1, <2>2, <2>4, <3>2, WorkStep DEF HostTypes, Working
    <3>b. OutcomeFits'
        BY <2>1, <2>2, <2>4, <3>2 DEF OutcomeFits, Ended
    <3>c. NewImage'
        BY <2>1, <2>2, <2>4, <3>2 DEF NewImage
    <3>d. OldImage'
        BY <2>1, <2>2, <2>4, <3>2 DEF OldImage
    <3> QED  BY <3>a, <3>b, <3>c, <3>d
  <2> QED  BY <1>4, <2>3, <2>4 DEF HostPullsCode
<1>5. CASE HostPulls
  <2>1. host \in HostRun /\ host.at = "pulls"  BY <1>5, <1>r DEF HostPulls, Working
  <2>2. UNCHANGED <<pin, running, request, status, asking, swept, noWayBack, asked>>
      BY <1>5 DEF HostPulls, hostFiles, hostGhosts
  <2>3. CASE pin # Rollback /\ To("downs") /\ tag' = [tag EXCEPT ![pin] = Upstream(pin)]
    <3>2. /\ host' \in HostRun /\ host' # Asleep /\ host'.at = "downs" /\ host'.outcome = host.outcome
          /\ host'.asks = host.asks /\ host'.from = host.from /\ host'.before = host.before
          /\ host'.nr = host.nr
        BY <2>1, <2>3, HostMoves DEF Working, HostRun
    <3>3. Upstream(pin) \in Versions  BY <1>v, <2>3 DEF HostTypes
    <3>4. HostTypes'  BY <2>2, <2>3, <3>2, <3>3 DEF HostTypes
    <3>5. tag'[pin] = Upstream(pin) /\ tag'[Rollback] = tag[Rollback]
        BY <2>3 DEF HostTypes, Tags
    <3>a. HostTypes' /\ RunIsReported'
        BY <2>1, <2>2, <2>3, <3>2, <3>4, <3>5, WorkStep DEF HostTypes, Working
    <3>b. OutcomeFits'
        BY <2>1, <2>2, <2>3, <3>2, <3>4, <3>5 DEF OutcomeFits, Ended
    <3>c. NewImage'
        BY <2>1, <2>2, <2>3, <3>2, <3>4, <3>5 DEF NewImage
    <3>d. OldImage'
        BY <2>1, <2>2, <2>3, <3>2, <3>4, <3>5 DEF OldImage
    <3> QED  BY <3>a, <3>b, <3>c, <3>d
  <2>4. CASE HostGoes("rolls back", "failed") /\ tag' = tag
    <3>2. /\ host' \in HostRun /\ host' # Asleep /\ host'.at = "rolls back" /\ host'.outcome = "failed"
          /\ host'.asks = host.asks /\ host'.from = host.from /\ host'.before = host.before
          /\ host'.nr = host.nr
        BY <2>1, <2>4, HostMoves DEF Working, Ended
    <3>a. HostTypes' /\ RunIsReported'
        BY <2>1, <2>2, <2>4, <3>2, WorkStep DEF HostTypes, Working
    <3>b. OutcomeFits'
        BY <2>1, <2>2, <2>4, <3>2 DEF OutcomeFits, Ended
    <3>c. NewImage'
        BY <2>1, <2>2, <2>4, <3>2 DEF NewImage
    <3>d. OldImage'
        BY <2>1, <2>2, <2>4, <3>2 DEF OldImage
    <3> QED  BY <3>a, <3>b, <3>c, <3>d
  <2> QED  BY <1>5, <2>3, <2>4 DEF HostPulls
<1>6. CASE HostDowns
  <2>1. host \in HostRun /\ host.at = "downs"  BY <1>6, <1>r DEF HostDowns, Working
  <2>2. UNCHANGED <<pin, tag, request, status, swept, noWayBack, asked>>
      BY <1>6 DEF HostDowns, hostGhosts
  <2>3. CASE To("ups") /\ running' = 0 /\ asking' = FALSE
    <3>2. /\ host' \in HostRun /\ host' # Asleep /\ host'.at = "ups" /\ host'.outcome = host.outcome
          /\ host'.asks = host.asks /\ host'.from = host.from /\ host'.before = host.before
          /\ host'.nr = host.nr
        BY <2>1, <2>3, HostMoves DEF Working, HostRun
    <3>a. HostTypes' /\ RunIsReported'
        BY <2>1, <2>2, <2>3, <3>2, WorkStep DEF HostTypes, Working
    <3>b. OutcomeFits'
        BY <2>1, <2>2, <2>3, <3>2 DEF OutcomeFits, Ended
    <3>c. NewImage'
        BY <2>1, <2>2, <2>3, <3>2 DEF NewImage
    <3>d. OldImage'
        BY <2>1, <2>2, <2>3, <3>2 DEF OldImage
    <3> QED  BY <3>a, <3>b, <3>c, <3>d
  <2>4. CASE HostGoes("rolls back", "failed") /\ UNCHANGED <<running, asking>>
    <3>2. /\ host' \in HostRun /\ host' # Asleep /\ host'.at = "rolls back" /\ host'.outcome = "failed"
          /\ host'.asks = host.asks /\ host'.from = host.from /\ host'.before = host.before
          /\ host'.nr = host.nr
        BY <2>1, <2>4, HostMoves DEF Working, Ended
    <3>a. HostTypes' /\ RunIsReported'
        BY <2>1, <2>2, <2>4, <3>2, WorkStep DEF HostTypes, Working
    <3>b. OutcomeFits'
        BY <2>1, <2>2, <2>4, <3>2 DEF OutcomeFits, Ended
    <3>c. NewImage'
        BY <2>1, <2>2, <2>4, <3>2 DEF NewImage
    <3>d. OldImage'
        BY <2>1, <2>2, <2>4, <3>2 DEF OldImage
    <3> QED  BY <3>a, <3>b, <3>c, <3>d
  <2> QED  BY <1>6, <2>3, <2>4 DEF HostDowns
<1>7. CASE HostUps
  <2>1. host \in HostRun /\ host.at = "ups"  BY <1>7, <1>r DEF HostUps, Working
  <2>2. UNCHANGED <<pin, tag, request, status, asking, swept, noWayBack, asked>>
      BY <1>7 DEF HostUps, hostFiles, hostGhosts
  <2>3. CASE To("checks") /\ running' = tag[pin]
    <3>2. /\ host' \in HostRun /\ host' # Asleep /\ host'.at = "checks" /\ host'.outcome = host.outcome
          /\ host'.asks = host.asks /\ host'.from = host.from /\ host'.before = host.before
          /\ host'.nr = host.nr
        BY <2>1, <2>3, HostMoves DEF Working, HostRun
    <3>a. HostTypes' /\ RunIsReported'
        BY <2>1, <2>2, <2>3, <3>2, WorkStep DEF HostTypes, Working
    <3>b. OutcomeFits'
        BY <2>1, <2>2, <2>3, <3>2 DEF OutcomeFits, Ended
    <3>c. NewImage'
        BY <2>1, <2>2, <2>3, <3>2 DEF NewImage
    <3>d. OldImage'
        BY <2>1, <2>2, <2>3, <3>2 DEF OldImage
    <3> QED  BY <3>a, <3>b, <3>c, <3>d
  <2>4. CASE HostGoes("rolls back", "failed") /\ running' = running
    <3>2. /\ host' \in HostRun /\ host' # Asleep /\ host'.at = "rolls back" /\ host'.outcome = "failed"
          /\ host'.asks = host.asks /\ host'.from = host.from /\ host'.before = host.before
          /\ host'.nr = host.nr
        BY <2>1, <2>4, HostMoves DEF Working, Ended
    <3>a. HostTypes' /\ RunIsReported'
        BY <2>1, <2>2, <2>4, <3>2, WorkStep DEF HostTypes, Working
    <3>b. OutcomeFits'
        BY <2>1, <2>2, <2>4, <3>2 DEF OutcomeFits, Ended
    <3>c. NewImage'
        BY <2>1, <2>2, <2>4, <3>2 DEF NewImage
    <3>d. OldImage'
        BY <2>1, <2>2, <2>4, <3>2 DEF OldImage
    <3> QED  BY <3>a, <3>b, <3>c, <3>d
  <2> QED  BY <1>7, <2>3, <2>4 DEF HostUps
<1>8. CASE HostChecks
  <2>1. host \in HostRun /\ host.at = "checks"  BY <1>8, <1>r DEF HostChecks, Working
  <2>2. UNCHANGED <<pin, tag, running, request, status, asking, swept, noWayBack, asked>>
      BY <1>8 DEF HostChecks, hostFiles, hostGhosts, images
  <2>3. CASE Healthy
    <3>1. HostGoes("finishes", "done")  BY <1>8, <2>3 DEF HostChecks
    <3>2. /\ host' \in HostRun /\ host' # Asleep /\ host'.at = "finishes" /\ host'.outcome = "done"
          /\ host'.asks = host.asks /\ host'.from = host.from /\ host'.before = host.before
          /\ host'.nr = host.nr
        BY <2>1, <3>1, HostMoves DEF Working, Ended
    <3>3. /\ running = Upstream(pin) /\ tag[pin] = running /\ running \in Versions
          /\ host.asks # Latest => running = host.asks
      <4>1. /\ running = Upstream(pin) /\ tag[pin] = running /\ pin # Rollback /\ pin \in Tags
            /\ host.asks # Latest => pin = host.asks
          BY <2>1 DEF NewImage, HostTypes
      <4>2. host.asks # Latest => host.asks \in Versions  BY <2>1 DEF HostRun
      <4> QED  BY <1>v, <4>1, <4>2
    <3>4. running \notin Unhealthy \cup NeedMigration  BY <2>3 DEF Healthy
    <3>a. HostTypes' /\ RunIsReported'
        BY <2>1, <2>2, <3>2, <3>3, <3>4, WorkStep DEF HostTypes, Working
    <3>b. OutcomeFits'
        BY <2>1, <2>2, <3>2, <3>3, <3>4 DEF OutcomeFits, Ended
    <3>c. NewImage'
        BY <2>1, <2>2, <3>2, <3>3, <3>4 DEF NewImage
    <3>d. OldImage'
        BY <2>1, <2>2, <3>2, <3>3, <3>4 DEF OldImage
    <3> QED  BY <3>a, <3>b, <3>c, <3>d
  <2>4. CASE ~Healthy
    <3> DEFINE o == IF running \in NeedMigration THEN "needs-migrate" ELSE "failed"
    <3>1. HostGoes("rolls back", o)  BY <1>8, <2>4 DEF HostChecks
    <3>2. o \in Ended \ {"done"}  BY DEF Ended
    <3> HIDE DEF o
    <3>3. /\ host' \in HostRun /\ host' # Asleep /\ host'.at = "rolls back" /\ host'.outcome = o
          /\ host'.asks = host.asks /\ host'.from = host.from /\ host'.before = host.before
          /\ host'.nr = host.nr
        BY <2>1, <3>1, <3>2, HostMoves DEF Working
    <3>a. HostTypes' /\ RunIsReported'
        BY <2>1, <2>2, <3>2, <3>3, WorkStep DEF HostTypes, Working
    <3>b. OutcomeFits'
        BY <2>1, <2>2, <3>2, <3>3 DEF OutcomeFits, Ended
    <3>c. NewImage'
        BY <2>1, <2>2, <3>2, <3>3 DEF NewImage
    <3>d. OldImage'
        BY <2>1, <2>2, <3>2, <3>3 DEF OldImage
    <3> QED  BY <3>a, <3>b, <3>c, <3>d
  <2> QED  BY <2>3, <2>4
<1>9. CASE HostRollsBack
  <2>1. host \in HostRun /\ host.at = "rolls back"  BY <1>9, <1>r DEF HostRollsBack, Working
  <2>2. UNCHANGED <<tag, request, status, swept, asked>> /\ To("finishes") /\ pin' = Rollback /\ ~asking'
      BY <1>9, <2>1 DEF HostRollsBack, RunIsReported, Working
  <2>3. /\ host' \in HostRun /\ host' # Asleep /\ host'.at = "finishes" /\ host'.outcome = host.outcome
        /\ host'.asks = host.asks /\ host'.from = host.from /\ host'.before = host.before
        /\ host'.nr = host.nr
      BY <2>1, <2>2, HostMoves DEF Working, HostRun
  <2>4. \/ running' = tag[Rollback] /\ (~noWayBack' => ~noWayBack) /\ noWayBack' \in BOOLEAN
        \/ running' = running /\ noWayBack' = TRUE
      BY <1>9 DEF HostRollsBack, HostTypes
  <2>5. tag[Rollback] \in Versions \cup {0} /\ Rollback \in Tags /\ running' \in Versions \cup {0}
      BY <2>4 DEF HostTypes, Tags
  <2>a. HostTypes' /\ RunIsReported'
    <3>1. asking' \in BOOLEAN  BY <1>9 DEF HostRollsBack
    <3> QED  BY <2>1, <2>2, <2>3, <2>4, <2>5, <3>1, WorkStep DEF HostTypes, Working
  <2>b. OutcomeFits'
      BY <2>1, <2>2, <2>3 DEF OutcomeFits
  <2>c. NewImage'
      BY <2>1, <2>2, <2>3 DEF NewImage, OutcomeFits
  <2>d. OldImage'
      BY <2>1, <2>2, <2>3, <2>4 DEF OldImage
  <2> QED  BY <2>a, <2>b, <2>c, <2>d
<1>10. CASE HostFinishes
  <2>1. host \in HostRun /\ host.at = "finishes" /\ host.outcome \in Ended
      BY <1>10, <1>r DEF HostFinishes, Working, OutcomeFits
  <2>2. UNCHANGED <<pin, tag, running, request, asking, swept, noWayBack, asked>> /\ To("clears")
      BY <1>10 DEF HostFinishes, hostGhosts, images
  <2>3. status' = [state |-> host.outcome, nr |-> status.nr]
      BY <1>10 DEF HostFinishes, HostTypes
  <2>4. /\ host' \in HostRun /\ host' # Asleep /\ host'.at = "clears" /\ host'.outcome = host.outcome
        /\ host'.asks = host.asks /\ host'.from = host.from /\ host'.before = host.before
        /\ host'.nr = host.nr
      BY <2>1, <2>2, HostMoves DEF HostRun
  <2> QED  BY <2>1, <2>2, <2>3, <2>4 DEF HostTypes, RunIsReported, OutcomeFits, NewImage, OldImage, Working, Ended
<1>11. CASE HostClears
  <2>1. UNCHANGED <<pin, tag, running, status, asking, noWayBack, asked>> /\ host' = Asleep
        /\ request' = NoRequest /\ host.at = "clears"
      BY <1>11 DEF HostClears, images
  <2>2. host' \notin HostRun /\ host'.at = "asleep"  BY <2>1 DEF Asleep, HostRun
  <2> QED  BY <2>1, <2>2 DEF HostTypes, RunIsReported, OutcomeFits, NewImage, OldImage, Working
<1> QED  BY <1>1, <1>2, <1>3, <1>4, <1>5, <1>6, <1>7, <1>8, <1>9, <1>10, <1>11 DEF HostSteps

LEMMA HostStep == ASSUME HostAssumption, HostInv, [HostNext]_HostVars PROVE HostInv'
<1> USE DEF HostInv
<1>r. /\ host.at \in Working => host \in HostRun
      /\ host \in HostRun => host # Asleep /\ host.at \in Working \cup {"clears"}
      /\ host \in HostRun \cup DeadRun => host.nr \in Nat
    BY HostRuns
<1>1. ASSUME NEW v \in Versions \cup {Latest}, Request(v) PROVE HostInv'
  <2>1. /\ request' = v /\ asking' = TRUE /\ asked' = asked + 1 /\ ~asking
        /\ status.state \notin {"pending", "running"}
        /\ UNCHANGED <<pin, tag, running, status, host, noWayBack>>
      BY <1>1 DEF Request, images, hostGhosts
  <2>2. host.at \notin Working  BY <2>1 DEF RunIsReported
  <2>3. HostTypes'  BY <2>1 DEF HostTypes
  <2>4. RunIsReported'
      BY <2>1, <2>2 DEF RunIsReported, HostTypes
  <2> QED  BY <2>1, <2>3, <2>4 DEF OutcomeFits, NewImage, OldImage
<1>2. CASE RequestIsPending
  <2>1. /\ asking /\ ~asking' /\ asking' \in BOOLEAN
        /\ status' = [state |-> "pending", nr |-> asked]
        /\ UNCHANGED <<pin, tag, running, request, host, noWayBack, asked>>
      BY <1>2 DEF RequestIsPending, images, hostGhosts
  <2>2. host.at \notin Working /\ status.nr < asked  BY <2>1 DEF RunIsReported
  <2>3. HostTypes'  BY <2>1 DEF HostTypes
  <2>4. host # Asleep => host.nr < status'.nr
      BY <1>r, <2>1, <2>2 DEF RunIsReported, HostTypes
  <2>5. status'.nr = asked /\ status'.state = "pending"  BY <2>1
  <2>6. RunIsReported'
      BY <1>r, <2>1, <2>2, <2>4, <2>5 DEF RunIsReported, HostTypes
  <2> QED  BY <2>1, <2>3, <2>5, <2>6 DEF OutcomeFits, NewImage, OldImage
<1>3. CASE HostSteps
    BY <1>3, HostWorks
<1>4. CASE HostDies
  <2>1. host' = Asleep
        /\ UNCHANGED <<pin, tag, running, request, status, asking, noWayBack, asked>>
      BY <1>4 DEF HostDies, images, hostFiles, hostGhosts
  <2>2. host' \notin HostRun /\ host'.at \notin Working \cup {"clears"}
      BY <2>1 DEF Asleep, HostRun, Working
  <2>3. HostTypes'  BY <2>1 DEF HostTypes
  <2>4. RunIsReported'
      BY <2>1, <2>2 DEF RunIsReported
  <2> QED  BY <2>1, <2>2, <2>3, <2>4 DEF OutcomeFits, NewImage, OldImage
<1>5. ASSUME host = Asleep, host' = host, UNCHANGED <<request, status, noWayBack, asked>>,
             pin' \in Tags, tag' \in [Tags -> Versions \cup {0}], running' \in Versions \cup {0},
             asking' \in BOOLEAN, asking' => asking
      PROVE HostInv'
  <2>1. HostTypes'  BY <1>5 DEF HostTypes
  <2>2. host \notin HostRun /\ host.at \notin Working \cup {"clears"}
      BY <1>5 DEF Asleep, HostRun, Working
  <2>3. RunIsReported'  BY <1>5, <2>2 DEF RunIsReported
  <2> QED  BY <1>5, <2>1, <2>2, <2>3 DEF OutcomeFits, NewImage, OldImage
<1>6. CASE (\E v \in Versions \cup {Latest} : OperatorPins(v)) \/ OperatorPulls \/ OperatorUps
  <2>1. ASSUME NEW v \in Versions \cup {Latest}, OperatorPins(v) PROVE HostInv'
    <3>1. v \in Tags  BY DEF Tags
    <3> QED  BY <1>5, <2>1, <3>1 DEF OperatorPins, hostFiles, hostGhosts, HostTypes
  <2>2. CASE OperatorPulls
    <3>1. host = Asleep /\ pin # Rollback /\ tag' = [tag EXCEPT ![pin] = Upstream(pin)]
          /\ UNCHANGED <<pin, running, request, status, asking, host, noWayBack, asked>>
        BY <2>2 DEF OperatorPulls, hostFiles, hostGhosts
    <3>2. Upstream(pin) \in Versions  BY <3>1, VersionFacts DEF HostTypes
    <3>3. tag' \in [Tags -> Versions \cup {0}]  BY <3>1, <3>2 DEF HostTypes
    <3> QED  BY <1>5, <3>1, <3>3 DEF HostTypes
  <2>3. CASE OperatorUps
    <3>1. host = Asleep /\ running' = tag[pin] /\ asking' = FALSE
          /\ UNCHANGED <<pin, tag, request, status, host, noWayBack, asked>>
        BY <2>3 DEF OperatorUps, hostGhosts
    <3>2. running' \in Versions \cup {0}  BY <3>1 DEF HostTypes
    <3> QED  BY <1>5, <3>1, <3>2 DEF HostTypes
  <2> QED  BY <1>6, <2>1, <2>2, <2>3
<1>7. CASE UNCHANGED HostVars
  <2>1. UNCHANGED <<pin, tag, running, request, status, asking, host, noWayBack, asked>>
      BY <1>7 DEF HostVars
  <2>2. HostTypes'  BY <2>1 DEF HostTypes
  <2>3. RunIsReported'  BY <2>1 DEF RunIsReported
  <2>4. OutcomeFits' /\ NewImage'  BY <2>1 DEF OutcomeFits, NewImage
  <2>5. OldImage'  BY <2>1 DEF OldImage
  <2> QED  BY <2>2, <2>3, <2>4, <2>5
<1> QED  BY <1>1, <1>2, <1>3, <1>4, <1>5, <1>6, <1>7 DEF HostNext

LEMMA HostStarted == ASSUME HostAssumption, HostInit PROVE HostInv
<1>1. PICK p \in {Latest, 1} : pin = p /\ tag = [t \in Tags |-> IF t = p THEN 1 ELSE 0]
    BY DEF HostInit
<1>2. p \in Tags /\ 1 \in Versions  BY DEF Tags, HostAssumption
<1>3. host = Asleep /\ host \notin HostRun /\ host.at \notin Working \cup {"clears"}
    BY DEF HostInit, Asleep, HostRun, Working
<1>5. HostTypes  BY <1>1, <1>2, <1>3 DEF HostInit, HostTypes, Ended
<1>6. status.state = "none" /\ status.nr = 0 /\ asked = 0 /\ ~asking  BY DEF HostInit
<1>7. RunIsReported  BY <1>3, <1>6 DEF RunIsReported
<1>8. OutcomeFits /\ NewImage /\ OldImage
    BY <1>3 DEF OutcomeFits, NewImage, OldImage
<1> QED  BY <1>5, <1>7, <1>8 DEF HostInv

LEMMA HostInvSuffices == HostInv => FailureRestores /\ DoneIsHealthy
<1> SUFFICES ASSUME HostInv PROVE FailureRestores /\ DoneIsHealthy
    OBVIOUS
<1>1. Reported => host \in HostRun /\ host.at = "clears" /\ status.state = host.outcome
    BY HostRuns DEF Reported, HostInv, RunIsReported
<1> QED  BY <1>1 DEF HostInv, FailureRestores, DoneIsHealthy, NewImage, OldImage

-----------------------------------------------------------------------------
(* CliGuard *)

\* A run of either script; the watchdog's has also the version it found.
CliRun == [at : {"probes", "reverts"}, back : Releases, tries : Nat, seen : SUBSET Releases]
DogRun == [at : {"probes", "reverts"}, back : Releases, found : Releases, tries : Nat,
           seen : SUBSET Releases]

CliTypes ==
  /\ installed \in Releases /\ knownGood \in Releases \cup {NoRelease} /\ cliFaults \in Nat
  /\ hand \in CliRun \cup {Out} /\ dog \in DogRun \cup {Out}

\* A run that still probes lost an API call with every attempt, or saw a broken version.
EveryTryLost(p) == p.at = "probes" => p.seen \cap Broken # {} \/ p.tries <= cliFaults

HasCause(p) == p.at = "reverts" => p.seen \cap Broken # {} \/ cliFaults >= Attempts

CliInv ==
  /\ CliTypes
  /\ EveryTryLost(hand) /\ HasCause(hand)
  /\ EveryTryLost(dog) /\ HasCause(dog)

\* A failed turn saw a broken version, or cost an API call.
LEMMA RetriesHasCause ==
  ASSUME CliAssumption, CliTypes, NEW p \in CliRun \cup DogRun, p.at = "probes", EveryTryLost(p),
         ProbeFails, NEW q, q = Retries(p, "reverts")
  PROVE  /\ p \in CliRun => q \in CliRun
         /\ p \in DogRun => q \in DogRun
         /\ q.at = "probes" => q.seen \cap Broken # {} \/ q.tries <= cliFaults'
         /\ q.at = "reverts" => q.seen \cap Broken # {} \/ cliFaults' >= Attempts
         /\ cliFaults' \in Nat /\ cliFaults' >= cliFaults
<1>0. Attempts \in Nat /\ p.tries \in Nat /\ p.seen \subseteq Releases /\ installed \in Releases
    BY DEF CliAssumption, CliTypes, CliRun, DogRun
<1>9. p.at = "probes"  OBVIOUS
<1>1. cliFaults' \in Nat /\ cliFaults' >= cliFaults
    BY DEF CliTypes, ProbeFails, CliFault, NoCliFault
<1>2. /\ q.seen = p.seen \cup {installed}
      /\ q.at = IF LastAttempt(p) THEN "reverts" ELSE "probes"
      /\ q.tries = IF LastAttempt(p) THEN 0 ELSE p.tries + 1
    BY DEF Retries, CliRun, DogRun
<1>3. installed \in Broken \/ cliFaults' = cliFaults + 1
    BY DEF ProbeFails, CliFault
<1>4. p.seen \cap Broken # {} \/ p.tries <= cliFaults
    BY DEF EveryTryLost
<1>5. q.seen \cap Broken # {} \/ p.tries + 1 <= cliFaults'
    BY <1>0, <1>2, <1>3, <1>4 DEF CliTypes
<1>6. LastAttempt(p) => p.tries + 1 >= Attempts
    BY DEF LastAttempt
<1>7. ASSUME p \in CliRun PROVE q \in CliRun
  <2> DEFINE a == IF LastAttempt(p) THEN "reverts" ELSE "probes"
             k == IF LastAttempt(p) THEN 0 ELSE p.tries + 1
             s == p.seen \cup {installed}
  <2>1. k \in Nat /\ s \in SUBSET Releases /\ a \in {"probes", "reverts"}
      BY <1>0
  <2>2. q = [at |-> a, back |-> p.back, tries |-> k, seen |-> s]
      BY <1>7, <1>9 DEF Retries, CliRun
  <2> HIDE DEF k, s, a
  <2> QED  BY <1>7, <2>1, <2>2 DEF CliRun
<1>8. ASSUME p \in DogRun PROVE q \in DogRun
  <2> DEFINE a == IF LastAttempt(p) THEN "reverts" ELSE "probes"
             k == IF LastAttempt(p) THEN 0 ELSE p.tries + 1
             s == p.seen \cup {installed}
  <2>1. k \in Nat /\ s \in SUBSET Releases /\ a \in {"probes", "reverts"}
      BY <1>0
  <2>2. q = [at |-> a, back |-> p.back, found |-> p.found, tries |-> k, seen |-> s]
      BY <1>8, <1>9 DEF Retries, DogRun
  <2> HIDE DEF k, s, a
  <2> QED  BY <1>8, <2>1, <2>2 DEF DogRun
<1> QED  BY <1>0, <1>1, <1>2, <1>5, <1>6, <1>7, <1>8

\* A run that is left alone keeps its cause.
LEMMA CauseStays ==
  ASSUME CliAssumption, CliTypes, cliFaults' \in Nat, cliFaults' >= cliFaults,
         NEW p \in CliRun \cup DogRun \cup {Out}, EveryTryLost(p), HasCause(p)
  PROVE  /\ p.at = "probes" => p.seen \cap Broken # {} \/ p.tries <= cliFaults'
         /\ p.at = "reverts" => p.seen \cap Broken # {} \/ cliFaults' >= Attempts
<1>1. p.at = "probes" => p.tries \in Nat
    BY DEF CliRun, DogRun, Out
<1> QED  BY <1>1 DEF CliAssumption, CliTypes, EveryTryLost, HasCause

LEMMA CliSteps == ASSUME CliAssumption, CliInv, [CliNext]_CliVars PROVE CliInv'
<1> USE DEF CliInv
<1>1. ASSUME NEW v \in Releases, HandStarts(v) PROVE CliInv'
  <2>1. cliFaults' \in Nat /\ cliFaults' >= cliFaults
      BY <1>1 DEF HandStarts, Installs, InstallFails, CliFault, NoCliFault, CliTypes
  <2>2. dog' = dog /\ EveryTryLost(dog)' /\ HasCause(dog)'
      BY <1>1, <2>1, CauseStays DEF HandStarts, CliTypes, EveryTryLost, HasCause
  <2>3. hand' \in CliRun \cup {Out} /\ EveryTryLost(hand)' /\ HasCause(hand)'
      BY <1>1, <2>1 DEF HandStarts, CliTypes, CliRun, Out, EveryTryLost, HasCause
  <2>4. CliTypes'
      BY <1>1, <2>1, <2>2, <2>3 DEF HandStarts, Installs, InstallFails, CliTypes
  <2> QED  BY <2>2, <2>3, <2>4
<1>2. ASSUME NEW v \in Releases, Arrives(v) PROVE CliInv'
    BY <1>2 DEF Arrives, CliTypes, EveryTryLost, HasCause
<1>3. CASE HandProbes
  <2>0. hand \in CliRun /\ hand.at = "probes"
      BY <1>3 DEF HandProbes, CliTypes, Out
  <2>1. CASE Completes /\ hand' = Out
    <3>1. cliFaults' = cliFaults /\ UNCHANGED <<installed, knownGood, dog>>
        BY <1>3, <2>1 DEF HandProbes, Completes, NoCliFault
    <3> QED  BY <2>1, <3>1 DEF Out, CliTypes, EveryTryLost, HasCause
  <2>2. CASE ProbeFails /\ hand' = Retries(hand, "reverts")
    <3>1. /\ hand' \in CliRun /\ EveryTryLost(hand)' /\ HasCause(hand)'
          /\ cliFaults' \in Nat /\ cliFaults' >= cliFaults
        BY <2>0, <2>2, RetriesHasCause DEF EveryTryLost, HasCause
    <3>2. UNCHANGED <<installed, knownGood, dog>>  BY <1>3 DEF HandProbes
    <3>3. EveryTryLost(dog)' /\ HasCause(dog)'
        BY <3>1, <3>2, CauseStays DEF CliTypes, EveryTryLost, HasCause
    <3> QED  BY <3>1, <3>2, <3>3 DEF CliTypes
  <2> QED  BY <1>3, <2>1, <2>2 DEF HandProbes
<1>4. CASE HandReverts
  <2>0. hand \in CliRun /\ hand.back \in Releases /\ hand' = Out
      BY <1>4 DEF HandReverts, CliTypes, CliRun, Out
  <2>1. cliFaults' \in Nat /\ cliFaults' >= cliFaults /\ installed' \in Releases
      BY <1>4, <2>0 DEF HandReverts, Installs, InstallFails, CliFault, NoCliFault, CliTypes
  <2>2. dog' = dog /\ knownGood' = knownGood /\ EveryTryLost(dog)' /\ HasCause(dog)'
      BY <1>4, <2>1, CauseStays DEF HandReverts, CliTypes, EveryTryLost, HasCause
  <2> QED  BY <2>0, <2>1, <2>2 DEF Out, CliTypes, EveryTryLost, HasCause
<1>5. CASE DogAdopts
    BY <1>5 DEF DogAdopts, CliTypes, EveryTryLost, HasCause
<1>6. CASE DogStarts
    BY <1>6 DEF DogStarts, CliDrift, CliTypes, DogRun, EveryTryLost, HasCause
<1>7. CASE DogProbes
  <2>0. dog \in DogRun /\ dog.at = "probes" /\ dog.found \in Releases
      BY <1>7 DEF DogProbes, CliTypes, DogRun, Out
  <2>1. CASE Completes /\ dog' = Out /\ knownGood' = dog.found
    <3>1. cliFaults' = cliFaults /\ UNCHANGED <<installed, hand>>
        BY <1>7, <2>1 DEF DogProbes, Completes, NoCliFault
    <3> QED  BY <2>0, <2>1, <3>1 DEF Out, CliTypes, EveryTryLost, HasCause
  <2>2. CASE ProbeFails /\ dog' = Retries(dog, "reverts") /\ knownGood' = knownGood
    <3>1. /\ dog' \in DogRun /\ EveryTryLost(dog)' /\ HasCause(dog)'
          /\ cliFaults' \in Nat /\ cliFaults' >= cliFaults
        BY <2>0, <2>2, RetriesHasCause DEF EveryTryLost, HasCause
    <3>2. UNCHANGED <<installed, hand>>  BY <1>7 DEF DogProbes
    <3>3. EveryTryLost(hand)' /\ HasCause(hand)'
        BY <3>1, <3>2, CauseStays DEF CliTypes, EveryTryLost, HasCause
    <3> QED  BY <2>2, <3>1, <3>2, <3>3 DEF CliTypes
  <2> QED  BY <1>7, <2>1, <2>2 DEF DogProbes
<1>8. CASE DogReverts
  <2>0. dog \in DogRun /\ RevertTo \in Releases /\ dog' = Out
      BY <1>8 DEF DogReverts, RevertTo, CliTypes, DogRun, Out
  <2>1. cliFaults' \in Nat /\ cliFaults' >= cliFaults /\ installed' \in Releases
      BY <1>8, <2>0 DEF DogReverts, Installs, InstallFails, CliFault, NoCliFault, CliTypes
  <2>2. hand' = hand /\ knownGood' = knownGood /\ EveryTryLost(hand)' /\ HasCause(hand)'
      BY <1>8, <2>1, CauseStays DEF DogReverts, CliTypes, EveryTryLost, HasCause
  <2> QED  BY <2>0, <2>1, <2>2 DEF Out, CliTypes, EveryTryLost, HasCause
<1>9. CASE UNCHANGED CliVars
    BY <1>9 DEF CliVars, CliTypes, EveryTryLost, HasCause
<1> QED
    BY <1>1, <1>2, <1>3, <1>4, <1>5, <1>6, <1>7, <1>8, <1>9 DEF CliNext, DogSteps

LEMMA CliStarts == ASSUME CliAssumption, CliInit PROVE CliInv
  BY DEF CliAssumption, CliInit, CliInv, CliTypes, Out, EveryTryLost, HasCause

LEMMA CliInvSuffices == CliInv => RevertHasCause
  BY DEF CliInv, HasCause, RevertHasCause

-----------------------------------------------------------------------------
(* Migrate *)

\* The files of a step: only what was imported once is past its old form.
StepFiles == {x \in [form : {"old", "half", "new"}, work : Nat, imports : {0, 1}] :
                x.form = "old" \/ x.imports = 1}

MigRun == {NoRun} \cup [at : {"plans", "unmarks"}]
          \cup [at : {"recovers", "restores"}, from : Nat, todo : SUBSET Steps]
          \cup [at : {"backs up", "marks", "steps"}, plan : SUBSET Steps]
          \cup [at : {"steps"}, plan : SUBSET Steps, wrote : Steps]

MigTypes ==
  /\ files \in [Steps -> StepFiles] /\ backups \in Seq([Steps -> StepFiles])
  /\ marker \in 0..Len(backups) /\ run \in MigRun
  /\ aged \in BOOLEAN /\ stamp \in BOOLEAN /\ kept \in BOOLEAN /\ torn \in BOOLEAN

HalfDone(f) == \E s \in Steps : f[s].form = "half"

\* Half-done files have a marker that leads back, and no backup has any.
HalfIsMarked ==
  ~kept =>
    /\ \A i \in 1..Len(backups) : ~HalfDone(backups[i])
    /\ HalfDone(files) => marker # 0 /\ run.at \notin {"plans", "backs up", "marks", "unmarks"}

\* Where the run is: what is behind it is restored, or migrated.
RunIsOnItsWay ==
  /\ run.at \in {"recovers", "restores"} =>
       /\ run.from \in 1..Len(backups)
       /\ \A s \in Steps \ run.todo : files[s].form = backups[run.from][s].form
  /\ run.at = "recovers" => marker # 0 /\ ~aged
  /\ run.at \in {"backs up", "marks", "steps"} /\ ~kept =>
       \A s \in Steps \ run.plan : files[s].form = "new"
  /\ run.at = "marks" => backups # <<>>
  /\ run.at = "steps" => marker # 0
  /\ run.at = "steps" /\ "wrote" \in DOMAIN run =>
       run.wrote = Min(run.plan) /\ files[run.wrote].form = "half"

\* The stamp comes last, and goes first.
StampIsLast ==
  /\ stamp => run.at \in {"none", "unmarks", "restores"}
  /\ stamp /\ ~kept /\ ~torn /\ run.at # "restores" => \A s \in Steps : files[s].form = "new"
  /\ settled => marker = 0

MigInv == MigTypes /\ HalfIsMarked /\ RunIsOnItsWay /\ StampIsLast

\* What a run is made of at each place.
LEMMA RunShapes ==
  ASSUME NEW r \in MigRun
  PROVE  /\ r.at = "none" => r = NoRun
         /\ r.at = "plans" => r = [at |-> "plans"]
         /\ r.at \in {"recovers", "restores"} =>
              r = [at |-> r.at, from |-> r.from, todo |-> r.todo] /\ r.todo \subseteq Steps /\ r.from \in Nat
         /\ r.at \in {"backs up", "marks"} => r = [at |-> r.at, plan |-> r.plan]
         /\ r.at \in {"backs up", "marks", "steps"} => r.plan \subseteq Steps
         /\ r.at = "steps" /\ "wrote" \in DOMAIN r => r.wrote \in Steps
<1>1. CASE r = NoRun
    BY <1>1 DEF NoRun
<1>2. CASE r \in [at : {"plans", "unmarks"}]
    BY <1>2
<1>3. CASE r \in [at : {"recovers", "restores"}, from : Nat, todo : SUBSET Steps]
    BY <1>3
<1>4. CASE r \in [at : {"backs up", "marks", "steps"}, plan : SUBSET Steps]
    BY <1>4
<1>5. CASE r \in [at : {"steps"}, plan : SUBSET Steps, wrote : Steps]
    BY <1>5
<1> QED  BY <1>1, <1>2, <1>3, <1>4, <1>5 DEF MigRun

\* A step that writes no form: the files, as far as the forms tell, stay.
LEMMA FormsStay ==
  ASSUME MigInv, files' \in [Steps -> StepFiles], \A s \in Steps : files'[s].form = files[s].form,
         UNCHANGED <<backups, marker, aged, stamp, run, kept, torn, settled>>
  PROVE  MigInv'
<1>1. MigTypes'  BY DEF MigInv, MigTypes
<1>2. HalfDone(files)' <=> HalfDone(files)  BY DEF HalfDone
<1>3. HalfIsMarked'  BY <1>2 DEF MigInv, HalfIsMarked, HalfDone
<1>4. RunIsOnItsWay'
  <2>1. run.at = "steps" /\ "wrote" \in DOMAIN run => run.wrote \in Steps
      BY RunShapes DEF MigInv, MigTypes
  <2> QED  BY <2>1 DEF MigInv, RunIsOnItsWay
<1>5. StampIsLast'  BY DEF MigInv, StampIsLast
<1> QED  BY <1>1, <1>3, <1>4, <1>5 DEF MigInv

LEMMA MigSteps == ASSUME MigInv, [MigNext]_MigVars PROVE MigInv'
<1> USE DEF MigInv
<1>f. files \in [Steps -> StepFiles] /\ backups \in Seq([Steps -> StepFiles]) /\ run \in MigRun
    BY DEF MigTypes
<1>r. /\ run.at = "none" => run = NoRun
      /\ run.at = "plans" => run = [at |-> "plans"]
      /\ run.at \in {"recovers", "restores"} =>
           run = [at |-> run.at, from |-> run.from, todo |-> run.todo] /\ run.todo \subseteq Steps /\ run.from \in Nat
      /\ run.at \in {"backs up", "marks"} => run = [at |-> run.at, plan |-> run.plan]
      /\ run.at \in {"backs up", "marks", "steps"} => run.plan \subseteq Steps
    BY <1>f, RunShapes
<1>1. CASE RunStarts
  <2>1. /\ run = NoRun /\ ~stamp
        /\ UNCHANGED <<files, backups, marker, aged, stamp, kept, torn, settled>>
      BY <1>1 DEF RunStarts, MigIdle, disk, migGhosts
  <2>2. CASE marker # 0
    <3>1. ~aged /\ run' = [at |-> "recovers", from |-> marker, todo |-> Steps]
        BY <1>1, <2>2 DEF RunStarts, Interrupted
    <3>2. marker \in 1..Len(backups) /\ marker \in Nat
        BY <1>f, <2>2 DEF MigTypes
    <3>3. run'.at = "recovers" /\ run'.from = marker /\ run'.todo = Steps
        BY <3>1
    <3>4. run' \in MigRun  BY <3>1, <3>2 DEF MigRun
    <3>5. MigTypes'  BY <2>1, <3>4 DEF MigTypes
    <3>6. HalfIsMarked'  BY <2>1, <2>2, <3>3 DEF HalfIsMarked, HalfDone
    <3>7. RunIsOnItsWay'  BY <2>1, <2>2, <3>1, <3>2, <3>3 DEF RunIsOnItsWay
    <3>8. StampIsLast'  BY <2>1 DEF StampIsLast
    <3> QED  BY <3>5, <3>6, <3>7, <3>8
  <2>3. CASE marker = 0
    <3>1. run' = [at |-> "plans"]
        BY <1>1, <2>3 DEF RunStarts, Interrupted
    <3>2. run' \in MigRun /\ run'.at = "plans"  BY <3>1 DEF MigRun
    <3>3. MigTypes'  BY <2>1, <3>2 DEF MigTypes
    <3>4. HalfIsMarked'  BY <2>1, <2>3 DEF HalfIsMarked, HalfDone
    <3>5. RunIsOnItsWay'  BY <3>2 DEF RunIsOnItsWay
    <3>6. StampIsLast'  BY <2>1 DEF StampIsLast
    <3> QED  BY <3>3, <3>4, <3>5, <3>6
  <2> QED  BY <2>2, <2>3
<1>2. ASSUME NEW s \in Steps, PutsBack(s) PROVE MigInv'
  <2>1. /\ run.at \in {"recovers", "restores"} /\ s \in run.todo
        /\ files' = [files EXCEPT ![s] = backups[run.from][s]]
        /\ UNCHANGED <<backups, marker, aged, stamp, kept, torn, settled>>
      BY <1>2 DEF PutsBack, migGhosts
  <2>2. run' = [at |-> run.at, from |-> run.from, todo |-> run.todo \ {s}]
    <3>1. run' = [run EXCEPT !.todo = @ \ {s}]  BY <1>2 DEF PutsBack
    <3> QED  BY <1>r, <2>1, <3>1
  <2>3. run' \in MigRun /\ run'.at = run.at /\ run'.from = run.from /\ run'.todo = run.todo \ {s}
      BY <1>r, <2>1, <2>2 DEF MigRun
  <2>4. run.from \in 1..Len(backups) /\ backups[run.from] \in [Steps -> StepFiles]
    <3>1. run.from \in 1..Len(backups)  BY <2>1 DEF RunIsOnItsWay
    <3> QED  BY <1>f, <3>1
  <2>5. files' \in [Steps -> StepFiles] /\ files'[s] = backups[run.from][s]
        /\ \A o \in Steps \ {s} : files'[o] = files[o]
      BY <1>f, <2>1, <2>4
  <2>6. MigTypes'  BY <2>1, <2>3, <2>5 DEF MigTypes
  <2>7. HalfIsMarked'
    <3>1. ~kept /\ HalfDone(files') => HalfDone(files)
        BY <2>4, <2>5 DEF HalfIsMarked, HalfDone
    <3> QED  BY <2>1, <2>3, <3>1 DEF HalfIsMarked, HalfDone
  <2>8. RunIsOnItsWay'  BY <2>1, <2>3, <2>5 DEF RunIsOnItsWay
  <2>9. StampIsLast'  BY <2>1, <2>3 DEF StampIsLast
  <2> QED  BY <2>6, <2>7, <2>8, <2>9
<1>3. CASE Recovered
  <2>1. /\ run.at = "recovers" /\ run.todo = {} /\ ~stamp' /\ stamp' \in BOOLEAN /\ marker' = 0
        /\ ~aged' /\ aged' \in BOOLEAN /\ run' = [at |-> "plans"]
        /\ UNCHANGED <<files, backups, kept, torn, settled>>
      BY <1>3 DEF Recovered, migGhosts
  <2>2. run' \in MigRun /\ run'.at = "plans"  BY <2>1 DEF MigRun
  <2>3. MigTypes'  BY <2>1, <2>2 DEF MigTypes
  <2>4. ~kept => ~HalfDone(files)
      BY <2>1 DEF HalfIsMarked, RunIsOnItsWay, HalfDone
  <2>5. HalfIsMarked'  BY <2>1, <2>4 DEF HalfIsMarked, HalfDone
  <2>6. RunIsOnItsWay'  BY <2>2 DEF RunIsOnItsWay
  <2>7. StampIsLast'  BY <2>1 DEF StampIsLast
  <2> QED  BY <2>3, <2>5, <2>6, <2>7
<1>4. CASE Plans
  <2> DEFINE p == {s \in Steps : Applies(s)}
  <2>1. /\ run.at = "plans" /\ run' = [at |-> "backs up", plan |-> p]
        /\ UNCHANGED <<files, backups, marker, aged, stamp, kept, torn, settled>>
      BY <1>4 DEF Plans, disk, migGhosts
  <2>2. p \subseteq Steps  OBVIOUS
  <2>3. ~kept => \A s \in Steps \ p : files[s].form = "new"
    <3>1. ~kept => ~HalfDone(files)  BY <2>1 DEF HalfIsMarked
    <3>2. \A s \in Steps : files[s].form \in {"old", "half", "new"}  BY <1>f DEF StepFiles
    <3> QED  BY <3>1, <3>2 DEF HalfDone, Applies
  <2> HIDE DEF p
  <2>4. run' \in MigRun /\ run'.at = "backs up" /\ run'.plan = p
      BY <2>1, <2>2 DEF MigRun
  <2>5. MigTypes'  BY <2>1, <2>4 DEF MigTypes
  <2>6. HalfIsMarked'  BY <2>1, <2>4 DEF HalfIsMarked, HalfDone
  <2>7. RunIsOnItsWay'  BY <2>1, <2>3, <2>4 DEF RunIsOnItsWay
  <2>8. StampIsLast'  BY <2>1, <2>4 DEF StampIsLast
  <2> QED  BY <2>5, <2>6, <2>7, <2>8
<1>5. CASE BacksUp
  <2>1. /\ run.at = "backs up" /\ backups' = Append(backups, files)
        /\ UNCHANGED <<files, marker, aged, stamp, kept, torn, settled>>
      BY <1>5 DEF BacksUp, migGhosts
  <2>2. run' = [at |-> "marks", plan |-> run.plan]
    <3>1. run' = [run EXCEPT !.at = "marks"]  BY <1>5 DEF BacksUp
    <3> QED  BY <1>r, <2>1, <3>1
  <2>3. run' \in MigRun /\ run'.at = "marks" /\ run'.plan = run.plan
      BY <1>r, <2>1, <2>2 DEF MigRun
  <2>4. /\ backups' \in Seq([Steps -> StepFiles]) /\ Len(backups') = Len(backups) + 1
        /\ Len(backups) \in Nat /\ backups'[Len(backups) + 1] = files /\ backups' # <<>>
        /\ \A i \in 1..Len(backups) : backups'[i] = backups[i]
    <3>1. Len(backups) \in Nat  BY <1>f
    <3> DEFINE S == [Steps -> StepFiles]
    <3>2. backups \in Seq(S) /\ files \in S  BY <1>f
    <3> HIDE DEF S
    <3>3. /\ Append(backups, files) \in Seq(S) /\ Append(backups, files) # <<>>
          /\ Len(Append(backups, files)) = Len(backups) + 1
          /\ \A i \in 1..Len(backups) : Append(backups, files)[i] = backups[i]
          /\ Append(backups, files)[Len(backups) + 1] = files
        BY <3>2, AppendProperties
    <3> QED  BY <2>1, <3>1, <3>3 DEF S
  <2>5. MigTypes'
    <3>1. marker \in 0..(Len(backups) + 1)  BY <2>4 DEF MigTypes
    <3> QED  BY <2>1, <2>3, <2>4, <3>1 DEF MigTypes
  <2>6. HalfIsMarked'
    <3>1. ~kept => ~HalfDone(files)  BY <2>1 DEF HalfIsMarked
    <3>2. ASSUME ~kept, NEW i \in 1..Len(backups') PROVE ~HalfDone(backups'[i])
      <4>1. CASE i = Len(backups) + 1  BY <2>4, <3>1, <3>2, <4>1
      <4>2. CASE i # Len(backups) + 1
        <5>1. i \in 1..Len(backups)  BY <2>4, <4>2
        <5> QED  BY <2>4, <3>2, <5>1 DEF HalfIsMarked
      <4> QED  BY <4>1, <4>2
    <3> QED  BY <2>1, <3>1, <3>2 DEF HalfIsMarked, HalfDone
  <2>7. RunIsOnItsWay'  BY <2>1, <2>3, <2>4 DEF RunIsOnItsWay
  <2>8. StampIsLast'  BY <2>1, <2>3 DEF StampIsLast
  <2> QED  BY <2>5, <2>6, <2>7, <2>8
<1>6. CASE Marks
  <2>1. /\ run.at = "marks" /\ marker' = Len(backups) /\ ~aged' /\ aged' \in BOOLEAN /\ ~settled'
        /\ UNCHANGED <<files, backups, stamp, kept, torn>>
      BY <1>6 DEF Marks
  <2>2. run' = [at |-> "steps", plan |-> run.plan]
    <3>1. run' = [run EXCEPT !.at = "steps"]  BY <1>6 DEF Marks
    <3> QED  BY <1>r, <2>1, <3>1
  <2>3. run' \in MigRun /\ run'.at = "steps" /\ run'.plan = run.plan /\ "wrote" \notin DOMAIN run'
      BY <1>r, <2>1, <2>2 DEF MigRun
  <2>4. Len(backups) \in Nat \ {0}  BY <1>f, <2>1 DEF RunIsOnItsWay
  <2>5. MigTypes'  BY <2>1, <2>3, <2>4 DEF MigTypes
  <2>6. HalfIsMarked'  BY <2>1, <2>4 DEF HalfIsMarked, HalfDone
  <2>7. RunIsOnItsWay'  BY <2>1, <2>3, <2>4 DEF RunIsOnItsWay
  <2>8. StampIsLast'  BY <2>1, <2>3 DEF StampIsLast
  <2> QED  BY <2>5, <2>6, <2>7, <2>8
<1>7. ASSUME NEW s \in Steps, Step(s) PROVE MigInv'
  <2>1. /\ run.at = "steps" /\ s = Min(run.plan) /\ run.plan \subseteq Steps
        /\ UNCHANGED <<backups, marker, aged, stamp, kept, torn, settled>>
      BY <1>7, <1>r DEF Step, migGhosts
  <2>2. files[s] \in StepFiles  BY <1>f
  <2>3. CASE /\ files[s].form \in {"old", "half"}
             /\ files' = [files EXCEPT ![s] = [form |-> "half", work |-> @.work, imports |-> Imported(s)]]
             /\ run' = [at |-> "steps", plan |-> run.plan, wrote |-> s]
    <3>1. files' = [files EXCEPT ![s] = [form |-> "half", work |-> files[s].work, imports |-> 1]]
        BY <2>3 DEF Imported
    <3>2. [form |-> "half", work |-> files[s].work, imports |-> 1] \in StepFiles
        BY <2>2 DEF StepFiles
    <3>3. files' \in [Steps -> StepFiles] /\ files'[s].form = "half"
          /\ \A o \in Steps \ {s} : files'[o] = files[o]
        BY <1>f, <3>1, <3>2
    <3>4. run' \in MigRun /\ run'.at = "steps" /\ run'.plan = run.plan /\ run'.wrote = s
        BY <2>1, <2>3 DEF MigRun
    <3>5. MigTypes'  BY <2>1, <3>3, <3>4 DEF MigTypes
    <3>6. HalfIsMarked'  BY <2>1, <3>4 DEF HalfIsMarked, HalfDone, RunIsOnItsWay
    <3>7. ~kept => s \in run.plan  BY <2>1, <2>3 DEF RunIsOnItsWay
    <3>8. RunIsOnItsWay'  BY <2>1, <3>3, <3>4, <3>7 DEF RunIsOnItsWay
    <3>9. StampIsLast'  BY <2>1, <3>4 DEF StampIsLast
    <3> QED  BY <3>5, <3>6, <3>8, <3>9
  <2>4. CASE /\ s \in AtOnce \/ "wrote" \in DOMAIN run
             /\ files' = [files EXCEPT ![s] = [form |-> "new", work |-> @.work,
                                               imports |-> IF s \in AtOnce THEN 1 ELSE @.imports]]
             /\ run' = [at |-> "steps", plan |-> run.plan \ {s}]
    <3> DEFINE k == IF s \in AtOnce THEN 1 ELSE files[s].imports
    <3>0. k = 1
      <4>1. CASE s \in AtOnce  BY <4>1
      <4>2. CASE s \notin AtOnce
        <5>1. files[s].form = "half"  BY <2>1, <2>4, <4>2 DEF RunIsOnItsWay
        <5> QED  BY <2>2, <4>2, <5>1 DEF StepFiles
      <4> QED  BY <4>1, <4>2
    <3>1. files' = [files EXCEPT ![s] = [form |-> "new", work |-> files[s].work, imports |-> 1]]
      <4>1. files' = [files EXCEPT ![s] = [form |-> "new", work |-> files[s].work, imports |-> k]]
          BY <2>4
      <4> HIDE DEF k
      <4> QED  BY <3>0, <4>1
    <3>2. [form |-> "new", work |-> files[s].work, imports |-> 1] \in StepFiles
        BY <2>2 DEF StepFiles
    <3>3. files' \in [Steps -> StepFiles] /\ files'[s].form = "new"
          /\ \A o \in Steps \ {s} : files'[o] = files[o]
        BY <1>f, <3>1, <3>2
    <3>4. run' \in MigRun /\ run'.at = "steps" /\ run'.plan = run.plan \ {s} /\ "wrote" \notin DOMAIN run'
        BY <2>1, <2>4 DEF MigRun
    <3>5. MigTypes'  BY <2>1, <3>3, <3>4 DEF MigTypes
    <3>6. HalfIsMarked'  BY <2>1, <3>4 DEF HalfIsMarked, HalfDone, RunIsOnItsWay
    <3>8. RunIsOnItsWay'  BY <2>1, <3>3, <3>4 DEF RunIsOnItsWay
    <3>9. StampIsLast'  BY <2>1, <3>4 DEF StampIsLast
    <3> QED  BY <3>5, <3>6, <3>8, <3>9
  <2> QED  BY <1>7, <2>3, <2>4 DEF Step
<1>8. CASE Stamps
  <2>1. /\ run.at = "steps" /\ run.plan = {} /\ stamp' /\ stamp' \in BOOLEAN /\ run' = [at |-> "unmarks"]
        /\ UNCHANGED <<files, backups, marker, aged, kept, torn, settled>>
      BY <1>8 DEF Stamps, migGhosts
  <2>2. run' \in MigRun /\ run'.at = "unmarks"  BY <2>1 DEF MigRun
  <2>3. ~kept => \A s \in Steps : files[s].form = "new"  BY <2>1 DEF RunIsOnItsWay
  <2>4. MigTypes'  BY <2>1, <2>2 DEF MigTypes
  <2>5. HalfIsMarked'  BY <2>1, <2>3 DEF HalfIsMarked, HalfDone
  <2>6. RunIsOnItsWay'  BY <2>2 DEF RunIsOnItsWay
  <2>7. StampIsLast'  BY <2>1, <2>2, <2>3 DEF StampIsLast
  <2> QED  BY <2>4, <2>5, <2>6, <2>7
<1>9. CASE Unmarks
  <2>1. /\ run.at = "unmarks" /\ marker' = 0 /\ ~aged' /\ aged' \in BOOLEAN /\ run' = NoRun
        /\ UNCHANGED <<files, backups, stamp, kept, torn, settled>>
      BY <1>9 DEF Unmarks, migGhosts
  <2>2. run' \in MigRun /\ run'.at = "none"  BY <2>1 DEF MigRun, NoRun
  <2>3. ~kept => ~HalfDone(files)  BY <2>1 DEF HalfIsMarked
  <2>4. MigTypes'  BY <2>1, <2>2 DEF MigTypes
  <2>5. HalfIsMarked'  BY <2>1, <2>3 DEF HalfIsMarked, HalfDone
  <2>6. RunIsOnItsWay'  BY <2>2 DEF RunIsOnItsWay
  <2>7. StampIsLast'  BY <2>1, <2>2 DEF StampIsLast
  <2> QED  BY <2>4, <2>5, <2>6, <2>7
<1>10. CASE RunDies
  <2>1. /\ run' = NoRun /\ torn' \in BOOLEAN /\ (~torn' => ~torn /\ run.at # "restores")
        /\ UNCHANGED <<files, backups, marker, aged, stamp, kept, settled>>
      BY <1>10 DEF RunDies, disk, MigTypes
  <2>2. run' \in MigRun /\ run'.at = "none"  BY <2>1 DEF MigRun, NoRun
  <2>3. MigTypes'  BY <2>1, <2>2 DEF MigTypes
  <2>4. HalfIsMarked'  BY <2>1, <2>2 DEF HalfIsMarked, HalfDone
  <2>5. RunIsOnItsWay'  BY <2>2 DEF RunIsOnItsWay
  <2>6. StampIsLast'  BY <2>1, <2>2 DEF StampIsLast
  <2> QED  BY <2>3, <2>4, <2>5, <2>6
<1>11. ASSUME NEW b, OperatorRestores(b) PROVE MigInv'
  <2>1. /\ run = NoRun /\ b \in 1..Len(backups) /\ run' = [at |-> "restores", from |-> b, todo |-> Steps]
        /\ UNCHANGED <<files, backups, marker, aged, stamp, kept, torn, settled>>
      BY <1>11, <1>f DEF OperatorRestores, MigIdle, disk, migGhosts
  <2>2. run'.at = "restores" /\ run'.from = b /\ run'.todo = Steps /\ run' \in MigRun
    <3>1. b \in Nat  BY <1>f, <2>1
    <3> QED  BY <2>1, <3>1 DEF MigRun
  <2>3. MigTypes'  BY <2>1, <2>2 DEF MigTypes
  <2>4. HalfIsMarked'  BY <2>1, <2>2 DEF HalfIsMarked, HalfDone
  <2>5. RunIsOnItsWay'  BY <2>1, <2>2 DEF RunIsOnItsWay
  <2>6. StampIsLast'  BY <2>1, <2>2 DEF StampIsLast
  <2> QED  BY <2>3, <2>4, <2>5, <2>6
<1>12. CASE OperatorRestored
  <2>1. /\ run.at = "restores" /\ run.todo = {} /\ ~stamp' /\ stamp' \in BOOLEAN /\ marker' = 0
        /\ aged' \in BOOLEAN /\ run' = NoRun /\ torn' \in BOOLEAN
        /\ UNCHANGED <<files, backups, kept>>
      BY <1>12 DEF OperatorRestored, ClearsMarker
  <2>2. run' \in MigRun /\ run'.at = "none"  BY <2>1 DEF MigRun, NoRun
  <2>3. MigTypes'  BY <2>1, <2>2 DEF MigTypes
  <2>4. ~kept => ~HalfDone(files)
      BY <2>1 DEF HalfIsMarked, RunIsOnItsWay, HalfDone
  <2>5. HalfIsMarked'  BY <2>1, <2>4 DEF HalfIsMarked, HalfDone
  <2>6. RunIsOnItsWay'  BY <2>2 DEF RunIsOnItsWay
  <2>7. StampIsLast'  BY <2>1 DEF StampIsLast
  <2> QED  BY <2>3, <2>5, <2>6, <2>7
<1>13. CASE DeletesMarker
  <2>1. /\ run = NoRun /\ marker' = 0 /\ aged' \in BOOLEAN /\ kept' \in BOOLEAN
        /\ ~kept' => ~kept /\ ~HalfDone(files)
        /\ UNCHANGED <<files, backups, stamp, run, torn, settled>>
      BY <1>13 DEF DeletesMarker, MigIdle, HalfDone
  <2>2. run.at = "none"  BY <2>1 DEF NoRun
  <2>3. MigTypes'  BY <2>1 DEF MigTypes
  <2>4. HalfIsMarked'  BY <2>1 DEF HalfIsMarked, HalfDone
  <2>5. RunIsOnItsWay'  BY <2>1, <2>2 DEF RunIsOnItsWay
  <2>6. StampIsLast'  BY <2>1 DEF StampIsLast
  <2> QED  BY <2>3, <2>4, <2>5, <2>6
<1>14. CASE MarkerAges
  <2>1. /\ run = NoRun /\ aged' = TRUE
        /\ UNCHANGED <<files, backups, marker, stamp, run, kept, torn, settled>>
      BY <1>14 DEF MarkerAges, migGhosts
  <2>2. run.at = "none"  BY <2>1 DEF NoRun
  <2>3. MigTypes'  BY <2>1 DEF MigTypes
  <2>4. HalfIsMarked'  BY <2>1 DEF HalfIsMarked, HalfDone
  <2>5. RunIsOnItsWay'  BY <2>1, <2>2 DEF RunIsOnItsWay
  <2>6. StampIsLast'  BY <2>1 DEF StampIsLast
  <2> QED  BY <2>3, <2>4, <2>5, <2>6
<1>15. ASSUME NEW s \in Steps, ServerWorks(s) PROVE MigInv'
  <2>1. /\ files' = [files EXCEPT ![s].work = @ + 1]
        /\ UNCHANGED <<backups, marker, aged, stamp, run, kept, torn, settled>>
      BY <1>15 DEF ServerWorks, migGhosts
  <2>2. files[s] \in StepFiles  BY <1>f
  <2>3. files' = [files EXCEPT ![s] = [form |-> files[s].form, work |-> files[s].work + 1,
                                       imports |-> files[s].imports]]
    <3>1. files[s] \in [form : {"old", "half", "new"}, work : Nat, imports : {0, 1}]
        BY <2>2 DEF StepFiles
    <3>2. [files[s] EXCEPT !.work = files[s].work + 1]
            = [form |-> files[s].form, work |-> files[s].work + 1, imports |-> files[s].imports]
        BY <3>1
    <3>3. files' = [files EXCEPT ![s] = [files[s] EXCEPT !.work = files[s].work + 1]]
        BY <2>1
    <3> QED  BY <3>2, <3>3
  <2>4. [form |-> files[s].form, work |-> files[s].work + 1, imports |-> files[s].imports] \in StepFiles
      BY <2>2 DEF StepFiles
  <2>5. files' \in [Steps -> StepFiles] /\ \A o \in Steps : files'[o].form = files[o].form
      BY <1>f, <2>3, <2>4
  <2> QED  BY <2>1, <2>5, FormsStay
<1>16. CASE Server2Starts \/ Server1Starts \/ ServerStops \/ UNCHANGED MigVars
  <2>1. UNCHANGED <<files, backups, marker, aged, stamp, run, kept, torn, settled>>
      BY <1>16 DEF Server2Starts, Server1Starts, ServerStops, MigVars, disk, migGhosts
  <2> QED  BY <1>f, <2>1, FormsStay
<1> QED
    BY <1>1, <1>2, <1>3, <1>4, <1>5, <1>6, <1>7, <1>8, <1>9, <1>10, <1>11, <1>12, <1>13, <1>14,
       <1>15, <1>16 DEF MigNext

LEMMA MigStarts == MigInit => MigInv
<1> SUFFICES ASSUME MigInit PROVE MigInv
    OBVIOUS
<1>1. Original \in StepFiles /\ Original.form = "old"  BY DEF Original, StepFiles
<1>2. files \in [Steps -> StepFiles] /\ \A s \in Steps : files[s].form = "old"
    BY <1>1 DEF MigInit
<1>3. backups \in Seq([Steps -> StepFiles]) /\ Len(backups) = 0  BY DEF MigInit
<1>4. run = NoRun /\ run.at = "none"  BY DEF MigInit, NoRun
<1>5. MigTypes
  <2>1. marker \in 0..Len(backups) /\ run \in MigRun  BY <1>3, <1>4 DEF MigInit, MigRun
  <2> QED  BY <1>2, <1>3, <2>1 DEF MigInit, MigTypes
<1> QED  BY <1>2, <1>3, <1>4, <1>5 DEF MigInit, MigInv, HalfIsMarked, HalfDone, RunIsOnItsWay, StampIsLast

LEMMA MigInvSuffices == MigInv => StampedIsWhole /\ NeverTwice
<1> SUFFICES ASSUME MigInv PROVE StampedIsWhole /\ NeverTwice
    OBVIOUS
<1>1. \A s \in Steps : /\ files[s].imports <= 1
                       /\ files[s].form = "new" => files[s].imports = 1
    BY DEF MigInv, MigTypes, StepFiles
<1> QED  BY <1>1 DEF MigInv, StampIsLast, StampedIsWhole, NeverTwice

\* No other step takes work away: a step of the migration changes the form, a server adds work.
LEMMA WorkStays ==
  ASSUME MigInv, MigNext, NEW s \in Steps, files'[s].work < files[s].work
  PROVE  run.at = "restores" \/ (run.at = "recovers" /\ ~aged /\ ~settled)
<1>f. \A o \in Steps : files[o] \in StepFiles /\ files[o].work \in Nat
    BY DEF MigInv, MigTypes, StepFiles
<1>1. ASSUME files'[s].work = files[s].work PROVE FALSE
    BY <1>1, <1>f
<1>2. ASSUME NEW o \in Steps, PutsBack(o)
      PROVE  run.at = "restores" \/ (run.at = "recovers" /\ ~aged /\ ~settled)
    BY <1>2 DEF PutsBack, MigInv, RunIsOnItsWay, StampIsLast
<1>3. ASSUME NEW o \in Steps, Step(o) PROVE FALSE
  <2>1. /\ files \in [Steps -> StepFiles]
        /\ \E fm, k : files' = [files EXCEPT ![o] = [form |-> fm, work |-> @.work, imports |-> k]]
      BY <1>3 DEF Step, MigInv, MigTypes
  <2>2. files'[s].work = files[s].work
      BY <2>1
  <2> QED  BY <1>1, <2>2
<1>4. ASSUME NEW o \in Steps, ServerWorks(o) PROVE FALSE
  <2>1. files'[s].work \in {files[s].work, files[s].work + 1}
      BY <1>4, <1>f DEF ServerWorks, MigInv, MigTypes, StepFiles
  <2> QED  BY <1>f, <2>1
<1>5. ASSUME files' = files PROVE FALSE
    BY <1>1, <1>5
<1> QED
    BY <1>2, <1>3, <1>4, <1>5 DEF MigNext, RunStarts, Recovered, Plans, BacksUp, Marks, Stamps,
       Unmarks, RunDies, OperatorRestores, OperatorRestored, DeletesMarker, MarkerAges, Server2Starts,
       Server1Starts, ServerStops, disk

-----------------------------------------------------------------------------
(* The services *)

\* What a step of the sum is for each component.
LEMMA ServicesParts ==
  ASSUME [ServicesNext]_servicesVars
  PROVE  /\ [HostNext]_HostVars /\ [CliNext]_CliVars /\ [MigNext]_MigVars
  BY DEF ServicesNext, servicesVars

\* For any versions, releases and steps of the migration, any requests, faults, runs, deaths, pins
\* and images pulled by hand: a failed host upgrade leaves what ran before, where the pin named the
\* image that ran when it began and the rollback's make up worked, and a done one is healthy, the
\* CLI is reverted for a cause only, a stamped migration is whole and imported once, and a restore
\* takes no later work (upgrade-agent.sh, the two CLI scripts, lib/migrate).
THEOREM UpgradesAreSafeHolds == ServicesSpec => UpgradesAreSafe
<1>a. HostAssumption /\ CliAssumption  BY ServicesAssumptions DEF ServicesAssumptions
<1> DEFINE Inv == HostInv /\ CliInv /\ MigInv
<1>1. ServicesInit => Inv
    BY <1>a, HostStarted, CliStarts, MigStarts DEF ServicesInit
<1>2. Inv /\ [ServicesNext]_servicesVars => Inv'
    BY <1>a, ServicesParts, HostStep, CliSteps, MigSteps
<1>3. Inv => /\ part = "host" => FailureRestores /\ DoneIsHealthy
             /\ part = "cli" => RevertHasCause
             /\ part = "migrate" => StampedIsWhole /\ NeverTwice
    BY HostInvSuffices, CliInvSuffices, MigInvSuffices
<1>4. Inv /\ [ServicesNext]_servicesVars =>
        [\A s \in Steps : files'[s].work < files[s].work =>
           \/ run.at = "restores"
           \/ run.at = "recovers" /\ ~aged /\ ~settled]_MigVars
  <2> SUFFICES ASSUME MigInv, [ServicesNext]_servicesVars, MigVars' # MigVars,
                      NEW s \in Steps, files'[s].work < files[s].work
               PROVE  \/ run.at = "restores"
                      \/ run.at = "recovers" /\ ~aged /\ ~settled
      OBVIOUS
  <2>1. MigNext  BY ServicesParts
  <2> QED  BY <2>1, WorkStays
<1> HIDE DEF Inv
<1> QED  BY <1>1, <1>2, <1>3, <1>4, PTL DEF ServicesSpec, UpgradesAreSafe, WorkIsKept
=============================================================================
