------------------------------- MODULE Monitor ------------------------------
(***************************************************************************)
(* The monitor's pass, lib/monitor_tick.py: the stages find what is wrong, *)
(* alerts.plan decides what to post, alerts.send posts it and              *)
(* alerts.commit saves what the channel was told.  The pass is one process *)
(* with four files, written at four moments: it may be killed between any  *)
(* two of them.                                                            *)
(***************************************************************************)
EXTENDS Naturals, FiniteSets

CONSTANTS
  Stalls,       \* keys of a stage that runs on every pass
  SlowEvery,    \* SLOW_EVERY
  MaxPosts,     \* max_posts_per_10min
  MaxRepeats,   \* max_repeats
  MaxChanges,   \* bound: changes of what is wrong
  MaxFaults     \* bound: sends that fail, stages that raise, passes that are killed

VARIABLES
  cond,     \* key -> what a stage that looks now would find: none, warn, critical
  audited,  \* outbox-audit.json: whether the dead rows of now were audited before
  n,        \* monitor-tick.json, modulo SlowEvery
  found,    \* findings.json: key -> severity
  keys,     \* alert-state.json "keys": key -> [sev, rep]
  recent,   \* alert-state.json "recent": posts of the last ten minutes
  late,     \* critical keys last posted repeat_critical_s ago or more
  pass,     \* the pass under way
  heard,    \* key -> what the channel was last told of it
  said,     \* key -> alerts in the channel since the key was last resolved there,
            \* without what was posted twice for want of an answer
  blurred,  \* keys of posts whose fate the monitor does not know
  changes, faults

MonitorVars == <<cond, audited, n, found, keys, recent, late, pass, heard, said, blurred, changes, faults>>

Dead == "outbox-dead"             \* found once per change of the count
Stuck == "outbox-stuck"           \* found on every look
StageFailed == "monitor-stage-failed"
Slow == {Dead, Stuck}             \* SLOW_KINDS
Keys == Stalls \cup Slow \cup {StageFailed}
Worst(k) == IF k \in Stalls THEN {"warn", "critical"} ELSE {IF k = Stuck THEN "critical" ELSE "warn"}
Absent == [sev |-> "none", rep |-> 0]
Idle == [at |-> "rest"]

MonitorInit ==
  /\ cond = [k \in Keys |-> "none"] /\ audited = TRUE /\ n = 0
  /\ found = [k \in Keys |-> "none"] /\ keys = [k \in Keys |-> Absent]
  /\ recent = 0 /\ late = {} /\ pass = Idle
  /\ heard = [k \in Keys |-> "none"] /\ said = [k \in Keys |-> 0]
  /\ blurred = {} /\ changes = 0 /\ faults = 0

----------------------------------------------------------------------------
(* The world *)

Changes(k) ==
  /\ changes < MaxChanges /\ changes' = changes + 1
  /\ k # StageFailed
  /\ \E s \in (Worst(k) \cup {"none"}) \ {IF k = Dead THEN "" ELSE cond[k]} : cond' = [cond EXCEPT ![k] = s]
  /\ audited' = IF k = Dead THEN cond'[Dead] = "none" ELSE audited
  /\ UNCHANGED <<n, found, keys, recent, late, pass, heard, said, blurred, faults>>

\* repeat_critical_s have passed since the last post of a critical key.
IntervalPasses(k) ==
  /\ keys[k].sev = "critical" /\ k \notin late
  /\ late' = late \cup {k}
  /\ UNCHANGED <<cond, audited, n, found, keys, recent, pass, heard, said, blurred, changes, faults>>

\* Posts fall out of the ten minutes.
WindowMoves ==
  /\ recent > 0 /\ \E r \in 0..(recent - 1) : recent' = r
  /\ UNCHANGED <<cond, audited, n, found, keys, late, pass, heard, said, blurred, changes, faults>>

----------------------------------------------------------------------------
(* The stages *)

IsSlow == n = 0

\* outbox_audit.audit: dead rows only when their count or newest stamp is not that of the last look.
Looks(k) == IF k = Dead /\ audited THEN "none" ELSE cond[k]

\* `failing` are the stages that raise on this pass: their findings are missing, and a finding says so.
Finds(failing) ==
  [k \in Keys |->
     IF k = StageFailed THEN (IF failing = {} THEN "none" ELSE "warn")
     ELSE IF k \in Slow
          THEN (IF ~IsSlow THEN found[k] ELSE IF "slow" \in failing THEN "none" ELSE Looks(k))
          ELSE (IF "fast" \in failing THEN "none" ELSE cond[k])]

----------------------------------------------------------------------------
(* alerts.plan *)

Repeats_Always(k) == k \in late
Repeats(k) == keys[k].rep < MaxRepeats /\ k \in late

NewAlert(f, k) ==
  \/ f[k] = "warn" /\ keys[k].sev = "none"
  \/ f[k] = "critical" /\ keys[k].sev # "critical"
Alerts(f) == {k \in Keys : NewAlert(f, k) \/ (f[k] = "critical" /\ keys[k].sev = "critical" /\ Repeats(k))}
Resolved(f) == {k \in Keys : f[k] = "none" /\ keys[k].sev # "none"}

\* A downgrade to warn keeps the entry of the critical alert.
Planned(f) ==
  [k \in Keys |->
     IF k \in Resolved(f) THEN Absent
     ELSE IF k \in Alerts(f)
          THEN [sev |-> f[k], rep |-> IF NewAlert(f, k) THEN 0 ELSE keys[k].rep + 1]
          ELSE keys[k]]

Budget == IF recent > MaxPosts THEN 0 ELSE MaxPosts - recent

\* The posts, each the set of its keys: one a candidate, resolutions last; what is over the
\* budget goes into one summary.
Posts(f) ==
  LET cands == Alerts(f) \cup Resolved(f)
      Single(S) == {{k} : k \in S}
      size == IF Budget = 0 THEN 0 ELSE Budget - 1
  IN  IF Cardinality(cands) <= Budget THEN {Single(cands)}
      ELSE {Single(keep) \cup {cands \ keep} :
              keep \in {S \in SUBSET cands : /\ Cardinality(S) = size
                                             /\ S \cap Resolved(f) # {} => Alerts(f) \subseteq S}}

----------------------------------------------------------------------------
(* tick *)

\* The count and the audit's file are written while the stages run, before anything is posted.
Tick ==
  /\ pass = Idle
  /\ \E failing \in SUBSET {"fast", "slow"} :
       /\ "slow" \in failing => IsSlow
       /\ failing # {} => faults < MaxFaults
       /\ faults' = IF failing = {} THEN faults ELSE faults + 1
       /\ audited' = (audited \/ (IsSlow /\ "slow" \notin failing))
       /\ LET f == Finds(failing)
          IN  \E posts \in Posts(f) :
                pass' = [at |-> "sends", found |-> f, plan |-> Planned(f),
                         todo |-> posts, posted |-> Cardinality(posts), failed |-> {}]
  /\ n' = (n + 1) % SlowEvery
  /\ UNCHANGED <<cond, found, keys, recent, late, heard, said, blurred, changes>>

\* The channel reads a post: its keys are resolved, or alerted at the severity planned.
Hears(post) ==
  /\ heard' = [k \in Keys |-> IF k \in post THEN pass.plan[k].sev ELSE heard[k]]
  /\ said' = [k \in Keys |-> IF k \notin post THEN said[k]
                             ELSE IF pass.plan[k].sev = "none" THEN 0
                             ELSE IF k \in blurred THEN said[k] ELSE said[k] + 1]

\* send: discord-notify.sh posted it; or it did not, or it ran into the 30 seconds and may have.
Send(post) ==
  /\ pass.at = "sends" /\ post \in pass.todo
  /\ \/ /\ Hears(post)
        /\ pass' = [pass EXCEPT !.todo = @ \ {post}]
        /\ blurred' = blurred \ post /\ faults' = faults
     \/ /\ faults < MaxFaults /\ faults' = faults + 1
        /\ pass' = [pass EXCEPT !.todo = @ \ {post}, !.failed = @ \cup post, !.posted = @ - 1]
        /\ \/ UNCHANGED <<heard, said, blurred>>
           \/ Hears(post) /\ blurred' = blurred \cup post
  /\ UNCHANGED <<cond, audited, n, found, keys, recent, late, changes>>

Committed_All(k) == pass.plan[k]
\* commit: what a failed post was about is as it was before.
Committed(k) == IF k \in pass.failed THEN keys[k] ELSE pass.plan[k]

Save ==
  /\ pass.at = "sends" /\ pass.todo = {}
  /\ keys' = [k \in Keys |-> Committed(k)]
  /\ recent' = recent + pass.posted
  /\ late' = {k \in late : Committed(k) = keys[k]}
  /\ pass' = [at |-> "saved", found |-> pass.found]
  /\ UNCHANGED <<cond, audited, n, found, heard, said, blurred, changes, faults>>

WriteFindings ==
  /\ pass.at = "saved"
  /\ found' = pass.found /\ pass' = Idle
  /\ UNCHANGED <<cond, audited, n, keys, recent, late, heard, said, blurred, changes, faults>>

\* The scheduler is the monitor's process: it goes with the container.
Killed ==
  /\ pass # Idle /\ faults < MaxFaults /\ faults' = faults + 1
  /\ pass' = Idle
  /\ blurred' = IF pass.at # "sends" THEN blurred
                ELSE blurred \cup {k \in Keys : keys[k] # pass.plan[k]}
  /\ UNCHANGED <<cond, audited, n, found, keys, recent, late, heard, said, changes>>

MonitorNext ==
  \/ \E k \in Keys : Changes(k) \/ IntervalPasses(k)
  \/ WindowMoves \/ Tick \/ Save \/ WriteFindings \/ Killed
  \/ \E post \in SUBSET Keys : Send(post)

MonitorSpec == MonitorInit /\ [][MonitorNext]_MonitorVars

\* The scheduler calls the pass every minute, and a pass ends: a send takes at most 30 seconds.
MonitorFairness ==
  /\ WF_MonitorVars(Tick) /\ WF_MonitorVars(Save) /\ WF_MonitorVars(WriteFindings)
  /\ WF_MonitorVars(\E post \in SUBSET Keys : Send(post))

----------------------------------------------------------------------------
(* Properties *)

\* Between two passes the alert state is what the channel was told: nothing the state takes
\* for alerted is unheard of (plan would not say it again), and no alert stands in the channel
\* that the state has forgotten (nothing would resolve it), failed posts and collapsed ones
\* included.  Excepted are the keys of posts the monitor cannot know the fate of.
ChannelAgrees ==
  pass = Idle => \A k \in Keys \ blurred : heard[k] = keys[k].sev

\* A condition that lasts cannot flood the channel: between two resolutions a key is alerted
\* at most once per severity and max_repeats times more.
RepeatsEnd == \A k \in Keys \ blurred : said[k] <= 2 + MaxRepeats

\* What stays wrong is heard of, whatever failed before: the stages are asked again and a post
\* that failed is planned again.  (Dead rows are not among them: they are found once.)
LastingIsHeard ==
  \A k \in Keys \ {Dead, StageFailed} :
    (cond[k] # "none") ~> (heard[k] # "none" \/ cond[k] = "none" \/ k \in blurred)

\* Dead rows are told of, also when the first post of them fails.
\* Does not hold: see the README.
DeadIsHeard == (cond[Dead] # "none") ~> (heard[Dead] # "none" \/ cond[Dead] = "none" \/ Dead \in blurred)

=============================================================================
