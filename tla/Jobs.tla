-------------------------------- MODULE Jobs --------------------------------
(***************************************************************************)
(* The scheduler and the check that it does its work.  bin/scheduler.py    *)
(* registers the job table (lib/job_registry.py with config/jobs.yaml)     *)
(* when it starts, runs what is due one job after another, and records     *)
(* each run in a heartbeat.  The monitor tick, itself one of the jobs,     *)
(* compares the table as it is now with the live schedule and the          *)
(* heartbeats (lib/drift.py).                                              *)
(*                                                                         *)
(* Time is counted in ticks of the scheduler's loop; an age stops at Cap.  *)
(***************************************************************************)
EXTENDS Integers, FiniteSets

CONSTANTS Jobs,        \* job names, Monitor among them
          Monitor,     \* "monitor-tick"
          Period,      \* its interval, a function on Jobs
          MaxAge,      \* max_age_s, a function on Jobs
          HealthAge,   \* max_age_s of the component "scheduler"
          Swallows,    \* jobs whose function catches the failure of its command
          Cap,
          MaxEdits, MaxDeaths, MaxFails, MaxSlow

JobsAssumption ==
  /\ Monitor \in Jobs
  /\ \A j \in Jobs : Period[j] < MaxAge[j] /\ MaxAge[j] < Cap

VARIABLES table,     \* what load_jobs gives now; {} while jobs.yaml is invalid
          up,
          loaded,    \* what this scheduler has registered
          live,      \* names in scheduler-jobs.json
          since,     \* age of started_at in it
          wait,      \* time until next_run, negative once it is overdue
          pass,      \* what run_pending has still to run
          busy,      \* the job that is running
          health,    \* age of scheduler.json's timestamp
          hb,        \* the heartbeat of each job
          broken,    \* jobs whose command fails now
          report,    \* findings of the last monitor tick
          slow,      \* a run has taken a tick or more
          edited,    \* jobs.yaml has changed since the scheduler started
          left

JobsVars == <<table, up, loaded, live, since, wait, pass, busy, health, hb, broken,
              report, slow, edited, left>>

doc  == <<live, since>>
loop == <<up, loaded, wait, pass, busy>>

Builtin == Jobs     \* the table without a jobs.yaml
Never == [age |-> Cap, ok |-> TRUE, gap |-> 0, ran |-> FALSE]

JobsInit ==
  /\ table = Builtin
  /\ up = FALSE
  /\ loaded = {}
  /\ live = {}
  /\ since = Cap
  /\ wait = [j \in Jobs |-> 0]
  /\ pass = {}
  /\ busy = "none"
  /\ health = Cap
  /\ hb = [j \in Jobs |-> Never]
  /\ broken = {}
  /\ report = {}
  /\ slow = FALSE
  /\ edited = FALSE
  /\ left = [edits |-> MaxEdits, deaths |-> MaxDeaths, fails |-> MaxFails, slow |-> MaxSlow]

Spend(what) == left[what] > 0 /\ left' = [left EXCEPT ![what] = @ - 1]

---------------------------------------------------------------------------

\* The operator disables a job in jobs.yaml, enables it, or breaks the file.
Edit(T) ==
  /\ Spend("edits")
  /\ table' = T
  /\ T # table
  /\ edited' = up
  /\ UNCHANGED <<loop, doc, health, hb, broken, report, slow>>

\* load_jobs: an invalid file yields the builtin table.
Loads == IF table = {} THEN Builtin ELSE table

\* write_jobs_file: the names that were registered.
Listed_Table(S) == Loads
Listed(S) == S

\* main, up to its loop.  A job that cannot be registered here is left out.
Starts(missing) ==
  /\ ~ up
  /\ IF missing = {} THEN UNCHANGED left ELSE Spend("fails")
  /\ up' = TRUE
  /\ loaded' = Loads \ missing
  /\ live' = Listed(loaded')
  /\ since' = 0
  /\ wait' = [j \in Jobs |-> Period[j]]
  /\ health' = 0
  /\ edited' = FALSE
  /\ UNCHANGED <<table, pass, busy, hb, broken, report, slow>>

Dies ==
  /\ Spend("deaths")
  /\ up
  /\ up' = FALSE
  /\ pass' = {}
  /\ busy' = "none"
  /\ loaded' = {}
  /\ UNCHANGED <<table, doc, wait, health, hb, broken, report, slow, edited>>

\* run_pending lists what is due once, and works the list off in the order of
\* next_run.
Due == {j \in loaded : wait[j] <= 0}

PassBegins ==
  /\ up /\ pass = {} /\ busy = "none"
  /\ Due # {}
  /\ pass' = Due
  /\ UNCHANGED <<table, up, loaded, wait, busy, doc, health, hb, broken, report, slow, edited, left>>

RunBegins(j) ==
  /\ j \in pass /\ busy = "none"
  /\ \A k \in pass : wait[j] <= wait[k]
  /\ busy' = j
  /\ pass' = pass \ {j}
  /\ UNCHANGED <<table, up, loaded, wait, doc, health, hb, broken, report, slow, edited, left>>

\* The heartbeat a run leaves, with the gap to the one before.
Beat_Ok(j, ok) == [age |-> 0, ok |-> TRUE, gap |-> IF hb[j].ran THEN hb[j].age ELSE 0, ran |-> TRUE]
Beat(j, ok) == [age |-> 0, ok |-> ok, gap |-> IF hb[j].ran THEN hb[j].age ELSE 0, ran |-> TRUE]

\* status: a job is given its max_age from the start of the scheduler too.
Base_Run(j) == hb[j].age
Base(j) == IF hb[j].age < since THEN hb[j].age ELSE since

IsStale(j) == (hb[j].ran => hb[j].ok) /\ Base(j) > MaxAge[j]
Failing(j) == hb[j].ran /\ ~ hb[j].ok
Delayed(j) == hb[j].ran /\ hb[j].age + hb[j].gap <= since /\ hb[j].gap > 2 * Period[j]

\* drift_report.
Drift ==
  {<<"stale", j>> : j \in {k \in Loads : IsStale(k)}}
    \union {<<"failing", j>> : j \in {k \in Loads : Failing(k)}}
    \union {<<"late", j>> : j \in {k \in Loads : Delayed(k)}}
    \union {<<"not-scheduled", j>> : j \in Loads \ live}
    \union {<<"unknown", j>> : j \in live \ Loads}
    \union (IF health > HealthAge /\ since > HealthAge THEN {<<"component", "scheduler">>} ELSE {})

\* What the heartbeat says of a run: run_heartbeat and the like catch the
\* failure of their command.
Swallowed(j, ok) == ok \/ j \in Swallows

\* The run ends, the next one is planned, and _wrap records it; a monitor tick
\* has written its findings before that.
RunEnds ==
  /\ busy \in Jobs
  /\ report' = IF busy = Monitor THEN Drift ELSE report
  /\ hb' = [hb EXCEPT ![busy] = Beat(busy, Swallowed(busy, busy \notin broken))]
  /\ wait' = [wait EXCEPT ![busy] = Period[busy]]
  /\ busy' = "none"
  /\ UNCHANGED <<table, up, loaded, pass, doc, health, broken, slow, edited, left>>

\* A command starts to fail, or works again.
Breaks(j) ==
  /\ Spend("fails")
  /\ j # Monitor
  /\ broken' = IF j \in broken THEN broken \ {j} ELSE broken \union {j}
  /\ UNCHANGED <<table, loop, doc, health, hb, report, slow, edited>>

Older(n) == IF n < Cap THEN n + 1 ELSE Cap

\* A tick of time: the loop sleeps after it has written its health file, a run
\* takes long, or nothing is up.
Tick(writes) ==
  /\ table' = table
  /\ since' = Older(since)
  /\ health' = IF writes THEN 0 ELSE Older(health)
  /\ hb' = [j \in Jobs |-> [hb[j] EXCEPT !.age = Older(@)]]
  /\ wait' = [j \in Jobs |-> IF wait[j] > 0 - Cap THEN wait[j] - 1 ELSE wait[j]]
  /\ UNCHANGED <<up, loaded, live, pass, busy, broken, report, edited>>

Sleeps == up /\ busy = "none" /\ pass = {} /\ Due = {} /\ Tick(TRUE) /\ UNCHANGED <<slow, left>>
Lasts  == busy # "none" /\ Spend("slow") /\ slow' = TRUE /\ Tick(FALSE)
Down   == ~ up /\ Spend("slow") /\ Tick(FALSE) /\ UNCHANGED slow

JobsNext ==
  \/ \E T \in {Jobs, {}} \union {Jobs \ {j} : j \in Jobs \ {Monitor}} : Edit(T)
  \/ \E m \in {{}} \union {{j} : j \in Jobs \ {Monitor}} : Starts(m)
  \/ Dies \/ PassBegins
  \/ \E j \in Jobs : RunBegins(j)
  \/ \E j \in Jobs : Breaks(j)
  \/ RunEnds \/ Sleeps \/ Lasts \/ Down

JobsSpec == JobsInit /\ [][JobsNext]_JobsVars

JobsFair ==
  /\ WF_JobsVars(Starts({})) /\ WF_JobsVars(PassBegins)
  /\ \A j \in Jobs : WF_JobsVars(RunBegins(j))
  /\ WF_JobsVars(RunEnds) /\ WF_JobsVars(Sleeps)

---------------------------------------------------------------------------

\* The monitor does not cry wolf: a scheduler that runs its table on time is
\* not reported, neither after it was down for long nor after a job was taken
\* out and put back.  Excused: a run that takes a tick or more (those behind
\* it, and the scheduler's own health file, are late when the monitor looks),
\* and a jobs.yaml edited since the scheduler started.
OnTimeIsQuiet ==
  [][busy = Monitor /\ busy' = "none" /\ up' /\ ~ slow /\ ~ edited =>
       \A f \in report' : f[1] = "failing" \/ (f[1] # "component" /\ f[2] \notin loaded)]_JobsVars

\* A job of the table that this scheduler does not run is reported while the
\* two go on as they are.
Skipped(j) == up /\ j \in Loads \ loaded

SkippedIsTold ==
  \A j \in Jobs : Skipped(j) ~> (<<"not-scheduled", j>> \in report \/ ~ Skipped(j))

\* A job whose command keeps failing is reported.  Excused: the functions that
\* catch the failure of their command, whose heartbeat says ok.
Fails(j) == up /\ j \in broken /\ j \in Loads \intersect loaded

FailureIsSeen ==
  \A j \in Jobs \ Swallows : Fails(j) ~> (<<"failing", j>> \in report \/ ~ Fails(j))

=============================================================================
