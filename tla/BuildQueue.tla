----------------------------- MODULE BuildQueue -----------------------------
(***************************************************************************)
(* The build queue: rows in sqlite (lib/buildq.py), the dispatcher hosted  *)
(* by the relay (lib/build_dispatcher.py), the runners that start and kill *)
(* local and ssh runs (lib/build_run.py), the script piped to a remote     *)
(* host (bin/build-runner.sh) and the operator's CLI (bin/buildq), which   *)
(* writes the same table from another process.                             *)
(*                                                                         *)
(* The dispatcher is one asyncio loop: its steps interleave at awaits, the *)
(* CLI and the runs interleave everywhere.  A sweep (recover, and the two  *)
(* that fail queued rows) reads its rows first and then handles them one   *)
(* by one with blocking calls, so the loop stands still but the CLI does   *)
(* not.  Runs are sessions of their own: they outlive the relay.           *)
(***************************************************************************)
EXTENDS Naturals, FiniteSets

CONSTANTS
    MaxRows,       \* bound: rows ever inserted
    Hosts,         \* hosts of config/build-queue.yaml
    SshHosts,      \* those of kind ssh
    Probed,        \* ssh hosts with a probe command
    Concurrency,   \* [Hosts -> slots]
    HostNames,     \* host names a row may carry; one outside Hosts left the config
    MaxAttempts,   \* retry.max_attempts
    Unkillable,    \* hosts where a kill may fail (survivors, ssh down)
    Briefs,        \* texts of briefs dropped in the inbox
    DefaultHost,   \* default_host
    CancelKinds,   \* cancels exercised: subset of {"cli", "direct"}
    MaxCancels,    \* bound: cancels
    MaxRestarts,   \* bound: relay and container restarts
    MaxOutages     \* bound: probes and uploads that find the host unreachable

ASSUME BuildQueueAssumption ==
    /\ MaxRows \in Nat /\ MaxAttempts \in Nat \ {0}
    /\ SshHosts \subseteq Hosts /\ Probed \subseteq SshHosts /\ Unkillable \subseteq Hosts
    /\ Hosts \subseteq HostNames /\ DefaultHost \in Hosts
    /\ Concurrency \in [Hosts -> Nat \ {0}]
    /\ CancelKinds \subseteq {"cli", "direct"}
    /\ MaxCancels \in Nat /\ MaxRestarts \in Nat /\ MaxOutages \in Nat

\* The slots of hosts whose entry does not say: one each.
DefaultConcurrency == [h \in Hosts |-> 1]

Ids == 1..MaxRows
Attempts == 0..(MaxAttempts + 1)
NoHost == "none"
NoBrief == "none"
Ended == {"done", "failed", "cancelled"}

VARIABLES
    \* data/build-queue.db
    status,     \* "none": no such row yet
    host,       \* resolve_host: the host column, or the default
    brief,
    execHost,   \* exec_host
    attempts,
    ref,        \* run_ref is recorded
    \* inbox/
    inbox,
    \* the dispatcher's memory
    up, recovered,
    sweep,      \* the rows a sweep has read and not yet handled
    task,       \* _run_row: how far the row's task is
    killing,    \* kill in flight for the row, and the ref it was given
    issued,     \* _kill_issued
    unreach,    \* _unreach
    \* the hosts
    run,        \* the run of an attempt: none, boot (no run.pid yet), live, pr, nopr, killed
    exitFile,   \* DIR/exit exists on the remote
    \* history and bounds
    spawned,    \* runs started for the row
    recorded,   \* attempts whose run_ref reached the database
    gone,       \* rows with a kill that reported anything but "failed"
    asked,      \* rows that somebody asked to cancel
    cancels, restarts, outages

db == <<status, host, brief, execHost, attempts, ref>>
memory == <<up, recovered, sweep, task, killing, issued, unreach>>
world == <<run, exitFile>>
history == <<spawned, recorded, gone, asked, cancels, restarts, outages>>
vars == <<db, inbox, memory, world, history>>

-----------------------------------------------------------------------------
(* Helpers *)

In(s) == {r \in Ids : status[r] = s}
Fresh == {r \in Ids : status[r] = "none" /\ \A q \in 1..(r - 1) : status[q] # "none"}
Alive(r, a) == run[<<r, a>>] \in {"boot", "live"}
AliveOf(r) == {a \in Attempts : Alive(r, a)}
Ssh(r) == execHost[r] \in SshHosts
Judged == {r \in Ids : task[r] \in {"passes", "fails"}}
\* The event loop is neither in a sweep nor between a row's verdict and its write.
Free == up /\ recovered /\ sweep.rows = {} /\ Judged = {}
NoKill == [by |-> "none", ref |-> FALSE, host |-> NoHost]
NoSweep == [why |-> "none", rows |-> {}]

\* Faulty variants of definitions below, for testing the properties: one attempt
\* too many, a reason written as the status, a verdict on a cancelled row, one slot too
\* many, a recovery of recorded runs only, a brief always inserted, no cleanup at
\* the start.
MayRetry_OffByOne(r) == attempts[r] <= MaxAttempts
Verdict_Reason(r) == IF task[r] = "passes" THEN "done" ELSE "no-pr"
Owned_Always(r) == status[r] \in {"running", "cancelled"}
FreeSlots_OneMore(h) == Concurrency[h] >= Cardinality({r \in In("running") : execHost[r] = h})
Recoverable_Recorded == {r \in In("running") : ref[r]}
Known_Never(b) == FALSE
CleanupWords_None(r) == {"skipped"}

\* free_slots: rows marked running, by exec_host.
FreeSlots(h) == Concurrency[h] > Cardinality({r \in In("running") : execHost[r] = h})

\* recover: retried in place only while attempts remain.
MayRetry(r) == attempts[r] < MaxAttempts

\* _run_row reaches a verdict only of a row that is still running.
Owned(r) == status[r] = "running"

\* The source_ref of a brief is unique.
Known(b) == \E r \in Ids : brief[r] = b

\* verify_outcome: a build is done only with exit 0 and a PR.
Outcome(r) == IF task[r] = "over" /\ run[<<r, attempts[r]>>] = "pr" THEN "passes" ELSE "fails"
Verdict(r) == IF task[r] = "passes" THEN "done" ELSE "failed"

Candidates(h) == {r \in In("queued") : host[r] = h}

\* Killing the run of r on host h answers one of these words.  Locally the pid of
\* the reference (known or not) is checked and its tree is stopped.  Remotely the
\* script looks for DIR/exit, then for run.pid, which the newest run has written.
PidRun(r) == {a \in Attempts : run[<<r, a>>] = "live" /\ \A b \in Attempts : run[<<r, b>>] = "live" => b <= a}
Target(r, h) == IF h \in SshHosts THEN PidRun(r) ELSE {attempts[r]} \intersect AliveOf(r)
KillWords(r, h, known) ==
    (IF h \in Unkillable THEN {"failed"} ELSE {})
      \union
    (IF h \notin SshHosts /\ ~known THEN {"failed"}
     ELSE IF Target(r, h) = {} \/ (h \in SshHosts /\ exitFile[r]) THEN {"gone"}
     ELSE {"killed"})

\* ... and stops what it found: a remote runner still writes DIR/exit.
KillStops(r, h, word) ==
    IF word # "killed" THEN UNCHANGED world
    ELSE /\ run' = [x \in DOMAIN run |->
                       IF x[1] = r /\ x[2] \in Target(r, h) THEN "killed" ELSE run[x]]
         /\ exitFile' = [exitFile EXCEPT ![r] = @ \/ h \in SshHosts]

SetStatus(r, s) == status' = [status EXCEPT ![r] = s]

Init ==
    /\ status = [r \in Ids |-> "none"] /\ host = [r \in Ids |-> NoHost]
    /\ brief = [r \in Ids |-> NoBrief]
    /\ execHost = [r \in Ids |-> NoHost] /\ attempts = [r \in Ids |-> 0]
    /\ ref = [r \in Ids |-> FALSE]
    /\ inbox = {}
    /\ up = TRUE /\ recovered = FALSE /\ sweep = NoSweep
    /\ task = [r \in Ids |-> "none"] /\ killing = [r \in Ids |-> NoKill]
    /\ issued = {} /\ unreach = {}
    /\ run = [x \in Ids \X Attempts |-> "none"] /\ exitFile = [r \in Ids |-> FALSE]
    /\ spawned = [r \in Ids |-> 0] /\ recorded = {} /\ gone = {} /\ asked = {}
    /\ cancels = 0 /\ restarts = 0 /\ outages = 0

-----------------------------------------------------------------------------
(* The CLI and the inbox: other processes, at any time *)

Insert(r, h, b) ==
    /\ SetStatus(r, "queued")
    /\ host' = [host EXCEPT ![r] = h]
    /\ brief' = [brief EXCEPT ![r] = b]
    /\ UNCHANGED <<execHost, attempts, ref>>

\* buildq enqueue.
Enqueue(r, h) ==
    /\ r \in Fresh
    /\ Insert(r, h, NoBrief)
    /\ UNCHANGED <<inbox, memory, world, history>>

\* buildq requeue: a new row with the old one's columns, but not its source_ref.
Requeue(q, r) ==
    /\ status[q] # "none" /\ r \in Fresh
    /\ Insert(r, host[q], NoBrief)
    /\ UNCHANGED <<inbox, memory, world, history>>

\* A brief is written to inbox/builder.
Drop(b) ==
    /\ inbox' = inbox \union {b}
    /\ UNCHANGED <<db, memory, world, history>>

\* ingest_inboxes, by the dispatcher or by `buildq ingest`: the row is committed,
\* and only then is the file moved, so a crash leaves the file to be read again.
Ingest(b) ==
    /\ b \in inbox /\ ~Known(b)
    /\ \E r \in Fresh : Insert(r, DefaultHost, b)
    /\ UNCHANGED <<inbox, memory, world, history>>

MoveBrief(b) ==
    /\ b \in inbox /\ \E r \in Ids : brief[r] = b
    /\ inbox' = inbox \ {b}
    /\ UNCHANGED <<db, memory, world, history>>

\* buildq cancel: a running row is only marked.
CliCancel(r) ==
    /\ "cli" \in CancelKinds /\ cancels < MaxCancels
    /\ status[r] \in {"queued", "running"}
    /\ SetStatus(r, "cancelled")
    /\ asked' = asked \union {r} /\ cancels' = cancels + 1
    /\ UNCHANGED <<host, brief, execHost, attempts, ref, inbox, memory, world,
                   spawned, recorded, gone, restarts, outages>>

-----------------------------------------------------------------------------
(* Start and sweeps *)

\* The first tick: recover reads the running rows.
Recoverable == In("running")
Recover ==
    /\ up /\ ~recovered
    /\ recovered' = TRUE
    /\ sweep' = [why |-> "restart", rows |-> Recoverable]
    /\ UNCHANGED <<db, inbox, up, task, killing, issued, unreach, world, history>>

\* _cleanup_row: only a row with a recorded run is killed.
CleanupWords(r) == IF ref[r] THEN KillWords(r, execHost[r], TRUE) ELSE {"skipped"}

\* recover's cleanup of one row returned; its status is written whatever it has
\* become meanwhile.
RecoverRow(r, word) ==
    /\ up /\ sweep.why = "restart" /\ r \in sweep.rows
    /\ word \in CleanupWords(r)
    /\ KillStops(r, execHost[r], word)
    /\ sweep' = [sweep EXCEPT !.rows = @ \ {r}]
    /\ IF MayRetry(r)
       THEN SetStatus(r, "queued") /\ ref' = [ref EXCEPT ![r] = FALSE]
       ELSE SetStatus(r, "failed") /\ UNCHANGED ref
    /\ UNCHANGED <<host, brief, execHost, attempts, inbox, up, recovered, task, killing,
                   issued, unreach, history>>

\* _fail_unknown_hosts and _fail_unreachable (the grace has passed) read the rows ...
SweepUnknown ==
    /\ Free
    /\ sweep' = [why |-> "unknown-host", rows |-> {r \in In("queued") : host[r] \notin Hosts}]
    /\ sweep'.rows # {}
    /\ UNCHANGED <<db, inbox, up, recovered, task, killing, issued, unreach, world, history>>

SweepUnreachable(h) ==
    /\ Free /\ h \in unreach
    /\ sweep' = [why |-> "host-unreachable", rows |-> Candidates(h)]
    /\ sweep'.rows # {}
    /\ UNCHANGED <<db, inbox, up, recovered, task, killing, issued, unreach, world, history>>

\* ... and fail them one by one, each with a notice that blocks the loop.
FailRow(r) ==
    /\ up /\ sweep.why \in {"unknown-host", "host-unreachable"} /\ r \in sweep.rows
    /\ SetStatus(r, "failed")
    /\ sweep' = [sweep EXCEPT !.rows = @ \ {r}]
    /\ UNCHANGED <<host, brief, execHost, attempts, ref, inbox, up, recovered, task,
                   killing, issued, unreach, world, history>>

-----------------------------------------------------------------------------
(* Claim and run *)

\* The gate's probe finds the host unreachable: its candidates stay queued (the
\* answer is cached for the claim_next that asks for each of them).
GateHolds(h) ==
    /\ Free /\ outages < MaxOutages
    /\ h \in Probed /\ Candidates(h) # {} /\ FreeSlots(h)
    /\ unreach' = unreach \union {h}
    /\ outages' = outages + 1
    /\ UNCHANGED <<db, inbox, up, recovered, sweep, task, killing, issued, world,
                   spawned, recorded, gone, asked, cancels, restarts>>

\* The gate's probe answers but the row is deferred (host busy, governor).
GateDefers(r) ==
    /\ Free
    /\ status[r] = "queued" /\ host[r] \in Probed \intersect unreach /\ FreeSlots(host[r])
    /\ unreach' = unreach \ {host[r]}
    /\ UNCHANGED <<db, inbox, up, recovered, sweep, task, killing, issued, world, history>>

\* claim_next: the first candidate, by priority and age, that is on a host with a free
\* slot and that the gate admits.  The gate may defer any of them (host busy, the
\* governor), so any may be the one.
Claim(r) ==
    /\ Free
    /\ status[r] = "queued" /\ host[r] \in Hosts /\ FreeSlots(host[r])
    /\ SetStatus(r, "running")
    /\ execHost' = [execHost EXCEPT ![r] = host[r]]
    /\ attempts' = [attempts EXCEPT ![r] = @ + 1]
    /\ task' = [task EXCEPT ![r] = "starting"]
    /\ unreach' = unreach \ (Probed \intersect {host[r]})
    /\ UNCHANGED <<host, brief, ref, inbox, up, recovered, sweep, killing, issued, world,
                   history>>

\* The run's process is started (over ssh after the uploads); its ref is not
\* recorded yet.
Spawn(r) ==
    /\ Free /\ task[r] = "starting"
    /\ task' = [task EXCEPT ![r] = "spawned"]
    /\ run' = [run EXCEPT ![<<r, attempts[r]>>] = IF Ssh(r) THEN "boot" ELSE "live"]
    /\ spawned' = [spawned EXCEPT ![r] = @ + 1]
    /\ UNCHANGED <<db, inbox, up, recovered, sweep, killing, issued, unreach, exitFile,
                   recorded, gone, asked, cancels, restarts, outages>>

\* set_ref.
SetRef(r) ==
    /\ Free /\ task[r] = "spawned"
    /\ task' = [task EXCEPT ![r] = "waiting"]
    /\ ref' = [ref EXCEPT ![r] = TRUE]
    /\ recorded' = recorded \union {<<r, attempts[r]>>}
    /\ UNCHANGED <<status, host, brief, execHost, attempts, inbox, up, recovered, sweep,
                   killing, issued, unreach, world, spawned, gone, asked, cancels, restarts,
                   outages>>

\* The 30 s that a timed-out runner still gets: uploads that hung may go on and start
\* the run, whose kill has then found nothing.
LateSpawn(r) ==
    /\ Free /\ task[r] \in {"late", "unborn"}
    /\ task' = [task EXCEPT ![r] = IF @ = "late" THEN "timing" ELSE "timeout"]
    /\ run' = [run EXCEPT ![<<r, attempts[r]>>] = "boot"]
    /\ spawned' = [spawned EXCEPT ![r] = @ + 1]
    /\ ref' = [ref EXCEPT ![r] = TRUE]
    /\ recorded' = recorded \union {<<r, attempts[r]>>}
    /\ UNCHANGED <<status, host, brief, execHost, attempts, inbox, up, recovered, sweep, killing,
                   issued, unreach, exitFile, gone, asked, cancels, restarts, outages>>

\* HostUnreachable from an upload: the row goes back unless it was cancelled; the
\* next tick's gate holds the other candidates of the host.
UploadFails(r) ==
    /\ Free /\ outages < MaxOutages
    /\ task[r] = "starting" /\ Ssh(r)
    /\ task' = [task EXCEPT ![r] = "none"]
    /\ unreach' = unreach \union {execHost[r]}
    /\ IF status[r] = "running"
       THEN /\ SetStatus(r, "queued")
            /\ execHost' = [execHost EXCEPT ![r] = NoHost]
            /\ attempts' = [attempts EXCEPT ![r] = @ - 1]
            /\ ref' = [ref EXCEPT ![r] = FALSE]
       ELSE UNCHANGED <<status, execHost, attempts, ref>>
    /\ outages' = outages + 1
    /\ UNCHANGED <<host, brief, inbox, up, recovered, sweep, killing, issued, world,
                   spawned, recorded, gone, asked, cancels, restarts>>

\* The runner ends (or never starts): a plain failure, the process's end, an ssh
\* connection lost (exit 255, the remote run goes on), the timeout, which also covers
\* the uploads.
StartFails(r) == task[r] = "starting" /\ task' = [task EXCEPT ![r] = "error"]
Returns(r) == task[r] = "waiting" /\ ~Alive(r, attempts[r]) /\ task' = [task EXCEPT ![r] = "over"]
ConnectionLost(r) == task[r] = "waiting" /\ Ssh(r) /\ task' = [task EXCEPT ![r] = "lost"]
TimesOut(r) ==
    \/ task[r] = "waiting" /\ task' = [task EXCEPT ![r] = "timing"]
    \/ task[r] = "starting" /\ Ssh(r) /\ task' = [task EXCEPT ![r] = "late"]

RunnerEnds(r) ==
    /\ Free
    /\ StartFails(r) \/ Returns(r) \/ ConnectionLost(r) \/ TimesOut(r)
    /\ UNCHANGED <<db, inbox, up, recovered, sweep, killing, issued, unreach, world, history>>

\* The timeout's own kill returned.
TimeoutOutcome(r) == IF task[r] = "late" THEN "unborn" ELSE "timeout"
TimeoutKill(r, word) ==
    /\ Free /\ task[r] \in {"timing", "late"}
    /\ word \in KillWords(r, execHost[r], TRUE)
    /\ KillStops(r, execHost[r], word)
    /\ task' = [task EXCEPT ![r] = TimeoutOutcome(r)]
    /\ UNCHANGED <<db, inbox, up, recovered, sweep, killing, issued, unreach, history>>

\* The verdict, once no cancel is stopping the run: the status is read ...
Judge(r) ==
    /\ Free
    /\ task[r] \in {"over", "lost", "timeout", "unborn", "error"} /\ killing[r].by = "none"
    /\ task' = [task EXCEPT ![r] = IF Owned(r) THEN Outcome(r) ELSE "none"]
    /\ issued' = issued \ {r}
    /\ unreach' = IF Ssh(r) /\ task[r] # "lost" THEN unreach \ {execHost[r]} ELSE unreach
    /\ UNCHANGED <<db, inbox, up, recovered, sweep, killing, world, history>>

\* ... and written, by id and whatever it has become: the loop stands still between the
\* two, the CLI does not.
Finish(r) ==
    /\ r \in Judged
    /\ task' = [task EXCEPT ![r] = "none"]
    /\ SetStatus(r, Verdict(r))
    /\ UNCHANGED <<host, brief, execHost, attempts, ref, inbox, up, recovered, sweep, killing,
                   issued, unreach, world, history>>

-----------------------------------------------------------------------------
(* Cancels *)

\* Whether the dispatcher still has the run's reference: it is dropped somewhere in the
\* 30 s after a timeout.
MemRef(r) ==
    IF task[r] \in {"waiting", "timing"} THEN {TRUE}
    ELSE IF task[r] = "timeout" THEN BOOLEAN ELSE {FALSE}
Killing(r, by) ==
    \E known \in MemRef(r) :
        killing' = [killing EXCEPT ![r] = [by |-> by, ref |-> known, host |-> execHost[r]]]

\* _poll_cancels: once per cancelled row with a task.
PollCancel(r) ==
    /\ Free
    /\ task[r] # "none" /\ killing[r].by = "none" /\ r \notin issued
    /\ status[r] = "cancelled"
    /\ issued' = issued \union {r}
    /\ Killing(r, "poll")
    /\ UNCHANGED <<db, inbox, up, recovered, sweep, task, unreach, world, history>>

\* QueueDispatcher.cancel of a running row kills first and marks after.
DirectCancel(r) ==
    /\ Free /\ "direct" \in CancelKinds /\ cancels < MaxCancels
    /\ task[r] # "none" /\ killing[r].by = "none"
    /\ status[r] = "running"
    /\ Killing(r, "direct")
    /\ asked' = asked \union {r} /\ cancels' = cancels + 1
    /\ UNCHANGED <<db, inbox, up, recovered, sweep, task, issued, unreach, world,
                   spawned, recorded, gone, restarts, outages>>

\* _record_kill, and the rest of cancel().  The row may have left its host
\* meanwhile: the kill used the exec_host of the row it was given.
KillReturns(r, word) ==
    /\ Free
    /\ killing[r].by # "none" /\ word \in KillWords(r, killing[r].host, killing[r].ref)
    /\ KillStops(r, killing[r].host, word)
    /\ killing' = [killing EXCEPT ![r] = NoKill]
    /\ IF word = "failed"
       THEN SetStatus(r, "running") /\ issued' = issued \ {r} /\ UNCHANGED gone
       ELSE /\ gone' = gone \union {r}
            /\ issued' = issued \union {r}
            /\ IF status[r] \in {"queued", "running"}
                  /\ killing[r].by = "direct" THEN SetStatus(r, "cancelled") ELSE UNCHANGED status
    /\ UNCHANGED <<host, brief, execHost, attempts, ref, inbox, up, recovered, sweep, task,
                   unreach, spawned, recorded, asked, cancels, restarts, outages>>

-----------------------------------------------------------------------------
(* Hosts and restarts *)

\* The remote script reaches run.pid (its clone and worktree are ready).
PidWritten(r) ==
    /\ \E a \in Attempts : run[<<r, a>>] = "boot" /\ run' = [run EXCEPT ![<<r, a>>] = "live"]
    /\ UNCHANGED <<db, inbox, memory, exitFile, history>>

\* A run ends by itself, with or without a PR; a remote one leaves DIR/exit.
RunEnds(r, a) ==
    /\ Alive(r, a)
    /\ \E end \in {"pr", "nopr"} : run' = [run EXCEPT ![<<r, a>>] = end]
    /\ exitFile' = [exitFile EXCEPT ![r] = @ \/ Ssh(r)]
    /\ UNCHANGED <<db, inbox, memory, history>>

Forget ==
    /\ recovered' = FALSE /\ sweep' = NoSweep
    /\ task' = [r \in Ids |-> "none"] /\ killing' = [r \in Ids |-> NoKill]
    /\ issued' = {} /\ unreach' = {}

\* The relay exits; a container restart takes the local runs with it.
Stop(localRuns) ==
    /\ up /\ restarts < MaxRestarts
    /\ up' = FALSE
    /\ Forget
    /\ run' = IF localRuns
              THEN [x \in DOMAIN run |-> IF Alive(x[1], x[2]) /\ ~Ssh(x[1]) THEN "killed" ELSE run[x]]
              ELSE run
    /\ restarts' = restarts + 1
    /\ UNCHANGED <<db, inbox, exitFile, spawned, recorded, gone, asked, cancels, outages>>

Start ==
    /\ ~up /\ up' = TRUE
    /\ UNCHANGED <<db, inbox, recovered, sweep, task, killing, issued, unreach, world, history>>

-----------------------------------------------------------------------------
Words == {"killed", "gone", "failed", "skipped"}

Operator ==
    \/ \E r \in Ids, h \in HostNames : Enqueue(r, h)
    \/ \E q, r \in Ids : Requeue(q, r)
    \/ \E b \in Briefs : Drop(b) \/ Ingest(b) \/ MoveBrief(b)
    \/ \E r \in Ids : CliCancel(r) \/ DirectCancel(r)

Sweeps ==
    \/ Recover
    \/ SweepUnknown
    \/ \E h \in Hosts : SweepUnreachable(h)
    \/ \E r \in Ids : FailRow(r)
    \/ \E r \in Ids, w \in Words : RecoverRow(r, w)

Running(r) ==
    \/ Spawn(r) \/ SetRef(r) \/ LateSpawn(r) \/ UploadFails(r) \/ RunnerEnds(r)
    \/ Judge(r) \/ Finish(r) \/ PollCancel(r)
    \/ \E w \in Words : TimeoutKill(r, w) \/ KillReturns(r, w)

Environment ==
    \/ \E r \in Ids : PidWritten(r) \/ \E a \in Attempts : RunEnds(r, a)
    \/ \E b \in BOOLEAN : Stop(b)
    \/ Start

Next ==
    \/ Operator \/ Sweeps \/ Environment
    \/ \E h \in Hosts : GateHolds(h)
    \/ \E r \in Ids : GateDefers(r) \/ Claim(r) \/ Running(r)

Spec == Init /\ [][Next]_vars

\* The tick runs every poll_s, each task is scheduled, every run ends by its
\* timeout, a stopped relay is restarted by supervisord, and the gate does not
\* refuse a row with a free slot for ever.  Nothing makes a row, a cancel, an
\* outage or a restart come.
FairRunning(r) ==
    /\ WF_vars(Spawn(r)) /\ WF_vars(SetRef(r)) /\ WF_vars(RunnerEnds(r))
    /\ WF_vars(Judge(r)) /\ WF_vars(Finish(r)) /\ WF_vars(PollCancel(r))
    /\ WF_vars(\E w \in Words : TimeoutKill(r, w)) /\ WF_vars(\E w \in Words : KillReturns(r, w))
    /\ WF_vars(Claim(r)) /\ WF_vars(FailRow(r))
    /\ WF_vars(\E w \in Words : RecoverRow(r, w))

Fairness ==
    /\ WF_vars(Recover) /\ WF_vars(SweepUnknown) /\ WF_vars(Start)
    /\ \A r \in Ids : FairRunning(r)

FairSpec == Spec /\ Fairness

-----------------------------------------------------------------------------
(* Properties *)

\* Types of the table, of the dispatcher's memory and of the hosts.
TypeOK ==
    /\ status \in [Ids -> {"none", "queued", "running"} \union Ended]
    /\ host \in [Ids -> HostNames \union {NoHost}]
    /\ brief \in [Ids -> Briefs \union {NoBrief}]
    /\ execHost \in [Ids -> Hosts \union {NoHost}]
    /\ attempts \in [Ids -> Attempts] /\ ref \in [Ids -> BOOLEAN]
    /\ inbox \subseteq Briefs
    /\ up \in BOOLEAN /\ recovered \in BOOLEAN
    /\ sweep.why \in {"none", "restart", "unknown-host", "host-unreachable"} /\ sweep.rows \subseteq Ids
    /\ task \in [Ids -> {"none", "starting", "spawned", "waiting", "timing", "over", "lost",
                         "timeout", "late", "unborn", "error", "passes", "fails"}]
    /\ killing \in [Ids -> [by : {"none", "poll", "direct"}, ref : BOOLEAN,
                        host : Hosts \union {NoHost}]]
    /\ issued \subseteq Ids /\ unreach \subseteq SshHosts
    /\ run \in [Ids \X Attempts -> {"none", "boot", "live", "pr", "nopr", "killed"}]
    /\ exitFile \in [Ids -> BOOLEAN]

\* However claims, retries, unreachable hosts and restarts alternate, no row is
\* started more often than retry.max_attempts allows (a second run can open a
\* second PR).
RetryBounded == \A r \in Ids : spawned[r] <= MaxAttempts

\* A recorded local run never outlives its row, where kills work: once the row has ended
\* (also by a timeout, or by the recovery after a restart), no recorded process of it is
\* alive, unless somebody asked to cancel that row.
NoRunOutlivesRow ==
    \A r \in Ids \ asked, a \in Attempts :
        <<r, a>> \in recorded /\ Alive(r, a) /\ host[r] \notin SshHosts \union Unkillable =>
            status[r] = "running"

\* The rows that carry a brief never share it: a brief found again after a crash is
\* one row.
OneRowPerBrief == \A q, r \in Ids : brief[q] # NoBrief /\ brief[q] = brief[r] => q = r

\* A local host where kills work never has more recorded runs than slots, through
\* timeouts, retries and restarts; only a row somebody asked to cancel can leave its
\* slot before its run has stopped, one run for each.
RunsOn(h) == {x \in recorded : Alive(x[1], x[2]) /\ host[x[1]] = h}
SlotsRespected ==
    \A h \in Hosts \ (SshHosts \union Unkillable) :
        Cardinality(RunsOn(h)) <= Concurrency[h] + Cardinality({r \in asked : host[r] = h})

\* No verdict is reached on a cancelled row, and whatever its run, its upload, its
\* timeout or the inbox does meanwhile the row stays cancelled.  The exceptions are the
\* code's: a kill that failed puts the row back to running, a sweep writes the rows it
\* has read before, and so does a verdict reached just before the cancel.
CancelSticks ==
    [][\A r \in Ids : status[r] = "cancelled" =>
            /\ r \in Judged' => r \in Judged
            /\ \/ status'[r] = "cancelled"
               \/ status'[r] = "running" /\ killing[r].by # "none"
               \/ r \in sweep.rows \union Judged]_vars

\* Once a running row is cancelled, no verdict is written over the cancel: the path of
\* the kill owns the row.  Does not hold: see the README.
CancelOwnsRow ==
    [][\A r \in Ids : status[r] = "cancelled" => status'[r] \notin {"done", "failed"}]_vars

\* After the recovery, a run that was recorded has a task that can stop it.
\* Does not hold: see the README.
NoOrphan ==
    recovered /\ sweep.rows = {} =>
        \A r \in Ids, a \in Attempts : <<r, a>> \in recorded /\ Alive(r, a) => task[r] # "none"

\* A row of which a kill said the run is stopped or gone has no run that goes on.
\* Does not hold: see the README.
GoneIsGone == \A r \in gone : AliveOf(r) = {}

\* A running row has a task that a verdict and a later cancel can reach, once the
\* recovery is through; the exception is a row somebody asked to cancel.
RunningHasTask ==
    recovered /\ sweep.rows = {} => \A r \in In("running") \ asked : task[r] # "none"

\* Every queued row ends: done, failed or cancelled.
EveryRowEnds == \A r \in Ids : status[r] = "queued" ~> status[r] \in Ended
=============================================================================
