------------------------------- MODULE Migrate ------------------------------
(***************************************************************************)
(* The 1.x -> 2.0 migration (lib/migrate): backup, the steps in order, the *)
(* stamp last.  A run may be killed anywhere; a marker left beside its     *)
(* backup makes the next run restore before it does anything else.  The    *)
(* stack is down during a run; between runs a 1.x image may be started.    *)
(***************************************************************************)
EXTENDS Naturals, Sequences, FiniteSetsExt

CONSTANTS
  Steps,                          \* the numbers of the steps the directory needs; each step has its own files
  MaxRuns, MaxRunDeaths, MaxWork  \* bounds

VARIABLES
  files,    \* step -> its files: [form, work, imports]
  backups,  \* the backups taken, each a copy of `files`
  marker,   \* .migration-in-progress: the backup it names, 0 without
  aged,     \* the marker is older than MARKER_MAX_AGE_S
  stamp,    \* .schema-version
  run,      \* the migrator
  server,   \* the image that runs: "none", "1.x", "2.0"
  kept,     \* the operator deleted a marker to keep the files as they were
  torn,     \* a restore by the operator was cut short and not done again
  settled,  \* no run took a backup since the operator's last restore
  runs, deaths

MigVars == <<files, backups, marker, aged, stamp, run, server, kept, torn, settled, runs, deaths>>

----------------------------------------------------------------------------
(* The steps.  A step makes its files ready and then makes them its own (a   *)
(* rename, the last file); `seen` is whether its detect() still applies      *)
(* between the two, `atOnce` that one transaction does both.                 *)

\* config/docker-compose.yml, which detect() looks at, and then config/.env.
Layout == [nr |-> 5, seen |-> FALSE, atOnce |-> FALSE]
\* agents.yaml, which detect() looks at, and then the hooks of claude-settings.json.
AgentsYaml == [nr |-> 10, seen |-> FALSE, atOnce |-> FALSE]
\* The monitor's template is copied, and then agents.yaml names it.
MonitorPrompt == [nr |-> 12, seen |-> TRUE, atOnce |-> FALSE]
\* Columns and indexes, one after the other; any that misses is seen.
QueueColumns == [nr |-> 20, seen |-> TRUE, atOnce |-> FALSE]
SessionColumns == [nr |-> 30, seen |-> TRUE, atOnce |-> FALSE]
\* The table is rebuilt in one transaction.
RateLimitKey == [nr |-> 35, seen |-> TRUE, atOnce |-> TRUE]
\* graph.db is put in place, and then memory.db renamed; before the first there is a staging
\* file that nothing reads.
MemoryGraph == [nr |-> 40, seen |-> TRUE, atOnce |-> FALSE]
\* The tables, which detect() looks at, and then config/build-queue.yaml.
BuildTables == [nr |-> 50, seen |-> FALSE, atOnce |-> FALSE]
\* The dead letters are imported, and then their file renamed.
DeadLetters == [nr |-> 60, seen |-> TRUE, atOnce |-> FALSE]

StepTable == {Layout, AgentsYaml, MonitorPrompt, QueueColumns, SessionColumns, RateLimitKey,
              MemoryGraph, BuildTables, DeadLetters}
Seen == {e.nr : e \in {t \in StepTable : t.seen}}
AtOnce == {e.nr : e \in {t \in StepTable : t.atOnce}}

NoRun == [at |-> "none"]
Original == [form |-> "old", work |-> 0, imports |-> 0]

MigInit ==
  /\ files = [s \in Steps |-> Original] /\ backups = <<>> /\ marker = 0 /\ aged = FALSE
  /\ stamp = FALSE /\ run = NoRun /\ server = "none" /\ kept = FALSE /\ torn = FALSE /\ settled = FALSE
  /\ runs = 0 /\ deaths = 0

disk == <<files, backups, marker, aged, stamp>>
migGhosts == <<kept, torn, settled>>
MigIdle == run = NoRun /\ server = "none"

----------------------------------------------------------------------------
(* python3 -m lib.migrate *)

\* detect(): on old files, and on half-done ones when the step can see them.
Applies(s) == files[s].form = "old" \/ (files[s].form = "half" /\ s \in Seen)

Interrupted_Old == marker # 0 /\ ~aged
Interrupted == marker # 0

\* With a marker the backup goes back first, unless the marker is too old.
RunStarts ==
  /\ MigIdle /\ ~stamp /\ runs < MaxRuns /\ ~(Interrupted /\ aged)
  /\ run' = IF Interrupted
            THEN [at |-> "recovers", from |-> marker, todo |-> Steps]
            ELSE [at |-> "plans"]
  /\ runs' = runs + 1
  /\ UNCHANGED <<disk, server, migGhosts, deaths>>

\* restore(), one file after another.
PutsBack(s) ==
  /\ run.at \in {"recovers", "restores"} /\ s \in run.todo
  /\ files' = [files EXCEPT ![s] = backups[run.from][s]]
  /\ run' = [run EXCEPT !.todo = @ \ {s}]
  /\ UNCHANGED <<backups, marker, aged, stamp, server, migGhosts, runs, deaths>>

\* _prune and the unlink of the stamp end the restore; then the marker goes.
Recovered ==
  /\ run.at = "recovers" /\ run.todo = {}
  /\ stamp' = FALSE /\ marker' = 0 /\ aged' = FALSE
  /\ run' = [at |-> "plans"]
  /\ UNCHANGED <<files, backups, server, migGhosts, runs, deaths>>

\* Every step is asked before any runs.
Plans ==
  /\ run.at = "plans"
  /\ run' = [at |-> "backs up", plan |-> {s \in Steps : Applies(s)}]
  /\ UNCHANGED <<disk, server, migGhosts, runs, deaths>>

\* A backup that is not finished has no manifest, and nothing names it.
BacksUp ==
  /\ run.at = "backs up"
  /\ backups' = Append(backups, files)
  /\ run' = [run EXCEPT !.at = "marks"]
  /\ UNCHANGED <<files, marker, aged, stamp, server, migGhosts, runs, deaths>>

Marks ==
  /\ run.at = "marks"
  /\ marker' = Len(backups) /\ aged' = FALSE
  /\ run' = [run EXCEPT !.at = "steps"] /\ settled' = FALSE
  /\ UNCHANGED <<files, backups, stamp, server, kept, torn, runs, deaths>>

Imported_Twice(s) == files[s].imports + 1
\* An import after an interrupted one finds what that one left, and adds what misses.
Imported(s) == 1

\* One of the two writes of a step; the second with verify().
Step(s) ==
  /\ run.at = "steps" /\ run.plan # {} /\ s = Min(run.plan)
  /\ \/ /\ s \notin AtOnce /\ files[s].form \in {"old", "half"} /\ "wrote" \notin DOMAIN run
        /\ files' = [files EXCEPT ![s] = [form |-> "half", work |-> @.work, imports |-> Imported(s)]]
        /\ run' = [at |-> "steps", plan |-> run.plan, wrote |-> s]
     \/ /\ s \in AtOnce \/ "wrote" \in DOMAIN run
        /\ files' = [files EXCEPT ![s] = [form |-> "new", work |-> @.work,
                                           imports |-> IF s \in AtOnce THEN 1 ELSE @.imports]]
        /\ run' = [at |-> "steps", plan |-> run.plan \ {s}]
  /\ UNCHANGED <<backups, marker, aged, stamp, server, migGhosts, runs, deaths>>

Stamps ==
  /\ run.at = "steps" /\ run.plan = {}
  /\ stamp' = TRUE
  /\ run' = [at |-> "unmarks"]
  /\ UNCHANGED <<files, backups, marker, aged, server, migGhosts, runs, deaths>>

Unmarks ==
  /\ run.at = "unmarks"
  /\ marker' = 0 /\ aged' = FALSE /\ run' = NoRun
  /\ UNCHANGED <<files, backups, stamp, server, migGhosts, runs, deaths>>

\* Killed, or a step that failed: both leave the marker and no stamp.
RunDies ==
  /\ run # NoRun /\ deaths < MaxRunDeaths /\ deaths' = deaths + 1
  /\ run' = NoRun
  /\ torn' = (torn \/ run.at = "restores")
  /\ UNCHANGED <<disk, server, kept, settled, runs>>

----------------------------------------------------------------------------
(* The operator *)

\* karakos migrate --restore: as above, but the stamp goes last and the marker after it.
OperatorRestores(b) ==
  /\ MigIdle /\ b \in DOMAIN backups /\ runs < MaxRuns
  /\ run' = [at |-> "restores", from |-> b, todo |-> Steps]
  /\ runs' = runs + 1
  /\ UNCHANGED <<disk, server, migGhosts, deaths>>

ClearsMarker_Not == marker
ClearsMarker == 0

OperatorRestored ==
  /\ run.at = "restores" /\ run.todo = {}
  /\ stamp' = FALSE /\ marker' = ClearsMarker /\ aged' = (aged /\ ClearsMarker # 0)
  /\ run' = NoRun /\ torn' = FALSE /\ settled' = TRUE
  /\ UNCHANGED <<files, backups, server, kept, runs, deaths>>

\* What the refusal of an old marker offers.
DeletesMarker ==
  /\ MigIdle /\ marker # 0 /\ aged
  /\ marker' = 0 /\ aged' = FALSE
  /\ kept' = (kept \/ \E s \in Steps : files[s].form = "half")
  /\ UNCHANGED <<files, backups, stamp, run, server, torn, settled, runs, deaths>>

MarkerAges ==
  /\ marker # 0 /\ ~aged /\ run = NoRun /\ aged' = TRUE
  /\ UNCHANGED <<files, backups, marker, stamp, run, server, migGhosts, runs, deaths>>

\* guard.require_stamp: a 2.0 image starts on a stamped directory only.
Server2Starts ==
  /\ MigIdle /\ stamp /\ server' = "2.0"
  /\ UNCHANGED <<disk, run, migGhosts, runs, deaths>>

Server1Starts ==
  /\ MigIdle /\ ~stamp /\ ~torn /\ server' = "1.x"
  /\ UNCHANGED <<disk, run, migGhosts, runs, deaths>>

ServerWorks(s) ==
  /\ server # "none" /\ files[s].work < MaxWork
  /\ files' = [files EXCEPT ![s].work = @ + 1]
  /\ UNCHANGED <<backups, marker, aged, stamp, run, server, migGhosts, runs, deaths>>

ServerStops ==
  /\ server # "none" /\ server' = "none"
  /\ UNCHANGED <<disk, run, migGhosts, runs, deaths>>

MigNext ==
  \/ RunStarts \/ Recovered \/ Plans \/ BacksUp \/ Marks \/ Stamps \/ Unmarks \/ RunDies
  \/ \E s \in Steps : PutsBack(s) \/ Step(s) \/ ServerWorks(s)
  \/ \E b \in 1..MaxRuns : OperatorRestores(b)
  \/ OperatorRestored \/ DeletesMarker \/ MarkerAges
  \/ Server2Starts \/ Server1Starts \/ ServerStops

MigSpec == MigInit /\ [][MigNext]_MigVars

----------------------------------------------------------------------------
(* Properties *)

\* A stamped directory was migrated to the end, each file once: wherever the runs before were
\* killed, the next one starts from the original and not from what they left.  (Unless the
\* operator kept half-done files, or left a restore unfinished.)
StampedIsWhole ==
  (stamp /\ ~kept /\ ~torn /\ run.at # "restores") => \A s \in Steps : files[s].form = "new" /\ files[s].imports = 1

\* Even over files an operator kept, a step that runs again imports nothing twice.
NeverTwice == stamp => \A s \in Steps : files[s].imports <= 1

\* What a 1.x image wrote is discarded by a restore the operator asks for, or by a run that
\* resumes one of less than a day ago; and once the operator has restored, no marker of an
\* earlier run takes away what the install writes from then on.
WorkIsKept ==
  [][\A s \in Steps : files'[s].work < files[s].work =>
       \/ run.at = "restores"
       \/ run.at = "recovers" /\ ~aged /\ ~settled]_MigVars

=============================================================================
