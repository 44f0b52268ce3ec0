-------------------------- MODULE BuildQueueProofs --------------------------
(***************************************************************************)
(* What holds of the build queue for every number of rows, hosts, slots,   *)
(* attempts, restarts and outages.                                         *)
(*                                                                         *)
(* The retry bound: an attempt is counted by Claim, before its run exists, *)
(* so the invariant relates the runs started so far, the claim whose run   *)
(* is about to start, and the counter that an unreachable host gives back. *)
(* Then the types, and what a cancel may become.  From the agreement of    *)
(* tasks, statuses and sweeps (Calm) follow the tasks of running rows, the *)
(* slots and the recorded runs; cancels disturb it only for the rows that  *)
(* somebody asked to cancel.                                               *)
(***************************************************************************)
EXTENDS BuildQueue, FiniteSetTheorems, TLAPS

Statuses == {"none", "queued", "running"} \union Ended
Phases == {"none", "starting", "spawned", "waiting", "timing", "over", "lost", "timeout", "late",
           "unborn", "error", "passes", "fails"}
\* The run of the claim has not started yet, or never will.
Unspent == {"starting", "late", "unborn"}

\* The types the argument uses.
Typed ==
    /\ status \in [Ids -> Statuses]
    /\ task \in [Ids -> Phases]
    /\ attempts \in [Ids -> Nat]
    /\ spawned \in [Ids -> Nat]

\* A claim whose run has not started yet is counted and not spent.
Counted(r) ==
    /\ spawned[r] <= attempts[r]
    /\ task[r] \in Unspent => spawned[r] < attempts[r]

\* The counter stays within the bound, and leaves room for the claim of a row that
\* waits for one; a row that does not exist has none.
Bounded(r) ==
    /\ attempts[r] <= MaxAttempts
    /\ status[r] \in {"none", "queued"} => attempts[r] < MaxAttempts

IInv == Typed /\ \A r \in Ids : Counted(r) /\ Bounded(r)

LEMMA InitOK == Init => IInv
  BY BuildQueueAssumption DEF Init, IInv, Typed, Counted, Bounded, Statuses, Phases, Unspent

\* Steps that leave attempts and spawned alone, take no row back to the queue and
\* start no task keep the invariant.
LEMMA Quiet ==
  ASSUME IInv,
         status' \in [Ids -> Statuses], task' \in [Ids -> Phases],
         UNCHANGED <<attempts, spawned>>,
         \A r \in Ids : task'[r] \in Unspent => task[r] \in Unspent,
         \A r \in Ids : status'[r] \in {"none", "queued"} => status[r] \in {"none", "queued"}
  PROVE  IInv'
  BY DEF IInv, Typed, Counted, Bounded

\* A new row is queued with no attempt.
LEMMA InsertOK ==
  ASSUME IInv, NEW r \in Ids, NEW h, NEW b, r \in Fresh, Insert(r, h, b),
         UNCHANGED <<task, spawned>>
  PROVE  IInv'
  <1>1. status[r] = "none" /\ status' = [status EXCEPT ![r] = "queued"] /\ UNCHANGED attempts
    BY DEF Fresh, Insert, SetStatus
  <1>2. status' \in [Ids -> Statuses]
    BY <1>1 DEF IInv, Typed, Statuses
  <1>3. \A q \in Ids : status'[q] \in {"none", "queued"} => status[q] \in {"none", "queued"}
    BY <1>1 DEF IInv, Typed
  <1> QED
    BY <1>1, <1>2, <1>3, Quiet DEF IInv, Typed

\* One row's status changes to one that is not "none" or "queued".
LEMMA LeavesQueue ==
  ASSUME IInv, NEW r \in Ids, NEW s \in {"running"} \union Ended, SetStatus(r, s),
         UNCHANGED <<attempts, spawned>>, task' \in [Ids -> Phases],
         \A q \in Ids : task'[q] \in Unspent => task[q] \in Unspent
  PROVE  IInv'
  <1>1. status' = [status EXCEPT ![r] = s] /\ status \in [Ids -> Statuses]
    BY DEF SetStatus, IInv, Typed
  <1>2. s \in Statuses /\ s \notin {"none", "queued"}
    BY DEF Statuses, Ended
  <1>3. status' \in [Ids -> Statuses]
    BY <1>1, <1>2
  <1>4. \A q \in Ids : status'[q] \in {"none", "queued"} => status[q] \in {"none", "queued"}
    BY <1>1, <1>2
  <1> QED
    BY <1>3, <1>4, Quiet

\* recover: a row goes back to the queue only while an attempt remains.
LEMMA RecoverOK ==
  ASSUME IInv, NEW r \in Ids, NEW w \in Words, RecoverRow(r, w)
  PROVE  IInv'
  <1>1. UNCHANGED <<attempts, spawned, task>>
    BY DEF RecoverRow, history
  <1>2. CASE MayRetry(r)
    <2>1. status' = [status EXCEPT ![r] = "queued"] /\ attempts[r] < MaxAttempts
      BY <1>2 DEF RecoverRow, SetStatus, MayRetry
    <2> QED
      BY <1>1, <2>1 DEF IInv, Typed, Counted, Bounded, Statuses
  <1>3. CASE ~MayRetry(r)
    <2>1. SetStatus(r, "failed")
      BY <1>3 DEF RecoverRow
    <2> QED
      BY <1>1, <2>1, LeavesQueue DEF Ended, IInv, Typed
  <1> QED
    BY <1>2, <1>3

\* Claim counts the attempt; the queued row had room for it.
LEMMA ClaimOK ==
  ASSUME IInv, NEW r \in Ids, Claim(r)
  PROVE  IInv'
  <1>1. /\ status' = [status EXCEPT ![r] = "running"]
        /\ attempts' = [attempts EXCEPT ![r] = @ + 1]
        /\ task' = [task EXCEPT ![r] = "starting"]
        /\ UNCHANGED spawned
        /\ status[r] = "queued"
    BY DEF Claim, SetStatus, history
  <1>2. MaxAttempts \in Nat
    BY BuildQueueAssumption
  <1>3. Typed'
    BY <1>1 DEF IInv, Typed, Statuses, Phases
  <1>4. ASSUME NEW q \in Ids PROVE (Counted(q) /\ Bounded(q))'
    <2>1. CASE q = r
      BY <1>1, <1>2, <2>1 DEF IInv, Typed, Counted, Bounded
    <2>2. CASE q # r
      BY <1>1, <1>2, <2>2 DEF IInv, Typed, Counted, Bounded
    <2> QED
      BY <2>1, <2>2
  <1> QED
    BY <1>3, <1>4 DEF IInv

\* Spawn spends the claim that Claim counted.
LEMMA SpawnOK ==
  ASSUME IInv, NEW r \in Ids, Spawn(r) \/ LateSpawn(r)
  PROVE  IInv'
  <1>1. PICK t \in {"spawned", "timing", "timeout"} : task' = [task EXCEPT ![r] = t]
    BY DEF Spawn, LateSpawn, IInv, Typed
  <1>2. /\ task[r] \in Unspent
        /\ spawned' = [spawned EXCEPT ![r] = @ + 1]
        /\ UNCHANGED <<status, attempts>>
    BY DEF Spawn, LateSpawn, db, Unspent
  <1>3. Typed'
    BY <1>1, <1>2 DEF IInv, Typed, Phases
  <1>4. ASSUME NEW q \in Ids PROVE (Counted(q) /\ Bounded(q))'
    BY <1>1, <1>2 DEF IInv, Typed, Counted, Bounded, Unspent
  <1> QED
    BY <1>3, <1>4 DEF IInv

\* A failed upload gives the counted and unspent attempt back.
LEMMA UploadOK ==
  ASSUME IInv, NEW r \in Ids, UploadFails(r)
  PROVE  IInv'
  <1>1. task[r] = "starting" /\ task' = [task EXCEPT ![r] = "none"] /\ UNCHANGED spawned
    BY DEF UploadFails
  <1>2. MaxAttempts \in Nat
    BY BuildQueueAssumption
  <1>3. CASE status[r] = "running"
    <2>1. status' = [status EXCEPT ![r] = "queued"] /\ attempts' = [attempts EXCEPT ![r] = @ - 1]
      BY <1>3 DEF UploadFails, SetStatus
    <2>2. spawned[r] \in Nat /\ attempts[r] \in Nat /\ spawned[r] < attempts[r] /\ attempts[r] <= MaxAttempts
      BY <1>1 DEF IInv, Typed, Counted, Bounded, Unspent
    <2>3. attempts[r] - 1 \in Nat
      BY <2>2
    <2>4. Typed'
      BY <1>1, <2>1, <2>3 DEF IInv, Typed, Statuses, Phases
    <2>5. ASSUME NEW q \in Ids PROVE (Counted(q) /\ Bounded(q))'
      <3>1. CASE q = r
        BY <1>1, <1>2, <2>1, <2>2, <3>1 DEF IInv, Typed, Counted, Bounded, Unspent
      <3>2. CASE q # r
        BY <1>1, <2>1, <3>2 DEF IInv, Typed, Counted, Bounded
      <3> QED
        BY <3>1, <3>2
    <2> QED
      BY <2>4, <2>5 DEF IInv
  <1>4. CASE status[r] # "running"
    <2>1. UNCHANGED <<status, attempts>>
      BY <1>4 DEF UploadFails
    <2> QED
      BY <1>1, <2>1 DEF IInv, Typed, Counted, Bounded, Phases, Unspent
  <1> QED
    BY <1>3, <1>4

\* The verdict is reached and then written.
LEMMA FinishOK ==
  ASSUME IInv, NEW r \in Ids, Judge(r) \/ Finish(r)
  PROVE  IInv'
  <1>1. PICK t \in {"none", "passes", "fails"} : task' = [task EXCEPT ![r] = t]
    BY DEF Judge, Finish, Outcome
  <1>2. UNCHANGED <<attempts, spawned>>
    BY DEF Judge, Finish, db, history
  <1>3. task' \in [Ids -> Phases] /\ \A q \in Ids : task'[q] \in Unspent => task[q] \in Unspent
    BY <1>1 DEF IInv, Typed, Phases, Unspent
  <1>4. CASE Judge(r)
    BY <1>2, <1>3, <1>4, Quiet DEF Judge, db, IInv, Typed
  <1>5. CASE Finish(r)
    <2>1. SetStatus(r, Verdict(r)) /\ Verdict(r) \in {"running"} \union Ended
      BY <1>5 DEF Finish, Verdict, Ended
    <2> QED
      BY <1>2, <1>3, <2>1, LeavesQueue
  <1> QED
    BY <1>4, <1>5

\* A kill's answer: the row runs again, is cancelled, or stays what it is.
LEMMA KillOK ==
  ASSUME IInv, NEW r \in Ids, NEW w \in Words, KillReturns(r, w)
  PROVE  IInv'
  <1>1. UNCHANGED <<attempts, spawned, task>>
    BY DEF KillReturns
  <1>2. task' \in [Ids -> Phases] /\ \A q \in Ids : task'[q] \in Unspent => task[q] \in Unspent
    BY <1>1 DEF IInv, Typed
  <1>3. CASE UNCHANGED status
    BY <1>1, <1>2, <1>3, Quiet DEF IInv, Typed
  <1>4. CASE SetStatus(r, "running") \/ SetStatus(r, "cancelled")
    BY <1>1, <1>2, <1>4, LeavesQueue DEF Ended
  <1>5. UNCHANGED status \/ SetStatus(r, "running") \/ SetStatus(r, "cancelled")
    BY DEF KillReturns
  <1> QED
    BY <1>3, <1>4, <1>5

\* Steps of a task that is past its start.
LEMMA TaskOK ==
  ASSUME IInv, NEW r \in Ids, NEW t \in Phases, t \in Unspent => task[r] \in Unspent,
         task' = [task EXCEPT ![r] = t], UNCHANGED <<status, attempts, spawned>>
  PROVE  IInv'
  BY Quiet DEF IInv, Typed

LEMMA OperatorOK == ASSUME IInv, Operator PROVE IInv'
  <1>1. ASSUME NEW r \in Ids, NEW h \in HostNames, Enqueue(r, h) PROVE IInv'
    BY <1>1, InsertOK DEF Enqueue, memory, history
  <1>2. ASSUME NEW q \in Ids, NEW r \in Ids, Requeue(q, r) PROVE IInv'
    BY <1>2, InsertOK DEF Requeue, memory, history
  <1>3. ASSUME NEW b \in Briefs, Drop(b) \/ MoveBrief(b) PROVE IInv'
    BY <1>3, Quiet DEF Drop, MoveBrief, db, memory, history, IInv, Typed
  <1>4. ASSUME NEW b \in Briefs, Ingest(b) PROVE IInv'
    <2>1. PICK r \in Fresh : Insert(r, DefaultHost, b)
      BY <1>4 DEF Ingest
    <2>2. r \in Ids
      BY <2>1 DEF Fresh
    <2> QED
      BY <1>4, <2>1, <2>2, InsertOK DEF Ingest, memory, history
  <1>5. ASSUME NEW r \in Ids, CliCancel(r) PROVE IInv'
    BY <1>5, LeavesQueue DEF CliCancel, memory, Ended, IInv, Typed
  <1>6. ASSUME NEW r \in Ids, DirectCancel(r) PROVE IInv'
    BY <1>6, Quiet DEF DirectCancel, db, IInv, Typed
  <1> QED
    BY <1>1, <1>2, <1>3, <1>4, <1>5, <1>6 DEF Operator

LEMMA SweepsOK == ASSUME IInv, Sweeps PROVE IInv'
  <1>1. ASSUME Recover \/ SweepUnknown \/ \E h \in Hosts : SweepUnreachable(h) PROVE IInv'
    <2>1. UNCHANGED <<status, task, attempts, spawned>>
      BY <1>1 DEF Recover, SweepUnknown, SweepUnreachable, db, history
    <2> QED
      BY <2>1, Quiet DEF IInv, Typed
  <1>2. ASSUME NEW r \in Ids, FailRow(r) PROVE IInv'
    BY <1>2, LeavesQueue DEF FailRow, history, Ended, IInv, Typed
  <1> QED
    BY <1>1, <1>2, RecoverOK DEF Sweeps

LEMMA RunningOK == ASSUME IInv, NEW r \in Ids, Running(r) PROVE IInv'
  <1>1. ASSUME SetRef(r) PROVE IInv'
    BY <1>1, TaskOK DEF SetRef, Phases, Unspent
  <1>2. ASSUME RunnerEnds(r) PROVE IInv'
    <2>1. UNCHANGED <<status, attempts, spawned>>
      BY <1>2 DEF RunnerEnds, db, history
    <2>2. PICK t \in {"error", "over", "lost", "timing", "late"} :
            task' = [task EXCEPT ![r] = t] /\ (t = "late" => task[r] = "starting")
      BY <1>2 DEF RunnerEnds, StartFails, Returns, ConnectionLost, TimesOut
    <2> QED
      BY <2>1, <2>2, TaskOK DEF Phases, Unspent
  <1>3. ASSUME PollCancel(r) PROVE IInv'
    BY <1>3, Quiet DEF PollCancel, db, history, IInv, Typed
  <1>4. ASSUME NEW w \in Words, TimeoutKill(r, w) PROVE IInv'
    <2>1. /\ task[r] \in {"timing", "late"} /\ task' = [task EXCEPT ![r] = TimeoutOutcome(r)]
          /\ UNCHANGED <<status, attempts, spawned>>
      BY <1>4 DEF TimeoutKill, db, history
    <2>2. TimeoutOutcome(r) \in Phases /\ (TimeoutOutcome(r) \in Unspent => task[r] \in Unspent)
      BY <2>1 DEF TimeoutOutcome, Phases, Unspent
    <2> QED
      BY <2>1, <2>2, TaskOK
  <1> QED
    BY <1>1, <1>2, <1>3, <1>4, SpawnOK, UploadOK, FinishOK, KillOK DEF Running

LEMMA EnvironmentOK == ASSUME IInv, Environment PROVE IInv'
  <1>1. ASSUME NEW r \in Ids, PidWritten(r) \/ \E a \in Attempts : RunEnds(r, a) PROVE IInv'
    <2>1. UNCHANGED <<status, task, attempts, spawned>>
      BY <1>1 DEF PidWritten, RunEnds, db, memory, history
    <2> QED
      BY <2>1, Quiet DEF IInv, Typed
  <1>2. ASSUME NEW b \in BOOLEAN, Stop(b) PROVE IInv'
    <2>1. task' = [r \in Ids |-> "none"] /\ UNCHANGED <<status, attempts, spawned>>
      BY <1>2 DEF Stop, Forget, db
    <2>2. task' \in [Ids -> Phases] /\ \A r \in Ids : task'[r] \notin Unspent
      BY <2>1 DEF Phases, Unspent
    <2> QED
      BY <2>1, <2>2, Quiet DEF IInv, Typed
  <1>3. ASSUME Start PROVE IInv'
    BY <1>3, Quiet DEF Start, db, history, IInv, Typed
  <1> QED
    BY <1>1, <1>2, <1>3 DEF Environment

\* Every step keeps the invariant.
LEMMA Inductive == IInv /\ [Next]_vars => IInv'
  <1> SUFFICES ASSUME IInv, [Next]_vars PROVE IInv'
    OBVIOUS
  <1>1. CASE UNCHANGED vars
    BY <1>1, Quiet DEF vars, db, memory, history, IInv, Typed
  <1>2. ASSUME NEW h \in Hosts, GateHolds(h) PROVE IInv'
    BY <1>2, Quiet DEF GateHolds, db, IInv, Typed
  <1>3. ASSUME NEW r \in Ids, GateDefers(r) PROVE IInv'
    BY <1>3, Quiet DEF GateDefers, db, history, IInv, Typed
  <1>4. CASE Next
    BY <1>2, <1>3, <1>4, OperatorOK, SweepsOK, EnvironmentOK, ClaimOK, RunningOK DEF Next
  <1> QED
    BY <1>1, <1>4

\* No row is started more often than retry.max_attempts allows, whatever restarts,
\* outages, cancels and failing kills do.
THEOREM Retries == Spec => []RetryBounded
  <1>1. IInv => RetryBounded
    <2> SUFFICES ASSUME IInv, NEW r \in Ids PROVE spawned[r] <= MaxAttempts
      BY DEF RetryBounded
    <2>1. spawned[r] \in Nat /\ attempts[r] \in Nat /\ MaxAttempts \in Nat
      BY BuildQueueAssumption DEF IInv, Typed
    <2>2. spawned[r] <= attempts[r] /\ attempts[r] <= MaxAttempts
      BY DEF IInv, Counted, Bounded
    <2> QED
      BY <2>1, <2>2
  <1> QED
    BY <1>1, InitOK, Inductive, PTL DEF Spec

-----------------------------------------------------------------------------
(* Types of the table, of the dispatcher's memory and of the hosts.          *)

TableTypes ==
    /\ status \in [Ids -> Statuses]
    /\ host \in [Ids -> HostNames \union {NoHost}]
    /\ brief \in [Ids -> Briefs \union {NoBrief}]
    /\ execHost \in [Ids -> Hosts \union {NoHost}]
    /\ ref \in [Ids -> BOOLEAN]
    /\ inbox \subseteq Briefs

Kills == [by : {"none", "poll", "direct"}, ref : BOOLEAN, host : Hosts \union {NoHost}]

MemoryTypes ==
    /\ up \in BOOLEAN /\ recovered \in BOOLEAN
    /\ sweep \in [why : {"none", "restart", "unknown-host", "host-unreachable"}, rows : SUBSET Ids]
    /\ task \in [Ids -> Phases]
    /\ killing \in [Ids -> Kills]
    /\ issued \subseteq Ids /\ unreach \subseteq SshHosts

WorldTypes ==
    /\ run \in [Ids \X Attempts -> {"none", "boot", "live", "pr", "nopr", "killed"}]
    /\ exitFile \in [Ids -> BOOLEAN]

Types == TableTypes /\ MemoryTypes /\ WorldTypes

LEMMA InitTypes == Init => Types
  <1> SUFFICES ASSUME Init PROVE Types
    OBVIOUS
  <1>1. TableTypes
    BY DEF Init, TableTypes, Statuses
  <1>2. NoKill \in Kills /\ NoSweep \in [why : {"none", "restart", "unknown-host", "host-unreachable"},
                                         rows : SUBSET Ids]
    BY DEF NoKill, NoSweep, Kills
  <1>3. MemoryTypes
    BY <1>2 DEF Init, MemoryTypes, Phases
  <1>4. WorldTypes
    BY DEF Init, WorldTypes
  <1> QED
    BY <1>1, <1>3, <1>4 DEF Types

\* A kill stops runs and may write the exit file.
LEMMA KillStopsTypes ==
  ASSUME WorldTypes, NEW r \in Ids, NEW h, NEW w, KillStops(r, h, w)
  PROVE  WorldTypes'
  <1>1. CASE w # "killed"
    BY <1>1 DEF KillStops, world, WorldTypes
  <1>2. CASE w = "killed"
    <2>1. /\ run' = [x \in DOMAIN run |->
                       IF x[1] = r /\ x[2] \in Target(r, h) THEN "killed" ELSE run[x]]
          /\ exitFile' = [exitFile EXCEPT ![r] = @ \/ h \in SshHosts]
      BY <1>2 DEF KillStops
    <2>2. exitFile' \in [Ids -> BOOLEAN]
      BY <2>1 DEF WorldTypes
    <2>3. run' \in [Ids \X Attempts -> {"none", "boot", "live", "pr", "nopr", "killed"}]
      BY <2>1 DEF WorldTypes
    <2> QED
      BY <2>2, <2>3 DEF WorldTypes
  <1> QED
    BY <1>1, <1>2

\* A kill is given what the dispatcher knows of the run.
LEMMA KillingTypes ==
  ASSUME Types, NEW r \in Ids, NEW by \in {"poll", "direct"}, Killing(r, by),
         UNCHANGED <<up, recovered, sweep, task, unreach>>, issued' \subseteq Ids
  PROVE  MemoryTypes'
  <1>1. PICK known \in MemRef(r) :
          killing' = [killing EXCEPT ![r] = [by |-> by, ref |-> known, host |-> execHost[r]]]
    BY DEF Killing
  <1>2. known \in BOOLEAN /\ execHost[r] \in Hosts \union {NoHost}
    BY DEF MemRef, Types, TableTypes
  <1>3. [by |-> by, ref |-> known, host |-> execHost[r]] \in Kills
    BY <1>2 DEF Kills
  <1> QED
    BY <1>1, <1>3 DEF Types, MemoryTypes

\* The operator's steps, and briefs.
LEMMA OperatorTypes == ASSUME Types, Operator PROVE Types'
  <1> USE DEF Types
  <1>1. ASSUME NEW r \in Fresh, NEW h \in HostNames \union {NoHost},
               NEW b \in Briefs \union {NoBrief}, Insert(r, h, b), UNCHANGED <<inbox, memory, world>>
        PROVE  Types'
    <2>1. r \in Ids /\ "queued" \in Statuses
      BY DEF Fresh, Statuses
    <2>2. TableTypes'
      BY <1>1, <2>1 DEF TableTypes, Insert, SetStatus
    <2> QED
      BY <1>1, <2>2 DEF memory, world, MemoryTypes, WorldTypes
  <1>2. ASSUME NEW r \in Ids, NEW h \in HostNames, Enqueue(r, h) PROVE Types'
    BY <1>1, <1>2, BuildQueueAssumption DEF Enqueue
  <1>3. ASSUME NEW q \in Ids, NEW r \in Ids, Requeue(q, r) PROVE Types'
    <2>1. host[q] \in HostNames \union {NoHost}
      BY DEF TableTypes
    <2> QED
      BY <1>1, <1>3, <2>1 DEF Requeue
  <1>4. ASSUME NEW b \in Briefs, Ingest(b) PROVE Types'
    <2>1. PICK r \in Fresh : Insert(r, DefaultHost, b)
      BY <1>4 DEF Ingest
    <2>2. DefaultHost \in HostNames
      BY BuildQueueAssumption
    <2> QED
      BY <1>1, <1>4, <2>1, <2>2 DEF Ingest
  <1>5. ASSUME NEW b \in Briefs, Drop(b) \/ MoveBrief(b) PROVE Types'
    <2>1. inbox' \subseteq Briefs /\ UNCHANGED <<db, memory, world>>
      BY <1>5 DEF Drop, MoveBrief, TableTypes
    <2> QED
      BY <2>1 DEF db, memory, world, TableTypes, MemoryTypes, WorldTypes
  <1>6. ASSUME NEW r \in Ids, CliCancel(r) PROVE Types'
    <2>1. TableTypes'
      BY <1>6 DEF CliCancel, SetStatus, TableTypes, Statuses, Ended
    <2> QED
      BY <1>6, <2>1 DEF CliCancel, memory, world, MemoryTypes, WorldTypes
  <1>7. ASSUME NEW r \in Ids, NEW by \in {"poll", "direct"},
               Killing(r, by),
               UNCHANGED <<up, recovered, sweep, task, unreach, db, inbox, world>>,
               issued' \subseteq Ids
        PROVE  Types'
    <2>1. MemoryTypes'
      BY <1>7, KillingTypes
    <2> QED
      BY <1>7, <2>1 DEF db, world, TableTypes, WorldTypes
  <1>8. ASSUME NEW r \in Ids, DirectCancel(r) PROVE Types'
    BY <1>7, <1>8 DEF DirectCancel, MemoryTypes, Types
  <1> QED
    BY <1>2, <1>3, <1>4, <1>5, <1>6, <1>8 DEF Operator

LEMMA SweepsTypes == ASSUME Types, Sweeps PROVE Types'
  <1> USE DEF Types
  <1>1. ASSUME NEW R \in SUBSET Ids, NEW why \in {"restart", "unknown-host", "host-unreachable"},
               sweep' = [why |-> why, rows |-> R], recovered' \in BOOLEAN,
               UNCHANGED <<db, inbox, up, task, killing, issued, unreach, world>>
        PROVE  Types'
    <2>1. MemoryTypes'
      BY <1>1 DEF MemoryTypes
    <2> QED
      BY <1>1, <2>1 DEF db, world, TableTypes, WorldTypes
  <1>2. ASSUME Recover PROVE Types'
    BY <1>1, <1>2 DEF Recover, Recoverable, In
  <1>3. ASSUME SweepUnknown PROVE Types'
    BY <1>1, <1>3 DEF SweepUnknown, In, MemoryTypes
  <1>4. ASSUME NEW h \in Hosts, SweepUnreachable(h) PROVE Types'
    BY <1>1, <1>4 DEF SweepUnreachable, Candidates, In, MemoryTypes
  <1>5. ASSUME NEW r \in Ids, sweep' = [sweep EXCEPT !.rows = @ \ {r}],
               UNCHANGED <<up, recovered, task, killing, issued, unreach>>
        PROVE  MemoryTypes'
    BY <1>5 DEF MemoryTypes
  <1>6. ASSUME NEW r \in Ids, FailRow(r) PROVE Types'
    <2>1. TableTypes'
      BY <1>6 DEF FailRow, SetStatus, TableTypes, Statuses, Ended
    <2> QED
      BY <1>5, <1>6, <2>1 DEF FailRow, world, WorldTypes
  <1>7. ASSUME NEW r \in Ids, NEW w \in Words, RecoverRow(r, w) PROVE Types'
    <2>1. TableTypes'
      BY <1>7 DEF RecoverRow, SetStatus, TableTypes, Statuses, Ended
    <2>2. WorldTypes'
      BY <1>7, KillStopsTypes DEF RecoverRow
    <2>3. MemoryTypes'
      BY <1>5, <1>7 DEF RecoverRow
    <2> QED
      BY <2>1, <2>2, <2>3
  <1> QED
    BY <1>2, <1>3, <1>4, <1>6, <1>7 DEF Sweeps

\* The steps of a row's task.
LEMMA RunningTypes == ASSUME Types, NEW r \in Ids, Running(r) PROVE Types'
  <1> USE DEF Types
  <1>1. ASSUME NEW t \in Phases, task' = [task EXCEPT ![r] = t],
               UNCHANGED <<up, recovered, sweep, killing>>, issued' \subseteq Ids,
               unreach' \subseteq SshHosts
        PROVE  MemoryTypes'
    BY <1>1 DEF MemoryTypes
  <1>2. issued \subseteq Ids /\ unreach \subseteq SshHosts
    BY DEF MemoryTypes
  <1>3. CASE Spawn(r)
    <2>1. MemoryTypes'
      BY <1>1, <1>2, <1>3 DEF Spawn, Phases
    <2>2. WorldTypes'
      BY <1>3 DEF Spawn, WorldTypes
    <2> QED
      BY <1>3, <2>1, <2>2 DEF Spawn, db, TableTypes
  <1>4. CASE SetRef(r)
    <2>1. MemoryTypes'
      BY <1>1, <1>2, <1>4 DEF SetRef, Phases
    <2>2. TableTypes'
      BY <1>4 DEF SetRef, TableTypes
    <2> QED
      BY <1>4, <2>1, <2>2 DEF SetRef, world, WorldTypes
  <1>5. CASE UploadFails(r)
    <2>1. unreach' \subseteq SshHosts
      BY <1>2, <1>5 DEF UploadFails, Ssh
    <2>2. MemoryTypes'
      BY <1>1, <1>2, <1>5, <2>1 DEF UploadFails, Phases
    <2>3. TableTypes'
      <3>1. CASE status[r] = "running"
        BY <1>5, <3>1 DEF UploadFails, SetStatus, TableTypes, Statuses
      <3>2. CASE status[r] # "running"
        BY <1>5, <3>2 DEF UploadFails, TableTypes
      <3> QED
        BY <3>1, <3>2
    <2> QED
      BY <1>5, <2>2, <2>3 DEF UploadFails, world, WorldTypes
  <1>6. CASE RunnerEnds(r)
    <2>1. PICK t \in Phases : task' = [task EXCEPT ![r] = t]
      BY <1>6 DEF RunnerEnds, StartFails, Returns, ConnectionLost, TimesOut, Phases
    <2>2. MemoryTypes'
      BY <1>1, <1>2, <1>6, <2>1 DEF RunnerEnds
    <2> QED
      BY <1>6, <2>2 DEF RunnerEnds, db, world, TableTypes, WorldTypes
  <1>7. CASE Judge(r)
    <2>1. issued' \subseteq Ids /\ unreach' \subseteq SshHosts
      BY <1>2, <1>7 DEF Judge
    <2>2. PICK t \in {"none", "passes", "fails"} : task' = [task EXCEPT ![r] = t]
      BY <1>7 DEF Judge, Outcome
    <2>3. MemoryTypes'
      BY <1>1, <1>7, <2>1, <2>2 DEF Judge, Phases
    <2> QED
      BY <1>7, <2>3 DEF Judge, db, world, TableTypes, WorldTypes
  <1>11. CASE Finish(r)
    <2>1. MemoryTypes'
      BY <1>1, <1>2, <1>11 DEF Finish, Phases
    <2>2. TableTypes'
      BY <1>11 DEF Finish, SetStatus, Verdict, TableTypes, Statuses, Ended
    <2> QED
      BY <1>11, <2>1, <2>2 DEF Finish, world, WorldTypes
  <1>12. CASE LateSpawn(r)
    <2>1. PICK t \in {"timing", "timeout"} : task' = [task EXCEPT ![r] = t]
      BY <1>12 DEF LateSpawn, MemoryTypes
    <2>2. MemoryTypes'
      BY <1>1, <1>2, <1>12, <2>1 DEF LateSpawn, Phases
    <2>3. TableTypes'
      BY <1>12 DEF LateSpawn, TableTypes
    <2>4. WorldTypes'
      BY <1>12 DEF LateSpawn, WorldTypes
    <2> QED
      BY <2>2, <2>3, <2>4
  <1>8. CASE PollCancel(r)
    <2>1. MemoryTypes'
      BY <1>2, <1>8, KillingTypes DEF PollCancel
    <2> QED
      BY <1>8, <2>1 DEF PollCancel, db, world, TableTypes, WorldTypes
  <1>9. ASSUME NEW w \in Words, TimeoutKill(r, w) PROVE Types'
    <2>1. WorldTypes'
      BY <1>9, KillStopsTypes DEF TimeoutKill
    <2>2. MemoryTypes'
      BY <1>1, <1>2, <1>9 DEF TimeoutKill, TimeoutOutcome, Phases
    <2> QED
      BY <1>9, <2>1, <2>2 DEF TimeoutKill, db, TableTypes
  <1>10. ASSUME NEW w \in Words, KillReturns(r, w) PROVE Types'
    <2>1. WorldTypes'
      BY <1>10, KillStopsTypes DEF KillReturns
    <2>2. NoKill \in Kills /\ issued' \subseteq Ids
      BY <1>2, <1>10 DEF KillReturns, NoKill, Kills
    <2>3. MemoryTypes'
      BY <1>10, <2>2 DEF KillReturns, MemoryTypes
    <2>4. status' = status \/ SetStatus(r, "running") \/ SetStatus(r, "cancelled")
      BY <1>10 DEF KillReturns
    <2>5. TableTypes'
      BY <1>10, <2>4 DEF KillReturns, SetStatus, TableTypes, Statuses, Ended
    <2> QED
      BY <2>1, <2>3, <2>5
  <1> QED
    BY <1>3, <1>4, <1>5, <1>6, <1>7, <1>8, <1>9, <1>10, <1>11, <1>12 DEF Running

LEMMA EnvironmentTypes == ASSUME Types, Environment PROVE Types'
  <1> USE DEF Types
  <1>1. ASSUME NEW r \in Ids, PidWritten(r) PROVE Types'
    <2>1. WorldTypes'
      BY <1>1 DEF PidWritten, WorldTypes
    <2> QED
      BY <1>1, <2>1 DEF PidWritten, db, memory, TableTypes, MemoryTypes
  <1>2. ASSUME NEW r \in Ids, NEW a \in Attempts, RunEnds(r, a) PROVE Types'
    <2>1. exitFile' \in [Ids -> BOOLEAN]
      BY <1>2 DEF RunEnds, WorldTypes
    <2>2. WorldTypes'
      BY <1>2, <2>1 DEF RunEnds, WorldTypes
    <2> QED
      BY <1>2, <2>2 DEF RunEnds, db, memory, TableTypes, MemoryTypes
  <1>3. ASSUME NEW b \in BOOLEAN, Stop(b) PROVE Types'
    <2>1. NoKill \in Kills /\ NoSweep \in [why : {"none", "restart", "unknown-host", "host-unreachable"},
                                           rows : SUBSET Ids]
      BY DEF NoKill, NoSweep, Kills
    <2>2. MemoryTypes'
      BY <1>3, <2>1 DEF Stop, Forget, MemoryTypes, Phases
    <2>3. run' = run \/ run' = [x \in DOMAIN run |->
                       IF Alive(x[1], x[2]) /\ ~Ssh(x[1]) THEN "killed" ELSE run[x]]
      BY <1>3 DEF Stop
    <2>4. WorldTypes'
      BY <1>3, <2>3 DEF Stop, WorldTypes
    <2> QED
      BY <1>3, <2>2, <2>4 DEF Stop, db, TableTypes
  <1>4. ASSUME Start PROVE Types'
    BY <1>4 DEF Start, db, world, TableTypes, MemoryTypes, WorldTypes
  <1> QED
    BY <1>1, <1>2, <1>3, <1>4 DEF Environment

LEMMA NextTypes == Types /\ [Next]_vars => Types'
  <1> SUFFICES ASSUME Types, [Next]_vars PROVE Types'
    OBVIOUS
  <1> USE DEF Types
  <1>1. ASSUME NEW h \in Hosts, GateHolds(h) PROVE Types'
    <2>1. MemoryTypes'
      BY <1>1, BuildQueueAssumption DEF GateHolds, MemoryTypes
    <2> QED
      BY <1>1, <2>1 DEF GateHolds, db, world, TableTypes, WorldTypes
  <1>2. ASSUME NEW r \in Ids, GateDefers(r) PROVE Types'
    <2>1. MemoryTypes'
      BY <1>2 DEF GateDefers, MemoryTypes
    <2> QED
      BY <1>2, <2>1 DEF GateDefers, db, world, TableTypes, WorldTypes
  <1>3. ASSUME NEW r \in Ids, Claim(r) PROVE Types'
    <2>1. TableTypes'
      BY <1>3 DEF Claim, SetStatus, TableTypes, Statuses
    <2>2. MemoryTypes'
      BY <1>3 DEF Claim, MemoryTypes, Phases
    <2> QED
      BY <1>3, <2>1, <2>2 DEF Claim, world, WorldTypes
  <1>4. CASE UNCHANGED vars
    BY <1>4 DEF vars, db, memory, world, TableTypes, MemoryTypes, WorldTypes
  <1>5. CASE Next
    BY <1>1, <1>2, <1>3, <1>5, OperatorTypes, SweepsTypes, RunningTypes, EnvironmentTypes DEF Next
  <1> QED
    BY <1>4, <1>5

\* The attempts that the invariant of RetryBounded bounds are in range.
THEOREM Invariants == Spec => [](IInv /\ Types)
  <1>1. Init => IInv /\ Types
    BY InitOK, InitTypes
  <1>2. (IInv /\ Types) /\ [Next]_vars => (IInv /\ Types)'
    BY Inductive, NextTypes
  <1> QED
    BY <1>1, <1>2, PTL DEF Spec

\* The columns of the queue, the dispatcher's memory and the hosts' runs keep their
\* types; the attempts column stays within one of retry.max_attempts.
THEOREM Typing == Spec => []TypeOK
  <1>1. IInv /\ Types => TypeOK
    <2> SUFFICES ASSUME IInv, Types PROVE TypeOK
      OBVIOUS
    <2>1. attempts \in [Ids -> Attempts]
      <3>1. \A r \in Ids : attempts[r] \in Nat /\ attempts[r] <= MaxAttempts
        BY DEF IInv, Typed, Bounded
      <3>2. \A r \in Ids : attempts[r] \in Attempts
        BY <3>1, BuildQueueAssumption DEF Attempts
      <3> QED
        BY <3>2 DEF IInv, Typed
    <2>2. sweep.why \in {"none", "restart", "unknown-host", "host-unreachable"} /\ sweep.rows \subseteq Ids
      BY DEF Types, MemoryTypes
    <2> QED
      BY <2>1, <2>2 DEF Types, TableTypes, MemoryTypes, WorldTypes, TypeOK, Statuses, Phases, Kills
  <1> QED
    BY <1>1, Invariants, PTL

-----------------------------------------------------------------------------
(* Briefs and cancels                                                        *)

\* The insert of a row whose brief no row has, or that has none, keeps briefs apart.
LEMMA InsertBrief ==
  ASSUME Types, OneRowPerBrief, NEW r \in Ids, NEW h, NEW b, Insert(r, h, b),
         b = NoBrief \/ ~Known(b)
  PROVE  OneRowPerBrief'
  <1>1. brief' = [brief EXCEPT ![r] = b] /\ \A q \in Ids : brief'[q] = IF q = r THEN b ELSE brief[q]
    BY DEF Insert, Types, TableTypes
  <1> QED
    BY <1>1 DEF OneRowPerBrief, Known

LEMMA NextBrief == Types /\ OneRowPerBrief /\ [Next]_vars => OneRowPerBrief'
  <1> SUFFICES ASSUME Types, OneRowPerBrief, [Next]_vars PROVE OneRowPerBrief'
    OBVIOUS
  <1>1. ASSUME UNCHANGED brief PROVE OneRowPerBrief'
    BY <1>1 DEF OneRowPerBrief
  <1>2. CASE Operator
    <2>1. ASSUME NEW r \in Ids, NEW h \in HostNames, Enqueue(r, h)
          PROVE  OneRowPerBrief'
      BY <2>1, InsertBrief DEF Enqueue
    <2>2. ASSUME NEW q \in Ids, NEW r \in Ids, Requeue(q, r) PROVE OneRowPerBrief'
      BY <2>2, InsertBrief DEF Requeue
    <2>3. ASSUME NEW b \in Briefs, Ingest(b) PROVE OneRowPerBrief'
      BY <2>3, InsertBrief DEF Ingest, Fresh
    <2> QED
      BY <1>1, <1>2, <2>1, <2>2, <2>3 DEF Operator, Drop, MoveBrief, CliCancel, DirectCancel, db
  <1>3. CASE Sweeps
    BY <1>1, <1>3 DEF Sweeps, Recover, SweepUnknown, SweepUnreachable, FailRow, RecoverRow, db
  <1>4. CASE Environment
    BY <1>1, <1>4 DEF Environment, PidWritten, RunEnds, Stop, Start, db
  <1>5. ASSUME NEW r \in Ids, Running(r) PROVE OneRowPerBrief'
    BY <1>1, <1>5 DEF Running, Spawn, SetRef, LateSpawn, UploadFails, RunnerEnds, Judge, Finish,
                      PollCancel, TimeoutKill, KillReturns, db
  <1>6. CASE UNCHANGED vars
    BY <1>1, <1>6 DEF vars, db
  <1> QED
    BY <1>1, <1>2, <1>3, <1>4, <1>5, <1>6 DEF Next, GateHolds, GateDefers, Claim, db

\* No two rows carry the source_ref of one brief.
LEMMA OneRow == Spec => []OneRowPerBrief
  <1>1. Init => OneRowPerBrief
    BY DEF Init, OneRowPerBrief
  <1>2. (IInv /\ Types) /\ OneRowPerBrief /\ [Next]_vars => OneRowPerBrief'
    BY NextBrief
  <1> QED
    BY <1>1, <1>2, Invariants, PTL DEF Spec

\* What a step may make of a cancelled row.
Sticks(r) ==
    status[r] = "cancelled" =>
        /\ r \in Judged' => r \in Judged
        /\ \/ status'[r] = "cancelled"
           \/ status'[r] = "running" /\ killing[r].by # "none"
           \/ r \in sweep.rows \union Judged

\* A step that writes the status of one row, which was not cancelled, and reaches no
\* verdict.
LEMMA OtherRow ==
  ASSUME Types, NEW r \in Ids, NEW s, SetStatus(r, s), Judged' \subseteq Judged,
         \/ status[r] # "cancelled" \/ s = "cancelled" \/ r \in sweep.rows \union Judged
         \/ s = "running" /\ killing[r].by # "none"
  PROVE  \A q \in Ids : Sticks(q)
  <1>1. \A q \in Ids : status'[q] = IF q = r THEN s ELSE status[q]
    BY DEF SetStatus, Types, TableTypes
  <1> QED
    BY <1>1 DEF Sticks

LEMMA NextSticks == ASSUME Types, [Next]_vars PROVE \A q \in Ids : Sticks(q)
  <1>0. ASSUME task' = task PROVE Judged' \subseteq Judged
    BY <1>0 DEF Judged
  <1>1. ASSUME UNCHANGED status, Judged' \subseteq Judged PROVE \A q \in Ids : Sticks(q)
    BY <1>1 DEF Sticks
  <1>2. CASE Operator
    <2>1. ASSUME NEW r \in Ids, NEW h, NEW b, r \in Fresh, Insert(r, h, b), UNCHANGED memory
          PROVE  \A q \in Ids : Sticks(q)
      BY <1>0, <2>1, OtherRow DEF Insert, Fresh, memory
    <2>2. ASSUME NEW b \in Briefs, Ingest(b) PROVE \A q \in Ids : Sticks(q)
      BY <2>1, <2>2 DEF Ingest, Fresh
    <2>3. ASSUME NEW r \in Ids, CliCancel(r) PROVE \A q \in Ids : Sticks(q)
      BY <1>0, <2>3, OtherRow DEF CliCancel, memory
    <2>4. ASSUME NEW r \in Ids, NEW h \in HostNames, Enqueue(r, h)
          PROVE  \A q \in Ids : Sticks(q)
      BY <2>1, <2>4 DEF Enqueue
    <2>5. ASSUME NEW p \in Ids, NEW r \in Ids, Requeue(p, r) PROVE \A q \in Ids : Sticks(q)
      BY <2>1, <2>5 DEF Requeue
    <2> QED
      BY <1>0, <1>1, <1>2, <2>2, <2>3, <2>4, <2>5
      DEF Operator, Drop, MoveBrief, DirectCancel, db, memory
  <1>3. CASE Sweeps
    <2>1. ASSUME NEW r \in Ids, FailRow(r) PROVE \A q \in Ids : Sticks(q)
      BY <1>0, <2>1, OtherRow DEF FailRow
    <2>2. ASSUME NEW r \in Ids, NEW w \in Words, RecoverRow(r, w) PROVE \A q \in Ids : Sticks(q)
      BY <1>0, <2>2, OtherRow DEF RecoverRow
    <2> QED
      BY <1>0, <1>1, <1>3, <2>1, <2>2 DEF Sweeps, Recover, SweepUnknown, SweepUnreachable, db
  <1>4. CASE Environment
    <2>1. ASSUME NEW b \in BOOLEAN, Stop(b) PROVE UNCHANGED status /\ Judged' = {}
      BY <2>1 DEF Stop, Forget, Judged, db
    <2> QED
      BY <1>0, <1>1, <1>4, <2>1 DEF Environment, PidWritten, RunEnds, Start, db, memory
  <1>5. ASSUME NEW r \in Ids, Running(r) PROVE \A q \in Ids : Sticks(q)
    <2>0. ASSUME NEW t \in Phases \ {"passes", "fails"}, task' = [task EXCEPT ![r] = t]
          PROVE  Judged' \subseteq Judged
      BY <2>0 DEF Judged, Types, MemoryTypes
    <2>1. CASE UploadFails(r)
      BY <1>1, <2>0, <2>1, OtherRow DEF UploadFails, Phases
    <2>2. CASE Judge(r)
      <3>1. \A q \in Ids : q \in Judged' => q \in Judged \/ (q = r /\ status[r] = "running")
        BY <2>2 DEF Judge, Judged, Owned, Outcome, Types, MemoryTypes
      <3> QED
        BY <2>2, <3>1 DEF Judge, Sticks, db
    <2>3. CASE Finish(r)
      BY <2>0, <2>3, OtherRow DEF Finish, Phases
    <2>4. ASSUME NEW w \in Words, KillReturns(r, w) PROVE \A q \in Ids : Sticks(q)
      BY <1>0, <1>1, <2>4, OtherRow DEF KillReturns
    <2>5. CASE Spawn(r) \/ SetRef(r)
      BY <1>1, <2>0, <2>5 DEF Spawn, SetRef, Phases, db
    <2>6. CASE LateSpawn(r)
      <3>1. PICK t \in {"timing", "timeout"} : task' = [task EXCEPT ![r] = t]
        BY <2>6 DEF LateSpawn, Types, MemoryTypes
      <3> QED
        BY <1>1, <2>0, <2>6, <3>1 DEF LateSpawn, Phases
    <2>7. CASE RunnerEnds(r)
      <3>1. PICK t \in {"error", "over", "lost", "timing", "late"} : task' = [task EXCEPT ![r] = t]
        BY <2>7 DEF RunnerEnds, StartFails, Returns, ConnectionLost, TimesOut
      <3> QED
        BY <1>1, <2>0, <2>7, <3>1 DEF RunnerEnds, Phases, db
    <2>8. ASSUME NEW w \in Words, TimeoutKill(r, w) PROVE \A q \in Ids : Sticks(q)
      <3>1. PICK t \in {"timeout", "unborn"} : task' = [task EXCEPT ![r] = t]
        BY <2>8 DEF TimeoutKill, TimeoutOutcome
      <3> QED
        BY <1>1, <2>0, <2>8, <3>1 DEF TimeoutKill, Phases, db
    <2>9. CASE PollCancel(r)
      BY <1>0, <1>1, <2>9 DEF PollCancel, db
    <2> QED
      BY <1>5, <2>1, <2>2, <2>3, <2>4, <2>5, <2>6, <2>7, <2>8, <2>9 DEF Running
  <1>6. ASSUME NEW r \in Ids, Claim(r) PROVE \A q \in Ids : Sticks(q)
    <2>1. Judged' \subseteq Judged
      BY <1>6 DEF Claim, Judged, Types, MemoryTypes
    <2> QED
      BY <1>6, <2>1, OtherRow DEF Claim
  <1>7. CASE UNCHANGED vars
    BY <1>0, <1>1, <1>7 DEF vars, db, memory
  <1> QED
    BY <1>0, <1>1, <1>2, <1>3, <1>4, <1>5, <1>6, <1>7 DEF Next, GateHolds, GateDefers, db

\* No verdict is reached on a cancelled row, and the row stays cancelled: only a failed
\* kill, a sweep that had read the row before and a verdict reached just before the
\* cancel write over it.
THEOREM Cancels == Spec => CancelSticks
  <1>1. Types /\ [Next]_vars =>
          [\A r \in Ids : status[r] = "cancelled" =>
              /\ r \in Judged' => r \in Judged
              /\ \/ status'[r] = "cancelled"
                 \/ status'[r] = "running" /\ killing[r].by # "none"
                 \/ r \in sweep.rows \union Judged]_vars
    BY NextSticks DEF Sticks
  <1> QED
    BY <1>1, Invariants, PTL DEF Spec, CancelSticks

-----------------------------------------------------------------------------
(* Tasks, statuses and sweeps.  Nothing is assumed about cancels: what they   *)
(* may disturb is confined to the rows somebody asked to cancel.              *)

\* A cancel and a kill of one come from somebody who asked.
Asked(r) == status[r] = "cancelled" \/ killing[r].by # "none" => r \in asked

\* A task works on a claimed row, on its host, after the recovery.
TaskHost(r) ==
    task[r] # "none" =>
        recovered /\ host[r] \in Hosts /\ execHost[r] = host[r] /\ status[r] \notin {"none", "queued"}

\* A sweep reads rows that have no task, after the start of the recovery.
SweptIdle(r) == r \in sweep.rows => recovered /\ task[r] = "none"

\* Of a row nobody asked to cancel, task and status agree: a task works on a running
\* row, a sweep handles what it read, and a running row has a task or waits for the
\* recovery to handle it.
Agree(r) ==
    r \notin asked =>
        /\ task[r] # "none" => status[r] = "running"
        /\ r \in sweep.rows => status[r] = IF sweep.why = "restart" THEN "running" ELSE "queued"
        /\ recovered /\ status[r] = "running" =>
              task[r] # "none" \/ (sweep.why = "restart" /\ r \in sweep.rows)

CalmRow(r) == Asked(r) /\ TaskHost(r) /\ SweptIdle(r) /\ Agree(r)
Calm == asked \subseteq Ids /\ \A r \in Ids : CalmRow(r)

\* A row that a step leaves alone.
LEMMA CalmQuiet ==
  ASSUME NEW r \in Ids, CalmRow(r), asked \subseteq asked', recovered' = recovered,
         status'[r] = status[r], task'[r] = task[r], host'[r] = host[r], execHost'[r] = execHost[r],
         killing'[r].by = killing[r].by, sweep'.why = sweep.why,
         r \in sweep'.rows <=> r \in sweep.rows
  PROVE  CalmRow(r)'
  BY DEF CalmRow, Asked, TaskHost, SweptIdle, Agree

\* A step that writes one row's status, task or kill, and leaves the sweep alone but for
\* that row.
LEMMA CalmStep ==
  ASSUME Calm, NEW r \in Ids, CalmRow(r)', asked' = asked \/ asked' = asked \union {r},
         recovered' = recovered, sweep'.why = sweep.why,
         \A q \in Ids : q # r =>
            /\ status'[q] = status[q] /\ task'[q] = task[q] /\ host'[q] = host[q]
            /\ execHost'[q] = execHost[q] /\ killing'[q].by = killing[q].by
            /\ q \in sweep'.rows <=> q \in sweep.rows
  PROVE  Calm'
  BY CalmQuiet DEF Calm

\* The row that a sweep handles leaves it.
LEMMA HandledCalm ==
  ASSUME Types, Calm, NEW r \in sweep.rows, NEW s \in {"queued", "failed"}, SetStatus(r, s),
         sweep' = [sweep EXCEPT !.rows = @ \ {r}],
         UNCHANGED <<recovered, task, killing, host, execHost, asked>>
  PROVE  Calm'
  <1>1. /\ r \in Ids /\ sweep'.rows = sweep.rows \ {r} /\ sweep'.why = sweep.why
        /\ \A q \in Ids : status'[q] = IF q = r THEN s ELSE status[q]
    BY DEF SetStatus, Types, TableTypes, MemoryTypes
  <1>2. CalmRow(r)
    BY <1>1 DEF Calm
  <1>3. CalmRow(r)'
    BY <1>1, <1>2 DEF CalmRow, Asked, TaskHost, SweptIdle, Agree
  <1> QED
    BY <1>1, <1>3, CalmStep

\* A row that is running gets a task; there is no sweep.
LEMMA ClaimCalm == ASSUME Types, Calm, NEW r \in Ids, Claim(r) PROVE Calm'
  <1>1. /\ \A q \in Ids : status'[q] = IF q = r THEN "running" ELSE status[q]
        /\ \A q \in Ids : task'[q] = IF q = r THEN "starting" ELSE task[q]
        /\ \A q \in Ids : execHost'[q] = IF q = r THEN host[r] ELSE execHost[q]
        /\ UNCHANGED <<recovered, sweep, killing, host, asked>>
        /\ recovered /\ sweep.rows = {} /\ host[r] \in Hosts
    BY DEF Claim, Free, SetStatus, Types, TableTypes, MemoryTypes, history
  <1>2. CalmRow(r)
    BY DEF Calm
  <1>3. CalmRow(r)'
    BY <1>1, <1>2 DEF CalmRow, Asked, TaskHost, SweptIdle, Agree
  <1> QED
    BY <1>1, <1>3, CalmStep

\* The sweeps read what they are about to handle.
LEMMA SweepCalm ==
  ASSUME Types, Calm, NEW why, NEW R \in SUBSET Ids, sweep' = [why |-> why, rows |-> R],
         UNCHANGED <<status, task, killing, host, execHost, asked>>, recovered', sweep.rows = {},
         \A r \in Ids : task[r] # "none" => recovered,
         \A r \in R : task[r] = "none" /\ status[r] = IF why = "restart" THEN "running" ELSE "queued",
         \A r \in Ids \ asked : status[r] = "running" => task[r] # "none" \/ (why = "restart" /\ r \in R)
  PROVE  Calm'
  <1>1. sweep'.why = why /\ sweep'.rows = R
    OBVIOUS
  <1>2. ASSUME NEW r \in Ids PROVE CalmRow(r)'
    <2>1. CalmRow(r)
      BY DEF Calm
    <2> QED
      BY <1>1, <2>1 DEF CalmRow, Asked, TaskHost, SweptIdle, Agree
  <1> QED
    BY <1>2 DEF Calm

LEMMA SweepsCalm == ASSUME Types, Calm, Sweeps PROVE Calm'
  <1>0. \A r \in Ids : CalmRow(r)
    BY DEF Calm
  <1>1. CASE Recover
    <2>1. \A r \in Ids : task[r] = "none" /\ r \notin sweep.rows
      BY <1>0, <1>1 DEF Recover, CalmRow, TaskHost, SweptIdle
    <2>2. sweep.rows = {}
      BY <2>1 DEF Types, MemoryTypes
    <2> QED
      BY <1>1, <2>1, <2>2, SweepCalm DEF Recover, Recoverable, In, db, history
  <1>2. ASSUME Free
        PROVE  /\ sweep.rows = {} /\ \A r \in Ids : status[r] = "queued" => task[r] = "none"
               /\ \A r \in Ids \ asked : status[r] = "running" => task[r] # "none"
               /\ \A r \in Ids : task[r] # "none" => recovered
    BY <1>0, <1>2 DEF Free, CalmRow, TaskHost, Agree
  <1>3. CASE SweepUnknown
    BY <1>2, <1>3, SweepCalm DEF SweepUnknown, Free, In, db, history
  <1>4. ASSUME NEW h \in Hosts, SweepUnreachable(h) PROVE Calm'
    BY <1>2, <1>4, SweepCalm DEF SweepUnreachable, Free, Candidates, In, db, history
  <1>5. ASSUME NEW r \in Ids, FailRow(r) PROVE Calm'
    BY <1>5, HandledCalm DEF FailRow, history
  <1>6. ASSUME NEW r \in Ids, NEW w \in Words, RecoverRow(r, w) PROVE Calm'
    BY <1>6, HandledCalm DEF RecoverRow, history
  <1> QED
    BY <1>1, <1>3, <1>4, <1>5, <1>6 DEF Sweeps

\* Operators insert rows, drop briefs and ask for cancels.
LEMMA OperatorCalm == ASSUME Types, Calm, Operator PROVE Calm'
  <1>0. ASSUME UNCHANGED <<status, host, execHost, recovered, sweep, killing, task, asked>> PROVE Calm'
    BY <1>0, CalmQuiet DEF Calm
  <1>1. ASSUME NEW r \in Fresh, NEW h, NEW b, Insert(r, h, b), UNCHANGED <<memory, asked>>
        PROVE  Calm'
    <2>1. r \in Ids /\ status[r] = "none" /\ UNCHANGED <<recovered, sweep, task, killing, execHost, asked>>
      BY <1>1 DEF Fresh, Insert, memory
    <2>2. CalmRow(r)
      BY <2>1 DEF Calm
    <2>3. /\ \A q \in Ids : status'[q] = IF q = r THEN "queued" ELSE status[q]
          /\ \A q \in Ids : q # r => host'[q] = host[q]
      BY <1>1, <2>1 DEF Insert, SetStatus, Types, TableTypes
    <2>4. CalmRow(r)'
      BY <2>1, <2>2, <2>3 DEF CalmRow, Asked, TaskHost, SweptIdle, Agree
    <2> QED
      BY <2>1, <2>3, <2>4, CalmStep
  <1>2. ASSUME NEW b \in Briefs, Drop(b) \/ MoveBrief(b) PROVE Calm'
    BY <1>0, <1>2 DEF Drop, MoveBrief, db, memory, history
  <1>3. ASSUME NEW r \in Ids, CliCancel(r) PROVE Calm'
    <2>1. /\ \A q \in Ids : status'[q] = IF q = r THEN "cancelled" ELSE status[q]
          /\ asked' = asked \union {r} /\ UNCHANGED <<recovered, sweep, task, killing, execHost, host>>
      BY <1>3 DEF CliCancel, SetStatus, memory, Types, TableTypes
    <2>2. CalmRow(r)
      BY DEF Calm
    <2>3. CalmRow(r)'
      BY <2>1, <2>2 DEF CalmRow, Asked, TaskHost, SweptIdle, Agree
    <2> QED
      BY <2>1, <2>3, CalmStep
  <1>4. ASSUME NEW r \in Ids, DirectCancel(r) PROVE Calm'
    <2>1. PICK k : killing' = [killing EXCEPT ![r] = k]
      BY <1>4 DEF DirectCancel, Killing
    <2>2. /\ asked' = asked \union {r} /\ UNCHANGED <<status, recovered, sweep, task, execHost, host>>
          /\ \A q \in Ids : q # r => killing'[q] = killing[q]
      BY <1>4, <2>1 DEF DirectCancel, db, Types, MemoryTypes
    <2>3. CalmRow(r)
      BY DEF Calm
    <2>4. CalmRow(r)'
      BY <2>2, <2>3 DEF CalmRow, Asked, TaskHost, SweptIdle, Agree
    <2> QED
      BY <2>2, <2>4, CalmStep
  <1>5. ASSUME NEW r \in Ids, NEW h \in HostNames, Enqueue(r, h) PROVE Calm'
    BY <1>1, <1>5 DEF Enqueue, history
  <1>6. ASSUME NEW q \in Ids, NEW r \in Ids, Requeue(q, r) PROVE Calm'
    BY <1>1, <1>6 DEF Requeue, history
  <1>7. ASSUME NEW b \in Briefs, Ingest(b) PROVE Calm'
    BY <1>1, <1>7 DEF Ingest, history
  <1> QED
    BY <1>2, <1>3, <1>4, <1>5, <1>6, <1>7 DEF Operator

\* The steps of a row's task.
LEMMA RunningCalm == ASSUME Types, Calm, NEW r \in Ids, Running(r) PROVE Calm'
  <1>0. CalmRow(r) /\ task \in [Ids -> Phases] /\ status \in [Ids -> Statuses]
    BY DEF Types, TableTypes, MemoryTypes, Calm
  <1>1. ASSUME NEW t \in Phases \ {"none"}, task[r] # "none", task' = [task EXCEPT ![r] = t],
               UNCHANGED <<status, host, execHost, recovered, sweep, killing, asked>>
        PROVE  Calm'
    <2>1. \A q \in Ids : task'[q] = IF q = r THEN t ELSE task[q]
      BY <1>0, <1>1
    <2>2. CalmRow(r)'
      BY <1>0, <1>1, <2>1 DEF CalmRow, Asked, TaskHost, SweptIdle, Agree
    <2> QED
      BY <1>1, <2>1, <2>2, CalmStep
  <1>2. CASE Spawn(r)
    BY <1>1, <1>2 DEF Spawn, db, Phases
  <1>3. CASE SetRef(r)
    BY <1>1, <1>3 DEF SetRef, Phases
  <1>4. CASE RunnerEnds(r)
    <2>1. PICK t \in {"error", "over", "lost", "timing", "late"} :
            task[r] # "none" /\ task' = [task EXCEPT ![r] = t]
      BY <1>4 DEF RunnerEnds, StartFails, Returns, ConnectionLost, TimesOut
    <2> QED
      BY <1>1, <1>4, <2>1 DEF RunnerEnds, db, history, Phases
  <1>5. ASSUME NEW w \in Words, TimeoutKill(r, w) PROVE Calm'
    <2>1. PICK t \in {"timeout", "unborn"} : task[r] # "none" /\ task' = [task EXCEPT ![r] = t]
      BY <1>5 DEF TimeoutKill, TimeoutOutcome
    <2> QED
      BY <1>1, <1>5, <2>1 DEF TimeoutKill, db, history, Phases
  <1>6. CASE LateSpawn(r)
    <2>1. PICK t \in {"timing", "timeout"} : task[r] # "none" /\ task' = [task EXCEPT ![r] = t]
      BY <1>0, <1>6 DEF LateSpawn
    <2> QED
      BY <1>1, <1>6, <2>1 DEF LateSpawn, Phases
  <1>7. CASE UploadFails(r)
    <2>1. /\ task'[r] = "none" /\ task[r] # "none"
          /\ \A q \in Ids : q # r => /\ task'[q] = task[q] /\ status'[q] = status[q]
                                     /\ execHost'[q] = execHost[q]
          /\ \/ status'[r] = status[r] /\ status[r] # "running"
             \/ status'[r] = "queued"
          /\ UNCHANGED <<recovered, sweep, killing, host, asked>>
      BY <1>0, <1>7 DEF UploadFails, SetStatus, Types, TableTypes
    <2>2. CalmRow(r)'
      BY <1>0, <2>1 DEF CalmRow, Asked, TaskHost, SweptIdle, Agree
    <2> QED
      BY <2>1, <2>2, CalmStep
  <1>8. CASE Judge(r)
    <2>1. PICK t \in {"none", "passes", "fails"} :
            /\ task' = [task EXCEPT ![r] = t] /\ task[r] # "none"
            /\ status[r] = "running" => t # "none"
      BY <1>8 DEF Judge, Outcome, Owned
    <2>2. /\ \A q \in Ids : task'[q] = IF q = r THEN t ELSE task[q]
          /\ UNCHANGED <<status, host, execHost, recovered, sweep, killing, asked>>
      BY <1>0, <1>8, <2>1 DEF Judge, db, history
    <2>3. CalmRow(r)'
      BY <1>0, <2>1, <2>2 DEF CalmRow, Asked, TaskHost, SweptIdle, Agree
    <2> QED
      BY <2>2, <2>3, CalmStep
  <1>9. CASE Finish(r)
    <2>1. task[r] # "none" /\ SetStatus(r, Verdict(r)) /\ Verdict(r) \in {"done", "failed"}
      BY <1>9 DEF Finish, Judged, Verdict
    <2>2. /\ \A q \in Ids : task'[q] = IF q = r THEN "none" ELSE task[q]
          /\ \A q \in Ids : status'[q] = IF q = r THEN Verdict(r) ELSE status[q]
          /\ UNCHANGED <<host, execHost, recovered, sweep, killing, asked>>
      BY <1>0, <1>9, <2>1 DEF Finish, SetStatus, history
    <2>3. CalmRow(r)'
      BY <1>0, <2>1, <2>2 DEF CalmRow, Asked, TaskHost, SweptIdle, Agree
    <2> QED
      BY <2>2, <2>3, CalmStep
  <1>10. CASE PollCancel(r)
    <2>1. PICK k : killing' = [killing EXCEPT ![r] = k]
      BY <1>10 DEF PollCancel, Killing
    <2>2. /\ status[r] = "cancelled"
          /\ UNCHANGED <<status, recovered, sweep, task, execHost, host, asked>>
          /\ \A q \in Ids : q # r => killing'[q] = killing[q]
      BY <1>10, <2>1 DEF PollCancel, db, history, Types, MemoryTypes
    <2>3. CalmRow(r)'
      BY <1>0, <2>2 DEF CalmRow, Asked, TaskHost, SweptIdle, Agree
    <2> QED
      BY <2>2, <2>3, CalmStep
  <1>11. ASSUME NEW w \in Words, KillReturns(r, w) PROVE Calm'
    <2>1. /\ UNCHANGED status \/ SetStatus(r, "running") \/ SetStatus(r, "cancelled")
          /\ UNCHANGED <<recovered, sweep, task, execHost, host, asked>>
          /\ killing[r].by # "none"
      BY <1>11 DEF KillReturns
    <2>2. /\ \A q \in Ids : q # r => killing'[q] = killing[q] /\ status'[q] = status[q]
          /\ status'[r] = status[r] \/ status'[r] \in {"running", "cancelled"}
      BY <1>0, <1>11, <2>1 DEF KillReturns, SetStatus, Types, MemoryTypes
    <2>3. r \in asked
      BY <1>0, <2>1 DEF CalmRow, Asked
    <2>4. CalmRow(r)'
      BY <1>0, <2>1, <2>2, <2>3 DEF CalmRow, Asked, TaskHost, SweptIdle, Agree
    <2> QED
      BY <2>1, <2>2, <2>4, CalmStep
  <1> QED
    BY <1>2, <1>3, <1>4, <1>5, <1>6, <1>7, <1>8, <1>9, <1>10, <1>11 DEF Running

LEMMA EnvironmentCalm == ASSUME Types, Calm, Environment PROVE Calm'
  <1>0. ASSUME UNCHANGED <<status, host, execHost, recovered, sweep, killing, task, asked>> PROVE Calm'
    BY <1>0, CalmQuiet DEF Calm
  <1>1. ASSUME NEW r \in Ids, PidWritten(r) \/ \E a \in Attempts : RunEnds(r, a) PROVE Calm'
    BY <1>0, <1>1 DEF PidWritten, RunEnds, db, memory, history
  <1>2. CASE Start
    BY <1>0, <1>2 DEF Start, db, history
  <1>3. ASSUME NEW b \in BOOLEAN, Stop(b) PROVE Calm'
    <2>1. /\ recovered' = FALSE /\ sweep'.rows = {} /\ \A q \in Ids : task'[q] = "none"
          /\ \A q \in Ids : killing'[q].by = "none" /\ UNCHANGED <<status, asked>>
      BY <1>3 DEF Stop, Forget, NoSweep, NoKill, db
    <2>2. ASSUME NEW q \in Ids PROVE CalmRow(q)'
      BY <2>1 DEF Calm, CalmRow, Asked, TaskHost, SweptIdle, Agree
    <2>3. asked \subseteq Ids /\ asked' = asked
      BY <1>3 DEF Stop, Calm
    <2> QED
      BY <2>2, <2>3 DEF Calm
  <1> QED
    BY <1>1, <1>2, <1>3 DEF Environment

LEMMA NextCalm == ASSUME Types, Calm, [Next]_vars PROVE Calm'
  <1>1. ASSUME UNCHANGED <<status, host, execHost, recovered, sweep, killing, task, asked>> PROVE Calm'
    BY <1>1, CalmQuiet DEF Calm
  <1>2. ASSUME NEW h \in Hosts, GateHolds(h) PROVE Calm'
    BY <1>1, <1>2 DEF GateHolds, db
  <1>3. ASSUME NEW r \in Ids, GateDefers(r) PROVE Calm'
    BY <1>1, <1>3 DEF GateDefers, db, history
  <1>4. CASE UNCHANGED vars
    BY <1>1, <1>4 DEF vars, db, memory, history
  <1> QED
    BY <1>2, <1>3, <1>4, OperatorCalm, SweepsCalm, EnvironmentCalm, ClaimCalm, RunningCalm DEF Next

\* Tasks, statuses and sweeps agree in every reachable state.
THEOREM CalmHolds == Spec => []Calm
  <1>1. Init => Calm
    BY DEF Init, NoKill, NoSweep, Calm, CalmRow, Asked, TaskHost, SweptIdle, Agree
  <1>2. (IInv /\ Types) /\ Calm /\ [Next]_vars => Calm'
    BY NextCalm
  <1> QED
    BY <1>1, <1>2, Invariants, PTL DEF Spec

\* Every running row that nobody asked to cancel has a task once the recovery is
\* through: a verdict, a timeout and a later cancel can reach it.
THEOREM Tending == Spec => []RunningHasTask
  <1>1. Calm => RunningHasTask
    BY DEF Calm, CalmRow, Agree, RunningHasTask, In
  <1> QED
    BY <1>1, CalmHolds, PTL


-----------------------------------------------------------------------------
(* Slots.                                                                    *)

\* The rows that free_slots counts, but for those somebody asked to cancel.
Occupied(h) == {r \in Ids \ asked : status[r] = "running" /\ execHost[r] = h}
SlotsHeld == \A h \in Hosts : Cardinality(Occupied(h)) <= Concurrency[h]

LEMMA IdsFinite == IsFiniteSet(Ids)
  BY BuildQueueAssumption, FS_Interval DEF Ids

LEMMA OccupiedFinite == \A h : IsFiniteSet(Occupied(h)) /\ Cardinality(Occupied(h)) \in Nat
  <1>1. \A h : Occupied(h) \subseteq Ids
    BY DEF Occupied
  <1> QED
    BY <1>1, IdsFinite, FS_Subset, FS_CardinalityType

\* A step that makes no row running, and moves none to another host, takes no slot.
LEMMA QuietSlots ==
  ASSUME SlotsHeld, asked \subseteq asked',
         \A r \in Ids \ asked' : status'[r] = "running" =>
            status[r] = "running" /\ execHost'[r] = execHost[r]
  PROVE  SlotsHeld'
  <1> SUFFICES ASSUME NEW h \in Hosts PROVE Cardinality(Occupied(h)') <= Concurrency[h]
    BY DEF SlotsHeld
  <1>1. Occupied(h)' \subseteq Occupied(h)
    BY DEF Occupied
  <1>2. Cardinality(Occupied(h)') <= Cardinality(Occupied(h)) /\ Cardinality(Occupied(h)') \in Nat
    BY <1>1, OccupiedFinite, FS_Subset, FS_CardinalityType
  <1> QED
    BY <1>2, OccupiedFinite, BuildQueueAssumption DEF SlotsHeld

\* The gate's free slot is the one that the claim takes.
LEMMA ClaimSlots == ASSUME Types, SlotsHeld, NEW r \in Ids, Claim(r) PROVE SlotsHeld'
  <1> SUFFICES ASSUME NEW h \in Hosts PROVE Cardinality(Occupied(h)') <= Concurrency[h]
    BY DEF SlotsHeld
  <1>1. /\ \A q \in Ids : status'[q] = IF q = r THEN "running" ELSE status[q]
        /\ \A q \in Ids : execHost'[q] = IF q = r THEN host[r] ELSE execHost[q]
        /\ status[r] = "queued" /\ FreeSlots(host[r]) /\ asked' = asked
    BY DEF Claim, SetStatus, history, Types, TableTypes
  <1>2. Concurrency[h] \in Nat
    BY BuildQueueAssumption
  <1>3. CASE host[r] = h /\ r \notin asked
    <2>1. Occupied(h)' = Occupied(h) \union {r} /\ r \notin Occupied(h)
      BY <1>1, <1>3 DEF Occupied
    <2>2. Cardinality(Occupied(h)') = Cardinality(Occupied(h)) + 1
      BY <2>1, OccupiedFinite, FS_AddElement
    <2> DEFINE R == {q \in In("running") : execHost[q] = h}
    <2>3. Occupied(h) \subseteq R /\ R \subseteq Ids
      BY DEF In, Occupied
    <2>4. Cardinality(Occupied(h)) <= Cardinality(R) /\ Cardinality(R) \in Nat
      BY <2>3, IdsFinite, FS_Subset, FS_CardinalityType
    <2>5. Concurrency[h] > Cardinality(R)
      BY <1>1, <1>3 DEF FreeSlots
    <2> HIDE DEF R
    <2> QED
      BY <1>2, <2>2, <2>4, <2>5, OccupiedFinite
  <1>4. CASE ~(host[r] = h /\ r \notin asked)
    <2>1. Occupied(h)' = Occupied(h)
      BY <1>1, <1>4 DEF Occupied
    <2> QED
      BY <2>1 DEF SlotsHeld
  <1> QED
    BY <1>3, <1>4

\* No other step makes a row running that nobody asked to cancel.
LEMMA NextSlots == ASSUME Types, Calm, SlotsHeld, [Next]_vars PROVE SlotsHeld'
  <1>0. status \in [Ids -> Statuses] /\ execHost \in [Ids -> Hosts \union {NoHost}]
    BY DEF Types, TableTypes
  <1>1. ASSUME UNCHANGED <<status, execHost>>, asked \subseteq asked' PROVE SlotsHeld'
    BY <1>1, QuietSlots
  <1>2. ASSUME NEW r \in Ids, NEW s \in {"queued"} \union Ended, SetStatus(r, s), asked \subseteq asked',
               \A q \in Ids : q # r => execHost'[q] = execHost[q]
        PROVE  SlotsHeld'
    <2>1. \A q \in Ids : status'[q] = "running" => status[q] = "running" /\ q # r
      BY <1>0, <1>2 DEF SetStatus, Ended
    <2> QED
      BY <1>2, <2>1, QuietSlots
  <1>3. CASE Operator
    <2>1. ASSUME NEW r \in Fresh, NEW h, NEW b, Insert(r, h, b), asked' = asked PROVE SlotsHeld'
      BY <1>2, <2>1 DEF Insert, Fresh
    <2>2. ASSUME NEW r \in Ids, CliCancel(r) PROVE SlotsHeld'
      BY <1>2, <2>2 DEF CliCancel, Ended
    <2>3. ASSUME NEW b \in Briefs, Drop(b) \/ MoveBrief(b) PROVE SlotsHeld'
      BY <1>1, <2>3 DEF Drop, MoveBrief, db, history
    <2>4. ASSUME NEW r \in Ids, DirectCancel(r) PROVE SlotsHeld'
      BY <1>1, <2>4 DEF DirectCancel, db
    <2> QED
      BY <1>3, <2>1, <2>2, <2>3, <2>4 DEF Operator, Enqueue, Requeue, Ingest, history
  <1>4. CASE Sweeps
    <2>1. ASSUME NEW r \in Ids, FailRow(r) PROVE SlotsHeld'
      BY <1>2, <2>1 DEF FailRow, history, Ended
    <2>2. ASSUME NEW r \in Ids, NEW w \in Words, RecoverRow(r, w) PROVE SlotsHeld'
      BY <1>2, <2>2 DEF RecoverRow, history, Ended
    <2> QED
      BY <1>1, <1>4, <2>1, <2>2 DEF Sweeps, Recover, SweepUnknown, SweepUnreachable, db, history
  <1>5. CASE Environment
    BY <1>1, <1>5 DEF Environment, PidWritten, RunEnds, Stop, Start, db, history
  <1>6. ASSUME NEW r \in Ids, Running(r) PROVE SlotsHeld'
    <2>1. ASSUME NEW w \in Words, KillReturns(r, w) PROVE SlotsHeld'
      <3>1. r \in asked /\ UNCHANGED <<asked, execHost>>
        BY <2>1 DEF KillReturns, Calm, CalmRow, Asked
      <3>2. UNCHANGED status \/ SetStatus(r, "running") \/ SetStatus(r, "cancelled")
        BY <2>1 DEF KillReturns
      <3>3. \A q \in Ids : q # r => status'[q] = status[q]
        BY <1>0, <3>2 DEF SetStatus
      <3> QED
        BY <3>1, <3>3, QuietSlots
    <2>2. ASSUME UploadFails(r), status[r] = "running" PROVE SlotsHeld'
      BY <1>0, <1>2, <2>2 DEF UploadFails
    <2>3. CASE Finish(r)
      BY <1>2, <2>3 DEF Finish, Verdict, history, Ended
    <2>4. CASE UploadFails(r)
      BY <1>1, <2>2, <2>4 DEF UploadFails
    <2>5. CASE Spawn(r) \/ SetRef(r) \/ LateSpawn(r) \/ RunnerEnds(r) \/ Judge(r) \/ PollCancel(r)
               \/ \E w \in Words : TimeoutKill(r, w)
      BY <1>1, <2>5 DEF Spawn, SetRef, LateSpawn, RunnerEnds, Judge, PollCancel, TimeoutKill, db, history
    <2> QED
      BY <1>6, <2>1, <2>3, <2>4, <2>5 DEF Running
  <1>7. CASE UNCHANGED vars
    BY <1>1, <1>7 DEF vars, db, history
  <1> QED
    BY <1>1, <1>3, <1>4, <1>5, <1>6, <1>7, ClaimSlots DEF Next, GateHolds, GateDefers, db, history

THEOREM SlotsHeldHolds == Spec => []SlotsHeld
  <1>1. Init => SlotsHeld
    <2> SUFFICES ASSUME Init, NEW h \in Hosts PROVE Cardinality(Occupied(h)) <= Concurrency[h]
      BY DEF SlotsHeld
    <2>1. Occupied(h) = {}
      BY DEF Init, Occupied
    <2> QED
      BY <2>1, FS_EmptySet, BuildQueueAssumption
  <1>2. (IInv /\ Types) /\ Calm /\ SlotsHeld /\ [Next]_vars => SlotsHeld'
    BY NextSlots
  <1> QED
    BY <1>1, <1>2, Invariants, CalmHolds, PTL DEF Spec

-----------------------------------------------------------------------------
(* Recorded runs of local rows, where kills work.                            *)

Reached(r) == {a \in Attempts : <<r, a>> \in recorded /\ Alive(r, a)}
Local(r) == host[r] \notin SshHosts \union Unkillable
Unrecorded == {"starting", "spawned", "late", "unborn"}

\* Only attempts that a claim has counted are recorded, the one being started is not
\* yet, and only an ssh host starts one late.
RecordedBelow(r) ==
    /\ \A a \in Attempts :
          <<r, a>> \in recorded =>
             /\ status[r] # "none" /\ a <= attempts[r]
             /\ task[r] \in Unrecorded => a < attempts[r]
    /\ task[r] \in {"late", "unborn"} => execHost[r] \in SshHosts

\* The row's pid leads to its run, for a task that waits or for the recovery.
Tied(r) ==
    /\ ref[r] /\ execHost[r] = host[r] /\ status[r] \notin {"none", "queued"}
    /\ r \notin asked => status[r] = "running" /\ task[r] \in {"none", "waiting", "timing"}

\* The one recorded run of a local row that may be alive is its current attempt's.
LocalRun(r) == Local(r) => \A a \in Reached(r) : a = attempts[r] /\ Tied(r)

RowRuns(r) == RecordedBelow(r) /\ LocalRun(r)
RunInv == recorded \subseteq Ids \X Attempts /\ \A r \in Ids : RowRuns(r)

\* A row whose run is not a new one: its task and its status may go on, as long as a
\* run that is alive stays tied to it.
LEMMA RowKept ==
  ASSUME NEW r \in Ids, RowRuns(r), host'[r] = host[r], attempts'[r] = attempts[r],
         \A a \in Attempts : Alive(r, a)' => Alive(r, a),
         \A a \in Attempts : <<r, a>> \in recorded' <=> <<r, a>> \in recorded,
         status'[r] = "none" => status[r] = "none",
         task'[r] \in Unrecorded => task[r] \in Unrecorded,
         task'[r] \in {"late", "unborn"} => execHost'[r] \in SshHosts,
         Local(r) /\ Reached(r)' # {} /\ Tied(r) => Tied(r)'
  PROVE  RowRuns(r)'
  <1>1. RecordedBelow(r)'
    BY DEF RowRuns, RecordedBelow
  <1>2. Reached(r)' \subseteq Reached(r) /\ Local(r)' = Local(r)
    BY DEF Reached, Local
  <1>3. LocalRun(r)'
    BY <1>2 DEF RowRuns, LocalRun
  <1> QED
    BY <1>1, <1>3 DEF RowRuns

\* A row that a step leaves alone, while runs end and tasks are forgotten.
LEMMA RowQuiet ==
  ASSUME NEW r \in Ids, RowRuns(r), status'[r] = status[r], host'[r] = host[r],
         execHost'[r] = execHost[r], attempts'[r] = attempts[r], ref'[r] = ref[r],
         task'[r] = task[r] \/ task'[r] = "none", asked \subseteq asked',
         \A a \in Attempts : Alive(r, a)' => Alive(r, a),
         \A a \in Attempts : <<r, a>> \in recorded' <=> <<r, a>> \in recorded
  PROVE  RowRuns(r)'
  <1>1. Tied(r) => Tied(r)'
    BY DEF Tied
  <1>2. task'[r] \in {"late", "unborn"} => execHost'[r] \in SshHosts
    BY DEF RowRuns, RecordedBelow
  <1> QED
    BY <1>1, <1>2, RowKept DEF Unrecorded

\* No row of the other ids is disturbed.
LEMMA OthersQuiet ==
  ASSUME RunInv, NEW r \in Ids, RowRuns(r)', asked \subseteq asked',
         recorded' = recorded \/ (attempts[r] \in Attempts /\ recorded' = recorded \union {<<r, attempts[r]>>}),
         \A q \in Ids : q # r =>
            /\ status'[q] = status[q] /\ host'[q] = host[q] /\ execHost'[q] = execHost[q]
            /\ attempts'[q] = attempts[q] /\ ref'[q] = ref[q] /\ task'[q] = task[q]
            /\ \A a \in Attempts : Alive(q, a)' => Alive(q, a)
  PROVE  RunInv'
  <1>1. recorded' \subseteq Ids \X Attempts
    BY DEF RunInv
  <1>2. \A q \in Ids, a \in Attempts : q # r => (<<q, a>> \in recorded' <=> <<q, a>> \in recorded)
    OBVIOUS
  <1>3. ASSUME NEW q \in Ids, q # r PROVE RowRuns(q)'
    BY <1>2, <1>3, RowQuiet DEF RunInv
  <1> QED
    BY <1>1, <1>3 DEF RunInv

\* A step that leaves every row alone.
LEMMA AllQuiet ==
  ASSUME RunInv, UNCHANGED <<db, recorded>>, asked \subseteq asked',
         \A q \in Ids : task'[q] = task[q] \/ task'[q] = "none",
         \A q \in Ids, a \in Attempts : Alive(q, a)' => Alive(q, a)
  PROVE  RunInv'
  BY RowQuiet DEF RunInv, db

\* Killing starts nothing.
LEMMA KillShrinks ==
  ASSUME Types, NEW r, NEW h, NEW w, KillStops(r, h, w)
  PROVE  \A q \in Ids, a \in Attempts : Alive(q, a)' => Alive(q, a)
  <1>1. CASE w # "killed"
    BY <1>1 DEF KillStops, world, Alive
  <1>2. CASE w = "killed"
    <2>1. \A x \in Ids \X Attempts : run'[x] = run[x] \/ run'[x] = "killed"
      BY <1>2 DEF KillStops, Types, WorldTypes
    <2> QED
      BY <2>1 DEF Alive
  <1> QED
    BY <1>1, <1>2

\* A local kill with the pid at hand stops the current attempt or finds it gone.
LEMMA LocalKill ==
  ASSUME Types, NEW r \in Ids, NEW h, h \notin SshHosts, h \notin Unkillable, NEW w,
         w \in KillWords(r, h, TRUE), KillStops(r, h, w), attempts[r] \in Attempts,
         UNCHANGED attempts
  PROVE  ~Alive(r, attempts[r])'
  <1>1. Target(r, h) = {attempts[r]} \intersect AliveOf(r)
    BY DEF Target
  <1>2. CASE Target(r, h) = {}
    <2>1. ~Alive(r, attempts[r])
      BY <1>1, <1>2 DEF AliveOf
    <2> QED
      BY <2>1, KillShrinks
  <1>3. CASE Target(r, h) # {}
    <2>1. w = "killed"
      BY <1>3 DEF KillWords
    <2>2. attempts[r] \in Target(r, h) /\ <<r, attempts[r]>> \in Ids \X Attempts
      BY <1>1, <1>3
    <2>3. run' = [x \in Ids \X Attempts |->
                    IF x[1] = r /\ x[2] \in Target(r, h) THEN "killed" ELSE run[x]]
      BY <2>1 DEF KillStops, Types, WorldTypes
    <2>4. run'[<<r, attempts[r]>>] = "killed"
      BY <2>2, <2>3
    <2> QED
      BY <2>4 DEF Alive
  <1> QED
    BY <1>2, <1>3

\* ... so that no recorded run of a local row is left.
LEMMA LocalKillEmpties ==
  ASSUME IInv, Types, RunInv, NEW r \in Ids, Local(r), Reached(r) # {}, NEW w,
         w \in KillWords(r, execHost[r], TRUE), KillStops(r, execHost[r], w),
         UNCHANGED <<attempts, recorded>>
  PROVE  Reached(r)' = {}
  <1> SUFFICES ASSUME NEW a \in Reached(r)' PROVE FALSE
    OBVIOUS
  <1>1. execHost[r] = host[r] /\ \A b \in Reached(r) : b = attempts[r]
    BY DEF RunInv, RowRuns, LocalRun, Tied
  <1>2. a \in Reached(r) /\ Alive(r, a)'
    BY KillShrinks DEF Reached
  <1>3. ~Alive(r, attempts[r])'
    BY <1>1, LocalKill DEF IInv, Typed, Bounded, Local, Reached
  <1> QED
    BY <1>1, <1>2, <1>3

\* What the steps below need from the other invariants.
LEMMA AttemptsTyped == IInv => \A r \in Ids : attempts[r] \in Attempts /\ attempts[r] \in Nat
  BY BuildQueueAssumption DEF IInv, Typed, Bounded, Attempts

\* Rows are inserted under ids that no run was recorded for.
LEMMA InsertRuns ==
  ASSUME Types, Calm, RunInv, NEW r \in Fresh, NEW h, NEW b, Insert(r, h, b),
         UNCHANGED <<task, run, recorded, asked>>
  PROVE  RunInv'
  <1>1. /\ r \in Ids /\ status[r] = "none" /\ status'[r] # "none"
        /\ \A q \in Ids : q # r => status'[q] = status[q] /\ host'[q] = host[q]
        /\ UNCHANGED <<execHost, attempts, ref>>
    BY DEF Fresh, Insert, SetStatus, Types, TableTypes
  <1>2. \A a \in Attempts : <<r, a>> \notin recorded
    BY <1>1 DEF RunInv, RowRuns, RecordedBelow
  <1>3. task[r] = "none"
    BY <1>1 DEF Calm, CalmRow, TaskHost
  <1>4. RowRuns(r)'
    BY <1>2, <1>3 DEF RowRuns, RecordedBelow, LocalRun, Reached
  <1> QED
    BY <1>1, <1>4, OthersQuiet DEF Alive

LEMMA OperatorRuns == ASSUME Types, Calm, RunInv, Operator PROVE RunInv'
  <1>1. ASSUME NEW r \in Ids, NEW h \in HostNames, Enqueue(r, h) PROVE RunInv'
    BY <1>1, InsertRuns DEF Enqueue, memory, world, history
  <1>2. ASSUME NEW q \in Ids, NEW r \in Ids, Requeue(q, r) PROVE RunInv'
    BY <1>2, InsertRuns DEF Requeue, memory, world, history
  <1>3. ASSUME NEW b \in Briefs, Ingest(b) PROVE RunInv'
    BY <1>3, InsertRuns DEF Ingest, memory, world, history
  <1>4. ASSUME NEW b \in Briefs, Drop(b) \/ MoveBrief(b) PROVE RunInv'
    BY <1>4, AllQuiet DEF Drop, MoveBrief, memory, world, history, Alive
  <1>5. ASSUME NEW r \in Ids, CliCancel(r) PROVE RunInv'
    <2>1. /\ \A q \in Ids : status'[q] = IF q = r THEN "cancelled" ELSE status[q]
          /\ asked' = asked \union {r}
          /\ UNCHANGED <<host, execHost, attempts, ref, task, recorded, run>>
      BY <1>5 DEF CliCancel, SetStatus, memory, world, Types, TableTypes
    <2>2. Tied(r) => Tied(r)'
      BY <2>1 DEF Tied
    <2>3. RowRuns(r)'
      BY <2>1, <2>2, RowKept DEF RunInv, RowRuns, RecordedBelow, Alive
    <2> QED
      BY <2>1, <2>3, OthersQuiet DEF Alive
  <1>6. ASSUME NEW r \in Ids, DirectCancel(r) PROVE RunInv'
    BY <1>6, AllQuiet DEF DirectCancel, world, Alive
  <1> QED
    BY <1>1, <1>2, <1>3, <1>4, <1>5, <1>6 DEF Operator

\* The recovery stops what a local row's pid leads to, and then writes the row; a
\* queued row that a sweep fails has no recorded run.
LEMMA SweepsRuns == ASSUME IInv, Types, Calm, RunInv, Sweeps PROVE RunInv'
  <1>1. CASE Recover \/ SweepUnknown \/ \E h \in Hosts : SweepUnreachable(h)
    BY <1>1, AllQuiet DEF Recover, SweepUnknown, SweepUnreachable, world, history, Alive
  <1>2. ASSUME NEW r \in Ids, FailRow(r) PROVE RunInv'
    <2>1. /\ \A q \in Ids : status'[q] = IF q = r THEN "failed" ELSE status[q]
          /\ UNCHANGED <<host, execHost, attempts, ref, task, recorded, run, asked>>
          /\ r \in sweep.rows /\ sweep.why # "restart"
      BY <1>2 DEF FailRow, SetStatus, world, history, Types, TableTypes
    <2>2. Tied(r) => Tied(r)'
      BY <2>1 DEF Tied, Calm, CalmRow, Agree
    <2>3. RowRuns(r)'
      BY <2>1, <2>2, RowKept DEF RunInv, RowRuns, RecordedBelow, Alive
    <2> QED
      BY <2>1, <2>3, OthersQuiet DEF Alive
  <1>3. ASSUME NEW r \in Ids, NEW w \in Words, RecoverRow(r, w) PROVE RunInv'
    <2>1. /\ KillStops(r, execHost[r], w) /\ w \in CleanupWords(r)
          /\ UNCHANGED <<host, execHost, attempts, task, recorded, asked>>
          /\ \A q \in Ids : q # r => status'[q] = status[q] /\ ref'[q] = ref[q]
          /\ status'[r] # "none"
      BY <1>3 DEF RecoverRow, SetStatus, history, Types, TableTypes
    <2>2. \A q \in Ids, a \in Attempts : Alive(q, a)' => Alive(q, a)
      BY <2>1, KillShrinks
    <2>3. ASSUME Local(r), Tied(r) PROVE Reached(r)' = {}
      <3>1. CASE Reached(r) = {}
        BY <2>1, <2>2, <3>1 DEF Reached
      <3>2. CASE Reached(r) # {}
        <4>1. w \in KillWords(r, execHost[r], TRUE)
          BY <2>1, <2>3 DEF CleanupWords, Tied
        <4> QED
          BY <2>1, <2>3, <3>2, <4>1, LocalKillEmpties
      <3> QED
        BY <3>1, <3>2
    <2>4. RowRuns(r)'
      BY <2>1, <2>2, <2>3, RowKept DEF RunInv, RowRuns, RecordedBelow
    <2> QED
      BY <2>1, <2>2, <2>4, OthersQuiet
  <1> QED
    BY <1>1, <1>2, <1>3 DEF Sweeps

\* A claim opens an attempt above every recorded one; the row was queued.
LEMMA ClaimRuns == ASSUME IInv, Types, RunInv, NEW r \in Ids, Claim(r) PROVE RunInv'
  <1>1. /\ status[r] = "queued" /\ status'[r] = "running" /\ task'[r] = "starting"
        /\ attempts'[r] = attempts[r] + 1 /\ attempts[r] \in Nat
        /\ UNCHANGED <<host, ref, run, recorded, asked>>
        /\ \A q \in Ids : q # r => /\ status'[q] = status[q] /\ task'[q] = task[q]
                                   /\ attempts'[q] = attempts[q] /\ execHost'[q] = execHost[q]
    BY AttemptsTyped DEF Claim, SetStatus, world, history, Types, TableTypes, MemoryTypes, IInv, Typed
  <1>2. RecordedBelow(r)'
    BY <1>1, BuildQueueAssumption DEF RunInv, RowRuns, RecordedBelow, Attempts
  <1>3. LocalRun(r)'
    BY <1>1 DEF RunInv, RowRuns, LocalRun, Local, Tied, Reached, Alive
  <1> QED
    BY <1>1, <1>2, <1>3, OthersQuiet DEF RowRuns, Alive

\* A run is started for an attempt that is not recorded.
LEMMA SpawnRuns == ASSUME IInv, Types, RunInv, NEW r \in Ids, Spawn(r) PROVE RunInv'
  <1>1. /\ task[r] = "starting" /\ task'[r] = "spawned" /\ attempts[r] \in Attempts
        /\ \A q \in Ids : q # r => task'[q] = task[q]
        /\ UNCHANGED <<status, host, execHost, attempts, ref, recorded, asked>>
        /\ \A x \in Ids \X Attempts : x # <<r, attempts[r]>> => run'[x] = run[x]
    BY AttemptsTyped DEF Spawn, db, Types, MemoryTypes, WorldTypes
  <1>2. \A a \in Attempts : <<r, a>> \in recorded => a < attempts[r] /\ run'[<<r, a>>] = run[<<r, a>>]
    BY <1>1 DEF RunInv, RowRuns, RecordedBelow, Unrecorded, Attempts
  <1>3. RecordedBelow(r)'
    BY <1>1, <1>2 DEF RunInv, RowRuns, RecordedBelow
  <1>4. Reached(r)' = Reached(r)
    BY <1>1, <1>2 DEF Reached, Alive
  <1>5. ASSUME NEW a \in Reached(r) PROVE ~Local(r)
    BY <1>1, <1>2, <1>5 DEF RunInv, RowRuns, LocalRun, Reached, Attempts
  <1>6. LocalRun(r)'
    BY <1>1, <1>4, <1>5 DEF LocalRun, Local
  <1>7. \A q \in Ids, a \in Attempts : q # r => run'[<<q, a>>] = run[<<q, a>>]
    BY <1>1
  <1> QED
    BY <1>1, <1>3, <1>6, <1>7, OthersQuiet DEF RowRuns, Alive

\* What is recorded is the current attempt of a claimed row.
LEMMA SetRefRuns == ASSUME IInv, Types, Calm, RunInv, NEW r \in Ids, SetRef(r) PROVE RunInv'
  <1>1. /\ task[r] = "spawned" /\ task'[r] = "waiting" /\ ref'[r] = TRUE
        /\ recorded' = recorded \union {<<r, attempts[r]>>}
        /\ attempts[r] \in Nat /\ attempts[r] \in Attempts
        /\ \A q \in Ids : q # r => task'[q] = task[q] /\ ref'[q] = ref[q]
        /\ UNCHANGED <<status, host, execHost, attempts, run, asked>>
    BY AttemptsTyped DEF SetRef, world, Types, TableTypes, MemoryTypes
  <1>2. /\ status[r] \notin {"none", "queued"} /\ execHost[r] = host[r]
        /\ r \notin asked => status[r] = "running"
    BY <1>1 DEF Calm, CalmRow, TaskHost, Agree
  <1>3. RecordedBelow(r)'
    BY <1>1, <1>2 DEF RunInv, RowRuns, RecordedBelow, Unrecorded, Attempts
  <1>4. Reached(r)' \subseteq Reached(r) \union {attempts[r]}
    BY <1>1 DEF Reached, Alive
  <1>5. Tied(r)'
    BY <1>1, <1>2 DEF Tied
  <1>6. LocalRun(r)'
    BY <1>1, <1>4, <1>5 DEF RunInv, RowRuns, LocalRun, Local
  <1> QED
    BY <1>1, <1>3, <1>6, OthersQuiet DEF RowRuns, Alive

\* A late start is an ssh host's.
LEMMA LateRuns == ASSUME IInv, Types, Calm, RunInv, NEW r \in Ids, LateSpawn(r) PROVE RunInv'
  <1>1. /\ task[r] \in {"late", "unborn"} /\ task'[r] \in {"timing", "timeout"}
        /\ recorded' = recorded \union {<<r, attempts[r]>>}
        /\ attempts[r] \in Nat /\ attempts[r] \in Attempts
        /\ \A q \in Ids : q # r => task'[q] = task[q] /\ ref'[q] = ref[q]
        /\ \A x \in Ids \X Attempts : x # <<r, attempts[r]>> => run'[x] = run[x]
        /\ UNCHANGED <<status, host, execHost, attempts, asked>>
    BY AttemptsTyped DEF LateSpawn, Types, TableTypes, MemoryTypes, WorldTypes
  <1>2. status[r] # "none" /\ host[r] \in SshHosts
    BY <1>1 DEF Calm, CalmRow, TaskHost, RunInv, RowRuns, RecordedBelow
  <1>3. RecordedBelow(r)'
    BY <1>1, <1>2 DEF RunInv, RowRuns, RecordedBelow, Unrecorded, Attempts
  <1>4. LocalRun(r)'
    BY <1>1, <1>2 DEF LocalRun, Local
  <1>5. \A q \in Ids, a \in Attempts : q # r => run'[<<q, a>>] = run[<<q, a>>]
    BY <1>1
  <1> QED
    BY <1>1, <1>3, <1>4, <1>5, OthersQuiet DEF RowRuns, Alive

\* The upload that failed was for an ssh host; the attempt it gives back is above
\* every recorded one.
LEMMA UploadRuns == ASSUME IInv, Types, Calm, RunInv, NEW r \in Ids, UploadFails(r) PROVE RunInv'
  <1>1. /\ task[r] = "starting" /\ task'[r] = "none" /\ host[r] \in SshHosts /\ status[r] # "none"
        /\ attempts[r] \in Nat
        /\ attempts'[r] = attempts[r] - 1 \/ attempts'[r] = attempts[r]
        /\ status'[r] # "none"
        /\ UNCHANGED <<host, run, recorded, asked>>
        /\ \A q \in Ids : q # r => /\ status'[q] = status[q] /\ task'[q] = task[q] /\ ref'[q] = ref[q]
                                   /\ attempts'[q] = attempts[q] /\ execHost'[q] = execHost[q]
    BY AttemptsTyped DEF UploadFails, Ssh, Calm, CalmRow, TaskHost, SetStatus, world, Types, TableTypes,
                         MemoryTypes, IInv, Typed
  <1>2. RecordedBelow(r)'
    BY <1>1 DEF RunInv, RowRuns, RecordedBelow, Unrecorded, Attempts
  <1>3. LocalRun(r)'
    BY <1>1 DEF LocalRun, Local
  <1> QED
    BY <1>1, <1>2, <1>3, OthersQuiet DEF RowRuns, Alive

\* The timeout of a local row stops its recorded run.
LEMMA TimeoutRuns ==
  ASSUME IInv, Types, Calm, RunInv, NEW r \in Ids, NEW w \in Words, TimeoutKill(r, w)
  PROVE  RunInv'
  <1>1. /\ KillStops(r, execHost[r], w) /\ w \in KillWords(r, execHost[r], TRUE)
        /\ UNCHANGED <<status, host, execHost, attempts, ref, recorded, asked>>
        /\ \A q \in Ids : q # r => task'[q] = task[q]
        /\ task'[r] \in Unrecorded => task[r] = "late" /\ task'[r] = "unborn"
    BY DEF TimeoutKill, TimeoutOutcome, Unrecorded, db, history, Types, MemoryTypes
  <1>2. \A q \in Ids, a \in Attempts : Alive(q, a)' => Alive(q, a)
    BY <1>1, KillShrinks
  <1>3. ASSUME Local(r) PROVE Reached(r)' = {}
    <2>1. CASE Reached(r) = {}
      BY <1>1, <1>2, <2>1 DEF Reached
    <2>2. CASE Reached(r) # {}
      BY <1>1, <1>3, <2>2, LocalKillEmpties
    <2> QED
      BY <2>1, <2>2
  <1>4. task'[r] \in {"late", "unborn"} => execHost'[r] \in SshHosts /\ task[r] \in Unrecorded
    BY <1>1 DEF Unrecorded, RunInv, RowRuns, RecordedBelow
  <1>5. RowRuns(r)'
    BY <1>1, <1>2, <1>3, <1>4, RowKept DEF RunInv, Unrecorded
  <1> QED
    BY <1>1, <1>2, <1>5, OthersQuiet

\* The runner's end: of a local row only a start that failed, a run that is over, or
\* the timeout.
LEMMA RunnerEndsRuns == ASSUME IInv, Types, Calm, RunInv, NEW r \in Ids, RunnerEnds(r) PROVE RunInv'
  <1>1. UNCHANGED <<status, host, execHost, attempts, ref, recorded, run, asked>>
    BY DEF RunnerEnds, db, world, history
  <1>2. PICK t \in {"error", "over", "lost", "timing", "late"} : task' = [task EXCEPT ![r] = t]
    BY DEF RunnerEnds, StartFails, Returns, ConnectionLost, TimesOut
  <1>3. /\ \A q \in Ids : task'[q] = IF q = r THEN t ELSE task[q]
        /\ Reached(r)' = Reached(r)
    BY <1>1, <1>2 DEF Types, MemoryTypes, Reached, Alive
  <1>4. task[r] # "none" /\ execHost[r] = host[r]
    BY DEF RunnerEnds, StartFails, Returns, ConnectionLost, TimesOut, Calm, CalmRow, TaskHost
  <1>5. ASSUME NEW a \in Reached(r), Local(r) PROVE a = attempts[r] /\ task[r] \notin Unrecorded
    BY <1>5, AttemptsTyped DEF RunInv, RowRuns, LocalRun, RecordedBelow, Reached, Attempts
  <1>6. /\ t = "timing" \/ ~Local(r) \/ Reached(r) = {}
        /\ t = "late" => task[r] = "starting" /\ execHost[r] \in SshHosts
    <2>1. CASE StartFails(r)
      BY <1>3, <1>5, <2>1 DEF StartFails, Unrecorded
    <2>2. CASE Returns(r)
      BY <1>3, <1>5, <2>2 DEF Returns, Reached
    <2>3. CASE ConnectionLost(r)
      BY <1>3, <1>4, <2>3 DEF ConnectionLost, Ssh, Local
    <2>4. CASE TimesOut(r)
      BY <1>3, <1>4, <2>4 DEF TimesOut, Ssh, Local, Types, MemoryTypes
    <2> QED
      BY <2>1, <2>2, <2>3, <2>4 DEF RunnerEnds
  <1>7. Tied(r) /\ t = "timing" => Tied(r)'
    BY <1>1, <1>3 DEF Tied
  <1>8. RowRuns(r)'
    BY <1>1, <1>3, <1>6, <1>7, RowKept DEF RunInv, Unrecorded, Alive
  <1> QED
    BY <1>1, <1>3, <1>8, OthersQuiet DEF Alive

\* A verdict of a row nobody asked to cancel is reached, and written, once its local run
\* is over.
LEMMA FinishRuns ==
  ASSUME Types, Calm, RunInv, NEW r \in Ids, Judge(r) \/ Finish(r) PROVE RunInv'
  <1>1. task[r] \in {"over", "lost", "timeout", "unborn", "error", "passes", "fails"}
    BY DEF Judge, Finish, Judged
  <1>2. UNCHANGED <<host, execHost, attempts, ref, recorded, run, asked>>
    BY DEF Judge, Finish, db, world, history
  <1>3. /\ \A q \in Ids : q # r => status'[q] = status[q] /\ task'[q] = task[q]
        /\ task'[r] \in {"none", "passes", "fails"}
        /\ status'[r] = status[r] \/ status'[r] \in {"done", "failed"}
    BY DEF Judge, Finish, Outcome, Verdict, SetStatus, db, Types, TableTypes, MemoryTypes
  <1>4. Tied(r) => r \in asked /\ Tied(r)'
    BY <1>1, <1>2, <1>3 DEF Tied
  <1>5. RowRuns(r)'
    BY <1>2, <1>3, <1>4, RowKept DEF RunInv, Unrecorded, Alive
  <1> QED
    BY <1>2, <1>3, <1>5, OthersQuiet DEF Alive

\* A cancel's kill comes back for a row that somebody asked to cancel.
LEMMA KillRuns ==
  ASSUME Types, Calm, RunInv, NEW r \in Ids, NEW w \in Words, KillReturns(r, w)
  PROVE  RunInv'
  <1>1. /\ r \in asked /\ KillStops(r, killing[r].host, w)
        /\ UNCHANGED <<host, execHost, attempts, ref, task, recorded, asked>>
    BY DEF KillReturns, Calm, CalmRow, Asked
  <1>2. /\ \A q \in Ids : q # r => status'[q] = status[q]
        /\ status'[r] = status[r] \/ status'[r] \in {"running", "cancelled"}
    BY DEF KillReturns, SetStatus, Types, TableTypes
  <1>3. \A q \in Ids, a \in Attempts : Alive(q, a)' => Alive(q, a)
    BY <1>1, KillShrinks
  <1>4. Tied(r) => Tied(r)'
    BY <1>1, <1>2 DEF Tied
  <1>5. RowRuns(r)'
    BY <1>1, <1>2, <1>3, <1>4, RowKept DEF RunInv, RowRuns, RecordedBelow
  <1> QED
    BY <1>1, <1>2, <1>3, <1>5, OthersQuiet

\* Runs end, remote ones reach their pid file; a stop forgets the tasks.
LEMMA EnvironmentRuns == ASSUME Types, RunInv, Environment PROVE RunInv'
  <1>1. ASSUME UNCHANGED <<db, recorded, asked>>,
               \A q \in Ids : task'[q] = task[q] \/ task'[q] = "none",
               \A x \in Ids \X Attempts : run'[x] \in {"boot", "live"} => run[x] \in {"boot", "live"}
        PROVE  RunInv'
    <2>1. \A q \in Ids, a \in Attempts : Alive(q, a)' => Alive(q, a)
      BY <1>1 DEF Alive
    <2> QED
      BY <1>1, <2>1, AllQuiet
  <1>2. ASSUME NEW r \in Ids, PidWritten(r) PROVE RunInv'
    BY <1>1, <1>2 DEF PidWritten, memory, history, Types, WorldTypes
  <1>3. ASSUME NEW r \in Ids, NEW a \in Attempts, RunEnds(r, a) PROVE RunInv'
    BY <1>1, <1>3 DEF RunEnds, memory, history, Types, WorldTypes
  <1>4. ASSUME NEW b \in BOOLEAN, Stop(b) PROVE RunInv'
    <2>1. /\ \A q \in Ids : task'[q] = "none"
          /\ UNCHANGED <<db, recorded, asked>>
          /\ \A x \in Ids \X Attempts : run'[x] = run[x] \/ run'[x] = "killed"
      BY <1>4 DEF Stop, Forget, Types, WorldTypes
    <2> QED
      BY <1>1, <2>1
  <1>5. ASSUME Start PROVE RunInv'
    BY <1>1, <1>5 DEF Start, world, history
  <1> QED
    BY <1>2, <1>3, <1>4, <1>5 DEF Environment

LEMMA NextRuns == ASSUME IInv, Types, Calm, RunInv, [Next]_vars PROVE RunInv'
  <1>1. ASSUME UNCHANGED <<db, task, world, recorded, asked>> PROVE RunInv'
    BY <1>1, AllQuiet DEF world, Alive
  <1>2. ASSUME NEW h \in Hosts, GateHolds(h) PROVE RunInv'
    BY <1>1, <1>2 DEF GateHolds
  <1>3. ASSUME NEW r \in Ids, GateDefers(r) PROVE RunInv'
    BY <1>1, <1>3 DEF GateDefers, history
  <1>4. ASSUME NEW r \in Ids, Running(r) PROVE RunInv'
    <2>1. CASE PollCancel(r)
      BY <1>1, <2>1 DEF PollCancel, history
    <2> QED
      BY <1>4, <2>1, SpawnRuns, SetRefRuns, LateRuns, UploadRuns, RunnerEndsRuns, FinishRuns,
         TimeoutRuns, KillRuns DEF Running
  <1>5. CASE UNCHANGED vars
    BY <1>1, <1>5 DEF vars, memory, history
  <1> QED
    BY <1>2, <1>3, <1>4, <1>5, OperatorRuns, SweepsRuns, EnvironmentRuns, ClaimRuns DEF Next

THEOREM RunInvHolds == Spec => []RunInv
  <1>1. Init => RunInv
    BY DEF Init, RunInv, RowRuns, RecordedBelow, LocalRun, Reached
  <1>2. (IInv /\ Types) /\ Calm /\ RunInv /\ [Next]_vars => RunInv'
    BY NextRuns
  <1> QED
    BY <1>1, <1>2, Invariants, CalmHolds, PTL DEF Spec

\* Where kills work, no recorded local run of a row that nobody asked to cancel outlives
\* the row: not past a verdict, a timeout, a recovery or a restart, whatever cancels,
\* restarts and outages do to the other rows.
THEOREM NoneOutlives == Spec => []NoRunOutlivesRow
  <1>1. RunInv => NoRunOutlivesRow
    <2> SUFFICES ASSUME RunInv, NEW r \in Ids \ asked, NEW a \in Attempts, <<r, a>> \in recorded,
                        Alive(r, a), host[r] \notin SshHosts \union Unkillable
                 PROVE  status[r] = "running"
      BY DEF NoRunOutlivesRow
    <2> QED
      BY DEF RunInv, RowRuns, LocalRun, Local, Reached, Tied
  <1> QED
    BY <1>1, RunInvHolds, PTL

\* A local host where kills work has at most one recorded run for each row in a slot and
\* for each row that somebody asked to cancel.
LEMMA RunsBounded ==
  ASSUME Calm, RunInv, NEW h \in Hosts \ (SshHosts \union Unkillable)
  PROVE  /\ Cardinality(RunsOn(h)) \in Nat
         /\ Cardinality(RunsOn(h)) <= Cardinality(Occupied(h)) + Cardinality({r \in asked : host[r] = h})
  <1> DEFINE K == {r \in asked : host[r] = h}
             T == Occupied(h) \union K
  <1>1. K \subseteq Ids /\ Occupied(h) \subseteq Ids
    BY DEF Calm, Occupied
  <1>2. IsFiniteSet(K) /\ IsFiniteSet(Occupied(h)) /\ IsFiniteSet(T)
    BY <1>1, IdsFinite, FS_Subset, FS_Union
  <1>3. ASSUME NEW x \in RunsOn(h) PROVE x = <<x[1], attempts[x[1]]>> /\ x[1] \in T
    <2>1. x \in Ids \X Attempts /\ x \in recorded /\ Alive(x[1], x[2]) /\ host[x[1]] = h
      BY DEF RunsOn, RunInv
    <2>2. x = <<x[1], x[2]>> /\ x[1] \in Ids /\ x[2] \in Attempts
      BY <2>1
    <2>3. x[2] \in Reached(x[1]) /\ Local(x[1])
      BY <2>1, <2>2 DEF Reached, Local
    <2>4. x[2] = attempts[x[1]] /\ Tied(x[1])
      BY <2>2, <2>3 DEF RunInv, RowRuns, LocalRun
    <2>5. x[1] \in T
      BY <2>1, <2>2, <2>4 DEF Tied, Occupied
    <2> QED
      BY <2>2, <2>4, <2>5
  <1> DEFINE f == [x \in RunsOn(h) |-> x[1]]
  <1>4. f \in Injection(RunsOn(h), T)
    <2>1. f \in [RunsOn(h) -> T]
      BY <1>3
    <2>2. ASSUME NEW x \in RunsOn(h), NEW y \in RunsOn(h), f[x] = f[y] PROVE x = y
      BY <1>3, <2>2
    <2> QED
      BY <2>1, <2>2 DEF Injection, IsInjective
  <1>5. IsFiniteSet(RunsOn(h)) /\ Cardinality(RunsOn(h)) <= Cardinality(T)
    <2> HIDE DEF f, T
    <2> QED
      BY <1>2, <1>4, FS_Injection DEF ExistsInjection
  <1>6. Cardinality(T) <= Cardinality(Occupied(h)) + Cardinality(K)
    <2>1. Cardinality(T) = Cardinality(Occupied(h)) + Cardinality(K) - Cardinality(Occupied(h) \intersect K)
      BY <1>2, FS_Union
    <2>2. Cardinality(Occupied(h) \intersect K) \in Nat
      BY <1>2, FS_Subset, FS_CardinalityType
    <2> QED
      BY <1>2, <2>1, <2>2, FS_CardinalityType
  <1> HIDE DEF T, K
  <1>7. Cardinality(RunsOn(h)) <= Cardinality(Occupied(h)) + Cardinality(K)
    BY <1>2, <1>5, <1>6, FS_CardinalityType
  <1>8. Cardinality(RunsOn(h)) \in Nat
    BY <1>5, FS_CardinalityType
  <1> QED
    BY <1>7, <1>8 DEF K

\* However restarts, outages, retries and cancels alternate, a local host where kills
\* work never has more recorded runs than slots, but for one of each row that somebody
\* asked to cancel.
THEOREM Slots == Spec => []SlotsRespected
  <1>1. Calm /\ RunInv /\ SlotsHeld => SlotsRespected
    <2> SUFFICES ASSUME Calm, RunInv, SlotsHeld, NEW h \in Hosts \ (SshHosts \union Unkillable)
                 PROVE  Cardinality(RunsOn(h)) <= Concurrency[h] + Cardinality({r \in asked : host[r] = h})
      BY DEF SlotsRespected
    <2> DEFINE K == {r \in asked : host[r] = h}
    <2>1. Cardinality(RunsOn(h)) \in Nat /\ Cardinality(RunsOn(h)) <= Cardinality(Occupied(h)) + Cardinality(K)
      BY RunsBounded
    <2>2. Cardinality(Occupied(h)) <= Concurrency[h] /\ Concurrency[h] \in Nat
      BY BuildQueueAssumption DEF SlotsHeld
    <2>3. Cardinality(K) \in Nat /\ Cardinality(Occupied(h)) \in Nat
      <3>1. K \subseteq Ids
        BY DEF Calm
      <3> QED
        BY <3>1, IdsFinite, OccupiedFinite, FS_Subset, FS_CardinalityType
    <2> HIDE DEF K
    <2>4. Cardinality(RunsOn(h)) <= Concurrency[h] + Cardinality(K)
      BY <2>1, <2>2, <2>3
    <2> QED
      BY <2>4 DEF K
  <1> QED
    BY <1>1, CalmHolds, RunInvHolds, SlotsHeldHolds, PTL
=============================================================================
