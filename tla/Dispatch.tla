------------------------------ MODULE Dispatch ------------------------------
(***************************************************************************)
(* The inbox adapter of bin/relay.py, which runs briefs when the build     *)
(* queue is off: DispatchAdapter.  A pass looks at the semaphore's counter *)
(* and starts a task per brief; the tasks take the semaphore later.        *)
(***************************************************************************)
EXTENDS Naturals, FiniteSets

CONSTANTS
  Builders, Reviewers,  \* briefs (by stem) dropped in either inbox
  Slots,                \* MAX_CONCURRENT_BUILDERS, MAX_CONCURRENT_REVIEWERS: [builder, reviewer]
  MaxRestartsD,         \* bound: restarts of the relay
  HasScript             \* kinds whose invoke script exists

DispatchAssumption ==
  /\ MaxRestartsD \in Nat /\ Slots \in [{"builder", "reviewer"} -> Nat \ {0}]
  /\ HasScript \subseteq {"builder", "reviewer"}

Briefs == [kind : {"builder"}, stem : Builders] \cup [kind : {"reviewer"}, stem : Reviewers]

VARIABLES
  brief,   \* [Briefs -> "absent", "inbox", "archive"]
  active,  \* active_dispatches: the brief each stem maps to
  dtask,   \* [Briefs -> "none", "waits" for the semaphore, "runs", "over": to be archived]
  procs,   \* [Briefs -> script processes alive]
  drestarts

DispatchVars == <<brief, active, dtask, procs, drestarts>>

DispatchInit ==
  /\ brief = [b \in Briefs |-> "absent"] /\ active = {}
  /\ dtask = [b \in Briefs |-> "none"] /\ procs = [b \in Briefs |-> 0] /\ drestarts = 0

Dropped(b) ==
  /\ brief[b] = "absent"
  /\ brief' = [brief EXCEPT ![b] = "inbox"]
  /\ UNCHANGED <<active, dtask, procs, drestarts>>

Holds(k) == {b \in Briefs : b.kind = k /\ dtask[b] \in {"runs", "over"}}

Active_Never(b) == FALSE
\* The map is keyed by the stem alone, whichever inbox the brief lies in.
Active(b) == \E a \in active : a.stem = b.stem

\* check_inboxes: every brief that is not active, while the counter is above zero.  No
\* task has taken the semaphore yet, so one pass may start more tasks than slots.
Checked(b) ==
  /\ brief[b] = "inbox" /\ ~Active(b)
  /\ Cardinality(Holds(b.kind)) < Slots[b.kind]
  /\ active' = active \cup {b}
  /\ dtask' = [dtask EXCEPT ![b] = "waits"]
  /\ UNCHANGED <<brief, procs, drestarts>>

Acquires_Free(b) == TRUE
Acquires(b) == Cardinality(Holds(b.kind)) < Slots[b.kind]

Gone_Kept(b) == active' = active /\ dtask' = [dtask EXCEPT ![b] = "none"]
Gone(b) == active' = active \ {b} /\ dtask' = [dtask EXCEPT ![b] = "none"]

\* dispatch, with the semaphore: no script, no run, and the brief stays.
Begins(b) ==
  /\ dtask[b] = "waits" /\ Acquires(b)
  /\ IF b.kind \in HasScript /\ brief[b] = "inbox"
     THEN /\ dtask' = [dtask EXCEPT ![b] = "runs"]
          /\ procs' = [procs EXCEPT ![b] = @ + 1]
          /\ UNCHANGED active
     ELSE Gone(b) /\ UNCHANGED procs
  /\ UNCHANGED <<brief, drestarts>>

\* The script ends, or its timeout kills it.
DispatchEnds(b) ==
  /\ dtask[b] = "runs"
  /\ procs' = [procs EXCEPT ![b] = @ - 1]
  /\ dtask' = [dtask EXCEPT ![b] = "over"]
  /\ UNCHANGED <<brief, active, drestarts>>

Archive(b) ==
  /\ dtask[b] = "over"
  /\ brief' = [brief EXCEPT ![b] = "archive"]
  /\ Gone(b)
  /\ UNCHANGED <<procs, drestarts>>

\* The relay dies: its tasks are gone, a script may live on, the brief is where it was.
RelayDies ==
  /\ drestarts < MaxRestartsD
  /\ drestarts' = drestarts + 1
  /\ active' = {} /\ dtask' = [b \in Briefs |-> "none"]
  /\ UNCHANGED <<brief, procs>>

\* A script the relay no longer knows ends.
OrphanEnds(b) ==
  /\ procs[b] > (IF dtask[b] = "runs" THEN 1 ELSE 0)
  /\ procs' = [procs EXCEPT ![b] = @ - 1]
  /\ UNCHANGED <<brief, active, dtask, drestarts>>

DispatchNext ==
  \/ \E b \in Briefs : Dropped(b) \/ Checked(b) \/ Begins(b) \/ DispatchEnds(b) \/ Archive(b) \/ OrphanEnds(b)
  \/ RelayDies

DispatchSpec == DispatchInit /\ [][DispatchNext]_DispatchVars

\* poll_loop polls, asyncio wakes the oldest waiter, a script ends or is killed.
DispatchFairness ==
  \A b \in Briefs : /\ SF_DispatchVars(Checked(b)) /\ SF_DispatchVars(Begins(b))
                    /\ WF_DispatchVars(DispatchEnds(b)) /\ WF_DispatchVars(Archive(b))

----------------------------------------------------------------------------
(* Properties *)

\* The slots of a kind hold for the runs the relay knows, although one pass starts more
\* tasks than there are slots.
DispatchCapped == \A k \in {"builder", "reviewer"} : Cardinality(Holds(k)) <= Slots[k]

\* A brief runs once at a time unless the relay died under it, even if the other inbox
\* has a brief of the same name.
OneRun == drestarts = 0 => \A b \in Briefs : procs[b] <= 1 /\ (procs[b] = 1 => b \in active)

\* Every brief whose script exists is archived in the end, through restarts and a namesake.
BriefsArchived ==
  \A b \in Briefs : (brief[b] = "inbox" /\ b.kind \in HasScript) ~> (brief[b] = "archive")
=============================================================================
