------------------------------ MODULE Oneshots -----------------------------
(***************************************************************************)
(* Scheduled one-off work: bin/oneshot.py and the loop of bin/scheduler.py *)
(* that drives it.  The spool is a directory of files, one per label, with *)
(* no lock: agents schedule and cancel while a pass of run_due, which read *)
(* the directory once, works through what was due.                         *)
(***************************************************************************)
EXTENDS Naturals, FiniteSets, Functions

CONSTANTS
  Labels,
  MaxEntries,   \* bound: entries scheduled
  Callers,      \* the processes of agents that schedule
  MaxCrashes,   \* bound: deaths of the scheduler
  MaxByHand     \* bound: passes of `oneshot.py run-due`

VARIABLES
  spool,    \* the entry in the file of a label, 0 when there is none
  age,      \* of an entry: ahead, due, stale
  calling,  \* schedule between its test and its write: the label, NoLabel when not
  pass,     \* a pass of run_due: [on, todo, running]; todo holds what load_entries read
  fate,     \* what became of each file: how many were fired, dropped, cancelled, replaced, cut off
  fired,    \* how often an entry's command was run
  made,     \* entries scheduled so far
  byHand,
  crashes

SpoolVars == <<spool, age, calling, pass, fate, fired, made, byHand, crashes>>

NoLabel == "no label"
Scheduler == "scheduler"
Runners == {Scheduler, "run-due"}
Idle == [on |-> FALSE, todo |-> {}, running |-> 0]
Fates == {"fired", "dropped", "cancelled", "replaced", "cut off"}
Entries == 1..MaxEntries

SpoolInit ==
  /\ spool = [l \in Labels |-> 0] /\ age = [e \in Entries |-> "ahead"]
  /\ calling = [c \in Callers |-> NoLabel] /\ pass = [r \in Runners |-> Idle]
  /\ fate = [f \in Fates |-> 0] /\ fired = [e \in Entries |-> 0]
  /\ made = 0 /\ byHand = 0 /\ crashes = 0

Counts(f) == fate' = [fate EXCEPT ![f] = @ + 1]

----------------------------------------------------------------------------
(* schedule and cancel *)

\* The label is free, or `replace` is given.
ScheduleChecks(c, l, replace) ==
  /\ calling[c] = NoLabel /\ made < MaxEntries
  /\ spool[l] = 0 \/ replace
  /\ calling' = [calling EXCEPT ![c] = l]
  /\ UNCHANGED <<spool, age, pass, fate, fired, made, byHand, crashes>>

\* _write_atomic replaces whatever the label's file has become since.
ScheduleWrites(c) ==
  /\ calling[c] # NoLabel /\ made < MaxEntries
  /\ LET l == calling[c]
     IN  /\ spool' = [spool EXCEPT ![l] = made + 1]
         /\ IF spool[l] = 0 THEN fate' = fate ELSE Counts("replaced")
  /\ made' = made + 1
  /\ calling' = [calling EXCEPT ![c] = NoLabel]
  /\ UNCHANGED <<age, pass, fired, byHand, crashes>>

Cancel(l) ==
  /\ spool[l] # 0
  /\ spool' = [spool EXCEPT ![l] = 0]
  /\ Counts("cancelled")
  /\ UNCHANGED <<age, calling, pass, fired, made, byHand, crashes>>

\* The deadline, and ONESHOT_STALE_AFTER_SECONDS after it.
Ages(e) ==
  /\ e <= made /\ age[e] # "stale" /\ \E l \in Labels : spool[l] = e
  /\ age' = [age EXCEPT ![e] = IF @ = "ahead" THEN "due" ELSE "stale"]
  /\ UNCHANGED <<spool, calling, pass, fate, fired, made, byHand, crashes>>

----------------------------------------------------------------------------
(* run_due: on every tick, at startup as replay, and by hand *)

Load_Fresh == {[label |-> l, entry |-> spool[l], stale |-> FALSE] :
                  l \in {k \in Labels : spool[k] # 0 /\ age[spool[k]] = "due"}}
\* load_entries, and the time of the pass: what is late is decided by them.
Load == {[label |-> l, entry |-> spool[l], stale |-> age[spool[l]] = "stale"] :
            l \in {k \in Labels : spool[k] # 0 /\ age[spool[k]] # "ahead"}}

Begins(r) ==
  /\ ~pass[r].on /\ Load # {}
  /\ pass' = [pass EXCEPT ![r] = [on |-> TRUE, todo |-> Load, running |-> 0]]
  /\ byHand' = IF r = Scheduler THEN byHand ELSE byHand + 1
  /\ byHand' <= MaxByHand
  /\ UNCHANGED <<spool, age, calling, fate, fired, made, crashes>>

UnlinkFails_Never(l) == FALSE
\* FileNotFoundError: another pass, or a cancel, was first.
UnlinkFails(l) == spool[l] = 0

\* path.unlink, before the command runs: it removes the file that is there now.
Takes(r, e) ==
  /\ pass[r].on /\ pass[r].running = 0 /\ e \in pass[r].todo
  /\ LET rest == [pass[r] EXCEPT !.todo = @ \ {e}]
     IN  IF UnlinkFails(e.label)
         THEN pass' = [pass EXCEPT ![r] = rest] /\ UNCHANGED <<spool, fate, fired>>
         ELSE /\ spool' = [spool EXCEPT ![e.label] = 0]
              /\ IF e.stale
                 THEN /\ pass' = [pass EXCEPT ![r] = rest]
                      /\ Counts("dropped") /\ fired' = fired
                 ELSE /\ pass' = [pass EXCEPT ![r] = [rest EXCEPT !.running = e.entry]]
                      /\ fired' = [fired EXCEPT ![e.entry] = @ + 1]
                      /\ fate' = fate
  /\ UNCHANGED <<age, calling, made, byHand, crashes>>

\* The command returned, failed or ran into ONESHOT_EXEC_TIMEOUT: fired is fired.
Ran(r) ==
  /\ pass[r].running # 0
  /\ pass' = [pass EXCEPT ![r].running = 0]
  /\ Counts("fired")
  /\ UNCHANGED <<spool, age, calling, fired, made, byHand, crashes>>

Ends(r) ==
  /\ pass[r].on /\ pass[r].todo = {} /\ pass[r].running = 0
  /\ pass' = [pass EXCEPT ![r] = Idle]
  /\ UNCHANGED <<spool, age, calling, fate, fired, made, byHand, crashes>>

\* The container dies; the spool is on a volume and the next scheduler replays it.
Crash ==
  /\ crashes < MaxCrashes /\ crashes' = crashes + 1
  /\ IF pass[Scheduler].running # 0 THEN Counts("cut off") ELSE fate' = fate
  /\ pass' = [pass EXCEPT ![Scheduler] = Idle]
  /\ UNCHANGED <<spool, age, calling, fired, made, byHand>>

SpoolNext ==
  \/ \E c \in Callers : \/ \E l \in Labels, replace \in BOOLEAN : ScheduleChecks(c, l, replace)
                        \/ ScheduleWrites(c)
  \/ \E l \in Labels : Cancel(l)
  \/ \E e \in Entries : Ages(e)
  \/ \E r \in Runners :
       \/ Begins(r) \/ Ran(r) \/ Ends(r)
       \/ \E e \in pass[r].todo : Takes(r, e)
  \/ Crash

SpoolSpec == SpoolInit /\ [][SpoolNext]_SpoolVars

\* The loop of the scheduler ticks, a command ends, time passes.
SpoolFairness ==
  /\ WF_SpoolVars(Begins(Scheduler)) /\ WF_SpoolVars(Ends(Scheduler)) /\ WF_SpoolVars(Ran(Scheduler))
  /\ WF_SpoolVars(\E e \in pass[Scheduler].todo : Takes(Scheduler, e))
  /\ \A e \in Entries : WF_SpoolVars(age[e] = "ahead" /\ Ages(e))

----------------------------------------------------------------------------
(* Properties *)

\* Every file that was written is accounted for once: it is waiting, its command runs, or it
\* was fired, dropped, cancelled, replaced or cut off by a crash.  Two passes, a cancel and a
\* restart between the unlink and the command never fire for one file twice.
EachOnce ==
  made = FoldFunction(+, 0, fate) + Cardinality({l \in Labels : spool[l] # 0})
                      + Cardinality({r \in Runners : pass[r].running # 0})

\* A due entry leaves the spool: it is fired, or dropped as too late, also after restarts.
DueIsServed ==
  \A e \in Entries : (e <= made /\ age[e] # "ahead" /\ \E l \in Labels : spool[l] = e)
                       ~> ~\E l \in Labels : spool[l] = e

=============================================================================
