------------------------------- MODULE Reaper -------------------------------
(***************************************************************************)
(* Killing an agent with all it has started.  The tools of an agent leave  *)
(* processes behind that reparent to init when their parent dies, so the   *)
(* server's kill (kill_agent_subprocess) takes a snapshot of the tree      *)
(* before it signals the root, waits for the root to go, and then reaps    *)
(* the snapshot (lib/procreap.py); what escapes it is found later by the   *)
(* monitor's orphan stage.  Meanwhile processes come and go, and a pid is  *)
(* used again.                                                             *)
(*                                                                         *)
(* The start time of a process is a number.  Comparing it and sending the  *)
(* signal, two calls in a row, are one step here.  So is the walk over     *)
(* /proc, pid by pid in the code: a process it misses is one that was born *)
(* or lost its parent meanwhile, which is to say right after or right      *)
(* before the step.  Left out is a pid that is used again between the walk *)
(* and the reading of its start time.                                      *)
(***************************************************************************)
EXTENDS Naturals

CONSTANTS Pids, MaxBirths, MaxKills

ReapAssumption == Pids \subseteq Nat \ {0} /\ 1 \in Pids /\ MaxBirths \in Nat /\ MaxKills \in Nat

VARIABLES processes,  \* what runs under each pid
          births,     \* start times given so far
          root,       \* the shard's process, 0 when it has none
          work,       \* the server's kill and the monitor's reaping
          was,        \* ghost: the tree the kill's walk saw
          hit,        \* ghost: processes no agent started that were signalled
          kills

ReapVars == <<processes, births, root, work, was, hit, kills>>

\* ours: started by an agent, which is what its KARAKOS_SHARD says
Gone == [start |-> 0, parent |-> 0, ours |-> FALSE, stubborn |-> FALSE]
Idle == [at |-> "idle", snap |-> {}, termed |-> {}]

Alive == {p \in Pids : processes[p].start > 0}

ReapInit ==
  /\ processes = [p \in Pids |-> IF p = 1 THEN [Gone EXCEPT !.start = 1, !.ours = TRUE] ELSE Gone]
  /\ births = 1
  /\ root = 1
  /\ work = [w \in {"kill", "orphans"} |-> Idle]
  /\ was = {}
  /\ hit = {}
  /\ kills = 0

---------------------------------------------------------------------------
\* Processes.

Born(p, parent, ours, stubborn) ==
  /\ p \notin Alive
  /\ births < MaxBirths
  /\ births' = births + 1
  /\ processes' = [processes EXCEPT ![p] = [start |-> births + 1, parent |-> parent, ours |-> ours,
                                    stubborn |-> stubborn]]

Forks(p, q, stubborn) ==
  /\ p \in Alive /\ processes[p].ours
  /\ Born(q, p, TRUE, stubborn)
  /\ UNCHANGED <<root, work, was, hit, kills>>

Stranger(q) ==
  /\ Born(q, 0, FALSE, FALSE)
  /\ UNCHANGED <<root, work, was, hit, kills>>

\* Its children are init's then.
Without(D) == [p \in Pids |-> IF p \in D THEN Gone
                              ELSE IF processes[p].parent \in D THEN [processes[p] EXCEPT !.parent = 0]
                              ELSE processes[p]]

ProcessExits(p) ==
  /\ p \in Alive /\ p # root
  /\ processes' = Without({p})
  /\ UNCHANGED <<births, root, work, was, hit, kills>>

---------------------------------------------------------------------------
\* snapshot_tree and reap.

Children(S) == {p \in Alive : processes[p].parent \in S}

\* What is reached from S by children.
Walk(S) == {p \in Pids : \A T \in SUBSET Pids : S \subseteq T /\ Children(T) \subseteq T => p \in T}

Tree_Children(p) == {p} \union Children({p})
Tree(p) == Walk({p})

Stamped(S) == {<<p, processes[p].start>> : p \in S}

Snapshot(p) == Stamped(Tree(p) \intersect Alive)

\* _same
Same_Pid(k) == processes[k[1]].start > 0
Same(k) == processes[k[1]].start = k[2]

Strangers(k) == IF processes[k[1]].ours THEN {} ELSE {k[1]}

\* SIGTERM: the process may take its time, and a stubborn one takes it for ever.
Terms(w, k) ==
  /\ work[w].at = "terms"
  /\ k \in work[w].snap
  /\ work' = [work EXCEPT ![w].snap = @ \ {k},
                          ![w].termed = IF Same(k) THEN @ \union {k} ELSE @]
  /\ hit' = IF Same(k) THEN hit \union Strangers(k) ELSE hit
  /\ UNCHANGED <<processes, births, root, was, kills>>

Obeys(w, k) ==
  /\ k \in work[w].termed
  /\ processes[k[1]].start = k[2] /\ ~ processes[k[1]].stubborn
  /\ processes' = Without({k[1]})
  /\ UNCHANGED <<births, root, work, was, hit, kills>>

\* The grace is over.
GraceEnds(w) ==
  /\ work[w].at = "terms" /\ work[w].snap = {}
  /\ work' = [work EXCEPT ![w].at = "kills"]
  /\ UNCHANGED <<processes, births, root, was, hit, kills>>

\* SIGKILL
Signalled_Term(k) == IF processes[k[1]].stubborn THEN {} ELSE {k[1]}
Signalled(k) == {k[1]}

Kills(w, k) ==
  /\ work[w].at = "kills"
  /\ k \in work[w].termed
  /\ work' = [work EXCEPT ![w].termed = @ \ {k}]
  /\ IF Same(k)
     THEN processes' = Without(Signalled(k)) /\ hit' = hit \union Strangers(k)
     ELSE UNCHANGED <<processes, hit>>
  /\ UNCHANGED <<births, root, was, kills>>

Reaped(w) ==
  /\ work[w].at = "kills" /\ work[w].termed = {}
  /\ work' = [work EXCEPT ![w] = Idle]
  /\ UNCHANGED <<processes, births, root, was, hit, kills>>

---------------------------------------------------------------------------
\* kill_agent_subprocess: the snapshot, the root's end, and its reaping.

ReapBegins ==
  /\ kills < MaxKills
  /\ work["kill"] = Idle /\ root # 0
  /\ kills' = kills + 1
  /\ work' = [work EXCEPT !["kill"] = [at |-> "root", snap |-> Snapshot(root), termed |-> {}]]
  /\ was' = Stamped(Walk({root}))
  /\ UNCHANGED <<processes, births, root, hit>>

RootDies ==
  /\ work["kill"].at = "root"
  /\ processes' = Without({root})
  /\ work' = [work EXCEPT !["kill"].at = "terms", !["kill"].snap = {k \in @ : k[1] # root}]
  /\ root' = 0
  /\ UNCHANGED <<births, was, hit, kills>>

RootRespawns(p) ==
  /\ root = 0 /\ work["kill"] = Idle
  /\ Born(p, 0, TRUE, FALSE)
  /\ root' = p
  /\ UNCHANGED <<work, was, hit, kills>>

\* find_orphans, of which one is taken: ours, a child of init, in no live
\* shard's tree.
Orphan(p) == p \in Alive /\ processes[p].ours /\ processes[p].parent = 0 /\ p # root

OrphanFound(p) ==
  /\ work["orphans"] = Idle
  /\ Orphan(p)
  /\ work' = [work EXCEPT !["orphans"] =
                [at |-> "found", snap |-> {<<p, processes[p].start>>}, termed |-> {}]]
  /\ UNCHANGED <<processes, births, root, was, hit, kills>>

\* reap_orphans takes the tree of what was found, unless the pid is another's.
OrphanTaken ==
  /\ work["orphans"].at = "found"
  /\ LET k == CHOOSE x \in work["orphans"].snap : TRUE
     IN work' = [work EXCEPT !["orphans"] =
                   IF Same(k) THEN [at |-> "terms", snap |-> Snapshot(k[1]), termed |-> {}] ELSE Idle]
  /\ UNCHANGED <<processes, births, root, was, hit, kills>>

---------------------------------------------------------------------------

ReapNext ==
  \/ \E p, q \in Pids, s \in BOOLEAN : Forks(p, q, s)
  \/ \E p \in Pids : Stranger(p) \/ ProcessExits(p) \/ RootRespawns(p) \/ OrphanFound(p)
  \/ \E w \in {"kill", "orphans"} :
       \/ \E k \in Pids \X (1..MaxBirths) : Terms(w, k) \/ Obeys(w, k) \/ Kills(w, k)
       \/ GraceEnds(w) \/ Reaped(w)
  \/ ReapBegins \/ RootDies \/ OrphanTaken

ReapSpec == ReapInit /\ [][ReapNext]_ReapVars

\* The reaping goes on once begun, and the monitor looks for orphans again and again.
ReapFair ==
  /\ \A w \in {"kill", "orphans"} :
       /\ WF_ReapVars(\E k \in Pids \X (1..MaxBirths) : Terms(w, k))
       /\ WF_ReapVars(\E k \in Pids \X (1..MaxBirths) : Kills(w, k))
       /\ WF_ReapVars(GraceEnds(w)) /\ WF_ReapVars(Reaped(w))
  /\ WF_ReapVars(RootDies) /\ WF_ReapVars(OrphanTaken)
  /\ \A p \in Pids : SF_ReapVars(OrphanFound(p))

---------------------------------------------------------------------------

\* However long the root takes to go and whatever runs under the pids of the
\* snapshot by then, no process is signalled that an agent has not started.
OnlyTheTree == hit = {}

\* When the kill is over nothing of the tree its walk has seen is left, though the
\* children have lost their parent to it.
NothingLeft ==
  root = 0 /\ work["kill"] = Idle => \A k \in was : processes[k[1]].start # k[2]

\* What escapes the kill, forked or orphaned around the snapshot, does not stay.
OrphansGo == \A p \in Pids : Orphan(p) ~> ~ Orphan(p)

=============================================================================
